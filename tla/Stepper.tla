------------------------------ MODULE Stepper ------------------------------
(***************************************************************************)
(* The stepper motor driver of the robot arm (stepper.c, the STEPPER_ISR   *)
(* macro of stepper.h) together with the control-packet handler of main.c  *)
(* that calls it.                                                          *)
(*                                                                         *)
(* Two kinds of actor share one core.  The main loop executes one request  *)
(* at a time (MOVE_TO, ENABLE or DISABLE); the timer of a running motor    *)
(* overflows and its interrupt handler performs one step of the motion.    *)
(* Interrupts are never masked and all have the same priority: a handler   *)
(* runs to its end before anything else does, and the main loop executes   *)
(* only when no handler is pending.  A handler may therefore run between   *)
(* any two memory accesses of the main loop, in particular between the     *)
(* load and the store of a read-modify-write:                              *)
(*                                                                         *)
(*   - the bits stepper_moving, stepper_enabled, auto_enable_disable of a  *)
(*     motor share one byte, and                                           *)
(*   - the DIR and MF pins of all motors are bits of the one word          *)
(*     GPIOB_ODR (device.h gives every motor GPIOB_BASE).                  *)
(*                                                                         *)
(* Abstracted: the passing of time (a running timer overflows eventually;  *)
(* TIM_CNT, TIM_ARR and TIM_PSC only set how soon), the pulse on the PU    *)
(* pin, which the handler always leaves as it found it, and the packets    *)
(* that carry requests and replies.                                        *)
(***************************************************************************)
EXTENDS Integers

CONSTANTS
    Motors,        \* stepper_motors[]
    TimerMotors,   \* those whose timer is clocked and served by a STEPPER_ISR
    AutoMotors,    \* auto_enable_disable = true
    BootMotor,     \* stepper0, which main enables at boot
    min_sps,       \* steps per second at which a motion starts and ends
    max_sps,       \* steps per second a motion may reach
    sps_inc,       \* change of speed per step while speeding up, slowing down
    INT32_MAX,     \* largest int32_t: 2147483647, smaller in runs
    UINT16_MAX,    \* largest uint16_t: 65535, smaller in runs
    Requests       \* control requests the host may send

INT32_MIN == -INT32_MAX - 1
Int32 == INT32_MIN..INT32_MAX
TwoTo32 == 2 * (INT32_MAX + 1)
Ops == {"MOVE_TO", "ENABLE", "DISABLE"}

ASSUME MotorAssumption ==
    /\ TimerMotors \subseteq Motors
    /\ AutoMotors \subseteq Motors
    /\ BootMotor \in Motors \ AutoMotors
ASSUME SpeedAssumption ==
    /\ UINT16_MAX \in Nat
    /\ min_sps \in [Motors -> 1..UINT16_MAX]
    /\ max_sps \in [Motors -> 1..UINT16_MAX]
    /\ sps_inc \in [Motors -> 1..UINT16_MAX]
    /\ \A m \in Motors : min_sps[m] <= max_sps[m]
\* main.c:234-250 hands any int32_t of a packet on to stepper_simple_move.
ASSUME RequestAssumption ==
    /\ INT32_MAX \in Nat /\ INT32_MAX >= 2
    /\ Requests \subseteq [op : Ops, motor : Motors, pos : Int32]

VARIABLES
    position,      \* stepper_t.position
    current_dir,   \* stepper_t.current_dir
    cop,           \* stepper_t.cop, the current operation
    flags,         \* the byte of bit-fields: the bits that are set
    odr,           \* GPIOB_ODR: the MF and DIR bits that are set
    cen,           \* motors whose timer runs (TIM_CR1_CEN)
    uif,           \* motors whose update interrupt is pending (TIM_SR_UIF)
    pc,            \* what the main loop executes next
    req,           \* the request it is executing
    byte, word     \* what it loaded from flags[req.motor] and from odr

motorVars == <<position, current_dir, cop, flags>>
timerVars == <<cen, uif>>
mainVars == <<pc, req, byte, word>>
vars == <<motorVars, odr, timerVars, mainVars>>

NoRequest == [op |-> "DISABLE", motor |-> BootMotor, pos |-> 0]
Pins == {"MF", "DIR"} \X Motors

-----------------------------------------------------------------------------
(* What the code computes.                                                 *)

(* A definition named Name_X is Name with a plausible mistake, X, in it: no  *)
(* specification uses it, it serves to see that the properties notice.      *)

\* "Waits until stepper ready for usage": whether a flag byte says so.
Ready_Always(bits) == TRUE
Ready(bits) == "MOVING" \notin bits

Direction(m, target) == IF target > position[m] THEN "FORWARD" ELSE "BACKWARD"

(* total_steps is a uint32_t: the subtraction of two int32_t stored in it    *)
(* may overflow, and what a build that wraps leaves there is the distance.  *)
Distance(m, target) ==
    IF target > position[m] THEN target - position[m] ELSE position[m] - target

\* "Rounds the number if not even", in a uint32_t.
RoundUp_Down(n) == n - (n % 2)
RoundUp(n) == (n + (n % 2)) % TwoTo32

\* Number of steps it takes to reach max_sps.
ramp_step_size(m) == (max_sps[m] - min_sps[m]) \div sps_inc[m]

\* How many steps of a motion of n steps speed up, and as many slow down.
RampSteps_Uncut(m, n) == ramp_step_size(m)
RampSteps(m, n) ==
    IF ramp_step_size(m) > n \div 2 THEN n \div 2 ELSE ramp_step_size(m)

\* The operation of n steps, ready to start.
Plan(m, n) ==
    [total_steps       |-> n,
     done_steps        |-> 0,
     stop_speedup_at   |-> RampSteps(m, n),
     start_slowdown_at |-> n - RampSteps(m, n),
     target_pos        |-> cop[m].target_pos,
     current_sps       |-> min_sps[m]]

\* The position of m after the coming step, in an int32_t.
Stepped(m) ==
    IF current_dir[m] = "FORWARD"
    THEN IF position[m] = INT32_MAX THEN INT32_MIN ELSE position[m] + 1
    ELSE IF position[m] = INT32_MIN THEN INT32_MAX ELSE position[m] - 1

\* The handler has nothing left to do but to stop the motor.
AllDone_After(m) == cop[m].done_steps > cop[m].total_steps
AllDone(m) == cop[m].done_steps >= cop[m].total_steps

\* Steps the current operation of m still has to make.
Remaining(m) == cop[m].total_steps - cop[m].done_steps

\* The speed after the coming step, in a uint16_t.
NextSps_Late(m) ==
    LET c == cop[m] IN
    IF c.done_steps <= c.stop_speedup_at
    THEN (c.current_sps + sps_inc[m]) % (UINT16_MAX + 1)
    ELSE IF c.done_steps >= c.start_slowdown_at
         THEN (c.current_sps - sps_inc[m]) % (UINT16_MAX + 1)
         ELSE c.current_sps
NextSps(m) ==
    LET c == cop[m] IN
    IF c.done_steps < c.stop_speedup_at
    THEN (c.current_sps + sps_inc[m]) % (UINT16_MAX + 1)
    ELSE IF c.done_steps >= c.start_slowdown_at
         THEN (c.current_sps - sps_inc[m]) % (UINT16_MAX + 1)
         ELSE c.current_sps

\* The flag byte with stepper_enabled changed, and the bits of it that the
\* handler clears when it stops a motor.
WithEnabled_Byte(bits, on) == IF on THEN {"ENABLED"} ELSE {}
WithEnabled(bits, on) ==
    IF on THEN bits \cup {"ENABLED"} ELSE bits \ {"ENABLED"}
StopBits(m) == IF m \in AutoMotors THEN {"ENABLED", "MOVING"} ELSE {"MOVING"}

\* The ODR word with the DIR or the MF pin of one motor changed.
WithDir_Set(pins, m) ==
    IF current_dir[m] = "BACKWARD" THEN pins \cup {<<"DIR", m>>} ELSE pins
WithDir(pins, m) ==
    IF current_dir[m] = "BACKWARD" THEN pins \cup {<<"DIR", m>>}
                                   ELSE pins \ {<<"DIR", m>>}
WithMf(pins, m, on) ==
    IF on THEN pins \cup {<<"MF", m>>} ELSE pins \ {<<"MF", m>>}

\* Whether the enable/disable call being executed is stepper_enable: MOVE_TO
\* makes it for a motor in AUTO mode.
Enabling_Asked == req.op = "ENABLE"
Enabling == req.op \in {"ENABLE", "MOVE_TO"}

-----------------------------------------------------------------------------
Init ==
    /\ position = [m \in Motors |-> 0]
    /\ current_dir = [m \in Motors |-> "FORWARD"]
    /\ cop = [m \in Motors |->
                [total_steps |-> 0, done_steps |-> 0, stop_speedup_at |-> 0,
                 start_slowdown_at |-> 0, target_pos |-> 0, current_sps |-> 0]]
    /\ flags = [m \in Motors |-> {}]
    /\ odr = {}
    /\ cen = {}
    /\ uif = {}
    /\ pc = "boot"
    /\ req = NoRequest
    /\ byte = {}
    /\ word = {}

(* stepper_init of every motor and stepper_enable(&stepper0), before any   *)
(* handler can change what they touch.                                     *)
SteppersInit ==
    /\ pc = "boot"
    /\ odr' = {<<"DIR", m>> : m \in Motors} \cup {<<"MF", BootMotor>>}
    /\ flags' = [flags EXCEPT ![BootMotor] = {"ENABLED"}]
    /\ pc' = "poll"
    /\ UNCHANGED <<position, current_dir, cop, timerVars, req, byte, word>>

\* The main loop runs only when no interrupt is pending.
MainRuns == uif = {}

\* The request has been executed: back to manager_poll.
Return ==
    /\ pc' = "poll"
    /\ req' = NoRequest
    /\ byte' = {}
    /\ word' = {}

(* manager_handle_control_packet dispatches a request; the function it     *)
(* calls begins by loading the flag byte of the motor.                     *)
manager_handle_control_packet(r) ==
    /\ pc = "poll" /\ MainRuns
    /\ req' = r
    /\ byte' = flags[r.motor]
    /\ pc' = IF r.op = "MOVE_TO" THEN "move" ELSE "flag"
    /\ UNCHANGED <<motorVars, odr, timerVars, word>>

\* "Waits until stepper ready for usage": returns instead.
MoveBusy ==
    /\ pc = "move" /\ MainRuns
    /\ ~Ready(byte)
    /\ Return
    /\ UNCHANGED <<motorVars, odr, timerVars>>

\* Claims the motor, measures the distance, enters stepper_set_dir up to its
\* load of GPIOB_ODR.
MoveClaim ==
    LET m == req.motor IN
    /\ pc = "move" /\ MainRuns
    /\ Ready(byte)
    /\ flags' = [flags EXCEPT ![m] = byte \cup {"MOVING"}]
    /\ cop' = [cop EXCEPT ![m].target_pos = req.pos,
                          ![m].total_steps = Distance(m, req.pos)]
    /\ current_dir' = [current_dir EXCEPT ![m] = Direction(m, req.pos)]
    /\ word' = odr
    /\ byte' = {}
    /\ pc' = "dir"
    /\ UNCHANGED <<position, odr, timerVars, req>>

\* Stores GPIOB_ODR, plans the ramps and, for a motor in AUTO mode, enters
\* stepper_enable up to its load of the flag byte.
MovePlan ==
    LET m == req.motor IN
    /\ pc = "dir" /\ MainRuns
    /\ odr' = WithDir(word, m)
    /\ cop' = [cop EXCEPT ![m] = Plan(m, RoundUp(@.total_steps))]
    /\ word' = {}
    /\ IF m \in AutoMotors THEN byte' = flags[m] /\ pc' = "flag"
                           ELSE byte' = byte /\ pc' = "start"
    /\ UNCHANGED <<position, current_dir, flags, timerVars, req>>

\* stepper_enable, stepper_disable: stores the flag byte, loads GPIOB_ODR.
StoreEnabled ==
    /\ pc = "flag" /\ MainRuns
    /\ flags' = [flags EXCEPT ![req.motor] = WithEnabled(byte, Enabling)]
    /\ word' = odr
    /\ byte' = {}
    /\ pc' = "pin"
    /\ UNCHANGED <<position, current_dir, cop, odr, timerVars, req>>

\* stepper_enable, stepper_disable: stores GPIOB_ODR.
StoreMf ==
    /\ pc = "pin" /\ MainRuns
    /\ odr' = WithMf(word, req.motor, Enabling)
    /\ IF req.op = "MOVE_TO"
       THEN pc' = "start" /\ word' = {} /\ UNCHANGED <<req, byte>>
       ELSE Return
    /\ UNCHANGED <<motorVars, timerVars>>

\* Starts the timer; a timer without a clock ignores the write.
MoveStart ==
    /\ pc = "start" /\ MainRuns
    /\ cen' = cen \cup ({req.motor} \cap TimerMotors)
    /\ Return
    /\ UNCHANGED <<motorVars, odr, uif>>

MainStep ==
    \/ SteppersInit
    \/ MoveBusy
    \/ MoveClaim
    \/ MovePlan
    \/ StoreEnabled
    \/ StoreMf
    \/ MoveStart

-----------------------------------------------------------------------------
\* The timer of a running motor reaches its auto-reload value.
Overflow(m) ==
    /\ m \in cen /\ m \notin uif
    /\ uif' = uif \cup {m}
    /\ UNCHANGED <<motorVars, odr, cen, mainVars>>

(* STEPPER_ISR with all steps done.  The timer still runs between the      *)
(* clearing of UIF and of CEN, so UIF may be set again when it returns; the *)
(* handler then runs once more.                                            *)
IsrStop(m) ==
    /\ m \in uif /\ AllDone(m)
    /\ uif' = uif \ {m} \/ (m \in cen /\ uif' = uif)
    /\ flags' = [flags EXCEPT ![m] = @ \ StopBits(m)]
    /\ odr' = IF m \in AutoMotors THEN WithMf(odr, m, FALSE) ELSE odr
    /\ cop' = [cop EXCEPT ![m].current_sps = 0]
    /\ cen' = cen \ {m}
    /\ UNCHANGED <<position, current_dir, mainVars>>

\* STEPPER_ISR with steps left: one pulse, the new speed, the new position.
IsrStep_Idle(m) ==
    /\ m \in uif /\ ~AllDone(m)
    /\ uif' = uif \ {m}
    /\ UNCHANGED <<motorVars, odr, cen, mainVars>>
IsrStep_Clears(m) ==
    /\ m \in uif /\ ~AllDone(m)
    /\ uif' = uif \ {m}
    /\ cop' = [cop EXCEPT ![m].current_sps = NextSps(m),
                          ![m].done_steps = @ + 1]
    /\ position' = [position EXCEPT ![m] = Stepped(m)]
    /\ flags' = [flags EXCEPT ![m] = IF Remaining(m) = 1 THEN @ \ {"MOVING"} ELSE @]
    /\ UNCHANGED <<current_dir, odr, cen, mainVars>>
IsrStep(m) ==
    /\ m \in uif /\ ~AllDone(m)
    /\ uif' = uif \ {m}
    /\ cop' = [cop EXCEPT ![m].current_sps = NextSps(m),
                          ![m].done_steps = @ + 1]
    /\ position' = [position EXCEPT ![m] = Stepped(m)]
    /\ UNCHANGED <<current_dir, flags, odr, cen, mainVars>>

STEPPER_ISR(m) == IsrStop(m) \/ IsrStep(m)

Next ==
    \/ MainStep
    \/ \E r \in Requests : manager_handle_control_packet(r)
    \/ \E m \in TimerMotors : Overflow(m) \/ STEPPER_ISR(m)

Spec == Init /\ [][Next]_vars

(* The main loop never stops executing a request it has begun, a running   *)
(* timer overflows, and a pending interrupt is served: a handler is much   *)
(* shorter than the period of any timer.  The host owes no request.        *)
Fairness ==
    /\ WF_vars(MainStep)
    /\ \A m \in TimerMotors : WF_vars(Overflow(m)) /\ WF_vars(STEPPER_ISR(m))

FairSpec == Spec /\ Fairness

-----------------------------------------------------------------------------
(* Properties.                                                             *)

OpType == [total_steps : 0..(TwoTo32 - 1), done_steps : Nat,
           stop_speedup_at : Nat, start_slowdown_at : Nat, target_pos : Int32,
           current_sps : 0..UINT16_MAX]

\* Every variable has the type its C declaration gives it.
TypeOK ==
    /\ position \in [Motors -> Int32]
    /\ current_dir \in [Motors -> {"FORWARD", "BACKWARD"}]
    /\ cop \in [Motors -> OpType]
    /\ flags \in [Motors -> SUBSET {"MOVING", "ENABLED"}]
    /\ odr \in SUBSET Pins
    /\ cen \in SUBSET TimerMotors
    /\ uif \in SUBSET TimerMotors
    /\ pc \in {"boot", "poll", "move", "dir", "flag", "pin", "start"}
    /\ req \in Requests \cup {NoRequest}
    /\ byte \in SUBSET {"MOVING", "ENABLED"}
    /\ word \in SUBSET Pins

\* The main loop is executing stepper_simple_move for m and has claimed it.
Preparing(m) ==
    /\ req.op = "MOVE_TO" /\ req.motor = m
    /\ pc \in {"dir", "flag", "pin", "start"}

\* Where the current operation of m ends.
Destination(m) ==
    IF current_dir[m] = "FORWARD" THEN position[m] + Remaining(m)
                                  ELSE position[m] - Remaining(m)

\* The plan of m is complete: not between stepper_simple_move's measuring of
\* the distance and its planning of the ramps.
Planned(m) == ~(pc = "dir" /\ req.motor = m)

(* A motor whose timer runs is marked MOVING, so no second MOVE_TO takes    *)
(* over its operation: the flag byte is stored back by the main loop        *)
(* (stepper.c:62, :68, :76) from a copy the handler may have outdated, and  *)
(* that must never lose MOVING of a running motor.                          *)
RunningImpliesMoving == \A m \in cen : "MOVING" \in flags[m]

\* The step behind the last int32_t wrapped: a motion to one end of the range
\* has come out at the other end.
WrappedAround(m) ==
    /\ Remaining(m) = 0
    /\ IF current_dir[m] = "FORWARD"
       THEN cop[m].target_pos = INT32_MAX /\ position[m] = INT32_MIN
       ELSE cop[m].target_pos = INT32_MIN /\ position[m] = INT32_MAX

(* The motion ends within one step of the requested position, on the far    *)
(* side of it: over all steps of the handler the position, the direction    *)
(* and the counter of done steps stay in agreement (stepper.c:85-102,       *)
(* stepper.h:89-91).  It does so for every int32_t the host may ask for,    *)
(* although the subtractions of stepper.c:87 and :92 may overflow, but for  *)
(* the two ends of the range: the odd step behind them wraps.               *)
LandsNearTarget ==
    \A m \in Motors : Planned(m) =>
        \/ IF current_dir[m] = "FORWARD"
           THEN Destination(m) - cop[m].target_pos \in {0, 1}
           ELSE cop[m].target_pos - Destination(m) \in {0, 1}
        \/ WrappedAround(m)

(* The speed of a running motor rises from min_sps by sps_inc per step and  *)
(* falls back the same way: the ramps of stepper.c:108-116 and the two      *)
(* tests of stepper.h:78-86 fit together for every distance.                *)
SymmetricRamp ==
    \A m \in cen :
        LET c == cop[m]
            \* steps from the nearer end of the motion, ramps cut off
            k == IF c.done_steps <= c.stop_speedup_at THEN c.done_steps
                 ELSE IF c.done_steps <= c.start_slowdown_at
                      THEN c.stop_speedup_at ELSE Remaining(m)
        IN c.current_sps = min_sps[m] + sps_inc[m] * k

(* A running motor never turns slower than min_sps nor faster than max_sps, *)
(* the limits MOTOR_INFO reports, so the uint16_t current_sps never wraps   *)
(* and 1000000 / current_sps never divides by zero.                         *)
SpeedInRange ==
    \A m \in cen : cop[m].current_sps \in min_sps[m]..max_sps[m]

(* The DIR pin of a running motor agrees with the direction in which the    *)
(* handler counts, whatever read-modify-writes of GPIOB_ODR the main loop   *)
(* and the handlers interleave: else the arm and its position part.         *)
DirPinAgrees ==
    \A m \in cen : (<<"DIR", m>> \in odr) <=> (current_dir[m] = "BACKWARD")

(* The MF pin of a MANUAL motor shows what STATUS reports as ENABLED, except *)
(* inside stepper_enable and stepper_disable: no handler and no access to   *)
(* another motor's pins disturbs it.                                        *)
ManualPinMatchesFlag ==
    \A m \in Motors \ AutoMotors :
        ~(pc = "pin" /\ req.motor = m) =>
            ((<<"MF", m>> \in odr) <=> ("ENABLED" \in flags[m]))

(* However loads and stores of GPIOB_ODR interleave, a running motor turns  *)
(* the way it is counted, and a MANUAL motor is powered as it is reported.   *)
PinsMatch == DirPinAgrees /\ ManualPinMatchesFlag

(* While a motor runs nothing changes what it is doing: MOVE_TO requests    *)
(* for it are turned away (stepper.c:75).                                   *)
PlanIsFixed ==
    [][\A m \in cen :
          /\ current_dir'[m] = current_dir[m]
          /\ cop'[m].total_steps = cop[m].total_steps
          /\ cop'[m].target_pos = cop[m].target_pos]_vars

(* A motor in AUTO mode is powered and reported ENABLED as long as it runs, *)
(* if the host leaves ENABLE and DISABLE of such motors alone               *)
(* (control.h:32).                                                          *)
AutoPoweredWhileRunning ==
    \A m \in cen \cap AutoMotors :
        <<"MF", m>> \in odr /\ "ENABLED" \in flags[m]

(* A motor marked MOVING is some time ready for another MOVE_TO.            *)
ReadyAgain ==
    \A m \in Motors :
        ("MOVING" \in flags[m]) ~> ("MOVING" \notin flags[m])
=============================================================================

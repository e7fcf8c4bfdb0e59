--------------------------- MODULE StepperProofs ---------------------------
(***************************************************************************)
(* Proofs about Stepper, for all motors, speeds and requests, and about    *)
(* Timers, which gives its steps their time.                               *)
(***************************************************************************)
EXTENDS StepperInvariant, StepperStatus, Timers, TLAPS

-----------------------------------------------------------------------------
(* Arithmetic.                                                             *)

\* Half of a number, rounded down.
LEMMA Half ==
    ASSUME NEW n \in Nat
    PROVE  n \div 2 \in Nat /\ 2 * (n \div 2) <= n
  BY SMT

\* The parity the driver computes with.
LEMMA Parity ==
    ASSUME NEW n \in Nat
    PROVE  n % 2 \in {0, 1} /\ (n + (n % 2)) % 2 = 0
  BY SMT

\* A quotient is at most its dividend over its divisor (stepper.c:108).
LEMMA Quotient ==
    ASSUME NEW n \in Nat, NEW d \in Nat, d >= 1
    PROVE  n \div d \in Nat /\ d * (n \div d) <= n
  BY SMT

\* More steps of a ramp, more speed.
LEMMA Monotone ==
    ASSUME NEW d \in Nat, NEW k \in Nat, NEW l \in Nat, k <= l
    PROVE  d * k \in Nat /\ d * k <= d * l
  BY SMT

\* One step of a ramp.
LEMMA NextMultiple ==
    ASSUME NEW d \in Nat, NEW k \in Int
    PROVE  d * (k + 1) = d * k + d /\ d * (k - 1) = d * k - d
  BY SMT

LEMMA RampNat ==
    ASSUME NEW m \in Motors
    PROVE  /\ ramp_step_size(m) \in Nat
           /\ sps_inc[m] * ramp_step_size(m) <= max_sps[m] - min_sps[m]
  <1>1. /\ max_sps[m] - min_sps[m] \in Nat
        /\ sps_inc[m] \in Nat /\ sps_inc[m] >= 1
    <2>1. min_sps[m] \in 1..UINT16_MAX /\ max_sps[m] \in 1..UINT16_MAX /\ sps_inc[m] \in 1..UINT16_MAX
      BY SpeedAssumption 
    <2>2. min_sps[m] <= max_sps[m]
      BY SpeedAssumption 
    <2> QED
      BY <2>1, <2>2
  <1> QED
    BY <1>1, Quotient DEF ramp_step_size

\* The ramps of a motion fit into it (stepper.c:110-116).
LEMMA RampFits ==
    ASSUME NEW m \in Motors, NEW n \in Nat
    PROVE  /\ RampSteps(m, n) \in Nat
           /\ 2 * RampSteps(m, n) <= n
           /\ n - RampSteps(m, n) \in Nat
           /\ RampSteps(m, n) <= ramp_step_size(m)
  <1>1. n \div 2 \in Nat /\ 2 * (n \div 2) <= n
    BY Half
  <1>2. ramp_step_size(m) \in Nat
    BY RampNat
  <1> QED
    BY <1>1, <1>2 DEF RampSteps

\* A uint16_t never leaves its range, and wraps only outside it.
LEMMA Uint16 ==
    ASSUME NEW x \in Int
    PROVE  /\ x % (UINT16_MAX + 1) \in 0..UINT16_MAX
           /\ x \in 0..UINT16_MAX => x % (UINT16_MAX + 1) = x
  <1>1. UINT16_MAX \in Nat
    BY SpeedAssumption
  <1>2. ASSUME NEW n \in Nat, n >= 1
        PROVE  /\ x % n \in 0..(n - 1)
               /\ x \in 0..(n - 1) => x % n = x
    BY <1>2, SMT
  <1>3. UINT16_MAX + 1 \in Nat /\ UINT16_MAX + 1 >= 1 /\ (UINT16_MAX + 1) - 1 = UINT16_MAX
    BY <1>1
  <1> QED
    BY <1>2, <1>3, Zenon

LEMMA Speeds ==
    ASSUME NEW m \in Motors
    PROVE  /\ UINT16_MAX \in Nat
           /\ min_sps[m] \in 1..UINT16_MAX
           /\ max_sps[m] \in 1..UINT16_MAX
           /\ sps_inc[m] \in 1..UINT16_MAX
           /\ min_sps[m] <= max_sps[m]
  BY SpeedAssumption

\* The range of an int32_t.
LEMMA Range32 ==
    /\ INT32_MAX \in Nat /\ INT32_MAX >= 2
    /\ INT32_MIN \in Int /\ INT32_MIN = -INT32_MAX - 1
    /\ TwoTo32 \in Nat /\ TwoTo32 = 2 * INT32_MAX + 2
    /\ 0 \in Int32 /\ Int32 \subseteq Int
  BY RequestAssumption DEF INT32_MIN, TwoTo32, Int32

LEMMA RequestType ==
    ASSUME NEW r \in Requests \cup {NoRequest}
    PROVE  r.op \in Ops /\ r.motor \in Motors /\ r.pos \in Int32 /\ r.pos \in Int
  <1>1. 0 \in Int32 /\ Int32 \subseteq Int
    BY Range32
  <1>2. CASE r \in Requests
    <2>1. r \in [op : Ops, motor : Motors, pos : Int32]
      BY <1>2, RequestAssumption
    <2> QED
      BY <1>1, <2>1
  <1>3. CASE r = NoRequest
    BY <1>1, <1>3, MotorAssumption DEF NoRequest, Ops
  <1> QED
    BY <1>2, <1>3

-----------------------------------------------------------------------------
(* Types.                                                                  *)

\* The distance between two int32_t is a uint32_t.
LEMMA DistanceType ==
    ASSUME NEW m \in Motors, position[m] \in Int32, NEW t \in Int32
    PROVE  /\ Distance(m, t) \in 0..(TwoTo32 - 1)
           /\ Distance(m, t) \in Nat
           /\ Distance(m, t) = TwoTo32 - 1 =>
                 \/ t = INT32_MAX /\ position[m] = INT32_MIN
                 \/ t = INT32_MIN /\ position[m] = INT32_MAX
  BY Range32 DEF Distance, Int32

\* Rounding makes a distance even; the largest one it wraps to zero.
LEMMA RoundUpType ==
    ASSUME NEW n \in 0..(TwoTo32 - 1)
    PROVE  /\ RoundUp(n) \in 0..(TwoTo32 - 1)
           /\ RoundUp(n) % 2 = 0
           /\ \/ RoundUp(n) = n + (n % 2)
              \/ n = TwoTo32 - 1 /\ RoundUp(n) = 0
  <1>1. TwoTo32 \in Nat /\ TwoTo32 >= 2 /\ TwoTo32 % 2 = 0 /\ n \in Nat
    <2>1. ASSUME NEW k \in Nat PROVE (2 * k + 2) % 2 = 0
      BY SMT
    <2> QED
      BY <2>1, Range32
  <1>2. n % 2 \in {0, 1} /\ (n + (n % 2)) % 2 = 0
    BY <1>1, Parity
  <1>3. ASSUME NEW w \in Nat, w >= 1
        PROVE  w % w = 0 /\ \A x \in 0..(w - 1) : x % w = x
    BY <1>3, SMT
  <1>4. CASE n + (n % 2) \in 0..(TwoTo32 - 1)
    <2>1. RoundUp(n) = n + (n % 2)
      BY <1>1, <1>3, <1>4 DEF RoundUp
    <2> QED
      BY <1>2, <1>4, <2>1
  <1>5. CASE n + (n % 2) = TwoTo32
    <2>1. RoundUp(n) = 0
      BY <1>1, <1>3, <1>5 DEF RoundUp
    <2>2. n = TwoTo32 - 1
      BY <1>1, <1>2, <1>5
    <2> QED
      BY <1>1, <2>1, <2>2
  <1> QED
    BY <1>1, <1>2, <1>4, <1>5

\* What the types say of one motor.
LEMMA MotorTypes ==
    ASSUME TypeOK, NEW m \in Motors
    PROVE  /\ position[m] \in Int32 /\ position[m] \in Int
           /\ cop[m] \in OpType
           /\ cop[m].target_pos \in Int32 /\ cop[m].target_pos \in Int
           /\ cop[m].total_steps \in Nat /\ cop[m].done_steps \in Nat
           /\ cop[m].current_sps \in 0..UINT16_MAX /\ cop[m].current_sps \in Int
  <1>1. position[m] \in Int32 /\ cop[m] \in OpType
    BY DEF TypeOK
  <1>2. /\ cop[m].target_pos \in Int32 /\ cop[m].total_steps \in 0..(TwoTo32 - 1)
        /\ cop[m].done_steps \in Nat /\ cop[m].current_sps \in 0..UINT16_MAX
    BY <1>1 DEF OpType
  <1> QED
    <2>1. ASSUME NEW w \in Nat, NEW x \in 0..(w - 1) PROVE x \in Nat
      BY <2>1
    <2>2. cop[m].total_steps \in Nat
      BY <1>2, <2>1, Range32
    <2>3. cop[m].current_sps \in Int
      BY <1>2, SpeedAssumption
    <2>4. position[m] \in Int /\ cop[m].target_pos \in Int
      BY <1>1, <1>2, Range32, Zenon
    <2> QED
      BY <1>1, <1>2, <2>2, <2>3, <2>4

\* The coming step keeps the position an int32_t.
LEMMA SteppedType ==
    ASSUME NEW m \in Motors, position[m] \in Int32
    PROVE  /\ Stepped(m) \in Int32
           /\ \/ Stepped(m) = IF current_dir[m] = "FORWARD" THEN position[m] + 1
                                                          ELSE position[m] - 1
              \/ /\ current_dir[m] = "FORWARD"
                 /\ position[m] = INT32_MAX /\ Stepped(m) = INT32_MIN
              \/ /\ current_dir[m] # "FORWARD"
                 /\ position[m] = INT32_MIN /\ Stepped(m) = INT32_MAX
  BY Range32 DEF Stepped, Int32

LEMMA PlanType ==
    ASSUME TypeOK, NEW m \in Motors, NEW n \in 0..(TwoTo32 - 1)
    PROVE  Plan(m, n) \in OpType
  <1>0. n \in Nat
    BY Range32
  <1>1. cop[m].target_pos \in Int32
    BY DEF TypeOK, OpType
  <1>2. RampSteps(m, n) \in Nat /\ n - RampSteps(m, n) \in Nat
    BY <1>0, RampFits
  <1>3. min_sps[m] \in 0..UINT16_MAX
    BY Speeds
  <1> QED
    BY <1>1, <1>2, <1>3 DEF Plan, OpType

LEMMA NextSpsType ==
    ASSUME TypeOK, NEW m \in Motors
    PROVE  NextSps(m) \in 0..UINT16_MAX
  <1>1. /\ cop[m].current_sps \in 0..UINT16_MAX
        /\ cop[m].current_sps \in Int /\ sps_inc[m] \in Int
    BY Speeds DEF TypeOK, OpType
  <1>2. /\ (cop[m].current_sps + sps_inc[m]) % (UINT16_MAX + 1) \in 0..UINT16_MAX
        /\ (cop[m].current_sps - sps_inc[m]) % (UINT16_MAX + 1) \in 0..UINT16_MAX
    BY <1>1, Uint16
  <1> QED
    BY <1>1, <1>2 DEF NextSps

(* Every variable keeps its type: the uint16_t speed stays a uint16_t, the   *)
(* counters of the operation stay unsigned (stepper.h:23-46).               *)
THEOREM TypeCorrect == Spec => []TypeOK
  <1>1. Init => TypeOK
    <2> SUFFICES ASSUME Init PROVE TypeOK
      OBVIOUS
    <2>1. 0 \in Int32 /\ 0 \in 0..(TwoTo32 - 1)
      BY Range32
    <2>2. 0 \in 0..UINT16_MAX
      BY SpeedAssumption
    <2> QED
      BY <2>1, <2>2 DEF Init, TypeOK, OpType
  <1>2. TypeOK /\ [Next]_vars => TypeOK'
    <2> SUFFICES ASSUME TypeOK, [Next]_vars PROVE TypeOK'
      OBVIOUS
    <2>0. req.motor \in Motors /\ req.pos \in Int32
      BY RequestType DEF TypeOK
    <2>1. CASE SteppersInit
      BY <2>1, MotorAssumption
         DEF SteppersInit, TypeOK, Pins, timerVars
    <2>2. ASSUME NEW r \in Requests, manager_handle_control_packet(r)
          PROVE  TypeOK'
      <3>1. r.motor \in Motors
        BY RequestType
      <3> QED
        BY <2>2, <3>1 DEF manager_handle_control_packet, TypeOK, motorVars, timerVars
    <2>3. CASE MoveBusy
      BY <2>3 DEF MoveBusy, Ready, Return, TypeOK, motorVars, timerVars
    <2>4. CASE MoveClaim
      <3> DEFINE m == req.motor
      <3>1. Distance(m, req.pos) \in 0..(TwoTo32 - 1)
        BY <2>0, DistanceType DEF TypeOK
      <3>2. [cop[m] EXCEPT !.target_pos = req.pos,
                           !.total_steps = Distance(m, req.pos)] \in OpType
        BY <2>0, <3>1 DEF TypeOK, OpType
      <3>3. cop' \in [Motors -> OpType]
        BY <2>4, <2>0, <3>2 DEF MoveClaim, Ready, TypeOK
      <3>4. current_dir' \in [Motors -> {"FORWARD", "BACKWARD"}]
        BY <2>4, <2>0 DEF MoveClaim, Ready, TypeOK, Direction
      <3> QED
        BY <2>4, <2>0, <3>3, <3>4 DEF MoveClaim, Ready, TypeOK, timerVars
    <2>5. CASE MovePlan
      <3> DEFINE m == req.motor
      <3>1. RoundUp(cop[m].total_steps) \in 0..(TwoTo32 - 1)
        BY <2>0, RoundUpType DEF TypeOK, OpType
      <3>2. Plan(m, RoundUp(cop[m].total_steps)) \in OpType
        BY <2>0, <3>1, PlanType
      <3>3. cop' \in [Motors -> OpType]
        BY <2>5, <2>0, <3>2 DEF MovePlan, TypeOK
      <3>4. odr' \in SUBSET Pins
        BY <2>5, <2>0 DEF MovePlan, TypeOK, WithDir, Pins
      <3>5. byte' \in SUBSET {"MOVING", "ENABLED"} /\ pc' \in {"flag", "start"}
        BY <2>5, <2>0 DEF MovePlan, TypeOK
      <3>6. UNCHANGED <<position, current_dir, flags, cen, uif, req>> /\ word' = {}
        BY <2>5 DEF MovePlan, timerVars
      <3> QED
        BY <3>3, <3>4, <3>5, <3>6 DEF TypeOK
    <2>6. CASE StoreEnabled
      BY <2>6, <2>0 DEF StoreEnabled, WithEnabled, TypeOK, timerVars
    <2>7. CASE StoreMf
      <3>1. odr' \in SUBSET Pins
        BY <2>7, <2>0 DEF StoreMf, TypeOK, WithMf, Pins
      <3> QED
        BY <2>7, <3>1 DEF StoreMf, Return, TypeOK, motorVars, timerVars
    <2>8. CASE MoveStart
      BY <2>8 DEF MoveStart, Return, TypeOK, motorVars
    <2>9. ASSUME NEW m \in TimerMotors, Overflow(m)
          PROVE  TypeOK'
      BY <2>9 DEF Overflow, TypeOK, motorVars, mainVars
    <2>10. ASSUME NEW m \in TimerMotors, IsrStop(m)
           PROVE  TypeOK'
      <3>1. m \in Motors
        BY MotorAssumption
      <3>2. 0 \in 0..UINT16_MAX
        BY SpeedAssumption
      <3>3. [cop[m] EXCEPT !.current_sps = 0] \in OpType
        BY <3>1, <3>2 DEF TypeOK, OpType
      <3>4. cop' \in [Motors -> OpType]
        BY <2>10, <3>1, <3>3 DEF IsrStop, AllDone, StopBits, TypeOK
      <3>5. odr' \in SUBSET Pins
        BY <2>10, <3>1 DEF IsrStop, AllDone, StopBits, TypeOK, WithMf
      <3>6. flags' \in [Motors -> SUBSET {"MOVING", "ENABLED"}]
        BY <2>10, <3>1 DEF IsrStop, AllDone, StopBits, TypeOK
      <3> QED
        BY <2>10, <3>4, <3>5, <3>6 DEF IsrStop, AllDone, StopBits, TypeOK, mainVars
    <2>11. ASSUME NEW m \in TimerMotors, IsrStep(m)
           PROVE  TypeOK'
      <3>1. m \in Motors
        BY MotorAssumption
      <3>2. NextSps(m) \in 0..UINT16_MAX
        BY <3>1, NextSpsType
      <3>3. [cop[m] EXCEPT !.current_sps = NextSps(m),
                           !.done_steps = @ + 1] \in OpType
        <4>1. cop[m] \in OpType /\ cop[m].done_steps + 1 \in Nat
          BY <3>1 DEF TypeOK, OpType
        <4> QED
          BY <4>1, <3>2 DEF OpType
      <3>4. cop' \in [Motors -> OpType]
        BY <2>11, <3>1, <3>3 DEF IsrStep, AllDone, TypeOK
      <3>5. position' \in [Motors -> Int32]
        BY <2>11, <3>1, SteppedType DEF IsrStep, AllDone, TypeOK
      <3> QED
        BY <2>11, <3>4, <3>5 DEF IsrStep, AllDone, TypeOK, mainVars
    <2>12. CASE UNCHANGED vars
      BY <2>12 DEF vars, motorVars, timerVars, mainVars, TypeOK
    <2> QED
      BY <2>1, <2>2, <2>3, <2>4, <2>5, <2>6, <2>7, <2>8, <2>9, <2>10, <2>11, <2>12
         DEF Next, MainStep, STEPPER_ISR
  <1> QED
    BY <1>1, <1>2, PTL DEF Spec

-----------------------------------------------------------------------------
(* Ownership of a motor.                                                   *)

LEMMA OwnerInit == Init => OwnerInv
  BY DEF Init, OwnerInv, Preparing, NoRequest

LEMMA OwnerStep == TypeOK /\ OwnerInv /\ [Next]_vars => OwnerInv'
  <1> SUFFICES ASSUME TypeOK, OwnerInv, [Next]_vars PROVE OwnerInv'
    OBVIOUS
  <1>0. /\ req.motor \in Motors
        /\ flags \in [Motors -> SUBSET {"MOVING", "ENABLED"}]
        /\ cop \in [Motors -> OpType]
        /\ cen \subseteq Motors /\ uif \subseteq Motors
    BY RequestType, MotorAssumption DEF TypeOK
  <1>1. CASE SteppersInit
    BY <1>0, <1>1, MotorAssumption DEF SteppersInit, OwnerInv, Preparing, timerVars
  <1>2. ASSUME NEW r \in Requests, manager_handle_control_packet(r)
        PROVE  OwnerInv'
    <2>1. r.op \in Ops
      BY RequestType
    <2> QED
      BY <1>0, <1>2, <2>1
         DEF manager_handle_control_packet, OwnerInv, Preparing, Ops, motorVars, timerVars
  <1>3. CASE MoveBusy
    BY <1>3 DEF MoveBusy, Ready, Return, OwnerInv, Preparing, motorVars, timerVars
  <1>4. CASE MoveClaim
    <2> DEFINE m == req.motor
    <2>1. /\ pc = "move" /\ pc' = "dir" /\ req' = req /\ uif = {}
          /\ UNCHANGED <<cen, uif>> /\ m \in Motors /\ req.op = "MOVE_TO"
      BY <1>0, <1>4 DEF MoveClaim, Ready, MainRuns, timerVars, OwnerInv
    <2>2. m \notin cen
      BY <1>4, <2>1 DEF MoveClaim, Ready, OwnerInv
    <2>3. "MOVING" \in flags'[m] /\ \A x \in Motors : x # m => flags'[x] = flags[x]
      BY <1>0, <1>4, <2>1 DEF MoveClaim, Ready
    <2> QED
      BY <1>0, <2>1, <2>2, <2>3 DEF OwnerInv, Preparing
  <1>5. CASE MovePlan
    <2>1. /\ pc = "dir" /\ pc' \in {"flag", "start"} /\ req' = req /\ uif = {}
          /\ UNCHANGED <<cen, uif, flags>> /\ req.op = "MOVE_TO"
          /\ pc' = "flag" => byte' = flags[req.motor]
      BY <1>5 DEF MovePlan, MainRuns, timerVars, OwnerInv
    <2> QED
      BY <1>0, <2>1 DEF OwnerInv, Preparing
  <1>6. CASE StoreEnabled
    <2>1. /\ pc = "flag" /\ pc' = "pin" /\ req' = req /\ uif = {}
          /\ UNCHANGED <<cen, uif, cop>>
      BY <1>6 DEF StoreEnabled, WithEnabled, MainRuns, timerVars
    <2>2. "MOVING" \in flags[req.motor] => "MOVING" \in byte
      BY <2>1 DEF OwnerInv
    <2>3. \A x \in Motors : "MOVING" \in flags[x] => "MOVING" \in flags'[x]
      BY <1>0, <1>6, <2>2 DEF StoreEnabled, WithEnabled
    <2> QED
      BY <1>0, <2>1, <2>3 DEF OwnerInv, Preparing
  <1>7. CASE StoreMf
    BY <1>0, <1>7 DEF StoreMf, Return, MainRuns, OwnerInv, Preparing, motorVars, timerVars
  <1>8. CASE MoveStart
    BY <1>0, <1>8 DEF MoveStart, Return, MainRuns, OwnerInv, Preparing, motorVars
  <1>9. ASSUME NEW m \in TimerMotors, Overflow(m)
        PROVE  OwnerInv'
    BY <1>0, <1>9 DEF Overflow, OwnerInv, Preparing, motorVars, mainVars
  <1>10. ASSUME NEW m \in TimerMotors, IsrStop(m)
         PROVE  OwnerInv'
    <2>1. m \in Motors /\ m \in uif /\ cen' = cen \ {m} /\ uif' \subseteq uif
      BY <1>10, MotorAssumption DEF IsrStop, AllDone, StopBits
    <2>2. ~Preparing(m)
      BY <2>1 DEF OwnerInv
    <2>3. \A x \in Motors : x # m => flags'[x] = flags[x] /\ cop'[x] = cop[x]
      BY <1>0, <1>10, <2>1 DEF IsrStop, AllDone, StopBits
    <2>4. cop'[m].done_steps >= cop'[m].total_steps
      BY <1>0, <1>10, <2>1 DEF IsrStop, AllDone, StopBits, OpType
    <2>5. flags'[m] \subseteq flags[m] /\ "MOVING" \notin flags'[m]
      BY <1>0, <1>10, <2>1 DEF IsrStop, AllDone, StopBits
    <2>6. UNCHANGED <<pc, req, byte>>
      BY <1>10 DEF IsrStop, AllDone, StopBits, mainVars
    <2>7. pc # "boot"
      BY <2>1 DEF OwnerInv
    <2>8. req.motor = m \/ flags'[req.motor] = flags[req.motor]
      BY <1>0, <2>3
    <2> QED
      BY <1>0, <2>1, <2>2, <2>3, <2>4, <2>5, <2>6, <2>7, <2>8 DEF OwnerInv, Preparing
  <1>11. ASSUME NEW m \in TimerMotors, IsrStep(m)
         PROVE  OwnerInv'
    <2>1. m \in Motors /\ uif' = uif \ {m} /\ UNCHANGED <<cen, flags, odr, pc, req, byte>>
      BY <1>11, MotorAssumption DEF IsrStep, AllDone, mainVars
    <2>2. \A x \in Motors : x # m => cop'[x] = cop[x]
      BY <1>0, <1>11, <2>1 DEF IsrStep, AllDone
    <2> QED
      BY <1>0, <2>1, <2>2 DEF OwnerInv, Preparing
  <1>12. CASE UNCHANGED vars
    BY <1>12 DEF vars, motorVars, timerVars, mainVars, OwnerInv, Preparing
  <1> QED
    BY <1>1, <1>2, <1>3, <1>4, <1>5, <1>6, <1>7, <1>8, <1>9, <1>10, <1>11, <1>12
       DEF Next, MainStep, STEPPER_ISR

LEMMA Owner == Spec => []OwnerInv
  BY TypeCorrect, OwnerInit, OwnerStep, PTL DEF Spec

(* No read-modify-write of the flag byte, however it is interrupted, loses  *)
(* MOVING of a running motor: stepper_simple_move never replans one.        *)
THEOREM RunningMarked == Spec => []RunningImpliesMoving
  <1>1. OwnerInv => RunningImpliesMoving
    BY DEF OwnerInv, RunningImpliesMoving
  <1> QED
    BY <1>1, Owner, PTL

-----------------------------------------------------------------------------
(* The plan of a motion.                                                   *)

\* What PlanOf and PreparedFor look at, but for the speed, stays.
SameMotion(x) ==
    /\ position'[x] = position[x]
    /\ current_dir'[x] = current_dir[x]
    /\ cop'[x].total_steps = cop[x].total_steps
    /\ cop'[x].done_steps = cop[x].done_steps
    /\ cop'[x].stop_speedup_at = cop[x].stop_speedup_at
    /\ cop'[x].start_slowdown_at = cop[x].start_slowdown_at
    /\ cop'[x].target_pos = cop[x].target_pos

\* A motion that does not wrap ends at its target or a step behind it.
LandsClose(m) ==
    IF current_dir[m] = "FORWARD"
    THEN Destination(m) - cop[m].target_pos \in {0, 1}
    ELSE cop[m].target_pos - Destination(m) \in {0, 1}

LEMMA PlanSame ==
    ASSUME NEW x \in Motors, SameMotion(x)
    PROVE  PlanOf(x) => PlanOf(x)'
  BY DEF SameMotion, PlanOf, Destination, Remaining, WrappedAround, RampSteps

LEMMA PreparedSame ==
    ASSUME NEW x \in Motors, SameMotion(x), req' = req,
           pc \in {"dir", "flag", "pin", "start"}, pc' \in {"dir", "flag", "pin", "start"},
           (pc' = "dir") <=> (pc = "dir")
    PROVE  PreparedFor(x) => PreparedFor(x)'
  BY DEF SameMotion, PreparedFor, Direction, Distance

\* Changing nothing but the speed of motions keeps PlanInv, if the main loop
\* does not start to prepare a motor.
LEMMA PlanInvSame ==
    ASSUME PlanInv, \A x \in Motors : SameMotion(x),
           \A x \in Motors : Planned(x)' => Planned(x),
           \A x \in Motors : Preparing(x)' =>
               Preparing(x) /\ req' = req /\ ((pc' = "dir") <=> (pc = "dir"))
    PROVE  PlanInv'
  <1> SUFFICES ASSUME NEW x \in Motors
               PROVE  /\ Planned(x)' => PlanOf(x)'
                      /\ Preparing(x)' => PreparedFor(x)'
    BY DEF PlanInv
  <1>2. Planned(x)' => PlanOf(x)'
    BY PlanSame DEF PlanInv
  <1>3. Preparing(x)' => PreparedFor(x)'
    <2> SUFFICES ASSUME Preparing(x)' PROVE PreparedFor(x)'
      OBVIOUS
    <2>1. /\ Preparing(x) /\ PreparedFor(x) /\ req' = req
          /\ (pc' = "dir") <=> (pc = "dir")
      BY DEF PlanInv
    <2>2. pc \in {"dir", "flag", "pin", "start"} /\ pc' \in {"dir", "flag", "pin", "start"}
      BY <2>1 DEF Preparing
    <2> QED
      BY <2>1, <2>2, PreparedSame
  <1> QED
    BY <1>2, <1>3

LEMMA PlanInit == Init => PlanInv
  <1> SUFFICES ASSUME Init, NEW m \in Motors
               PROVE  /\ Planned(m) => PlanOf(m)
                      /\ Preparing(m) => PreparedFor(m)
    BY DEF PlanInv
  <1>2. RampSteps(m, 0) = 0
    <2>1. RampSteps(m, 0) \in Nat /\ 2 * RampSteps(m, 0) <= 0
      BY RampFits
    <2> QED
      BY <2>1
  <1>3. PlanOf(m)
    BY <1>2 DEF Init, PlanOf, Destination, Remaining
  <1>4. ~Preparing(m)
    BY DEF Init, Preparing
  <1> QED
    BY <1>3, <1>4

\* Unchanged motion variables are the same motion.
LEMMA MotionUnchanged ==
    ASSUME UNCHANGED <<position, current_dir, cop>>
    PROVE  \A x \in Motors : SameMotion(x)
  BY DEF SameMotion

LEMMA PlanStep == TypeOK /\ OwnerInv /\ PlanInv /\ [Next]_vars => PlanInv'
  <1> SUFFICES ASSUME TypeOK, OwnerInv, PlanInv, [Next]_vars PROVE PlanInv'
    OBVIOUS
  <1>0. /\ req.motor \in Motors /\ req.pos \in Int32 /\ req.pos \in Int
        /\ position \in [Motors -> Int32]
        /\ current_dir \in [Motors -> {"FORWARD", "BACKWARD"}]
        /\ cop \in [Motors -> OpType]
        /\ uif \subseteq Motors
    BY RequestType, MotorAssumption DEF TypeOK
  <1>1. CASE SteppersInit
    <2>1. pc = "boot" /\ pc' = "poll" /\ UNCHANGED <<position, current_dir, cop>>
      BY <1>1 DEF SteppersInit
    <2> QED
      BY <2>1, MotionUnchanged, PlanInvSame DEF Planned, Preparing
  <1>2. ASSUME NEW r \in Requests, manager_handle_control_packet(r)
        PROVE  PlanInv'
    <2>1. /\ pc = "poll" /\ pc' = (IF r.op = "MOVE_TO" THEN "move" ELSE "flag")
          /\ req' = r /\ UNCHANGED <<position, current_dir, cop>>
      BY <1>2 DEF manager_handle_control_packet, motorVars
    <2> QED
      BY <2>1, MotionUnchanged, PlanInvSame DEF Planned, Preparing
  <1>3. CASE MoveBusy
    <2>1. pc = "move" /\ pc' = "poll" /\ UNCHANGED <<position, current_dir, cop>>
      BY <1>3 DEF MoveBusy, Ready, Return, motorVars
    <2> QED
      BY <2>1, MotionUnchanged, PlanInvSame DEF Planned, Preparing
  <1>4. CASE MoveClaim
    <2>0. PICK m \in Motors : m = req.motor
      BY <1>0
    <2>1. /\ pc = "move" /\ pc' = "dir" /\ req' = req /\ position' = position
          /\ m \in Motors
      BY <2>0, <1>0, <1>4 DEF MoveClaim, Ready
    <2>2. ASSUME NEW x \in Motors, x # m
          PROVE  SameMotion(x)
      BY <2>0, <1>0, <1>4, <2>1, <2>2 DEF MoveClaim, Ready, SameMotion
    <2>3. /\ cop'[m].target_pos = req.pos
          /\ cop'[m].total_steps = Distance(m, req.pos)
          /\ current_dir'[m] = Direction(m, req.pos)
      BY <2>0, <1>0, <1>4, <2>1 DEF MoveClaim, Ready, OpType
    <2>4. PreparedFor(m)'
      BY <2>0, <2>1, <2>3 DEF PreparedFor, Direction, Distance
    <2>6. \A x \in Motors : Planned(x)' => PlanOf(x)'
      <3> SUFFICES ASSUME NEW x \in Motors, x # m PROVE PlanOf(x)'
        BY <2>0, <2>1 DEF Planned
      <3>1. PlanOf(x)
        BY <2>0, <2>1 DEF PlanInv, Planned
      <3> QED
        BY <3>1, <2>2, PlanSame
    <2>7. \A x \in Motors : Preparing(x)' => x = m
      BY <2>0, <2>1 DEF Preparing
    <2> QED
      BY <2>4, <2>6, <2>7 DEF PlanInv
  <1>5. CASE MovePlan
    <2>0. PICK m \in Motors : m = req.motor
      BY <1>0
    <2> DEFINE n == RoundUp(Distance(m, req.pos))
    <2>1. /\ pc = "dir" /\ pc' \in {"flag", "start"} /\ req' = req
          /\ UNCHANGED <<position, current_dir>> /\ m \in Motors
      BY <2>0, <1>0, <1>5 DEF MovePlan
    <2>2. ASSUME NEW x \in Motors, x # m
          PROVE  SameMotion(x)
      BY <2>0, <1>0, <1>5, <2>1, <2>2 DEF MovePlan, SameMotion
    <2>3. PreparedFor(m)
      BY <2>0, <2>1 DEF PlanInv, Preparing, OwnerInv
    <2>4. /\ cop[m].target_pos = req.pos
          /\ cop[m].total_steps = Distance(m, req.pos)
          /\ current_dir[m] = Direction(m, req.pos)
      BY <2>0, <2>1, <2>3 DEF PreparedFor
    <2>5. cop'[m] = Plan(m, n)
      BY <2>0, <1>0, <1>5, <2>1, <2>4 DEF MovePlan
    <2>6. /\ cop'[m].total_steps = n
          /\ cop'[m].done_steps = 0
          /\ cop'[m].stop_speedup_at = RampSteps(m, n)
          /\ cop'[m].start_slowdown_at = n - RampSteps(m, n)
          /\ cop'[m].target_pos = req.pos
      BY <2>4, <2>5 DEF Plan
    <2>7. /\ Distance(m, req.pos) \in Nat /\ n \in Nat /\ n % 2 = 0
          /\ \/ n - Distance(m, req.pos) \in {0, 1}
             \/ Distance(m, req.pos) = TwoTo32 - 1 /\ n = 0
      <3>1. Distance(m, req.pos) \in 0..(TwoTo32 - 1) /\ Distance(m, req.pos) \in Nat
        BY <2>0, <1>0, <2>1, DistanceType
      <3> QED
        BY <3>1, Parity, RoundUpType, Range32
    <2>8. PreparedFor(m)'
      BY <2>0, <2>1, <2>4, <2>6 DEF PreparedFor, Direction, Distance, RoundUp
    <2>9. PlanOf(m)'
      <3>1. position[m] \in Int32 /\ position[m] \in Int
        BY <1>0, Range32
      <3>2. \/ IF current_dir'[m] = "FORWARD"
               THEN Destination(m)' - cop'[m].target_pos \in {0, 1}
               ELSE cop'[m].target_pos - Destination(m)' \in {0, 1}
            \/ WrappedAround(m)'
        <4>1. Remaining(m)' = n
          BY <2>6, <2>7 DEF Remaining
        <4>2. Destination(m)' = IF current_dir[m] = "FORWARD" THEN position[m] + n
                                                              ELSE position[m] - n
          BY <2>0, <2>1, <4>1 DEF Destination
        <4>3. CASE n - Distance(m, req.pos) \in {0, 1} /\ req.pos > position[m]
          <5>1. current_dir[m] = "FORWARD" /\ Distance(m, req.pos) = req.pos - position[m]
            BY <2>4, <4>3 DEF Direction, Distance
          <5>2. Destination(m)' = position[m] + n /\ n \in Nat /\ position[m] \in Int
            BY <2>7, <3>1, <4>2, <5>1
          <5>3. Destination(m)' - cop'[m].target_pos \in {0, 1}
            BY <1>0, <2>6, <4>3, <5>1, <5>2
          <5> QED
            BY <2>1, <5>1, <5>3
        <4>4. CASE n - Distance(m, req.pos) \in {0, 1} /\ ~(req.pos > position[m])
          <5>1. current_dir[m] = "BACKWARD" /\ Distance(m, req.pos) = position[m] - req.pos
            BY <2>4, <4>4 DEF Direction, Distance
          <5>2. Destination(m)' = position[m] - n /\ n \in Nat /\ position[m] \in Int
            BY <2>7, <3>1, <4>2, <5>1
          <5>3. cop'[m].target_pos - Destination(m)' \in {0, 1}
            BY <1>0, <2>6, <4>4, <5>1, <5>2
          <5> QED
            BY <2>1, <5>1, <5>3
        <4>5. CASE Distance(m, req.pos) = TwoTo32 - 1 /\ n = 0
          <5>1. \/ req.pos = INT32_MAX /\ position[m] = INT32_MIN
                \/ req.pos = INT32_MIN /\ position[m] = INT32_MAX
            BY <1>0, <2>0, <3>1, <4>5, DistanceType
          <5>2. current_dir[m] = IF req.pos = INT32_MAX THEN "FORWARD" ELSE "BACKWARD"
            BY <2>4, <5>1, Range32 DEF Direction
          <5> QED
            BY <2>1, <2>6, <4>1, <4>5, <5>1, <5>2, Range32 DEF WrappedAround
        <4> QED
          BY <2>7, <4>3, <4>4, <4>5
      <3>3. RampSteps(m, cop'[m].total_steps) = RampSteps(m, n)
        BY <2>6
      <3> QED
        BY <2>6, <2>7, <3>2, <3>3 DEF PlanOf, RampSteps
    <2>10. \A x \in Motors : Planned(x)' => PlanOf(x)'
      <3> SUFFICES ASSUME NEW x \in Motors, x # m PROVE PlanOf(x)'
        BY <2>9
      <3>1. PlanOf(x)
        BY <2>0, <2>1 DEF PlanInv, Planned
      <3> QED
        BY <3>1, <2>2, PlanSame
    <2>11. \A x \in Motors : Preparing(x)' => x = m
      BY <2>0, <2>1 DEF Preparing
    <2> QED
      BY <2>8, <2>10, <2>11 DEF PlanInv
  <1>6. CASE StoreEnabled
    <2>1. pc = "flag" /\ pc' = "pin" /\ UNCHANGED <<position, current_dir, cop, req>>
      BY <1>6 DEF StoreEnabled, WithEnabled
    <2> QED
      BY <2>1, MotionUnchanged, PlanInvSame DEF Planned, Preparing
  <1>7. CASE StoreMf
    <2>1. /\ pc = "pin" /\ UNCHANGED <<position, current_dir, cop>>
          /\ (pc' = "start" /\ req' = req) \/ pc' = "poll"
      BY <1>7 DEF StoreMf, Return, motorVars
    <2> QED
      BY <2>1, MotionUnchanged, PlanInvSame DEF Planned, Preparing
  <1>8. CASE MoveStart
    <2>1. pc = "start" /\ pc' = "poll" /\ UNCHANGED <<position, current_dir, cop>>
      BY <1>8 DEF MoveStart, Return, motorVars
    <2> QED
      BY <2>1, MotionUnchanged, PlanInvSame DEF Planned, Preparing
  <1>9. ASSUME NEW m \in TimerMotors, Overflow(m)
        PROVE  PlanInv'
    <2>1. UNCHANGED <<position, current_dir, cop, pc, req>>
      BY <1>9 DEF Overflow, motorVars, mainVars
    <2> QED
      BY <2>1, MotionUnchanged, PlanInvSame DEF Planned, Preparing
  <1>10. ASSUME NEW m \in TimerMotors, IsrStop(m)
         PROVE  PlanInv'
    <2>1. UNCHANGED <<position, current_dir, pc, req>>
      BY <1>10 DEF IsrStop, AllDone, StopBits, mainVars
    <2>2. \A x \in Motors : SameMotion(x)
      BY <1>0, <1>10, <2>1 DEF IsrStop, AllDone, StopBits, SameMotion, OpType
    <2> QED
      BY <2>1, <2>2, PlanInvSame DEF Planned, Preparing
  <1>11. ASSUME NEW m \in TimerMotors, IsrStep(m)
         PROVE  PlanInv'
    <2>1. /\ m \in Motors /\ m \in uif
          /\ cop[m].done_steps < cop[m].total_steps
          /\ UNCHANGED <<current_dir, pc, req>>
      BY <1>0, <1>11, MotorAssumption DEF IsrStep, AllDone, mainVars, OpType
    <2>2. ASSUME NEW x \in Motors, x # m
          PROVE  SameMotion(x)
      BY <1>0, <1>11, <2>1, <2>2 DEF IsrStep, AllDone, SameMotion
    <2>3. ~Preparing(m) /\ Planned(m)
      BY <2>1 DEF OwnerInv, Preparing, Planned
    <2>4. PlanOf(m)
      BY <2>1, <2>3 DEF PlanInv
    <2>5. /\ cop'[m].done_steps = cop[m].done_steps + 1
          /\ cop'[m].total_steps = cop[m].total_steps
          /\ cop'[m].stop_speedup_at = cop[m].stop_speedup_at
          /\ cop'[m].start_slowdown_at = cop[m].start_slowdown_at
          /\ cop'[m].target_pos = cop[m].target_pos
          /\ position'[m] = Stepped(m)
      BY <1>0, <1>11, <2>1 DEF IsrStep, AllDone, OpType
    <2>6. /\ cop[m].done_steps \in Nat /\ cop[m].total_steps \in Nat
          /\ cop[m].target_pos \in Int32 /\ cop[m].target_pos \in Int
          /\ position[m] \in Int32 /\ position[m] \in Int
          /\ current_dir[m] \in {"FORWARD", "BACKWARD"}
      BY <1>0, <2>1, MotorTypes
    <2>7. LandsClose(m)
      BY <2>1, <2>4, <2>6 DEF PlanOf, LandsClose, WrappedAround, Remaining
    <2>8. PlanOf(m)'
      <3>1. CASE Stepped(m) = IF current_dir[m] = "FORWARD" THEN position[m] + 1
                                                            ELSE position[m] - 1
        <4>1. Destination(m)' = Destination(m)
          BY <2>1, <2>5, <2>6, <3>1 DEF Destination, Remaining
        <4> QED
          BY <2>1, <2>4, <2>5, <2>6, <2>7, <4>1 DEF PlanOf, LandsClose, RampSteps
      <3>2. CASE /\ current_dir[m] = "FORWARD"
                 /\ position[m] = INT32_MAX /\ Stepped(m) = INT32_MIN
        <4>1. cop[m].target_pos = INT32_MAX /\ cop[m].total_steps - cop[m].done_steps = 1
          BY <2>1, <2>6, <2>7, <3>2, Range32 DEF LandsClose, Destination, Remaining, Int32
        <4>2. WrappedAround(m)'
          BY <2>1, <2>5, <2>6, <3>2, <4>1 DEF WrappedAround, Remaining
        <4> QED
          BY <2>1, <2>4, <2>5, <2>6, <4>2 DEF PlanOf, RampSteps
      <3>3. CASE /\ current_dir[m] # "FORWARD"
                 /\ position[m] = INT32_MIN /\ Stepped(m) = INT32_MAX
        <4>1. cop[m].target_pos = INT32_MIN /\ cop[m].total_steps - cop[m].done_steps = 1
          BY <2>1, <2>6, <2>7, <3>3, Range32 DEF LandsClose, Destination, Remaining, Int32
        <4>2. WrappedAround(m)'
          BY <2>1, <2>5, <2>6, <3>3, <4>1 DEF WrappedAround, Remaining
        <4> QED
          BY <2>1, <2>4, <2>5, <2>6, <4>2 DEF PlanOf, RampSteps
      <3> QED
        BY <2>1, <2>6, <3>1, <3>2, <3>3, SteppedType
    <2>11. \A x \in Motors : Planned(x)' => PlanOf(x)'
      <3> SUFFICES ASSUME NEW x \in Motors, x # m, Planned(x) PROVE PlanOf(x)'
        BY <2>1, <2>8 DEF Planned
      <3>1. PlanOf(x)
        BY DEF PlanInv
      <3> QED
        BY <3>1, <2>2, PlanSame
    <2>12. \A x \in Motors : Preparing(x)' => PreparedFor(x)'
      <3> SUFFICES ASSUME NEW x \in Motors, Preparing(x)' PROVE PreparedFor(x)'
        OBVIOUS
      <3>1. Preparing(x) /\ x # m
        BY <2>1, <2>3 DEF Preparing
      <3>2. PreparedFor(x) /\ pc \in {"dir", "flag", "pin", "start"}
        BY <3>1 DEF PlanInv, Preparing
      <3> QED
        BY <2>1, <2>2, <3>1, <3>2, PreparedSame
    <2> QED
      BY <2>11, <2>12 DEF PlanInv
  <1>12. CASE UNCHANGED vars
    <2>1. UNCHANGED <<position, current_dir, cop, pc, req>>
      BY <1>12 DEF vars, motorVars, mainVars
    <2> QED
      BY <2>1, MotionUnchanged, PlanInvSame DEF Planned, Preparing
  <1> QED
    BY <1>1, <1>2, <1>3, <1>4, <1>5, <1>6, <1>7, <1>8, <1>9, <1>10, <1>11, <1>12
       DEF Next, MainStep, STEPPER_ISR

LEMMA Plans == Spec => []PlanInv
  BY TypeCorrect, Owner, PlanInit, PlanStep, PTL DEF Spec

(* Every motion ends at its target or one step behind it, whatever motions  *)
(* of other motors and other requests interleave with it, for every int32_t *)
(* the host may ask for; only behind the ends of int32_t the step wraps.    *)
THEOREM LandsThere == Spec => []LandsNearTarget
  <1>1. PlanInv => LandsNearTarget
    BY DEF PlanInv, PlanOf, LandsNearTarget
  <1> QED
    BY <1>1, Plans, PTL

-----------------------------------------------------------------------------
(* The speed of a motion.                                                  *)

\* Where a planned motion is on its ramps.
LEMMA RampPointRange ==
    ASSUME TypeOK, NEW m \in Motors, PlanOf(m)
    PROVE  /\ RampPoint(cop[m]) \in Nat
           /\ RampPoint(cop[m]) <= cop[m].stop_speedup_at
           /\ cop[m].stop_speedup_at \in Nat
           /\ cop[m].stop_speedup_at <= ramp_step_size(m)
           /\ 2 * cop[m].stop_speedup_at <= cop[m].total_steps
  <1>1. /\ cop[m].total_steps \in Nat /\ cop[m].done_steps \in Nat
        /\ cop[m].done_steps <= cop[m].total_steps
        /\ cop[m].stop_speedup_at = RampSteps(m, cop[m].total_steps)
        /\ cop[m].start_slowdown_at = cop[m].total_steps - cop[m].stop_speedup_at
    BY MotorTypes DEF OpType, PlanOf
  <1>2. /\ cop[m].stop_speedup_at \in Nat
        /\ 2 * cop[m].stop_speedup_at <= cop[m].total_steps
        /\ cop[m].stop_speedup_at <= ramp_step_size(m)
    BY <1>1, RampFits
  <1> QED
    BY <1>1, <1>2 DEF RampPoint

\* No point of a ramp is faster than max_sps.
LEMMA RampSpeed ==
    ASSUME NEW m \in Motors, NEW k \in Nat, k <= ramp_step_size(m)
    PROVE  /\ min_sps[m] + sps_inc[m] * k \in min_sps[m]..max_sps[m]
           /\ min_sps[m] + sps_inc[m] * k \in 0..UINT16_MAX
  <1>1. /\ ramp_step_size(m) \in Nat
        /\ sps_inc[m] * ramp_step_size(m) <= max_sps[m] - min_sps[m]
    BY RampNat
  <1>2. sps_inc[m] \in Nat /\ sps_inc[m] * ramp_step_size(m) \in Nat
    <2>1. sps_inc[m] \in Nat /\ ramp_step_size(m) <= ramp_step_size(m)
      BY <1>1, Speeds
    <2> QED
      BY <1>1, <2>1, Monotone
  <1>3. sps_inc[m] * k \in Nat /\ sps_inc[m] * k <= sps_inc[m] * ramp_step_size(m)
    BY <1>1, <1>2, Monotone
  <1> QED
    BY <1>1, <1>2, <1>3, Speeds

\* The three ways the handler changes the speed, on the three parts of a
\* motion, are one step on the ramps (stepper.h:78-86).
LEMMA NextSpeed ==
    ASSUME TypeOK, NEW m \in Motors, PlanOf(m),
           cop[m].done_steps < cop[m].total_steps,
           cop[m].current_sps = min_sps[m] + sps_inc[m] * RampPoint(cop[m]),
           NEW d, d \in OpType, d.total_steps = cop[m].total_steps,
           d.done_steps = cop[m].done_steps + 1,
           d.stop_speedup_at = cop[m].stop_speedup_at,
           d.start_slowdown_at = cop[m].start_slowdown_at
    PROVE  NextSps(m) = min_sps[m] + sps_inc[m] * RampPoint(d)
  <1> DEFINE c == cop[m]
             S == c.stop_speedup_at
             k == RampPoint(c)
  <1>1. /\ c.total_steps \in Nat /\ c.done_steps \in Nat
        /\ c.start_slowdown_at = c.total_steps - S
    BY MotorTypes DEF OpType, PlanOf
  <1>2. /\ k \in Nat /\ k <= S /\ S \in Nat /\ S <= ramp_step_size(m)
        /\ 2 * S <= c.total_steps
    BY RampPointRange
  <1>3. /\ sps_inc[m] \in Nat /\ min_sps[m] \in Nat /\ ramp_step_size(m) \in Nat
        /\ sps_inc[m] * k \in Int
    <2>1. sps_inc[m] \in Nat /\ min_sps[m] \in Nat /\ ramp_step_size(m) \in Nat
      BY Speeds, RampNat
    <2> HIDE DEF k
    <2>2. k <= k
      BY <1>2
    <2> QED
      BY <1>2, <2>1, <2>2, Monotone
  <1>4. /\ sps_inc[m] * (k + 1) = sps_inc[m] * k + sps_inc[m]
        /\ sps_inc[m] * (k - 1) = sps_inc[m] * k - sps_inc[m]
    BY <1>2, <1>3, NextMultiple
  <1>5. CASE c.done_steps < S
    <2>1. RampPoint(d) = k + 1 /\ k + 1 \in Nat /\ k + 1 <= ramp_step_size(m)
      BY <1>1, <1>2, <1>3, <1>5 DEF RampPoint
    <2>2. c.current_sps + sps_inc[m] = min_sps[m] + sps_inc[m] * (k + 1)
      BY <1>3, <1>4
    <2>3. min_sps[m] + sps_inc[m] * (k + 1) \in 0..UINT16_MAX
      BY <2>1, RampSpeed
    <2>4. (c.current_sps + sps_inc[m]) % (UINT16_MAX + 1) = c.current_sps + sps_inc[m]
      BY <2>2, <2>3, Uint16, Speeds
    <2> QED
      BY <1>5, <2>1, <2>2, <2>4 DEF NextSps
  <1>6. CASE c.done_steps >= c.start_slowdown_at
    <2>1. /\ ~(c.done_steps < S)
          /\ RampPoint(d) = k - 1 /\ k - 1 \in Nat /\ k - 1 <= ramp_step_size(m)
      BY <1>1, <1>2, <1>3, <1>6 DEF RampPoint
    <2>2. c.current_sps - sps_inc[m] = min_sps[m] + sps_inc[m] * (k - 1)
      BY <1>3, <1>4
    <2>3. min_sps[m] + sps_inc[m] * (k - 1) \in 0..UINT16_MAX
      BY <2>1, RampSpeed
    <2>4. (c.current_sps - sps_inc[m]) % (UINT16_MAX + 1) = c.current_sps - sps_inc[m]
      BY <2>2, <2>3, Uint16, Speeds
    <2> QED
      BY <1>6, <2>1, <2>2, <2>4 DEF NextSps
  <1>7. CASE ~(c.done_steps < S) /\ ~(c.done_steps >= c.start_slowdown_at)
    <2>1. RampPoint(d) = S /\ k = S
      BY <1>1, <1>2, <1>7 DEF RampPoint
    <2> QED
      BY <1>7, <2>1 DEF NextSps
  <1> QED
    BY <1>5, <1>6, <1>7

\* Steps that touch no operation and arm no motor.
LEMMA SpeedSame ==
    ASSUME SpeedInv, cop' = cop, \A x \in Motors : Armed(x)' => Armed(x)
    PROVE  SpeedInv'
  BY DEF SpeedInv, RampPoint

LEMMA SpeedStep ==
    TypeOK /\ TypeOK' /\ OwnerInv /\ PlanInv /\ SpeedInv /\ [Next]_vars => SpeedInv'
  <1> SUFFICES ASSUME TypeOK, TypeOK', OwnerInv, PlanInv, SpeedInv, [Next]_vars
               PROVE  SpeedInv'
    OBVIOUS
  <1>0. /\ cop \in [Motors -> OpType] /\ cop' \in [Motors -> OpType]
        /\ req.motor \in Motors
    BY RequestType DEF TypeOK
  <1>1. CASE SteppersInit
    <2>1. pc = "boot" /\ pc' = "poll" /\ UNCHANGED <<cop, cen>>
      BY <1>1 DEF SteppersInit, timerVars
    <2> QED
      BY <2>1, SpeedSame DEF Armed, Preparing
  <1>2. ASSUME NEW r \in Requests, manager_handle_control_packet(r)
        PROVE  SpeedInv'
    <2>1. /\ pc' = (IF r.op = "MOVE_TO" THEN "move" ELSE "flag")
          /\ req' = r /\ UNCHANGED <<cop, cen>>
      BY <1>2 DEF manager_handle_control_packet, motorVars, timerVars
    <2> QED
      BY <2>1, SpeedSame DEF Armed, Preparing
  <1>3. CASE MoveBusy
    <2>1. pc' = "poll" /\ UNCHANGED <<cop, cen>>
      BY <1>3 DEF MoveBusy, Ready, Return, motorVars, timerVars
    <2> QED
      BY <2>1, SpeedSame DEF Armed, Preparing
  <1>4. CASE MoveClaim
    <2>0. PICK m \in Motors : m = req.motor
      BY <1>0
    <2>1. /\ pc = "move" /\ pc' = "dir" /\ req' = req /\ cen' = cen
          /\ "MOVING" \notin byte
          /\ \A x \in Motors : x # m => cop'[x] = cop[x]
      BY <1>0, <1>4, <2>0 DEF MoveClaim, Ready, timerVars
    <2>2. m \notin cen
      BY <2>0, <2>1 DEF OwnerInv
    <2>3. \A x \in Motors : Armed(x)' => Armed(x) /\ x # m
      BY <2>0, <2>1, <2>2 DEF Armed, Preparing, Planned
    <2> QED
      BY <2>1, <2>3 DEF SpeedInv
  <1>5. CASE MovePlan
    <2>0. PICK m \in Motors : m = req.motor
      BY <1>0
    <2>1. /\ pc = "dir" /\ req' = req /\ cen' = cen
          /\ \A x \in Motors : x # m => cop'[x] = cop[x]
          /\ cop'[m] = Plan(m, RoundUp(cop[m].total_steps))
      BY <1>0, <1>5, <2>0 DEF MovePlan, timerVars
    <2>2. cop'[m].done_steps = 0 /\ cop'[m].current_sps = min_sps[m]
      BY <2>1 DEF Plan
    <2>3. cop'[m].stop_speedup_at \in Nat
      BY <1>0 DEF OpType
    <2>4. RampPoint(cop'[m]) = 0
      BY <2>2, <2>3 DEF RampPoint
    <2>5. cop'[m].current_sps = min_sps[m] + sps_inc[m] * RampPoint(cop'[m])
      BY <2>2, <2>4, Speeds
    <2>6. \A x \in Motors : Armed(x)' /\ x # m => Armed(x)
      BY <2>0, <2>1 DEF Armed, Preparing, Planned
    <2> QED
      BY <2>1, <2>5, <2>6 DEF SpeedInv
  <1>6. CASE StoreEnabled
    <2>1. pc = "flag" /\ UNCHANGED <<cop, cen, req>>
      BY <1>6 DEF StoreEnabled, WithEnabled, timerVars
    <2> QED
      BY <2>1, SpeedSame DEF Armed, Preparing, Planned
  <1>7. CASE StoreMf
    <2>1. /\ pc = "pin" /\ UNCHANGED <<cop, cen>>
          /\ (pc' = "start" /\ req' = req) \/ pc' = "poll"
      BY <1>7 DEF StoreMf, Return, motorVars, timerVars
    <2> QED
      BY <2>1, SpeedSame DEF Armed, Preparing, Planned
  <1>8. CASE MoveStart
    <2>1. /\ pc = "start" /\ pc' = "poll" /\ cop' = cop
          /\ cen' \subseteq cen \cup {req.motor}
      BY <1>8 DEF MoveStart, Return, motorVars
    <2>2. Preparing(req.motor) /\ Planned(req.motor)
      BY <2>1 DEF OwnerInv, Preparing, Planned
    <2> QED
      BY <2>1, <2>2, SpeedSame DEF Armed, Preparing
  <1>9. ASSUME NEW m \in TimerMotors, Overflow(m)
        PROVE  SpeedInv'
    <2>1. UNCHANGED <<cop, cen, pc, req>>
      BY <1>9 DEF Overflow, motorVars, mainVars
    <2> QED
      BY <2>1, SpeedSame DEF Armed, Preparing, Planned
  <1>10. ASSUME NEW m \in TimerMotors, IsrStop(m)
         PROVE  SpeedInv'
    <2>1. /\ m \in Motors /\ m \in uif /\ cen' = cen \ {m}
          /\ \A x \in Motors : x # m => cop'[x] = cop[x]
          /\ UNCHANGED <<pc, req>>
      BY <1>0, <1>10, MotorAssumption DEF IsrStop, AllDone, StopBits, mainVars
    <2>2. \A x \in Motors : Armed(x)' => Armed(x) /\ x # m
      BY <2>1 DEF Armed, Preparing, Planned, OwnerInv
    <2> QED
      BY <2>1, <2>2 DEF SpeedInv
  <1>11. ASSUME NEW m \in TimerMotors, IsrStep(m)
         PROVE  SpeedInv'
    <2>1. /\ m \in Motors /\ m \in uif
          /\ cop[m].done_steps < cop[m].total_steps
          /\ \A x \in Motors : x # m => cop'[x] = cop[x]
          /\ cop'[m].done_steps = cop[m].done_steps + 1
          /\ cop'[m].total_steps = cop[m].total_steps
          /\ cop'[m].stop_speedup_at = cop[m].stop_speedup_at
          /\ cop'[m].start_slowdown_at = cop[m].start_slowdown_at
          /\ cop'[m].current_sps = NextSps(m)
          /\ UNCHANGED <<cen, pc, req>>
      BY <1>0, <1>11, MotorAssumption DEF IsrStep, AllDone, mainVars, OpType
    <2>2. cop[m].total_steps \in Nat /\ cop[m].done_steps \in Nat /\ cop'[m] \in OpType
      BY <1>0, <2>1 DEF OpType
    <2>3. m \in cen /\ Planned(m)
      BY <2>1, <2>2 DEF OwnerInv, Planned, Preparing
    <2>4. /\ PlanOf(m)
          /\ cop[m].current_sps = min_sps[m] + sps_inc[m] * RampPoint(cop[m])
      BY <2>1, <2>3 DEF PlanInv, SpeedInv, Armed
    <2>5. cop'[m].current_sps = min_sps[m] + sps_inc[m] * RampPoint(cop'[m])
      BY <2>1, <2>2, <2>4, NextSpeed
    <2>6. \A x \in Motors : Armed(x)' => Armed(x)
      BY <2>1 DEF Armed, Preparing, Planned
    <2> QED
      BY <2>1, <2>5, <2>6 DEF SpeedInv
  <1>12. CASE UNCHANGED vars
    <2>1. UNCHANGED <<cop, cen, pc, req>>
      BY <1>12 DEF vars, motorVars, timerVars, mainVars
    <2> QED
      BY <2>1, SpeedSame DEF Armed, Preparing, Planned
  <1> QED
    BY <1>1, <1>2, <1>3, <1>4, <1>5, <1>6, <1>7, <1>8, <1>9, <1>10, <1>11, <1>12
       DEF Next, MainStep, STEPPER_ISR

LEMMA SpeedsOnRamp == Spec => []SpeedInv
  <1>1. Init => SpeedInv
    BY DEF Init, SpeedInv, Armed, Preparing
  <1> QED
    BY <1>1, TypeCorrect, Owner, Plans, SpeedStep, PTL DEF Spec

(* The speed of a running motor lies on the two ramps of its motion.        *)
THEOREM RampsSymmetric == Spec => []SymmetricRamp
  <1>1. SpeedInv /\ TypeOK => SymmetricRamp
    BY MotorAssumption
       DEF SpeedInv, SymmetricRamp, Armed, RampPoint, Remaining, TypeOK
  <1> QED
    BY <1>1, SpeedsOnRamp, TypeCorrect, PTL

(* The speed stays between min_sps and max_sps: current_sps never wraps, and *)
(* the division of stepper.h:81 and :85 is never by zero.                    *)
THEOREM SpeedsInRange == Spec => []SpeedInRange
  <1>1. TypeOK /\ OwnerInv /\ PlanInv /\ SpeedInv => SpeedInRange
    <2> SUFFICES ASSUME TypeOK, OwnerInv, PlanInv, SpeedInv, NEW m \in cen
                 PROVE  cop[m].current_sps \in min_sps[m]..max_sps[m]
      BY DEF SpeedInRange
    <2>1. m \in Motors
      BY MotorAssumption DEF TypeOK
    <2>2. Planned(m) /\ Armed(m)
      BY <2>1 DEF OwnerInv, Planned, Preparing, Armed
    <2>3. PlanOf(m)
      BY <2>1, <2>2 DEF PlanInv
    <2>4. RampPoint(cop[m]) \in Nat /\ RampPoint(cop[m]) <= ramp_step_size(m)
      BY <2>1, <2>3, RampPointRange, RampNat
    <2> QED
      BY <2>1, <2>2, <2>4, RampSpeed DEF SpeedInv
  <1> QED
    BY <1>1, TypeCorrect, Owner, Plans, SpeedsOnRamp, PTL

-----------------------------------------------------------------------------
(* The pins.                                                               *)

\* What storing a copy of GPIOB_ODR with one bit changed does to every pin.
LEMMA PinFacts ==
    ASSUME NEW pins, NEW m \in Motors, NEW on \in BOOLEAN, NEW x \in Motors
    PROVE  /\ <<"DIR", x>> \in WithMf(pins, m, on) <=> <<"DIR", x>> \in pins
           /\ x # m => (<<"MF", x>> \in WithMf(pins, m, on) <=> <<"MF", x>> \in pins)
           /\ <<"MF", m>> \in WithMf(pins, m, on) <=> on
           /\ <<"MF", x>> \in WithDir(pins, m) <=> <<"MF", x>> \in pins
           /\ x # m => (<<"DIR", x>> \in WithDir(pins, m) <=> <<"DIR", x>> \in pins)
           /\ <<"DIR", m>> \in WithDir(pins, m) <=> current_dir[m] = "BACKWARD"
  BY DEF WithMf, WithDir

LEMMA PinInit == Init => PinInv
  BY DEF Init, PinInv, Armed, Preparing

LEMMA PinStep == TypeOK /\ OwnerInv /\ PinInv /\ [Next]_vars => PinInv'
  <1> SUFFICES ASSUME TypeOK, OwnerInv, PinInv, [Next]_vars PROVE PinInv'
    OBVIOUS
  <1>0. /\ req.motor \in Motors /\ req.op \in Ops
        /\ flags \in [Motors -> SUBSET {"MOVING", "ENABLED"}]
        /\ current_dir \in [Motors -> {"FORWARD", "BACKWARD"}]
        /\ Enabling \in BOOLEAN
    BY RequestType DEF TypeOK, Enabling
  <1>1. CASE SteppersInit
    <2>1. /\ pc = "boot" /\ pc' = "poll" /\ cen' = {}
          /\ flags = [m \in Motors |-> {}]
          /\ flags' = [flags EXCEPT ![BootMotor] = {"ENABLED"}]
          /\ odr' = {<<"DIR", m>> : m \in Motors} \cup {<<"MF", BootMotor>>}
      BY <1>1 DEF SteppersInit, OwnerInv, timerVars
    <2>2. ASSUME NEW m \in Motors
          PROVE  (<<"MF", m>> \in odr') <=> ("ENABLED" \in flags'[m])
      <3>1. "ENABLED" \in flags'[m] <=> m = BootMotor
        BY <2>1, MotorAssumption
      <3>2. <<"MF", m>> \in odr' <=> m = BootMotor
        BY <2>1
      <3> QED
        BY <3>1, <3>2
    <2> QED
      BY <2>1, <2>2 DEF PinInv, Armed, Preparing
  <1>2. ASSUME NEW r \in Requests, manager_handle_control_packet(r)
        PROVE  PinInv'
    <2>1. /\ pc = "poll" /\ pc' = (IF r.op = "MOVE_TO" THEN "move" ELSE "flag")
          /\ req' = r /\ byte' = flags[r.motor]
          /\ UNCHANGED <<current_dir, flags, odr, cen>>
      BY <1>2 DEF manager_handle_control_packet, motorVars, timerVars
    <2> QED
      BY <2>1 DEF PinInv, Armed, Preparing
  <1>3. CASE MoveBusy
    <2>1. pc = "move" /\ pc' = "poll" /\ UNCHANGED <<current_dir, flags, odr, cen>>
      BY <1>3 DEF MoveBusy, Ready, Return, motorVars, timerVars
    <2> QED
      BY <2>1 DEF PinInv, Armed, Preparing
  <1>4. CASE MoveClaim
    <2>0. PICK m \in Motors : m = req.motor
      BY <1>0
    <2>1. /\ pc = "move" /\ pc' = "dir" /\ req' = req /\ word' = odr
          /\ "MOVING" \notin byte
          /\ UNCHANGED <<odr, cen>>
          /\ \A x \in Motors : x # m => /\ current_dir'[x] = current_dir[x]
                                         /\ flags'[x] = flags[x]
          /\ "ENABLED" \in flags'[m] <=> "ENABLED" \in byte
      BY <1>0, <1>4, <2>0 DEF MoveClaim, Ready, timerVars
    <2>2. m \notin cen
      BY <2>0, <2>1 DEF OwnerInv
    <2>3. \A x \in Motors : Armed(x)' => Armed(x) /\ x # m
      BY <2>0, <2>1, <2>2 DEF Armed, Preparing, Planned
    <2>4. \A x \in Motors \ AutoMotors :
             (<<"MF", x>> \in odr') <=> ("ENABLED" \in flags'[x])
      BY <2>0, <2>1 DEF PinInv
    <2> QED
      BY <2>1, <2>3, <2>4 DEF PinInv
  <1>5. CASE MovePlan
    <2>0. PICK m \in Motors : m = req.motor
      BY <1>0
    <2>1. /\ pc = "dir" /\ pc' \in {"flag", "start"} /\ req' = req
          /\ odr' = WithDir(word, m)
          /\ UNCHANGED <<current_dir, flags, cen>>
      BY <1>5, <2>0 DEF MovePlan, timerVars
    <2>2. ASSUME NEW x \in Motors
          PROVE  /\ x # m => (<<"DIR", x>> \in odr' <=> <<"DIR", x>> \in odr)
                 /\ <<"DIR", m>> \in odr' <=> current_dir[m] = "BACKWARD"
                 /\ x \notin AutoMotors => (<<"MF", x>> \in odr' <=> <<"MF", x>> \in odr)
      BY <2>1, PinFacts DEF PinInv
    <2>3. \A x \in Motors : Armed(x)' => Armed(x) \/ x = m
      BY <2>0, <2>1 DEF Armed, Preparing, Planned
    <2> QED
      BY <2>1, <2>2, <2>3 DEF PinInv
  <1>6. CASE StoreEnabled
    <2>0. PICK m \in Motors : m = req.motor
      BY <1>0
    <2>1. /\ pc = "flag" /\ pc' = "pin" /\ req' = req /\ word' = odr
          /\ UNCHANGED <<current_dir, odr, cen>>
          /\ \A x \in Motors : x # m => flags'[x] = flags[x]
          /\ "ENABLED" \in flags'[m] <=> Enabling
      BY <1>0, <1>6, <2>0 DEF StoreEnabled, WithEnabled, timerVars
    <2>2. \A x \in Motors : Armed(x)' => Armed(x)
      BY <2>1 DEF Armed, Preparing, Planned
    <2>3. Enabling' <=> Enabling
      BY <2>1 DEF Enabling
    <2> QED
      BY <2>0, <2>1, <2>2, <2>3 DEF PinInv
  <1>7. CASE StoreMf
    <2>0. PICK m \in Motors : m = req.motor
      BY <1>0
    <2>1. /\ pc = "pin" /\ pc' \in {"start", "poll"}
          /\ pc' = "start" => req' = req
          /\ odr' = WithMf(word, m, Enabling)
          /\ UNCHANGED <<current_dir, flags, cen>>
      BY <1>7, <2>0 DEF StoreMf, Return, motorVars, timerVars
    <2>2. ASSUME NEW x \in Motors
          PROVE  /\ <<"DIR", x>> \in odr' <=> <<"DIR", x>> \in odr
                 /\ <<"MF", m>> \in odr' <=> Enabling
                 /\ x # m /\ x \notin AutoMotors =>
                       (<<"MF", x>> \in odr' <=> <<"MF", x>> \in odr)
      BY <1>0, <2>1, PinFacts DEF PinInv
    <2>3. \A x \in Motors : Armed(x)' => Armed(x)
      BY <2>1 DEF Armed, Preparing, Planned
    <2> QED
      BY <2>0, <2>1, <2>2, <2>3 DEF PinInv
  <1>8. CASE MoveStart
    <2>1. /\ pc = "start" /\ pc' = "poll" /\ cen' \subseteq cen \cup {req.motor}
          /\ UNCHANGED <<current_dir, flags, odr>>
      BY <1>8 DEF MoveStart, Return, motorVars
    <2>2. Preparing(req.motor) /\ Planned(req.motor)
      BY <2>1 DEF OwnerInv, Preparing, Planned
    <2>3. \A x \in Motors : Armed(x)' => Armed(x)
      BY <2>1, <2>2 DEF Armed, Preparing
    <2> QED
      BY <2>1, <2>3 DEF PinInv
  <1>9. ASSUME NEW m \in TimerMotors, Overflow(m)
        PROVE  PinInv'
    BY <1>9 DEF Overflow, motorVars, mainVars, PinInv, Armed, Preparing, Planned, Enabling
  <1>10. ASSUME NEW m \in TimerMotors, IsrStop(m)
         PROVE  PinInv'
    <2>1. /\ m \in Motors /\ cen' = cen \ {m}
          /\ UNCHANGED <<current_dir, pc, req, byte, word>>
          /\ odr' = IF m \in AutoMotors THEN WithMf(odr, m, FALSE) ELSE odr
          /\ \A x \in Motors : x # m => flags'[x] = flags[x]
          /\ m \notin AutoMotors =>
                 ("ENABLED" \in flags'[m] <=> "ENABLED" \in flags[m])
      BY <1>0, <1>10, MotorAssumption DEF IsrStop, AllDone, StopBits, mainVars
    <2>2. ASSUME NEW x \in Motors
          PROVE  /\ <<"DIR", x>> \in odr' <=> <<"DIR", x>> \in odr
                 /\ x \notin AutoMotors =>
                       /\ <<"MF", x>> \in odr' <=> <<"MF", x>> \in odr
                       /\ "ENABLED" \in flags'[x] <=> "ENABLED" \in flags[x]
      <3>1. FALSE \in BOOLEAN
        OBVIOUS
      <3>2. /\ <<"DIR", x>> \in WithMf(odr, m, FALSE) <=> <<"DIR", x>> \in odr
            /\ x # m => (<<"MF", x>> \in WithMf(odr, m, FALSE) <=> <<"MF", x>> \in odr)
        BY <2>1, <3>1, PinFacts
      <3>3. CASE m \in AutoMotors
        BY <2>1, <3>2, <3>3
      <3>4. CASE m \notin AutoMotors
        BY <2>1, <3>4
      <3> QED
        BY <3>3, <3>4
    <2>3. \A x \in Motors : Armed(x)' => Armed(x)
      BY <2>1 DEF Armed, Preparing, Planned
    <2>4. Enabling' <=> Enabling
      BY <2>1 DEF Enabling
    <2> QED
      BY <1>0, <2>1, <2>2, <2>3, <2>4 DEF PinInv
  <1>11. ASSUME NEW m \in TimerMotors, IsrStep(m)
         PROVE  PinInv'
    BY <1>11 DEF IsrStep, AllDone, mainVars, PinInv, Armed, Preparing, Planned, Enabling
  <1>12. CASE UNCHANGED vars
    BY <1>12 DEF vars, motorVars, timerVars, mainVars, PinInv, Armed, Preparing,
                 Planned, Enabling
  <1> QED
    BY <1>1, <1>2, <1>3, <1>4, <1>5, <1>6, <1>7, <1>8, <1>9, <1>10, <1>11, <1>12
       DEF Next, MainStep, STEPPER_ISR

LEMMA PinsAgree == Spec => []PinInv
  BY TypeCorrect, Owner, PinInit, PinStep, PTL DEF Spec

(* A running motor turns the way its position is counted: main's stores of   *)
(* an outdated GPIOB_ODR never change the DIR pin of another motor.          *)
THEOREM DirPins == Spec => []DirPinAgrees
  <1>1. TypeOK /\ PinInv => DirPinAgrees
    BY MotorAssumption DEF TypeOK, PinInv, DirPinAgrees, Armed
  <1> QED
    BY <1>1, TypeCorrect, PinsAgree, PTL

(* The MF pin of a MANUAL motor and its ENABLED bit agree.                   *)
THEOREM ManualPins == Spec => []ManualPinMatchesFlag
  <1>1. PinInv => ManualPinMatchesFlag
    BY DEF PinInv, ManualPinMatchesFlag
  <1> QED
    BY <1>1, PinsAgree, PTL

(* Both: a running motor turns the way it is counted, and a MANUAL motor is   *)
(* powered as it is reported.                                                *)
THEOREM PinsRight == Spec => []PinsMatch
  BY DirPins, ManualPins, PTL DEF PinsMatch

(* The whole inductive invariant.                                            *)
THEOREM Invariance == Spec => []IInv
  BY Owner, Plans, SpeedsOnRamp, PinsAgree, PTL DEF IInv

-----------------------------------------------------------------------------
(* Actions.                                                                *)

(* No step changes the direction, the length or the target of a motion in   *)
(* progress.                                                                *)
THEOREM PlansFixed == Spec => PlanIsFixed
  <1> DEFINE Fixed == \A m \in cen :
                        /\ current_dir'[m] = current_dir[m]
                        /\ cop'[m].total_steps = cop[m].total_steps
                        /\ cop'[m].target_pos = cop[m].target_pos
  <1>1. TypeOK /\ OwnerInv /\ [Next]_vars => [Fixed]_vars
    <2> SUFFICES ASSUME TypeOK, OwnerInv, [Next]_vars, NEW m \in cen
                 PROVE  /\ current_dir'[m] = current_dir[m]
                        /\ cop'[m].total_steps = cop[m].total_steps
                        /\ cop'[m].target_pos = cop[m].target_pos
      OBVIOUS
    <2>0. /\ m \in Motors /\ "MOVING" \in flags[m] /\ req.motor \in Motors
          /\ current_dir \in [Motors -> {"FORWARD", "BACKWARD"}]
          /\ cop \in [Motors -> OpType]
          /\ pc \in {"dir", "start"} => req.motor # m
          /\ pc = "move" /\ "MOVING" \notin byte => req.motor # m
      BY MotorAssumption, RequestType DEF TypeOK, OwnerInv, Preparing
    <2>1. CASE UNCHANGED <<current_dir, cop>>
      BY <2>1
    <2>2. CASE MoveClaim
      BY <2>0, <2>2 DEF MoveClaim, Ready
    <2>3. CASE MovePlan
      BY <2>0, <2>3 DEF MovePlan
    <2>4. ASSUME NEW x \in TimerMotors, STEPPER_ISR(x)
          PROVE  /\ current_dir'[m] = current_dir[m]
                 /\ cop'[m].total_steps = cop[m].total_steps
                 /\ cop'[m].target_pos = cop[m].target_pos
      <3>1. x \in Motors
        BY MotorAssumption
      <3>2. CASE IsrStop(x)
        BY <2>0, <3>1, <3>2 DEF IsrStop, AllDone, StopBits, OpType
      <3>3. CASE IsrStep(x)
        BY <2>0, <3>1, <3>3 DEF IsrStep, AllDone, OpType
      <3> QED
        BY <2>4, <3>2, <3>3 DEF STEPPER_ISR
    <2>5. CASE \/ SteppersInit \/ MoveBusy \/ StoreEnabled \/ StoreMf \/ MoveStart
               \/ UNCHANGED vars
      BY <2>1, <2>5 DEF SteppersInit, MoveBusy, Ready, StoreEnabled, WithEnabled, StoreMf, MoveStart,
                        vars, motorVars
    <2>6. CASE \E r \in Requests : manager_handle_control_packet(r)
      BY <2>1, <2>6 DEF manager_handle_control_packet, motorVars
    <2>7. CASE \E x \in TimerMotors : Overflow(x)
      BY <2>1, <2>7 DEF Overflow, motorVars
    <2> QED
      BY <2>2, <2>3, <2>4, <2>5, <2>6, <2>7 DEF Next, MainStep
  <1> QED
    BY <1>1, TypeCorrect, Owner, PTL DEF Spec, PlanIsFixed

-----------------------------------------------------------------------------
(* A host whose targets stay inside of int32_t.                            *)

InnerInv ==
    /\ req.pos \notin {INT32_MIN, INT32_MAX}
    /\ \A m \in Motors : cop[m].target_pos \notin {INT32_MIN, INT32_MAX}

LEMMA InnerInit == Init => InnerInv
  BY Range32 DEF Init, InnerInv, NoRequest

LEMMA InnerStep == InnerTargets /\ TypeOK /\ InnerInv /\ [Next]_vars => InnerInv'
  <1> SUFFICES ASSUME InnerTargets, TypeOK, InnerInv, [Next]_vars PROVE InnerInv'
    OBVIOUS
  <1>0. req.motor \in Motors /\ cop \in [Motors -> OpType]
    BY RequestType DEF TypeOK
  <1>1. NoRequest.pos \notin {INT32_MIN, INT32_MAX}
    BY Range32 DEF NoRequest
  <1>2. req' = req \/ req' = NoRequest \/ req' \in Requests
    BY DEF Next, MainStep, SteppersInit, MoveBusy, Ready, Return, MoveClaim, MovePlan,
       StoreEnabled, StoreMf, MoveStart, manager_handle_control_packet, Overflow,
       STEPPER_ISR, IsrStop, IsrStep, AllDone, StopBits, mainVars, vars
  <1>3. req'.pos \notin {INT32_MIN, INT32_MAX}
    BY <1>1, <1>2 DEF InnerInv, InnerTargets
  <1>4. ASSUME NEW m \in Motors PROVE cop'[m].target_pos \notin {INT32_MIN, INT32_MAX}
    <2>1. cop[m].target_pos \notin {INT32_MIN, INT32_MAX} /\ req.pos \notin {INT32_MIN, INT32_MAX}
      BY DEF InnerInv
    <2>2. CASE cop' = cop
      BY <2>1, <2>2
    <2>3. CASE MoveClaim
      <3>1. cop'[m].target_pos = IF m = req.motor THEN req.pos ELSE cop[m].target_pos
        BY <1>0, <2>3 DEF MoveClaim, OpType
      <3> QED
        BY <2>1, <3>1
    <2>4. CASE MovePlan
      <3>1. cop'[m].target_pos = cop[m].target_pos
        BY <1>0, <2>4 DEF MovePlan, Plan
      <3> QED
        BY <2>1, <3>1
    <2>5. ASSUME NEW x \in TimerMotors, STEPPER_ISR(x)
          PROVE  cop'[m].target_pos \notin {INT32_MIN, INT32_MAX}
      <3>1. cop'[m].target_pos = cop[m].target_pos
        <4>1. x \in Motors
          BY MotorAssumption
        <4>2. CASE IsrStop(x)
          BY <1>0, <4>1, <4>2 DEF IsrStop, OpType
        <4>3. CASE IsrStep(x)
          BY <1>0, <4>1, <4>3 DEF IsrStep, OpType
        <4> QED
          BY <2>5, <4>2, <4>3 DEF STEPPER_ISR
      <3> QED
        BY <2>1, <3>1
    <2>6. (\E r \in Requests : manager_handle_control_packet(r)) => cop' = cop
      BY DEF manager_handle_control_packet, motorVars
    <2>7. SteppersInit \/ MoveBusy \/ StoreEnabled \/ StoreMf \/ MoveStart => cop' = cop
      BY DEF SteppersInit, MoveBusy, StoreEnabled, StoreMf, MoveStart, motorVars
    <2>8. (\E x \in TimerMotors : Overflow(x)) \/ UNCHANGED vars => cop' = cop
      BY DEF Overflow, vars, motorVars
    <2> QED
      BY <2>2, <2>3, <2>4, <2>5, <2>6, <2>7, <2>8 DEF Next, MainStep
  <1> QED
    BY <1>3, <1>4 DEF InnerInv

LEMMA Inner == InnerTargets => (Spec => []InnerInv)
  <1> SUFFICES ASSUME InnerTargets PROVE Spec => []InnerInv
    OBVIOUS
  <1>1. TypeOK /\ InnerInv /\ [Next]_vars => InnerInv'
    BY InnerStep
  <1> QED
    BY <1>1, InnerInit, TypeCorrect, PTL DEF Spec

\* The steps of a motion to such a target do not wrap.
LEMMA InnerMotion ==
    ASSUME TypeOK, InnerInv, NEW m \in Motors, PlanOf(m)
    PROVE  /\ LandsClose(m)
           /\ cop[m].done_steps < cop[m].total_steps =>
                 Stepped(m) = IF current_dir[m] = "FORWARD" THEN position[m] + 1
                                                            ELSE position[m] - 1
  <1>1. cop[m].target_pos \notin {INT32_MIN, INT32_MAX}
    BY DEF InnerInv
  <1>2. LandsClose(m)
    BY <1>1 DEF PlanOf, LandsClose, WrappedAround
  <1>3. ASSUME cop[m].done_steps < cop[m].total_steps
        PROVE  Stepped(m) = IF current_dir[m] = "FORWARD" THEN position[m] + 1
                                                          ELSE position[m] - 1
    <2>1. /\ current_dir[m] = "FORWARD" => position[m] < INT32_MAX
          /\ current_dir[m] # "FORWARD" => position[m] > INT32_MIN
      BY <1>1, <1>2, <1>3, MotorTypes, Range32
         DEF LandsClose, Destination, Remaining, Int32
    <2> QED
      BY <2>1, MotorTypes, Range32 DEF Stepped
  <1> QED
    BY <1>2, <1>3

-----------------------------------------------------------------------------
(* Refinement.                                                             *)

\* Steps that neither start nor stop nor advance a motor.
LEMMA HeadingSame ==
    ASSUME cen' = cen, position' = position,
           \A x \in cen : /\ current_dir'[x] = current_dir[x]
                          /\ cop'[x].total_steps = cop[x].total_steps
                          /\ cop'[x].done_steps = cop[x].done_steps
    PROVE  UNCHANGED <<position, Heading, cen>>
  BY DEF Heading, Destination, Remaining

LEMMA ArmStep ==
    TypeOK /\ OwnerInv /\ PlanInv /\ InnerInv /\ [Next]_vars => [Arm!Next]_(Arm!vars)
  <1> SUFFICES ASSUME TypeOK, OwnerInv, PlanInv, InnerInv, [Next]_vars
               PROVE  Arm!Next \/ UNCHANGED <<position, Heading, cen>>
    BY DEF Arm!vars
  <1>0. /\ req.motor \in Motors /\ req.pos \in Int32 /\ req.pos \in Int
        /\ position \in [Motors -> Int]
        /\ current_dir \in [Motors -> {"FORWARD", "BACKWARD"}]
        /\ cop \in [Motors -> OpType]
        /\ cen \subseteq Motors /\ TimerMotors \subseteq Motors
    BY RequestType, MotorAssumption, Range32 DEF TypeOK
  <1>1. CASE UNCHANGED <<position, current_dir, cop, cen>>
    BY <1>1, HeadingSame
  <1>2. CASE MoveClaim
    <2>1. req.motor \notin cen
      BY <1>2 DEF MoveClaim, Ready, OwnerInv
    <2> QED
      BY <1>0, <1>2, <2>1, HeadingSame DEF MoveClaim, Ready, timerVars
  <1>3. CASE MovePlan
    <2>1. req.motor \notin cen
      BY <1>0, <1>3 DEF MovePlan, OwnerInv, Preparing
    <2> QED
      BY <1>0, <1>3, <2>1, HeadingSame DEF MovePlan, timerVars
  <1>4. CASE MoveStart
    <2>0. PICK m \in Motors : m = req.motor
      BY <1>0
    <2>1. /\ pc = "start" /\ cen' = cen \cup ({m} \cap TimerMotors)
          /\ UNCHANGED <<position, current_dir, cop>>
      BY <1>4, <2>0 DEF MoveStart, motorVars
    <2>2. CASE m \notin TimerMotors
      BY <1>1, <2>1, <2>2
    <2>3. CASE m \in TimerMotors
      <3>1. /\ Preparing(m) /\ PreparedFor(m) /\ req.op = "MOVE_TO" /\ m \notin cen
        BY <2>0, <2>1 DEF OwnerInv, PlanInv, Preparing
      <3>2. req.pos \in {r.pos : r \in Requests}
        <4>1. req \in Requests
          BY <3>1 DEF TypeOK, NoRequest
        <4> QED
          BY <4>1
      <3>3. cen' = cen \cup {m}
        BY <2>1, <2>3
      <3>4. Destination(m)' = Arm!Even(position[m], req.pos)
        <4>1. /\ cop[m].total_steps = RoundUp(Distance(m, req.pos))
              /\ cop[m].done_steps = 0
              /\ current_dir[m] = Direction(m, req.pos)
          BY <2>1, <3>1 DEF PreparedFor
        <4>2. Destination(m)' = IF current_dir[m] = "FORWARD"
                                THEN position[m] + RoundUp(Distance(m, req.pos))
                                ELSE position[m] - RoundUp(Distance(m, req.pos))
          <5>1. RoundUp(Distance(m, req.pos)) \in Nat
            BY <4>1, MotorTypes
          <5> QED
            BY <2>1, <4>1, <5>1 DEF Destination, Remaining
        <4>3. /\ position[m] \in Int32 /\ position[m] \in Int
              /\ RoundUp(Distance(m, req.pos))
                   = Distance(m, req.pos) + (Distance(m, req.pos) % 2)
          <5>1. position[m] \in Int32 /\ position[m] \in Int
            BY MotorTypes
          <5>2. Distance(m, req.pos) # TwoTo32 - 1
            BY <1>0, <5>1, DistanceType DEF InnerInv
          <5> QED
            BY <1>0, <5>1, <5>2, DistanceType, RoundUpType
        <4>4. CASE req.pos > position[m]
          <5>1. Destination(m)' =
                  position[m] + ((req.pos - position[m]) + ((req.pos - position[m]) % 2))
            BY <4>1, <4>2, <4>3, <4>4 DEF Direction, Distance
          <5> QED
            BY <1>0, <4>3, <4>4, <5>1 DEF Arm!Even
        <4>5. CASE ~(req.pos > position[m])
          <5>1. Destination(m)' =
                  position[m] - ((position[m] - req.pos) + ((position[m] - req.pos) % 2))
            BY <4>1, <4>2, <4>3, <4>5 DEF Direction, Distance
          <5> QED
            BY <1>0, <4>3, <4>5, <5>1 DEF Arm!Even
        <4> QED
          BY <4>4, <4>5
      <3>5. Heading' = [Heading EXCEPT ![m] = Arm!Even(position[m], req.pos)]
        <4>1. \A x \in Motors : x # m =>
                 (IF x \in cen' THEN Destination(x)' ELSE position'[x])
                   = (IF x \in cen THEN Destination(x) ELSE position[x])
          BY <2>1, <3>3 DEF Destination, Remaining
        <4> QED
          BY <3>3, <3>4, <4>1 DEF Heading
      <3>6. Arm!Accept(m, req.pos)
        BY <2>1, <3>1, <3>3, <3>5 DEF Arm!Accept
      <3> QED
        BY <3>2, <3>6 DEF Arm!Next
    <2> QED
      BY <2>2, <2>3
  <1>5. ASSUME NEW m \in TimerMotors, IsrStop(m)
        PROVE  Arm!Next \/ UNCHANGED <<position, Heading, cen>>
    <2>1. /\ m \in Motors /\ m \in uif /\ cen' = cen \ {m}
          /\ cop[m].done_steps >= cop[m].total_steps
          /\ UNCHANGED <<position, current_dir>>
          /\ \A x \in Motors : /\ cop'[x].total_steps = cop[x].total_steps
                                /\ cop'[x].done_steps = cop[x].done_steps
      BY <1>0, <1>5 DEF IsrStop, AllDone, StopBits, OpType
    <2>2. CASE m \notin cen
      BY <1>0, <2>1, <2>2, HeadingSame
    <2>3. CASE m \in cen
      <3>1. PlanOf(m)
        BY <2>1, <2>3 DEF OwnerInv, PlanInv, Planned, Preparing
      <3>2. Destination(m) = position[m]
        <4>1. /\ cop[m].total_steps \in Nat /\ cop[m].done_steps \in Nat
              /\ cop[m].done_steps <= cop[m].total_steps /\ position[m] \in Int
          BY <2>1, <3>1, MotorTypes DEF PlanOf
        <4> QED
          BY <2>1, <4>1 DEF Destination, Remaining
      <3>3. Heading' = Heading
        BY <2>1, <3>2 DEF Heading, Destination, Remaining
      <3>4. Heading[m] = position[m]
        BY <2>1, <2>3, <3>2 DEF Heading
      <3>5. Arm!Arrive(m)
        BY <2>1, <2>3, <3>3, <3>4 DEF Arm!Arrive
      <3> QED
        BY <2>1, <3>5 DEF Arm!Next
    <2> QED
      BY <2>2, <2>3
  <1>6. ASSUME NEW m \in TimerMotors, IsrStep(m)
        PROVE  Arm!Next
    <2>1. /\ m \in Motors /\ m \in uif /\ UNCHANGED <<cen, current_dir>>
          /\ cop[m].done_steps < cop[m].total_steps
          /\ cop'[m].total_steps = cop[m].total_steps
          /\ cop'[m].done_steps = cop[m].done_steps + 1
          /\ \A x \in Motors : x # m => cop'[x] = cop[x]
          /\ position' = [position EXCEPT ![m] = Stepped(m)]
      <3>1. m \in Motors /\ ~AllDone(m)
        BY <1>0, <1>6 DEF IsrStep
      <3>2. cop[m].done_steps < cop[m].total_steps
        BY <3>1, MotorTypes DEF AllDone
      <3> QED
        BY <1>0, <1>6, <3>1, <3>2 DEF IsrStep, OpType
    <2>2. /\ cop[m].total_steps \in Nat /\ cop[m].done_steps \in Nat
          /\ position[m] \in Int
      BY <2>1, MotorTypes
    <2>3. m \in cen
      BY <2>1, <2>2 DEF OwnerInv
    <2>10. position' = [position EXCEPT ![m] = IF current_dir[m] = "FORWARD"
                                              THEN @ + 1 ELSE @ - 1]
      <3>1. PlanOf(m)
        BY <2>1, <2>3 DEF OwnerInv, PlanInv, Planned, Preparing
      <3> QED
        BY <2>1, <3>1, InnerMotion
    <2>4. Destination(m)' = Destination(m)
      BY <1>0, <2>1, <2>2, <2>10 DEF Destination, Remaining
    <2>5. Heading' = Heading
      <3>1. \A x \in Motors : x # m =>
               (IF x \in cen' THEN Destination(x)' ELSE position'[x])
                 = (IF x \in cen THEN Destination(x) ELSE position[x])
        BY <1>0, <2>1, <2>10 DEF Destination, Remaining
      <3> QED
        BY <2>1, <2>3, <2>4, <3>1 DEF Heading
    <2>6. Heading[m] = Destination(m)
      BY <2>1, <2>3 DEF Heading
    <2>7. /\ position[m] # Heading[m]
          /\ Heading[m] > position[m] <=> current_dir[m] = "FORWARD"
      BY <2>1, <2>2, <2>6 DEF Destination, Remaining
    <2>8. position' = [position EXCEPT ![m] = IF Heading[m] > @ THEN @ + 1 ELSE @ - 1]
      BY <2>1, <2>7, <2>10
    <2>9. Arm!Step(m)
      BY <2>1, <2>3, <2>5, <2>7, <2>8 DEF Arm!Step
    <2> QED
      BY <2>1, <2>9 DEF Arm!Next
  <1>7. CASE \/ SteppersInit \/ MoveBusy \/ StoreEnabled \/ StoreMf \/ UNCHANGED vars
    BY <1>1, <1>7 DEF SteppersInit, MoveBusy, Ready, StoreEnabled, WithEnabled, StoreMf,
                      vars, motorVars, timerVars
  <1>8. CASE \E r \in Requests : manager_handle_control_packet(r)
    BY <1>1, <1>8 DEF manager_handle_control_packet, motorVars, timerVars
  <1>9. CASE \E m \in TimerMotors : Overflow(m)
    BY <1>1, <1>9 DEF Overflow, motorVars
  <1> QED
    BY <1>2, <1>3, <1>4, <1>5, <1>6, <1>7, <1>8, <1>9 DEF Next, MainStep, STEPPER_ISR

(* The driver implements Motion: every accepted MOVE_TO is one motion, made  *)
(* of single steps towards its destination, that ends only there, for a     *)
(* host that asks for neither end of int32_t.                               *)
THEOREM Refinement == InnerTargets => (Spec => ImplementsMotion)
  <1>1. Init => Arm!Init
    BY DEF Init, Arm!Init, Heading
  <1> QED
    BY <1>1, TypeCorrect, Owner, Plans, Inner, ArmStep, PTL
       DEF Spec, ImplementsMotion, Arm!Spec
-----------------------------------------------------------------------------
(* Power of the motors in AUTO mode.                                       *)

(* What control.h:32 asks of a host: ENABLE and DISABLE are for motors in   *)
(* MANUAL mode.                                                             *)
PoliteHost == \A r \in Requests : r.op \in {"ENABLE", "DISABLE"} => r.motor \notin AutoMotors

LEMMA PowerInit == Init => PowerInv
  BY MotorAssumption DEF Init, PowerInv, NoRequest

LEMMA PowerStep ==
    ASSUME PoliteHost
    PROVE  TypeOK /\ OwnerInv /\ PowerInv /\ [Next]_vars => PowerInv'
  <1> SUFFICES ASSUME TypeOK, OwnerInv, PowerInv, [Next]_vars PROVE PowerInv'
    OBVIOUS
  <1>0. /\ req.motor \in Motors
        /\ flags \in [Motors -> SUBSET {"MOVING", "ENABLED"}]
        /\ cen \subseteq Motors
        /\ NoRequest.motor \notin AutoMotors
    BY RequestType, MotorAssumption DEF TypeOK, NoRequest
  <1> DEFINE m == req.motor
             Driven == cen \cap AutoMotors
  <1>1. CASE SteppersInit
    BY <1>0, <1>1 DEF SteppersInit, OwnerInv, PowerInv, timerVars
  <1>2. ASSUME NEW r \in Requests, manager_handle_control_packet(r)
        PROVE  PowerInv'
    <2>1. r.motor \in AutoMotors => r.op = "MOVE_TO"
      BY RequestType DEF PoliteHost, Ops
    <2> QED
      BY <1>2, <2>1
         DEF manager_handle_control_packet, PowerInv, Powered, motorVars, timerVars
  <1>3. CASE MoveBusy
    BY <1>0, <1>3 DEF MoveBusy, Ready, Return, PowerInv, Powered, motorVars, timerVars
  <1>4. CASE MoveClaim
    <2>1. m \notin cen
      BY <1>4 DEF MoveClaim, Ready, OwnerInv
    <2>2. \A x \in Driven : flags'[x] = flags[x]
      BY <1>0, <1>4, <2>1 DEF MoveClaim, Ready
    <2> QED
      BY <1>4, <2>2 DEF MoveClaim, Ready, PowerInv, Powered, timerVars
  <1>5. CASE MovePlan
    \* m is no running motor, but any other's MF is in the copy.
    <2>1. \A x \in Driven : <<"MF", x>> \in odr'
      BY <1>5 DEF MovePlan, WithDir, PowerInv
    <2> QED
      BY <1>5, <2>1 DEF MovePlan, PowerInv, Powered, timerVars
  <1>6. CASE StoreEnabled
    <2>1. /\ pc = "flag" /\ pc' = "pin" /\ word' = odr
          /\ UNCHANGED <<odr, cen, req>>
      BY <1>6 DEF StoreEnabled, WithEnabled, timerVars
    <2>2. m \in AutoMotors => m \notin cen /\ Enabling
      BY <1>0, <2>1 DEF PowerInv, OwnerInv, Preparing, Enabling
    <2>3. /\ m \in AutoMotors => "ENABLED" \in flags'[m]
          /\ \A x \in Driven : flags'[x] = flags[x]
      BY <1>0, <1>6, <2>2 DEF StoreEnabled, WithEnabled
    <2> QED
      BY <2>1, <2>3 DEF PowerInv, Powered
  <1>7. CASE StoreMf
    <2>1. pc = "pin" /\ UNCHANGED <<flags, cen>> /\ odr' = WithMf(word, m, Enabling)
      BY <1>7 DEF StoreMf, motorVars, timerVars
    <2>2. m \in AutoMotors => Enabling /\ <<"MF", m>> \in odr' /\ "ENABLED" \in flags[m]
      BY <2>1 DEF PowerInv, Enabling, WithMf
    <2>3. \A x \in Driven : <<"MF", x>> \in odr'
      BY <2>1, <2>2 DEF PowerInv, WithMf
    <2>4. CASE req.op = "MOVE_TO"
      BY <1>7, <2>1, <2>2, <2>3, <2>4 DEF StoreMf, PowerInv, Powered
    <2>5. CASE req.op # "MOVE_TO"
      BY <1>0, <1>7, <2>1, <2>3, <2>5 DEF StoreMf, Return, PowerInv, Powered
    <2> QED
      BY <2>4, <2>5
  <1>8. CASE MoveStart
    <2>1. /\ cen' \cap AutoMotors \subseteq Driven \cup ({m} \cap AutoMotors)
          /\ UNCHANGED <<flags, odr>> /\ pc = "start" /\ pc' = "poll" /\ req' = NoRequest
      BY <1>8 DEF MoveStart, Return, motorVars
    <2> QED
      BY <1>0, <2>1 DEF PowerInv, Powered
  <1>9. ASSUME NEW x \in TimerMotors, Overflow(x)
        PROVE  PowerInv'
    BY <1>9 DEF Overflow, PowerInv, Powered, motorVars, mainVars
  <1>10. ASSUME NEW x \in TimerMotors, IsrStop(x)
         PROVE  PowerInv'
    <2>1. x \in Motors /\ x \in uif /\ cen' = cen \ {x} /\ UNCHANGED mainVars
      BY <1>10, MotorAssumption DEF IsrStop, AllDone, StopBits
    <2>2. \A y \in Motors : y # x /\ Powered(y) => Powered(y)'
      BY <1>0, <1>10, <2>1 DEF IsrStop, AllDone, StopBits, WithMf, Powered
    <2>3. m \in AutoMotors /\ pc \in {"pin", "start"} => m # x
      BY <1>0, <2>1 DEF OwnerInv, PowerInv, Preparing
    <2>4. \A y \in Motors : y # x => flags'[y] = flags[y]
      BY <1>0, <1>10, <2>1 DEF IsrStop, AllDone, StopBits
    <2> QED
      BY <1>0, <2>1, <2>2, <2>3, <2>4 DEF PowerInv, mainVars
  <1>11. ASSUME NEW x \in TimerMotors, IsrStep(x)
         PROVE  PowerInv'
    BY <1>11 DEF IsrStep, AllDone, PowerInv, Powered, mainVars
  <1>12. CASE UNCHANGED vars
    BY <1>12 DEF vars, motorVars, timerVars, mainVars, PowerInv, Powered
  <1> QED
    BY <1>1, <1>2, <1>3, <1>4, <1>5, <1>6, <1>7, <1>8, <1>9, <1>10, <1>11, <1>12
       DEF Next, MainStep, STEPPER_ISR

(* With a host that leaves ENABLE and DISABLE of AUTO motors alone, such a  *)
(* motor has power and is reported ENABLED as long as its timer runs:       *)
(* stepper_simple_move enables it before it starts the timer                *)
(* (stepper.c:127-132), and no store of an outdated copy of GPIOB_ODR takes *)
(* its MF pin away.                                                         *)
THEOREM PoweredWhileRunning ==
    PoliteHost => (Spec => []AutoPoweredWhileRunning)
  <1> SUFFICES ASSUME PoliteHost PROVE Spec => []AutoPoweredWhileRunning
    OBVIOUS
  <1>1. PowerInv => AutoPoweredWhileRunning
    BY DEF PowerInv, Powered, AutoPoweredWhileRunning
  <1>2. TypeOK /\ OwnerInv /\ PowerInv /\ [Next]_vars => PowerInv'
    BY PowerStep
  <1> QED
    BY <1>1, <1>2, PowerInit, TypeCorrect, Owner, PTL DEF Spec

-----------------------------------------------------------------------------
(* STATUS replies, for every order in which main reads the fields.         *)

(* A STATUS request changes nothing of the driver: what holds of the driver *)
(* without such requests holds with them.                                   *)
LEMMA DriverStep == [StatusNext]_allVars => [Next]_vars
  BY DEF StatusNext, StatusStep, Status, Read, Send, allVars, Next

LEMMA Driver == StatusSpec => Spec
  BY DriverStep, PTL DEF StatusSpec, StatusInit, Spec

-----------------------------------------------------------------------------
(* What a motor that is not marked MOVING guarantees.                       *)

AtRest(m) == cop[m].current_sps = 0 /\ Remaining(m) = 0

RestInv == \A m \in Motors : "MOVING" \notin flags[m] => AtRest(m)

LEMMA RestStep == TypeOK /\ OwnerInv /\ PlanInv /\ RestInv /\ [Next]_vars => RestInv'
  <1> SUFFICES ASSUME TypeOK, OwnerInv, PlanInv, RestInv, [Next]_vars,
                      NEW m \in Motors, "MOVING" \notin flags'[m]
               PROVE  AtRest(m)'
    BY DEF RestInv
  <1>0. /\ cop \in [Motors -> OpType] /\ req.motor \in Motors
        /\ flags \in [Motors -> SUBSET {"MOVING", "ENABLED"}]
    BY RequestType DEF TypeOK
  <1>1. CASE UNCHANGED <<cop, flags>>
    BY <1>1 DEF RestInv, AtRest, Remaining
  <1>2. CASE SteppersInit
    <2>1. "MOVING" \notin flags[m] /\ cop' = cop
      BY <1>0, <1>2 DEF SteppersInit, OwnerInv
    <2> QED
      BY <2>1 DEF RestInv, AtRest, Remaining
  <1>3. CASE MoveClaim
    <2>1. m # req.motor
      BY <1>0, <1>3 DEF MoveClaim
    <2>2. flags'[m] = flags[m] /\ cop'[m] = cop[m]
      BY <1>0, <1>3, <2>1 DEF MoveClaim
    <2> QED
      BY <2>2 DEF RestInv, AtRest, Remaining
  <1>4. CASE MovePlan
    <2>1. flags' = flags /\ Preparing(req.motor)
      BY <1>4 DEF MovePlan, Preparing, OwnerInv
    <2>2. m # req.motor
      BY <1>0, <2>1 DEF OwnerInv
    <2>3. cop'[m] = cop[m]
      BY <1>0, <1>4, <2>2 DEF MovePlan
    <2> QED
      BY <2>1, <2>3 DEF RestInv, AtRest, Remaining
  <1>5. CASE StoreEnabled
    <2>1. cop' = cop /\ ("MOVING" \in flags[m] => "MOVING" \in flags'[m])
      BY <1>0, <1>5 DEF StoreEnabled, WithEnabled, OwnerInv
    <2> QED
      BY <2>1 DEF RestInv, AtRest, Remaining
  <1>6. ASSUME NEW x \in TimerMotors, IsrStop(x) PROVE AtRest(m)'
    <2>1. x \in Motors /\ x \in uif /\ AllDone(x)
      BY <1>6, MotorAssumption DEF IsrStop
    <2>2. CASE x = m
      <3>1. Planned(m)
        BY <2>1, <2>2, <1>0 DEF OwnerInv, Planned, Preparing
      <3>2. cop[m].done_steps = cop[m].total_steps
        BY <2>1, <2>2, <3>1, MotorTypes DEF PlanInv, PlanOf, AllDone
      <3>3. /\ cop'[m].current_sps = 0 /\ cop'[m].done_steps = cop[m].done_steps
            /\ cop'[m].total_steps = cop[m].total_steps
        BY <1>0, <1>6, <2>2 DEF IsrStop, OpType
      <3> QED
        BY <1>0, <3>2, <3>3, MotorTypes DEF AtRest, Remaining
    <2>3. CASE x # m
      <3>1. flags'[m] = flags[m] /\ cop'[m] = cop[m]
        BY <1>0, <1>6, <2>1, <2>3 DEF IsrStop
      <3> QED
        BY <3>1 DEF RestInv, AtRest, Remaining
    <2> QED
      BY <2>2, <2>3
  <1>7. ASSUME NEW x \in TimerMotors, IsrStep(x) PROVE AtRest(m)'
    <2>1. x \in Motors /\ flags' = flags /\ ~AllDone(x)
      BY <1>7, MotorAssumption DEF IsrStep
    <2>2. Remaining(m) = 0 /\ cop[m].done_steps \in Nat /\ cop[m].total_steps \in Nat
      BY <1>0, <2>1, MotorTypes DEF RestInv, AtRest
    <2>3. x # m
      BY <2>1, <2>2 DEF AllDone, Remaining
    <2>4. cop'[m] = cop[m]
      BY <1>0, <1>7, <2>1, <2>3 DEF IsrStep
    <2> QED
      BY <2>1, <2>4 DEF RestInv, AtRest, Remaining
  <1>8. (\E r \in Requests : manager_handle_control_packet(r)) => UNCHANGED <<cop, flags>>
    BY DEF manager_handle_control_packet, motorVars
  <1>9. MoveBusy \/ StoreMf \/ MoveStart => UNCHANGED <<cop, flags>>
    BY DEF MoveBusy, StoreMf, MoveStart, motorVars
  <1>10. (\E x \in TimerMotors : Overflow(x)) => UNCHANGED <<cop, flags>>
    BY DEF Overflow, motorVars
  <1>11. UNCHANGED vars => UNCHANGED <<cop, flags>>
    BY DEF vars, motorVars
  <1> QED
    BY <1>1, <1>2, <1>3, <1>4, <1>5, <1>6, <1>7, <1>8, <1>9, <1>10, <1>11
       DEF Next, MainStep, STEPPER_ISR

LEMMA Rest == Spec => []RestInv
  <1>1. Init => RestInv
    BY DEF Init, RestInv, AtRest, Remaining
  <1> QED
    BY <1>1, RestStep, TypeCorrect, Owner, Plans, PTL DEF Spec

-----------------------------------------------------------------------------
(* Speeds, of motors that do not run as well.                               *)

SpeedOrZero ==
    \A m \in Motors : cop[m].current_sps # 0 => cop[m].current_sps \in min_sps[m]..max_sps[m]

LEMMA SpeedOrZeroStep ==
    TypeOK /\ OwnerInv /\ SpeedInRange' /\ SpeedOrZero /\ [Next]_vars => SpeedOrZero'
  <1> SUFFICES ASSUME TypeOK, OwnerInv, SpeedInRange', SpeedOrZero, [Next]_vars,
                      NEW m \in Motors, cop'[m].current_sps # 0
               PROVE  cop'[m].current_sps \in min_sps[m]..max_sps[m]
    BY DEF SpeedOrZero
  <1>0. cop \in [Motors -> OpType] /\ req.motor \in Motors
    BY RequestType DEF TypeOK
  <1>1. CASE cop'[m] = cop[m]
    BY <1>1 DEF SpeedOrZero
  <1>2. CASE MoveClaim
    <2>1. cop'[m].current_sps = cop[m].current_sps
      BY <1>0, <1>2 DEF MoveClaim, OpType
    <2> QED
      BY <2>1 DEF SpeedOrZero
  <1>3. CASE MovePlan
    <2>1. cop'[m].current_sps = min_sps[m] \/ cop'[m] = cop[m]
      BY <1>0, <1>3 DEF MovePlan, Plan
    <2> QED
      BY <1>1, <2>1, Speeds
  <1>4. ASSUME NEW x \in TimerMotors, IsrStop(x)
        PROVE  cop'[m].current_sps \in min_sps[m]..max_sps[m]
    <2>1. cop'[m].current_sps = cop[m].current_sps
      BY <1>0, <1>4 DEF IsrStop, OpType
    <2> QED
      BY <2>1 DEF SpeedOrZero
  <1>5. ASSUME NEW x \in TimerMotors, IsrStep(x)
        PROVE  cop'[m].current_sps \in min_sps[m]..max_sps[m]
    <2>1. CASE x = m
      <3>1. m \in cen'
        BY <1>5, <2>1 DEF IsrStep, AllDone, OwnerInv
      <3> QED
        BY <3>1 DEF SpeedInRange
    <2>2. CASE x # m
      <3>1. cop'[m] = cop[m]
        BY <1>0, <1>5, <2>2 DEF IsrStep
      <3> QED
        BY <3>1, <1>1
    <2> QED
      BY <2>1, <2>2
  <1>6. (\E r \in Requests : manager_handle_control_packet(r)) => cop' = cop
    BY DEF manager_handle_control_packet, motorVars
  <1>7. SteppersInit \/ MoveBusy \/ StoreEnabled \/ StoreMf \/ MoveStart => cop' = cop
    BY DEF SteppersInit, MoveBusy, StoreEnabled, StoreMf, MoveStart, motorVars
  <1>8. (\E x \in TimerMotors : Overflow(x)) \/ UNCHANGED vars => cop' = cop
    BY DEF Overflow, vars, motorVars
  <1> QED
    BY <1>1, <1>2, <1>3, <1>4, <1>5, <1>6, <1>7, <1>8 DEF Next, MainStep, STEPPER_ISR

LEMMA SpeedsOrZero == Spec => []SpeedOrZero
  <1>1. Init => SpeedOrZero
    BY DEF Init, SpeedOrZero
  <1> QED
    BY <1>1, SpeedOrZeroStep, TypeCorrect, Owner, SpeedsInRange, PTL DEF Spec

-----------------------------------------------------------------------------
(* The reply.                                                               *)

ReplyType == [enabled : BOOLEAN, moving : BOOLEAN, sps : Int, cpos : Int, tpos : Int]

\* What is true of the fields read so far.
RestSoFar(m) ==
    inOrder /\ ~reply.moving =>
        /\ "MOVING" \notin flags[m]
        /\ "sps" \notin todo => reply.sps = 0
        /\ "cpos" \notin todo => reply.cpos = position[m]

MotionSoFar(m) ==
    /\ "cpos" \notin todo => Covered(m, reply.cpos)
    /\ reply.tpos = cop[m].target_pos
    /\ "sps" \notin todo =>
          /\ reply.sps # 0 => reply.sps \in min_sps[m]..max_sps[m]
          /\ reply.sps = 0 => m \notin cen

EnabledSoFar(m) ==
    "enabled" \notin todo /\ m \notin AutoMotors =>
        (reply.enabled <=> ("ENABLED" \in flags[m]))

StatusInv ==
    /\ asked \subseteq Motors /\ \A x, y \in asked : x = y
    /\ asked # {} => pc = "poll"
    /\ inOrder => asked # {} /\ "moving" \notin todo
    /\ reply \in ReplyType
    /\ \A m \in asked : RestSoFar(m) /\ MotionSoFar(m) /\ EnabledSoFar(m)

\* The invariants of the driver that a reply rests on.
DriverInv ==
    TypeOK /\ OwnerInv /\ PlanInv /\ InnerInv /\ RestInv /\ SpeedOrZero /\ SpeedInRange

LEMMA CoveredHere ==
    ASSUME TypeOK, NEW m \in Motors PROVE Covered(m, position[m])
  <1>1. position[m] \in Int /\ cop[m].done_steps \in Nat
    BY MotorTypes
  <1> QED
    BY <1>1 DEF Covered, Origin

\* A read by main.
LEMMA ReadStep ==
    ASSUME DriverInv, StatusInv, NEW x \in AskedMotors, Read(x)
    PROVE  StatusInv'
  <1>0. /\ x \in asked /\ x \in Motors /\ asked' = asked /\ asked \subseteq Motors
        /\ \A m \in asked : m = x
        /\ RestSoFar(x) /\ MotionSoFar(x) /\ EnabledSoFar(x)
    BY StatusAssumption DEF Read, StatusInv
  <1>1. UNCHANGED <<flags, position, current_dir, cop, cen, pc>>
    BY DEF Read, vars, motorVars, timerVars, mainVars
  <1>2. \A p : Covered(x, p)' <=> Covered(x, p)
    BY <1>1 DEF Covered, Origin
  <1>3. /\ position[x] \in Int /\ cop[x].current_sps \in Int /\ reply \in ReplyType
        /\ pc = "poll"
    BY <1>0, MotorTypes DEF DriverInv, StatusInv
  <1>4. SUFFICES /\ inOrder' => "moving" \notin todo'
                 /\ reply' \in ReplyType
                 /\ RestSoFar(x)' /\ MotionSoFar(x)' /\ EnabledSoFar(x)'
    BY <1>0, <1>1, <1>3 DEF StatusInv
  <1>5. CASE "enabled" \in todo /\ ReadEnabled(x)
    <2>1. /\ todo' = todo \ {"enabled"} /\ inOrder' = inOrder
          /\ reply' = [reply EXCEPT !.enabled = "ENABLED" \in flags[x]]
      BY <1>5 DEF ReadEnabled
    <2>2. /\ reply' \in ReplyType /\ reply'.moving = reply.moving /\ reply'.sps = reply.sps
          /\ reply'.cpos = reply.cpos /\ reply'.tpos = reply.tpos
          /\ reply'.enabled <=> ("ENABLED" \in flags[x])
      <3> DEFINE b == "ENABLED" \in flags[x]
      <3>1. b \in BOOLEAN /\ reply' = [reply EXCEPT !.enabled = b]
        BY <2>1
      <3> HIDE DEF b
      <3>2. reply' \in ReplyType /\ (reply'.enabled <=> b)
        BY <1>3, <3>1 DEF ReplyType
      <3> QED
        BY <1>3, <3>1, <3>2 DEF ReplyType, b
    <2>3. \A f : f # "enabled" => (f \in todo' <=> f \in todo)
      BY <2>1
    <2>4. inOrder' => "moving" \notin todo'
      BY <2>1, <2>3 DEF StatusInv
    <2>5. RestSoFar(x)'
      BY <1>0, <1>1, <2>1, <2>2, <2>3 DEF RestSoFar
    <2>6. MotionSoFar(x)'
      BY <1>0, <1>1, <1>2, <2>2, <2>3 DEF MotionSoFar
    <2>7. EnabledSoFar(x)'
      BY <1>1, <2>2 DEF EnabledSoFar
    <2> QED
      BY <2>2, <2>4, <2>5, <2>6, <2>7
  <1>6. CASE "moving" \in todo /\ ReadMoving(x)
    <2>1. /\ todo' = todo \ {"moving"}
          /\ inOrder' => "sps" \in todo /\ "cpos" \in todo
          /\ reply' = [reply EXCEPT !.moving = "MOVING" \in flags[x]]
      BY <1>6 DEF ReadMoving
    <2>2. /\ reply' \in ReplyType /\ reply'.enabled = reply.enabled /\ reply'.sps = reply.sps
          /\ reply'.cpos = reply.cpos /\ reply'.tpos = reply.tpos
          /\ reply'.moving <=> ("MOVING" \in flags[x])
      <3> DEFINE b == "MOVING" \in flags[x]
      <3>1. b \in BOOLEAN /\ reply' = [reply EXCEPT !.moving = b]
        BY <2>1
      <3> HIDE DEF b
      <3>2. reply' \in ReplyType /\ (reply'.moving <=> b)
        BY <1>3, <3>1 DEF ReplyType
      <3> QED
        BY <1>3, <3>1, <3>2 DEF ReplyType, b
    <2>3. \A f : f # "moving" => (f \in todo' <=> f \in todo)
      BY <2>1
    <2>4. "moving" \notin todo'
      BY <2>1
    <2>5. RestSoFar(x)'
      BY <1>1, <2>1, <2>2, <2>3 DEF RestSoFar
    <2>6. MotionSoFar(x)'
      BY <1>0, <1>1, <1>2, <2>2, <2>3 DEF MotionSoFar
    <2>7. EnabledSoFar(x)'
      BY <1>0, <1>1, <2>2, <2>3 DEF EnabledSoFar
    <2> QED
      BY <2>2, <2>4, <2>5, <2>6, <2>7
  <1>7. CASE "sps" \in todo /\ ReadSps(x)
    <2>1. /\ todo' = todo \ {"sps"} /\ inOrder' = inOrder
          /\ reply' = [reply EXCEPT !.sps = cop[x].current_sps]
      BY <1>7 DEF ReadSps
    <2>2. /\ reply' \in ReplyType /\ reply'.moving = reply.moving
          /\ reply'.enabled = reply.enabled /\ reply'.cpos = reply.cpos
          /\ reply'.tpos = reply.tpos /\ reply'.sps = cop[x].current_sps
      BY <1>3, <2>1 DEF ReplyType
    <2>3. \A f : f # "sps" => (f \in todo' <=> f \in todo)
      BY <2>1
    <2>4. inOrder' => "moving" \notin todo'
      BY <2>1, <2>3 DEF StatusInv
    <2>5. RestSoFar(x)'
      <3>1. "MOVING" \notin flags[x] => cop[x].current_sps = 0
        BY <1>0 DEF DriverInv, RestInv, AtRest
      <3> QED
        BY <1>0, <1>1, <2>1, <2>2, <2>3, <3>1 DEF RestSoFar
    <2>6. MotionSoFar(x)'
      <3>1. /\ cop[x].current_sps # 0 => cop[x].current_sps \in min_sps[x]..max_sps[x]
            /\ cop[x].current_sps = 0 => x \notin cen
        BY <1>0, Speeds DEF DriverInv, SpeedOrZero, SpeedInRange
      <3> QED
        BY <1>0, <1>1, <1>2, <2>2, <2>3, <3>1 DEF MotionSoFar
    <2>7. EnabledSoFar(x)'
      BY <1>0, <1>1, <2>2, <2>3 DEF EnabledSoFar
    <2> QED
      BY <2>2, <2>4, <2>5, <2>6, <2>7
  <1>8. CASE "cpos" \in todo /\ ReadPosition(x)
    <2>1. /\ todo' = todo \ {"cpos"} /\ inOrder' = inOrder
          /\ reply' = [reply EXCEPT !.cpos = position[x]]
      BY <1>8 DEF ReadPosition
    <2>2. /\ reply' \in ReplyType /\ reply'.moving = reply.moving
          /\ reply'.enabled = reply.enabled /\ reply'.sps = reply.sps
          /\ reply'.tpos = reply.tpos /\ reply'.cpos = position[x]
      BY <1>3, <2>1 DEF ReplyType
    <2>3. \A f : f # "cpos" => (f \in todo' <=> f \in todo)
      BY <2>1
    <2>4. inOrder' => "moving" \notin todo'
      BY <2>1, <2>3 DEF StatusInv
    <2>5. RestSoFar(x)'
      BY <1>0, <1>1, <2>1, <2>2, <2>3 DEF RestSoFar
    <2>6. MotionSoFar(x)'
      <3>1. Covered(x, position[x])
        BY <1>0, CoveredHere DEF DriverInv
      <3> QED
        BY <1>0, <1>1, <1>2, <2>2, <2>3, <3>1 DEF MotionSoFar
    <2>7. EnabledSoFar(x)'
      BY <1>0, <1>1, <2>2, <2>3 DEF EnabledSoFar
    <2> QED
      BY <2>2, <2>4, <2>5, <2>6, <2>7
  <1> QED
    BY <1>5, <1>6, <1>7, <1>8 DEF Read

\* A handler runs while main builds a reply.
LEMMA HandlerStep ==
    ASSUME DriverInv, StatusInv, NEW x \in TimerMotors, STEPPER_ISR(x),
           UNCHANGED statusVars
    PROVE  StatusInv'
  <1>0. /\ x \in Motors /\ x \in uif
        /\ cop \in [Motors -> OpType] /\ position \in [Motors -> Int32]
        /\ flags \in [Motors -> SUBSET {"MOVING", "ENABLED"}]
    BY MotorAssumption DEF STEPPER_ISR, IsrStop, IsrStep, DriverInv, TypeOK
  <1>1. /\ UNCHANGED <<asked, todo, reply, inOrder, pc, current_dir>>
        /\ cen' \subseteq cen
    BY DEF STEPPER_ISR, IsrStop, IsrStep, statusVars, mainVars
  <1>2. SUFFICES ASSUME NEW m \in asked
                 PROVE  RestSoFar(m)' /\ MotionSoFar(m)' /\ EnabledSoFar(m)'
    BY <1>1 DEF StatusInv
  <1>3. m \in Motors /\ RestSoFar(m) /\ MotionSoFar(m) /\ EnabledSoFar(m)
        /\ reply \in ReplyType
    BY DEF StatusInv
  <1>4. /\ cop'[m].target_pos = cop[m].target_pos
        /\ flags'[m] \subseteq flags[m]
        /\ m \notin AutoMotors => (("ENABLED" \in flags'[m]) <=> ("ENABLED" \in flags[m]))
    <2>1. CASE IsrStop(x)
      BY <1>0, <1>3, <2>1 DEF IsrStop, StopBits, OpType
    <2>2. CASE IsrStep(x)
      BY <1>0, <1>3, <2>2 DEF IsrStep, OpType
    <2> QED
      BY <2>1, <2>2 DEF STEPPER_ISR
  <1>5. EnabledSoFar(m)'
    BY <1>1, <1>3, <1>4 DEF EnabledSoFar
  <1>6. "MOVING" \notin flags[m] => position'[m] = position[m]
    <2>1. CASE IsrStop(x)
      BY <2>1 DEF IsrStop
    <2>2. ASSUME IsrStep(x), "MOVING" \notin flags[m] PROVE position'[m] = position[m]
      <3>1. /\ Remaining(m) = 0 /\ ~AllDone(x)
            /\ cop[m].done_steps \in Nat /\ cop[m].total_steps \in Nat
        BY <1>0, <1>3, <2>2, MotorTypes DEF IsrStep, DriverInv, RestInv, AtRest
      <3>2. x # m
        BY <3>1 DEF AllDone, Remaining
      <3> QED
        BY <1>0, <1>3, <2>2, <3>2 DEF IsrStep
    <2> QED
      BY <2>1, <2>2 DEF STEPPER_ISR
  <1>7. RestSoFar(m)'
    BY <1>1, <1>3, <1>4, <1>6 DEF RestSoFar
  <1>8. \A p \in Int : Covered(m, p) => Covered(m, p)'
    <2>1. /\ cop[m].done_steps \in Nat /\ position[m] \in Int
      BY <1>3, MotorTypes DEF DriverInv
    <2>2. CASE /\ cop'[m].done_steps = cop[m].done_steps
               /\ position'[m] = position[m]
      BY <1>1, <2>2 DEF Covered, Origin
    <2>3. CASE /\ cop'[m].done_steps = cop[m].done_steps + 1
               /\ position'[m] = (IF current_dir[m] = "FORWARD" THEN position[m] + 1
                                                               ELSE position[m] - 1)
      BY <1>1, <2>1, <2>3 DEF Covered, Origin
    <2>4. CASE IsrStop(x)
      <3>1. cop'[m].done_steps = cop[m].done_steps /\ position'[m] = position[m]
        BY <1>0, <1>3, <2>4 DEF IsrStop, OpType
      <3> QED
        BY <2>2, <3>1
    <2>5. CASE IsrStep(x) /\ x = m
      <3>1. cop[m].done_steps < cop[m].total_steps
        BY <1>3, <2>5, MotorTypes DEF IsrStep, AllDone, DriverInv
      <3>2. PlanOf(m)
        BY <1>0, <2>1, <2>5, <3>1, MotorTypes
           DEF DriverInv, OwnerInv, PlanInv, Planned, Preparing
      <3>3. Stepped(m) = IF current_dir[m] = "FORWARD" THEN position[m] + 1
                                                       ELSE position[m] - 1
        BY <1>3, <3>1, <3>2, InnerMotion DEF DriverInv
      <3> QED
        BY <1>0, <2>3, <2>5, <3>3 DEF IsrStep, OpType
    <2>6. CASE IsrStep(x) /\ x # m
      BY <1>0, <1>3, <2>2, <2>6 DEF IsrStep
    <2> QED
      BY <2>4, <2>5, <2>6 DEF STEPPER_ISR
  <1>9. MotionSoFar(m)'
    BY <1>1, <1>3, <1>4, <1>8 DEF MotionSoFar, ReplyType
  <1> QED
    BY <1>5, <1>7, <1>9

LEMMA StatusInvStep ==
    DriverInv /\ StatusInv /\ [StatusNext]_allVars => StatusInv'
  <1> SUFFICES ASSUME DriverInv, StatusInv, [StatusNext]_allVars PROVE StatusInv'
    OBVIOUS
  <1>0. NoReply \in ReplyType
    BY DEF NoReply, ReplyType
  <1>1. CASE asked = {} /\ UNCHANGED statusVars
    BY <1>1 DEF statusVars, StatusInv
  <1>2. ASSUME NEW m \in AskedMotors, Status(m) PROVE StatusInv'
    <2>1. /\ m \in Motors /\ asked' = {m} /\ todo' = Fields /\ ~inOrder'
          /\ UNCHANGED <<cop, pc>> /\ pc = "poll" /\ cop[m].target_pos \in Int
          /\ reply' = [NoReply EXCEPT !.tpos = cop[m].target_pos]
      <3>1. m \in Motors /\ cop[m].target_pos \in Int
        BY StatusAssumption, MotorTypes DEF DriverInv
      <3>2. ~inOrder'
        BY <1>2 DEF Status, StatusInv
      <3> QED
        BY <1>2, <3>1, <3>2 DEF Status, vars, motorVars, mainVars
    <2>2. reply' \in ReplyType /\ reply'.tpos = cop[m].target_pos
      BY <1>0, <2>1 DEF ReplyType, NoReply
    <2> QED
      BY <2>1, <2>2 DEF StatusInv, RestSoFar, MotionSoFar, EnabledSoFar, Fields
  <1>3. ASSUME NEW m \in AskedMotors, Read(m) PROVE StatusInv'
    BY <1>3, ReadStep
  <1>4. CASE Send
    BY <1>0, <1>4 DEF Send, StatusInv
  <1>5. ASSUME NEW m \in TimerMotors, Overflow(m), UNCHANGED statusVars PROVE StatusInv'
    BY <1>5 DEF Overflow, motorVars, mainVars, statusVars, StatusInv, RestSoFar,
       MotionSoFar, EnabledSoFar, Covered, Origin
  <1>6. ASSUME NEW m \in TimerMotors, STEPPER_ISR(m), UNCHANGED statusVars
        PROVE  StatusInv'
    BY <1>6, HandlerStep
  <1>7. CASE UNCHANGED allVars
    BY <1>7 DEF allVars, vars, motorVars, timerVars, mainVars, statusVars, StatusInv,
       RestSoFar, MotionSoFar, EnabledSoFar, Covered, Origin
  <1> QED
    BY <1>1, <1>2, <1>3, <1>4, <1>5, <1>6, <1>7 DEF StatusNext, StatusStep

\* What the driver guarantees of a motor at rest.
LEMMA RestsNearTarget ==
    ASSUME DriverInv, pc = "poll", NEW m \in Motors, "MOVING" \notin flags[m]
    PROVE  m \notin cen /\ position[m] - cop[m].target_pos \in -1..1
  <1>1. m \notin cen /\ Remaining(m) = 0 /\ PlanOf(m)
    BY DEF DriverInv, OwnerInv, PlanInv, RestInv, AtRest, Planned
  <1>2. position[m] \in Int /\ cop[m].target_pos \in Int
    BY MotorTypes DEF DriverInv
  <1>3. Destination(m) = position[m]
    BY <1>1, <1>2 DEF Destination
  <1>4. \/ position[m] - cop[m].target_pos \in {0, 1}
        \/ cop[m].target_pos - position[m] \in {0, 1}
    BY <1>1, <1>3, InnerMotion DEF LandsClose, DriverInv
  <1> QED
    BY <1>1, <1>2, <1>4

(* Whatever the host asks, however handlers interleave with the reads and in *)
(* whatever order a build makes them, a STATUS reply mixes no two motions,  *)
(* and one that reports rest, its flag read first, is exact                 *)
(* (main.c:143-157), for a host that asks for neither end of int32_t.       *)
THEOREM StatusReplies == InnerTargets => (StatusSpec => []StatusExact)
  <1>1. StatusInit => StatusInv
    BY DEF StatusInit, NoStatus, NoReply, StatusInv, ReplyType
  <1>2. InnerTargets => (Spec => []DriverInv)
    BY TypeCorrect, Owner, Plans, Inner, Rest, SpeedsOrZero, SpeedsInRange, PTL DEF DriverInv
  <1>3. InnerTargets => (StatusSpec => []StatusInv)
    BY <1>1, <1>2, Driver, StatusInvStep, PTL DEF StatusSpec
  <1>4. DriverInv /\ StatusInv => StatusExact
    <2> SUFFICES ASSUME DriverInv, StatusInv, NEW m \in asked, todo = {}
                 PROVE  /\ inOrder /\ ~reply.moving =>
                              /\ m \notin cen /\ reply.sps = 0 /\ reply.cpos = position[m]
                              /\ reply.cpos - reply.tpos \in -1..1
                        /\ MotionSoFar(m) /\ EnabledSoFar(m)
      BY DEF StatusExact, RestIsExact, MotionIsPossible, ManualEnabledIsExact,
         MotionSoFar, EnabledSoFar
    <2>1. /\ m \in Motors /\ pc = "poll"
          /\ RestSoFar(m) /\ MotionSoFar(m) /\ EnabledSoFar(m)
      BY DEF StatusInv
    <2>2. reply.tpos = cop[m].target_pos
      BY <2>1 DEF MotionSoFar
    <2> QED
      BY <2>1, <2>2, RestsNearTarget DEF RestSoFar
  <1> QED
    BY <1>2, <1>3, <1>4, Driver, PTL

(* The driver with STATUS requests implements Motion just as it does        *)
(* without them.                                                            *)
COROLLARY StatusKeepsMotion == InnerTargets => (StatusSpec => ImplementsMotion)
  BY Driver, Refinement

-----------------------------------------------------------------------------
(* Timers: steps and delays in time, for every set of periods and delays,  *)
(* every width of the counter and every lateness of the handlers.          *)

Types ==
    /\ mcnt \in Nat /\ marr \in Nat /\ late \in Nat /\ prev \in Nat /\ gap \in Nat
    /\ dcnt \in Nat /\ darr \in Nat /\ us \in Nat /\ elapsed \in Nat

(* What the counter says about the past: it started again at 0 when UIF was *)
(* set, and has been counting since.                                        *)
CounterInv ==
    /\ mcnt <= StepMax /\ marr <= StepMax
    /\ ~muif => late = 0
    /\ muif => loaded
    /\ mcen => marr > 0
    /\ mcen /\ muif => mcnt <= late
    /\ mcen /\ muif /\ late <= marr => mcnt = late

PulseInv ==
    /\ mcen /\ timed => loaded /\ prev <= marr
    /\ mcen /\ timed /\ ~muif => gap + prev = mcnt
    /\ mcen /\ timed /\ muif => gap + prev = marr + 1 + late

StepInv == CounterInv /\ OverrunHasCause /\ PulseInv

(* TIM1 has counted since delay_us started it.                              *)
DelayInv ==
    /\ waiting /\ exact => dloaded
    /\ waiting => darr = us
    /\ waiting /\ ~duif => dcnt <= darr
    /\ waiting /\ exact /\ ~duif => elapsed = dcnt
    /\ waiting /\ exact /\ duif => elapsed >= us

LEMMA TypeStep == Types /\ [TimersNext]_timersVars => Types'
<1> SUFFICES ASSUME Types, [TimersNext]_timersVars PROVE Types'
  OBVIOUS
<1> USE TimersAssumption DEF Types
<1>1. CASE Tick
  <2>1. mcnt' \in Nat /\ marr' \in Nat 
    BY <1>1 DEF Tick, Counting, Count, stepTimer
  <2>2. dcnt' \in Nat /\ darr' \in Nat 
    BY <1>1 DEF Tick, CountOnce, TIM1
  <2> QED
    BY <1>1, <2>1, <2>2 DEF Tick
<1>2. CASE FastCount
  BY <1>2 DEF FastCount, Counting, Count, stepTimer, pulses, TIM1, delay
<1>3. CASE FastCountOnce
  BY <1>3 DEF FastCountOnce, CountOnce, stepTimer, pulses, TIM1, delay
<1>4. CASE Start
  BY <1>4 DEF Start, TIM1, delay
<1>5. CASE ServedStep
  BY <1>5 DEF ServedStep, NextPeriod, TIM1, delay
<1>6. CASE ServedStop
  BY <1>6 DEF ServedStop, TIM1, delay
<1>7. ASSUME NEW n \in Delays, delay_us(n) PROVE Types'
  BY <1>7 DEF delay_us, stepTimer, pulses
<1>8. CASE DelayEnds
  BY <1>8 DEF DelayEnds, stepTimer, pulses, TIM1
<1>9. CASE UNCHANGED timersVars
  BY <1>9 DEF timersVars, stepTimer, pulses, TIM1, delay
<1> QED
  BY <1>1, <1>2, <1>3, <1>4, <1>5, <1>6, <1>7, <1>8, <1>9 DEF TimersNext, Served

\* What the motor's timer does at a tick.
LEMMA TickCounts ==
  ASSUME Types, StepInv, Tick, loaded, mcen
  PROVE  /\ gap' = gap + 1 /\ UNCHANGED <<prev, marr, mcen, timed>> /\ loaded'
         /\ late' = (IF muif THEN late + 1 ELSE late)
         /\ mcnt = marr => mcnt' = 0 /\ muif'
         /\ mcnt # marr => mcnt' = (IF mcnt = StepMax THEN 0 ELSE mcnt + 1) /\ muif' = muif
<1>1. Counting
  BY DEF Counting, StepInv, Types, CounterInv
<1>2. Count
  BY DEF Tick
<1>3. /\ gap' = (IF Counting /\ loaded THEN gap + 1 ELSE gap)
      /\ late' = (IF muif THEN late + 1 ELSE late)
      /\ UNCHANGED <<prev, timed>>
  BY DEF Tick
<1>4. gap' = gap + 1
  BY <1>1, <1>3
<1>5. CASE mcnt = marr
  <2>1. mcnt' = 0 /\ muif' /\ loaded' /\ UNCHANGED <<marr, mcen>>
    BY <1>1, <1>2, <1>5 DEF Count
  <2> QED
    BY <1>3, <1>4, <1>5, <2>1
<1>6. CASE mcnt # marr
  <2>1. /\ mcnt' = (IF mcnt = StepMax THEN 0 ELSE mcnt + 1)
        /\ UNCHANGED <<marr, mcen, muif, loaded>>
    BY <1>1, <1>2, <1>6 DEF Count
  <2> QED
    BY <1>3, <1>4, <1>6, <2>1
<1> QED
  BY <1>5, <1>6

LEMMA StepInvStep == Types /\ StepInv /\ [TimersNext]_timersVars => StepInv'
<1> SUFFICES ASSUME Types, StepInv, [TimersNext]_timersVars PROVE StepInv'
  OBVIOUS
<1>1. CASE Tick /\ ~loaded
  <2>1. UNCHANGED <<stepTimer, prev, timed>> /\ ~muif
    BY <1>1 DEF Tick, StepInv, CounterInv
  <2>2. late' = late
    BY <1>1, <2>1 DEF Tick
  <2> QED
    BY <1>1, <2>1, <2>2 DEF stepTimer, StepInv, CounterInv, OverrunHasCause, PulseInv
<1>2. CASE Tick /\ loaded /\ ~mcen
  <2>1. UNCHANGED stepTimer
    BY <1>2 DEF Tick, Count, Counting
  <2>2. ~muif => late' = 0
    BY <1>2 DEF Tick, StepInv, CounterInv
  <2> QED
    BY <1>2, <2>1, <2>2 DEF stepTimer, StepInv, CounterInv, OverrunHasCause, PulseInv
<1>3. CASE Tick /\ loaded /\ mcen
  <2>1. /\ gap' = gap + 1 /\ UNCHANGED <<prev, marr, mcen, timed>> /\ loaded'
        /\ late' = (IF muif THEN late + 1 ELSE late)
        /\ mcnt = marr => mcnt' = 0 /\ muif'
        /\ mcnt # marr => mcnt' = (IF mcnt = StepMax THEN 0 ELSE mcnt + 1) /\ muif' = muif
    BY <1>3, TickCounts
  <2>2. CASE mcnt = marr
    BY <1>3, <2>1, <2>2, TimersAssumption DEF Types, StepInv, CounterInv, OverrunHasCause, PulseInv
  <2>3. CASE mcnt # marr /\ muif
    BY <1>3, <2>1, <2>3, TimersAssumption DEF Types, StepInv, CounterInv, OverrunHasCause, PulseInv
  <2>4. CASE mcnt # marr /\ ~muif
    BY <1>3, <2>1, <2>4, TimersAssumption DEF Types, StepInv, CounterInv, OverrunHasCause, PulseInv
  <2> QED
    BY <2>2, <2>3, <2>4
<1>4. CASE FastCount
  <2>1. /\ ~loaded /\ UNCHANGED <<late, prev, gap, timed>> /\ ~muif /\ late = 0
        /\ ~(mcen /\ timed)
    BY <1>4 DEF FastCount, pulses, StepInv, CounterInv, PulseInv
  <2>2. UNCHANGED <<marr, mcen>> /\ Count
    BY <1>4 DEF FastCount, Count, stepTimer
  <2>3. CASE UNCHANGED stepTimer
    BY <2>1, <2>3 DEF stepTimer, StepInv, CounterInv, OverrunHasCause, PulseInv
  <2>4. CASE mcnt = marr /\ mcnt' = 0 /\ loaded'
    <3>1. CounterInv'
      BY <2>1, <2>2, <2>4, TimersAssumption DEF Types, StepInv, CounterInv
    <3>2. OverrunHasCause' /\ PulseInv'
      BY <2>1, <2>2, <2>4 DEF Types, OverrunHasCause, PulseInv
    <3> QED
      BY <3>1, <3>2 DEF StepInv
  <2>5. CASE /\ mcnt # marr /\ UNCHANGED <<muif, loaded>>
             /\ mcnt' = (IF mcnt = StepMax THEN 0 ELSE mcnt + 1)
    <3>1. CounterInv'
      BY <2>1, <2>2, <2>5, TimersAssumption DEF Types, StepInv, CounterInv
    <3>2. OverrunHasCause'
      BY <2>1, <2>2, <2>5 DEF Types, StepInv, OverrunHasCause
    <3>3. PulseInv'
      BY <2>1, <2>2, <2>5 DEF PulseInv
    <3> QED
      BY <3>1, <3>2, <3>3 DEF StepInv
  <2> QED
    BY <2>2, <2>3, <2>4, <2>5 DEF Count
<1>5. CASE FastCountOnce
  BY <1>5 DEF FastCountOnce, stepTimer, pulses, StepInv, CounterInv, OverrunHasCause, PulseInv
<1>6. CASE Start
  <2>1. marr' \in Nat /\ marr' > 0 /\ marr' <= StepMax
    BY <1>6, TimersAssumption DEF Start
  <2>2. /\ mcnt' = 0 /\ prev' = 0 /\ gap' = 0 /\ ~muif /\ ~muif' /\ late' = late
        /\ timed' => loaded'
    BY <1>6 DEF Start, MainFree
  <2>3. late = 0 /\ StepMax \in Nat
    BY <2>2, TimersAssumption DEF StepInv, CounterInv
  <2>4. CounterInv'
    BY <2>1, <2>2, <2>3 DEF CounterInv
  <2>5. OverrunHasCause'
    BY <2>1, <2>2 DEF OverrunHasCause
  <2>6. PulseInv'
    BY <2>1, <2>2 DEF PulseInv
  <2> QED
    BY <2>4, <2>5, <2>6 DEF StepInv
<1>7. CASE ServedStep
  <2>1. marr' \in Nat /\ marr' > 0 /\ marr' <= StepMax
    BY <1>7, TimersAssumption DEF ServedStep, NextPeriod, Types, StepInv, CounterInv
  <2>2. /\ muif /\ mcen /\ ~muif' /\ mcen' /\ loaded' = loaded
        /\ late' = 0 /\ prev' = late /\ gap' = 0 /\ mcnt' = mcnt
    BY <1>7 DEF ServedStep
  <2>3. timed' => late <= marr /\ late <= marr'
    BY <1>7, Zenon DEF ServedStep
  <2>4. loaded /\ mcnt <= late /\ mcnt <= StepMax /\ (late <= marr => mcnt = late)
    BY <2>2 DEF StepInv, CounterInv
  <2>5. mcnt > marr' => late > marr'
    BY <2>1, <2>4 DEF Types
  <2>6. timed' => mcnt = late
    BY <2>3, <2>4
  <2>7. CounterInv'
    BY <2>1, <2>2, <2>4 DEF CounterInv
  <2>8. OverrunHasCause'
    BY <2>2, <2>5 DEF OverrunHasCause
  <2>9. PulseInv'
    BY <2>2, <2>3, <2>4, <2>6 DEF Types, PulseInv
  <2> QED
    BY <2>7, <2>8, <2>9 DEF StepInv
<1>8. CASE ServedStop
  BY <1>8 DEF ServedStop, StepInv, CounterInv, OverrunHasCause, PulseInv
<1>9. ASSUME NEW n \in Delays, delay_us(n) PROVE StepInv'
  BY <1>9 DEF delay_us, stepTimer, pulses, StepInv, CounterInv, OverrunHasCause, PulseInv
<1>10. CASE DelayEnds
  BY <1>10 DEF DelayEnds, stepTimer, pulses, StepInv, CounterInv, OverrunHasCause, PulseInv
<1>11. CASE UNCHANGED timersVars
  BY <1>11 DEF timersVars, stepTimer, pulses, StepInv, CounterInv, OverrunHasCause, PulseInv
<1> QED
  BY <1>1, <1>2, <1>3, <1>4, <1>5, <1>6, <1>7, <1>8, <1>9, <1>10, <1>11
     DEF TimersNext, Served

LEMMA DelayInvStep == Types /\ DelayInv /\ [TimersNext]_timersVars => DelayInv'
<1> SUFFICES ASSUME Types, DelayInv, [TimersNext]_timersVars PROVE DelayInv'
  OBVIOUS
<1> USE TimersAssumption DEF Types, DelayInv
<1>1. CASE Tick
  BY <1>1 DEF Tick, CountOnce, TIM1
<1>2. CASE FastCount
  BY <1>2 DEF FastCount, TIM1, delay
<1>3. CASE FastCountOnce
  BY <1>3 DEF FastCountOnce, CountOnce, TIM1, delay
<1>4. CASE Start
  BY <1>4 DEF Start, TIM1, delay
<1>5. CASE Served
  BY <1>5 DEF Served, ServedStep, ServedStop, TIM1, delay
<1>6. ASSUME NEW n \in Delays, delay_us(n) PROVE DelayInv'
  BY <1>6 DEF delay_us
<1>7. CASE DelayEnds
  BY <1>7 DEF DelayEnds
<1>8. CASE UNCHANGED timersVars
  BY <1>8 DEF timersVars, TIM1, delay
<1> QED
  BY <1>1, <1>2, <1>3, <1>4, <1>5, <1>6, <1>7, <1>8 DEF TimersNext

LEMMA TimersInvariant == TimersSpec => [](Types /\ StepInv /\ DelayInv)
<1>1. TimersInit => Types /\ StepInv /\ DelayInv
  BY TimersAssumption DEF TimersInit, Types, StepInv, CounterInv, OverrunHasCause, PulseInv, DelayInv
<1> QED
  BY <1>1, TypeStep, StepInvStep, DelayInvStep, PTL DEF TimersSpec

(* Whatever periods a motion runs through and however late its handlers     *)
(* are, the counter passes TIM_ARR only after a handler that was later than *)
(* the period it set, and else every pulse is as late as its own handler    *)
(* (stepper.h:53-93).                                                       *)
THEOREM StepsAreInTime == TimersSpec => []StepsInTime
<1>1. StepInv => StepsInTime
  BY DEF StepInv, PulseInv, StepsInTime, PulsesInTime
<1> QED
  BY <1>1, TimersInvariant, PTL

(* delay_us never returns early once TIM_PSC has taken effect               *)
(* (delay.c:16-24).                                                         *)
THEOREM DelaysLast == TimersSpec => []DelayLasts
<1>1. DelayInv => DelayLasts
  BY DEF DelayInv, DelayLasts
<1> QED
  BY <1>1, TimersInvariant, PTL
=============================================================================

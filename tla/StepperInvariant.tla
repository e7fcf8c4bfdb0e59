-------------------------- MODULE StepperInvariant --------------------------
(***************************************************************************)
(* The inductive invariant behind the safety properties of Stepper, in     *)
(* four parts.   Each part is inductive relative to TypeOK and the parts   *)
(* before it.  PowerInv is a fifth, for hosts that leave the power of AUTO *)
(* motors alone.                                                           *)
(***************************************************************************)
EXTENDS StepperMotion

(* Who owns a motor: its handler while it runs, the main loop while it     *)
(* prepares a move, and the two never meet; no copy of a flag byte is      *)
(* stored back without a MOVING bit that is set.                           *)
OwnerInv ==
    /\ \A m \in cen : "MOVING" \in flags[m]
    /\ \A m \in uif : m \in cen \/ cop[m].done_steps >= cop[m].total_steps
    /\ \A m \in Motors :
          Preparing(m) => "MOVING" \in flags[m] /\ m \notin cen \cup uif
    /\ pc \in {"move", "dir", "start"} => req.op = "MOVE_TO"
    /\ pc \in {"move", "flag"} =>
          ("MOVING" \in flags[req.motor] => "MOVING" \in byte)
    /\ pc = "boot" => /\ cen = {} /\ uif = {} /\ odr = {}
                      /\ flags = [m \in Motors |-> {}]

\* The plan of m is what stepper_simple_move computes for its distance, and
\* position and remaining steps add up to the destination.
PlanOf(m) ==
    LET c == cop[m] IN
    /\ c.total_steps % 2 = 0
    /\ c.done_steps <= c.total_steps
    /\ c.stop_speedup_at = RampSteps(m, c.total_steps)
    /\ c.start_slowdown_at = c.total_steps - c.stop_speedup_at
    /\ \/ IF current_dir[m] = "FORWARD"
          THEN Destination(m) - c.target_pos \in {0, 1}
          ELSE c.target_pos - Destination(m) \in {0, 1}
       \/ WrappedAround(m)

\* What the main loop has prepared so far for the target of its request.
PreparedFor(m) ==
    LET c == cop[m] IN
    /\ c.target_pos = req.pos
    /\ current_dir[m] = Direction(m, req.pos)
    /\ IF pc = "dir"
       THEN c.total_steps = Distance(m, req.pos)
       ELSE /\ c.total_steps = RoundUp(Distance(m, req.pos))
            /\ c.done_steps = 0

PlanInv ==
    \A m \in Motors :
        /\ Planned(m) => PlanOf(m)
        /\ Preparing(m) => PreparedFor(m)

\* Steps from the nearer end of the motion, ramps cut off.
RampPoint(c) ==
    IF c.done_steps <= c.stop_speedup_at THEN c.done_steps
    ELSE IF c.done_steps <= c.start_slowdown_at THEN c.stop_speedup_at
    ELSE c.total_steps - c.done_steps

\* The motor runs or is about to.
Armed(m) == m \in cen \/ (Preparing(m) /\ Planned(m))

SpeedInv ==
    \A m \in Motors :
        Armed(m) =>
            cop[m].current_sps = min_sps[m] + sps_inc[m] * RampPoint(cop[m])

(* The DIR pin of a motor whose direction is set; the copy of GPIOB_ODR in  *)
(* the main loop's hands is outdated at most in MF pins of AUTO motors.     *)
PinInv ==
    /\ \A m \in Motors :
          Armed(m) =>
              ((<<"DIR", m>> \in odr) <=> (current_dir[m] = "BACKWARD"))
    /\ pc \in {"dir", "pin"} =>
          \A m \in Motors :
              /\ (<<"DIR", m>> \in word) <=> (<<"DIR", m>> \in odr)
              /\ m \notin AutoMotors =>
                    ((<<"MF", m>> \in word) <=> (<<"MF", m>> \in odr))
    /\ \A m \in Motors \ AutoMotors :
          IF pc = "pin" /\ req.motor = m
          THEN ("ENABLED" \in flags[m]) <=> Enabling
          ELSE (<<"MF", m>> \in odr) <=> ("ENABLED" \in flags[m])
    /\ (pc = "move" /\ req.motor \notin AutoMotors) =>
          (("ENABLED" \in byte) <=> ("ENABLED" \in flags[req.motor]))

(* What keeps a running motor in AUTO mode powered: the enabling that      *)
(* stepper_simple_move does for it before it starts the timer, and a copy   *)
(* of GPIOB_ODR that shows MF of every such motor that runs.  Only a host   *)
(* that leaves ENABLE and DISABLE of AUTO motors alone keeps it.            *)
Powered(m) == <<"MF", m>> \in odr /\ "ENABLED" \in flags[m]

PowerInv ==
    /\ \A m \in cen \cap AutoMotors : Powered(m)
    /\ pc \in {"dir", "pin"} => \A m \in cen \cap AutoMotors : <<"MF", m>> \in word
    /\ req.motor \in AutoMotors =>
          /\ req.op = "MOVE_TO"
          /\ pc = "pin" => "ENABLED" \in flags[req.motor]
          /\ pc = "start" => Powered(req.motor)

(* The inductive invariant.                                                *)
IInv == OwnerInv /\ PlanInv /\ SpeedInv /\ PinInv
=============================================================================

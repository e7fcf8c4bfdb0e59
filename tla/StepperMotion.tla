--------------------------- MODULE StepperMotion ---------------------------
(***************************************************************************)
(* The stepper driver implements Motion.  A motion begins when the timer   *)
(* is started and ends when the handler stops it; between two motions the  *)
(* destination is where the motor rests.                                   *)
(***************************************************************************)
EXTENDS Stepper

\* Where a motor is going to, or rests.
Heading == [m \in Motors |-> IF m \in cen THEN Destination(m) ELSE position[m]]

Arm == INSTANCE Motion WITH
          Targets <- {r.pos : r \in Requests},
          pos <- position,
          dest <- Heading,
          running <- cen

\* No target at either end of int32_t, where the step behind the target wraps
\* (LandsNearTarget says what happens there).
InnerTargets == \A r \in Requests : r.pos \notin {INT32_MIN, INT32_MAX}

(* However the main loop and the handlers interleave, every accepted       *)
(* MOVE_TO is carried out step by step to the even distance at or just     *)
(* behind its target (stepper.c:72-133, stepper.h:53-93).                  *)
ImplementsMotion == Arm!Spec

(* And it is carried out to the end.                                       *)
CompletesMotion == Arm!FairSpec
=============================================================================

--------------------------- MODULE StepperStatus ---------------------------
(***************************************************************************)
(* The STATUS request of main.c: main reads the fields of a stepper_t one  *)
(* after the other, without masking interrupts, while the handler of that  *)
(* motor changes them.                                                     *)
(*                                                                         *)
(* The fields are not volatile: a build that optimises may read them in    *)
(* any order and the flag byte once or twice, and all of that is allowed   *)
(* here.  A debug build reads them in the order of the source.             *)
(***************************************************************************)
EXTENDS StepperMotion

CONSTANT AskedMotors    \* motors whose status the host may ask for

ASSUME StatusAssumption == AskedMotors \subseteq Motors

VARIABLES
    asked,      \* the motor whose status main is building, if any
    todo,       \* fields still to be read
    reply,      \* the control_pkt_arg_stepper_status_t built so far
    inOrder     \* history: stepper_moving was read before speed and position

statusVars == <<asked, todo, reply, inOrder>>
allVars == <<vars, statusVars>>

Fields == {"enabled", "moving", "sps", "cpos"}
NoReply == [enabled |-> FALSE, moving |-> FALSE, sps |-> 0, cpos |-> 0, tpos |-> 0]

NoStatus == asked = {} /\ todo = {} /\ reply = NoReply /\ inOrder = FALSE

-----------------------------------------------------------------------------
(* manager_handle_control_packet dispatches a STATUS request.  Only the     *)
(* main loop writes target_pos, so it does not matter when that is read.    *)
Status(m) ==
    /\ asked = {} /\ pc = "poll" /\ MainRuns
    /\ asked' = {m}
    /\ todo' = Fields
    /\ reply' = [NoReply EXCEPT !.tpos = cop[m].target_pos]
    /\ UNCHANGED <<vars, inOrder>>

ReadEnabled(m) ==
    /\ todo' = todo \ {"enabled"}
    /\ reply' = [reply EXCEPT !.enabled = "ENABLED" \in flags[m]]
    /\ UNCHANGED inOrder

ReadMoving(m) ==
    /\ todo' = todo \ {"moving"}
    /\ reply' = [reply EXCEPT !.moving = "MOVING" \in flags[m]]
    /\ inOrder' = ({"sps", "cpos"} \subseteq todo)

ReadSps(m) ==
    /\ todo' = todo \ {"sps"}
    /\ reply' = [reply EXCEPT !.sps = cop[m].current_sps]
    /\ UNCHANGED inOrder

ReadPosition(m) ==
    /\ todo' = todo \ {"cpos"}
    /\ reply' = [reply EXCEPT !.cpos = position[m]]
    /\ UNCHANGED inOrder

Read(m) ==
    /\ m \in asked /\ MainRuns
    /\ \/ "enabled" \in todo /\ ReadEnabled(m)
       \/ "moving" \in todo /\ ReadMoving(m)
       \/ "sps" \in todo /\ ReadSps(m)
       \/ "cpos" \in todo /\ ReadPosition(m)
    /\ UNCHANGED <<vars, asked>>

\* The reply goes out.
Send ==
    /\ asked # {} /\ todo = {} /\ MainRuns
    /\ asked' = {} /\ todo' = {} /\ reply' = NoReply /\ inOrder' = FALSE
    /\ UNCHANGED vars

StatusStep == \E m \in AskedMotors : Status(m) \/ Read(m)

\* The main loop serves one request at a time; handlers run at any moment.
StatusNext ==
    \/ asked = {} /\ MainStep /\ UNCHANGED statusVars
    \/ asked = {} /\ UNCHANGED statusVars
          /\ \E r \in Requests : manager_handle_control_packet(r)
    \/ StatusStep \/ Send
    \/ UNCHANGED statusVars
          /\ \E m \in TimerMotors : Overflow(m) \/ STEPPER_ISR(m)

StatusInit == Init /\ NoStatus

StatusSpec == StatusInit /\ [][StatusNext]_allVars

StatusFairSpec == StatusSpec /\ Fairness

-----------------------------------------------------------------------------
(* What the host may conclude from a reply, at the time it goes out.        *)

\* Where the current motion of m began.
Origin(m) ==
    IF current_dir[m] = "FORWARD" THEN position[m] - cop[m].done_steps
                                  ELSE position[m] + cop[m].done_steps

\* Position p lies on what m has covered of its current motion.
Covered(m, p) ==
    IF current_dir[m] = "FORWARD" THEN p \in Origin(m)..position[m]
                                  ELSE p \in position[m]..Origin(m)

(* A motor reported at rest stands where the reply says, within a step of   *)
(* the target.                                                              *)
RestIsExact ==
    \A m \in asked :
        todo = {} /\ inOrder /\ ~reply.moving =>
            /\ m \notin cen
            /\ reply.sps = 0
            /\ reply.cpos = position[m]
            /\ reply.cpos - reply.tpos \in -1..1

(* The position of a reply, whatever the order of the reads, is one the     *)
(* motor had on its way to the target of the same reply, and the speed is   *)
(* one it had there, or zero of a motor that has come to rest since.        *)
MotionIsPossible ==
    \A m \in asked :
        todo = {} =>
            /\ Covered(m, reply.cpos)
            /\ reply.tpos = cop[m].target_pos
            /\ reply.sps # 0 => reply.sps \in min_sps[m]..max_sps[m]
            /\ reply.sps = 0 => m \notin cen

(* ENABLED of a MANUAL motor is as reported: only main changes it.          *)
ManualEnabledIsExact ==
    \A m \in asked \ AutoMotors :
        todo = {} => (reply.enabled <=> ("ENABLED" \in flags[m]))

(* A STATUS reply mixes no two motions and misleads about no resting motor, *)
(* though its fields are read at different moments of a motion              *)
(* (main.c:143-157 against stepper.h:53-93).                                *)
StatusExact == RestIsExact /\ MotionIsPossible /\ ManualEnabledIsExact
=============================================================================

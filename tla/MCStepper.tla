----------------------------- MODULE MCStepper -----------------------------
(* Small instances of Stepper.  Motor "a" is in AUTO mode, "m" in MANUAL    *)
(* mode; their ramps are 2 and 1 steps, so that motions of distance 0..7    *)
(* have no plateau, a plateau, and ramps cut off in the middle.             *)
EXTENDS StepperInvariant

MCMinSps == [x \in Motors |-> IF x = "a" THEN 2 ELSE 4]
MCMaxSps == [x \in Motors |-> IF x = "a" THEN 7 ELSE 7]
MCSpsInc == [x \in Motors |-> IF x = "a" THEN 2 ELSE 3]

Moves(ms, ps) == [op : {"MOVE_TO"}, motor : ms, pos : ps]
Switches(ms) == [op : {"ENABLE", "DISABLE"}, motor : ms, pos : {0}]

\* Everything the host can ask of both motors, with INT32_MAX = 3; "m" is sent
\* from one end of the range of int32_t to the other, over distances that
\* overflow it, and rounding leads it one step behind the ends.
AnyRequests ==
    Moves({"a"}, {-1, 3}) \cup Moves({"m"}, {-4, 2, 3}) \cup Switches({"a", "m"})

\* A host that never enables or disables the motor in AUTO mode.
PoliteRequests == Moves({"a", "m"}, {-1, 2}) \cup Switches({"m"})

\* Everything the host can ask of the motor in MANUAL mode.
AnyM == Moves({"m"}, {0, 2}) \cup Switches({"m"})
=============================================================================

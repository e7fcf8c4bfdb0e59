------------------------------- MODULE Motion -------------------------------
(***************************************************************************)
(* What the stepper driver promises to whoever sends a MOVE_TO: a motor    *)
(* that rests accepts a target and runs towards it one step at a time,     *)
(* without a pause, a reversal or another target getting in between, until *)
(* it rests at its destination.  The destination is the first position at  *)
(* or behind the target that lies an even number of steps away.            *)
(***************************************************************************)
EXTENDS Integers

CONSTANTS Motors, Targets

VARIABLES pos, dest, running

vars == <<pos, dest, running>>

\* The destination of a motion from p to target t.
Even(p, t) ==
    IF t > p THEN t + ((t - p) % 2) ELSE t - ((p - t) % 2)

Init ==
    /\ pos = [m \in Motors |-> 0]
    /\ dest = pos
    /\ running = {}

Accept(m, t) ==
    /\ m \notin running
    /\ dest' = [dest EXCEPT ![m] = Even(pos[m], t)]
    /\ running' = running \cup {m}
    /\ UNCHANGED pos

Step(m) ==
    /\ m \in running
    /\ pos[m] # dest[m]
    /\ pos' = [pos EXCEPT ![m] = IF dest[m] > @ THEN @ + 1 ELSE @ - 1]
    /\ UNCHANGED <<dest, running>>

Arrive(m) ==
    /\ m \in running
    /\ pos[m] = dest[m]
    /\ running' = running \ {m}
    /\ UNCHANGED <<pos, dest>>

Next ==
    \E m \in Motors : (\E t \in Targets : Accept(m, t)) \/ Step(m) \/ Arrive(m)

Spec == Init /\ [][Next]_vars

FairSpec == Spec /\ \A m \in Motors : WF_vars(Step(m) \/ Arrive(m))
=============================================================================

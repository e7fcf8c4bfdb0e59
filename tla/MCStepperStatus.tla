-------------------------- MODULE MCStepperStatus --------------------------
(* Motors, ramps and requests of MCStepper, with STATUS requests.           *)
EXTENDS StepperStatus, MCStepper
=============================================================================

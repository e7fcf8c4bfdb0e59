----------------------------- MODULE MCSpiBus ------------------------------
(* Constants for TLC: transfers of one, two and three bytes.                  *)
EXTENDS SpiBus
=============================================================================

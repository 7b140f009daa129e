---------------------------- MODULE MCLiveSensor ----------------------------
(* LiveSensor on a small instance.                                         *)
EXTENDS LiveSensor
=============================================================================

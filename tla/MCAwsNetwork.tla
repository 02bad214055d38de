---------------------------- MODULE MCAwsNetwork ----------------------------
(* Instance of AwsNetwork for TLC: model values, without symmetry, which liveness forbids. *)
EXTENDS AwsNetwork, TLC
=============================================================================

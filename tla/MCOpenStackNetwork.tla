------------------------- MODULE MCOpenStackNetwork -------------------------
(* Instance of OpenStackNetwork for TLC: model values, without symmetry, which liveness forbids. *)
EXTENDS OpenStackNetwork, TLC
=============================================================================

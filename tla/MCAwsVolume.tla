---------------------------- MODULE MCAwsVolume -----------------------------
(* Instances of AwsVolume for TLC. *)
EXTENDS AwsVolume, TLC

\* Callers, servers and volumes are interchangeable identifiers.
Symmetry == Permutations(Callers) \cup Permutations(Servers) \cup Permutations(Volumes)

=============================================================================

--------------------------- MODULE MCAzureServer ---------------------------
(* Instances of AzureServer for TLC. *)
EXTENDS AzureServer, TLC

Symmetry == Permutations(Callers) \cup Permutations(Servers) \cup Permutations(Subnets) \cup Permutations(Groups)

=============================================================================

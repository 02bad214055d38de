------------------------ MODULE MCAzureSecurityGroup ------------------------
(* Instances of AzureSecurityGroup for TLC. *)
EXTENDS AzureSecurityGroup, TLC

Symmetry == Permutations(Callers) \cup Permutations(Groups) \cup Permutations(Rules)

=============================================================================

---------------------------- MODULE MCAwsServer -----------------------------
(* Instances of AwsServer for TLC. *)
EXTENDS AwsServer, TLC

\* Callers, calls and instances are interchangeable identifiers.
Symmetry == Permutations(Callers) \cup Permutations(Keys) \cup Permutations(Instances)

\* What the invariants of the safety run ask of hit: to be met by one of these sets of causes.
Excuses == {{"DeleteKey"}, {"ModifyGroups", "Reclaim"}, {"Reclaim"}, {"ListAddresses", "Terminate"},
            {"RunInstances", "RequestSpot", "WaitSpot", "DescribeSpot", "ListAddresses", "Terminate",
             "GetInstance"}}

\* States are the same that differ in what nothing tells apart: of hit, which only grows, only the
\* excuses; of reservations and of servers that were robbed nothing.
View == <<keyVars, instanceVars, request, filled, addrOf, pc, frameVars, known, doomed, faults,
          [k \in Keys |-> {e \in Excuses : hit[k] \cap e # {}}]>>

=============================================================================

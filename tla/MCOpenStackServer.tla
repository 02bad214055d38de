------------------------- MODULE MCOpenStackServer --------------------------
(* Instances of OpenStackServer for TLC. *)
EXTENDS OpenStackServer, TLC

\* States are the same that differ in what nothing tells apart: the callers that were overtaken count
\* only while they are in Resize, which forgets them when it begins; whatever is in hit excuses the
\* same.
View == <<keyVars, serverVars, ipVars, pc, frameVars, {c \in overtaken : pc[c] # "idle"},
          faults, [s \in Servers |-> hit[s] # {}]>>

Symmetry == UNION {Permutations(S) : S \in {Callers, Keys, Servers, Flavors, Addresses}}

=============================================================================

------------------------- MODULE MCAwsSecurityGroup -------------------------
(* Instances of AwsSecurityGroup for TLC. *)
EXTENDS AwsSecurityGroup, TLC

\* Callers, servers, the interfaces nobody launched a server with and the groups other than the
\* default one are interchangeable identifiers; so are ranges of ports.
Symmetry == Permutations(Callers) \cup Permutations(Servers)
              \cup Permutations(Interfaces \ Launched) \cup Permutations(Launched)
              \cup Permutations(Groups \ {Default}) \cup Permutations(Ports)

\* Nobody has touched an interface yet.
InterfacesUntouched == /\ \A n \in Interfaces : IF n \in Launched THEN status[n] = "in-use"
                                                                ELSE status[n] = "none"
                       /\ \A c \in Callers : nic[c] = None /\ todo[c] = {}
                       /\ \A n \in Interfaces : told[n] = None /\ group[n] \in {None, Default}
                       /\ cleared = {}

\* All groups were made and returned, and none was deleted.
GroupsMade == \A g \in Groups : gstate[g] = "live" /\ g \in knownGroups

\* The bound of the search: rules are about the default group, while there is no other group and
\* no work on interfaces; work on interfaces begins when the groups are made, no group is deleted
\* then, and it ends when Delete has spoken of an interface a server was launched with, of which
\* EC2 has changed nothing.
Bound == IF rules = {} /\ ids = {} THEN /\ GroupsMade \/ InterfacesUntouched
                                     /\ cleared \cap Launched = {}
         ELSE /\ InterfacesUntouched
              /\ \A g \in Groups \ {Default} : gstate[g] = "none"
              /\ \A r \in rules : r.group = Default

\* What hit excuses an interface from: being accounted for, and being gone after Delete.
Leak  == CreateCalls \cup RemovalCalls \cup {"CreateInterface", "Detaching"}
Clear == RemovalCalls \cup {"Detaching", "Primary", "Overtaken"}

\* States are the same that differ in what nothing tells apart: an interface that is gone stays so,
\* and nothing but its status is read again; of hit, which only grows, only what it excuses from.
There == {n \in Interfaces : status[n] # "gone"}
Current(f) == [n \in There |-> f[n]]
View == <<status, Current(server), Current(group), Current(told),
          [n \in There |-> <<hit[n] \cap Leak # {}, hit[n] \cap Clear # {}>>],
          [g \in Groups |-> hit[g] # {}],
          [c \in Callers |-> due[c] \cap There], cleared \cap There,
          gstate, pc, op, nic, want, todo, known, knownGroups, faults, ruleVars>>

=============================================================================

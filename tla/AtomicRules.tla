---------------------------- MODULE AtomicRules -----------------------------
(***************************************************************************)
(* What api.SecurityGroupManager promises (api/securitygroups.go): a group *)
(* is created empty and deleted, a rule is added or removed, each in one   *)
(* step that leaves everything else alone.                                 *)
(***************************************************************************)
CONSTANTS Groups, Rules, Absent

VARIABLE doc   \* the rules of each group, Absent where there is no group

Init == doc = [g \in Groups |-> Absent]

Write(g, rules) == doc' = [doc EXCEPT ![g] = rules]

Create(g)    == Write(g, {})
Delete(g)    == Write(g, Absent)
Add(g, r)    == doc[g] # Absent /\ Write(g, doc[g] \cup {r})
Remove(g, r) == doc[g] # Absent /\ Write(g, doc[g] \ {r})

Next == \E g \in Groups : \/ Create(g) \/ Delete(g)
                          \/ \E r \in Rules : Add(g, r) \/ Remove(g, r)

Spec == Init /\ [][Next]_doc

=============================================================================

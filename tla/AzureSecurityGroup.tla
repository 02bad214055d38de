------------------------- MODULE AzureSecurityGroup -------------------------
(***************************************************************************)
(* SecurityGroupManager of the Azure provider                              *)
(* (providers/azure/securitygroups.go).  A group is one document that      *)
(* holds its rules.  AddSecurityRule and RemoveSecurityRule read the       *)
(* document, change their copy and write it back, without a precondition,  *)
(* with CreateOrUpdate, which creates what does not exist.                 *)
(*                                                                         *)
(* A rule is the uuid that names it.  A caller between its two calls holds *)
(* the copy it read, the one it will write and the rule concerned.  A      *)
(* write may be done or not whether or not its answer is an error, and a   *)
(* failed read returns at once, which changes nothing.                     *)
(***************************************************************************)
EXTENDS FiniteSets

CONSTANTS Callers, Groups, Rules, Absent, None

Copies == [group : Groups, read : SUBSET Rules, write : SUBSET Rules, rule : Rules, adds : BOOLEAN]

ASSUME AbsentAssumption == \A rules \in SUBSET Rules : Absent # rules
ASSUME NoneAssumption == \A copy \in Copies : None # copy

VARIABLES doc,         \* Azure: the rules of each group
          used,        \* uuids drawn so far
          held,        \* the copies of the callers
          raced,       \* groups a caller wrote from a copy that was out of date
          wanted,      \* rules Azure accepted and nobody asked to remove, by group
          dropped,     \* rules a caller removed, by group
          deleted      \* groups deleted and not created since

vars == <<doc, used, held, raced, wanted, dropped, deleted>>

\* Types.  Groups and rules are strings in securitygroups.go: neither is used for the other.
TypeOK ==
  /\ doc \in [Groups -> (SUBSET Rules) \cup {Absent}]
  /\ used \in SUBSET Rules
  /\ held \in [Callers -> Copies \cup {None}]
  /\ raced \in SUBSET Groups
  /\ wanted \in [Groups -> SUBSET Rules]
  /\ dropped \in [Groups -> SUBSET Rules]
  /\ deleted \in SUBSET Groups

Init ==
  /\ doc = [g \in Groups |-> Absent]
  /\ used = {}
  /\ held = [c \in Callers |-> None]
  /\ raced = {}
  /\ wanted = [g \in Groups |-> {}]
  /\ dropped = [g \in Groups |-> {}]
  /\ deleted = {}

Idle(c) == held[c] = None
Stale(c) == doc[held[c].group] # held[c].read

-----------------------------------------------------------------------------
\* Create and Delete: one write each.  A group that exists is replaced by an empty one.
Create(c) ==
  /\ Idle(c)
  /\ \E g \in Groups : /\ doc' = [doc EXCEPT ![g] = {}]
                       /\ wanted' = [wanted EXCEPT ![g] = {}]
                       /\ deleted' = deleted \ {g}
  /\ UNCHANGED <<used, held, raced, dropped>>

Delete(c) ==
  /\ Idle(c)
  /\ \E g \in Groups : /\ doc[g] # Absent
                       /\ doc' = [doc EXCEPT ![g] = Absent]
                       /\ wanted' = [wanted EXCEPT ![g] = {}]
                       /\ deleted' = deleted \cup {g}
  /\ UNCHANGED <<used, held, raced, dropped>>

-----------------------------------------------------------------------------
\* AddSecurityRule and RemoveSecurityRule: the read

Hold(c, g, write, r, adds) ==
  held' = [held EXCEPT ![c] = [group |-> g, read |-> doc[g], write |-> write, rule |-> r, adds |-> adds]]

\* A faulty AddSecurityRule: the rules that were read are not carried over.
AddAlone(c) ==
  /\ Idle(c)
  /\ \E g \in Groups, r \in Rules \ used :
       /\ doc[g] # Absent
       /\ Hold(c, g, {r}, r, TRUE)
       /\ used' = used \cup {r}
  /\ UNCHANGED <<doc, raced, wanted, dropped, deleted>>

AddSecurityRule(c) ==
  /\ Idle(c)
  /\ \E g \in Groups, r \in Rules \ used :
       /\ doc[g] # Absent
       /\ Hold(c, g, doc[g] \cup {r}, r, TRUE)
       /\ used' = used \cup {r}
  /\ UNCHANGED <<doc, raced, wanted, dropped, deleted>>

\* The rule is given by its name, the last part of the resource identifier Get reports.  Given
\* anything else, that identifier included, the call ends before its write.
RemoveSecurityRule(c) ==
  /\ Idle(c)
  /\ \E g \in Groups, r \in used :
       /\ doc[g] # Absent /\ r \in doc[g]
       /\ Hold(c, g, doc[g] \ {r}, r, FALSE)
       /\ wanted' = [wanted EXCEPT ![g] = @ \ {r}]
  /\ UNCHANGED <<doc, used, raced, dropped, deleted>>

-----------------------------------------------------------------------------
\* Both: the write

\* AddSecurityRule then looks for its rule in the answer by the address of its name, finds
\* nothing and returns an error; the rule stays.
Write(c) ==
  /\ ~Idle(c)
  /\ LET h == held[c] IN
       /\ doc' = [doc EXCEPT ![h.group] = h.write]
       /\ raced' = IF Stale(c) THEN raced \cup {h.group} ELSE raced
       /\ wanted' = IF h.adds THEN [wanted EXCEPT ![h.group] = @ \cup {h.rule}] ELSE wanted
       /\ dropped' = IF h.adds THEN dropped ELSE [dropped EXCEPT ![h.group] = @ \cup {h.rule}]
  /\ held' = [held EXCEPT ![c] = None]
  /\ UNCHANGED <<used, deleted>>

WriteFails(c) ==
  /\ ~Idle(c)
  /\ held' = [held EXCEPT ![c] = None]
  /\ UNCHANGED <<doc, used, raced, wanted, dropped, deleted>>

Next == \E c \in Callers : \/ Create(c) \/ Delete(c)
                           \/ AddSecurityRule(c) \/ RemoveSecurityRule(c)
                           \/ Write(c) \/ WriteFails(c)

Spec == Init /\ [][Next]_vars

-----------------------------------------------------------------------------
\* Properties

Present(g) == IF doc[g] = Absent THEN {} ELSE doc[g]

\* As long as nobody wrote a group from a copy that was out of date, a rule that was
\* accepted is there, one that was removed is not, and a deleted group stays deleted.
ConsistentUnlessRaced ==
  \A g \in Groups \ raced :
    /\ wanted[g] \subseteq Present(g)
    /\ dropped[g] \cap Present(g) = {}
    /\ g \in deleted => doc[g] = Absent

\* The promise of the interface.  Every step keeps it, unless a caller writes with a copy that
\* is out of date.
Atomic == INSTANCE AtomicRules
Overwrites(c) == ~Idle(c) /\ Stale(c) /\ held'[c] # held[c]
OnlyOverwritesBreakAtomicity == [][(\E c \in Callers : Overwrites(c)) \/ [Atomic!Next]_doc]_vars

\* With one caller it is kept.
ImplementsAtomicRules == Atomic!Spec

=============================================================================

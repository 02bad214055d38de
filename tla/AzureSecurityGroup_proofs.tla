--------------------- MODULE AzureSecurityGroup_proofs ----------------------
(***************************************************************************)
(* Proofs about AzureSecurityGroup.  ConsistentUnlessRaced is not          *)
(* inductive: it needs to know that what a caller holds comes from what it *)
(* read (CopiesFollowReads) and that the rule a caller is about to add is  *)
(* nowhere else (AddedRulesFresh).                                         *)
(***************************************************************************)
EXTENDS AzureSecurityGroup, TLAPS

\* Names are drawn before they are used.
NamesDrawn ==
  /\ \A g \in Groups : Present(g) \subseteq used
  /\ \A g \in Groups : wanted[g] \subseteq used
  /\ \A g \in Groups : dropped[g] \subseteq used
  /\ \A c \in Callers : held[c] # None => held[c].read \subseteq used /\ held[c].rule \in used

CopiesFollowReads ==
  \A c \in Callers : held[c] # None =>
    IF held[c].adds
    THEN held[c].write = held[c].read \cup {held[c].rule}
    ELSE /\ held[c].write = held[c].read \ {held[c].rule}
         /\ held[c].rule \in held[c].read
         /\ held[c].rule \notin wanted[held[c].group]

AddedRulesFresh ==
  \A c \in Callers : (held[c] # None /\ held[c].adds) =>
    /\ \A g \in Groups : held[c].rule \notin dropped[g] /\ held[c].rule \notin Present(g)
    /\ \A d \in Callers \ {c} : held[d] # None =>
         held[d].rule # held[c].rule /\ held[c].rule \notin held[d].read

Inv == TypeOK /\ NamesDrawn /\ CopiesFollowReads /\ AddedRulesFresh /\ ConsistentUnlessRaced

-----------------------------------------------------------------------------
\* The three kinds of steps, by what they do to documents and copies.

\* Create and Delete replace a document and touch no copy.
Replace(g, rules) ==
  /\ doc' = [doc EXCEPT ![g] = rules]
  /\ wanted' = [wanted EXCEPT ![g] = {}]
  /\ deleted' = IF rules = Absent THEN deleted \cup {g} ELSE deleted \ {g}
  /\ UNCHANGED <<used, held, raced, dropped>>

LEMMA InitInv == Init => Inv
  BY AbsentAssumption DEF Init, Inv, TypeOK, NamesDrawn, CopiesFollowReads, AddedRulesFresh,
     ConsistentUnlessRaced, Present

LEMMA ReplaceInv ==
  ASSUME Inv, NEW g \in Groups, NEW rules \in {Absent, {}}, Replace(g, rules) PROVE Inv'
<1>0. \A h \in Groups : Present(h)' = IF h = g THEN {} ELSE Present(h)
  BY AbsentAssumption DEF Inv, TypeOK, Replace, Present
<1>1. TypeOK'
  BY DEF Inv, TypeOK, Replace
<1>2. NamesDrawn'
  BY <1>0 DEF Inv, TypeOK, NamesDrawn, Replace
<1>3. CopiesFollowReads'
  BY DEF Inv, TypeOK, CopiesFollowReads, Replace, Copies
<1>4. AddedRulesFresh'
  BY <1>0 DEF Inv, AddedRulesFresh, Replace
<1>5. ConsistentUnlessRaced'
  BY <1>0, AbsentAssumption DEF Inv, TypeOK, ConsistentUnlessRaced, Replace
<1>6. QED
  BY <1>1, <1>2, <1>3, <1>4, <1>5 DEF Inv

LEMMA AddInv ==
  ASSUME Inv, NEW c \in Callers, AddSecurityRule(c) PROVE Inv'
<1>1. PICK g \in Groups, r \in Rules \ used :
        /\ doc[g] # Absent
        /\ Hold(c, g, doc[g] \cup {r}, r, TRUE)
        /\ used' = used \cup {r}
  BY DEF AddSecurityRule
<1>2. UNCHANGED <<doc, raced, wanted, dropped, deleted>>
  BY DEF AddSecurityRule
<1>3. doc[g] \in SUBSET Rules /\ Present(g) = doc[g]
  BY <1>1 DEF Inv, TypeOK, Present
<1>4. \A h \in Groups : Present(h)' = Present(h)
  BY <1>2 DEF Present
<1> DEFINE copy == [group |-> g, read |-> doc[g], write |-> doc[g] \cup {r}, rule |-> r, adds |-> TRUE]
<1>5. copy \in Copies /\ copy # None
  BY <1>3, NoneAssumption DEF Copies
<1>6. held' = [held EXCEPT ![c] = copy]
  BY <1>1 DEF Hold
<1> HIDE DEF copy
<1>7. /\ copy.group = g /\ copy.read = doc[g] /\ copy.write = doc[g] \cup {r}
      /\ copy.rule = r /\ copy.adds
  BY DEF copy
<1>8. held'[c] = copy /\ \A d \in Callers \ {c} : held'[d] = held[d]
  BY <1>6 DEF Inv, TypeOK
<1>9. TypeOK'
  BY <1>1, <1>2, <1>5, <1>6 DEF Inv, TypeOK
<1>10. NamesDrawn'
  BY <1>1, <1>2, <1>3, <1>4, <1>7, <1>8 DEF Inv, NamesDrawn
<1>11. CopiesFollowReads'
  BY <1>2, <1>7, <1>8 DEF Inv, CopiesFollowReads
<1>12. AddedRulesFresh'
  BY <1>1, <1>2, <1>3, <1>4, <1>7, <1>8 DEF Inv, NamesDrawn, AddedRulesFresh
<1>13. ConsistentUnlessRaced'
  BY <1>2, <1>4 DEF Inv, ConsistentUnlessRaced
<1>14. QED
  BY <1>9, <1>10, <1>11, <1>12, <1>13 DEF Inv

LEMMA RemoveInv ==
  ASSUME Inv, NEW c \in Callers, RemoveSecurityRule(c) PROVE Inv'
<1>1. PICK g \in Groups, r \in used :
        /\ doc[g] # Absent /\ r \in doc[g]
        /\ Hold(c, g, doc[g] \ {r}, r, FALSE)
        /\ wanted' = [wanted EXCEPT ![g] = @ \ {r}]
  BY DEF RemoveSecurityRule
<1>2. UNCHANGED <<doc, used, raced, dropped, deleted>> /\ held[c] = None
  BY DEF RemoveSecurityRule, Idle
<1>3. doc[g] \in SUBSET Rules /\ Present(g) = doc[g] /\ r \in Rules
  BY <1>1 DEF Inv, TypeOK, Present
<1>4. \A h \in Groups : Present(h)' = Present(h)
  BY <1>2 DEF Present
<1>5. /\ wanted'[g] = wanted[g] \ {r}
      /\ \A h \in Groups : wanted'[h] \subseteq wanted[h]
  BY <1>1 DEF Inv, TypeOK
<1> DEFINE copy == [group |-> g, read |-> doc[g], write |-> doc[g] \ {r}, rule |-> r, adds |-> FALSE]
<1>6. copy \in Copies /\ copy # None
  BY <1>3, NoneAssumption DEF Copies
<1>7. held' = [held EXCEPT ![c] = copy]
  BY <1>1 DEF Hold
<1> HIDE DEF copy
<1>8. /\ copy.group = g /\ copy.read = doc[g] /\ copy.write = doc[g] \ {r}
      /\ copy.rule = r /\ ~copy.adds
  BY DEF copy
<1>9. held'[c] = copy /\ \A d \in Callers \ {c} : held'[d] = held[d]
  BY <1>7 DEF Inv, TypeOK
<1>10. TypeOK'
  BY <1>1, <1>2, <1>6, <1>7 DEF Inv, TypeOK
<1>11. NamesDrawn'
  BY <1>1, <1>2, <1>3, <1>4, <1>5, <1>8, <1>9 DEF Inv, NamesDrawn
<1>12. \A d \in Callers : held[d] # None => held[d].group \in Groups
  BY DEF Inv, TypeOK, Copies
<1>13. CopiesFollowReads'
  BY <1>1, <1>5, <1>8, <1>9, <1>12 DEF Inv, CopiesFollowReads
<1>14. AddedRulesFresh'
  BY <1>1, <1>2, <1>3, <1>4, <1>8, <1>9 DEF Inv, AddedRulesFresh
<1>15. ConsistentUnlessRaced'
  BY <1>2, <1>4, <1>5 DEF Inv, ConsistentUnlessRaced
<1>16. QED
  BY <1>10, <1>11, <1>13, <1>14, <1>15 DEF Inv

LEMMA WriteInv ==
  ASSUME Inv, NEW c \in Callers, Write(c) PROVE Inv'
<1>1. PICK h \in Copies : h = held[c] /\ h # None
  BY DEF Write, Idle, Inv, TypeOK
<1>1a. PICK g \in Groups : g = h.group
  BY DEF Copies
<1>2. /\ h.read \in SUBSET Rules /\ h.write \in SUBSET Rules
      /\ h.rule \in Rules /\ h.adds \in BOOLEAN
  BY DEF Copies
<1>3. /\ doc' = [doc EXCEPT ![g] = h.write]
      /\ raced' = IF doc[g] # h.read THEN raced \cup {g} ELSE raced
      /\ wanted' = IF h.adds THEN [wanted EXCEPT ![g] = @ \cup {h.rule}] ELSE wanted
      /\ dropped' = IF h.adds THEN dropped ELSE [dropped EXCEPT ![g] = @ \cup {h.rule}]
      /\ held' = [held EXCEPT ![c] = None]
      /\ UNCHANGED <<used, deleted>>
  BY <1>1, <1>1a DEF Write, Stale
<1>4. Present(g)' = h.write /\ \A k \in Groups \ {g} : Present(k)' = Present(k)
  BY <1>2, <1>3, AbsentAssumption DEF Inv, TypeOK, Present
<1>5. held'[c] = None /\ \A d \in Callers \ {c} : held'[d] = held[d]
  BY <1>3 DEF Inv, TypeOK
<1>6. /\ h.read \subseteq used /\ h.rule \in used
      /\ h.write \subseteq used
      /\ h.adds => h.write = h.read \cup {h.rule}
      /\ ~h.adds => /\ h.write = h.read \ {h.rule}
                    /\ h.rule \in h.read
                    /\ h.rule \notin wanted[g]
  BY <1>1, <1>1a DEF Inv, NamesDrawn, CopiesFollowReads
<1>7. \A k \in Groups : wanted'[k] = IF h.adds /\ k = g THEN wanted[k] \cup {h.rule} ELSE wanted[k]
  BY <1>2, <1>3 DEF Inv, TypeOK
<1>7a. \A k \in Groups : dropped'[k] = IF ~h.adds /\ k = g THEN dropped[k] \cup {h.rule} ELSE dropped[k]
  BY <1>2, <1>3 DEF Inv, TypeOK
<1>8. h.adds => /\ h.rule \notin dropped[g]
                /\ \A d \in Callers \ {c} : held[d] # None =>
                     held[d].rule # h.rule /\ h.rule \notin held[d].read
  BY <1>1 DEF Inv, AddedRulesFresh
<1>9. \A d \in Callers \ {c} : (held[d] # None /\ held[d].adds) =>
        held[d].rule \notin h.read /\ held[d].rule # h.rule
  BY <1>1 DEF Inv, AddedRulesFresh
<1>10. TypeOK'
  BY <1>2, <1>3 DEF Inv, TypeOK
<1>11. NamesDrawn'
  BY <1>3, <1>4, <1>5, <1>6, <1>7, <1>7a DEF Inv, NamesDrawn
<1>12. CopiesFollowReads'
  <2>1. \A d \in Callers : held[d] # None => held[d].group \in Groups
    BY DEF Inv, TypeOK, Copies
  <2>2. SUFFICES ASSUME NEW d \in Callers, held'[d] # None
                 PROVE  IF held'[d].adds
                        THEN held'[d].write = held'[d].read \cup {held'[d].rule}
                        ELSE /\ held'[d].write = held'[d].read \ {held'[d].rule}
                             /\ held'[d].rule \in held'[d].read
                             /\ held'[d].rule \notin wanted'[held'[d].group]
    BY DEF CopiesFollowReads
  <2>3. d # c /\ held'[d] = held[d]
    BY <1>5, <2>2
  <2>4. /\ held[d].adds => held[d].write = held[d].read \cup {held[d].rule}
        /\ ~held[d].adds => /\ held[d].write = held[d].read \ {held[d].rule}
                            /\ held[d].rule \in held[d].read
                            /\ held[d].rule \notin wanted[held[d].group]
    BY <2>2, <2>3 DEF Inv, CopiesFollowReads
  <2>5. ~held[d].adds => held[d].rule \notin wanted'[held[d].group]
    BY <1>7, <1>8, <2>1, <2>2, <2>3, <2>4
  <2>6. QED
    BY <2>3, <2>4, <2>5
<1>13. AddedRulesFresh'
  <2>1. SUFFICES ASSUME NEW d \in Callers, held'[d] # None, held'[d].adds
                 PROVE  /\ \A k \in Groups : held'[d].rule \notin dropped'[k] /\ held'[d].rule \notin Present(k)'
                        /\ \A e \in Callers \ {d} : held'[e] # None =>
                             held'[e].rule # held'[d].rule /\ held'[d].rule \notin held'[e].read
    BY DEF AddedRulesFresh
  <2>2. d # c /\ held'[d] = held[d]
    BY <1>5, <2>1
  <2>3. /\ \A k \in Groups : held[d].rule \notin dropped[k] /\ held[d].rule \notin Present(k)
        /\ \A e \in Callers \ {d} : held[e] # None =>
             held[e].rule # held[d].rule /\ held[d].rule \notin held[e].read
    BY <2>1, <2>2 DEF Inv, AddedRulesFresh
  <2>4. held[d].rule # h.rule /\ held[d].rule \notin h.write
    BY <1>2, <1>6, <1>9, <2>1, <2>2
  <2>5. \A k \in Groups : held[d].rule \notin dropped'[k] /\ held[d].rule \notin Present(k)'
    BY <1>4, <1>7a, <2>3, <2>4
  <2>6. QED
    BY <1>5, <2>2, <2>3, <2>5
<1>14. ConsistentUnlessRaced'
  <2> SUFFICES ASSUME NEW k \in Groups \ raced'
               PROVE  /\ wanted'[k] \subseteq Present(k)'
                      /\ dropped'[k] \cap Present(k)' = {}
                      /\ k \in deleted' => doc'[k] = Absent
    BY DEF ConsistentUnlessRaced
  <2>1. /\ k \notin raced /\ deleted' = deleted
        /\ wanted[k] \subseteq Present(k) /\ dropped[k] \cap Present(k) = {}
        /\ k \in deleted => doc[k] = Absent
    BY <1>3 DEF Inv, ConsistentUnlessRaced
  <2>2. CASE k = g
    <3>1. doc[g] = h.read /\ doc[g] # Absent
      BY <1>2, <1>3, <2>2, AbsentAssumption
    <3>2. Present(g) = h.read
      BY <3>1 DEF Present
    <3>3. g \notin deleted
      BY <2>1, <2>2, <3>1
    <3>4. wanted[g] \subseteq h.read /\ dropped[g] \cap h.read = {}
      BY <2>1, <2>2, <3>2
    <3>5. wanted'[g] \subseteq h.write /\ dropped'[g] \cap h.write = {}
      <4>1. CASE h.adds
        <5>1. /\ wanted'[g] = wanted[g] \cup {h.rule} /\ dropped'[g] = dropped[g]
              /\ h.write = h.read \cup {h.rule} /\ h.rule \notin dropped[g]
          BY <1>6, <1>7, <1>7a, <1>8, <4>1
        <5>2. QED
          BY <3>4, <5>1
      <4>2. CASE ~h.adds
        <5>1. /\ wanted'[g] = wanted[g] /\ dropped'[g] = dropped[g] \cup {h.rule}
              /\ h.write = h.read \ {h.rule} /\ h.rule \notin wanted[g]
          BY <1>6, <1>7, <1>7a, <4>2
        <5>2. QED
          BY <3>4, <5>1
      <4>3. QED
        BY <4>1, <4>2
    <3>6. QED
      BY <1>4, <2>1, <2>2, <3>3, <3>5
  <2>3. CASE k # g
    <3>1. doc'[k] = doc[k] /\ Present(k)' = Present(k) /\ wanted'[k] = wanted[k]
      BY <1>2, <1>3, <1>4, <1>7, <2>3 DEF Inv, TypeOK
    <3>2. QED
      BY <1>7a, <2>1, <2>3, <3>1
  <2>4. QED
    BY <2>2, <2>3
<1>15. QED
  BY <1>10, <1>11, <1>12, <1>13, <1>14 DEF Inv


-----------------------------------------------------------------------------
\* The invariant, and what it gives.

LEMMA NextInv == Inv /\ [Next]_vars => Inv'
<1> SUFFICES ASSUME Inv, [Next]_vars PROVE Inv'
  OBVIOUS
<1>1. ASSUME NEW c \in Callers, Create(c) PROVE Inv'
  <2>1. PICK g \in Groups : /\ doc' = [doc EXCEPT ![g] = {}]
                            /\ wanted' = [wanted EXCEPT ![g] = {}]
                            /\ deleted' = deleted \ {g}
    BY <1>1 DEF Create
  <2>2. Replace(g, {})
    BY <1>1, <2>1, AbsentAssumption DEF Create, Replace
  <2>3. QED
    BY <2>2, ReplaceInv
<1>2. ASSUME NEW c \in Callers, Delete(c) PROVE Inv'
  <2>1. PICK g \in Groups : /\ doc' = [doc EXCEPT ![g] = Absent]
                            /\ wanted' = [wanted EXCEPT ![g] = {}]
                            /\ deleted' = deleted \cup {g}
    BY <1>2 DEF Delete
  <2>2. Replace(g, Absent)
    BY <1>2, <2>1 DEF Delete, Replace
  <2>3. QED
    BY <2>2, ReplaceInv
<1>3. ASSUME NEW c \in Callers, WriteFails(c) PROVE Inv'
  <2>1. held' = [held EXCEPT ![c] = None]
    BY <1>3 DEF WriteFails
  <2>2. UNCHANGED <<doc, used, raced, wanted, dropped, deleted>>
    BY <1>3 DEF WriteFails
  <2>3. held'[c] = None /\ \A d \in Callers \ {c} : held'[d] = held[d]
    BY <2>1 DEF Inv, TypeOK
  <2>4. TypeOK'
    BY <2>1, <2>2 DEF Inv, TypeOK
  <2>5. \A g \in Groups : Present(g)' = Present(g)
    BY <2>2 DEF Present
  <2>6. NamesDrawn' /\ ConsistentUnlessRaced'
    BY <2>2, <2>3, <2>5 DEF Inv, NamesDrawn, ConsistentUnlessRaced
  <2>7. CopiesFollowReads' /\ AddedRulesFresh'
    BY <2>2, <2>3, <2>5 DEF Inv, CopiesFollowReads, AddedRulesFresh
  <2>8. QED
    BY <2>4, <2>6, <2>7 DEF Inv
<1>4. CASE UNCHANGED vars
  BY <1>4 DEF vars, Inv, TypeOK, NamesDrawn, CopiesFollowReads, AddedRulesFresh,
     ConsistentUnlessRaced, Present
<1>5. QED
  BY <1>1, <1>2, <1>3, <1>4, AddInv, RemoveInv, WriteInv DEF Next

\* Every document, every copy and every report keeps its type.
THEOREM TypeCorrect == Spec => []TypeOK
<1>1. Inv => TypeOK
  BY DEF Inv
<1>2. QED
  BY InitInv, NextInv, <1>1, PTL DEF Spec

\* Whatever the number of callers, groups and rules, only a write from a copy that is out of
\* date can lose an accepted rule, bring a removed one back, or bring a deleted group back.
THEOREM OnlyRacesCorrupt == Spec => []ConsistentUnlessRaced
<1>1. Inv => ConsistentUnlessRaced
  BY DEF Inv
<1>2. QED
  BY InitInv, NextInv, <1>1, PTL DEF Spec

-----------------------------------------------------------------------------
\* Which steps are steps of AtomicRules.

LEMMA StepAtomic ==
  ASSUME Inv, [Next]_vars PROVE (\E c \in Callers : Overwrites(c)) \/ [Atomic!Next]_doc
<1>1. ASSUME NEW c \in Callers, Create(c) \/ Delete(c) PROVE Atomic!Next
  BY <1>1 DEF Create, Delete, Atomic!Next, Atomic!Create, Atomic!Delete, Atomic!Write
<1>2. ASSUME NEW c \in Callers, Write(c) PROVE Overwrites(c) \/ Atomic!Next
  <2>1. PICK h \in Copies : h = held[c] /\ h # None
    BY <1>2 DEF Inv, TypeOK, Write, Idle
  <2>2. PICK g \in Groups : g = h.group
    BY DEF Copies
  <2>3. doc' = [doc EXCEPT ![g] = h.write] /\ held'[c] = None
    BY <1>2, <2>1, <2>2 DEF Inv, TypeOK, Write
  <2>4. CASE doc[g] = h.read
    <3>1. doc[g] # Absent /\ h.rule \in Rules /\ h.adds \in BOOLEAN
      BY <2>4, AbsentAssumption DEF Copies
    <3>2. h.write = doc[g] \cup {h.rule} \/ h.write = doc[g] \ {h.rule}
      BY <2>1, <2>4, <3>1 DEF Inv, CopiesFollowReads
    <3>3. Atomic!Add(g, h.rule) \/ Atomic!Remove(g, h.rule)
      BY <2>3, <3>1, <3>2 DEF Atomic!Add, Atomic!Remove, Atomic!Write
    <3>4. QED
      BY <3>1, <3>3 DEF Atomic!Next
  <2>5. CASE doc[g] # h.read
    BY <2>1, <2>2, <2>3, <2>5 DEF Overwrites, Idle, Stale
  <2>6. QED
    BY <2>4, <2>5
<1>3. ASSUME NEW c \in Callers,
             AddSecurityRule(c) \/ RemoveSecurityRule(c) \/ WriteFails(c)
      PROVE  doc' = doc
  BY <1>3 DEF AddSecurityRule, RemoveSecurityRule, WriteFails
<1>4. CASE UNCHANGED vars
  BY <1>4 DEF vars
<1>5. QED
  BY <1>1, <1>2, <1>3, <1>4 DEF Next

\* Whatever the number of callers, a step that is not an atomic operation of the interface is
\* a write of a caller whose copy is out of date.
THEOREM OnlyOverwrites == Spec => OnlyOverwritesBreakAtomicity
<1>1. Inv /\ [Next]_vars => (\E c \in Callers : Overwrites(c)) \/ [Atomic!Next]_doc
  BY StepAtomic
<1>2. QED
  BY <1>1, InitInv, NextInv, PTL DEF Spec, OnlyOverwritesBreakAtomicity

-----------------------------------------------------------------------------
\* One caller: its copy is never out of date, so the two calls act as one.

SoleCopyFresh == \A c \in Callers : held[c] # None => ~Stale(c)

LEMMA SoleCopyStaysFresh ==
  ASSUME NEW me, Callers = {me}, Inv, SoleCopyFresh, [Next]_vars PROVE SoleCopyFresh'
<1>1. held \in [Callers -> Copies \cup {None}]
  BY DEF Inv, TypeOK
<1>2. ASSUME Create(me) \/ Delete(me) PROVE SoleCopyFresh'
  BY <1>2 DEF Create, Delete, Idle, SoleCopyFresh
<1>3. ASSUME AddSecurityRule(me) \/ RemoveSecurityRule(me) PROVE SoleCopyFresh'
  <2>1. PICK g \in Groups : \E write, r, adds : Hold(me, g, write, r, adds)
    BY <1>3 DEF AddSecurityRule, RemoveSecurityRule
  <2>2. doc' = doc /\ held'[me].group = g /\ held'[me].read = doc[g]
    BY <1>1, <1>3, <2>1 DEF AddSecurityRule, RemoveSecurityRule, Hold
  <2>3. QED
    BY <2>2 DEF SoleCopyFresh, Stale
<1>4. ASSUME Write(me) \/ WriteFails(me) PROVE SoleCopyFresh'
  <2>1. held'[me] = None
    BY <1>1, <1>4 DEF Write, WriteFails
  <2>2. QED
    BY <2>1 DEF SoleCopyFresh
<1>5. ASSUME UNCHANGED vars PROVE SoleCopyFresh'
  <2>1. doc' = doc /\ held' = held
    BY <1>5 DEF vars
  <2>2. QED
    BY <2>1 DEF SoleCopyFresh, Stale
<1>6. QED
  BY <1>2, <1>3, <1>4, <1>5 DEF Next

\* With a single caller the sequence of reads and writes implements AtomicRules.
THEOREM SoleCallerIsAtomic ==
  ASSUME NEW me, Callers = {me} PROVE Spec => ImplementsAtomicRules
<1>1. Init => SoleCopyFresh
  BY DEF Init, SoleCopyFresh
<1>2. Init => Atomic!Init
  BY DEF Init, Atomic!Init
<1>3. Inv /\ SoleCopyFresh /\ [Next]_vars => SoleCopyFresh' /\ [Atomic!Next]_doc
  <2>1. SoleCopyFresh => ~(\E c \in Callers : Overwrites(c))
    BY DEF SoleCopyFresh, Overwrites, Idle
  <2>2. QED
    BY <2>1, StepAtomic, SoleCopyStaysFresh
<1>4. QED
  BY <1>1, <1>2, <1>3, InitInv, NextInv, PTL DEF Spec, ImplementsAtomicRules, Atomic!Spec

=============================================================================

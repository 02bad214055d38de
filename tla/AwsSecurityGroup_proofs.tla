---------------------- MODULE AwsSecurityGroup_proofs ----------------------
(***************************************************************************)
(* Proofs about AwsSecurityGroup, and with it AwsNetworkInterface: types,  *)
(* what is left behind, what callers are told, and which rule a removal    *)
(* takes.                                                                  *)
(***************************************************************************)
EXTENDS AwsSecurityGroup, TLAPS

-----------------------------------------------------------------------------
\* The frame of a caller

NicCalls == CreateCalls \cup RemovalCalls \cup {"WaitUpdated"}

FrameOK(c) ==
  /\ pc[c] = "idle" => op[c] = "none" /\ nic[c] = None /\ todo[c] = {}
  /\ pc[c] \in NicCalls => nic[c] \in Interfaces /\ todo[c] = {}
  /\ pc[c] \in CreateCalls => op[c] = "Create"
  /\ pc[c] \in RemovalCalls => op[c] \in {"Create", "Delete"}
  /\ pc[c] = "WaitUpdated" => op[c] = "Update"
  /\ pc[c] = "Modify" => op[c] = "Attach" /\ nic[c] = None /\ want[c] \in Groups
  /\ pc[c] = "GetGroup" => op[c] = "CreateGroup" /\ nic[c] = None /\ want[c] \in Groups

FrameInv == FrameType /\ \A c \in Callers : FrameOK(c)

TypeInv == TypeOK /\ FrameInv

LEMMA LeaveFrame ==
  ASSUME FrameInv, NEW c \in Callers, Leave(c), due' \in [Callers -> SUBSET Interfaces]
  PROVE  FrameInv'
<1> USE DEF Leave, Goto, FrameOK, NicCalls, CreateCalls, RemovalCalls, GroupCalls
<1>1. FrameType'
  BY DEF FrameInv, FrameType
<1>2. ASSUME NEW d \in Callers PROVE FrameOK(d)'
  BY <1>2 DEF FrameInv, FrameType
<1> QED
  BY <1>1, <1>2 DEF FrameInv

LEMMA ReturnFrame ==
  ASSUME FrameInv, NEW c \in Callers, Return(c)
  PROVE  FrameInv'
<1>1. due' \in [Callers -> SUBSET Interfaces]
  BY DEF Return, FrameInv, FrameType
<1> QED
  BY <1>1, LeaveFrame DEF Return

\* A caller goes on to a call of the same method.
LEMMA ProceedFrame ==
  ASSUME FrameInv, NEW c \in Callers, NEW call, Proceed(c, call),
         \/ pc[c] \in CreateCalls /\ call \in CreateCalls \cup {"Describe"}
         \/ pc[c] \in RemovalCalls /\ call \in RemovalCalls
  PROVE  FrameInv'
<1> USE DEF Proceed, Goto, FrameOK, NicCalls, CreateCalls, RemovalCalls, GroupCalls, frameVars
<1>1. FrameType'
  BY DEF FrameInv, FrameType
<1>2. ASSUME NEW d \in Callers PROVE FrameOK(d)'
  BY <1>2 DEF FrameInv, FrameType
<1> QED
  BY <1>1, <1>2 DEF FrameInv

\* A caller that was idle enters a method on an interface, or on a group.
LEMMA EnterFrame ==
  ASSUME FrameInv, NEW c \in Callers, NEW call, NEW method, NEW n \in Interfaces,
         NEW g \in Groups \cup {None}, Goto(c, call), op' = [op EXCEPT ![c] = method],
         nic' = [nic EXCEPT ![c] = n], want' = [want EXCEPT ![c] = g],
         todo' = [todo EXCEPT ![c] = {}], due' \in [Callers -> SUBSET Interfaces],
         \/ method = "Create" /\ call \in {"WaitCreated", "AttachCreated"}
         \/ method = "Delete" /\ call = "Describe"
         \/ method = "Update" /\ call = "WaitUpdated"
  PROVE  FrameInv'
<1> USE DEF Goto, FrameOK, NicCalls, CreateCalls, RemovalCalls, GroupCalls
<1>1. FrameType'
  BY DEF FrameInv, FrameType
<1>2. ASSUME NEW d \in Callers PROVE FrameOK(d)'
  BY <1>2, NoneAssumption DEF FrameInv, FrameType
<1> QED
  BY <1>1, <1>2 DEF FrameInv

LEMMA EnterGroupFrame ==
  ASSUME FrameInv, NEW c \in Callers, NEW g \in Groups, NEW nics \in SUBSET Interfaces,
         pc[c] = "idle", UNCHANGED nic, want' = [want EXCEPT ![c] = g],
         todo' = [todo EXCEPT ![c] = nics], due' \in [Callers -> SUBSET Interfaces],
         \/ Goto(c, "GetGroup") /\ op' = [op EXCEPT ![c] = "CreateGroup"]
         \/ Goto(c, "Modify") /\ op' = [op EXCEPT ![c] = "Attach"]
  PROVE  FrameInv'
<1> USE DEF Goto, FrameOK, NicCalls, CreateCalls, RemovalCalls, GroupCalls
<1>1. FrameType'
  BY DEF FrameInv, FrameType
<1>2. ASSUME NEW d \in Callers PROVE FrameOK(d)'
  BY <1>2 DEF FrameInv, FrameType
<1> QED
  BY <1>1, <1>2 DEF FrameInv

LEMMA SameFrame ==
  ASSUME FrameInv, UNCHANGED <<pc, frameVars>>
  PROVE  FrameInv'
BY DEF FrameInv, FrameType, FrameOK, frameVars

LEMMA FrameFacts ==
  ASSUME FrameInv, NEW c \in Callers
  PROVE  /\ pc[c] \in NicCalls => nic[c] \in Interfaces
         /\ pc[c] = "Modify" => want[c] \in Groups
         /\ pc[c] = "GetGroup" => want[c] \in Groups
         /\ want[c] \in Groups \cup {None} /\ todo[c] \in SUBSET Interfaces
         /\ due[c] \in SUBSET Interfaces
         /\ pc[c] = "idle" => op[c] = "none" /\ nic[c] = None /\ todo[c] = {}
BY DEF FrameInv, FrameType, FrameOK

\* Attach finds no interface, and nothing changes, or it has interfaces to work on.
LEMMA AttachGroupChoice ==
  ASSUME NEW c \in Callers, AttachGroup(c), ~UNCHANGED <<pc, frameVars>>
  PROVE  \E g \in Groups, nics \in SUBSET Interfaces :
           /\ \A n \in nics : status[n] \in Plugged
           /\ todo' = [todo EXCEPT ![c] = nics] /\ due' = [due EXCEPT ![c] = nics]
           /\ want' = [want EXCEPT ![c] = g] /\ op' = [op EXCEPT ![c] = "Attach"]
           /\ Goto(c, "Modify")
<1>1. PICK s \in Servers, g \in Groups :
         \E nics \in SUBSET AttachedTo(s) :
           \/ nics = {} /\ UNCHANGED <<pc, op, want, todo, due>>
           \/ /\ todo' = [todo EXCEPT ![c] = nics] /\ due' = [due EXCEPT ![c] = nics]
              /\ want' = [want EXCEPT ![c] = g] /\ op' = [op EXCEPT ![c] = "Attach"]
              /\ Goto(c, "Modify")
  BY DEF AttachGroup
<1>2. PICK nics \in SUBSET AttachedTo(s) :
         \/ nics = {} /\ UNCHANGED <<pc, op, want, todo, due>>
         \/ /\ todo' = [todo EXCEPT ![c] = nics] /\ due' = [due EXCEPT ![c] = nics]
            /\ want' = [want EXCEPT ![c] = g] /\ op' = [op EXCEPT ![c] = "Attach"]
            /\ Goto(c, "Modify")
  BY <1>1
<1>3. ~UNCHANGED <<pc, op, want, todo, due>>
  BY DEF AttachGroup, frameVars
<1>4. nics \in SUBSET Interfaces /\ \A n \in nics : status[n] \in Plugged
  BY DEF AttachedTo
<1> QED
  BY <1>2, <1>3, <1>4

LEMMA FrameStep ==
  ASSUME TypeInv, [Next]_vars
  PROVE  FrameInv'
<1> USE LeaveFrame, ReturnFrame, ProceedFrame, SameFrame, FrameFacts
    DEF TypeInv, TypeOK, NicCalls, CreateCalls, RemovalCalls, frameVars
<1>1. ASSUME NEW c \in Callers, CreateInterface(c), UNCHANGED ruleVars PROVE FrameInv'
  <2>1. PICK n \in Interfaces, s \in Servers \cup {None}, g \in Groups, a \in {"ok", "lost"} :
              IF a = "ok"
              THEN /\ Goto(c, IF s = None THEN "WaitCreated" ELSE "AttachCreated")
                   /\ op' = [op EXCEPT ![c] = "Create"] /\ nic' = [nic EXCEPT ![c] = n]
                   /\ want' = [want EXCEPT ![c] = g] /\ due' = [due EXCEPT ![c] = {n}]
                   /\ UNCHANGED todo
              ELSE Return(c)
    BY <1>1 DEF CreateInterface
  <2>2. CASE a = "ok"
    <3>1. todo' = [todo EXCEPT ![c] = {}] /\ due' \in [Callers -> SUBSET Interfaces]
      BY <1>1, <2>1, <2>2 DEF CreateInterface, FrameInv, FrameType, FrameOK
    <3> QED
      BY <2>1, <2>2, <3>1, EnterFrame
  <2> QED
    BY <2>1, <2>2
<1>2. ASSUME NEW c \in Callers, WaitCreated(c) \/ AttachCreated(c) \/ WaitAttached(c) \/
            DetachCreated(c) \/ DeleteCreated(c), UNCHANGED ruleVars
      PROVE  FrameInv'
  BY <1>2 DEF WaitCreated, AttachCreated, WaitAttached, DetachCreated, DetachThen, DeleteCreated,
     RemoveInterface
<1>3. ASSUME NEW c \in Callers, GetCreated(c) \/ Describe(c) \/ Detach(c) \/ Delete(c) \/
            WaitUpdated(c), UNCHANGED ruleVars
      PROVE  FrameInv'
  BY <1>3 DEF GetCreated, Describe, Detach, DetachThen, Delete, RemoveInterface, WaitUpdated
<1>4. ASSUME NEW c \in Callers, DeleteInterface(c), UNCHANGED ruleVars PROVE FrameInv'
  <2>1. PICK n \in Interfaces : nic' = [nic EXCEPT ![c] = n] /\ Exists(n)
    BY <1>4 DEF DeleteInterface
  <2>2. /\ todo' = [todo EXCEPT ![c] = {}] /\ want' = [want EXCEPT ![c] = want[c]]
        /\ due' \in [Callers -> SUBSET Interfaces] /\ want[c] \in Groups \cup {None}
    BY <1>4 DEF DeleteInterface, FrameInv, FrameType, FrameOK
  <2> QED
    BY <1>4, <2>1, <2>2, EnterFrame DEF DeleteInterface
<1>5. ASSUME NEW c \in Callers, UpdateGroup(c), UNCHANGED ruleVars PROVE FrameInv'
  <2>1. PICK n \in Interfaces, g \in Groups, a \in {"ok", "lost"} :
              IF a = "ok" THEN /\ Goto(c, "WaitUpdated") /\ op' = [op EXCEPT ![c] = "Update"]
                               /\ nic' = [nic EXCEPT ![c] = n] /\ want' = [want EXCEPT ![c] = g]
                               /\ UNCHANGED todo
                          ELSE Leave(c)
    BY <1>5 DEF UpdateGroup
  <2>2. due' \in [Callers -> SUBSET Interfaces]
    BY <1>5 DEF UpdateGroup, FrameInv, FrameType
  <2>3. CASE a = "ok"
    <3>1. todo' = [todo EXCEPT ![c] = {}]
      BY <1>5, <2>1, <2>3 DEF UpdateGroup, FrameInv, FrameType, FrameOK
    <3> QED
      BY <2>1, <2>2, <2>3, <3>1, EnterFrame
  <2> QED
    BY <2>1, <2>2, <2>3, LeaveFrame
<1>6. ASSUME NEW c \in Callers, CreateGroup(c) PROVE FrameInv'
  <2>1. PICK g \in Groups, a \in {"ok", "lost"} :
              IF a = "ok" THEN /\ Goto(c, "GetGroup") /\ op' = [op EXCEPT ![c] = "CreateGroup"]
                               /\ want' = [want EXCEPT ![c] = g] /\ UNCHANGED <<nic, todo, due>>
                          ELSE Return(c)
    BY <1>6 DEF CreateGroup
  <2>2. CASE a = "ok"
    <3>1. todo' = [todo EXCEPT ![c] = {}] /\ due' \in [Callers -> SUBSET Interfaces]
      BY <1>6, <2>1, <2>2 DEF CreateGroup, FrameInv, FrameType, FrameOK
    <3> QED
      BY <1>6, <2>1, <2>2, <3>1, EnterGroupFrame DEF CreateGroup
  <2> QED
    BY <2>1, <2>2
<1>7. ASSUME NEW c \in Callers, GetGroup(c) \/ DeleteGroup(c) \/ AddSecurityRule(c) \/
            ListRules(c) \/ RemoveSecurityRule(c)
      PROVE  FrameInv'
  BY <1>7 DEF GetGroup, DeleteGroup, AddSecurityRule, ListRules, RemoveSecurityRule
<1>8. ASSUME NEW c \in Callers, AttachGroup(c) PROVE FrameInv'
  <2>1. CASE UNCHANGED <<pc, frameVars>>
    BY <2>1
  <2>2. CASE ~UNCHANGED <<pc, frameVars>>
    <3>1. PICK g \in Groups, nics \in SUBSET Interfaces :
                /\ todo' = [todo EXCEPT ![c] = nics] /\ due' = [due EXCEPT ![c] = nics]
                /\ want' = [want EXCEPT ![c] = g] /\ op' = [op EXCEPT ![c] = "Attach"]
                /\ Goto(c, "Modify")
      BY <1>8, <2>2, AttachGroupChoice
    <3>2. due' \in [Callers -> SUBSET Interfaces]
      BY <3>1 DEF FrameInv, FrameType
    <3> QED
      BY <1>8, <3>1, <3>2, EnterGroupFrame DEF AttachGroup
  <2> QED
    BY <2>1, <2>2
<1>9. ASSUME NEW c \in Callers, Modify(c) PROVE FrameInv'
  <2>1. PICK n \in todo[c], a \in {"ok", "fail", "lost", "refused"} :
              /\ IF Applied(a) THEN SetGroup(c, n, want[c]) ELSE UNCHANGED <<group, due>>
              /\ IF a = "ok" /\ todo[c] # {n}
                 THEN todo' = [todo EXCEPT ![c] = @ \ {n}] /\ UNCHANGED <<pc, op, nic, want>>
                 ELSE Leave(c)
    BY <1>9 DEF Modify, Answers
  <2>2. due' \in [Callers -> SUBSET Interfaces]
    BY <2>1 DEF SetGroup, FrameInv, FrameType
  <2>3. CASE a = "ok" /\ todo[c] # {n}
    <3>1. todo' \in [Callers -> SUBSET Interfaces]
      BY <2>1, <2>3 DEF FrameInv, FrameType
    <3>2. ASSUME NEW d \in Callers PROVE FrameOK(d)'
      <4>1. d # c => todo'[d] = todo[d]
        BY <2>1, <2>3 DEF FrameInv, FrameType
      <4> QED
        BY <1>9, <2>1, <2>3, <3>2, <4>1 DEF Modify, FrameInv, FrameOK
    <3> QED
      BY <2>1, <2>2, <2>3, <3>1, <3>2 DEF FrameInv, FrameType
  <2> QED
    BY <2>1, <2>2, <2>3, LeaveFrame
<1>10. CASE Background /\ UNCHANGED ruleVars
  BY <1>10 DEF Background, FinishAttach, FinishDetach
<1>11. CASE UNCHANGED vars
  BY <1>11 DEF vars
<1> QED
  BY <1>1, <1>2, <1>3, <1>4, <1>5, <1>6, <1>7, <1>8, <1>9, <1>10, <1>11 DEF Next, InterfaceNext,
     GroupNext


-----------------------------------------------------------------------------
\* Faults

LEMMA NoteFacts ==
  ASSUME FaultType, NEW x \in Interfaces \cup Groups, NEW cause \in Causes, Note(x, cause)
  PROVE  /\ hit' \in [Interfaces \cup Groups -> SUBSET Causes]
         /\ \A y \in Interfaces \cup Groups : hit[y] \subseteq hit'[y]
         /\ cause \in hit'[x]
BY DEF FaultType, Note

LEMMA SpendFacts ==
  ASSUME FaultType, NEW a, Spend(a)
  PROVE  faults' \in 0 .. MaxFaults
BY MaxFaultsAssumption DEF Spend, FaultType

LEMMA TolerateFacts ==
  ASSUME FaultType, NEW a, Tolerate(a)
  PROVE  FaultType' /\ hit' = hit
BY SpendFacts DEF Tolerate, FaultType

LEMMA ChargeFacts ==
  ASSUME FaultType, NEW a, NEW x \in Interfaces \cup Groups, NEW cause \in Causes,
         Charge(a, x, cause)
  PROVE  /\ FaultType'
         /\ \A y \in Interfaces \cup Groups : hit[y] \subseteq hit'[y]
         /\ a \in {"fail", "lost"} => cause \in hit'[x]
<1>1. CASE a \in {"fail", "lost"}
  <2>1. faults' \in 0 .. MaxFaults
    BY SpendFacts DEF Charge
  <2>2. Note(x, cause)
    BY <1>1 DEF Charge
  <2> QED
    BY <2>1, <2>2, NoteFacts DEF FaultType
<1>2. CASE a \notin {"fail", "lost"}
  BY <1>2, SpendFacts DEF Charge, FaultType
<1> QED
  BY <1>1, <1>2

\* What an attachment leaves
LEMMA AttachFacts ==
  ASSUME FaultType, NEW c \in Callers, NEW n \in Interfaces, n = nic[c], NEW a, Spend(a),
         hit' = [hit EXCEPT ![nic[c]] = @ \cup AttachCauses(nic[c], a)]
  PROVE  /\ FaultType'
         /\ \A y \in Interfaces \cup Groups : hit[y] \subseteq hit'[y]
         /\ a \in {"fail", "lost"} => "AttachCreated" \in hit'[n]
         /\ Applied(a) /\ BeingDeleted(n) => "Overtaken" \in hit'[n]
<1>1. AttachCauses(n, a) \subseteq Causes
  BY DEF AttachCauses, Causes, CreateCalls
<1>2. hit' = [hit EXCEPT ![n] = hit[n] \cup AttachCauses(n, a)]
  OBVIOUS
<1>3. hit' \in [Interfaces \cup Groups -> SUBSET Causes]
  BY <1>1, <1>2 DEF FaultType
<1>4. hit'[n] = hit[n] \cup AttachCauses(n, a)
  BY <1>2 DEF FaultType
<1>5. \A y \in Interfaces \cup Groups : hit[y] \subseteq hit'[y]
  BY <1>2 DEF FaultType
<1> QED
  BY <1>3, <1>4, <1>5, SpendFacts DEF FaultType, AttachCauses

\* What the removal of an interface leaves
LEMMA RemoveFacts ==
  ASSUME FaultType, InterfaceType, NEW n \in Interfaces, NEW name \in Causes,
         RemoveInterface(n, name)
  PROVE  /\ FaultType'
         /\ \A y \in Interfaces \cup Groups : hit[y] \subseteq hit'[y]
         /\ \/ status' = [status EXCEPT ![n] = "gone"] /\ status[n] = "available"
            \/ UNCHANGED status
         /\ \/ status'[n] = "gone" \/ name \in hit'[n]
            \/ status[n] = "detaching" /\ "Detaching" \in hit'[n]
            \/ n \in Launched /\ "Primary" \in hit'[n]
            \/ UNCHANGED status /\ status[n] \notin {"available", "detaching"} /\ n \notin Launched
<1>1. PICK a \in {"ok", "fail", "lost", "refused"} :
         /\ a \in Answers(status[n] = "available")
         /\ \/ a = "refused" /\ status[n] = "detaching" /\ Note(n, "Detaching") /\ UNCHANGED faults
            \/ a = "refused" /\ n \in Launched /\ Note(n, "Primary") /\ UNCHANGED faults
            \/ ~(a = "refused" /\ (status[n] = "detaching" \/ n \in Launched)) /\ Charge(a, n, name)
         /\ status' = IF Applied(a) THEN [status EXCEPT ![n] = "gone"] ELSE status
  BY DEF RemoveInterface, Answers
<1>2. CASE a = "refused" /\ Note(n, "Detaching") /\ status[n] = "detaching" /\ UNCHANGED faults
  BY <1>1, <1>2, NoteFacts DEF FaultType, Causes, Applied
<1>3. CASE a = "refused" /\ Note(n, "Primary") /\ n \in Launched /\ UNCHANGED faults
  BY <1>1, <1>3, NoteFacts DEF FaultType, Causes, Applied
<1>4. CASE ~(a = "refused" /\ (status[n] = "detaching" \/ n \in Launched)) /\ Charge(a, n, name)
  BY <1>1, <1>4, ChargeFacts DEF Applied, Answers, InterfaceType
<1> QED
  BY <1>1, <1>2, <1>3, <1>4

\* What a detachment leaves
LEMMA DetachFacts ==
  ASSUME FaultType, InterfaceType, NEW c \in Callers, NEW n \in Interfaces, n = nic[c],
         NEW name \in Causes, NEW next, DetachThen(c, name, next)
  PROVE  /\ FaultType'
         /\ \A y \in Interfaces \cup Groups : hit[y] \subseteq hit'[y]
         /\ \/ status' = [status EXCEPT ![n] = "detaching"] /\ status[n] \in {"attaching", "in-use"}
            \/ UNCHANGED status
         /\ \/ status'[n] \notin {"attaching", "in-use"}
            \/ n \in Launched
            \/ name \in hit'[n]
<1>1. PICK a \in {"ok", "fail", "lost", "refused"} :
         /\ a \in Answers(CanDetach(n)) /\ Charge(a, n, name)
         /\ status' = IF Applied(a) THEN [status EXCEPT ![n] = "detaching"] ELSE status
  BY DEF DetachThen, Answers
<1> QED
  BY <1>1, ChargeFacts DEF Applied, Answers, CanDetach, InterfaceType

HitGrows == \A x \in Interfaces \cup Groups : hit[x] \subseteq hit'[x]

LEMMA FaultStep ==
  ASSUME TypeInv, [Next]_vars
  PROVE  FaultType' /\ HitGrows
<1> USE FrameFacts DEF TypeInv, TypeOK, HitGrows, Causes, NicCalls, CreateCalls, RemovalCalls,
        GroupCalls
<1>1. ASSUME NEW c \in Callers, CreateInterface(c) \/ GetCreated(c) \/ Describe(c),
             UNCHANGED ruleVars
      PROVE  FaultType' /\ HitGrows
  BY <1>1, ChargeFacts DEF CreateInterface, GetCreated, Describe
<1>2. ASSUME NEW c \in Callers, AttachCreated(c), UNCHANGED ruleVars
       PROVE  FaultType' /\ HitGrows
  <2>1. PICK a \in {"ok", "fail", "lost", "refused"} :
              Spend(a) /\ hit' = [hit EXCEPT ![nic[c]] = @ \cup AttachCauses(nic[c], a)]
    BY <1>2 DEF AttachCreated, Answers
  <2>2. nic[c] \in Interfaces
    BY <1>2 DEF AttachCreated
  <2> QED
    BY <2>1, <2>2, AttachFacts
<1>3. ASSUME NEW c \in Callers, UpdateGroup(c) PROVE FaultType' /\ HitGrows
  BY <1>3, TolerateFacts DEF UpdateGroup
<1>4. ASSUME NEW c \in Callers, WaitCreated(c) \/ WaitAttached(c) \/ DeleteInterface(c) \/
            WaitUpdated(c), UNCHANGED ruleVars
      PROVE  FaultType' /\ HitGrows
  BY <1>4 DEF WaitCreated, FaultType, faultVars, WaitAttached, DeleteInterface, WaitUpdated
<1>5. ASSUME NEW c \in Callers, DetachCreated(c) \/ Detach(c), UNCHANGED ruleVars
      PROVE  FaultType' /\ HitGrows
  BY <1>5, DetachFacts DEF DetachCreated, DetachThen, Detach
<1>6. ASSUME NEW c \in Callers, DeleteCreated(c) \/ Delete(c), UNCHANGED ruleVars
      PROVE  FaultType' /\ HitGrows
  BY <1>6, RemoveFacts DEF DeleteCreated, Delete
<1>7. ASSUME NEW c \in Callers, CreateGroup(c) PROVE FaultType' /\ HitGrows
  BY <1>7, ChargeFacts DEF CreateGroup
<1>8. ASSUME NEW c \in Callers, DeleteGroup(c) \/ Modify(c) \/ AddSecurityRule(c) \/
             RemoveSecurityRule(c)
       PROVE  FaultType' /\ HitGrows
  BY <1>8, TolerateFacts DEF DeleteGroup, Modify, AddSecurityRule, RemoveSecurityRule
<1>9. ASSUME NEW c \in Callers, GetGroup(c) PROVE FaultType' /\ HitGrows
  BY <1>9, NoteFacts DEF GetGroup, FaultType
<1>10. ASSUME NEW c \in Callers, AttachGroup(c) \/ ListRules(c) PROVE FaultType' /\ HitGrows
  BY <1>10 DEF AttachGroup, FaultType, faultVars, ListRules
<1>11. CASE Background /\ UNCHANGED ruleVars
  BY <1>11 DEF Background, FaultType, faultVars
<1>12. CASE UNCHANGED vars
  BY <1>12 DEF vars, FaultType, faultVars
<1> QED
  BY <1>1, <1>2, <1>3, <1>4, <1>5, <1>6, <1>7, <1>8, <1>9, <1>10, <1>11, <1>12
     DEF Next, InterfaceNext, GroupNext

-----------------------------------------------------------------------------
\* Types

LEMMA ReportType ==
  ASSUME UserType, FrameType, NEW c \in Callers, NEW nics, Report(c, nics)
  PROVE  told' \in [Interfaces -> Groups \cup {None}]
BY DEF Report, UserType, FrameType

LEMMA InterfaceStep ==
  ASSUME TypeInv, [Next]_vars
  PROVE  InterfaceType'
<1> USE FrameFacts DEF TypeInv, TypeOK, InterfaceType, Plugged, NicCalls, CreateCalls,
        RemovalCalls, interfaceVars
<1>1. ASSUME NEW c \in Callers, CreateInterface(c) \/ WaitCreated(c) \/ AttachCreated(c) \/
            WaitAttached(c) \/ GetCreated(c), UNCHANGED ruleVars
      PROVE  InterfaceType'
  BY <1>1 DEF CreateInterface, UserType, WaitCreated, AttachCreated, WaitAttached, GetCreated
<1>2. ASSUME NEW c \in Callers, DetachCreated(c) \/ Detach(c), UNCHANGED ruleVars
      PROVE  InterfaceType'
  BY <1>2, DetachFacts DEF DetachCreated, DetachThen, Causes, Detach
<1>3. ASSUME NEW c \in Callers, DeleteCreated(c) \/ Delete(c), UNCHANGED ruleVars
      PROVE  InterfaceType'
  BY <1>3, RemoveFacts DEF DeleteCreated, Causes, Delete
<1>4. ASSUME NEW c \in Callers, DeleteInterface(c) \/ Describe(c) \/ UpdateGroup(c) \/
            WaitUpdated(c), UNCHANGED ruleVars
      PROVE  InterfaceType'
  BY <1>4 DEF DeleteInterface, Describe, UpdateGroup, UserType, WaitUpdated
<1>5. ASSUME NEW c \in Callers, CreateGroup(c) \/ GetGroup(c) \/ DeleteGroup(c) \/ AttachGroup(c)
            \/ Modify(c)
      PROVE  InterfaceType'
  BY <1>5 DEF CreateGroup, GetGroup, DeleteGroup, AttachGroup, Modify, SetGroup
<1>6. ASSUME NEW c \in Callers, AddSecurityRule(c) \/ ListRules(c) \/ RemoveSecurityRule(c)
      PROVE  InterfaceType'
  BY <1>6 DEF AddSecurityRule, ListRules, RemoveSecurityRule
<1>7. CASE Background /\ UNCHANGED ruleVars
  BY <1>7 DEF Background, FinishAttach, FinishDetach
<1>8. CASE UNCHANGED vars
  BY <1>8 DEF vars, interfaceVars
<1> QED
  BY <1>1, <1>2, <1>3, <1>4, <1>5, <1>6, <1>7, <1>8 DEF Next, InterfaceNext, GroupNext

LEMMA UserStep ==
  ASSUME TypeInv, [Next]_vars
  PROVE  UserType'
<1> USE FrameFacts DEF TypeInv, TypeOK, UserType, NicCalls, CreateCalls, RemovalCalls, userVars
<1>1. ASSUME NEW c \in Callers, CreateInterface(c) \/ WaitCreated(c) \/ AttachCreated(c) \/
            WaitAttached(c) \/ DetachCreated(c), UNCHANGED ruleVars
      PROVE  UserType'
  BY <1>1 DEF CreateInterface, WaitCreated, AttachCreated, WaitAttached, DetachCreated, DetachThen
<1>2. ASSUME NEW c \in Callers, DeleteCreated(c) \/ DeleteInterface(c) \/ Describe(c) \/ Detach(c)
            \/ Delete(c), UNCHANGED ruleVars
      PROVE  UserType'
  BY <1>2 DEF DeleteCreated, DeleteInterface, Describe, Detach, DetachThen, Delete
<1>3. ASSUME NEW c \in Callers, GetCreated(c) \/ WaitUpdated(c), UNCHANGED ruleVars PROVE UserType'
  BY <1>3, ReportType DEF GetCreated, FrameInv, WaitUpdated
<1>4. ASSUME NEW c \in Callers, UpdateGroup(c), UNCHANGED ruleVars PROVE UserType'
  BY <1>4 DEF UpdateGroup
<1>5. ASSUME NEW c \in Callers, CreateGroup(c) \/ GetGroup(c) \/ DeleteGroup(c) \/ AttachGroup(c)
            \/ Modify(c)
      PROVE  UserType'
  BY <1>5 DEF CreateGroup, GetGroup, DeleteGroup, AttachGroup, Modify, ToldAfter
<1>6. ASSUME NEW c \in Callers, AddSecurityRule(c) \/ ListRules(c) \/ RemoveSecurityRule(c)
      PROVE  UserType'
  BY <1>6 DEF AddSecurityRule, ListRules, RemoveSecurityRule
<1>7. CASE Background /\ UNCHANGED ruleVars
  BY <1>7 DEF Background, FinishAttach, FinishDetach
<1>8. CASE UNCHANGED vars
  BY <1>8 DEF vars, userVars
<1> QED
  BY <1>1, <1>2, <1>3, <1>4, <1>5, <1>6, <1>7, <1>8 DEF Next, InterfaceNext, GroupNext

LEMMA RuleStep ==
  ASSUME TypeInv, [Next]_vars
  PROVE  RuleType'
<1> USE DEF TypeInv, TypeOK, RuleType, ruleVars
<1>1. ASSUME NEW c \in Callers, InterfaceNext(c), UNCHANGED ruleVars PROVE RuleType'
  BY <1>1
<1>2. ASSUME NEW c \in Callers, CreateGroup(c) \/ GetGroup(c) \/ DeleteGroup(c) \/ AttachGroup(c)
            \/ Modify(c)
      PROVE  RuleType'
  BY <1>2 DEF CreateGroup, GetGroup, DeleteGroup, AttachGroup, Modify
<1>3. ASSUME NEW c \in Callers, AddSecurityRule(c) \/ ListRules(c) PROVE RuleType'
  BY <1>3 DEF AddSecurityRule, IdOfAdded, Rules, Ids, ListRules
<1>4. ASSUME NEW c \in Callers, RemoveSecurityRule(c) PROVE RuleType'
  BY <1>4, CidrAssumption DEF RemoveSecurityRule, Revoked, Rules, Ids
<1>5. CASE Background /\ UNCHANGED ruleVars
  BY <1>5
<1>6. CASE UNCHANGED vars
  BY <1>6 DEF vars
<1> QED
  BY <1>1, <1>2, <1>3, <1>4, <1>5, <1>6 DEF Next, InterfaceNext, GroupNext

LEMMA TypeInit == Init => TypeInv
BY MaxFaultsAssumption, LaunchedAssumption, DefaultAssumption
   DEF Init, InterfaceInit, TypeInv, TypeOK, InterfaceType, FrameType, UserType, FaultType,
       RuleType, FrameInv, FrameOK, NicCalls, CreateCalls, RemovalCalls, GroupCalls, Plugged

LEMMA TypeStep == TypeInv /\ [Next]_vars => TypeInv'
BY FrameStep, FaultStep, InterfaceStep, UserStep, RuleStep DEF TypeInv, TypeOK, FrameInv

\* Interfaces, groups, blocks of addresses and identifiers of rules, all of them strings in the
\* code, are never taken for one another, whatever callers do at the same time.
THEOREM TypeCorrect == Spec => []TypeOK
<1>1. TypeInv => TypeOK
  BY DEF TypeInv
<1> QED
  BY <1>1, TypeInit, TypeStep, PTL DEF Spec

-----------------------------------------------------------------------------
\* What a step does to the interfaces of EC2

StatusMoves(n) ==
  /\ status'[n] = "none" => status[n] = "none"
  /\ status[n] = "gone" => status'[n] = "gone"
  /\ status[n] = "none" /\ status'[n] # "none" =>
       "CreateInterface" \in hit'[n] \/ \E c \in Callers : op'[c] = "Create" /\ nic'[c] = n
  /\ status'[n] \in {"attaching", "in-use"} =>
       \/ status[n] \in {"attaching", "in-use"}
       \/ /\ \E c \in Callers : pc[c] = "AttachCreated" /\ nic[c] = n /\ pc'[c] # "AttachCreated"
          /\ BeingDeleted(n) => "Overtaken" \in hit'[n]

LEMMA StatusStep ==
  ASSUME TypeInv, [Next]_vars
  PROVE  \A n \in Interfaces : StatusMoves(n)
<1> USE FrameFacts DEF TypeInv, TypeOK, InterfaceType, StatusMoves, NicCalls, CreateCalls,
        RemovalCalls, interfaceVars
<1>1. ASSUME NEW c \in Callers, CreateInterface(c), UNCHANGED ruleVars
      PROVE  \A n \in Interfaces : StatusMoves(n)
  <2>1. PICK n \in Interfaces, s \in Servers \cup {None}, g \in Groups, a \in {"ok", "lost"} :
              /\ status[n] = "none" /\ status' = [status EXCEPT ![n] = "available"]
              /\ Charge(a, n, "CreateInterface")
              /\ a = "ok" => op' = [op EXCEPT ![c] = "Create"] /\ nic' = [nic EXCEPT ![c] = n]
    <3> HIDE DEF TypeInv, StatusMoves
    <3> QED
      BY <1>1, Zenon DEF CreateInterface
  <2>2. "CreateInterface" \in hit'[n] \/ (op'[c] = "Create" /\ nic'[c] = n)
    <3>1. CASE a = "ok"
      BY <2>1, <3>1 DEF FrameInv, FrameType
    <3>2. CASE a = "lost"
      BY <2>1, <3>2, ChargeFacts DEF Causes
    <3> QED
      BY <2>1, <3>1, <3>2
  <2> QED
    BY <2>1, <2>2
<1>2. ASSUME NEW c \in Callers, WaitCreated(c) \/ WaitAttached(c) \/ GetCreated(c) \/
            DeleteInterface(c) \/ Describe(c), UNCHANGED ruleVars
      PROVE  \A n \in Interfaces : StatusMoves(n)
  BY <1>2 DEF WaitCreated, WaitAttached, GetCreated, DeleteInterface, Describe
<1>3. ASSUME NEW c \in Callers, AttachCreated(c), UNCHANGED ruleVars
      PROVE  \A n \in Interfaces : StatusMoves(n)
  <2>1. pc[c] = "AttachCreated" /\ pc'[c] # "AttachCreated"
    BY <1>3 DEF AttachCreated, Proceed, Goto, FrameInv, FrameType
  <2>2. PICK a \in {"ok", "fail", "lost", "refused"} :
              /\ Spend(a) /\ hit' = [hit EXCEPT ![nic[c]] = @ \cup AttachCauses(nic[c], a)]
              /\ IF Applied(a) THEN status' = [status EXCEPT ![nic[c]] = "attaching"]
                               ELSE UNCHANGED status
              /\ Applied(a) => status[nic[c]] = "available"
    BY <1>3 DEF AttachCreated, Answers, Applied
  <2>3. nic[c] \in Interfaces
    BY <1>3 DEF AttachCreated
  <2>4. Applied(a) /\ BeingDeleted(nic[c]) => "Overtaken" \in hit'[nic[c]]
    BY <2>2, <2>3, AttachFacts
  <2> QED
    BY <2>1, <2>2, <2>3, <2>4
<1>4. ASSUME NEW c \in Callers, DetachCreated(c), UNCHANGED ruleVars
      PROVE  \A n \in Interfaces : StatusMoves(n)
  <2>1. nic[c] \in Interfaces
    BY <1>4 DEF DetachCreated, DetachThen
  <2>2. DetachThen(c, "DetachCreated", "DeleteCreated")
    BY <1>4 DEF DetachCreated
  <2>3. \/ status' = [status EXCEPT ![nic[c]] = "detaching"]
           /\ status[nic[c]] \in {"attaching", "in-use"}
        \/ UNCHANGED status
    BY <2>1, <2>2, DetachFacts DEF Causes
  <2> QED
    BY <2>1, <2>3
<1>5. ASSUME NEW c \in Callers, DeleteCreated(c), UNCHANGED ruleVars
      PROVE  \A n \in Interfaces : StatusMoves(n)
  <2>1. nic[c] \in Interfaces
    BY <1>5 DEF DeleteCreated
  <2>2. RemoveInterface(nic[c], "DeleteCreated")
    BY <1>5 DEF DeleteCreated
  <2>3. \/ status' = [status EXCEPT ![nic[c]] = "gone"] /\ status[nic[c]] = "available"
        \/ UNCHANGED status
    BY <2>1, <2>2, RemoveFacts DEF Causes
  <2> QED
    BY <2>1, <2>3
<1>6. ASSUME NEW c \in Callers, Detach(c), UNCHANGED ruleVars
      PROVE  \A n \in Interfaces : StatusMoves(n)
  <2>1. nic[c] \in Interfaces
    BY <1>6 DEF Detach, DetachThen
  <2>2. DetachThen(c, "Detach", "Delete")
    BY <1>6 DEF Detach
  <2>3. \/ status' = [status EXCEPT ![nic[c]] = "detaching"]
           /\ status[nic[c]] \in {"attaching", "in-use"}
        \/ UNCHANGED status
    BY <2>1, <2>2, DetachFacts DEF Causes
  <2> QED
    BY <2>1, <2>3
<1>7. ASSUME NEW c \in Callers, Delete(c), UNCHANGED ruleVars
      PROVE  \A n \in Interfaces : StatusMoves(n)
  <2>1. nic[c] \in Interfaces
    BY <1>7 DEF Delete
  <2>2. RemoveInterface(nic[c], "Delete")
    BY <1>7 DEF Delete
  <2>3. \/ status' = [status EXCEPT ![nic[c]] = "gone"] /\ status[nic[c]] = "available"
        \/ UNCHANGED status
    BY <2>1, <2>2, RemoveFacts DEF Causes
  <2> QED
    BY <2>1, <2>3
<1>8. ASSUME NEW c \in Callers, UpdateGroup(c) \/ WaitUpdated(c), UNCHANGED ruleVars
      PROVE  \A n \in Interfaces : StatusMoves(n)
  BY <1>8 DEF UpdateGroup, WaitUpdated
<1>9. ASSUME NEW c \in Callers, CreateGroup(c) \/ GetGroup(c) \/ DeleteGroup(c) \/ AttachGroup(c)
            \/ Modify(c)
      PROVE  \A n \in Interfaces : StatusMoves(n)
  BY <1>9 DEF CreateGroup, GetGroup, DeleteGroup, AttachGroup, Modify
<1>10. ASSUME NEW c \in Callers, AddSecurityRule(c) \/ ListRules(c) \/ RemoveSecurityRule(c)
      PROVE  \A n \in Interfaces : StatusMoves(n)
  BY <1>10 DEF AddSecurityRule, ListRules, RemoveSecurityRule
<1>11. CASE Background /\ UNCHANGED ruleVars
  BY <1>11 DEF Background, FinishAttach, FinishDetach, Plugged
<1>12. CASE UNCHANGED vars
  BY <1>12 DEF vars, interfaceVars
<1> QED
  BY <1>1, <1>2, <1>3, <1>4, <1>5, <1>6, <1>7, <1>8, <1>9, <1>10, <1>11, <1>12 DEF Next,
     InterfaceNext, GroupNext

\* An interface is handed to its users by the last read of Create.
KnownMoves ==
  /\ known \subseteq known'
  /\ \A n \in known' \ known :
       \E c \in Callers : pc[c] = "GetCreated" /\ nic[c] = n /\ pc'[c] = "idle"

LEMMA KnownStep ==
  ASSUME TypeInv, [Next]_vars
  PROVE  KnownMoves
<1> USE FrameFacts DEF KnownMoves, TypeInv, TypeOK, NicCalls, CreateCalls, RemovalCalls, userVars
<1>1. ASSUME NEW c \in Callers, CreateInterface(c) \/ WaitCreated(c) \/ AttachCreated(c) \/
            WaitAttached(c) \/ DetachCreated(c), UNCHANGED ruleVars
      PROVE  KnownMoves
  BY <1>1 DEF CreateInterface, WaitCreated, AttachCreated, WaitAttached, DetachCreated, DetachThen
<1>2. ASSUME NEW c \in Callers, DeleteCreated(c) \/ GetCreated(c) \/ DeleteInterface(c) \/
            Describe(c) \/ Detach(c), UNCHANGED ruleVars
      PROVE  KnownMoves
  BY <1>2 DEF DeleteCreated, GetCreated, Return, Leave, Goto, FrameInv, FrameType,
     DeleteInterface, Describe, Detach, DetachThen
<1>3. ASSUME NEW c \in Callers, Delete(c) \/ UpdateGroup(c) \/ WaitUpdated(c), UNCHANGED ruleVars
      PROVE  KnownMoves
  BY <1>3 DEF Delete, UpdateGroup, WaitUpdated
<1>4. ASSUME NEW c \in Callers, CreateGroup(c) \/ GetGroup(c) \/ DeleteGroup(c) \/ AttachGroup(c)
            \/ Modify(c)
      PROVE  KnownMoves
  BY <1>4 DEF CreateGroup, GetGroup, DeleteGroup, AttachGroup, Modify
<1>5. ASSUME NEW c \in Callers, AddSecurityRule(c) \/ ListRules(c) \/ RemoveSecurityRule(c)
      PROVE  KnownMoves
  BY <1>5 DEF AddSecurityRule, ListRules, RemoveSecurityRule
<1>6. CASE Background /\ UNCHANGED ruleVars
  BY <1>6 DEF Background, FinishAttach, FinishDetach
<1>7. CASE UNCHANGED vars
  BY <1>7 DEF vars, userVars
<1> QED
  BY <1>1, <1>2, <1>3, <1>4, <1>5, <1>6, <1>7 DEF Next, InterfaceNext, GroupNext

-----------------------------------------------------------------------------
\* What callers have in hand

\* No attachment is in the way of the removal of n, or hit names the reason.
Loose(n, causes) ==
  \/ status[n] \notin {"attaching", "in-use"}
  \/ n \in Launched
  \/ hit[n] \cap causes # {}

\* What an attachment in the way of Delete comes from; the creator itself is not overtaken.
ClearCauses == RemovalCalls \cup {"Overtaken"}

WorkOK(c) ==
  /\ op[c] = "Create" => nic[c] \notin known /\ status[nic[c]] # "none"
  /\ op[c] \in {"Delete", "Update"} => status[nic[c]] # "none"
  /\ pc[c] = "AttachCreated" => status[nic[c]] \notin {"attaching", "in-use"}
  /\ pc[c] = "Delete" => Loose(nic[c], ClearCauses)
  /\ pc[c] = "Delete" /\ op[c] = "Create" => Loose(nic[c], RemovalCalls)
  /\ pc[c] = "DeleteCreated" => Loose(nic[c], CreateCalls)

SoleCreator ==
  \A c, d \in Callers : op[c] = "Create" /\ op[d] = "Create" /\ nic[c] = nic[d] => c = d

KnownExist == Launched \subseteq known /\ \A n \in known : status[n] # "none"

WorkInv == KnownExist /\ SoleCreator /\ \A c \in Callers : WorkOK(c)

Stays(c) == pc'[c] = pc[c] /\ op'[c] = op[c] /\ nic'[c] = nic[c] /\ want'[c] = want[c]

LeakCauses == CreateCalls \cup RemovalCalls \cup {"CreateInterface", "Detaching"}

Accounts(n) == n \in known' \/ status'[n] \in {"none", "gone"} \/ hit'[n] \cap LeakCauses # {}

Leaves(c) == /\ pc'[c] = "idle" /\ op'[c] = "none" /\ nic'[c] = None
             /\ op[c] = "Create" => Accounts(nic[c])

Begins(c) == /\ op[c] = "none" /\ nic[c] = None
             /\ \/ /\ op'[c] = "Create" /\ pc'[c] \in {"WaitCreated", "AttachCreated"}
                   /\ nic'[c] \in Interfaces /\ status[nic'[c]] = "none"
                   /\ status'[nic'[c]] = "available" /\ UNCHANGED known
                \/ /\ op'[c] \in {"Delete", "Update"} /\ nic'[c] \in Interfaces
                   /\ status[nic'[c]] # "none"
                   /\ pc'[c] \in {"Describe", "WaitUpdated"}
                \/ op'[c] \in {"CreateGroup", "Attach"} /\ pc'[c] \in {"GetGroup", "Modify"}

GoesOn(c) == /\ op'[c] = op[c] /\ nic'[c] = nic[c] /\ nic[c] \in Interfaces
             /\ pc[c] # "GetCreated" /\ pc'[c] # "AttachCreated"
             /\ pc'[c] = "Delete" => Loose(nic[c], RemovalCalls)'
             /\ pc'[c] = "DeleteCreated" => Loose(nic[c], CreateCalls)'

Works(c) == Stays(c) \/ Leaves(c) \/ Begins(c) \/ GoesOn(c)

LEMMA LeaveOthers ==
  ASSUME FrameInv, NEW c \in Callers, Leave(c)
  PROVE  /\ pc'[c] = "idle" /\ op'[c] = "none" /\ nic'[c] = None
         /\ \A d \in Callers \ {c} : Stays(d)
BY DEF Leave, Goto, FrameInv, FrameType, Stays

LEMMA ProceedOthers ==
  ASSUME FrameInv, NEW c \in Callers, NEW call, Proceed(c, call)
  PROVE  /\ pc'[c] = call /\ op'[c] = op[c] /\ nic'[c] = nic[c]
         /\ \A d \in Callers \ {c} : Stays(d)
BY DEF Proceed, Goto, frameVars, FrameInv, FrameType, Stays

LEMMA EnterOthers ==
  ASSUME FrameInv, NEW c \in Callers, NEW call, NEW method, NEW n, Goto(c, call),
         op' = [op EXCEPT ![c] = method], nic' = [nic EXCEPT ![c] = n],
         \A d \in Callers \ {c} : want'[d] = want[d]
  PROVE  /\ pc'[c] = call /\ op'[c] = method /\ nic'[c] = n
         /\ \A d \in Callers \ {c} : Stays(d)
BY DEF Goto, FrameInv, FrameType, Stays

LEMMA EnterGroupOthers ==
  ASSUME FrameInv, NEW c \in Callers, NEW call, NEW method, Goto(c, call),
         op' = [op EXCEPT ![c] = method], UNCHANGED nic,
         \A d \in Callers \ {c} : want'[d] = want[d]
  PROVE  /\ pc'[c] = call /\ op'[c] = method
         /\ \A d \in Callers \ {c} : Stays(d)
BY DEF Goto, FrameInv, FrameType, Stays

LEMMA CreateInterfaceChoice ==
  ASSUME NEW c \in Callers, CreateInterface(c)
  PROVE  \E n \in Interfaces, s \in Servers \cup {None}, g \in Groups, a \in {"ok", "lost"} :
           /\ status[n] = "none" /\ status' = [status EXCEPT ![n] = "available"]
           /\ IF a = "ok"
              THEN /\ Goto(c, IF s = None THEN "WaitCreated" ELSE "AttachCreated")
                   /\ op' = [op EXCEPT ![c] = "Create"] /\ nic' = [nic EXCEPT ![c] = n]
                   /\ want' = [want EXCEPT ![c] = g]
              ELSE Return(c)
<1>1. PICK n \in Interfaces, s \in Servers \cup {None}, g \in Groups, a \in {"ok", "lost"} :
         /\ status[n] = "none" /\ gstate[g] = "live"
         /\ status' = [status EXCEPT ![n] = "available"]
         /\ group' = [group EXCEPT ![n] = g]
         /\ Charge(a, n, "CreateInterface")
         /\ IF a = "ok"
            THEN /\ Goto(c, IF s = None THEN "WaitCreated" ELSE "AttachCreated")
                 /\ op' = [op EXCEPT ![c] = "Create"]
                 /\ nic' = [nic EXCEPT ![c] = n]
                 /\ want' = [want EXCEPT ![c] = g]
                 /\ due' = [due EXCEPT ![c] = {n}]
                 /\ UNCHANGED todo
            ELSE Return(c)
  BY DEF CreateInterface
<1> QED
  BY <1>1

LEMMA CallerWorks ==
  ASSUME TypeInv, WorkInv, NEW c \in Callers, InterfaceNext(c) \/ GroupNext(c)
  PROVE  Works(c) /\ \A d \in Callers \ {c} : Stays(d)
<1> USE FrameFacts
    DEF TypeInv, TypeOK, NicCalls, Works
<1>1. CASE CreateInterface(c)
  <2>1. PICK n \in Interfaces, s \in Servers \cup {None}, g \in Groups, a \in {"ok", "lost"} :
              /\ status[n] = "none" /\ status' = [status EXCEPT ![n] = "available"]
              /\ IF a = "ok"
                 THEN /\ Goto(c, IF s = None THEN "WaitCreated" ELSE "AttachCreated")
                      /\ op' = [op EXCEPT ![c] = "Create"] /\ nic' = [nic EXCEPT ![c] = n]
                      /\ want' = [want EXCEPT ![c] = g]
                 ELSE Return(c)
    BY <1>1, CreateInterfaceChoice
  <2>2. pc[c] = "idle" /\ UNCHANGED known
    BY <1>1 DEF CreateInterface, userVars
  <2>3. CASE a = "ok"
    <3>1. nic'[c] = n /\ status'[n] = "available"
      BY <2>1, <2>3 DEF FrameInv, FrameType, InterfaceType
    <3>2. /\ pc'[c] \in {"WaitCreated", "AttachCreated"} /\ op'[c] = "Create"
          /\ \A d \in Callers \ {c} : Stays(d)
      <4>1. \A d \in Callers \ {c} : want'[d] = want[d]
        BY <2>1, <2>3 DEF FrameInv, FrameType
      <4>2. /\ Goto(c, IF s = None THEN "WaitCreated" ELSE "AttachCreated")
            /\ op' = [op EXCEPT ![c] = "Create"] /\ nic' = [nic EXCEPT ![c] = n]
        BY <2>1, <2>3
      <4> QED
        BY <4>1, <4>2, EnterOthers
    <3> QED
      BY <2>1, <2>2, <3>1, <3>2 DEF Begins
  <2> QED
    BY <2>1, <2>2, <2>3, LeaveOthers DEF Return, Leaves
<1>2. CASE WaitCreated(c) \/ WaitAttached(c)
  BY <1>2, ProceedOthers DEF WaitCreated, GoesOn, CreateCalls, WaitAttached
<1>3. CASE AttachCreated(c)
  <2>1. PICK a \in {"ok", "fail", "lost", "refused"}, s \in Servers :
              /\ Spend(a) /\ hit' = [hit EXCEPT ![nic[c]] = @ \cup AttachCauses(nic[c], a)]
              /\ status' = [status EXCEPT ![nic[c]] = "attaching"] \/ UNCHANGED status
              /\ a = "lost" \/ a = "ok" \/ UNCHANGED status
              /\ Proceed(c, IF a = "ok" THEN "WaitAttached" ELSE "DeleteCreated")
    BY <1>3 DEF AttachCreated, Answers, Applied
  <2>2. pc[c] = "AttachCreated" /\ nic[c] \in Interfaces
    BY <1>3 DEF AttachCreated, CreateCalls
  <2>3. CASE a = "ok"
    BY <2>1, <2>2, <2>3, ProceedOthers DEF GoesOn
  <2>4. CASE a = "lost"
    <3>1. "AttachCreated" \in hit'[nic[c]]
      BY <2>1, <2>2, <2>4, AttachFacts
    <3> QED
      BY <2>1, <2>2, <2>4, <3>1, ProceedOthers DEF GoesOn, Loose, CreateCalls
  <2>5. CASE a \in {"fail", "refused"}
    <3>1. status[nic[c]] \notin {"attaching", "in-use"}
      BY <2>2 DEF WorkInv, WorkOK
    <3> QED
      BY <2>1, <2>2, <2>5, <3>1, ProceedOthers DEF GoesOn, Loose
  <2> QED
    BY <2>3, <2>4, <2>5
<1>4. CASE DetachCreated(c)
  <2>1. pc[c] = "DetachCreated" /\ nic[c] \in Interfaces
        /\ DetachThen(c, "DetachCreated", "DeleteCreated")
    BY <1>4 DEF DetachCreated, DetachThen, CreateCalls, RemovalCalls
  <2>2. /\ pc'[c] = "DeleteCreated" /\ op'[c] = op[c] /\ nic'[c] = nic[c]
        /\ \A d \in Callers \ {c} : Stays(d)
    BY <2>1, ProceedOthers DEF DetachThen
  <2>3. Loose(nic[c], CreateCalls)'
    BY <2>1, <2>2, DetachFacts DEF Causes, Loose, CreateCalls, RemovalCalls
  <2> QED
    BY <2>1, <2>2, <2>3 DEF GoesOn
<1>5. CASE DeleteCreated(c)
  <2>1. pc[c] = "DeleteCreated" /\ nic[c] \in Interfaces
        /\ RemoveInterface(nic[c], "DeleteCreated") /\ Return(c)
    BY <1>5 DEF DeleteCreated, CreateCalls, RemovalCalls
  <2>2. Loose(nic[c], CreateCalls) /\ "DeleteCreated" \in CreateCalls
    BY <2>1 DEF WorkInv, WorkOK, CreateCalls, RemovalCalls
  <2>3. known \subseteq known' /\ hit[nic[c]] \subseteq hit'[nic[c]]
    BY <1>5, <2>1, RemoveFacts DEF DeleteCreated, Causes, CreateCalls, RemovalCalls, userVars
  <2>4. \/ status'[nic[c]] = "gone" \/ "DeleteCreated" \in hit'[nic[c]]
        \/ "Detaching" \in hit'[nic[c]]
        \/ nic[c] \in Launched
        \/ UNCHANGED status /\ status[nic[c]] \notin {"available", "detaching"}
    BY <2>1, RemoveFacts DEF Causes, CreateCalls, RemovalCalls
  <2>5. Launched \subseteq known'
    BY <2>3 DEF WorkInv, KnownExist
  <2>6. status[nic[c]] \in Plugged \cup {"none", "available", "gone"}
    BY <2>1 DEF InterfaceType
  <2>7. Accounts(nic[c])
    BY <2>2, <2>3, <2>4, <2>5, <2>6 DEF Accounts, LeakCauses, Loose, Plugged
  <2> QED
    BY <2>1, <2>7, LeaveOthers DEF Return, Leaves
<1>6. CASE GetCreated(c)
  <2>1. pc[c] = "GetCreated" /\ nic[c] \in Interfaces /\ Return(c)
    BY <1>6 DEF GetCreated, CreateCalls
  <2>2. nic[c] \in known' \/ "GetCreated" \in hit'[nic[c]] \/ status'[nic[c]] \in {"none", "gone"}
    BY <1>6, <2>1, ChargeFacts
       DEF GetCreated, ReadAnswers, Causes, CreateCalls, Exists, interfaceVars
  <2> QED
    BY <2>1, <2>2, LeaveOthers DEF Return, Leaves, Accounts, LeakCauses, CreateCalls
<1>7. CASE DeleteInterface(c)
  <2>1. PICK n \in Interfaces : nic' = [nic EXCEPT ![c] = n] /\ status[n] # "none"
    BY <1>7 DEF DeleteInterface, Exists
  <2>2. nic'[c] = n /\ pc[c] = "idle" /\ \A d \in Callers \ {c} : want'[d] = want[d]
    BY <1>7, <2>1 DEF DeleteInterface, FrameInv, FrameType
  <2> QED
    BY <1>7, <2>1, <2>2, EnterOthers DEF DeleteInterface, Begins
<1>8. CASE Describe(c)
  <2>1. PICK a \in ReadAnswers :
              /\ Charge(a, nic[c], "Describe")
              /\ IF a = "ok" /\ Exists(nic[c])
                 THEN Proceed(c, IF status[nic[c]] \in Plugged THEN "Detach" ELSE "Delete")
                 ELSE Return(c)
    BY <1>8 DEF Describe
  <2>2. pc[c] = "Describe" /\ nic[c] \in Interfaces /\ UNCHANGED <<status, known>>
    BY <1>8 DEF Describe, RemovalCalls, interfaceVars, userVars
  <2>3. CASE a = "ok" /\ Exists(nic[c])
    <3>1. status[nic[c]] \notin Plugged => Loose(nic[c], RemovalCalls)'
      BY <2>1, <2>2, <2>3, ProceedOthers DEF Loose, Plugged
    <3> QED
      BY <2>1, <2>2, <2>3, <3>1, ProceedOthers DEF GoesOn
  <2>4. CASE ~(a = "ok" /\ Exists(nic[c]))
    <3>1. Accounts(nic[c])
      BY <2>1, <2>2, <2>4, ChargeFacts
         DEF Accounts, Exists, ReadAnswers, LeakCauses, RemovalCalls, Causes
    <3> QED
      BY <2>1, <2>4, <3>1, LeaveOthers DEF Return, Leaves
  <2> QED
    BY <2>3, <2>4
<1>9. CASE Detach(c)
  <2>1. pc[c] = "Detach" /\ nic[c] \in Interfaces /\ DetachThen(c, "Detach", "Delete")
    BY <1>9 DEF Detach, DetachThen, CreateCalls, RemovalCalls
  <2>2. /\ pc'[c] = "Delete" /\ op'[c] = op[c] /\ nic'[c] = nic[c]
        /\ \A d \in Callers \ {c} : Stays(d)
    BY <2>1, ProceedOthers DEF DetachThen
  <2>3. Loose(nic[c], RemovalCalls)'
    BY <2>1, <2>2, DetachFacts DEF Causes, Loose, CreateCalls, RemovalCalls
  <2> QED
    BY <2>1, <2>2, <2>3 DEF GoesOn
<1>10. CASE Delete(c)
  <2>1. pc[c] = "Delete" /\ nic[c] \in Interfaces /\ RemoveInterface(nic[c], "Delete") /\ Return(c)
    BY <1>10 DEF Delete, CreateCalls, RemovalCalls
  <2>2. (op[c] = "Create" => Loose(nic[c], RemovalCalls)) /\ "Delete" \in RemovalCalls
    BY <2>1 DEF WorkInv, WorkOK, CreateCalls, RemovalCalls
  <2>3. known \subseteq known' /\ hit[nic[c]] \subseteq hit'[nic[c]]
    BY <1>10, <2>1, RemoveFacts DEF Delete, Causes, CreateCalls, RemovalCalls, userVars
  <2>4. \/ status'[nic[c]] = "gone" \/ "Delete" \in hit'[nic[c]] \/ "Detaching" \in hit'[nic[c]]
        \/ nic[c] \in Launched
        \/ UNCHANGED status /\ status[nic[c]] \notin {"available", "detaching"}
    BY <2>1, RemoveFacts DEF Causes, CreateCalls, RemovalCalls
  <2>5. Launched \subseteq known'
    BY <2>3 DEF WorkInv, KnownExist
  <2>6. status[nic[c]] \in Plugged \cup {"none", "available", "gone"}
    BY <2>1 DEF InterfaceType
  <2>7. op[c] = "Create" => Accounts(nic[c])
    BY <2>2, <2>3, <2>4, <2>5, <2>6 DEF Accounts, LeakCauses, Loose, Plugged
  <2> QED
    BY <2>1, <2>7, LeaveOthers DEF Return, Leaves
<1>11. CASE UpdateGroup(c)
  <2>1. PICK n \in Interfaces, g \in Groups, a \in {"ok", "lost"} :
              /\ status[n] # "none"
              /\ IF a = "ok" THEN /\ Goto(c, "WaitUpdated") /\ op' = [op EXCEPT ![c] = "Update"]
                                  /\ nic' = [nic EXCEPT ![c] = n] /\ want' = [want EXCEPT ![c] = g]
                             ELSE Leave(c)
    BY <1>11 DEF UpdateGroup, Exists
  <2>2. pc[c] = "idle"
    BY <1>11 DEF UpdateGroup
  <2>3. CASE a = "ok"
    <3>1. /\ pc'[c] = "WaitUpdated" /\ op'[c] = "Update" /\ nic'[c] = n
          /\ \A d \in Callers \ {c} : Stays(d)
      <4>1. \A d \in Callers \ {c} : want'[d] = want[d]
        BY <2>1, <2>3 DEF FrameInv, FrameType
      <4> QED
        BY <2>1, <2>3, <4>1, EnterOthers
    <3> QED
      BY <2>1, <2>2, <3>1 DEF Begins
  <2> QED
    BY <2>1, <2>2, <2>3, LeaveOthers, NoneAssumption DEF Leaves
<1>12. CASE WaitUpdated(c)
  <2>1. Return(c) /\ op[c] # "Create"
    BY <1>12 DEF WaitUpdated, FrameInv, FrameOK
  <2> QED
    BY <2>1, LeaveOthers DEF Return, Leaves
<1>13. CASE CreateGroup(c)
  <2>1. PICK g \in Groups :
              \/ Return(c)
              \/ /\ Goto(c, "GetGroup") /\ op' = [op EXCEPT ![c] = "CreateGroup"]
                 /\ UNCHANGED nic /\ want' = [want EXCEPT ![c] = g]
    BY <1>13 DEF CreateGroup
  <2>2. pc[c] = "idle"
    BY <1>13 DEF CreateGroup
  <2>3. CASE ~Return(c)
    <3>1. \A d \in Callers \ {c} : want'[d] = want[d]
      BY <2>1, <2>3 DEF FrameInv, FrameType
    <3>2. /\ Goto(c, "GetGroup") /\ op' = [op EXCEPT ![c] = "CreateGroup"]
          /\ UNCHANGED nic
      BY <2>1, <2>3
    <3> QED
      BY <2>2, <3>1, <3>2, EnterGroupOthers DEF Begins
  <2> QED
    BY <2>1, <2>2, <2>3, LeaveOthers, NoneAssumption DEF Return, Leaves
<1>14. CASE GetGroup(c)
  <2>1. pc[c] = "GetGroup" /\ Return(c)
    BY <1>14 DEF GetGroup
  <2>2. op[c] # "Create"
    BY <2>1 DEF FrameInv, FrameOK
  <2> QED
    BY <2>1, <2>2, LeaveOthers DEF Return, Leaves
<1>15. CASE DeleteGroup(c)
  <2>1. pc[c] = "idle" /\ UNCHANGED <<pc, op, nic, want>>
    BY <1>15 DEF DeleteGroup, frameVars
  <2> QED
    BY <2>1 DEF Stays
<1>16. CASE AttachGroup(c)
  <2>1. CASE UNCHANGED <<pc, frameVars>>
    BY <2>1 DEF frameVars, Stays
  <2>2. CASE ~UNCHANGED <<pc, frameVars>>
    <3>1. PICK g \in Groups :
                /\ Goto(c, "Modify") /\ op' = [op EXCEPT ![c] = "Attach"]
                /\ want' = [want EXCEPT ![c] = g]
      BY <1>16, <2>2, AttachGroupChoice
    <3>2. \A d \in Callers \ {c} : want'[d] = want[d]
      BY <3>1 DEF FrameInv, FrameType
    <3>3. pc[c] = "idle" /\ UNCHANGED nic
      BY <1>16 DEF AttachGroup
    <3> QED
      BY <3>1, <3>2, <3>3, EnterGroupOthers DEF Begins
  <2> QED
    BY <2>1, <2>2
<1>17. CASE Modify(c)
  <2>1. pc[c] = "Modify" /\ (Leave(c) \/ UNCHANGED <<pc, op, nic, want>>)
    BY <1>17 DEF Modify
  <2>2. op[c] # "Create"
    BY <2>1 DEF FrameInv, FrameOK
  <2> QED
    BY <2>1, <2>2, LeaveOthers DEF Leaves, Stays
<1>18. CASE AddSecurityRule(c)
  <2>1. pc[c] = "idle" /\ UNCHANGED <<pc, op, nic, want>>
    BY <1>18 DEF AddSecurityRule, frameVars
  <2> QED
    BY <2>1 DEF Stays
<1>19. CASE ListRules(c)
  <2>1. pc[c] = "idle" /\ UNCHANGED <<pc, op, nic, want>>
    BY <1>19 DEF ListRules, frameVars
  <2> QED
    BY <2>1 DEF Stays
<1>20. CASE RemoveSecurityRule(c)
  <2>1. pc[c] = "idle" /\ UNCHANGED <<pc, op, nic, want>>
    BY <1>20 DEF RemoveSecurityRule, frameVars
  <2> QED
    BY <2>1 DEF Stays
<1> QED
  BY <1>1, <1>2, <1>3, <1>4, <1>5, <1>6, <1>7, <1>8, <1>9, <1>10, <1>11, <1>12, <1>13, <1>14,
     <1>15, <1>16, <1>17, <1>18, <1>19, <1>20 DEF InterfaceNext, GroupNext

LEMMA OneWorks ==
  ASSUME TypeInv, WorkInv, [Next]_vars
  PROVE  \/ \A d \in Callers : Stays(d)
         \/ \E c \in Callers : Works(c) /\ \A d \in Callers \ {c} : Stays(d)
BY CallerWorks DEF Next, Background, vars, frameVars, Stays

LEMMA LooseStep ==
  ASSUME TypeInv, [Next]_vars, NEW n \in Interfaces, NEW causes, Loose(n, causes),
         \A c \in Callers : ~(pc[c] = "AttachCreated" /\ nic[c] = n)
  PROVE  status'[n] \notin {"attaching", "in-use"} \/ n \in Launched \/ hit'[n] \cap causes # {}
<1>1. hit[n] \subseteq hit'[n]
  BY FaultStep DEF HitGrows
<1>2. StatusMoves(n)
  BY StatusStep
<1> QED
  BY <1>1, <1>2 DEF Loose, StatusMoves

LEMMA OvertakenStep ==
  ASSUME TypeInv, [Next]_vars, NEW n \in Interfaces, Loose(n, ClearCauses), BeingDeleted(n)
  PROVE  Loose(n, ClearCauses)'
<1>1. hit[n] \subseteq hit'[n]
  BY FaultStep DEF HitGrows
<1>2. StatusMoves(n)
  BY StatusStep
<1> QED
  BY <1>1, <1>2 DEF Loose, StatusMoves, ClearCauses

\* A caller that creates an interface has it in hand.
LEMMA CreatorFacts ==
  ASSUME TypeInv, NEW c \in Callers
  PROVE  /\ op[c] \in {"Create", "Delete", "Update"} => nic[c] \in Interfaces
         /\ pc[c] \in CreateCalls => op[c] = "Create" /\ nic[c] \in Interfaces
         /\ pc[c] = "Delete" => op[c] \in {"Create", "Delete"} /\ nic[c] \in Interfaces
BY DEF TypeInv, FrameInv, FrameType, FrameOK, NicCalls, CreateCalls, RemovalCalls, GroupCalls

LEMMA StaysOK ==
  ASSUME TypeInv, WorkInv, [Next]_vars, NEW c \in Callers, Stays(c)
  PROVE  WorkOK(c)'
<1>1. KnownMoves /\ (nic[c] \in Interfaces => StatusMoves(nic[c]))
  BY KnownStep, StatusStep
<1>2. op[c] = "Create" => nic[c] \notin known'
  <2>1. SUFFICES ASSUME op[c] = "Create", nic[c] \in known' PROVE FALSE
    OBVIOUS
  <2>2. PICK d \in Callers : pc[d] = "GetCreated" /\ nic[d] = nic[c] /\ pc'[d] = "idle"
    BY <1>1, <2>1 DEF KnownMoves, WorkInv, WorkOK
  <2>3. op[d] = "Create"
    BY <2>2, CreatorFacts DEF CreateCalls
  <2>4. d = c
    BY <2>1, <2>2, <2>3 DEF WorkInv, SoleCreator
  <2> QED
    BY <2>2, <2>4 DEF Stays
<1>3. op[c] = "Create" => status'[nic[c]] # "none"
  BY <1>1, CreatorFacts DEF StatusMoves, WorkInv, WorkOK
<1>4. op[c] \in {"Delete", "Update"} => status'[nic[c]] # "none"
  BY <1>1, CreatorFacts DEF StatusMoves, WorkInv, WorkOK
<1>5. ASSUME NEW d \in Callers, pc[d] = "AttachCreated", nic[d] = nic[c],
             op[c] = "Create"
      PROVE  d = c
  <2>1. op[d] = "Create"
    BY <1>5, CreatorFacts DEF CreateCalls
  <2> QED
    BY <1>5, <2>1 DEF WorkInv, WorkOK, SoleCreator
<1>6. pc[c] = "AttachCreated" => status'[nic[c]] \notin {"attaching", "in-use"}
  <2>1. SUFFICES ASSUME pc[c] = "AttachCreated", status'[nic[c]] \in {"attaching", "in-use"}
                 PROVE  FALSE
    OBVIOUS
  <2>2. op[c] = "Create" /\ nic[c] \in Interfaces
    BY <2>1, CreatorFacts DEF CreateCalls
  <2>3. PICK d \in Callers : pc[d] = "AttachCreated" /\ nic[d] = nic[c] /\ pc'[d] # "AttachCreated"
    BY <1>1, <2>1, <2>2 DEF StatusMoves, WorkInv, WorkOK
  <2> QED
    BY <1>5, <2>1, <2>2, <2>3 DEF Stays
<1>7. ASSUME NEW causes, pc[c] \in {"Delete", "DeleteCreated"}, op[c] = "Create",
             Loose(nic[c], causes)
      PROVE  Loose(nic[c], causes)'
  <2>1. nic[c] \in Interfaces
    BY <1>7, CreatorFacts DEF CreateCalls
  <2>2. \A d \in Callers : ~(pc[d] = "AttachCreated" /\ nic[d] = nic[c])
    BY <1>5, <1>7, <2>1
  <2> QED
    BY <1>7, <2>1, <2>2, LooseStep DEF Loose, Stays
<1>8. /\ pc[c] = "Delete" /\ op[c] = "Create" => Loose(nic[c], RemovalCalls)'
      /\ pc[c] = "DeleteCreated" => Loose(nic[c], CreateCalls)'
  BY <1>7, CreatorFacts DEF WorkInv, WorkOK, CreateCalls
<1>9. pc[c] = "Delete" => Loose(nic[c], ClearCauses)'
  <2>1. SUFFICES ASSUME pc[c] = "Delete" PROVE Loose(nic[c], ClearCauses)'
    OBVIOUS
  <2>2. PICK n \in Interfaces : n = nic[c] /\ nic'[c] = n
    BY <2>1, CreatorFacts DEF Stays
  <2>3. Loose(n, ClearCauses) /\ BeingDeleted(n)
    BY <2>1, <2>2 DEF WorkInv, WorkOK, BeingDeleted
  <2>4. Loose(n, ClearCauses)'
    BY <2>3, OvertakenStep
  <2> QED
    BY <2>2, <2>4 DEF Loose
<1> QED
  BY <1>2, <1>3, <1>4, <1>6, <1>8, <1>9 DEF WorkOK, Stays

LEMMA WorksOK ==
  ASSUME TypeInv, WorkInv, [Next]_vars, NEW c \in Callers, Works(c)
  PROVE  WorkOK(c)'
<1>1. KnownMoves
  BY KnownStep
<1>2. CASE Stays(c)
  BY <1>2, StaysOK
<1>3. CASE Leaves(c)
  BY <1>3 DEF Leaves, WorkOK
<1>4. CASE Begins(c)
  <2>1. CASE op'[c] = "Create"
    <3>1. nic'[c] \notin known'
      BY <1>4, <2>1 DEF Begins, WorkInv, KnownExist
    <3> QED
      BY <1>4, <2>1, <3>1 DEF Begins, WorkOK
  <2>2. CASE op'[c] \in {"Delete", "Update"}
    BY <1>4, <2>2, StatusStep DEF Begins, WorkOK, StatusMoves
  <2>3. CASE op'[c] \in {"CreateGroup", "Attach"}
    BY <1>4, <2>3 DEF Begins, WorkOK
  <2> QED
    BY <1>4, <2>1, <2>2, <2>3 DEF Begins
<1>5. CASE GoesOn(c)
  <2>1. op[c] = "Create" => nic[c] \notin known'
    <3>1. SUFFICES ASSUME op[c] = "Create", nic[c] \in known' PROVE FALSE
      OBVIOUS
    <3>2. PICK d \in Callers : pc[d] = "GetCreated" /\ nic[d] = nic[c]
      BY <1>1, <3>1 DEF KnownMoves, WorkInv, WorkOK
    <3>3. d = c
      BY <3>1, <3>2, CreatorFacts DEF CreateCalls, WorkInv, SoleCreator
    <3> QED
      BY <1>5, <3>2, <3>3 DEF GoesOn
  <2>2. op[c] = "Create" => status'[nic[c]] # "none"
    BY <1>5, StatusStep DEF GoesOn, StatusMoves, WorkInv, WorkOK
  <2>3. op[c] \in {"Delete", "Update"} => status'[nic[c]] # "none"
    BY <1>5, StatusStep DEF GoesOn, StatusMoves, WorkInv, WorkOK
  <2>4. Loose(nic[c], RemovalCalls)' => Loose(nic[c], ClearCauses)'
    BY DEF Loose, ClearCauses
  <2> QED
    BY <1>5, <2>1, <2>2, <2>3, <2>4 DEF GoesOn, WorkOK
<1> QED
  BY <1>2, <1>3, <1>4, <1>5 DEF Works

LEMMA KnownExistStep ==
  ASSUME TypeInv, WorkInv, [Next]_vars
  PROVE  KnownExist'
<1>1. KnownMoves
  BY KnownStep
<1>2. ASSUME NEW n \in known' PROVE status'[n] # "none"
  <2>1. n \in Interfaces
    BY UserStep DEF UserType
  <2>2. status[n] # "none"
    <3>1. CASE n \in known
      BY <3>1 DEF WorkInv, KnownExist
    <3>2. CASE n \notin known
      <4>1. PICK d \in Callers : pc[d] = "GetCreated" /\ nic[d] = n
        BY <1>1, <1>2, <3>2 DEF KnownMoves
      <4> QED
        BY <4>1, CreatorFacts DEF CreateCalls, WorkInv, WorkOK
    <3> QED
      BY <3>1, <3>2
  <2> QED
    BY <2>1, <2>2, StatusStep DEF StatusMoves
<1> QED
  BY <1>1, <1>2 DEF KnownMoves, KnownExist, WorkInv

LEMMA SoleCreatorStep ==
  ASSUME TypeInv, WorkInv, [Next]_vars
  PROVE  SoleCreator'
<1>1. ASSUME NEW c \in Callers, NEW d \in Callers, op'[c] = "Create", op'[d] = "Create",
             nic'[c] = nic'[d], Works(c), Stays(d)
      PROVE  c = d
  <2>1. op[d] = "Create" /\ status[nic[d]] # "none" /\ nic'[d] = nic[d]
    BY <1>1 DEF Stays, WorkInv, WorkOK
  <2>2. op[c] = "Create" /\ nic'[c] = nic[c]
    BY <1>1, <2>1 DEF Works, Stays, Leaves, Begins, GoesOn
  <2> QED
    BY <1>1, <2>1, <2>2 DEF WorkInv, SoleCreator
<1>2. ASSUME NEW c \in Callers, NEW d \in Callers, c # d
      PROVE  \/ Stays(c) /\ (Stays(d) \/ Works(d))
             \/ Stays(d) /\ Works(c)
  <2>1. CASE \A e \in Callers : Stays(e)
    BY <2>1
  <2>2. ASSUME NEW e \in Callers, Works(e), \A f \in Callers \ {e} : Stays(f)
        PROVE  \/ Stays(c) /\ (Stays(d) \/ Works(d))
               \/ Stays(d) /\ Works(c)
    BY <1>2, <2>2
  <2> QED
    BY <2>1, <2>2, OneWorks
<1> QED
  BY <1>1, <1>2 DEF SoleCreator, Works

LEMMA WorkStep ==
  ASSUME TypeInv, WorkInv, [Next]_vars
  PROVE  WorkInv'
<1>1. ASSUME NEW c \in Callers PROVE WorkOK(c)'
  BY OneWorks, StaysOK, WorksOK
<1> QED
  BY <1>1, KnownExistStep, SoleCreatorStep DEF WorkInv

LEMMA WorkInit == Init => WorkInv
BY LaunchedAssumption DEF Init, InterfaceInit, WorkInv, KnownExist, SoleCreator, WorkOK

-----------------------------------------------------------------------------
\* Leaks and deletions

LEMMA InterfacesAccounted ==
  ASSUME TypeInv, WorkInv, [Next]_vars, NEW n \in Interfaces, InterfaceAccounted(n)
  PROVE  InterfaceAccounted(n)'
<1>1. SUFFICES ASSUME status'[n] \notin {"none", "gone"}
               PROVE  \/ n \in known' \/ \E c \in Callers : op'[c] = "Create" /\ nic'[c] = n
                      \/ hit'[n] \cap LeakCauses # {}
  BY DEF InterfaceAccounted, Exists, LeakCauses
<1>2. StatusMoves(n) /\ hit[n] \subseteq hit'[n] /\ KnownMoves
  BY StatusStep, FaultStep, KnownStep DEF HitGrows
<1>3. CASE status[n] = "none"
  BY <1>1, <1>2, <1>3 DEF StatusMoves, LeakCauses
<1>4. CASE status[n] # "none"
  <2>1. \/ n \in known \/ \E c \in Callers : op[c] = "Create" /\ nic[c] = n
        \/ hit[n] \cap LeakCauses # {}
    BY <1>1, <1>2, <1>4 DEF StatusMoves, InterfaceAccounted, Exists, LeakCauses
  <2>2. ASSUME NEW c \in Callers, op[c] = "Create", nic[c] = n
        PROVE  (op'[c] = "Create" /\ nic'[c] = n) \/ Accounts(n)
    <3>1. Stays(c) \/ Works(c)
      BY OneWorks
    <3> QED
      BY <2>2, <3>1 DEF Stays, Works, Leaves, Begins, GoesOn
  <2> QED
    BY <1>1, <1>2, <2>1, <2>2 DEF KnownMoves, Accounts
<1> QED
  BY <1>3, <1>4

LEMMA ClearedStep ==
  ASSUME TypeInv, WorkInv, ClearedExplained, [Next]_vars
  PROVE  ClearedExplained'
<1>1. ASSUME NEW n \in cleared
      PROVE  status'[n] = "gone" \/ hit'[n] \cap (ClearCauses \cup {"Detaching", "Primary"}) # {}
  <2>1. n \in Interfaces
    BY DEF TypeInv, TypeOK, UserType
  <2> QED
    BY <2>1, StatusStep, FaultStep DEF StatusMoves, HitGrows, ClearedExplained, ClearCauses
<1>2. ASSUME NEW c \in Callers, Delete(c), op[c] = "Delete"
      PROVE  LET n == nic[c] IN
               status'[n] = "gone" \/ hit'[n] \cap (ClearCauses \cup {"Detaching", "Primary"}) # {}
  <2>1. pc[c] = "Delete" /\ nic[c] \in Interfaces /\ RemoveInterface(nic[c], "Delete")
    BY <1>2, CreatorFacts DEF Delete
  <2>2. Loose(nic[c], ClearCauses) /\ status[nic[c]] # "none"
    BY <1>2, <2>1 DEF WorkInv, WorkOK
  <2>3. \/ status'[nic[c]] = "gone" \/ hit'[nic[c]] \cap {"Delete", "Detaching", "Primary"} # {}
        \/ UNCHANGED status /\ status[nic[c]] \notin {"available", "detaching"}
            /\ nic[c] \notin Launched
    BY <2>1, RemoveFacts DEF Causes, RemovalCalls, TypeInv, TypeOK
  <2>4. status[nic[c]] \in Plugged \cup {"none", "available", "gone"}
    BY <2>1 DEF TypeInv, TypeOK, InterfaceType
  <2>5. hit[nic[c]] \subseteq hit'[nic[c]]
    BY <2>1, FaultStep DEF HitGrows
  <2> QED
    BY <2>2, <2>3, <2>4, <2>5 DEF Loose, Plugged, RemovalCalls, ClearCauses
<1>3. \A n \in cleared' \ cleared : \E c \in Callers : Delete(c) /\ op[c] = "Delete" /\ nic[c] = n
  <2>1. ASSUME NEW c \in Callers, InterfaceNext(c) \/ GroupNext(c), ~(Delete(c) /\ op[c] = "Delete")
        PROVE  cleared' = cleared
    BY <2>1 DEF InterfaceNext, GroupNext, userVars, CreateInterface, WaitCreated, AttachCreated,
           WaitAttached, DetachCreated, DeleteCreated, GetCreated, DeleteInterface, Describe,
           Detach, DetachThen, Delete, UpdateGroup, WaitUpdated, CreateGroup, GetGroup,
           DeleteGroup, AttachGroup, Modify, AddSecurityRule, ListRules, RemoveSecurityRule
  <2>2. ASSUME NEW c \in Callers, Delete(c), op[c] = "Delete"
        PROVE  cleared' = cleared \cup {nic[c]}
    BY <2>2 DEF Delete
  <2>3. (\A c \in Callers : ~(InterfaceNext(c) \/ GroupNext(c))) => cleared' = cleared
    BY DEF Next, Background, vars, userVars
  <2> QED
    BY <2>1, <2>2, <2>3
<1> QED
  BY <1>1, <1>2, <1>3 DEF ClearedExplained, ClearCauses

-----------------------------------------------------------------------------
\* What callers are told of groups

Writers == {"Create", "Update", "Attach"}

DueOK(c) ==
  op[c] \in Writers => \A n \in due[c] \ todo[c] : Exists(n) => group[n] = want[c]

FreshOK == \A n \in Interfaces :
             status[n] = "none" => told[n] = None /\ \A c \in Callers : n \notin due[c]

ToldInv == GroupAsTold /\ FreshOK /\ \A c \in Callers : DueOK(c)

Keeps(c) == op'[c] = op[c] /\ want'[c] = want[c] /\ todo'[c] = todo[c] /\ due'[c] = due[c]

Drops(c) == op'[c] \notin Writers /\ due'[c] \subseteq due[c]

LEMMA ReturnDrops ==
  ASSUME FrameInv, NEW c \in Callers, Return(c)
  PROVE  Drops(c) /\ \A d \in Callers \ {c} : Keeps(d)
BY DEF Return, Leave, Goto, FrameInv, FrameType, Keeps, Drops, Writers

LEMMA ProceedKeeps ==
  ASSUME NEW c \in Callers, NEW call, Proceed(c, call)
  PROVE  \A d \in Callers : Keeps(d)
BY DEF Proceed, frameVars, Keeps

LEMMA ExistsBefore ==
  ASSUME TypeInv, [Next]_vars, NEW n \in Interfaces, Exists(n)'
  PROVE  Exists(n) \/ status[n] = "none"
BY StatusStep DEF StatusMoves, Exists

\* No group is written and nobody is told of one.
LEMMA ToldSame ==
  ASSUME TypeInv, ToldInv, [Next]_vars, UNCHANGED <<group, told>>,
         \A c \in Callers : Keeps(c) \/ Drops(c)
  PROVE  ToldInv'
<1>1. \A n \in Interfaces : StatusMoves(n) /\ (Exists(n)' => Exists(n) \/ status[n] = "none")
  BY StatusStep, ExistsBefore
<1>2. \A c \in Callers : due'[c] \subseteq due[c] /\ due[c] \subseteq Interfaces
  BY FrameFacts DEF Keeps, Drops, TypeInv
<1>3. FreshOK'
  BY <1>1, <1>2 DEF ToldInv, FreshOK, StatusMoves
<1>4. GroupAsTold'
  BY <1>1 DEF ToldInv, GroupAsTold, FreshOK
<1>5. ASSUME NEW c \in Callers PROVE DueOK(c)'
  <2>1. CASE Keeps(c)
    <3>1. SUFFICES ASSUME op[c] \in Writers, NEW n \in due[c] \ todo[c], Exists(n)'
                   PROVE  group[n] = want[c]
      BY <2>1 DEF DueOK, Keeps
    <3>2. n \in Interfaces /\ status[n] # "none"
      BY <1>2, <3>1 DEF ToldInv, FreshOK
    <3> QED
      BY <1>1, <3>1, <3>2 DEF ToldInv, DueOK
  <2> QED
    BY <2>1 DEF DueOK, Drops
<1> QED
  BY <1>3, <1>4, <1>5 DEF ToldInv

\* Create or Update tells its caller of the interfaces that are due.
LEMMA ToldReport ==
  ASSUME TypeInv, ToldInv, [Next]_vars, UNCHANGED <<interfaceVars>>, NEW c \in Callers,
         Report(c, due[c]), Return(c), op[c] \in {"Create", "Update"}, todo[c] = {}
  PROVE  ToldInv'
<1>1. Drops(c) /\ \A d \in Callers \ {c} : Keeps(d)
  BY ReturnDrops DEF TypeInv
<1>2. \A d \in Callers : due'[d] \subseteq due[d]
  BY <1>1 DEF Keeps, Drops
<1>3. FreshOK'
  BY <1>2 DEF ToldInv, FreshOK, Report, interfaceVars
<1>4. GroupAsTold'
  <2>1. SUFFICES ASSUME NEW n \in Interfaces, told'[n] # None, Exists(n) PROVE group[n] = told'[n]
    BY DEF GroupAsTold, Exists, interfaceVars
  <2>2. CASE n \in due[c]
    BY <2>1, <2>2 DEF Report, ToldInv, DueOK, Writers
  <2>3. CASE n \notin due[c]
    BY <2>1, <2>3 DEF Report, ToldInv, GroupAsTold
  <2> QED
    BY <2>2, <2>3
<1>5. ASSUME NEW d \in Callers PROVE DueOK(d)'
  BY <1>1 DEF ToldInv, DueOK, Keeps, Drops, Exists, interfaceVars
<1> QED
  BY <1>3, <1>4, <1>5 DEF ToldInv

LEMMA CreateInterfaceTold ==
  ASSUME TypeInv, ToldInv, NEW c \in Callers, CreateInterface(c)
  PROVE  ToldInv'
<1>1. PICK n \in Interfaces, s \in Servers \cup {None}, g \in Groups, a \in {"ok", "lost"} :
         /\ status[n] = "none"
         /\ status' = [status EXCEPT ![n] = "available"]
         /\ group' = [group EXCEPT ![n] = g]
         /\ IF a = "ok"
            THEN /\ op' = [op EXCEPT ![c] = "Create"] /\ want' = [want EXCEPT ![c] = g]
                 /\ due' = [due EXCEPT ![c] = {n}] /\ UNCHANGED todo
            ELSE Return(c)
  BY DEF CreateInterface
<1>2. UNCHANGED told /\ todo[c] = {}
  BY FrameFacts DEF CreateInterface, userVars, TypeInv
<1>3. /\ \A m \in Interfaces : /\ status'[m] = IF m = n THEN "available" ELSE status[m]
                               /\ group'[m] = IF m = n THEN g ELSE group[m]
      /\ \A d \in Callers : n \notin due[d] /\ due[d] \subseteq Interfaces
      /\ told[n] = None
  BY <1>1, FrameFacts DEF TypeInv, TypeOK, InterfaceType, ToldInv, FreshOK
<1>4. /\ \A d \in Callers \ {c} : Keeps(d)
      /\ \/ Drops(c)
         \/ op'[c] = "Create" /\ want'[c] = g /\ due'[c] = {n}
  <2>1. CASE a = "ok"
    BY <1>1, <2>1 DEF TypeInv, FrameInv, FrameType, Keeps
  <2> QED
    BY <1>1, <2>1, ReturnDrops DEF TypeInv
<1>5. FreshOK'
  BY <1>2, <1>3, <1>4 DEF ToldInv, FreshOK, Keeps, Drops
<1>6. GroupAsTold'
  BY <1>2, <1>3 DEF ToldInv, GroupAsTold, Exists
<1>7. ASSUME NEW d \in Callers PROVE DueOK(d)'
  <2>1. CASE Keeps(d)
    BY <1>3, <2>1 DEF ToldInv, DueOK, Keeps, Exists
  <2>2. CASE Drops(d)
    BY <2>2 DEF DueOK, Drops
  <2>3. CASE d = c /\ want'[c] = g /\ due'[c] = {n}
    BY <1>3, <2>3 DEF DueOK
  <2> QED
    BY <1>4, <2>1, <2>2, <2>3
<1> QED
  BY <1>5, <1>6, <1>7 DEF ToldInv

LEMMA UpdateGroupTold ==
  ASSUME TypeInv, ToldInv, NEW c \in Callers, UpdateGroup(c)
  PROVE  ToldInv'
<1>1. PICK n \in Interfaces, g \in Groups, a \in {"ok", "lost"} :
         /\ Exists(n)
         /\ group' = [group EXCEPT ![n] = g]
         /\ due' = [d \in Callers |-> IF d = c THEN (IF a = "ok" THEN {n} ELSE {})
                                               ELSE due[d] \ {n}]
         /\ told' = [told EXCEPT ![n] = None]
         /\ IF a = "ok" THEN /\ op' = [op EXCEPT ![c] = "Update"] /\ want' = [want EXCEPT ![c] = g]
                             /\ UNCHANGED todo
                        ELSE Leave(c)
  BY DEF UpdateGroup
<1>2. UNCHANGED status /\ n \in Interfaces
  BY DEF UpdateGroup
<1>3. \A m \in Interfaces : /\ group'[m] = IF m = n THEN g ELSE group[m]
                            /\ told'[m] = IF m = n THEN None ELSE told[m]
  BY <1>1, <1>2 DEF TypeInv, TypeOK, InterfaceType, UserType
<1>4. /\ \A d \in Callers \ {c} : /\ op'[d] = op[d] /\ want'[d] = want[d] /\ todo'[d] = todo[d]
                                  /\ due'[d] = due[d] \ {n}
      /\ \/ op'[c] = "none" /\ due'[c] = {}
         \/ want'[c] = g /\ due'[c] = {n}
  BY <1>1 DEF Leave, Goto, TypeInv, FrameInv, FrameType
<1>5. FreshOK'
  BY <1>1, <1>2, <1>3, <1>4 DEF ToldInv, FreshOK, Exists
<1>6. GroupAsTold'
  BY <1>2, <1>3 DEF ToldInv, GroupAsTold, Exists
<1>7. ASSUME NEW d \in Callers PROVE DueOK(d)'
  <2>1. CASE d = c
    BY <1>2, <1>3, <1>4, <2>1 DEF DueOK, Writers
  <2>2. CASE d # c
    <3>1. due[d] \subseteq Interfaces
      BY FrameFacts DEF TypeInv
    <3> QED
      BY <1>2, <1>3, <1>4, <2>2, <3>1 DEF ToldInv, DueOK, Exists
  <2> QED
    BY <2>1, <2>2
<1> QED
  BY <1>5, <1>6, <1>7 DEF ToldInv

LEMMA AttachGroupTold ==
  ASSUME TypeInv, ToldInv, NEW c \in Callers, AttachGroup(c)
  PROVE  ToldInv'
<1>1. UNCHANGED <<pc, frameVars>> => ToldInv'
  BY DEF AttachGroup, interfaceVars, userVars, frameVars, ToldInv, GroupAsTold, FreshOK, DueOK,
         Exists
<1>2. SUFFICES ASSUME ~UNCHANGED <<pc, frameVars>> PROVE ToldInv'
  BY <1>1
<1>3. PICK g \in Groups, nics \in SUBSET Interfaces :
         /\ \A n \in nics : status[n] \in Plugged
         /\ todo' = [todo EXCEPT ![c] = nics] /\ due' = [due EXCEPT ![c] = nics]
         /\ want' = [want EXCEPT ![c] = g] /\ op' = [op EXCEPT ![c] = "Attach"]
  BY <1>2, AttachGroupChoice
<1>4. /\ UNCHANGED <<status, group, told>>
      /\ todo'[c] = nics /\ due'[c] = nics
      /\ \A d \in Callers \ {c} : Keeps(d)
  BY <1>3 DEF AttachGroup, interfaceVars, userVars, TypeInv, FrameInv, FrameType, Keeps
<1>5. FreshOK'
  BY <1>3, <1>4 DEF ToldInv, FreshOK, Keeps, Plugged
<1>6. ASSUME NEW d \in Callers PROVE DueOK(d)'
  BY <1>4 DEF ToldInv, DueOK, Keeps, Exists
<1> QED
  BY <1>4, <1>5, <1>6 DEF ToldInv, GroupAsTold, Exists

LEMMA ModifyTold ==
  ASSUME TypeInv, ToldInv, NEW c \in Callers, Modify(c)
  PROVE  ToldInv'
<1>1. PICK n \in todo[c], a \in {"ok", "fail", "lost", "refused"} :
         /\ a \in Answers(Exists(n) /\ gstate[want[c]] = "live")
         /\ IF Applied(a) THEN SetGroup(c, n, want[c]) ELSE UNCHANGED <<group, due>>
         /\ IF Applied(a) THEN ToldAfter(c, n, a = "ok" /\ todo[c] = {n}) ELSE UNCHANGED told
         /\ IF a = "ok" /\ todo[c] # {n}
            THEN todo' = [todo EXCEPT ![c] = @ \ {n}] /\ UNCHANGED <<pc, op, nic, want>>
            ELSE Leave(c)
  BY DEF Modify, Answers
<1>2. UNCHANGED status /\ n \in Interfaces /\ op[c] = "Attach" /\ want[c] \in Groups
  BY FrameFacts DEF Modify, TypeInv, FrameInv, FrameOK
<1>3. \A d \in Callers \ {c} : op'[d] = op[d] /\ want'[d] = want[d] /\ todo'[d] = todo[d]
  BY <1>1 DEF Leave, Goto, TypeInv, FrameInv, FrameType
<1>4. CASE ~Applied(a)
  <2>1. UNCHANGED <<group, due, told>> /\ op'[c] = "none"
    BY <1>1, <1>4 DEF Applied, Leave, TypeInv, FrameInv, FrameType
  <2>2. ASSUME NEW d \in Callers PROVE DueOK(d)'
    BY <1>2, <1>3, <2>1 DEF ToldInv, DueOK, Exists, Writers
  <2> QED
    BY <1>2, <2>1, <2>2 DEF ToldInv, FreshOK, GroupAsTold, Exists
<1>5. CASE Applied(a)
  <2> DEFINE last == a = "ok" /\ todo[c] = {n}
  <2>1. /\ \A m \in Interfaces : group'[m] = IF m = n THEN want[c] ELSE group[m]
        /\ \A d \in Callers : due'[d] = IF d = c THEN due[d] \cup {n} ELSE due[d] \ {n}
    BY <1>1, <1>2, <1>5 DEF SetGroup, TypeInv, TypeOK, InterfaceType
  <2>2. \A m \in Interfaces : told'[m] = IF last /\ m \in due[c] \cup {n} THEN want[c]
                                         ELSE IF ~last /\ m = n THEN None ELSE told[m]
    BY <1>1, <1>5 DEF ToldAfter
  <2>3. status[n] # "none"
    BY <1>1, <1>5 DEF Answers, Applied, Exists
  <2>4. FreshOK'
    <3>1. SUFFICES ASSUME NEW m \in Interfaces, status[m] = "none"
                   PROVE  told'[m] = None /\ \A d \in Callers : m \notin due'[d]
      BY <1>2 DEF FreshOK
    <3>2. m # n /\ told[m] = None /\ \A d \in Callers : m \notin due[d]
      BY <2>3, <3>1 DEF ToldInv, FreshOK
    <3> QED
      BY <2>1, <2>2, <3>1, <3>2
  <2>5. GroupAsTold'
    <3>1. SUFFICES ASSUME NEW m \in Interfaces, told'[m] # None, Exists(m)
                   PROVE  group'[m] = told'[m]
      BY <1>2 DEF GroupAsTold, Exists
    <3>2. CASE last /\ m \in due[c] \ {n}
      <4>1. group[m] = want[c]
        BY <1>2, <3>1, <3>2 DEF ToldInv, DueOK, Writers
      <4> QED
        BY <2>1, <2>2, <3>2, <4>1
    <3>3. CASE m = n
      BY <2>1, <2>2, <3>1, <3>3
    <3>4. CASE m # n /\ ~(last /\ m \in due[c])
      BY <2>1, <2>2, <3>1, <3>4 DEF ToldInv, GroupAsTold
    <3> QED
      BY <3>2, <3>3, <3>4
  <2>6. ASSUME NEW d \in Callers PROVE DueOK(d)'
    <3>1. due[d] \subseteq Interfaces
      BY FrameFacts DEF TypeInv
    <3>2. CASE d # c
      BY <1>2, <1>3, <2>1, <3>1, <3>2 DEF ToldInv, DueOK, Exists
    <3>3. CASE d = c /\ a = "ok" /\ todo[c] # {n}
      <4>1. todo'[c] = todo[c] \ {n} /\ op'[c] = op[c] /\ want'[c] = want[c]
        BY <1>1, <3>3 DEF TypeInv, FrameInv, FrameType
      <4>2. ASSUME NEW m \in due'[c] \ todo'[c], Exists(m) PROVE group'[m] = want[c]
        <5>1. m \in Interfaces /\ (m = n \/ m \in due[c] \ todo[c])
          BY <1>2, <2>1, <3>1, <3>3, <4>1, <4>2
        <5>2. m # n => group[m] = want[c]
          BY <1>2, <4>2, <5>1 DEF ToldInv, DueOK, Writers
        <5> QED
          BY <2>1, <5>1, <5>2
      <4> QED
        BY <1>2, <3>3, <4>1, <4>2 DEF DueOK, Exists
    <3>4. CASE d = c /\ ~(a = "ok" /\ todo[c] # {n})
      BY <1>1, <3>4 DEF Leave, TypeInv, FrameInv, FrameType, DueOK, Writers
    <3> QED
      BY <3>2, <3>3, <3>4
  <2> QED
    BY <2>4, <2>5, <2>6 DEF ToldInv
<1> QED
  BY <1>4, <1>5

LEMMA ToldStep ==
  ASSUME TypeInv, ToldInv, [Next]_vars
  PROVE  ToldInv'
<1>1. ASSUME NEW c \in Callers, CreateInterface(c), UNCHANGED ruleVars PROVE ToldInv'
  BY <1>1, CreateInterfaceTold
<1>2. ASSUME NEW c \in Callers, WaitCreated(c) \/ AttachCreated(c) \/ WaitAttached(c) \/
            DetachCreated(c) \/ Detach(c), UNCHANGED ruleVars
      PROVE  ToldInv'
  BY <1>2, ProceedKeeps, ToldSame DEF WaitCreated, interfaceVars, userVars, AttachCreated,
     WaitAttached, DetachCreated, DetachThen, Detach
<1>3. ASSUME NEW c \in Callers, DeleteCreated(c) \/ Delete(c), UNCHANGED ruleVars PROVE ToldInv'
  BY <1>3, ReturnDrops, ToldSame DEF DeleteCreated, userVars, TypeInv, Delete
<1>4. ASSUME NEW c \in Callers, GetCreated(c), UNCHANGED ruleVars PROVE ToldInv'
  <2>1. Return(c) /\ UNCHANGED interfaceVars /\ (Report(c, due[c]) \/ UNCHANGED told)
    BY <1>4 DEF GetCreated
  <2>2. op[c] = "Create" /\ todo[c] = {}
    BY <1>4 DEF GetCreated, TypeInv, FrameInv, FrameOK, NicCalls, CreateCalls
  <2>3. CASE UNCHANGED told
    BY <2>1, <2>3, ReturnDrops, ToldSame DEF interfaceVars, TypeInv
  <2> QED
    BY <2>1, <2>2, <2>3, ToldReport
<1>5. ASSUME NEW c \in Callers, DeleteInterface(c), UNCHANGED ruleVars PROVE ToldInv'
  <2>1. /\ op' = [op EXCEPT ![c] = "Delete"] /\ UNCHANGED <<want, todo, due>>
        /\ UNCHANGED <<group, told>>
    BY <1>5 DEF DeleteInterface, interfaceVars, userVars
  <2>2. Drops(c) /\ \A d \in Callers \ {c} : Keeps(d)
    BY <2>1 DEF TypeInv, FrameInv, FrameType, Keeps, Drops, Writers
  <2> QED
    BY <2>1, <2>2, ToldSame
<1>6. ASSUME NEW c \in Callers, Describe(c), UNCHANGED ruleVars PROVE ToldInv'
  <2>1. Return(c) \/ \E call \in {"Detach", "Delete"} : Proceed(c, call)
    BY <1>6 DEF Describe
  <2>2. UNCHANGED <<group, told>>
    BY <1>6 DEF Describe, interfaceVars, userVars
  <2> QED
    BY <2>1, <2>2, ProceedKeeps, ReturnDrops, ToldSame DEF TypeInv
<1>7. ASSUME NEW c \in Callers, UpdateGroup(c), UNCHANGED ruleVars PROVE ToldInv'
  BY <1>7, UpdateGroupTold
<1>8. ASSUME NEW c \in Callers, WaitUpdated(c), UNCHANGED ruleVars PROVE ToldInv'
  <2>1. Return(c) /\ UNCHANGED interfaceVars /\ (Report(c, due[c]) \/ UNCHANGED told)
    BY <1>8 DEF WaitUpdated
  <2>2. op[c] = "Update" /\ todo[c] = {}
    BY <1>8 DEF WaitUpdated, TypeInv, FrameInv, FrameOK, NicCalls, CreateCalls
  <2>3. CASE UNCHANGED told
    BY <2>1, <2>3, ReturnDrops, ToldSame DEF interfaceVars, TypeInv
  <2> QED
    BY <2>1, <2>2, <2>3, ToldReport
<1>9. ASSUME NEW c \in Callers, CreateGroup(c) PROVE ToldInv'
  <2>1. UNCHANGED <<group, told>> /\ pc[c] = "idle"
    BY <1>9 DEF CreateGroup, interfaceVars, userVars
  <2>2. \/ Return(c)
        \/ /\ op' = [op EXCEPT ![c] = "CreateGroup"] /\ UNCHANGED <<todo, due>>
           /\ \E g \in Groups : want' = [want EXCEPT ![c] = g]
    BY <1>9 DEF CreateGroup
  <2>3. CASE ~Return(c)
    <3>1. Drops(c) /\ \A d \in Callers \ {c} : Keeps(d)
      BY <2>2, <2>3 DEF TypeInv, FrameInv, FrameType, Keeps, Drops, Writers
    <3> QED
      BY <2>1, <3>1, ToldSame
  <2>4. CASE Return(c)
    BY <2>1, <2>4, ReturnDrops, ToldSame DEF TypeInv
  <2> QED
    BY <2>3, <2>4
<1>10. ASSUME NEW c \in Callers, GetGroup(c) PROVE ToldInv'
  BY <1>10, ReturnDrops, ToldSame DEF GetGroup, interfaceVars, userVars, TypeInv
<1>11. ASSUME NEW c \in Callers, DeleteGroup(c) \/ AddSecurityRule(c) \/ ListRules(c) \/
            RemoveSecurityRule(c)
      PROVE  ToldInv'
  BY <1>11, ToldSame DEF DeleteGroup, frameVars, interfaceVars, userVars, Keeps, AddSecurityRule,
     ListRules, RemoveSecurityRule
<1>12. ASSUME NEW c \in Callers, AttachGroup(c) PROVE ToldInv'
  BY <1>12, AttachGroupTold
<1>13. ASSUME NEW c \in Callers, Modify(c) PROVE ToldInv'
  BY <1>13, ModifyTold
<1>14. CASE Background /\ UNCHANGED ruleVars
  BY <1>14, ToldSame DEF Background, FinishAttach, FinishDetach, frameVars, userVars, Keeps
<1>15. CASE UNCHANGED vars
  BY <1>15, ToldSame DEF vars, frameVars, interfaceVars, userVars, Keeps
<1> QED
  BY <1>1, <1>2, <1>3, <1>4, <1>5, <1>6, <1>7, <1>8, <1>9, <1>10, <1>11, <1>12, <1>13, <1>14,
     <1>15 DEF Next, InterfaceNext, GroupNext

LEMMA ToldInit == Init => ToldInv
BY DEF Init, InterfaceInit, ToldInv, GroupAsTold, FreshOK, DueOK, Writers

-----------------------------------------------------------------------------
\* Rules and the groups that hold them

IdOK(i) == /\ i.id = i.rule \/ i.id = IdOfAdded(i.rule)
           /\ i.id.cidr # NoCidr => Listed(i.id)

RuleInv == OnlyOpenRulesStray /\ RemovedOrSwapped /\ \A i \in ids : IdOK(i)

\* A rule that goes away is the one of the identifier, and is listed, or is open to all.
LEMMA RevokedRule ==
  ASSUME RuleType, RuleInv, NEW i \in ids
  PROVE  \/ Revoked(i.id) = i.rule /\ Listed(i.rule)
         \/ Revoked(i.id) = [i.rule EXCEPT !.cidr = AnyCidr]
<1>1. i.id \in Ids /\ i.rule \in Rules /\ IdOK(i)
  BY DEF RuleType, RuleInv
<1>2. CASE i.id = i.rule
  BY <1>1, <1>2, CidrAssumption DEF IdOK, Revoked, Rules
<1>3. CASE i.id = IdOfAdded(i.rule)
  BY <1>1, <1>3 DEF IdOfAdded, Revoked, Rules
<1> QED
  BY <1>1, <1>2, <1>3 DEF IdOK

LEMMA RuleInvStep ==
  ASSUME TypeInv, RuleInv, [Next]_vars
  PROVE  RuleInv'
<1> USE DEF TypeInv, TypeOK, RuleType, RuleInv, OnlyOpenRulesStray, RemovedOrSwapped, ruleVars
<1>1. ASSUME NEW c \in Callers, InterfaceNext(c), UNCHANGED ruleVars PROVE RuleInv'
  BY <1>1
<1>2. ASSUME NEW c \in Callers, CreateGroup(c) \/ GetGroup(c) \/ DeleteGroup(c) \/ AttachGroup(c)
            \/ Modify(c)
      PROVE  RuleInv'
  BY <1>2 DEF CreateGroup, GetGroup, DeleteGroup, AttachGroup, Modify
<1>3. ASSUME NEW c \in Callers, AddSecurityRule(c) \/ ListRules(c) PROVE RuleInv'
  BY <1>3 DEF AddSecurityRule, IdOK, IdOfAdded, Rules, ListRules
<1>4. ASSUME NEW c \in Callers, RemoveSecurityRule(c) PROVE RuleInv'
  <2>1. PICK i \in ids, a \in {"ok", "lost"} :
              /\ rules' = rules \ {Revoked(i.id)}
              /\ removed' = IF a = "ok" THEN removed \cup {i.rule} ELSE removed
              /\ strayed' = IF i.rule = Revoked(i.id) THEN strayed ELSE strayed \cup {Revoked(i.id)}
    BY <1>4 DEF RemoveSecurityRule
  <2>2. i.rule = Revoked(i.id) \/ Revoked(i.id) = [i.rule EXCEPT !.cidr = AnyCidr]
    BY RevokedRule DEF TypeInv, TypeOK
  <2>3. i.rule \in Rules /\ UNCHANGED ids
    BY <1>4 DEF RemoveSecurityRule
  <2>4. OnlyOpenRulesStray'
    BY <2>1, <2>2, <2>3 DEF OnlyOpenRulesStray, Rules
  <2>5. RemovedOrSwapped'
    BY <2>1, <2>2 DEF RemovedOrSwapped
  <2> QED
    BY <2>3, <2>4, <2>5
<1>5. CASE Background /\ UNCHANGED ruleVars
  BY <1>5
<1>6. CASE UNCHANGED vars
  BY <1>6 DEF vars
<1> QED
  BY <1>1, <1>2, <1>3, <1>4, <1>5, <1>6 DEF Next, InterfaceNext, GroupNext

\* What a step does to a group of EC2
GroupMoves(g) ==
  /\ g \in knownGroups => g \in knownGroups'
  /\ gstate'[g] = "live" /\ gstate[g] # "live" =>
       \/ "CreateGroup" \in hit'[g]
       \/ \E c \in Callers : pc'[c] = "GetGroup" /\ want'[c] = g

LEMMA CreateGroupCharged ==
  ASSUME FaultType, NEW g \in Groups, NEW a, Charge(a, g, "CreateGroup"), a = "lost"
  PROVE  "CreateGroup" \in hit'[g]
<1>1. "CreateGroup" \in Causes /\ g \in Interfaces \cup Groups
  BY DEF Causes
<1> QED
  BY <1>1, ChargeFacts

LEMMA GroupStep ==
  ASSUME TypeInv, [Next]_vars, NEW g \in Groups
  PROVE  GroupMoves(g)
<1> USE DEF TypeInv, TypeOK, GroupMoves
<1>1. ASSUME NEW c \in Callers, CreateInterface(c) \/ WaitCreated(c) \/ AttachCreated(c) \/
            WaitAttached(c) \/ DetachCreated(c), UNCHANGED ruleVars
      PROVE  GroupMoves(g)
  BY <1>1 DEF CreateInterface, WaitCreated, AttachCreated, WaitAttached, DetachCreated, DetachThen
<1>2. ASSUME NEW c \in Callers, DeleteCreated(c) \/ GetCreated(c) \/ DeleteInterface(c) \/
            Describe(c) \/ Detach(c), UNCHANGED ruleVars
      PROVE  GroupMoves(g)
  BY <1>2 DEF DeleteCreated, GetCreated, DeleteInterface, Describe, Detach, DetachThen
<1>3. ASSUME NEW c \in Callers, Delete(c) \/ UpdateGroup(c) \/ WaitUpdated(c), UNCHANGED ruleVars
      PROVE  GroupMoves(g)
  BY <1>3 DEF Delete, UpdateGroup, WaitUpdated
<1>4. ASSUME NEW c \in Callers, CreateGroup(c) PROVE GroupMoves(g)
  <2>1. PICK h \in Groups, a \in {"ok", "lost"} :
              /\ gstate' = [gstate EXCEPT ![h] = "live"] /\ Charge(a, h, "CreateGroup")
              /\ a = "ok" => Goto(c, "GetGroup") /\ want' = [want EXCEPT ![c] = h]
    BY <1>4 DEF CreateGroup
  <2>2. "CreateGroup" \in hit'[h] \/ (pc'[c] = "GetGroup" /\ want'[c] = h)
    <3>1. CASE a = "ok"
      BY <2>1, <3>1 DEF Goto, FrameInv, FrameType
    <3>2. CASE a = "lost"
      BY <2>1, <3>2, CreateGroupCharged
    <3> QED
      BY <2>1, <3>1, <3>2
  <2>3. UNCHANGED knownGroups /\ \A x \in Groups : x # h => gstate'[x] = gstate[x]
    BY <1>4, <2>1 DEF CreateGroup, InterfaceType
  <2> QED
    BY <2>2, <2>3
<1>5. ASSUME NEW c \in Callers, GetGroup(c) \/ DeleteGroup(c) \/ AttachGroup(c) \/ Modify(c) \/
            AddSecurityRule(c)
      PROVE  GroupMoves(g)
  BY <1>5 DEF GetGroup, DeleteGroup, InterfaceType, AttachGroup, Modify, AddSecurityRule
<1>6. ASSUME NEW c \in Callers, ListRules(c) \/ RemoveSecurityRule(c) PROVE GroupMoves(g)
  BY <1>6 DEF ListRules, RemoveSecurityRule
<1>7. CASE Background /\ UNCHANGED ruleVars
  BY <1>7 DEF Background, FinishAttach, FinishDetach
<1>8. CASE UNCHANGED vars
  BY <1>8 DEF vars
<1> QED
  BY <1>1, <1>2, <1>3, <1>4, <1>5, <1>6, <1>7, <1>8 DEF Next, InterfaceNext, GroupNext

LEMMA PendingStep ==
  ASSUME TypeInv, WorkInv, [Next]_vars, NEW c \in Callers, pc[c] = "GetGroup"
  PROVE  \/ pc'[c] = pc[c] /\ want'[c] = want[c]
         \/ want[c] \in knownGroups' \/ "GetGroup" \in hit'[want[c]]
<1>1. CASE GetGroup(c)
  BY <1>1, FrameFacts, NoteFacts DEF GetGroup, Causes, GroupCalls, TypeInv, TypeOK
<1>2. ASSUME NEW d \in Callers, InterfaceNext(d) \/ GroupNext(d), d # c
      PROVE  Stays(c)
  BY <1>2, CallerWorks
<1>3. CASE InterfaceNext(c) \/ GroupNext(c)
  <2>1. GetGroup(c)
    BY <1>3 DEF InterfaceNext, GroupNext, CreateInterface, WaitCreated, AttachCreated,
           WaitAttached, DetachCreated, DeleteCreated, GetCreated, DeleteInterface, Describe,
           Detach, DetachThen, Delete, UpdateGroup, WaitUpdated, CreateGroup, DeleteGroup,
           AttachGroup, Modify, AddSecurityRule, ListRules, RemoveSecurityRule
  <2> QED
    BY <1>1, <2>1
<1>4. CASE UNCHANGED <<pc, want>>
  BY <1>4
<1> QED
  BY <1>2, <1>3, <1>4 DEF Next, Background, vars, frameVars, Stays

GroupsAccounted == \A g \in Groups : GroupAccounted(g)

LEMMA GroupsStep ==
  ASSUME TypeInv, WorkInv, GroupsAccounted, [Next]_vars
  PROVE  GroupsAccounted'
<1>1. SUFFICES ASSUME NEW g \in Groups PROVE GroupAccounted(g)'
  BY DEF GroupsAccounted
<1>2. GroupMoves(g) /\ hit[g] \subseteq hit'[g]
  BY GroupStep, FaultStep DEF HitGrows
<1>3. ASSUME NEW c \in Callers, pc[c] = "GetGroup", want[c] = g
      PROVE  \/ pc'[c] = "GetGroup" /\ want'[c] = g
             \/ g \in knownGroups' \/ "GetGroup" \in hit'[g]
  BY <1>3, PendingStep
<1> QED
  BY <1>2, <1>3 DEF GroupMoves, GroupsAccounted, GroupAccounted

-----------------------------------------------------------------------------
IInv == TypeInv /\ WorkInv /\ ToldInv /\ RuleInv /\ LeaksExplained /\ ClearedExplained

LEMMA IInvInit == Init => IInv
<1>1. Init => RuleInv /\ LeaksExplained /\ ClearedExplained
  BY LaunchedAssumption, DefaultAssumption
     DEF Init, InterfaceInit, RuleInv, OnlyOpenRulesStray, RemovedOrSwapped, LeaksExplained,
         InterfaceAccounted, GroupAccounted, Exists, ClearedExplained
<1> QED
  BY <1>1, TypeInit, WorkInit, ToldInit DEF IInv

LEMMA IInvStep == IInv /\ [Next]_vars => IInv'
<1>1. SUFFICES ASSUME IInv, [Next]_vars PROVE IInv'
  OBVIOUS
<1>2. LeaksExplained'
  BY <1>1, InterfacesAccounted, GroupsStep DEF IInv, LeaksExplained, GroupsAccounted
<1> QED
  BY <1>1, <1>2, TypeStep, WorkStep, ToldStep, RuleInvStep, ClearedStep DEF IInv

\* An interface or a group that no user knows and nobody is making was left by a fault, or by an
\* undo that EC2 refused while it was still detaching (Create of interfaces and of groups).
THEOREM LeaksHaveCauses == Spec => []LeaksExplained
<1>1. IInv => LeaksExplained
  BY DEF IInv
<1> QED
  BY <1>1, IInvInit, IInvStep, PTL DEF Spec

\* An interface whose Delete said nil is gone, unless a fault, a detachment under way or its
\* server was in the way, or its creator attached it after Delete had looked at it.
THEOREM ClearedHaveCauses == Spec => []ClearedExplained
<1>1. IInv => ClearedExplained
  BY DEF IInv
<1> QED
  BY <1>1, IInvInit, IInvStep, PTL DEF Spec

\* What Create, Update and Attach said last of the group of an interface is the group it has.
THEOREM GroupsAsTold == Spec => []GroupAsTold
<1>1. IInv => GroupAsTold
  BY DEF IInv, ToldInv
<1> QED
  BY <1>1, IInvInit, IInvStep, PTL DEF Spec

\* No rule but an open one goes away when the removal of another is asked for.
THEOREM OpenRulesStray == Spec => []OnlyOpenRulesStray
<1>1. IInv => OnlyOpenRulesStray
  BY DEF IInv, RuleInv
<1> QED
  BY <1>1, IInvInit, IInvStep, PTL DEF Spec

\* A rule that is still there after its removal was reported as done was swapped for the open one.
THEOREM RemovedAreSwapped == Spec => []RemovedOrSwapped
<1>1. IInv => RemovedOrSwapped
  BY DEF IInv, RuleInv
<1> QED
  BY <1>1, IInvInit, IInvStep, PTL DEF Spec

=============================================================================

-------------------------- MODULE AwsServer_proofs --------------------------
(***************************************************************************)
(* Proofs about AwsServer: types, temporary key pairs, instances that are  *)
(* left behind, servers that are complete, and deletions that end them.    *)
(***************************************************************************)
EXTENDS AwsServer, TLAPS

-----------------------------------------------------------------------------
\* The frame of a caller

Starting   == {"ImportKey", "RunInstances", "RequestSpot", "WaitSpot", "CancelSpot", "DescribeSpot",
               "FindOffering", "Purchase"}
Completing == {"TagInstance", "ModifyGroups", "WaitGroups", "WaitStatusAgain", "GetInstance"}
Ending     == {"ListAddresses", "GetAddress", "Disassociate", "Terminate"}

FrameOK(c) ==
  /\ pc[c] = "idle" => call[c] = None /\ cur[c] = None
  /\ pc[c] \in CreateCalls => call[c] \in Keys
  /\ pc[c] \in Starting => cur[c] = None
  /\ pc[c] \in Completing => cur[c] \in Instances
  /\ pc[c] \in DeleteCalls /\ call[c] = None => cur[c] \in doomed
  /\ pc[c] \in AddressCalls => call[c] = None /\ cur[c] \in known
  /\ pc[c] \in AddressCalls \cup {"Disassociate"} => seen[c] \in Addresses \X (Instances \cup {None})

FrameInv == \A c \in Callers : FrameOK(c)

TypeInv == TypeOK /\ FrameInv

Acts(c) == Create(c) \/ Delete(c) \/ Stop(c) \/ Start(c) \/ Associate(c) \/ Continue(c)

\* A step of caller c leaves the frames of the others alone.
Others(c) ==
  \A d \in Callers \ {c} :
    pc'[d] = pc[d] /\ call'[d] = call[d] /\ cur'[d] = cur[d] /\ seen'[d] = seen[d]

LEMMA ChargeFacts ==
  ASSUME TypeOK, NEW a, NEW k, NEW cause \in Causes, Charge(a, k, cause)
  PROVE  /\ faults' \in 0 .. MaxFaults /\ hit' \in [Keys -> SUBSET Causes]
         /\ \A l \in Keys : hit[l] \subseteq hit'[l]
         /\ k \in Keys /\ a \in {"fail", "lost"} => cause \in hit'[k]
BY MaxFaultsAssumption DEF Charge, Note, TypeOK, faultVars

LEMMA NoteFacts ==
  ASSUME TypeOK, NEW k, NEW cause \in Causes, Note(k, cause)
  PROVE  /\ hit' \in [Keys -> SUBSET Causes]
         /\ \A l \in Keys : hit[l] \subseteq hit'[l]
         /\ k \in Keys => cause \in hit'[k]
BY DEF Note, TypeOK

LEMMA OwnFrame ==
  ASSUME TypeInv, NEW c \in Callers, Acts(c)
  PROVE  Others(c) /\ FrameOK(c)'
<1> USE DEF TypeInv, TypeOK, FrameInv, FrameOK, CreateCalls, DeleteCalls, AddressCalls,
   EC2Calls, Starting, Others, frameVars, deleteVars, userVars, marketVars, keyVars,
   instanceVars, faultVars
<1>1. CASE Create(c) \/ ImportKey(c)
  BY <1>1, NoneAssumption DEF Create, Goto, ImportKey, Proceed, Fail, ReturnFromCreate,
     Completing, Answers, ReadAnswers, Applied
<1>2. CASE RunInstances(c)
  BY <1>2, NoneAssumption DEF RunInstances, Launch, Goto, Fail, ReturnFromCreate, Completing,
     Answers, ReadAnswers, Applied
<1>3. CASE RequestSpot(c) \/ WaitSpot(c) \/ CancelSpot(c)
  BY <1>3, NoneAssumption DEF RequestSpot, Goto, Proceed, Fail, ReturnFromCreate, WaitSpot,
     CancelSpot, Completing, Answers, ReadAnswers, Applied
<1>4. CASE DescribeSpot(c) \/ FindOffering(c) \/ Purchase(c)
  BY <1>4, NoneAssumption DEF DescribeSpot, Goto, Fail, ReturnFromCreate, FindOffering, Proceed,
     Purchase, Completing, Answers, ReadAnswers, Applied
<1>5. CASE WaitStatus(c) \/ WaitGroups(c) \/ WaitStatusAgain(c)
  BY <1>5, NoneAssumption DEF WaitStatus, WaitOk, Rollback, Goto, Proceed, WaitGroups,
     WaitStatusAgain, Completing, Answers, ReadAnswers, Applied
<1>6. CASE TagInstance(c) \/ ModifyGroups(c)
  BY <1>6, NoneAssumption DEF TagInstance, Rollback, Goto, Proceed, ModifyGroups, IsUp,
     Completing, Answers, ReadAnswers, Applied
<1>7. CASE GetInstance(c) \/ DeleteKey(c)
  BY <1>7, NoneAssumption DEF GetInstance, Goto, Fail, ReturnFromCreate, DeleteKey, Completing,
     Answers, ReadAnswers, Applied
<1>8. CASE Delete(c)
  BY <1>8, NoneAssumption DEF Delete, Goto, Completing, Answers, ReadAnswers, Applied
<1>9. CASE ListAddresses(c)
  BY <1>9, NoneAssumption DEF ListAddresses, ReturnFromDelete, Goto, Fail, ReturnFromCreate,
     Completing, Answers, ReadAnswers, Applied
<1>10. CASE GetAddress(c)
  BY <1>10, NoneAssumption DEF GetAddress, Skip, Goto, Completing, Answers, ReadAnswers, Applied
<1>11. CASE Disassociate(c)
  BY <1>11, NoneAssumption DEF Disassociate, Skip, Goto, Completing, Answers, ReadAnswers,
     Applied
<1>12. CASE Terminate(c)
  BY <1>12, NoneAssumption DEF Terminate, Goto, Proceed, IsUp, Completing, Answers, ReadAnswers,
     Applied
<1>13. CASE WaitTerminated(c)
  BY <1>13, NoneAssumption DEF WaitTerminated, ReturnFromDelete, Goto, Fail, ReturnFromCreate,
     Completing, Answers, ReadAnswers, Applied
<1>14. CASE Stop(c) \/ Start(c)
  BY <1>14, NoneAssumption DEF Stop, Switch, Start, Completing, Answers, ReadAnswers, Applied
<1>15. CASE Associate(c)
  BY <1>15, NoneAssumption DEF Associate, Goto, Completing, Answers, ReadAnswers, Applied
<1>16. CASE FindInterface(c)
  BY <1>16, NoneAssumption DEF FindInterface, ReturnFromAssociate, Goto, Proceed, IsUp,
     Completing, Answers, ReadAnswers, Applied
<1>17. CASE AssociateAddress(c)
  BY <1>17, NoneAssumption DEF AssociateAddress, ReturnFromAssociate, Goto, IsUp, Completing,
     Answers, ReadAnswers, Applied
<1> QED
  BY <1>1, <1>2, <1>3, <1>4, <1>5, <1>6, <1>7, <1>8, <1>9, <1>10, <1>11, <1>12, <1>13, <1>14,
     <1>15, <1>16, <1>17 DEF Acts, Continue

\* What is drawn, told, asked for or set is not taken back.
Grows ==
  /\ used \subseteq used' /\ known \subseteq known' /\ doomed \subseteq doomed'
  /\ tagged \subseteq tagged' /\ grouped \subseteq grouped'

LEMMA GrowStep ==
  ASSUME TypeInv, [Next]_vars
  PROVE  Grows
<1> USE DEF Grows, userVars, keyVars, instanceVars
<1>1. ASSUME NEW c \in Callers, Create(c) \/ ImportKey(c) \/ RunInstances(c) \/ RequestSpot(c)
      PROVE  Grows
  BY <1>1 DEF Create, Goto, ImportKey, Proceed, Fail, ReturnFromCreate, RunInstances, Launch,
     RequestSpot
<1>2. ASSUME NEW c \in Callers, WaitSpot(c) \/ CancelSpot(c) \/ DescribeSpot(c) \/
                  FindOffering(c) \/ Purchase(c)
      PROVE  Grows
  BY <1>2 DEF WaitSpot, Goto, Proceed, CancelSpot, Fail, ReturnFromCreate, DescribeSpot,
     FindOffering, Purchase
<1>3. ASSUME NEW c \in Callers, WaitStatus(c) \/ WaitGroups(c) \/ WaitStatusAgain(c) \/
                  TagInstance(c) \/ ModifyGroups(c) \/ GetInstance(c)
      PROVE  Grows
  BY <1>3 DEF WaitStatus, WaitOk, Rollback, Goto, Proceed, WaitGroups, WaitStatusAgain,
     TagInstance, ModifyGroups, IsUp, GetInstance, Fail, ReturnFromCreate
<1>4. ASSUME NEW c \in Callers, DeleteKey(c) \/ Delete(c) \/ ListAddresses(c) \/ GetAddress(c)
      PROVE  Grows
  BY <1>4 DEF DeleteKey, Goto, Delete, ListAddresses, ReturnFromDelete, Fail, ReturnFromCreate,
     GetAddress, Skip
<1>5. ASSUME NEW c \in Callers, Disassociate(c) \/ Terminate(c) \/ WaitTerminated(c) PROVE Grows
  BY <1>5 DEF Disassociate, Skip, Goto, Terminate, Proceed, IsUp, WaitTerminated,
     ReturnFromDelete, Fail, ReturnFromCreate
<1>6. ASSUME NEW c \in Callers, Stop(c) \/ Start(c) \/ Associate(c) \/ FindInterface(c) \/
                  AssociateAddress(c)
      PROVE  Grows
  BY <1>6 DEF Stop, Switch, Start, Associate, Goto, FindInterface, ReturnFromAssociate, Proceed,
     IsUp, AssociateAddress
<1>7. ASSUME NEW j \in Instances, Boot(j) \/ Expire(j) \/ Reclaim(j) PROVE Grows
  BY <1>7 DEF Boot, EC2Only, Expire, Reclaim
<1>8. ASSUME NEW k \in Keys, NEW j \in Instances, Fill(k, j) PROVE Grows
  BY <1>8 DEF Fill, Launch, EC2Only
<1>9. CASE UNCHANGED vars
  BY <1>9 DEF vars
<1> QED
  BY <1>1, <1>2, <1>3, <1>4, <1>5, <1>6, <1>7, <1>8, <1>9 DEF Next, Continue, EC2

LEMMA FrameStep ==
  ASSUME TypeInv, [Next]_vars
  PROVE  FrameInv'
<1>1. ASSUME NEW c \in Callers, Acts(c) PROVE FrameInv'
  BY <1>1, OwnFrame, GrowStep DEF Grows, TypeInv, FrameInv, FrameOK, Others
<1>2. CASE EC2
  BY <1>2 DEF EC2, Boot, Expire, Reclaim, Fill, EC2Only, TypeInv, FrameInv, FrameOK, frameVars,
     deleteVars, userVars
<1>3. CASE UNCHANGED vars
  BY <1>3 DEF vars, TypeInv, FrameInv, FrameOK, frameVars, deleteVars, userVars
<1> QED
  BY <1>1, <1>2, <1>3 DEF Next, Acts

CloudType ==
  /\ keys \in SUBSET Keys /\ used \in SUBSET Keys
  /\ inst \in [Instances -> Up \cup {"none", "shutting-down", "terminated"}]
  /\ made \in [Instances -> Keys \cup {None}]
  /\ tagged \in SUBSET Instances /\ grouped \in SUBSET Instances
  /\ request \in [Keys -> {"none", "open", "filled", "cancelled"}]
  /\ filled \in [Keys -> Instances \cup {None}]
  /\ bought \in SUBSET Keys
  /\ addrOf \in [Addresses -> Instances \cup {None}]

CallerType ==
  /\ pc \in [Callers -> EC2Calls \cup {"idle"}]
  /\ call \in [Callers -> Keys \cup {None}]
  /\ cur \in [Callers -> Instances \cup {None}]
  /\ todo \in [Callers -> SUBSET Addresses]
  /\ seen \in [Callers -> (Addresses \X (Instances \cup {None})) \cup {None}]
  /\ known \in SUBSET Instances /\ doomed \in SUBSET Instances /\ robbed \in SUBSET Instances

FaultType == faults \in 0 .. MaxFaults /\ hit \in [Keys -> SUBSET Causes]

LEMMA CloudStep ==
  ASSUME TypeInv, [Next]_vars
  PROVE  CloudType'
<1> USE DEF TypeInv, TypeOK, FrameInv, FrameOK, CloudType, CreateCalls, Starting, Completing,
   Up, frameVars, deleteVars, userVars, marketVars, keyVars, instanceVars, faultVars
<1>1. ASSUME NEW c \in Callers, Create(c) \/ ImportKey(c) PROVE CloudType'
  BY <1>1 DEF Create, Goto, ImportKey, Proceed, Fail, ReturnFromCreate, Answers, Applied
<1>2. ASSUME NEW c \in Callers, RunInstances(c) PROVE CloudType'
  BY <1>2 DEF RunInstances, Launch, Goto, Fail, ReturnFromCreate, Answers, Applied
<1>3. ASSUME NEW c \in Callers, RequestSpot(c) \/ WaitSpot(c) \/ CancelSpot(c) PROVE CloudType'
  BY <1>3 DEF RequestSpot, Goto, Proceed, Fail, ReturnFromCreate, WaitSpot, CancelSpot, Answers,
     Applied
<1>4. ASSUME NEW c \in Callers, DescribeSpot(c) \/ FindOffering(c) \/ Purchase(c)
      PROVE  CloudType'
  BY <1>4 DEF DescribeSpot, Goto, Fail, ReturnFromCreate, FindOffering, Proceed, Purchase,
     Answers, Applied
<1>5. ASSUME NEW c \in Callers, WaitStatus(c) \/ WaitGroups(c) \/ WaitStatusAgain(c)
      PROVE  CloudType'
  BY <1>5 DEF WaitStatus, WaitOk, Rollback, Goto, Proceed, WaitGroups, WaitStatusAgain, Answers,
     Applied
<1>6. ASSUME NEW c \in Callers, TagInstance(c) \/ ModifyGroups(c) PROVE CloudType'
  BY <1>6 DEF TagInstance, Rollback, Goto, Proceed, ModifyGroups, IsUp, Answers, Applied
<1>7. ASSUME NEW c \in Callers, GetInstance(c) \/ DeleteKey(c) \/ Delete(c) PROVE CloudType'
  BY <1>7 DEF GetInstance, Goto, Fail, ReturnFromCreate, DeleteKey, Delete, Answers, Applied
<1>8. ASSUME NEW c \in Callers, ListAddresses(c) \/ GetAddress(c) PROVE CloudType'
  BY <1>8 DEF ListAddresses, ReturnFromDelete, Goto, Fail, ReturnFromCreate, GetAddress, Skip,
     Answers, Applied
<1>9. ASSUME NEW c \in Callers, Disassociate(c) PROVE CloudType'
  BY <1>9 DEF Disassociate, Skip, Goto, Answers, Applied
<1>10. ASSUME NEW c \in Callers, Terminate(c) PROVE CloudType'
  BY <1>10 DEF Terminate, Goto, Proceed, IsUp, Answers, Applied
<1>11. ASSUME NEW c \in Callers, WaitTerminated(c) \/ Associate(c) \/ FindInterface(c)
      PROVE  CloudType'
  BY <1>11 DEF WaitTerminated, ReturnFromDelete, Goto, Fail, ReturnFromCreate, Associate,
     FindInterface, ReturnFromAssociate, Proceed, IsUp, Answers, Applied
<1>12. ASSUME NEW c \in Callers, Stop(c) \/ Start(c) PROVE CloudType'
  BY <1>12 DEF Stop, Switch, Start, Answers, Applied
<1>13. ASSUME NEW c \in Callers, AssociateAddress(c) PROVE CloudType'
  BY <1>13 DEF AssociateAddress, ReturnFromAssociate, Goto, IsUp, AddressCalls
<1>14. ASSUME NEW j \in Instances, Boot(j) PROVE CloudType'
  BY <1>14 DEF Boot, EC2Only
<1>15. ASSUME NEW j \in Instances, Expire(j) PROVE CloudType'
  BY <1>15 DEF Expire, EC2Only
<1>16. ASSUME NEW j \in Instances, Reclaim(j) PROVE CloudType'
  BY <1>16 DEF Reclaim, EC2Only
<1>17. ASSUME NEW k \in Keys, NEW j \in Instances, Fill(k, j) PROVE CloudType'
  BY <1>17 DEF Fill, Launch, EC2Only
<1>18. CASE UNCHANGED vars
  BY <1>18 DEF vars
<1> QED
  BY <1>1, <1>2, <1>3, <1>4, <1>5, <1>6, <1>7, <1>8, <1>9, <1>10, <1>11, <1>12, <1>13, <1>14,
     <1>15, <1>16, <1>17, <1>18 DEF Next, Continue, EC2

LEMMA CallerStep ==
  ASSUME TypeInv, [Next]_vars
  PROVE  CallerType'
<1> USE DEF TypeInv, TypeOK, CallerType, CreateCalls, DeleteCalls, AddressCalls, EC2Calls,
   frameVars, deleteVars, userVars, marketVars, keyVars, instanceVars, faultVars
<1>1. ASSUME NEW c \in Callers, Create(c) PROVE CallerType'
  BY <1>1 DEF Create, Goto
<1>2. ASSUME NEW c \in Callers, ImportKey(c) PROVE CallerType'
  BY <1>2 DEF ImportKey, Goto, Proceed, Fail, ReturnFromCreate
<1>3. ASSUME NEW c \in Callers, RunInstances(c) PROVE CallerType'
  BY <1>3 DEF RunInstances, Launch, Goto, Fail, ReturnFromCreate
<1>4. ASSUME NEW c \in Callers, RequestSpot(c) \/ WaitSpot(c) PROVE CallerType'
  BY <1>4 DEF RequestSpot, Goto, Proceed, Fail, ReturnFromCreate, WaitSpot
<1>5. ASSUME NEW c \in Callers, CancelSpot(c) PROVE CallerType'
  BY <1>5 DEF CancelSpot, Goto, Fail, ReturnFromCreate
<1>6. ASSUME NEW c \in Callers, DescribeSpot(c) PROVE CallerType'
  <2>1. call[c] \in Keys /\ filled[call[c]] \in Instances \cup {None}
    BY <1>6 DEF DescribeSpot, FrameInv, FrameOK
  <2> QED
    BY <1>6, <2>1 DEF DescribeSpot, Goto, Fail, ReturnFromCreate
<1>7. ASSUME NEW c \in Callers, FindOffering(c) \/ Purchase(c) PROVE CallerType'
  BY <1>7 DEF FindOffering, Goto, Proceed, Fail, ReturnFromCreate, Purchase
<1>8. ASSUME NEW c \in Callers, WaitStatus(c) \/ WaitGroups(c) \/ WaitStatusAgain(c)
      PROVE  CallerType'
  BY <1>8 DEF WaitStatus, WaitOk, Rollback, Goto, Proceed, WaitGroups, WaitStatusAgain
<1>9. ASSUME NEW c \in Callers, TagInstance(c) \/ ModifyGroups(c) PROVE CallerType'
  BY <1>9 DEF TagInstance, Rollback, Goto, Proceed, ModifyGroups, IsUp
<1>10. ASSUME NEW c \in Callers, GetInstance(c) PROVE CallerType'
  BY <1>10 DEF GetInstance, Goto, Fail, ReturnFromCreate
<1>11. ASSUME NEW c \in Callers, DeleteKey(c) PROVE CallerType'
  BY <1>11 DEF DeleteKey, Goto
<1>12. ASSUME NEW c \in Callers, Delete(c) PROVE CallerType'
  BY <1>12 DEF Delete, Goto
<1>13. ASSUME NEW c \in Callers, ListAddresses(c) PROVE CallerType'
  BY <1>13 DEF ListAddresses, ReturnFromDelete, Goto, Fail, ReturnFromCreate
<1>14. ASSUME NEW c \in Callers, GetAddress(c) PROVE CallerType'
  BY <1>14 DEF GetAddress, Skip, Goto
<1>15. ASSUME NEW c \in Callers, Disassociate(c) PROVE CallerType'
  <2>1. seen[c] \in Addresses \X (Instances \cup {None})
    BY <1>15 DEF Disassociate, FrameInv, FrameOK
  <2> QED
    BY <1>15, <2>1 DEF Disassociate, Skip, Goto, Answers, Applied
<1>16. ASSUME NEW c \in Callers, Terminate(c) PROVE CallerType'
  BY <1>16 DEF Terminate, Goto, Proceed, IsUp
<1>17. ASSUME NEW c \in Callers, WaitTerminated(c) PROVE CallerType'
  BY <1>17 DEF WaitTerminated, ReturnFromDelete, Goto, Fail, ReturnFromCreate
<1>18. ASSUME NEW c \in Callers, Stop(c) \/ Start(c) PROVE CallerType'
  BY <1>18 DEF Stop, Switch, Start
<1>19. ASSUME NEW c \in Callers, Associate(c) PROVE CallerType'
  BY <1>19 DEF Associate, Goto
<1>20. ASSUME NEW c \in Callers, FindInterface(c) PROVE CallerType'
  BY <1>20 DEF FindInterface, ReturnFromAssociate, Goto, Proceed, IsUp
<1>21. ASSUME NEW c \in Callers, AssociateAddress(c) PROVE CallerType'
  BY <1>21 DEF AssociateAddress, ReturnFromAssociate, Goto, IsUp
<1>22. ASSUME NEW j \in Instances, Boot(j) \/ Expire(j) \/ Reclaim(j) PROVE CallerType'
  BY <1>22 DEF Boot, EC2Only, Expire, Reclaim
<1>23. ASSUME NEW k \in Keys, NEW j \in Instances, Fill(k, j) PROVE CallerType'
  BY <1>23 DEF Fill, Launch, EC2Only
<1>24. CASE UNCHANGED vars
  BY <1>24 DEF vars
<1> QED
  BY <1>1, <1>2, <1>3, <1>4, <1>5, <1>6, <1>7, <1>8, <1>9, <1>10, <1>11, <1>12, <1>13, <1>14,
     <1>15, <1>16, <1>17, <1>18, <1>19, <1>20, <1>21, <1>22, <1>23, <1>24 DEF Next, Continue, EC2

\* What a step does to the faults: nothing, or it notes a cause for one call of Create.
Hits ==
  \/ UNCHANGED faultVars
  \/ /\ \E cause \in Causes : \E k : Note(k, cause)
     /\ faults' \in 0 .. MaxFaults

LEMMA ChargeHits ==
  ASSUME TypeOK, NEW a, NEW k, NEW cause \in Causes, Charge(a, k, cause)
  PROVE  Hits
BY MaxFaultsAssumption DEF Charge, Hits, TypeOK

LEMMA NoteHits ==
  ASSUME TypeOK, NEW k, NEW cause \in Causes, Note(k, cause), UNCHANGED faults
  PROVE  Hits
BY DEF Hits, TypeOK

LEMMA HitsStep ==
  ASSUME TypeInv, [Next]_vars
  PROVE  Hits
<1>1. ASSUME NEW c \in Callers, Create(c) PROVE Hits
  BY <1>1 DEF Create, Hits
<1>2. ASSUME NEW c \in Callers, ImportKey(c) PROVE Hits
  <2>1. PICK a, k : Charge(a, k, "ImportKey")
    BY <1>2 DEF ImportKey
  <2>2. "ImportKey" \in Causes
    BY DEF Causes, EC2Calls, CreateCalls, DeleteCalls, AddressCalls
  <2> QED
    BY <2>1, <2>2, ChargeHits DEF TypeInv
<1>3. ASSUME NEW c \in Callers, RunInstances(c) PROVE Hits
  <2>1. PICK a, k : Charge(a, k, "RunInstances")
    BY <1>3 DEF RunInstances
  <2>2. "RunInstances" \in Causes
    BY DEF Causes, EC2Calls, CreateCalls, DeleteCalls, AddressCalls
  <2> QED
    BY <2>1, <2>2, ChargeHits DEF TypeInv
<1>4. ASSUME NEW c \in Callers, RequestSpot(c) PROVE Hits
  <2>1. PICK a, k : Charge(a, k, "RequestSpot")
    BY <1>4 DEF RequestSpot
  <2>2. "RequestSpot" \in Causes
    BY DEF Causes, EC2Calls, CreateCalls, DeleteCalls, AddressCalls
  <2> QED
    BY <2>1, <2>2, ChargeHits DEF TypeInv
<1>5. ASSUME NEW c \in Callers, WaitSpot(c) PROVE Hits
  <2>1. UNCHANGED faults /\ (UNCHANGED hit \/ Note(call[c], "WaitSpot"))
    BY <1>5 DEF WaitSpot
  <2>2. "WaitSpot" \in Causes
    BY DEF Causes, EC2Calls, CreateCalls, DeleteCalls
  <2> QED
    BY <2>1, <2>2, NoteHits DEF Hits, TypeInv, faultVars
<1>6. ASSUME NEW c \in Callers, CancelSpot(c) PROVE Hits
  <2>1. PICK a, k : Charge(a, k, "CancelSpot")
    BY <1>6 DEF CancelSpot
  <2>2. "CancelSpot" \in Causes
    BY DEF Causes, EC2Calls, CreateCalls, DeleteCalls, AddressCalls
  <2> QED
    BY <2>1, <2>2, ChargeHits DEF TypeInv
<1>7. ASSUME NEW c \in Callers, DescribeSpot(c) PROVE Hits
  <2>1. PICK a, k : Charge(a, k, "DescribeSpot")
    BY <1>7 DEF DescribeSpot
  <2>2. "DescribeSpot" \in Causes
    BY DEF Causes, EC2Calls, CreateCalls, DeleteCalls, AddressCalls
  <2> QED
    BY <2>1, <2>2, ChargeHits DEF TypeInv
<1>8. ASSUME NEW c \in Callers, FindOffering(c) PROVE Hits
  <2>1. PICK a, k : Charge(a, k, "FindOffering")
    BY <1>8 DEF FindOffering
  <2>2. "FindOffering" \in Causes
    BY DEF Causes, EC2Calls, CreateCalls, DeleteCalls, AddressCalls
  <2> QED
    BY <2>1, <2>2, ChargeHits DEF TypeInv
<1>9. ASSUME NEW c \in Callers, Purchase(c) PROVE Hits
  <2>1. PICK a, k : Charge(a, k, "Purchase")
    BY <1>9 DEF Purchase
  <2>2. "Purchase" \in Causes
    BY DEF Causes, EC2Calls, CreateCalls, DeleteCalls, AddressCalls
  <2> QED
    BY <2>1, <2>2, ChargeHits DEF TypeInv
<1>10. ASSUME NEW c \in Callers, WaitStatus(c) \/ WaitGroups(c) \/ WaitStatusAgain(c) PROVE Hits
  BY <1>10 DEF WaitStatus, WaitGroups, WaitStatusAgain, WaitOk, Hits
<1>11. ASSUME NEW c \in Callers, TagInstance(c) PROVE Hits
  <2>1. PICK a, k : Charge(a, k, "TagInstance")
    BY <1>11 DEF TagInstance
  <2>2. "TagInstance" \in Causes
    BY DEF Causes, EC2Calls, CreateCalls, DeleteCalls, AddressCalls
  <2> QED
    BY <2>1, <2>2, ChargeHits DEF TypeInv
<1>12. ASSUME NEW c \in Callers, ModifyGroups(c) PROVE Hits
  <2>1. (\E a, k : Charge(a, k, "ModifyGroups")) \/ UNCHANGED faultVars
    BY <1>12 DEF ModifyGroups
  <2>2. "ModifyGroups" \in Causes
    BY DEF Causes, EC2Calls, CreateCalls, DeleteCalls, AddressCalls
  <2> QED
    BY <2>1, <2>2, ChargeHits DEF TypeInv, Hits
<1>13. ASSUME NEW c \in Callers, GetInstance(c) PROVE Hits
  <2>1. PICK a, k : Charge(a, k, "GetInstance")
    BY <1>13 DEF GetInstance
  <2>2. "GetInstance" \in Causes
    BY DEF Causes, EC2Calls, CreateCalls, DeleteCalls, AddressCalls
  <2> QED
    BY <2>1, <2>2, ChargeHits DEF TypeInv
<1>14. ASSUME NEW c \in Callers, DeleteKey(c) PROVE Hits
  <2>1. PICK a, k : Charge(a, k, "DeleteKey")
    BY <1>14 DEF DeleteKey
  <2>2. "DeleteKey" \in Causes
    BY DEF Causes, EC2Calls, CreateCalls, DeleteCalls, AddressCalls
  <2> QED
    BY <2>1, <2>2, ChargeHits DEF TypeInv
<1>15. ASSUME NEW c \in Callers, Delete(c) \/ Associate(c) PROVE Hits
  BY <1>15 DEF Delete, Associate, Hits
<1>16. ASSUME NEW c \in Callers, ListAddresses(c) PROVE Hits
  <2>1. PICK a, k : Charge(a, k, "ListAddresses")
    BY <1>16 DEF ListAddresses
  <2>2. "ListAddresses" \in Causes
    BY DEF Causes, EC2Calls, CreateCalls, DeleteCalls, AddressCalls
  <2> QED
    BY <2>1, <2>2, ChargeHits DEF TypeInv
<1>17. ASSUME NEW c \in Callers, GetAddress(c) PROVE Hits
  <2>1. PICK a, k : Charge(a, k, "GetAddress")
    BY <1>17 DEF GetAddress
  <2>2. "GetAddress" \in Causes
    BY DEF Causes, EC2Calls, CreateCalls, DeleteCalls, AddressCalls
  <2> QED
    BY <2>1, <2>2, ChargeHits DEF TypeInv
<1>18. ASSUME NEW c \in Callers, Disassociate(c) PROVE Hits
  <2>1. PICK a, k : Charge(a, k, "Disassociate")
    BY <1>18 DEF Disassociate
  <2>2. "Disassociate" \in Causes
    BY DEF Causes, EC2Calls, CreateCalls, DeleteCalls, AddressCalls
  <2> QED
    BY <2>1, <2>2, ChargeHits DEF TypeInv
<1>19. ASSUME NEW c \in Callers, Terminate(c) PROVE Hits
  <2>1. PICK a, k : Charge(a, k, "Terminate")
    BY <1>19 DEF Terminate
  <2>2. "Terminate" \in Causes
    BY DEF Causes, EC2Calls, CreateCalls, DeleteCalls, AddressCalls
  <2> QED
    BY <2>1, <2>2, ChargeHits DEF TypeInv
<1>20. ASSUME NEW c \in Callers, WaitTerminated(c) PROVE Hits
  BY <1>20 DEF WaitTerminated, Hits
<1>21. ASSUME NEW c \in Callers, Stop(c) \/ Start(c) PROVE Hits
  <2>1. "StopInstances" \in Causes /\ "StartInstances" \in Causes
    BY DEF Causes
  <2>2. CASE Stop(c)
    <3>1. PICK i, a : Charge(a, made[i], "StopInstances")
      BY <2>2 DEF Stop, Switch
    <3> QED
      BY <3>1, <2>1, ChargeHits DEF TypeInv
  <2>3. CASE Start(c)
    <3>1. PICK i, a : Charge(a, made[i], "StartInstances")
      BY <2>3 DEF Start, Switch
    <3> QED
      BY <3>1, <2>1, ChargeHits DEF TypeInv
  <2> QED
    BY <1>21, <2>2, <2>3
<1>22. ASSUME NEW c \in Callers, FindInterface(c) PROVE Hits
  <2>1. PICK a, k : Charge(a, k, "FindInterface")
    BY <1>22 DEF FindInterface
  <2>2. "FindInterface" \in Causes
    BY DEF Causes, EC2Calls, CreateCalls, DeleteCalls, AddressCalls
  <2> QED
    BY <2>1, <2>2, ChargeHits DEF TypeInv
<1>23. ASSUME NEW c \in Callers, AssociateAddress(c) PROVE Hits
  <2>1. PICK a, k : Charge(a, k, "AssociateAddress")
    BY <1>23 DEF AssociateAddress
  <2>2. "AssociateAddress" \in Causes
    BY DEF Causes, EC2Calls, CreateCalls, DeleteCalls, AddressCalls
  <2> QED
    BY <2>1, <2>2, ChargeHits DEF TypeInv
<1>24. ASSUME NEW j \in Instances, Boot(j) \/ Expire(j) PROVE Hits
  BY <1>24 DEF Boot, Expire, Hits
<1>25. ASSUME NEW j \in Instances, Reclaim(j) PROVE Hits
  <2>1. Note(made[j], "Reclaim") /\ faults < MaxFaults /\ faults' = faults + 1
    BY <1>25 DEF Reclaim
  <2>2. faults' \in 0 .. MaxFaults /\ "Reclaim" \in Causes
    BY <2>1, MaxFaultsAssumption DEF TypeInv, TypeOK, Causes
  <2> QED
    BY <2>1, <2>2 DEF Hits
<1>26. ASSUME NEW k \in Keys, NEW j \in Instances, Fill(k, j) PROVE Hits
  BY <1>26 DEF Fill, Hits
<1>27. CASE UNCHANGED vars
  BY <1>27 DEF vars, Hits
<1> QED
  BY <1>1, <1>2, <1>3, <1>4, <1>5, <1>6, <1>7, <1>8, <1>9, <1>10, <1>11, <1>12, <1>13, <1>14,
     <1>15, <1>16, <1>17, <1>18, <1>19, <1>20, <1>21, <1>22, <1>23, <1>24, <1>25, <1>26, <1>27 DEF
     Next, Continue, EC2

LEMMA FaultStep ==
  ASSUME TypeInv, [Next]_vars
  PROVE  FaultType' /\ \A k \in Keys : hit[k] \subseteq hit'[k]
<1> USE DEF TypeInv, TypeOK, FaultType, faultVars
<1>1. CASE UNCHANGED faultVars
  BY <1>1
<1>2. CASE ~UNCHANGED faultVars
  <2>1. faults' \in 0 .. MaxFaults /\ \E cause \in Causes : \E k : Note(k, cause)
    BY <1>2, HitsStep DEF Hits
  <2>2. PICK cause \in Causes : \E k : Note(k, cause)
    BY <2>1
  <2>3. PICK k : Note(k, cause)
    BY <2>2
  <2> QED
    BY <2>1, <2>3 DEF Note
<1> QED
  BY <1>1, <1>2

LEMMA TypeInit == Init => TypeInv
BY MaxFaultsAssumption DEF Init, TypeInv, TypeOK, FrameInv, FrameOK, Up, CreateCalls, DeleteCalls,
       AddressCalls, EC2Calls, Starting, Completing

LEMMA TypeStep == TypeInv /\ [Next]_vars => TypeInv'
BY FrameStep, CloudStep, CallerStep, FaultStep DEF TypeInv, TypeOK, CloudType, CallerType,
       FaultType

\* Key pairs, instances, requests and addresses are never taken for one another, whatever fails and
\* however the callers of AwsServer interleave.
THEOREM TypeCorrect == Spec => []TypeOK
<1>1. TypeInv => TypeOK
  BY DEF TypeInv
<1> QED
  BY <1>1, TypeInit, TypeStep, PTL DEF Spec

-----------------------------------------------------------------------------
\* Calls of Create, and what they have got

InstanceOK(i) ==
  /\ inst[i] = "none" => made[i] = None
  /\ inst[i] # "none" => made[i] \in used

CallOK(c) ==
  /\ call[c] # None => call[c] \in used
  /\ pc[c] \in {"ImportKey", "RequestSpot"} => request[call[c]] = "none"
  /\ pc[c] = "DescribeSpot" => request[call[c]] = "filled"
  /\ call[c] # None /\ cur[c] # None => made[cur[c]] = call[c]

SoleCall == \A c, d \in Callers : call[c] # None /\ call[c] = call[d] => c = d

RequestOK(k) ==
  /\ request[k] # "none" => k \in used
  /\ request[k] \in {"none", "open"} => filled[k] = None
  /\ request[k] = "filled" => filled[k] \in Instances
  /\ filled[k] # None => made[filled[k]] = k
  /\ request[k] = "open" => \/ hit[k] \cap {"RequestSpot", "WaitSpot"} # {}
                            \/ \E c \in Callers : call[c] = k /\ pc[c] = "WaitSpot"

KnownOK(i) == inst[i] # "none" /\ ~Running(made[i])

CallInv ==
  /\ \A i \in Instances : InstanceOK(i)
  /\ \A c \in Callers : CallOK(c)
  /\ SoleCall
  /\ \A k \in Keys : RequestOK(k)
  /\ \A i \in doomed : inst[i] # "none"
  /\ \A i \in known : KnownOK(i)

\* What a step does to instance i: nothing, it launches i for a call of Create, or it changes the
\* state of an instance that is there.  Only EC2 itself and Delete end one that is up.
InstanceMove(i) ==
  \/ inst'[i] = inst[i] /\ made'[i] = made[i]
  \/ inst[i] = "none" /\ inst'[i] = "pending" /\ made'[i] \in used'
  \/ /\ inst[i] # "none" /\ inst'[i] # "none" /\ made'[i] = made[i]
     /\ inst'[i] \in Up => inst[i] \in Up
     /\ inst[i] \in Up /\ inst'[i] \notin Up =>
          \/ "Reclaim" \in hit'[made[i]]
          \/ \E c \in Callers : pc[c] = "Terminate" /\ cur[c] = i

LEMMA InstanceMoves ==
  ASSUME TypeInv, CallInv, [Next]_vars, NEW i \in Instances
  PROVE  InstanceMove(i)
<1>1. ASSUME NEW c \in Callers, Create(c) \/ ImportKey(c) \/ RequestSpot(c) \/ WaitSpot(c) \/
                  CancelSpot(c) \/ DescribeSpot(c)
      PROVE  InstanceMove(i)
  BY <1>1 DEF Create, ImportKey, RequestSpot, WaitSpot, CancelSpot, DescribeSpot, instanceVars,
     InstanceMove
<1>2. ASSUME NEW c \in Callers, FindOffering(c) \/ Purchase(c) \/ WaitStatus(c) \/ WaitGroups(c)
                  \/ WaitStatusAgain(c)
      PROVE  InstanceMove(i)
  BY <1>2 DEF FindOffering, Purchase, WaitStatus, WaitOk, WaitGroups, WaitStatusAgain,
     instanceVars, InstanceMove
<1>3. ASSUME NEW c \in Callers, TagInstance(c) \/ ModifyGroups(c) \/ GetInstance(c) \/
                  DeleteKey(c) \/ Delete(c)
      PROVE  InstanceMove(i)
  BY <1>3 DEF TagInstance, ModifyGroups, GetInstance, DeleteKey, Delete, instanceVars,
     InstanceMove
<1>4. ASSUME NEW c \in Callers, ListAddresses(c) \/ GetAddress(c) \/ Disassociate(c) \/
                  WaitTerminated(c)
      PROVE  InstanceMove(i)
  BY <1>4 DEF ListAddresses, GetAddress, Disassociate, WaitTerminated, instanceVars,
     InstanceMove
<1>5. ASSUME NEW c \in Callers, Associate(c) \/ FindInterface(c) \/ AssociateAddress(c)
      PROVE  InstanceMove(i)
  BY <1>5 DEF Associate, FindInterface, AssociateAddress, instanceVars, InstanceMove
<1>6. ASSUME NEW c \in Callers, RunInstances(c) PROVE InstanceMove(i)
  <2>1. call[c] \in used
    BY <1>6, NoneAssumption DEF RunInstances, TypeInv, FrameInv, FrameOK, CreateCalls, CallInv,
           CallOK
  <2>2. UNCHANGED used /\ (UNCHANGED <<inst, made>> \/ \E j \in Instances : Launch(j, call[c]))
    <3>1. UNCHANGED used
      BY <1>6 DEF RunInstances, keyVars
    <3>2. UNCHANGED <<inst, made>> \/ \E j \in Instances : Launch(j, call[c])
      BY <1>6, Zenon DEF RunInstances
    <3> QED
      BY <3>1, <3>2
  <2> QED
    BY <2>1, <2>2 DEF Launch, InstanceMove, TypeInv, TypeOK
<1>7. ASSUME NEW c \in Callers, Terminate(c) PROVE InstanceMove(i)
  <2>1. pc[c] = "Terminate" /\ UNCHANGED made
    BY <1>7 DEF Terminate
  <2>2. \/ UNCHANGED inst
        \/ inst[cur[c]] \in Up /\ inst' = [inst EXCEPT ![cur[c]] = "shutting-down"]
    BY <1>7 DEF Terminate, IsUp
  <2> QED
    BY <2>1, <2>2 DEF InstanceMove, TypeInv, TypeOK, Up
<1>8. ASSUME NEW c \in Callers, Stop(c) \/ Start(c) PROVE InstanceMove(i)
  BY <1>8 DEF Stop, Switch, Start, InstanceMove, TypeInv, TypeOK, Up
<1>9. ASSUME NEW j \in Instances, Boot(j) \/ Expire(j) PROVE InstanceMove(i)
  BY <1>9 DEF Boot, EC2Only, Expire, InstanceMove, TypeInv, TypeOK, Up
<1>10. ASSUME NEW j \in Instances, Reclaim(j) PROVE InstanceMove(i)
  <2>1. inst' = [inst EXCEPT ![j] = "shutting-down"] /\ UNCHANGED made /\ inst[j] = "running"
    BY <1>10 DEF Reclaim
  <2>2. "Reclaim" \in hit'[made[j]]
    <3>1. made[j] \in Keys
      BY <2>1 DEF CallInv, InstanceOK, TypeInv, TypeOK
    <3>2. Note(made[j], "Reclaim")
      BY <1>10 DEF Reclaim
    <3> QED
      BY <3>1, <3>2, NoteFacts DEF Causes, TypeInv
  <2> QED
    BY <2>1, <2>2 DEF InstanceMove, TypeInv, TypeOK, Up
<1>11. ASSUME NEW k \in Keys, NEW j \in Instances, Fill(k, j) PROVE InstanceMove(i)
  <2>1. k \in used /\ used' = used /\ Launch(j, k)
    BY <1>11 DEF Fill, EC2Only, keyVars, CallInv, RequestOK
  <2> QED
    BY <2>1 DEF Launch, InstanceMove, TypeInv, TypeOK
<1>12. CASE UNCHANGED vars
  BY <1>12 DEF vars, instanceVars, InstanceMove
<1> QED
  BY <1>1, <1>2, <1>3, <1>4, <1>5, <1>6, <1>7, <1>8, <1>9, <1>10, <1>11, <1>12 DEF Next,
     Continue, EC2

LEMMA InstancesStep ==
  ASSUME TypeInv, CallInv, [Next]_vars, NEW i \in Instances
  PROVE  InstanceOK(i)'
<1>1. InstanceMove(i) /\ used \subseteq used'
  BY InstanceMoves, GrowStep DEF Grows
<1> QED
  BY <1>1 DEF InstanceMove, InstanceOK, CallInv

\* The maker of an instance does not change.
LEMMA MadeStays ==
  ASSUME TypeInv, CallInv, [Next]_vars, NEW i \in Instances, inst[i] # "none" \/ made[i] # None
  PROVE  made'[i] = made[i] /\ inst'[i] # "none"
BY InstanceMoves DEF InstanceMove, InstanceOK, CallInv

LEMMA CallsStep ==
  ASSUME TypeInv, CallInv, [Next]_vars, NEW e \in Callers
  PROVE  CallOK(e)'
<1> USE DEF TypeInv, TypeOK, CallInv, CallOK, InstanceOK, RequestOK, KnownOK, FrameInv, FrameOK,
   CreateCalls, DeleteCalls, AddressCalls, Starting, Completing, frameVars, deleteVars,
   userVars, marketVars, keyVars, instanceVars, faultVars
<1>1. ASSUME NEW c \in Callers, Create(c) PROVE CallOK(e)'
  BY <1>1, NoneAssumption DEF Create, Goto, Answers, ReadAnswers, Applied, SoleCall
<1>2. ASSUME NEW c \in Callers, ImportKey(c) PROVE CallOK(e)'
  BY <1>2, NoneAssumption DEF ImportKey, Goto, Proceed, Fail, ReturnFromCreate, Answers,
     ReadAnswers, Applied, SoleCall
<1>3. ASSUME NEW c \in Callers, RunInstances(c) PROVE CallOK(e)'
  BY <1>3, NoneAssumption DEF RunInstances, Launch, Goto, Fail, ReturnFromCreate, Answers,
     ReadAnswers, Applied, SoleCall
<1>4. ASSUME NEW c \in Callers, RequestSpot(c) PROVE CallOK(e)'
  BY <1>4, NoneAssumption DEF RequestSpot, Goto, Proceed, Fail, ReturnFromCreate, Answers,
     ReadAnswers, Applied, SoleCall
<1>5. ASSUME NEW c \in Callers, WaitSpot(c) PROVE CallOK(e)'
  BY <1>5, NoneAssumption DEF WaitSpot, Goto, Proceed, Answers, ReadAnswers, Applied, SoleCall
<1>6. ASSUME NEW c \in Callers, CancelSpot(c) PROVE CallOK(e)'
  BY <1>6, NoneAssumption DEF CancelSpot, Goto, Fail, ReturnFromCreate, Answers, ReadAnswers,
     Applied, SoleCall
<1>7. ASSUME NEW c \in Callers, DescribeSpot(c) PROVE CallOK(e)'
  BY <1>7, NoneAssumption DEF DescribeSpot, Goto, Fail, ReturnFromCreate, Answers, ReadAnswers,
     Applied, SoleCall
<1>8. ASSUME NEW c \in Callers, FindOffering(c) PROVE CallOK(e)'
  BY <1>8, NoneAssumption DEF FindOffering, Goto, Proceed, Fail, ReturnFromCreate, Answers,
     ReadAnswers, Applied, SoleCall
<1>9. ASSUME NEW c \in Callers, Purchase(c) PROVE CallOK(e)'
  BY <1>9, NoneAssumption DEF Purchase, Goto, Proceed, Fail, ReturnFromCreate, Answers,
     ReadAnswers, Applied, SoleCall
<1>10. ASSUME NEW c \in Callers, WaitStatus(c) PROVE CallOK(e)'
  BY <1>10, NoneAssumption DEF WaitStatus, WaitOk, Rollback, Goto, Proceed, Answers,
     ReadAnswers, Applied, SoleCall
<1>11. ASSUME NEW c \in Callers, TagInstance(c) PROVE CallOK(e)'
  BY <1>11, NoneAssumption DEF TagInstance, Rollback, Goto, Proceed, Answers, ReadAnswers,
     Applied, SoleCall
<1>12. ASSUME NEW c \in Callers, ModifyGroups(c) PROVE CallOK(e)'
  BY <1>12, NoneAssumption DEF ModifyGroups, Goto, Proceed, IsUp, Answers, ReadAnswers, Applied,
     SoleCall
<1>13. ASSUME NEW c \in Callers, WaitGroups(c) PROVE CallOK(e)'
  BY <1>13, NoneAssumption DEF WaitGroups, WaitOk, Rollback, Goto, Proceed, Answers,
     ReadAnswers, Applied, SoleCall
<1>14. ASSUME NEW c \in Callers, WaitStatusAgain(c) PROVE CallOK(e)'
  BY <1>14, NoneAssumption DEF WaitStatusAgain, WaitOk, Rollback, Goto, Proceed, Answers,
     ReadAnswers, Applied, SoleCall
<1>15. ASSUME NEW c \in Callers, GetInstance(c) PROVE CallOK(e)'
  BY <1>15, NoneAssumption DEF GetInstance, Goto, Fail, ReturnFromCreate, Answers, ReadAnswers,
     Applied, SoleCall
<1>16. ASSUME NEW c \in Callers, DeleteKey(c) PROVE CallOK(e)'
  BY <1>16, NoneAssumption DEF DeleteKey, Goto, Answers, ReadAnswers, Applied, SoleCall
<1>17. ASSUME NEW c \in Callers, Delete(c) PROVE CallOK(e)'
  BY <1>17, NoneAssumption DEF Delete, Goto, Answers, ReadAnswers, Applied, SoleCall
<1>18. ASSUME NEW c \in Callers, ListAddresses(c) PROVE CallOK(e)'
  BY <1>18, NoneAssumption DEF ListAddresses, ReturnFromDelete, Goto, Fail, ReturnFromCreate,
     Answers, ReadAnswers, Applied, SoleCall
<1>19. ASSUME NEW c \in Callers, GetAddress(c) PROVE CallOK(e)'
  BY <1>19, NoneAssumption DEF GetAddress, Skip, Goto, Answers, ReadAnswers, Applied, SoleCall
<1>20. ASSUME NEW c \in Callers, Disassociate(c) PROVE CallOK(e)'
  BY <1>20, NoneAssumption DEF Disassociate, Skip, Goto, Answers, ReadAnswers, Applied, SoleCall
<1>21. ASSUME NEW c \in Callers, Terminate(c) PROVE CallOK(e)'
  BY <1>21, NoneAssumption DEF Terminate, Goto, Proceed, IsUp, Answers, ReadAnswers, Applied,
     SoleCall
<1>22. ASSUME NEW c \in Callers, WaitTerminated(c) PROVE CallOK(e)'
  BY <1>22, NoneAssumption DEF WaitTerminated, ReturnFromDelete, Goto, Fail, ReturnFromCreate,
     Answers, ReadAnswers, Applied, SoleCall
<1>23. ASSUME NEW c \in Callers, Associate(c) PROVE CallOK(e)'
  BY <1>23, NoneAssumption DEF Associate, Goto, Answers, ReadAnswers, Applied, SoleCall
<1>24. ASSUME NEW c \in Callers, FindInterface(c) PROVE CallOK(e)'
  BY <1>24, NoneAssumption DEF FindInterface, ReturnFromAssociate, Goto, Proceed, IsUp, Answers,
     ReadAnswers, Applied, SoleCall
<1>25. ASSUME NEW c \in Callers, AssociateAddress(c) PROVE CallOK(e)'
  BY <1>25, NoneAssumption DEF AssociateAddress, ReturnFromAssociate, Goto, IsUp, Answers,
     ReadAnswers, Applied, SoleCall
<1>26. ASSUME NEW c \in Callers, Stop(c) \/ Start(c) PROVE CallOK(e)'
  BY <1>26, NoneAssumption DEF Stop, Switch, Start, Answers, ReadAnswers, Applied, SoleCall
<1>27. ASSUME NEW j \in Instances, Boot(j) \/ Expire(j) \/ Reclaim(j) PROVE CallOK(e)'
  BY <1>27, NoneAssumption DEF Boot, EC2Only, Expire, Reclaim, Answers, ReadAnswers, Applied,
     SoleCall
<1>28. ASSUME NEW k \in Keys, NEW j \in Instances, Fill(k, j) PROVE CallOK(e)'
  BY <1>28, NoneAssumption DEF Fill, Launch, EC2Only, Answers, ReadAnswers, Applied, SoleCall
<1>29. CASE UNCHANGED vars
  BY <1>29 DEF vars
<1> QED
  BY <1>1, <1>2, <1>3, <1>4, <1>5, <1>6, <1>7, <1>8, <1>9, <1>10, <1>11, <1>12, <1>13, <1>14,
     <1>15, <1>16, <1>17, <1>18, <1>19, <1>20, <1>21, <1>22, <1>23, <1>24, <1>25, <1>26, <1>27,
     <1>28, <1>29 DEF Next, Continue, EC2

LEMMA SoleStep ==
  ASSUME TypeInv, CallInv, [Next]_vars
  PROVE  SoleCall'
<1> USE DEF TypeInv, TypeOK, CallInv, CallOK, SoleCall, frameVars
<1>1. ASSUME NEW c \in Callers, Create(c) PROVE SoleCall'
  BY <1>1, NoneAssumption DEF Create, Goto
<1>2. ASSUME NEW c \in Callers, ImportKey(c) PROVE SoleCall'
  BY <1>2, NoneAssumption DEF ImportKey, Goto, Proceed, Fail, ReturnFromCreate
<1>3. ASSUME NEW c \in Callers, RunInstances(c) PROVE SoleCall'
  BY <1>3, NoneAssumption DEF RunInstances, Launch, Goto, Fail, ReturnFromCreate
<1>4. ASSUME NEW c \in Callers, RequestSpot(c) PROVE SoleCall'
  BY <1>4, NoneAssumption DEF RequestSpot, Goto, Proceed, Fail, ReturnFromCreate
<1>5. ASSUME NEW c \in Callers, WaitSpot(c) PROVE SoleCall'
  BY <1>5, NoneAssumption DEF WaitSpot, Goto, Proceed
<1>6. ASSUME NEW c \in Callers, CancelSpot(c) PROVE SoleCall'
  BY <1>6, NoneAssumption DEF CancelSpot, Goto, Fail, ReturnFromCreate
<1>7. ASSUME NEW c \in Callers, DescribeSpot(c) PROVE SoleCall'
  BY <1>7, NoneAssumption DEF DescribeSpot, Goto, Fail, ReturnFromCreate
<1>8. ASSUME NEW c \in Callers, FindOffering(c) PROVE SoleCall'
  BY <1>8, NoneAssumption DEF FindOffering, Goto, Proceed, Fail, ReturnFromCreate
<1>9. ASSUME NEW c \in Callers, Purchase(c) PROVE SoleCall'
  BY <1>9, NoneAssumption DEF Purchase, Goto, Proceed, Fail, ReturnFromCreate
<1>10. ASSUME NEW c \in Callers, WaitStatus(c) PROVE SoleCall'
  BY <1>10, NoneAssumption DEF WaitStatus, WaitOk, Rollback, Goto, Proceed
<1>11. ASSUME NEW c \in Callers, TagInstance(c) PROVE SoleCall'
  BY <1>11, NoneAssumption DEF TagInstance, Rollback, Goto, Proceed
<1>12. ASSUME NEW c \in Callers, ModifyGroups(c) PROVE SoleCall'
  BY <1>12, NoneAssumption DEF ModifyGroups, Goto, Proceed, IsUp
<1>13. ASSUME NEW c \in Callers, WaitGroups(c) PROVE SoleCall'
  BY <1>13, NoneAssumption DEF WaitGroups, WaitOk, Rollback, Goto, Proceed
<1>14. ASSUME NEW c \in Callers, WaitStatusAgain(c) PROVE SoleCall'
  BY <1>14, NoneAssumption DEF WaitStatusAgain, WaitOk, Rollback, Goto, Proceed
<1>15. ASSUME NEW c \in Callers, GetInstance(c) PROVE SoleCall'
  BY <1>15, NoneAssumption DEF GetInstance, Goto, Fail, ReturnFromCreate
<1>16. ASSUME NEW c \in Callers, DeleteKey(c) PROVE SoleCall'
  BY <1>16, NoneAssumption DEF DeleteKey, Goto
<1>17. ASSUME NEW c \in Callers, Delete(c) PROVE SoleCall'
  BY <1>17, NoneAssumption DEF Delete, Goto
<1>18. ASSUME NEW c \in Callers, ListAddresses(c) PROVE SoleCall'
  BY <1>18, NoneAssumption DEF ListAddresses, ReturnFromDelete, Goto, Fail, ReturnFromCreate
<1>19. ASSUME NEW c \in Callers, GetAddress(c) PROVE SoleCall'
  BY <1>19, NoneAssumption DEF GetAddress, Skip, Goto
<1>20. ASSUME NEW c \in Callers, Disassociate(c) PROVE SoleCall'
  BY <1>20, NoneAssumption DEF Disassociate, Skip, Goto
<1>21. ASSUME NEW c \in Callers, Terminate(c) PROVE SoleCall'
  BY <1>21, NoneAssumption DEF Terminate, Goto, Proceed, IsUp
<1>22. ASSUME NEW c \in Callers, WaitTerminated(c) PROVE SoleCall'
  BY <1>22, NoneAssumption DEF WaitTerminated, ReturnFromDelete, Goto, Fail, ReturnFromCreate
<1>23. ASSUME NEW c \in Callers, Associate(c) PROVE SoleCall'
  BY <1>23, NoneAssumption DEF Associate, Goto
<1>24. ASSUME NEW c \in Callers, FindInterface(c) PROVE SoleCall'
  BY <1>24, NoneAssumption DEF FindInterface, ReturnFromAssociate, Goto, Proceed, IsUp
<1>25. ASSUME NEW c \in Callers, AssociateAddress(c) PROVE SoleCall'
  BY <1>25, NoneAssumption DEF AssociateAddress, ReturnFromAssociate, Goto, IsUp
<1>26. ASSUME NEW c \in Callers, Stop(c) \/ Start(c) PROVE SoleCall'
  BY <1>26, NoneAssumption DEF Stop, Switch, Start
<1>27. ASSUME NEW j \in Instances, Boot(j) \/ Expire(j) \/ Reclaim(j) PROVE SoleCall'
  BY <1>27, NoneAssumption DEF Boot, EC2Only, Expire, Reclaim
<1>28. ASSUME NEW k \in Keys, NEW j \in Instances, Fill(k, j) PROVE SoleCall'
  BY <1>28, NoneAssumption DEF Fill, Launch, EC2Only
<1>29. CASE UNCHANGED vars
  BY <1>29 DEF vars
<1> QED
  BY <1>1, <1>2, <1>3, <1>4, <1>5, <1>6, <1>7, <1>8, <1>9, <1>10, <1>11, <1>12, <1>13, <1>14,
     <1>15, <1>16, <1>17, <1>18, <1>19, <1>20, <1>21, <1>22, <1>23, <1>24, <1>25, <1>26, <1>27,
     <1>28, <1>29 DEF Next, Continue, EC2

LEMMA KnownStep ==
  ASSUME TypeInv, CallInv, [Next]_vars, NEW i \in known'
  PROVE  KnownOK(i)'
<1> USE DEF TypeInv, TypeOK, CallInv, CallOK, InstanceOK, RequestOK, KnownOK, FrameInv, FrameOK,
   CreateCalls, DeleteCalls, AddressCalls, Starting, Completing, Running, Up, frameVars,
   deleteVars, userVars, marketVars, keyVars, instanceVars, faultVars
<1>1. ASSUME NEW c \in Callers, Create(c) PROVE KnownOK(i)'
  BY <1>1, NoneAssumption DEF Create, Goto, Answers, ReadAnswers, Applied, SoleCall
<1>2. ASSUME NEW c \in Callers, ImportKey(c) PROVE KnownOK(i)'
  BY <1>2, NoneAssumption DEF ImportKey, Goto, Proceed, Fail, ReturnFromCreate, Answers,
     ReadAnswers, Applied, SoleCall
<1>3. ASSUME NEW c \in Callers, RunInstances(c) PROVE KnownOK(i)'
  BY <1>3, NoneAssumption DEF RunInstances, Launch, Goto, Fail, ReturnFromCreate, Answers,
     ReadAnswers, Applied, SoleCall
<1>4. ASSUME NEW c \in Callers, RequestSpot(c) PROVE KnownOK(i)'
  BY <1>4, NoneAssumption DEF RequestSpot, Goto, Proceed, Fail, ReturnFromCreate, Answers,
     ReadAnswers, Applied, SoleCall
<1>5. ASSUME NEW c \in Callers, WaitSpot(c) PROVE KnownOK(i)'
  BY <1>5, NoneAssumption DEF WaitSpot, Goto, Proceed, Answers, ReadAnswers, Applied, SoleCall
<1>6. ASSUME NEW c \in Callers, CancelSpot(c) PROVE KnownOK(i)'
  BY <1>6, NoneAssumption DEF CancelSpot, Goto, Fail, ReturnFromCreate, Answers, ReadAnswers,
     Applied, SoleCall
<1>7. ASSUME NEW c \in Callers, DescribeSpot(c) PROVE KnownOK(i)'
  BY <1>7, NoneAssumption DEF DescribeSpot, Goto, Fail, ReturnFromCreate, Answers, ReadAnswers,
     Applied, SoleCall
<1>8. ASSUME NEW c \in Callers, FindOffering(c) PROVE KnownOK(i)'
  BY <1>8, NoneAssumption DEF FindOffering, Goto, Proceed, Fail, ReturnFromCreate, Answers,
     ReadAnswers, Applied, SoleCall
<1>9. ASSUME NEW c \in Callers, Purchase(c) PROVE KnownOK(i)'
  BY <1>9, NoneAssumption DEF Purchase, Goto, Proceed, Fail, ReturnFromCreate, Answers,
     ReadAnswers, Applied, SoleCall
<1>10. ASSUME NEW c \in Callers, WaitStatus(c) PROVE KnownOK(i)'
  BY <1>10, NoneAssumption DEF WaitStatus, WaitOk, Rollback, Goto, Proceed, Answers,
     ReadAnswers, Applied, SoleCall
<1>11. ASSUME NEW c \in Callers, TagInstance(c) PROVE KnownOK(i)'
  BY <1>11, NoneAssumption DEF TagInstance, Rollback, Goto, Proceed, Answers, ReadAnswers,
     Applied, SoleCall
<1>12. ASSUME NEW c \in Callers, ModifyGroups(c) PROVE KnownOK(i)'
  BY <1>12, NoneAssumption DEF ModifyGroups, Goto, Proceed, IsUp, Answers, ReadAnswers, Applied,
     SoleCall
<1>13. ASSUME NEW c \in Callers, WaitGroups(c) PROVE KnownOK(i)'
  BY <1>13, NoneAssumption DEF WaitGroups, WaitOk, Rollback, Goto, Proceed, Answers,
     ReadAnswers, Applied, SoleCall
<1>14. ASSUME NEW c \in Callers, WaitStatusAgain(c) PROVE KnownOK(i)'
  BY <1>14, NoneAssumption DEF WaitStatusAgain, WaitOk, Rollback, Goto, Proceed, Answers,
     ReadAnswers, Applied, SoleCall
<1>15. ASSUME NEW c \in Callers, GetInstance(c) PROVE KnownOK(i)'
  BY <1>15, NoneAssumption DEF GetInstance, Goto, Fail, ReturnFromCreate, Answers, ReadAnswers,
     Applied, SoleCall
<1>16. ASSUME NEW c \in Callers, DeleteKey(c) PROVE KnownOK(i)'
  BY <1>16, NoneAssumption DEF DeleteKey, Goto, Answers, ReadAnswers, Applied, SoleCall
<1>17. ASSUME NEW c \in Callers, Delete(c) PROVE KnownOK(i)'
  BY <1>17, NoneAssumption DEF Delete, Goto, Answers, ReadAnswers, Applied, SoleCall
<1>18. ASSUME NEW c \in Callers, ListAddresses(c) PROVE KnownOK(i)'
  BY <1>18, NoneAssumption DEF ListAddresses, ReturnFromDelete, Goto, Fail, ReturnFromCreate,
     Answers, ReadAnswers, Applied, SoleCall
<1>19. ASSUME NEW c \in Callers, GetAddress(c) PROVE KnownOK(i)'
  BY <1>19, NoneAssumption DEF GetAddress, Skip, Goto, Answers, ReadAnswers, Applied, SoleCall
<1>20. ASSUME NEW c \in Callers, Disassociate(c) PROVE KnownOK(i)'
  BY <1>20, NoneAssumption DEF Disassociate, Skip, Goto, Answers, ReadAnswers, Applied, SoleCall
<1>21. ASSUME NEW c \in Callers, Terminate(c) PROVE KnownOK(i)'
  BY <1>21, NoneAssumption DEF Terminate, Goto, Proceed, IsUp, Answers, ReadAnswers, Applied,
     SoleCall
<1>22. ASSUME NEW c \in Callers, WaitTerminated(c) PROVE KnownOK(i)'
  BY <1>22, NoneAssumption DEF WaitTerminated, ReturnFromDelete, Goto, Fail, ReturnFromCreate,
     Answers, ReadAnswers, Applied, SoleCall
<1>23. ASSUME NEW c \in Callers, Associate(c) PROVE KnownOK(i)'
  BY <1>23, NoneAssumption DEF Associate, Goto, Answers, ReadAnswers, Applied, SoleCall
<1>24. ASSUME NEW c \in Callers, FindInterface(c) PROVE KnownOK(i)'
  BY <1>24, NoneAssumption DEF FindInterface, ReturnFromAssociate, Goto, Proceed, IsUp, Answers,
     ReadAnswers, Applied, SoleCall
<1>25. ASSUME NEW c \in Callers, AssociateAddress(c) PROVE KnownOK(i)'
  BY <1>25, NoneAssumption DEF AssociateAddress, ReturnFromAssociate, Goto, IsUp, Answers,
     ReadAnswers, Applied, SoleCall
<1>26. ASSUME NEW c \in Callers, Stop(c) \/ Start(c) PROVE KnownOK(i)'
  BY <1>26, NoneAssumption DEF Stop, Switch, Start, Answers, ReadAnswers, Applied, SoleCall
<1>27. ASSUME NEW j \in Instances, Boot(j) \/ Expire(j) \/ Reclaim(j) PROVE KnownOK(i)'
  BY <1>27, NoneAssumption DEF Boot, EC2Only, Expire, Reclaim, Answers, ReadAnswers, Applied,
     SoleCall
<1>28. ASSUME NEW k \in Keys, NEW j \in Instances, Fill(k, j) PROVE KnownOK(i)'
  BY <1>28, NoneAssumption DEF Fill, Launch, EC2Only, Answers, ReadAnswers, Applied, SoleCall
<1>29. CASE UNCHANGED vars
  BY <1>29 DEF vars
<1> QED
  BY <1>1, <1>2, <1>3, <1>4, <1>5, <1>6, <1>7, <1>8, <1>9, <1>10, <1>11, <1>12, <1>13, <1>14,
     <1>15, <1>16, <1>17, <1>18, <1>19, <1>20, <1>21, <1>22, <1>23, <1>24, <1>25, <1>26, <1>27,
     <1>28, <1>29 DEF Next, Continue, EC2

LEMMA NewDoomed ==
  ASSUME TypeInv, [Next]_vars, NEW i \in doomed' \ doomed
  PROVE  \E d \in Callers : Delete(d) /\ cur'[d] = i
<1>1. ASSUME NEW c \in Callers, Create(c) \/ ImportKey(c) \/ RunInstances(c) \/ RequestSpot(c)
      PROVE  \E d \in Callers : Delete(d) /\ cur'[d] = i
  BY <1>1 DEF Create, ImportKey, RunInstances, RequestSpot, userVars
<1>2. ASSUME NEW c \in Callers, WaitSpot(c) \/ CancelSpot(c) \/ DescribeSpot(c) \/
                  FindOffering(c) \/ Purchase(c)
      PROVE  \E d \in Callers : Delete(d) /\ cur'[d] = i
  BY <1>2 DEF WaitSpot, CancelSpot, DescribeSpot, FindOffering, Purchase, userVars
<1>3. ASSUME NEW c \in Callers, WaitStatus(c) \/ WaitGroups(c) \/ WaitStatusAgain(c) \/
                  TagInstance(c) \/ ModifyGroups(c) \/ GetInstance(c)
      PROVE  \E d \in Callers : Delete(d) /\ cur'[d] = i
  BY <1>3 DEF WaitStatus, WaitOk, WaitGroups, WaitStatusAgain, TagInstance, ModifyGroups,
     GetInstance, userVars
<1>4. ASSUME NEW c \in Callers, ListAddresses(c) \/ GetAddress(c) \/ DeleteKey(c)
      PROVE  \E d \in Callers : Delete(d) /\ cur'[d] = i
  BY <1>4 DEF ListAddresses, GetAddress, DeleteKey, userVars
<1>5. ASSUME NEW c \in Callers, Disassociate(c) \/ Terminate(c) \/ WaitTerminated(c)
      PROVE  \E d \in Callers : Delete(d) /\ cur'[d] = i
  BY <1>5 DEF Disassociate, Terminate, WaitTerminated, userVars
<1>6. ASSUME NEW c \in Callers, Stop(c) \/ Start(c) \/ Associate(c) \/ FindInterface(c) \/
                  AssociateAddress(c)
      PROVE  \E d \in Callers : Delete(d) /\ cur'[d] = i
  BY <1>6 DEF Stop, Switch, Start, Associate, FindInterface, AssociateAddress, userVars
<1>7. ASSUME NEW j \in Instances, Boot(j) \/ Expire(j) \/ Reclaim(j)
      PROVE  \E d \in Callers : Delete(d) /\ cur'[d] = i
  BY <1>7 DEF Boot, Expire, Reclaim, userVars, EC2Only
<1>8. ASSUME NEW k \in Keys, NEW j \in Instances, Fill(k, j)
      PROVE  \E d \in Callers : Delete(d) /\ cur'[d] = i
  BY <1>8 DEF Fill, userVars, EC2Only
<1>9. ASSUME NEW c \in Callers, Delete(c) PROVE \E d \in Callers : Delete(d) /\ cur'[d] = i
  <2>1. cur'[c] = i
    BY <1>9 DEF Delete, TypeInv, TypeOK
  <2> QED
    BY <1>9, <2>1
<1>10. CASE UNCHANGED vars
  BY <1>10 DEF vars, userVars
<1> QED
  BY <1>1, <1>2, <1>3, <1>4, <1>5, <1>6, <1>7, <1>8, <1>9, <1>10 DEF Next, Continue, EC2

LEMMA DoomedStep ==
  ASSUME TypeInv, CallInv, [Next]_vars, NEW i \in doomed'
  PROVE  inst'[i] # "none"
<1>1. i \in Instances
  BY TypeStep DEF TypeInv, TypeOK
<1>2. CASE i \in doomed
  BY <1>1, <1>2, InstanceMoves DEF CallInv, InstanceMove
<1>3. CASE i \notin doomed
  <2>1. PICK c \in Callers : Delete(c) /\ cur'[c] = i
    BY <1>3, NewDoomed
  <2>2. inst[i] # "none"
    BY <2>1 DEF Delete, TypeInv, TypeOK
  <2> QED
    BY <1>1, <2>2, InstanceMoves DEF InstanceMove
<1> QED
  BY <1>2, <1>3

\* A call of Create waits for its spot request to be filled.
Waiting(k) == \E c \in Callers : call[c] = k /\ pc[c] = "WaitSpot"

LEMMA RequestsStep ==
  ASSUME TypeInv, CallInv, [Next]_vars, NEW l \in Keys
  PROVE  RequestOK(l)'
<1>1. /\ used \subseteq used' /\ hit[l] \subseteq hit'[l]
      /\ \A i \in Instances : made[i] # None => made'[i] = made[i]
  BY GrowStep, FaultStep, MadeStays DEF Grows
<1>2. ASSUME UNCHANGED <<request, filled>>, Waiting(l) => Waiting(l)' \/ "WaitSpot" \in hit'[l]
      PROVE  RequestOK(l)'
  BY <1>1, <1>2, NoneAssumption DEF RequestOK, CallInv, Waiting, TypeInv, TypeOK
<1>3. ASSUME NEW c \in Callers, Create(c) \/ ImportKey(c) \/ RunInstances(c) PROVE RequestOK(l)'
  <2>1. UNCHANGED <<request, filled>>
    BY <1>3 DEF Create, ImportKey, RunInstances, marketVars
  <2>2. Waiting(l) => Waiting(l)'
    <3>1. pc[c] # "WaitSpot"
      BY <1>3 DEF Create, ImportKey, RunInstances
    <3> QED
      BY <1>3, <3>1, OwnFrame DEF Waiting, Others, Acts, Continue
  <2> QED
    BY <1>2, <2>1, <2>2
<1>4. ASSUME NEW c \in Callers, FindOffering(c) \/ DescribeSpot(c) \/ WaitStatus(c) \/
                  WaitGroups(c) \/ WaitStatusAgain(c)
      PROVE  RequestOK(l)'
  <2>1. UNCHANGED <<request, filled>>
    BY <1>4 DEF FindOffering, DescribeSpot, WaitStatus, WaitOk, WaitGroups, WaitStatusAgain,
       marketVars
  <2>2. Waiting(l) => Waiting(l)'
    <3>1. pc[c] # "WaitSpot"
      BY <1>4 DEF FindOffering, DescribeSpot, WaitStatus, WaitOk, WaitGroups, WaitStatusAgain
    <3> QED
      BY <1>4, <3>1, OwnFrame DEF Waiting, Others, Acts, Continue
  <2> QED
    BY <1>2, <2>1, <2>2
<1>5. ASSUME NEW c \in Callers, TagInstance(c) \/ ModifyGroups(c) \/ GetInstance(c) \/
                  DeleteKey(c) \/ Delete(c)
      PROVE  RequestOK(l)'
  <2>1. UNCHANGED <<request, filled>>
    BY <1>5 DEF TagInstance, ModifyGroups, GetInstance, DeleteKey, Delete, marketVars
  <2>2. Waiting(l) => Waiting(l)'
    <3>1. pc[c] # "WaitSpot"
      BY <1>5 DEF TagInstance, ModifyGroups, GetInstance, DeleteKey, Delete
    <3> QED
      BY <1>5, <3>1, OwnFrame DEF Waiting, Others, Acts, Continue
  <2> QED
    BY <1>2, <2>1, <2>2
<1>6. ASSUME NEW c \in Callers, ListAddresses(c) \/ GetAddress(c) \/ Disassociate(c) \/
                  Terminate(c) \/ WaitTerminated(c)
      PROVE  RequestOK(l)'
  <2>1. UNCHANGED <<request, filled>>
    BY <1>6 DEF ListAddresses, GetAddress, Disassociate, Terminate, WaitTerminated, marketVars
  <2>2. Waiting(l) => Waiting(l)'
    <3>1. pc[c] # "WaitSpot"
      BY <1>6 DEF ListAddresses, GetAddress, Disassociate, Terminate, WaitTerminated
    <3> QED
      BY <1>6, <3>1, OwnFrame DEF Waiting, Others, Acts, Continue
  <2> QED
    BY <1>2, <2>1, <2>2
<1>7. ASSUME NEW c \in Callers, Stop(c) \/ Start(c) \/ Associate(c) \/ FindInterface(c) \/
                  AssociateAddress(c)
      PROVE  RequestOK(l)'
  <2>1. UNCHANGED <<request, filled>>
    BY <1>7 DEF Stop, Switch, Start, Associate, FindInterface, AssociateAddress, marketVars
  <2>2. Waiting(l) => Waiting(l)'
    <3>1. pc[c] # "WaitSpot"
      BY <1>7 DEF Stop, Switch, Start, Associate, FindInterface, AssociateAddress
    <3> QED
      BY <1>7, <3>1, OwnFrame DEF Waiting, Others, Acts, Continue
  <2> QED
    BY <1>2, <2>1, <2>2
<1>8. ASSUME NEW c \in Callers, Purchase(c) PROVE RequestOK(l)'
  <2>1. UNCHANGED <<request, filled>>
    BY <1>8 DEF Purchase, marketVars
  <2>2. Waiting(l) => Waiting(l)'
    <3>1. pc[c] # "WaitSpot"
      BY <1>8 DEF Purchase
    <3> QED
      BY <1>8, <3>1, OwnFrame DEF Waiting, Others, Acts, Continue
  <2> QED
    BY <1>2, <2>1, <2>2
<1>9. ASSUME NEW c \in Callers, RequestSpot(c) PROVE RequestOK(l)'
  <2>1. PICK a \in Answers(TRUE) :
          /\ Charge(a, call[c], "RequestSpot")
          /\ request' = IF Applied(a) THEN [request EXCEPT ![call[c]] = "open"] ELSE request
          /\ a = "ok" => Goto(c, "WaitSpot") /\ UNCHANGED call
    BY <1>9 DEF RequestSpot, Proceed, frameVars
  <2>2. pc[c] = "RequestSpot" /\ call[c] \in Keys /\ UNCHANGED filled
    BY <1>9 DEF RequestSpot, TypeInv, FrameInv, FrameOK, CreateCalls
  <2>3. request[call[c]] = "none" /\ call[c] \in used /\ filled[call[c]] = None
    BY <2>2, NoneAssumption DEF CallInv, CallOK, RequestOK
  <2>4. Waiting(l) => Waiting(l)'
    BY <1>9, <2>2, OwnFrame DEF Waiting, Others, Acts, Continue
  <2>5. CASE l # call[c] \/ UNCHANGED request
    <3>1. request'[l] = request[l]
      BY <2>1, <2>2, <2>5 DEF TypeInv, TypeOK
    <3> QED
      BY <1>1, <2>2, <2>4, <3>1, NoneAssumption DEF RequestOK, CallInv, Waiting, TypeInv, TypeOK
  <2>6. CASE l = call[c] /\ ~UNCHANGED request
    <3>1. request'[l] = "open"
      BY <2>1, <2>2, <2>6 DEF TypeInv, TypeOK
    <3>2. "RequestSpot" \in hit'[l] \/ Waiting(l)'
      <4>1. CASE a = "ok"
        BY <2>1, <2>6, <4>1 DEF Goto, Waiting, TypeInv, TypeOK
      <4>2. CASE a = "lost"
        BY <2>1, <2>6, <4>2, ChargeFacts DEF Causes, EC2Calls, CreateCalls, TypeInv
      <4> QED
        BY <2>1, <2>6, <4>1, <4>2 DEF Answers, Applied
    <3> QED
      BY <1>1, <2>2, <2>3, <2>6, <3>1, <3>2, NoneAssumption DEF RequestOK, Waiting
  <2> QED
    BY <2>5, <2>6
<1>10. ASSUME NEW c \in Callers, WaitSpot(c) PROVE RequestOK(l)'
  <2>1. pc[c] = "WaitSpot" /\ call[c] \in Keys /\ UNCHANGED <<request, filled>>
    BY <1>10 DEF WaitSpot, marketVars, TypeInv, FrameInv, FrameOK, CreateCalls
  <2>2. CASE l # call[c]
    <3>1. Waiting(l) => Waiting(l)'
      BY <1>10, <2>2, OwnFrame DEF Waiting, Others, Acts, Continue
    <3> QED
      BY <1>2, <2>1, <3>1
  <2>3. CASE l = call[c] /\ Note(call[c], "WaitSpot")
    <3>1. "WaitSpot" \in hit'[l]
      BY <2>1, <2>3, NoteFacts DEF Causes, EC2Calls, CreateCalls, TypeInv
    <3> QED
      BY <1>2, <2>1, <3>1
  <2>4. CASE l = call[c] /\ request[call[c]] = "filled"
    BY <1>1, <2>1, <2>4, NoneAssumption DEF RequestOK, CallInv, TypeInv, TypeOK
  <2> QED
    BY <1>10, <2>2, <2>3, <2>4 DEF WaitSpot
<1>11. ASSUME NEW c \in Callers, CancelSpot(c) PROVE RequestOK(l)'
  <2>1. pc[c] = "CancelSpot" /\ UNCHANGED filled
    BY <1>11 DEF CancelSpot
  <2>2. PICK a \in Answers(request[call[c]] = "open") :
          request' = IF Applied(a) THEN [request EXCEPT ![call[c]] = "cancelled"] ELSE request
    BY <1>11 DEF CancelSpot
  <2>3. Waiting(l) => Waiting(l)'
    BY <1>11, <2>1, OwnFrame DEF Waiting, Others, Acts, Continue
  <2>4. CASE request'[l] = request[l]
    BY <1>1, <2>1, <2>3, <2>4, NoneAssumption DEF RequestOK, CallInv, Waiting, TypeInv, TypeOK
  <2>5. CASE request[l] = "open" /\ request'[l] = "cancelled"
    BY <1>1, <2>1, <2>5, NoneAssumption DEF RequestOK, CallInv, TypeInv, TypeOK
  <2> QED
    BY <2>2, <2>4, <2>5 DEF TypeInv, TypeOK, Answers, Applied
<1>12. ASSUME NEW j \in Instances, Boot(j) \/ Expire(j) \/ Reclaim(j) PROVE RequestOK(l)'
  <2>1. UNCHANGED <<request, filled, pc, call>>
    BY <1>12 DEF Boot, Expire, Reclaim, EC2Only, frameVars
  <2> QED
    BY <1>2, <2>1 DEF Waiting
<1>13. ASSUME NEW k \in Keys, NEW j \in Instances, Fill(k, j) PROVE RequestOK(l)'
  <2>1. /\ request' = [request EXCEPT ![k] = "filled"] /\ filled' = [filled EXCEPT ![k] = j]
        /\ UNCHANGED <<pc, call>> /\ made' = [made EXCEPT ![j] = k] /\ request[k] = "open"
    BY <1>13 DEF Fill, Launch, EC2Only, frameVars
  <2>2. CASE l = k
    BY <1>1, <2>1, <2>2 DEF RequestOK, CallInv, TypeInv, TypeOK
  <2>3. CASE l # k
    <3>1. request'[l] = request[l] /\ filled'[l] = filled[l]
      BY <2>1, <2>3 DEF TypeInv, TypeOK
    <3> QED
      BY <1>1, <2>1, <3>1, NoneAssumption DEF RequestOK, CallInv, TypeInv, TypeOK
  <2> QED
    BY <2>2, <2>3
<1>14. CASE UNCHANGED vars
  <2>1. UNCHANGED <<request, filled, pc, call>>
    BY <1>14 DEF vars, marketVars, frameVars
  <2> QED
    BY <1>2, <2>1 DEF Waiting
<1> QED
  BY <1>3, <1>4, <1>5, <1>6, <1>7, <1>8, <1>9, <1>10, <1>11, <1>12, <1>13, <1>14 DEF Next,
     Continue, EC2

LEMMA CallInvStep ==
  ASSUME TypeInv, CallInv, [Next]_vars
  PROVE  CallInv'
BY InstancesStep, CallsStep, SoleStep, RequestsStep, DoomedStep, KnownStep DEF CallInv

-----------------------------------------------------------------------------
\* What each property needs

Grouped(i) == i \in grouped \/ hit[made[i]] \cap {"ModifyGroups", "Reclaim"} # {}
StillUp(i) == inst[i] \in Up \/ "Reclaim" \in hit[made[i]] \/ i \in doomed

\* The group was set if the instance is still there to be waited for.
Handled(i) == Grouped(i) \/ inst[i] \notin Up

\* What caller c, in Create, has done for its instance.
BuiltOK(c) ==
  /\ pc[c] \in Completing \ {"TagInstance"} => cur[c] \in tagged
  /\ pc[c] = "WaitGroups" => Handled(cur[c])
  /\ pc[c] \in {"WaitStatusAgain", "GetInstance"} => Grouped(cur[c])
  /\ pc[c] \in Completing => StillUp(cur[c])
  /\ pc[c] = "DeleteKey" /\ cur[c] # None =>
       cur[c] \in tagged /\ Grouped(cur[c]) /\ StillUp(cur[c])

\* ReturnedServerComplete, for one server.
ReturnedOK(i) == i \in tagged /\ Grouped(i) /\ StillUp(i)

LeakCauses == {"RunInstances", "RequestSpot", "WaitSpot", "DescribeSpot", "ListAddresses",
               "Terminate", "GetInstance"}

\* Caller c will find out what becomes of i.
Controls(c, i) ==
  /\ call[c] = made[i]
  /\ \/ pc[c] \in {"WaitSpot", "DescribeSpot"} /\ filled[call[c]] = i
     \/ /\ pc[c] \in Completing \cup {"WaitStatus", "DeleteKey"} \cup Ending
        /\ cur[c] = i

InstanceKept(i) ==
  inst[i] \in Up => \/ i \in known \/ hit[made[i]] \cap LeakCauses # {}
                    \/ \E c \in Callers : Controls(c, i)

\* Caller c will terminate i.
WillEnd(c, i) == pc[c] \in Ending /\ cur[c] = i

DeletionOK(i) ==
  \/ inst[i] \notin Up
  \/ hit[made[i]] \cap {"ListAddresses", "Terminate"} # {}
  \/ \E c \in Callers : WillEnd(c, i)

SafetyInv ==
  /\ KeyPairsTemporary
  /\ (\A i \in known : ReturnedOK(i)) /\ \A c \in Callers : BuiltOK(c)
  /\ \A i \in Instances : InstanceKept(i)
  /\ \A i \in doomed : DeletionOK(i)

IInv == TypeInv /\ CallInv /\ SafetyInv

\* What holds of every step, of a call of Create and of an instance that comes from one.
LEMMA Monotone ==
  ASSUME TypeInv, CallInv, [Next]_vars, NEW i \in Instances, made[i] # None
  PROVE  /\ made[i] \in Keys /\ made'[i] = made[i] /\ inst[i] # "none" /\ inst'[i] # "none"
         /\ hit[made[i]] \subseteq hit'[made'[i]]
<1>1. made[i] \in Keys /\ inst[i] # "none"
  BY DEF TypeInv, TypeOK, CallInv, InstanceOK
<1> QED
  BY <1>1, MadeStays, FaultStep

\* The key pair of a call that is over was deleted, or its deletion was hit.
LEMMA KeyPairsStep ==
  ASSUME TypeInv, CallInv, KeyPairsTemporary, [Next]_vars
  PROVE  KeyPairsTemporary'
<1> USE DEF TypeInv, TypeOK, FrameInv, FrameOK, CreateCalls, DeleteCalls, AddressCalls,
   EC2Calls, Causes, KeyPairsTemporary, Running, CallInv, CallOK, frameVars, deleteVars,
   userVars, marketVars, keyVars, instanceVars, faultVars
<1>1. ASSUME NEW c \in Callers, Create(c) PROVE KeyPairsTemporary'
  BY <1>1, NoneAssumption DEF Create, Goto, Answers, ReadAnswers, Applied, Charge, Note,
     SoleCall
<1>2. ASSUME NEW c \in Callers, ImportKey(c) PROVE KeyPairsTemporary'
  BY <1>2, NoneAssumption DEF ImportKey, Goto, Proceed, Fail, ReturnFromCreate, Answers,
     ReadAnswers, Applied, Charge, Note, SoleCall
<1>3. ASSUME NEW c \in Callers, RunInstances(c) PROVE KeyPairsTemporary'
  BY <1>3, NoneAssumption DEF RunInstances, Launch, Goto, Fail, ReturnFromCreate, Answers,
     ReadAnswers, Applied, Charge, Note, SoleCall
<1>4. ASSUME NEW c \in Callers, RequestSpot(c) PROVE KeyPairsTemporary'
  BY <1>4, NoneAssumption DEF RequestSpot, Goto, Proceed, Fail, ReturnFromCreate, Answers,
     ReadAnswers, Applied, Charge, Note, SoleCall
<1>5. ASSUME NEW c \in Callers, WaitSpot(c) PROVE KeyPairsTemporary'
  BY <1>5, NoneAssumption DEF WaitSpot, Goto, Proceed, Answers, ReadAnswers, Applied, Charge,
     Note, SoleCall
<1>6. ASSUME NEW c \in Callers, CancelSpot(c) PROVE KeyPairsTemporary'
  BY <1>6, NoneAssumption DEF CancelSpot, Goto, Fail, ReturnFromCreate, Answers, ReadAnswers,
     Applied, Charge, Note, SoleCall
<1>7. ASSUME NEW c \in Callers, DescribeSpot(c) PROVE KeyPairsTemporary'
  BY <1>7, NoneAssumption DEF DescribeSpot, Goto, Fail, ReturnFromCreate, Answers, ReadAnswers,
     Applied, Charge, Note, SoleCall
<1>8. ASSUME NEW c \in Callers, FindOffering(c) PROVE KeyPairsTemporary'
  BY <1>8, NoneAssumption DEF FindOffering, Goto, Proceed, Fail, ReturnFromCreate, Answers,
     ReadAnswers, Applied, Charge, Note, SoleCall
<1>9. ASSUME NEW c \in Callers, Purchase(c) PROVE KeyPairsTemporary'
  BY <1>9, NoneAssumption DEF Purchase, Goto, Proceed, Fail, ReturnFromCreate, Answers,
     ReadAnswers, Applied, Charge, Note, SoleCall
<1>10. ASSUME NEW c \in Callers, WaitStatus(c) PROVE KeyPairsTemporary'
  BY <1>10, NoneAssumption DEF WaitStatus, WaitOk, Rollback, Goto, Proceed, Answers,
     ReadAnswers, Applied, Charge, Note, SoleCall
<1>11. ASSUME NEW c \in Callers, TagInstance(c) PROVE KeyPairsTemporary'
  BY <1>11, NoneAssumption DEF TagInstance, Rollback, Goto, Proceed, Answers, ReadAnswers,
     Applied, Charge, Note, SoleCall
<1>12. ASSUME NEW c \in Callers, ModifyGroups(c) PROVE KeyPairsTemporary'
  BY <1>12, NoneAssumption DEF ModifyGroups, Goto, Proceed, IsUp, Answers, ReadAnswers, Applied,
     Charge, Note, SoleCall
<1>13. ASSUME NEW c \in Callers, WaitGroups(c) PROVE KeyPairsTemporary'
  BY <1>13, NoneAssumption DEF WaitGroups, WaitOk, Rollback, Goto, Proceed, Answers,
     ReadAnswers, Applied, Charge, Note, SoleCall
<1>14. ASSUME NEW c \in Callers, WaitStatusAgain(c) PROVE KeyPairsTemporary'
  BY <1>14, NoneAssumption DEF WaitStatusAgain, WaitOk, Rollback, Goto, Proceed, Answers,
     ReadAnswers, Applied, Charge, Note, SoleCall
<1>15. ASSUME NEW c \in Callers, GetInstance(c) PROVE KeyPairsTemporary'
  BY <1>15, NoneAssumption DEF GetInstance, Goto, Fail, ReturnFromCreate, Answers, ReadAnswers,
     Applied, Charge, Note, SoleCall
<1>16. ASSUME NEW c \in Callers, DeleteKey(c) PROVE KeyPairsTemporary'
  BY <1>16, NoneAssumption DEF DeleteKey, Goto, Answers, ReadAnswers, Applied, Charge, Note,
     SoleCall
<1>17. ASSUME NEW c \in Callers, Delete(c) PROVE KeyPairsTemporary'
  BY <1>17, NoneAssumption DEF Delete, Goto, Answers, ReadAnswers, Applied, Charge, Note,
     SoleCall
<1>18. ASSUME NEW c \in Callers, ListAddresses(c) PROVE KeyPairsTemporary'
  BY <1>18, NoneAssumption DEF ListAddresses, ReturnFromDelete, Goto, Fail, ReturnFromCreate,
     Answers, ReadAnswers, Applied, Charge, Note, SoleCall
<1>19. ASSUME NEW c \in Callers, GetAddress(c) PROVE KeyPairsTemporary'
  BY <1>19, NoneAssumption DEF GetAddress, Skip, Goto, Answers, ReadAnswers, Applied, Charge,
     Note, SoleCall
<1>20. ASSUME NEW c \in Callers, Disassociate(c) PROVE KeyPairsTemporary'
  BY <1>20, NoneAssumption DEF Disassociate, Skip, Goto, Answers, ReadAnswers, Applied, Charge,
     Note, SoleCall
<1>21. ASSUME NEW c \in Callers, Terminate(c) PROVE KeyPairsTemporary'
  BY <1>21, NoneAssumption DEF Terminate, Goto, Proceed, IsUp, Answers, ReadAnswers, Applied,
     Charge, Note, SoleCall
<1>22. ASSUME NEW c \in Callers, WaitTerminated(c) PROVE KeyPairsTemporary'
  BY <1>22, NoneAssumption DEF WaitTerminated, ReturnFromDelete, Goto, Fail, ReturnFromCreate,
     Answers, ReadAnswers, Applied, Charge, Note, SoleCall
<1>23. ASSUME NEW c \in Callers, Associate(c) PROVE KeyPairsTemporary'
  BY <1>23, NoneAssumption DEF Associate, Goto, Answers, ReadAnswers, Applied, Charge, Note,
     SoleCall
<1>24. ASSUME NEW c \in Callers, FindInterface(c) PROVE KeyPairsTemporary'
  BY <1>24, NoneAssumption DEF FindInterface, ReturnFromAssociate, Goto, Proceed, IsUp, Answers,
     ReadAnswers, Applied, Charge, Note, SoleCall
<1>25. ASSUME NEW c \in Callers, AssociateAddress(c) PROVE KeyPairsTemporary'
  BY <1>25, NoneAssumption DEF AssociateAddress, ReturnFromAssociate, Goto, IsUp, Answers,
     ReadAnswers, Applied, Charge, Note, SoleCall
<1>26. ASSUME NEW c \in Callers, Stop(c) \/ Start(c) PROVE KeyPairsTemporary'
  BY <1>26, NoneAssumption DEF Stop, Switch, Start, Answers, ReadAnswers, Applied, Charge, Note,
     SoleCall
<1>27. ASSUME NEW j \in Instances, Boot(j) \/ Expire(j) \/ Reclaim(j) PROVE KeyPairsTemporary'
  BY <1>27, NoneAssumption DEF Boot, EC2Only, Expire, Reclaim, Answers, ReadAnswers, Applied,
     Charge, Note, SoleCall
<1>28. ASSUME NEW k \in Keys, NEW j \in Instances, Fill(k, j) PROVE KeyPairsTemporary'
  BY <1>28, NoneAssumption DEF Fill, Launch, EC2Only, Answers, ReadAnswers, Applied, Charge,
     Note, SoleCall
<1>29. CASE UNCHANGED vars
  BY <1>29 DEF vars
<1> QED
  BY <1>1, <1>2, <1>3, <1>4, <1>5, <1>6, <1>7, <1>8, <1>9, <1>10, <1>11, <1>12, <1>13, <1>14,
     <1>15, <1>16, <1>17, <1>18, <1>19, <1>20, <1>21, <1>22, <1>23, <1>24, <1>25, <1>26, <1>27,
     <1>28, <1>29 DEF Next, Continue, EC2

\* Only Delete and EC2 end an instance: the caller that ends a server was asked to, or it runs the
\* call of Create the server comes from.
LEMMA TerminatorFacts ==
  ASSUME TypeInv, CallInv, NEW c \in Callers, pc[c] \in Ending, cur[c] # None
  PROVE  cur[c] \in doomed \/ (call[c] # None /\ call[c] = made[cur[c]])
BY DEF TypeInv, TypeOK, FrameInv, FrameOK, Ending, DeleteCalls, CallInv, CallOK

LEMMA NewKnown ==
  ASSUME TypeInv, [Next]_vars, NEW i \in known' \ known
  PROVE  \E d \in Callers : DeleteKey(d) /\ cur[d] = i
<1>1. ASSUME NEW c \in Callers, Create(c) \/ ImportKey(c) \/ RunInstances(c) \/ RequestSpot(c)
      PROVE  \E d \in Callers : DeleteKey(d) /\ cur[d] = i
  BY <1>1 DEF Create, ImportKey, RunInstances, RequestSpot, userVars
<1>2. ASSUME NEW c \in Callers, WaitSpot(c) \/ CancelSpot(c) \/ DescribeSpot(c) \/
                  FindOffering(c) \/ Purchase(c)
      PROVE  \E d \in Callers : DeleteKey(d) /\ cur[d] = i
  BY <1>2 DEF WaitSpot, CancelSpot, DescribeSpot, FindOffering, Purchase, userVars
<1>3. ASSUME NEW c \in Callers, WaitStatus(c) \/ WaitGroups(c) \/ WaitStatusAgain(c) \/
                  TagInstance(c) \/ ModifyGroups(c) \/ GetInstance(c)
      PROVE  \E d \in Callers : DeleteKey(d) /\ cur[d] = i
  BY <1>3 DEF WaitStatus, WaitOk, WaitGroups, WaitStatusAgain, TagInstance, ModifyGroups,
     GetInstance, userVars
<1>4. ASSUME NEW c \in Callers, Delete(c) \/ ListAddresses(c) \/ GetAddress(c)
      PROVE  \E d \in Callers : DeleteKey(d) /\ cur[d] = i
  BY <1>4 DEF Delete, ListAddresses, GetAddress, userVars
<1>5. ASSUME NEW c \in Callers, Disassociate(c) \/ Terminate(c) \/ WaitTerminated(c)
      PROVE  \E d \in Callers : DeleteKey(d) /\ cur[d] = i
  BY <1>5 DEF Disassociate, Terminate, WaitTerminated, userVars
<1>6. ASSUME NEW c \in Callers, Stop(c) \/ Start(c) \/ Associate(c) \/ FindInterface(c) \/
                  AssociateAddress(c)
      PROVE  \E d \in Callers : DeleteKey(d) /\ cur[d] = i
  BY <1>6 DEF Stop, Switch, Start, Associate, FindInterface, AssociateAddress, userVars
<1>7. ASSUME NEW j \in Instances, Boot(j) \/ Expire(j) \/ Reclaim(j)
      PROVE  \E d \in Callers : DeleteKey(d) /\ cur[d] = i
  BY <1>7 DEF Boot, Expire, Reclaim, userVars, EC2Only
<1>8. ASSUME NEW k \in Keys, NEW j \in Instances, Fill(k, j)
      PROVE  \E d \in Callers : DeleteKey(d) /\ cur[d] = i
  BY <1>8 DEF Fill, userVars, EC2Only
<1>9. ASSUME NEW c \in Callers, DeleteKey(c) PROVE \E d \in Callers : DeleteKey(d) /\ cur[d] = i
  BY <1>9 DEF DeleteKey, userVars
<1>10. CASE UNCHANGED vars
  BY <1>10 DEF vars, userVars
<1> QED
  BY <1>1, <1>2, <1>3, <1>4, <1>5, <1>6, <1>7, <1>8, <1>9, <1>10 DEF Next, Continue, EC2

\* A call of Create that is not undoing its instance finds it as it was, unless it was reclaimed or
\* users, who may have it from a list, asked for its deletion.
LEMMA BuiltStays ==
  ASSUME TypeInv, CallInv, [Next]_vars, NEW e \in Callers, NEW i \in Instances,
         call[e] # None, cur[e] = i, pc[e] \notin Ending
  PROVE  /\ i \in tagged => i \in tagged'
         /\ Grouped(i) => Grouped(i)'
         /\ Handled(i) => Handled(i)'
         /\ StillUp(i) => StillUp(i)'
<1>1. made[i] = call[e] /\ made[i] # None
  BY NoneAssumption DEF CallInv, CallOK
<1>2. made'[i] = made[i] /\ hit[made[i]] \subseteq hit'[made'[i]] /\ Grows
  BY <1>1, Monotone, GrowStep
<1>3. ASSUME NEW c \in Callers, pc[c] = "Terminate", cur[c] = i PROVE i \in doomed
  <2>1. i \in doomed \/ (call[c] # None /\ call[c] = made[i])
    BY <1>3, NoneAssumption, TerminatorFacts DEF Ending
  <2>2. c # e
    BY <1>3 DEF Ending
  <2> QED
    BY <1>1, <2>1, <2>2 DEF CallInv, SoleCall
<1>4. InstanceMove(i) /\ inst[i] # "none"
  BY <1>1, InstanceMoves, Monotone
<1>5. StillUp(i) => StillUp(i)'
  BY <1>1, <1>2, <1>3, <1>4 DEF InstanceMove, StillUp, Grows
<1>6. Grouped(i) => Grouped(i)'
  BY <1>2 DEF Grouped, Grows
<1>7. inst[i] \notin Up => inst'[i] \notin Up
  BY <1>4 DEF InstanceMove
<1> QED
  BY <1>2, <1>5, <1>6, <1>7 DEF Handled, Grows

\* A server that was returned stays complete until its deletion is asked for.
LEMMA ReturnedStep ==
  ASSUME IInv, [Next]_vars, NEW i \in known'
  PROVE  ReturnedOK(i)'
<1> USE DEF IInv
<1>1. TypeInv' /\ CallInv' /\ Grows
  BY TypeStep, CallInvStep, GrowStep
<1>2. CASE i \in known
  <2>1. ReturnedOK(i) /\ i \in Instances /\ KnownOK(i)
    BY <1>2 DEF SafetyInv, TypeInv, TypeOK, CallInv
  <2>2. made[i] # None
    BY <2>1, NoneAssumption DEF KnownOK, CallInv, InstanceOK, TypeInv, TypeOK
  <2>3. made'[i] = made[i] /\ hit[made[i]] \subseteq hit'[made'[i]]
    BY <2>1, <2>2, Monotone
  <2>4. ASSUME i \notin doomed, inst[i] \in Up, inst'[i] \notin Up
        PROVE  "Reclaim" \in hit'[made'[i]]
    <3>1. ASSUME NEW c \in Callers, pc[c] = "Terminate", cur[c] = i PROVE FALSE
      <4>1. call[c] # None /\ call[c] = made[i]
        BY <2>1, <2>4, <3>1, NoneAssumption, TerminatorFacts DEF Ending
      <4> QED
        BY <2>1, <4>1 DEF KnownOK, Running
    <3> QED
      BY <2>1, <2>2, <2>3, <2>4, <3>1, InstanceMoves DEF InstanceMove, KnownOK, Up
  <2> QED
    BY <1>1, <2>1, <2>3, <2>4 DEF ReturnedOK, Grouped, StillUp, Grows
<1>3. CASE i \notin known
  <2>1. PICK c \in Callers : DeleteKey(c) /\ cur[c] = i
    BY <1>3, NewKnown
  <2>2. i \in Instances /\ i # None
    BY <1>1, NoneAssumption DEF TypeInv, TypeOK
  <2>3. i \in tagged /\ Grouped(i) /\ StillUp(i)
    BY <2>1, <2>2 DEF DeleteKey, SafetyInv, BuiltOK
  <2>4. pc[c] \notin Ending /\ call[c] # None
    BY <2>1, NoneAssumption DEF DeleteKey, Ending, TypeInv, FrameInv, FrameOK, CreateCalls
  <2> QED
    BY <2>1, <2>2, <2>3, <2>4, BuiltStays DEF ReturnedOK
<1> QED
  BY <1>2, <1>3

LEMMA BuiltStep ==
  ASSUME TypeInv, CallInv, [Next]_vars, NEW e \in Callers, BuiltOK(e)
  PROVE  BuiltOK(e)'
<1>1. ASSUME pc'[e] \notin Completing, pc'[e] = "DeleteKey" => cur'[e] = None PROVE BuiltOK(e)'
  BY <1>1 DEF BuiltOK, Completing
<1>2. ASSUME pc[e] \in Completing \cup {"DeleteKey"}, cur[e] # None
      PROVE  /\ cur[e] \in Instances /\ call[e] # None /\ pc[e] \notin Ending
             /\ pc[e] \in Completing => StillUp(cur[e])
  BY <1>2, NoneAssumption DEF TypeInv, TypeOK, FrameInv, FrameOK, CreateCalls, Completing, Ending,
         BuiltOK
<1>3. ASSUME pc'[e] = pc[e], cur'[e] = cur[e] PROVE BuiltOK(e)'
  <2>1. CASE pc[e] \notin Completing /\ (pc[e] = "DeleteKey" => cur[e] = None)
    BY <1>1, <1>3, <2>1
  <2>2. CASE pc[e] \in Completing \/ (pc[e] = "DeleteKey" /\ cur[e] # None)
    <3>1. cur[e] # None
      BY <2>2, NoneAssumption DEF TypeInv, FrameInv, FrameOK
    <3>2. PICK i \in Instances : i = cur[e]
      BY <1>2, <2>2, <3>1
    <3>3. /\ i \in tagged => i \in tagged'
          /\ Grouped(i) => Grouped(i)'
          /\ Handled(i) => Handled(i)'
          /\ StillUp(i) => StillUp(i)'
      BY <1>2, <2>2, <3>1, <3>2, BuiltStays
    <3> QED
      BY <1>3, <3>2, <3>3 DEF BuiltOK, Grouped, Handled, StillUp
  <2> QED
    BY <2>1, <2>2
<1>4. ASSUME pc[e] \in Completing
      PROVE  \E i \in Instances : /\ i = cur[e] /\ StillUp(i)'
                                  /\ pc[e] # "TagInstance" => i \in tagged'
                                  /\ pc[e] = "WaitGroups" => Handled(i)'
                                  /\ pc[e] \in {"WaitStatusAgain", "GetInstance"} => Grouped(i)'
  <2>1. cur[e] \in Instances /\ cur[e] # None
    BY <1>4, NoneAssumption DEF TypeInv, FrameInv, FrameOK
  <2>2. PICK i \in Instances : i = cur[e]
    BY <2>1
  <2>3. /\ i \in tagged => i \in tagged'
        /\ Grouped(i) => Grouped(i)'
        /\ Handled(i) => Handled(i)'
        /\ StillUp(i) => StillUp(i)'
    BY <1>2, <1>4, <2>1, <2>2, BuiltStays
  <2> QED
    BY <1>2, <1>4, <2>1, <2>2, <2>3 DEF BuiltOK
<1>5. ASSUME NEW c \in Callers, Create(c) \/ ImportKey(c) PROVE BuiltOK(e)'
  <2>1. CASE c # e
    BY <1>5, <2>1, <1>3, OwnFrame DEF Others, Acts, Continue
  <2>2. CASE c = e
    <3>1. pc'[c] \notin Completing /\ (pc'[c] = "DeleteKey" => cur'[c] = None)
      BY <1>5 DEF Create, Goto, ImportKey, Proceed, Fail, ReturnFromCreate, TypeInv, TypeOK,
         FrameInv, FrameOK, Completing, CreateCalls, Starting, frameVars
    <3> QED
      BY <1>1, <2>2, <3>1
  <2> QED
    BY <2>1, <2>2
<1>6. ASSUME NEW c \in Callers, RunInstances(c) PROVE BuiltOK(e)'
  <2>1. CASE c # e
    BY <1>6, <2>1, <1>3, OwnFrame DEF Others, Acts, Continue
  <2>2. CASE c = e
    <3>1. pc'[c] \notin Completing /\ (pc'[c] = "DeleteKey" => cur'[c] = None)
      BY <1>6 DEF RunInstances, Launch, Goto, Fail, ReturnFromCreate, TypeInv, TypeOK, FrameInv,
         FrameOK, Completing, CreateCalls, Starting, frameVars
    <3> QED
      BY <1>1, <2>2, <3>1
  <2> QED
    BY <2>1, <2>2
<1>7. ASSUME NEW c \in Callers, RequestSpot(c) \/ WaitSpot(c) \/ CancelSpot(c) PROVE BuiltOK(e)'
  <2>1. CASE c # e
    BY <1>7, <2>1, <1>3, OwnFrame DEF Others, Acts, Continue
  <2>2. CASE c = e
    <3>1. pc'[c] \notin Completing /\ (pc'[c] = "DeleteKey" => cur'[c] = None)
      BY <1>7 DEF RequestSpot, Goto, Proceed, Fail, ReturnFromCreate, WaitSpot, CancelSpot,
         TypeInv, TypeOK, FrameInv, FrameOK, Completing, CreateCalls, Starting, frameVars
    <3> QED
      BY <1>1, <2>2, <3>1
  <2> QED
    BY <2>1, <2>2
<1>8. ASSUME NEW c \in Callers, DescribeSpot(c) \/ FindOffering(c) \/ Purchase(c)
      PROVE  BuiltOK(e)'
  <2>1. CASE c # e
    BY <1>8, <2>1, <1>3, OwnFrame DEF Others, Acts, Continue
  <2>2. CASE c = e
    <3>1. pc'[c] \notin Completing /\ (pc'[c] = "DeleteKey" => cur'[c] = None)
      BY <1>8 DEF DescribeSpot, Goto, Fail, ReturnFromCreate, FindOffering, Proceed, Purchase,
         TypeInv, TypeOK, FrameInv, FrameOK, Completing, CreateCalls, Starting, frameVars
    <3> QED
      BY <1>1, <2>2, <3>1
  <2> QED
    BY <2>1, <2>2
<1>9. ASSUME NEW c \in Callers, Delete(c) \/ Associate(c) PROVE BuiltOK(e)'
  <2>1. CASE c # e
    BY <1>9, <2>1, <1>3, OwnFrame DEF Others, Acts, Continue
  <2>2. CASE c = e
    <3>1. pc'[c] \notin Completing /\ (pc'[c] = "DeleteKey" => cur'[c] = None)
      BY <1>9 DEF Delete, Goto, Associate, TypeInv, TypeOK, FrameInv, FrameOK, Completing,
         CreateCalls, Starting, frameVars
    <3> QED
      BY <1>1, <2>2, <3>1
  <2> QED
    BY <2>1, <2>2
<1>10. ASSUME NEW c \in Callers, DeleteKey(c) PROVE BuiltOK(e)'
  <2>1. CASE c # e
    BY <1>10, <2>1, <1>3, OwnFrame DEF Others, Acts, Continue
  <2>2. CASE c = e
    <3>1. pc'[c] \notin Completing /\ (pc'[c] = "DeleteKey" => cur'[c] = None)
      BY <1>10 DEF DeleteKey, Goto, TypeInv, TypeOK, FrameInv, FrameOK, Completing, CreateCalls,
         Starting, frameVars
    <3> QED
      BY <1>1, <2>2, <3>1
  <2> QED
    BY <2>1, <2>2
<1>11. ASSUME NEW c \in Callers, ListAddresses(c) PROVE BuiltOK(e)'
  <2>1. CASE c # e
    BY <1>11, <2>1, <1>3, OwnFrame DEF Others, Acts, Continue
  <2>2. CASE c = e
    <3>1. pc'[c] \notin Completing /\ (pc'[c] = "DeleteKey" => cur'[c] = None)
      BY <1>11 DEF ListAddresses, ReturnFromDelete, Goto, Fail, ReturnFromCreate, TypeInv, TypeOK,
         FrameInv, FrameOK, Completing, CreateCalls, Starting, frameVars
    <3> QED
      BY <1>1, <2>2, <3>1
  <2> QED
    BY <2>1, <2>2
<1>12. ASSUME NEW c \in Callers, GetAddress(c) PROVE BuiltOK(e)'
  <2>1. CASE c # e
    BY <1>12, <2>1, <1>3, OwnFrame DEF Others, Acts, Continue
  <2>2. CASE c = e
    <3>1. pc'[c] \notin Completing /\ (pc'[c] = "DeleteKey" => cur'[c] = None)
      BY <1>12 DEF GetAddress, Skip, Goto, TypeInv, TypeOK, FrameInv, FrameOK, Completing,
         CreateCalls, Starting, frameVars
    <3> QED
      BY <1>1, <2>2, <3>1
  <2> QED
    BY <2>1, <2>2
<1>13. ASSUME NEW c \in Callers, Disassociate(c) PROVE BuiltOK(e)'
  <2>1. CASE c # e
    BY <1>13, <2>1, <1>3, OwnFrame DEF Others, Acts, Continue
  <2>2. CASE c = e
    <3>1. pc'[c] \notin Completing /\ (pc'[c] = "DeleteKey" => cur'[c] = None)
      BY <1>13 DEF Disassociate, Skip, Goto, TypeInv, TypeOK, FrameInv, FrameOK, Completing,
         CreateCalls, Starting, frameVars
    <3> QED
      BY <1>1, <2>2, <3>1
  <2> QED
    BY <2>1, <2>2
<1>14. ASSUME NEW c \in Callers, Terminate(c) PROVE BuiltOK(e)'
  <2>1. CASE c # e
    BY <1>14, <2>1, <1>3, OwnFrame DEF Others, Acts, Continue
  <2>2. CASE c = e
    <3>1. pc'[c] \notin Completing /\ (pc'[c] = "DeleteKey" => cur'[c] = None)
      BY <1>14 DEF Terminate, Goto, Proceed, IsUp, TypeInv, TypeOK, FrameInv, FrameOK, Completing,
         CreateCalls, Starting, frameVars
    <3> QED
      BY <1>1, <2>2, <3>1
  <2> QED
    BY <2>1, <2>2
<1>15. ASSUME NEW c \in Callers, WaitTerminated(c) PROVE BuiltOK(e)'
  <2>1. CASE c # e
    BY <1>15, <2>1, <1>3, OwnFrame DEF Others, Acts, Continue
  <2>2. CASE c = e
    <3>1. pc'[c] \notin Completing /\ (pc'[c] = "DeleteKey" => cur'[c] = None)
      BY <1>15 DEF WaitTerminated, ReturnFromDelete, Goto, Fail, ReturnFromCreate, TypeInv,
             TypeOK, FrameInv, FrameOK, Completing, CreateCalls, Starting, frameVars
    <3> QED
      BY <1>1, <2>2, <3>1
  <2> QED
    BY <2>1, <2>2
<1>16. ASSUME NEW c \in Callers, FindInterface(c) \/ AssociateAddress(c) PROVE BuiltOK(e)'
  <2>1. CASE c # e
    BY <1>16, <2>1, <1>3, OwnFrame DEF Others, Acts, Continue
  <2>2. CASE c = e
    <3>1. pc'[c] \notin Completing /\ (pc'[c] = "DeleteKey" => cur'[c] = None)
      BY <1>16 DEF FindInterface, ReturnFromAssociate, Goto, Proceed, IsUp, AssociateAddress,
         TypeInv, TypeOK, FrameInv, FrameOK, Completing, CreateCalls, Starting, frameVars
    <3> QED
      BY <1>1, <2>2, <3>1
  <2> QED
    BY <2>1, <2>2
<1>17. ASSUME NEW c \in Callers, Stop(c) \/ Start(c) PROVE BuiltOK(e)'
  <2>1. UNCHANGED <<pc, cur>>
    BY <1>17 DEF Stop, Start, Switch, frameVars
  <2> QED
    BY <1>3, <2>1
<1>18. ASSUME NEW c \in Callers, WaitStatus(c) PROVE BuiltOK(e)'
  <2>1. CASE c # e
    BY <1>18, <2>1, <1>3, OwnFrame DEF Others, Acts, Continue
  <2>2. CASE c = e
    <3>1. CASE pc'[c] = "TagInstance"
      <4>1. cur'[c] = cur[c] /\ inst'[cur[c]] \in Up
        BY <1>18, <3>1 DEF WaitStatus, WaitOk, Rollback, Proceed, Goto, frameVars, instanceVars,
               Up, TypeInv, TypeOK
      <4> QED
        BY <2>2, <3>1, <4>1 DEF BuiltOK, StillUp, Completing
    <3>2. CASE pc'[c] # "TagInstance"
      <4>1. pc'[c] = "ListAddresses"
        BY <1>18, <3>2 DEF WaitStatus, WaitOk, Rollback, Proceed, Goto, TypeInv, TypeOK
      <4> QED
        BY <1>1, <2>2, <4>1 DEF Completing
    <3> QED
      BY <3>1, <3>2
  <2> QED
    BY <2>1, <2>2
<1>19. ASSUME NEW c \in Callers, WaitGroups(c) PROVE BuiltOK(e)'
  <2>1. CASE c # e
    BY <1>19, <2>1, <1>3, OwnFrame DEF Others, Acts, Continue
  <2>2. CASE c = e
    <3>1. /\ pc[c] = "WaitGroups" /\ cur'[c] = cur[c] /\ pc[c] \in Completing
          /\ pc'[c] \in {"ListAddresses", "WaitStatusAgain"}
          /\ pc'[c] = "WaitStatusAgain" => inst'[cur[c]] \in Up
      BY <1>19 DEF WaitGroups, WaitOk, Rollback, Proceed, Goto, frameVars, instanceVars, Up,
             TypeInv, TypeOK, Completing
    <3> QED
      BY <1>4, <2>2, <3>1 DEF BuiltOK, Grouped, Handled, StillUp, Completing
  <2> QED
    BY <2>1, <2>2
<1>20. ASSUME NEW c \in Callers, WaitStatusAgain(c) PROVE BuiltOK(e)'
  <2>1. CASE c # e
    BY <1>20, <2>1, <1>3, OwnFrame DEF Others, Acts, Continue
  <2>2. CASE c = e
    <3>1. /\ pc[c] = "WaitStatusAgain" /\ cur'[c] = cur[c] /\ pc[c] \in Completing
          /\ pc'[c] \in {"ListAddresses", "GetInstance"}
      BY <1>20 DEF WaitStatusAgain, WaitOk, Rollback, Proceed, Goto, frameVars, TypeInv, TypeOK,
             Completing
    <3> QED
      BY <1>4, <2>2, <3>1 DEF BuiltOK, Grouped, StillUp, Completing
  <2> QED
    BY <2>1, <2>2
<1>21. ASSUME NEW c \in Callers, TagInstance(c) PROVE BuiltOK(e)'
  <2>1. CASE c # e
    BY <1>21, <2>1, <1>3, OwnFrame DEF Others, Acts, Continue
  <2>2. CASE c = e
    <3>1. /\ pc[c] = "TagInstance" /\ cur'[c] = cur[c] /\ pc[c] \in Completing
          /\ pc'[c] = "ListAddresses" \/ (pc'[c] = "ModifyGroups" /\ cur[c] \in tagged')
      BY <1>21 DEF TagInstance, Rollback, Proceed, Goto, Answers, Applied, frameVars, TypeInv,
             TypeOK, Completing
    <3> QED
      BY <1>4, <2>2, <3>1 DEF BuiltOK, StillUp, Completing
  <2> QED
    BY <2>1, <2>2
<1>22. ASSUME NEW c \in Callers, ModifyGroups(c) PROVE BuiltOK(e)'
  <2>1. CASE c # e
    BY <1>22, <2>1, <1>3, OwnFrame DEF Others, Acts, Continue
  <2>2. CASE c = e
    <3>1. /\ pc[c] = "ModifyGroups" /\ pc'[c] \in {"WaitGroups", "WaitStatusAgain"}
          /\ pc'[c] = "WaitStatusAgain" => cur[c] \in grouped'
          /\ cur'[c] = cur[c]
          /\ pc[c] \in Completing /\ UNCHANGED inst
      BY <1>22 DEF ModifyGroups, Proceed, Goto, frameVars, TypeInv, TypeOK, Completing
    <3>2. PICK i \in Instances : i = cur[c] /\ StillUp(i)' /\ i \in tagged'
      BY <1>4, <2>2, <3>1
    <3>3. Handled(i)'
      <4>1. made[i] = call[c] /\ call[c] \in Keys /\ i # None
        BY <3>1, <3>2, NoneAssumption DEF TypeInv, FrameInv, FrameOK, Completing, CreateCalls,
               CallInv, CallOK
      <4>2. made'[i] = made[i]
        BY <4>1, Monotone, NoneAssumption
      <4>3. CASE grouped' = grouped \cup {cur[c]}
        BY <3>2, <4>3 DEF Handled, Grouped
      <4>4. SUFFICES ASSUME grouped' # grouped \cup {cur[c]} PROVE Handled(i)'
        BY <4>3
      <4>5. PICK a \in Answers(IsUp(cur[c])) :
              /\ Charge(a, call[c], "ModifyGroups")
              /\ grouped' = IF Applied(a) THEN grouped \cup {cur[c]} ELSE grouped
        BY <1>22, <4>4 DEF ModifyGroups
      <4>6. CASE Applied(a)
        BY <3>2, <4>5, <4>6 DEF Handled, Grouped
      <4>7. CASE a = "fail"
        <5>1. "ModifyGroups" \in hit'[call[c]]
          BY <4>1, <4>5, <4>7, ChargeFacts DEF Causes, EC2Calls, CreateCalls, TypeInv
        <5> QED
          BY <4>1, <4>2, <5>1 DEF Handled, Grouped
      <4>8. CASE a = "refused"
        <5>1. ~IsUp(cur[c])
          BY <4>8 DEF Answers
        <5> QED
          BY <3>1, <3>2, <4>1, <5>1 DEF Handled, IsUp
      <4> QED
        BY <4>5, <4>6, <4>7, <4>8 DEF Answers, Applied
    <3> QED
      BY <2>2, <3>1, <3>2, <3>3 DEF BuiltOK, Grouped, Handled, StillUp, Completing
  <2> QED
    BY <2>1, <2>2
<1>23. ASSUME NEW c \in Callers, GetInstance(c) PROVE BuiltOK(e)'
  <2>1. CASE c # e
    BY <1>23, <2>1, <1>3, OwnFrame DEF Others, Acts, Continue
  <2>2. CASE c = e
    <3>1. /\ pc[c] = "GetInstance" /\ pc'[c] = "DeleteKey" /\ pc[c] \in Completing
          /\ cur'[c] = cur[c] \/ cur'[c] = None
      BY <1>23 DEF GetInstance, Fail, ReturnFromCreate, Goto, TypeInv, TypeOK, Completing
    <3> QED
      BY <1>4, <2>2, <3>1 DEF BuiltOK, Grouped, StillUp, Completing
  <2> QED
    BY <2>1, <2>2
<1>24. ASSUME NEW j \in Instances, Boot(j) \/ Expire(j) \/ Reclaim(j) PROVE BuiltOK(e)'
  <2>1. UNCHANGED <<pc, cur>>
    BY <1>24 DEF Boot, Expire, Reclaim, EC2Only, frameVars
  <2> QED
    BY <1>3, <2>1
<1>25. ASSUME NEW k \in Keys, NEW j \in Instances, Fill(k, j) PROVE BuiltOK(e)'
  <2>1. UNCHANGED <<pc, cur>>
    BY <1>25 DEF Fill, EC2Only, frameVars
  <2> QED
    BY <1>3, <2>1
<1>26. CASE UNCHANGED vars
  BY <1>26, <1>3 DEF vars, frameVars
<1> QED
  BY <1>1, <1>2, <1>3, <1>4, <1>5, <1>6, <1>7, <1>8, <1>9, <1>10, <1>11, <1>12, <1>13, <1>14,
     <1>15, <1>16, <1>17, <1>18, <1>19, <1>20, <1>21, <1>22, <1>23, <1>24, <1>25, <1>26 DEF Next,
     Continue, EC2

\* What fills a request keeps filling it.
LEMMA FilledStays ==
  ASSUME TypeInv, CallInv, [Next]_vars, NEW k \in Keys, filled[k] # None
  PROVE  filled'[k] = filled[k]
<1>1. ASSUME NEW c \in Callers, Create(c) \/ ImportKey(c) \/ RunInstances(c) \/ RequestSpot(c)
      PROVE  filled'[k] = filled[k]
  BY <1>1 DEF Create, ImportKey, RunInstances, RequestSpot, marketVars
<1>2. ASSUME NEW c \in Callers, WaitSpot(c) \/ CancelSpot(c) \/ DescribeSpot(c) \/
                  FindOffering(c) \/ Purchase(c)
      PROVE  filled'[k] = filled[k]
  BY <1>2 DEF WaitSpot, CancelSpot, DescribeSpot, FindOffering, Purchase, marketVars
<1>3. ASSUME NEW c \in Callers, WaitStatus(c) \/ WaitGroups(c) \/ WaitStatusAgain(c) \/
                  TagInstance(c) \/ ModifyGroups(c) \/ GetInstance(c)
      PROVE  filled'[k] = filled[k]
  BY <1>3 DEF WaitStatus, WaitOk, WaitGroups, WaitStatusAgain, TagInstance, ModifyGroups,
     GetInstance, marketVars
<1>4. ASSUME NEW c \in Callers, Delete(c) \/ ListAddresses(c) \/ GetAddress(c) \/ DeleteKey(c)
      PROVE  filled'[k] = filled[k]
  BY <1>4 DEF Delete, ListAddresses, GetAddress, DeleteKey, marketVars
<1>5. ASSUME NEW c \in Callers, Disassociate(c) \/ Terminate(c) \/ WaitTerminated(c)
      PROVE  filled'[k] = filled[k]
  BY <1>5 DEF Disassociate, Terminate, WaitTerminated, marketVars
<1>6. ASSUME NEW c \in Callers, Stop(c) \/ Start(c) \/ Associate(c) \/ FindInterface(c) \/
                  AssociateAddress(c)
      PROVE  filled'[k] = filled[k]
  BY <1>6 DEF Stop, Switch, Start, Associate, FindInterface, AssociateAddress, marketVars
<1>7. ASSUME NEW j \in Instances, Boot(j) \/ Expire(j) \/ Reclaim(j)
      PROVE  filled'[k] = filled[k]
  BY <1>7 DEF Boot, Expire, Reclaim, marketVars, EC2Only
<1>8. ASSUME NEW l \in Keys, NEW j \in Instances, Fill(l, j) PROVE filled'[k] = filled[k]
  <2>1. request[l] = "open" /\ filled' = [filled EXCEPT ![l] = j]
    BY <1>8 DEF Fill
  <2>2. filled[l] = None
    BY <2>1 DEF CallInv, RequestOK
  <2> QED
    BY <2>1, <2>2 DEF TypeInv, TypeOK
<1>9. CASE UNCHANGED vars
  BY <1>9 DEF vars, marketVars
<1> QED
  BY <1>1, <1>2, <1>3, <1>4, <1>5, <1>6, <1>7, <1>8, <1>9 DEF Next, Continue, EC2

\* Delete goes on, or it ends the instance, or a fault hit it.
LEMMA EndingStep ==
  ASSUME TypeInv, CallInv, [Next]_vars, NEW c \in Callers, Continue(c), NEW i \in Instances,
         pc[c] \in Ending, cur[c] = i, made[i] # None
  PROVE  \/ WillEnd(c, i)' /\ call'[c] = call[c]
         \/ hit'[made'[i]] \cap {"ListAddresses", "Terminate"} # {}
         \/ inst'[i] \notin Up
<1> USE NoneAssumption
<1>1. made[i] \in Keys /\ made'[i] = made[i] /\ i # None
  BY Monotone
<1>2. Origin(c) = made[i]
  BY DEF Origin, CallInv, CallOK
<1>3. CASE ListAddresses(c)
  <2>1. PICK a \in ReadAnswers :
          /\ Charge(a, Origin(c), "ListAddresses")
          /\ a = "ok" => /\ pc' = [pc EXCEPT ![c] = "Terminate"] \/ pc' = [pc EXCEPT ![c] = "GetAddress"]
                         /\ UNCHANGED <<call, cur>>
    BY <1>3 DEF ListAddresses, Goto
  <2>2. CASE a = "ok"
    BY <2>1, <2>2 DEF WillEnd, Ending, TypeInv, TypeOK
  <2>3. CASE a = "fail"
    BY <1>1, <1>2, <2>1, <2>3, ChargeFacts DEF Causes, EC2Calls, DeleteCalls, TypeInv
  <2> QED
    BY <2>1, <2>2, <2>3 DEF ReadAnswers
<1>4. CASE GetAddress(c)
  BY <1>4 DEF GetAddress, Skip, Goto, WillEnd, Ending, TypeInv, TypeOK
<1>5. CASE Disassociate(c)
  BY <1>5 DEF Disassociate, Skip, Goto, WillEnd, Ending, TypeInv, TypeOK
<1>6. CASE Terminate(c)
  <2>1. PICK a \in Answers(cur[c] # None) :
          /\ Charge(a, Origin(c), "Terminate")
          /\ inst' = IF Applied(a) /\ IsUp(cur[c])
                     THEN [inst EXCEPT ![cur[c]] = "shutting-down"] ELSE inst
    BY <1>6 DEF Terminate
  <2>2. CASE Applied(a)
    BY <1>1, <2>1, <2>2 DEF IsUp, Up, TypeInv, TypeOK
  <2>3. CASE a = "fail"
    BY <1>1, <1>2, <2>1, <2>3, ChargeFacts DEF Causes, EC2Calls, DeleteCalls, TypeInv
  <2> QED
    BY <1>1, <2>1, <2>2, <2>3 DEF Answers, Applied
<1> QED

  BY <1>3, <1>4, <1>5, <1>6 DEF Continue, Ending, ImportKey, RunInstances, RequestSpot,
     WaitSpot, CancelSpot, DescribeSpot, FindOffering, Purchase, WaitStatus, TagInstance,
     ModifyGroups, WaitGroups, WaitStatusAgain, GetInstance, DeleteKey, WaitTerminated,
     FindInterface, AssociateAddress, WaitOk

\* A new instance is watched by the call it comes from, or that call was hit.
LEMMA LaunchKept ==
  ASSUME TypeInv, CallInv, [Next]_vars, NEW i \in Instances, inst[i] = "none", inst'[i] # "none"
  PROVE  InstanceKept(i)'
<1> USE NoneAssumption
<1>1. ASSUME NEW c \in Callers, RunInstances(c) PROVE InstanceKept(i)'
  <2>1. PICK a \in {"ok", "lost"}, j \in Instances :
          /\ Charge(a, call[c], "RunInstances")
          /\ Launch(j, call[c])
          /\ a = "ok" => /\ pc' = [pc EXCEPT ![c] = "WaitStatus"] /\ cur' = [cur EXCEPT ![c] = j]
                         /\ UNCHANGED call
    <3>1. ~UNCHANGED inst
      OBVIOUS
    <3> QED
      BY <1>1, <3>1 DEF RunInstances, Goto
  <2>2. call[c] \in Keys
    BY <1>1 DEF RunInstances, TypeInv, FrameInv, FrameOK, CreateCalls
  <2>3. j = i /\ made'[i] = call[c]
    BY <2>1 DEF Launch, TypeInv, TypeOK
  <2>4. CASE a = "ok"
    BY <2>1, <2>3, <2>4 DEF InstanceKept, Controls, TypeInv, TypeOK
  <2>5. CASE a = "lost"
    BY <2>1, <2>2, <2>3, <2>5, ChargeFacts DEF Causes, EC2Calls, CreateCalls, TypeInv,
           InstanceKept, LeakCauses
  <2> QED
    BY <2>4, <2>5
<1>2. ASSUME NEW k \in Keys, NEW j \in Instances, Fill(k, j) PROVE InstanceKept(i)'
  <2>1. /\ request[k] = "open" /\ Launch(j, k) /\ filled' = [filled EXCEPT ![k] = j]
        /\ UNCHANGED <<pc, call, hit>>
    BY <1>2 DEF Fill, EC2Only, frameVars, faultVars
  <2>2. j = i /\ made'[i] = k /\ filled'[k] = i
    BY <2>1 DEF Launch, TypeInv, TypeOK
  <2>3. \/ hit[k] \cap {"RequestSpot", "WaitSpot"} # {}
        \/ \E c \in Callers : call[c] = k /\ pc[c] = "WaitSpot"
    BY <2>1 DEF CallInv, RequestOK
  <2> QED
    BY <2>1, <2>2, <2>3 DEF InstanceKept, Controls, LeakCauses
<1>3. ASSUME NEW c \in Callers, Create(c) \/ ImportKey(c) \/ RequestSpot(c) PROVE FALSE
  BY <1>3 DEF Create, ImportKey, RequestSpot, instanceVars, TypeInv, TypeOK
<1>4. ASSUME NEW c \in Callers, WaitSpot(c) \/ CancelSpot(c) \/ DescribeSpot(c) \/
                  FindOffering(c) \/ Purchase(c)
      PROVE  FALSE
  BY <1>4 DEF WaitSpot, CancelSpot, DescribeSpot, FindOffering, Purchase, instanceVars, TypeInv,
     TypeOK
<1>5. ASSUME NEW c \in Callers, WaitStatus(c) \/ WaitGroups(c) \/ WaitStatusAgain(c) \/
                  TagInstance(c) \/ ModifyGroups(c) \/ GetInstance(c)
      PROVE  FALSE
  BY <1>5 DEF WaitStatus, WaitOk, WaitGroups, WaitStatusAgain, TagInstance, ModifyGroups,
     GetInstance, instanceVars, TypeInv, TypeOK
<1>6. ASSUME NEW c \in Callers, Delete(c) \/ ListAddresses(c) \/ GetAddress(c) PROVE FALSE
  BY <1>6 DEF Delete, ListAddresses, GetAddress, instanceVars, TypeInv, TypeOK
<1>7. ASSUME NEW c \in Callers, Disassociate(c) \/ WaitTerminated(c) PROVE FALSE
  BY <1>7 DEF Disassociate, WaitTerminated, instanceVars, TypeInv, TypeOK
<1>8. ASSUME NEW c \in Callers, Stop(c) \/ Start(c) \/ Associate(c) \/ FindInterface(c) \/
                  AssociateAddress(c)
      PROVE  FALSE
  BY <1>8 DEF Stop, Switch, Start, Associate, FindInterface, AssociateAddress, instanceVars,
     TypeInv, TypeOK
<1>9. ASSUME NEW j \in Instances, Boot(j) \/ Expire(j) \/ Reclaim(j) PROVE FALSE
  BY <1>9 DEF Boot, Expire, Reclaim, instanceVars, TypeInv, TypeOK
<1>10. ASSUME NEW c \in Callers, DeleteKey(c) PROVE FALSE
  BY <1>10 DEF DeleteKey, instanceVars, TypeInv, TypeOK
<1>11. ASSUME NEW c \in Callers, Terminate(c) PROVE FALSE
  BY <1>11 DEF Terminate, Goto, Proceed, IsUp, Up, TypeInv, TypeOK
<1>12. CASE UNCHANGED vars
  BY <1>12 DEF vars, instanceVars
<1> QED
  BY <1>1, <1>2, <1>3, <1>4, <1>5, <1>6, <1>7, <1>8, <1>9, <1>10, <1>11, <1>12 DEF Next,
     Continue, EC2

\* A call of Create that is to find out what becomes of i hands it on, ends it, or is hit.
LEMMA ControlStep ==
  ASSUME TypeInv, CallInv, [Next]_vars, NEW c \in Callers, Continue(c), NEW i \in Instances,
         made[i] # None, Controls(c, i), inst'[i] \in Up
  PROVE  Controls(c, i)' \/ i \in known' \/ hit'[made'[i]] \cap LeakCauses # {}
<1> USE NoneAssumption
<1>1. /\ made[i] \in Keys /\ made'[i] = made[i] /\ i # None /\ call[c] = made[i]
      /\ filled[call[c]] = i => filled'[call[c]] = i
  BY Monotone, FilledStays DEF Controls
<1>2. CASE pc[c] \in Ending
  <2>1. cur[c] = i
    BY <1>2 DEF Controls, Ending
  <2> QED
    BY <1>1, <1>2, <2>1, EndingStep DEF WillEnd, Controls, LeakCauses
<1>3. CASE WaitSpot(c)
  <2>1. /\ filled[call[c]] = i /\ UNCHANGED call
        /\ Note(call[c], "WaitSpot") \/ pc' = [pc EXCEPT ![c] = "DescribeSpot"]
    BY <1>3 DEF WaitSpot, Controls, Completing, Ending, Proceed, Goto, frameVars
  <2>2. CASE Note(call[c], "WaitSpot")
    BY <1>1, <2>2, NoteFacts DEF Causes, EC2Calls, CreateCalls, TypeInv, LeakCauses
  <2>3. CASE pc' = [pc EXCEPT ![c] = "DescribeSpot"]
    BY <1>1, <2>1, <2>3 DEF Controls, TypeInv, TypeOK
  <2> QED
    BY <2>1, <2>2, <2>3
<1>4. CASE DescribeSpot(c)
  <2>1. filled[call[c]] = i
    BY <1>4 DEF DescribeSpot, Controls, Completing, Ending
  <2>2. PICK a \in ReadAnswers :
          /\ Charge(a, call[c], "DescribeSpot")
          /\ a = "ok" => /\ pc' = [pc EXCEPT ![c] = "WaitStatus"]
                         /\ cur' = [cur EXCEPT ![c] = filled[call[c]]] /\ UNCHANGED call
    BY <1>4 DEF DescribeSpot, Goto
  <2>3. CASE a = "ok"
    BY <1>1, <2>1, <2>2, <2>3 DEF Controls, TypeInv, TypeOK
  <2>4. CASE a = "fail"
    BY <1>1, <2>2, <2>4, ChargeFacts DEF Causes, EC2Calls, CreateCalls, TypeInv, LeakCauses
  <2> QED
    BY <2>2, <2>3, <2>4 DEF ReadAnswers
<1>5. CASE WaitStatus(c) \/ WaitGroups(c) \/ WaitStatusAgain(c) \/ TagInstance(c) \/ ModifyGroups(c)
  <2>1. /\ pc[c] \in Completing \cup {"WaitStatus"} /\ UNCHANGED <<call, cur>>
        /\ pc'[c] \in Completing \cup Ending
    BY <1>5 DEF WaitStatus, WaitGroups, WaitStatusAgain, WaitOk, TagInstance, ModifyGroups,
           Rollback, Proceed, Goto, frameVars, Completing, Ending, TypeInv, TypeOK
  <2>2. cur[c] = i
    BY <2>1 DEF Controls, Completing
  <2> QED
    BY <1>1, <2>1, <2>2 DEF Controls
<1>6. CASE GetInstance(c)
  <2>1. cur[c] = i
    BY <1>6 DEF GetInstance, Controls
  <2>2. PICK a \in ReadAnswers :
          /\ Charge(a, call[c], "GetInstance")
          /\ a = "ok" => /\ pc' = [pc EXCEPT ![c] = "DeleteKey"]
                         /\ cur' = [cur EXCEPT ![c] = cur[c]] /\ UNCHANGED call
    BY <1>6 DEF GetInstance, ReturnFromCreate, Goto
  <2>3. CASE a = "ok"
    BY <1>1, <2>1, <2>2, <2>3 DEF Controls, TypeInv, TypeOK
  <2>4. CASE a = "fail"
    BY <1>1, <2>2, <2>4, ChargeFacts DEF Causes, EC2Calls, CreateCalls, TypeInv, LeakCauses
  <2> QED
    BY <2>2, <2>3, <2>4 DEF ReadAnswers
<1>7. CASE DeleteKey(c)
  <2>1. cur[c] = i
    BY <1>7 DEF DeleteKey, Controls
  <2> QED
    BY <1>1, <1>7, <2>1 DEF DeleteKey
<1> QED

  BY <1>2, <1>3, <1>4, <1>5, <1>6, <1>7 DEF Continue, Controls, Completing, Ending, ImportKey,
     RunInstances, RequestSpot, CancelSpot, FindOffering, Purchase, ListAddresses, GetAddress,
     Disassociate, Terminate, WaitTerminated, FindInterface, AssociateAddress

\* A step of caller c that starts an operation finds c idle.
LEMMA StartsIdle ==
  ASSUME NEW c \in Callers, Acts(c), pc[c] # "idle"
  PROVE  Continue(c)
BY DEF Acts, Create, Delete, Stop, Start, Switch, Associate

\* What a caller that does not act holds stays as it is.
LEMMA OthersStay ==
  ASSUME TypeInv, [Next]_vars, NEW c \in Callers, pc[c] # "idle", ~Continue(c)
  PROVE  pc'[c] = pc[c] /\ call'[c] = call[c] /\ cur'[c] = cur[c]
<1>1. ASSUME NEW d \in Callers, Acts(d)
      PROVE  pc'[c] = pc[c] /\ call'[c] = call[c] /\ cur'[c] = cur[c]
  <2>1. d # c
    BY <1>1, StartsIdle
  <2> QED
    BY <1>1, <2>1, OwnFrame DEF Others
<1>2. CASE EC2
  BY <1>2 DEF EC2, Boot, Expire, Reclaim, Fill, EC2Only, frameVars
<1>3. CASE UNCHANGED vars
  BY <1>3 DEF vars, frameVars
<1> QED
  BY <1>1, <1>2, <1>3 DEF Next, Acts

LEMMA KeptStep ==
  ASSUME TypeInv, CallInv, [Next]_vars, NEW i \in Instances, InstanceKept(i)
  PROVE  InstanceKept(i)'
<1> USE NoneAssumption
<1>1. CASE inst'[i] \notin Up
  BY <1>1 DEF InstanceKept
<1>2. CASE inst'[i] \in Up /\ inst[i] = "none"
  BY <1>2, LaunchKept DEF Up
<1>3. CASE inst'[i] \in Up /\ inst[i] # "none"
  <2>1. made[i] # None /\ inst[i] \in Up
    BY <1>3, InstanceMoves DEF InstanceMove, CallInv, InstanceOK, TypeInv, TypeOK
  <2>2. /\ made[i] \in Keys /\ made'[i] = made[i] /\ hit[made[i]] \subseteq hit'[made'[i]]
        /\ known \subseteq known'
    BY <2>1, Monotone, GrowStep DEF Grows
  <2>3. CASE i \in known \/ hit[made[i]] \cap LeakCauses # {}
    BY <2>2, <2>3 DEF InstanceKept
  <2>4. ASSUME NEW c \in Callers, Controls(c, i) PROVE InstanceKept(i)'
    <3>1. CASE Continue(c)
      BY <1>3, <2>1, <2>4, <3>1, ControlStep DEF InstanceKept
    <3>2. CASE ~Continue(c)
      <4>1. pc[c] # "idle" /\ call[c] \in Keys
        BY <2>2, <2>4 DEF Controls, Completing, Ending
      <4>2. pc'[c] = pc[c] /\ call'[c] = call[c] /\ cur'[c] = cur[c]
        BY <3>2, <4>1, OthersStay
      <4>3. filled[call[c]] = i => filled'[call[c]] = i
        BY <4>1, FilledStays
      <4> QED
        BY <2>2, <2>4, <4>2, <4>3 DEF Controls, InstanceKept
    <3> QED
      BY <3>1, <3>2
  <2> QED
    BY <2>1, <2>3, <2>4 DEF InstanceKept
<1> QED
  BY <1>1, <1>2, <1>3

LEMMA DeletionStep ==
  ASSUME TypeInv, CallInv, [Next]_vars, NEW i \in Instances, i \in doomed',
         i \in doomed => DeletionOK(i)
  PROVE  DeletionOK(i)'
<1> USE NoneAssumption
<1>1. CASE i \notin doomed
  <2>1. PICK c \in Callers : Delete(c) /\ cur'[c] = i
    BY <1>1, NewDoomed
  <2> QED
    BY <2>1 DEF Delete, Goto, DeletionOK, WillEnd, Ending, TypeInv, TypeOK
<1>2. CASE i \in doomed
  <2>1. made[i] # None /\ inst[i] # "none"
    BY <1>2 DEF CallInv, InstanceOK, TypeInv, TypeOK
  <2>2. made[i] \in Keys /\ made'[i] = made[i] /\ hit[made[i]] \subseteq hit'[made'[i]]
    BY <2>1, Monotone
  <2>3. CASE inst[i] \notin Up
    BY <2>1, <2>3, InstanceMoves DEF InstanceMove, DeletionOK
  <2>4. CASE hit[made[i]] \cap {"ListAddresses", "Terminate"} # {}
    BY <2>2, <2>4 DEF DeletionOK
  <2>5. ASSUME NEW c \in Callers, WillEnd(c, i) PROVE DeletionOK(i)'
    <3>1. CASE Continue(c)
      BY <2>1, <2>5, <3>1, EndingStep DEF DeletionOK, WillEnd
    <3>2. CASE ~Continue(c)
      BY <2>5, <3>2, OthersStay DEF DeletionOK, WillEnd, Ending
    <3> QED
      BY <3>1, <3>2
  <2> QED
    BY <1>2, <2>3, <2>4, <2>5 DEF DeletionOK
<1> QED
  BY <1>1, <1>2

LEMMA IInvInit == Init => IInv
<1> SUFFICES ASSUME Init PROVE IInv
  OBVIOUS
<1>1. TypeInv
  BY TypeInit
<1>2. CallInv
  BY NoneAssumption
     DEF Init, CallInv, InstanceOK, CallOK, SoleCall, RequestOK, KnownOK, CreateCalls
<1>3. SafetyInv
  BY NoneAssumption
     DEF Init, SafetyInv, KeyPairsTemporary, ReturnedOK, BuiltOK, Completing, InstanceKept, Up
<1> QED
  BY <1>1, <1>2, <1>3 DEF IInv

LEMMA IInvStep == IInv /\ [Next]_vars => IInv'
<1> SUFFICES ASSUME IInv, [Next]_vars PROVE IInv'
  OBVIOUS
<1>1. TypeInv /\ CallInv /\ SafetyInv
  BY DEF IInv
<1>2. TypeInv' /\ CallInv'
  BY <1>1, TypeStep, CallInvStep
<1>3. doomed' \subseteq Instances
  BY <1>2 DEF TypeInv, TypeOK
<1>4. SafetyInv'
  BY <1>1, <1>3, KeyPairsStep, ReturnedStep, BuiltStep, KeptStep, DeletionStep DEF SafetyInv
<1> QED
  BY <1>2, <1>4 DEF IInv

\* Every key pair that Create imports is temporary: when the call is over it is gone, or the
\* deletion by which Create ends was itself hit.
THEOREM KeyPairsAreTemporary == Spec => []KeyPairsTemporary
<1>1. IInv => KeyPairsTemporary
  BY DEF IInv, SafetyInv
<1> QED
  BY <1>1, IInvInit, IInvStep, PTL DEF Spec

\* An instance that no caller was told of and that runs on is explained by a fault of the call of
\* Create it comes from.
THEOREM LeaksHaveCauses == Spec => []LeakExplained
<1>1. IInv => LeakExplained
  BY DEF IInv, SafetyInv, LeakExplained, InstanceKept, Controls, LeakCauses, Running
<1> QED
  BY <1>1, IInvInit, IInvStep, PTL DEF Spec

\* A server Create returned is named, has its security group unless setting it failed, and runs
\* until its deletion is asked for unless the spot market took it back.
THEOREM ReturnedServersComplete == Spec => []ReturnedServerComplete
<1>1. IInv => ReturnedServerComplete
  BY DEF IInv, SafetyInv, ReturnedServerComplete, ReturnedOK, Grouped, StillUp
<1> QED
  BY <1>1, IInvInit, IInvStep, PTL DEF Spec

\* A server whose deletions have all returned is terminated or about to be, unless the list of its
\* addresses or its termination was hit.
THEOREM DeletionsEnd == Spec => []DeletedServerEnds
<1>1. IInv => DeletedServerEnds
  BY DEF IInv, SafetyInv, DeletedServerEnds, DeletionOK, WillEnd, Deleting, Ending, DeleteCalls
<1> QED
  BY <1>1, IInvInit, IInvStep, PTL DEF Spec

=============================================================================

------------------------- MODULE AwsNetwork_proofs -------------------------
(***************************************************************************)
(* Proofs about AwsNetwork: its type invariant; that a published network   *)
(* stays complete until its deletion is asked for; that what is left       *)
(* behind is explained by a fault; that a published subnet keeps its       *)
(* routes; and that the EC2 calls implement NetworkLifecycle.              *)
(***************************************************************************)
EXTENDS AwsNetwork, TLAPS

-----------------------------------------------------------------------------
\* The frame of a caller, by the kind of call it is about to make.

FrameOK(c) ==
  /\ pc[c] # "idle" => net[c] \in Vpcs
  /\ pc[c] \in NetworkCalls => op[c] = "CreateNetwork"
  /\ pc[c] \in RemovalCalls =>
       \/ op[c] = "CreateNetwork"
       \/ op[c] = "DeleteNetwork" /\ net[c] \in doomed
  /\ pc[c] \in SubnetCalls => op[c] = "CreateSubnet" /\ sub[c] \in Subnets

FrameInv == FrameType /\ \A c \in Callers : FrameOK(c)

\* A caller goes on to a call of the same method, or from building to undoing.
SameMethod(call, next) ==
  \/ call \in NetworkCalls /\ next \in NetworkCalls \cup RemovalCalls
  \/ call \in RemovalCalls /\ next \in RemovalCalls
  \/ call \in SubnetCalls /\ next \in SubnetCalls

LEMMA GotoFrame ==
  ASSUME FrameInv, NEW c \in Callers, NEW next, SameMethod(pc[c], next), Goto(c, next),
         doomed \subseteq doomed'
  PROVE  FrameInv'
<1> USE DEF SameMethod, Goto, FrameOK, frameVars, Calls, NetworkCalls, RemovalCalls, SubnetCalls
<1>1. FrameType'
  BY DEF FrameInv, FrameType
<1>2. ASSUME NEW d \in Callers PROVE FrameOK(d)'
  BY <1>2 DEF FrameInv, FrameType
<1> QED
  BY <1>1, <1>2 DEF FrameInv

LEMMA ReturnFrame ==
  ASSUME FrameInv, NEW c \in Callers, Return(c), doomed \subseteq doomed'
  PROVE  FrameInv'
<1> USE DEF Return, Enter, FrameOK, Calls, NetworkCalls, RemovalCalls, SubnetCalls
<1>1. FrameType'
  BY DEF FrameInv, FrameType
<1>2. ASSUME NEW d \in Callers PROVE FrameOK(d)'
  BY <1>2 DEF FrameInv, FrameType
<1> QED
  BY <1>1, <1>2 DEF FrameInv

\* The first call of a method after the one that entered it.
LEMMA EnterFrame ==
  ASSUME FrameInv, doomed \subseteq doomed',
         NEW c \in Callers, NEW method, NEW v \in Vpcs, NEW s \in Subnets \cup {None}, NEW call,
         Enter(c, method, v, s, call),
         \/ method = "CreateNetwork" /\ call = "AddTags"
         \/ method = "DeleteNetwork" /\ call = "DescribeGateways" /\ v \in doomed'
         \/ method = "CreateSubnet" /\ call = "TagSubnet" /\ s \in Subnets
  PROVE  FrameInv'
<1> USE DEF Enter, FrameOK, Calls, NetworkCalls, RemovalCalls, SubnetCalls
<1>1. FrameType'
  BY DEF FrameInv, FrameType
<1>2. ASSUME NEW d \in Callers PROVE FrameOK(d)'
  BY <1>2 DEF FrameInv, FrameType
<1> QED
  BY <1>1, <1>2 DEF FrameInv

LEMMA SameFrame ==
  ASSUME FrameInv, UNCHANGED <<pc, frameVars>>, doomed \subseteq doomed'
  PROVE  FrameInv'
BY DEF FrameInv, FrameType, FrameOK, frameVars

LEMMA ChargeType ==
  ASSUME FaultType, NEW a, NEW v, NEW cause \in Causes, Charge(a, v, cause)
  PROVE  FaultType'
BY MaxFaultsAssumption DEF FaultType, Charge, faultVars

LEMMA FrameInvStep ==
  ASSUME FrameInv, UserType, [Next]_vars
  PROVE  FrameInv'
<1> USE GotoFrame, ReturnFrame, EnterFrame, SameFrame
    DEF SameMethod, NetworkCalls, RemovalCalls, SubnetCalls, Rollback, userVars
<1>1. ASSUME NEW c \in Callers, CreateVpc(c) PROVE FrameInv'
  BY <1>1 DEF CreateVpc
<1>2. ASSUME NEW c \in Callers, AddTags(c) PROVE FrameInv'
  BY <1>2 DEF AddTags
<1>3. ASSUME NEW c \in Callers, CreateGateway(c) PROVE FrameInv'
  BY <1>3 DEF CreateGateway
<1>4. ASSUME NEW c \in Callers, AttachGateway(c) PROVE FrameInv'
  BY <1>4 DEF AttachGateway
<1>5. ASSUME NEW c \in Callers, GetRouteTable(c) PROVE FrameInv'
  BY <1>5 DEF GetRouteTable
<1>6. ASSUME NEW c \in Callers, RouteV4(c) PROVE FrameInv'
  BY <1>6 DEF RouteV4
<1>7. ASSUME NEW c \in Callers, RouteV6(c) PROVE FrameInv'
  BY <1>7 DEF RouteV6
<1>8. ASSUME NEW c \in Callers, DropRouteV4(c) PROVE FrameInv'
  BY <1>8 DEF DropRouteV4
<1>9. ASSUME NEW c \in Callers, DropTable(c) PROVE FrameInv'
  BY <1>9 DEF DropTable
<1>10. ASSUME NEW c \in Callers, GetNetwork(c) PROVE FrameInv'
  BY <1>10 DEF GetNetwork
<1>11. ASSUME NEW c \in Callers, DeleteNetwork(c) PROVE FrameInv'
  BY <1>11 DEF DeleteNetwork, UserType
<1>12. ASSUME NEW c \in Callers, DescribeGateways(c) PROVE FrameInv'
  BY <1>12 DEF DescribeGateways
<1>13. ASSUME NEW c \in Callers, DetachGateway(c) PROVE FrameInv'
  BY <1>13 DEF DetachGateway
<1>14. ASSUME NEW c \in Callers, DeleteGateway(c) PROVE FrameInv'
  BY <1>14 DEF DeleteGateway
<1>15. ASSUME NEW c \in Callers, DeleteVpc(c) PROVE FrameInv'
  BY <1>15 DEF DeleteVpc
<1>16. ASSUME NEW c \in Callers, CreateSubnet(c) PROVE FrameInv'
  BY <1>16 DEF CreateSubnet, UserType
<1>17. ASSUME NEW c \in Callers, TagSubnet(c) PROVE FrameInv'
  BY <1>17 DEF TagSubnet
<1>18. ASSUME NEW c \in Callers, SubnetTable(c) PROVE FrameInv'
  BY <1>18 DEF SubnetTable
<1>19. ASSUME NEW c \in Callers, AssociateTable(c) PROVE FrameInv'
  BY <1>19 DEF AssociateTable
<1>20. ASSUME NEW c \in Callers, GetSubnet(c) PROVE FrameInv'
  BY <1>20 DEF GetSubnet
<1>21. ASSUME NEW c \in Callers, UndoSubnet(c) PROVE FrameInv'
  BY <1>21 DEF UndoSubnet, RemoveSubnet
<1>22. ASSUME NEW c \in Callers, DeleteSubnet(c) PROVE FrameInv'
  BY <1>22 DEF DeleteSubnet, RemoveSubnet
<1>23. CASE UNCHANGED vars
  BY <1>23 DEF vars
<1> QED
  BY <1>1, <1>2, <1>3, <1>4, <1>5, <1>6, <1>7, <1>8, <1>9, <1>10, <1>11, <1>12, <1>13, <1>14,
     <1>15, <1>16, <1>17, <1>18, <1>19, <1>20, <1>21, <1>22, <1>23 DEF Next, Continue

-----------------------------------------------------------------------------
\* Type correctness

TypeInv == TypeOK /\ FrameInv

LEMMA FaultTypeStep ==
  ASSUME FaultType, [Next]_vars
  PROVE  FaultType'
<1> USE ChargeType DEF Causes, Calls, NetworkCalls, RemovalCalls, SubnetCalls, faultVars
<1>1. ASSUME NEW c \in Callers, CreateVpc(c) PROVE FaultType'
  BY <1>1 DEF CreateVpc
<1>2. ASSUME NEW c \in Callers, AddTags(c) PROVE FaultType'
  BY <1>2 DEF AddTags
<1>3. ASSUME NEW c \in Callers, CreateGateway(c) PROVE FaultType'
  BY <1>3 DEF CreateGateway
<1>4. ASSUME NEW c \in Callers, AttachGateway(c) PROVE FaultType'
  BY <1>4 DEF AttachGateway
<1>5. ASSUME NEW c \in Callers, GetRouteTable(c) PROVE FaultType'
  BY <1>5 DEF GetRouteTable
<1>6. ASSUME NEW c \in Callers, RouteV4(c) PROVE FaultType'
  BY <1>6 DEF RouteV4
<1>7. ASSUME NEW c \in Callers, RouteV6(c) PROVE FaultType'
  BY <1>7 DEF RouteV6
<1>8. ASSUME NEW c \in Callers, DropRouteV4(c) PROVE FaultType'
  BY <1>8 DEF DropRouteV4
<1>9. ASSUME NEW c \in Callers, DropTable(c) PROVE FaultType'
  BY <1>9 DEF DropTable, FaultType
<1>10. ASSUME NEW c \in Callers, GetNetwork(c) PROVE FaultType'
  BY <1>10 DEF GetNetwork
<1>11. ASSUME NEW c \in Callers, DeleteNetwork(c) PROVE FaultType'
  BY <1>11 DEF DeleteNetwork, FaultType
<1>12. ASSUME NEW c \in Callers, DescribeGateways(c) PROVE FaultType'
  BY <1>12 DEF DescribeGateways
<1>13. ASSUME NEW c \in Callers, DetachGateway(c) PROVE FaultType'
  BY <1>13 DEF DetachGateway
<1>14. ASSUME NEW c \in Callers, DeleteGateway(c) PROVE FaultType'
  BY <1>14 DEF DeleteGateway
<1>15. ASSUME NEW c \in Callers, DeleteVpc(c) PROVE FaultType'
  BY <1>15 DEF DeleteVpc, FaultType
<1>16. ASSUME NEW c \in Callers, CreateSubnet(c) PROVE FaultType'
  BY <1>16 DEF CreateSubnet
<1>17. ASSUME NEW c \in Callers, TagSubnet(c) PROVE FaultType'
  BY <1>17 DEF TagSubnet
<1>18. ASSUME NEW c \in Callers, SubnetTable(c) PROVE FaultType'
  BY <1>18 DEF SubnetTable
<1>19. ASSUME NEW c \in Callers, AssociateTable(c) PROVE FaultType'
  BY <1>19 DEF AssociateTable
<1>20. ASSUME NEW c \in Callers, GetSubnet(c) PROVE FaultType'
  BY <1>20 DEF GetSubnet
<1>21. ASSUME NEW c \in Callers, UndoSubnet(c) PROVE FaultType'
  BY <1>21 DEF UndoSubnet, RemoveSubnet
<1>22. ASSUME NEW c \in Callers, DeleteSubnet(c) PROVE FaultType'
  BY <1>22 DEF DeleteSubnet, RemoveSubnet
<1>23. CASE UNCHANGED vars
  BY <1>23 DEF vars, FaultType
<1> QED
  BY <1>1, <1>2, <1>3, <1>4, <1>5, <1>6, <1>7, <1>8, <1>9, <1>10, <1>11, <1>12, <1>13, <1>14,
     <1>15, <1>16, <1>17, <1>18, <1>19, <1>20, <1>21, <1>22, <1>23 DEF Next, Continue

LEMMA CloudTypeStep ==
  ASSUME TypeInv, [Next]_vars
  PROVE  NetworkType' /\ SubnetType' /\ UserType'
<1> USE DEF TypeInv, TypeOK, FrameInv, FrameOK, NetworkType, SubnetType, UserType, Families,
            NetworkCalls, RemovalCalls, SubnetCalls, netVars, subnetVars, userVars
<1>1. ASSUME NEW c \in Callers, CreateVpc(c) PROVE NetworkType' /\ SubnetType' /\ UserType'
  BY <1>1 DEF CreateVpc
<1>2. ASSUME NEW c \in Callers, AddTags(c) PROVE NetworkType' /\ SubnetType' /\ UserType'
  BY <1>2 DEF AddTags
<1>3. ASSUME NEW c \in Callers, CreateGateway(c) PROVE NetworkType' /\ SubnetType' /\ UserType'
  BY <1>3 DEF CreateGateway
<1>4. ASSUME NEW c \in Callers, AttachGateway(c) PROVE NetworkType' /\ SubnetType' /\ UserType'
  BY <1>4 DEF AttachGateway
<1>5. ASSUME NEW c \in Callers, GetRouteTable(c) PROVE NetworkType' /\ SubnetType' /\ UserType'
  BY <1>5 DEF GetRouteTable
<1>6. ASSUME NEW c \in Callers, RouteV4(c) PROVE NetworkType' /\ SubnetType' /\ UserType'
  BY <1>6 DEF RouteV4
<1>7. ASSUME NEW c \in Callers, RouteV6(c) PROVE NetworkType' /\ SubnetType' /\ UserType'
  BY <1>7 DEF RouteV6
<1>8. ASSUME NEW c \in Callers, DropRouteV4(c) PROVE NetworkType' /\ SubnetType' /\ UserType'
  BY <1>8 DEF DropRouteV4
<1>9. ASSUME NEW c \in Callers, DropTable(c) PROVE NetworkType' /\ SubnetType' /\ UserType'
  BY <1>9 DEF DropTable
<1>10. ASSUME NEW c \in Callers, GetNetwork(c) PROVE NetworkType' /\ SubnetType' /\ UserType'
  BY <1>10 DEF GetNetwork
<1>11. ASSUME NEW c \in Callers, DeleteNetwork(c) PROVE NetworkType' /\ SubnetType' /\ UserType'
  BY <1>11 DEF DeleteNetwork
<1>12. ASSUME NEW c \in Callers, DescribeGateways(c) PROVE NetworkType' /\ SubnetType' /\ UserType'
  BY <1>12 DEF DescribeGateways
<1>13. ASSUME NEW c \in Callers, DetachGateway(c) PROVE NetworkType' /\ SubnetType' /\ UserType'
  BY <1>13 DEF DetachGateway
<1>14. ASSUME NEW c \in Callers, DeleteGateway(c) PROVE NetworkType' /\ SubnetType' /\ UserType'
  BY <1>14 DEF DeleteGateway
<1>15. ASSUME NEW c \in Callers, DeleteVpc(c) PROVE NetworkType' /\ SubnetType' /\ UserType'
  BY <1>15 DEF DeleteVpc
<1>16. ASSUME NEW c \in Callers, CreateSubnet(c) PROVE NetworkType' /\ SubnetType' /\ UserType'
  BY <1>16 DEF CreateSubnet
<1>17. ASSUME NEW c \in Callers, TagSubnet(c) PROVE NetworkType' /\ SubnetType' /\ UserType'
  BY <1>17 DEF TagSubnet
<1>18. ASSUME NEW c \in Callers, SubnetTable(c) PROVE NetworkType' /\ SubnetType' /\ UserType'
  BY <1>18 DEF SubnetTable
<1>19. ASSUME NEW c \in Callers, AssociateTable(c) PROVE NetworkType' /\ SubnetType' /\ UserType'
  BY <1>19 DEF AssociateTable
<1>20. ASSUME NEW c \in Callers, GetSubnet(c) PROVE NetworkType' /\ SubnetType' /\ UserType'
  BY <1>20 DEF GetSubnet
<1>21. ASSUME NEW c \in Callers, UndoSubnet(c) PROVE NetworkType' /\ SubnetType' /\ UserType'
  BY <1>21 DEF UndoSubnet, RemoveSubnet
<1>22. ASSUME NEW c \in Callers, DeleteSubnet(c) PROVE NetworkType' /\ SubnetType' /\ UserType'
  BY <1>22 DEF DeleteSubnet, RemoveSubnet
<1>23. CASE UNCHANGED vars
  BY <1>23 DEF vars
<1> QED
  BY <1>1, <1>2, <1>3, <1>4, <1>5, <1>6, <1>7, <1>8, <1>9, <1>10, <1>11, <1>12, <1>13, <1>14,
     <1>15, <1>16, <1>17, <1>18, <1>19, <1>20, <1>21, <1>22, <1>23 DEF Next, Continue

\* TypeOK needs the frames: a call works on a network or a subnet, never on None.
THEOREM TypeCorrect == Spec => []TypeOK
<1>1. Init => TypeInv
  BY MaxFaultsAssumption DEF Init, TypeInv, TypeOK, FrameInv, NetworkType, SubnetType, FrameType,
     UserType, FaultType, FrameOK, NetworkCalls, RemovalCalls, SubnetCalls, Calls
<1>2. TypeInv /\ [Next]_vars => TypeInv'
  BY FrameInvStep, FaultTypeStep, CloudTypeStep DEF TypeInv, TypeOK, FrameInv
<1>3. TypeInv => TypeOK
  BY DEF TypeInv
<1> QED
  BY <1>1, <1>2, <1>3, PTL DEF Spec

-----------------------------------------------------------------------------
\* A published network stays complete.  The inductive invariant adds to Ownership that
\* only published networks are deleted, that they exist, and that EC2 removed no network
\* with a gateway attached.

SafetyInv ==
  /\ Ownership
  /\ KnownNetworkComplete
  /\ doomed \subseteq known
  /\ \A v \in known : vpc[v] # "none"
  /\ \A v \in Vpcs : vpc[v] = "gone" => gw[v] # "attached"

IInv == TypeInv /\ SafetyInv

\* The other callers stay where they are, and other networks are as they were.
Others(c) ==
  \A d \in Callers \ {c} : pc'[d] = pc[d] /\ op'[d] = op[d] /\ net'[d] = net[d]

OnlyAt(v) ==
  \A w \in Vpcs \ {v} : /\ vpc'[w] = vpc[w] /\ gw'[w] = gw[w] /\ routes'[w] = routes[w]
                        /\ w \in tagged' <=> w \in tagged
                        /\ w \in table' <=> w \in table

LEMMA GotoOthers ==
  ASSUME TypeInv, NEW c \in Callers, NEW call, Goto(c, call)
  PROVE  Others(c) /\ pc'[c] = call /\ op'[c] = op[c] /\ net'[c] = net[c]
BY DEF TypeInv, FrameInv, FrameType, Goto, frameVars, Others

LEMMA EnterOthers ==
  ASSUME TypeInv, NEW c \in Callers, NEW method, NEW v, NEW s, NEW call,
         Enter(c, method, v, s, call)
  PROVE  Others(c) /\ pc'[c] = call /\ op'[c] = method /\ net'[c] = v
BY DEF TypeInv, FrameInv, FrameType, Enter, Others

LEMMA ReturnOthers ==
  ASSUME TypeInv, NEW c \in Callers, Return(c)
  PROVE  Others(c) /\ pc'[c] = "idle"
BY EnterOthers DEF Return

\* What every step that builds, undoes or deletes network v has in common: only v changes,
\* a creator leaves what it built in order, and a step that is not construction adds nothing.
NetworkStep(c) ==
  \/ AddTags(c) \/ CreateGateway(c) \/ AttachGateway(c) \/ GetRouteTable(c)
  \/ RouteV4(c) \/ RouteV6(c) \/ DropRouteV4(c) \/ DropTable(c) \/ GetNetwork(c)
  \/ DescribeGateways(c) \/ DetachGateway(c) \/ DeleteGateway(c) \/ DeleteVpc(c)

Publishes(c, v) ==
  /\ known' = known \cup {v} /\ Creator(c) /\ pc'[c] = "idle"
  /\ vpc'[v] = "live" /\ v \in table' /\ Wired(v) /\ Wired(v)'

Locally(c, v) ==
  /\ Others(c) /\ OnlyAt(v) /\ UNCHANGED doomed
  /\ pc'[c] = "idle" \/ (net'[c] = v /\ op'[c] = op[c])
  /\ UNCHANGED known \/ Publishes(c, v)

Orderly(c, v) ==
  /\ Creator(c)' => Built(c)'
  /\ vpc'[v] # "none"
  /\ vpc[v] = "gone" => vpc'[v] = "gone"
  /\ vpc'[v] = "gone" => gw[v] # "attached" /\ gw'[v] # "attached"
  /\ ~Creator(c) \/ pc'[c] = "idle" => (Wired(v)' => Wired(v))

LEMMA NetworkFrame ==
  ASSUME IInv, NEW c \in Callers, NEW v, v = net[c], pc[c] \in NetworkCalls \cup RemovalCalls
  PROVE  /\ v \in Vpcs /\ vpc[v] # "none"
         /\ Creator(c) \/ v \in doomed
         /\ Creator(c) => v \notin known /\ Built(c)
         /\ pc[c] \in NetworkCalls => Creator(c)
BY DEF IInv, TypeInv, FrameInv, FrameOK, TypeOK, UserType, SafetyInv, Ownership, Built, Creator,
       NetworkCalls, RemovalCalls

LEMMA NetworkStepFacts ==
  ASSUME IInv, NEW c \in Callers, NEW v, v = net[c], NetworkStep(c)
  PROVE  pc[c] \in NetworkCalls \cup RemovalCalls /\ Locally(c, v) /\ Orderly(c, v)
<1> USE GotoOthers, ReturnOthers DEF IInv, NetworkCalls, RemovalCalls, Rollback
<1>1. CASE AddTags(c)
  <2>1. pc[c] \in NetworkCalls \cup RemovalCalls
    BY <1>1 DEF AddTags
  <2>2. Locally(c, v)
    BY <1>1, <2>1, NetworkFrame DEF AddTags, Locally, Publishes, OnlyAt, Built, Wired, TypeInv,
           TypeOK, NetworkType, netVars, userVars
  <2>3. Creator(c)' => Built(c)'
    BY <1>1, <2>1, NetworkFrame DEF AddTags, Built, Creator, Answers, Applied, TypeInv, TypeOK,
       NetworkType, netVars, Families
  <2>4. Orderly(c, v)
    BY <1>1, <2>1, <2>3, NetworkFrame DEF AddTags, Orderly, Built, Answers, Applied, TypeInv,
           TypeOK, NetworkType, netVars, SafetyInv, Wired, Families
  <2> QED
    BY <2>1, <2>2, <2>4
<1>2. CASE CreateGateway(c)
  <2>1. pc[c] \in NetworkCalls \cup RemovalCalls
    BY <1>2 DEF CreateGateway
  <2>2. Locally(c, v)
    BY <1>2, <2>1, NetworkFrame DEF CreateGateway, Locally, Publishes, OnlyAt, Built, Wired,
           TypeInv, TypeOK, NetworkType, netVars, userVars
  <2>3. Creator(c)' => Built(c)'
    BY <1>2, <2>1, NetworkFrame DEF CreateGateway, Built, Creator, Answers, Applied, TypeInv,
           TypeOK, NetworkType, netVars, Families
  <2>4. Orderly(c, v)
    BY <1>2, <2>1, <2>3, NetworkFrame DEF CreateGateway, Orderly, Built, Answers, Applied,
           TypeInv, TypeOK, NetworkType, netVars, SafetyInv, Wired, Families
  <2> QED
    BY <2>1, <2>2, <2>4
<1>3. CASE AttachGateway(c)
  <2>1. pc[c] \in NetworkCalls \cup RemovalCalls
    BY <1>3 DEF AttachGateway
  <2>2. Locally(c, v)
    BY <1>3, <2>1, NetworkFrame DEF AttachGateway, Locally, Publishes, OnlyAt, Built, Wired,
           TypeInv, TypeOK, NetworkType, netVars, userVars
  <2>3. Creator(c)' => Built(c)'
    BY <1>3, <2>1, NetworkFrame DEF AttachGateway, Built, Creator, Answers, Applied, TypeInv,
           TypeOK, NetworkType, netVars, Families
  <2>4. Orderly(c, v)
    BY <1>3, <2>1, <2>3, NetworkFrame DEF AttachGateway, Orderly, Built, Answers, Applied,
           TypeInv, TypeOK, NetworkType, netVars, SafetyInv, Wired, Families
  <2> QED
    BY <2>1, <2>2, <2>4
<1>4. CASE GetRouteTable(c)
  <2>1. pc[c] \in NetworkCalls \cup RemovalCalls
    BY <1>4 DEF GetRouteTable
  <2>2. Locally(c, v)
    BY <1>4, <2>1, NetworkFrame DEF GetRouteTable, Locally, Publishes, OnlyAt, Built, Wired,
           TypeInv, TypeOK, NetworkType, netVars, userVars
  <2>3. Creator(c)' => Built(c)'
    BY <1>4, <2>1, NetworkFrame DEF GetRouteTable, Built, Creator, Answers, Applied, TypeInv,
           TypeOK, NetworkType, netVars, Families
  <2>4. Orderly(c, v)
    BY <1>4, <2>1, <2>3, NetworkFrame DEF GetRouteTable, Orderly, Built, Answers, Applied,
           TypeInv, TypeOK, NetworkType, netVars, SafetyInv, Wired, Families
  <2> QED
    BY <2>1, <2>2, <2>4
<1>5. CASE RouteV4(c)
  <2>1. pc[c] \in NetworkCalls \cup RemovalCalls
    BY <1>5 DEF RouteV4
  <2>2. Locally(c, v)
    BY <1>5, <2>1, NetworkFrame DEF RouteV4, Locally, Publishes, OnlyAt, Built, Wired, TypeInv,
           TypeOK, NetworkType, netVars, userVars
  <2>3. Creator(c)' => Built(c)'
    BY <1>5, <2>1, NetworkFrame DEF RouteV4, Built, Creator, Answers, Applied, TypeInv, TypeOK,
       NetworkType, netVars, Families
  <2>4. Orderly(c, v)
    BY <1>5, <2>1, <2>3, NetworkFrame DEF RouteV4, Orderly, Built, Answers, Applied, TypeInv,
           TypeOK, NetworkType, netVars, SafetyInv, Wired, Families
  <2> QED
    BY <2>1, <2>2, <2>4
<1>6. CASE RouteV6(c)
  <2>1. pc[c] \in NetworkCalls \cup RemovalCalls
    BY <1>6 DEF RouteV6
  <2>2. Locally(c, v)
    BY <1>6, <2>1, NetworkFrame DEF RouteV6, Locally, Publishes, OnlyAt, Built, Wired, TypeInv,
           TypeOK, NetworkType, netVars, userVars
  <2>3. Creator(c)' => Built(c)'
    BY <1>6, <2>1, NetworkFrame DEF RouteV6, Built, Creator, Answers, Applied, TypeInv, TypeOK,
       NetworkType, netVars, Families
  <2>4. Orderly(c, v)
    BY <1>6, <2>1, <2>3, NetworkFrame DEF RouteV6, Orderly, Built, Answers, Applied, TypeInv,
           TypeOK, NetworkType, netVars, SafetyInv, Wired, Families
  <2> QED
    BY <2>1, <2>2, <2>4
<1>7. CASE DropRouteV4(c)
  <2>1. pc[c] \in NetworkCalls \cup RemovalCalls
    BY <1>7 DEF DropRouteV4
  <2>2. Locally(c, v)
    BY <1>7, <2>1, NetworkFrame DEF DropRouteV4, Locally, Publishes, OnlyAt, Built, Wired,
           TypeInv, TypeOK, NetworkType, netVars, userVars
  <2>3. Creator(c)' => Built(c)'
    BY <1>7, <2>1, NetworkFrame DEF DropRouteV4, Built, Creator, Answers, Applied, TypeInv,
           TypeOK, NetworkType, netVars, Families
  <2>4. Orderly(c, v)
    BY <1>7, <2>1, <2>3, NetworkFrame DEF DropRouteV4, Orderly, Built, Answers, Applied, TypeInv,
           TypeOK, NetworkType, netVars, SafetyInv, Wired, Families
  <2> QED
    BY <2>1, <2>2, <2>4
<1>8. CASE DropTable(c)
  <2>1. pc[c] \in NetworkCalls \cup RemovalCalls
    BY <1>8 DEF DropTable
  <2>2. Locally(c, v)
    BY <1>8, <2>1, NetworkFrame DEF DropTable, Locally, Publishes, OnlyAt, Built, Wired, TypeInv,
           TypeOK, NetworkType, netVars, userVars
  <2>3. Creator(c)' => Built(c)'
    BY <1>8, <2>1, NetworkFrame DEF DropTable, Built, Creator, Answers, Applied, TypeInv, TypeOK,
       NetworkType, netVars, Families
  <2>4. Orderly(c, v)
    BY <1>8, <2>1, <2>3, NetworkFrame DEF DropTable, Orderly, Built, Answers, Applied, TypeInv,
           TypeOK, NetworkType, netVars, SafetyInv, Wired, Families
  <2> QED
    BY <2>1, <2>2, <2>4
<1>9. CASE GetNetwork(c)
  <2>1. pc[c] \in NetworkCalls \cup RemovalCalls
    BY <1>9 DEF GetNetwork
  <2>2. Locally(c, v)
    BY <1>9, <2>1, NetworkFrame DEF GetNetwork, Locally, Publishes, OnlyAt, Built, Wired, TypeInv,
           TypeOK, NetworkType, netVars, userVars
  <2>3. Creator(c)' => Built(c)'
    BY <1>9, <2>1, NetworkFrame DEF GetNetwork, Built, Creator, Answers, Applied, TypeInv, TypeOK,
       NetworkType, netVars, Families
  <2>4. Orderly(c, v)
    BY <1>9, <2>1, <2>3, NetworkFrame DEF GetNetwork, Orderly, Built, Answers, Applied, TypeInv,
           TypeOK, NetworkType, netVars, SafetyInv, Wired, Families
  <2> QED
    BY <2>1, <2>2, <2>4
<1>10. CASE DescribeGateways(c)
  <2>1. pc[c] \in NetworkCalls \cup RemovalCalls
    BY <1>10 DEF DescribeGateways
  <2>2. Locally(c, v)
    BY <1>10, <2>1, NetworkFrame DEF DescribeGateways, Locally, Publishes, OnlyAt, Built, Wired,
           TypeInv, TypeOK, NetworkType, netVars, userVars
  <2>3. Creator(c)' => Built(c)'
    BY <1>10, <2>1, NetworkFrame DEF DescribeGateways, Built, Creator, Answers, Applied, TypeInv,
           TypeOK, NetworkType, netVars, Families
  <2>4. Orderly(c, v)
    BY <1>10, <2>1, <2>3, NetworkFrame DEF DescribeGateways, Orderly, Built, Answers, Applied,
           TypeInv, TypeOK, NetworkType, netVars, SafetyInv, Wired, Families
  <2> QED
    BY <2>1, <2>2, <2>4
<1>11. CASE DetachGateway(c)
  <2>1. pc[c] \in NetworkCalls \cup RemovalCalls
    BY <1>11 DEF DetachGateway
  <2>2. Locally(c, v)
    BY <1>11, <2>1, NetworkFrame DEF DetachGateway, Locally, Publishes, OnlyAt, Built, Wired,
           TypeInv, TypeOK, NetworkType, netVars, userVars
  <2>3. Creator(c)' => Built(c)'
    BY <1>11, <2>1, NetworkFrame DEF DetachGateway, Built, Creator, Answers, Applied, TypeInv,
           TypeOK, NetworkType, netVars, Families
  <2>4. Orderly(c, v)
    BY <1>11, <2>1, <2>3, NetworkFrame DEF DetachGateway, Orderly, Built, Answers, Applied,
           TypeInv, TypeOK, NetworkType, netVars, SafetyInv, Wired, Families
  <2> QED
    BY <2>1, <2>2, <2>4
<1>12. CASE DeleteGateway(c)
  <2>1. pc[c] \in NetworkCalls \cup RemovalCalls
    BY <1>12 DEF DeleteGateway
  <2>2. Locally(c, v)
    BY <1>12, <2>1, NetworkFrame DEF DeleteGateway, Locally, Publishes, OnlyAt, Built, Wired,
           TypeInv, TypeOK, NetworkType, netVars, userVars
  <2>3. Creator(c)' => Built(c)'
    BY <1>12, <2>1, NetworkFrame DEF DeleteGateway, Built, Creator, Answers, Applied, TypeInv,
           TypeOK, NetworkType, netVars, Families
  <2>4. Orderly(c, v)
    BY <1>12, <2>1, <2>3, NetworkFrame DEF DeleteGateway, Orderly, Built, Answers, Applied,
           TypeInv, TypeOK, NetworkType, netVars, SafetyInv, Wired, Families
  <2> QED
    BY <2>1, <2>2, <2>4
<1>13. CASE DeleteVpc(c)
  <2>1. pc[c] \in NetworkCalls \cup RemovalCalls
    BY <1>13 DEF DeleteVpc
  <2>2. Locally(c, v)
    BY <1>13, <2>1, NetworkFrame DEF DeleteVpc, Locally, Publishes, OnlyAt, Built, Wired, TypeInv,
           TypeOK, NetworkType, netVars, userVars
  <2>3. Creator(c)' => Built(c)'
    BY <1>13, <2>1, NetworkFrame DEF DeleteVpc, Built, Creator, Answers, Applied, TypeInv, TypeOK,
       NetworkType, netVars, Families
  <2>4. Orderly(c, v)
    BY <1>13, <2>1, <2>3, NetworkFrame DEF DeleteVpc, Orderly, Built, Answers, Applied, TypeInv,
           TypeOK, NetworkType, netVars, SafetyInv, Wired, Families
  <2> QED
    BY <2>1, <2>2, <2>4
<1> QED
  BY <1>1, <1>2, <1>3, <1>4, <1>5, <1>6, <1>7, <1>8, <1>9, <1>10, <1>11, <1>12, <1>13 DEF
         NetworkStep

\* Such a step disturbs nobody: no other caller builds v, and v is not published, or doomed.
LEMMA NetworkStepSafe ==
  ASSUME IInv, NEW c \in Callers, NetworkStep(c)
  PROVE  SafetyInv'
<1>1. PICK v : v = net[c]
  OBVIOUS
<1>2. pc[c] \in NetworkCalls \cup RemovalCalls /\ Locally(c, v) /\ Orderly(c, v)
  BY <1>1, NetworkStepFacts
<1>3. /\ v \in Vpcs /\ (Creator(c) \/ v \in doomed)
      /\ pc[c] # "idle" /\ (Creator(c) => v \notin known)
  BY <1>1, <1>2, NetworkFrame DEF NetworkCalls, RemovalCalls
<1>4. ASSUME NEW d \in Callers, Creator(d)', d # c
      PROVE  Creator(d) /\ net'[d] = net[d] /\ net[d] \in Vpcs /\ net[d] # v
  <2>1. Creator(d) /\ net'[d] = net[d] /\ net[d] \in Vpcs
    BY <1>2, <1>4 DEF Locally, Others, Creator, IInv, TypeInv, FrameInv, FrameOK
  <2>2. net[d] # v
    BY <1>1, <1>3, <1>4, <2>1 DEF IInv, SafetyInv, Ownership
  <2> QED BY <2>1, <2>2
<1>5. ASSUME NEW d \in Callers, Creator(d)' PROVE net'[d] \notin known' /\ Built(d)'
  <2>1. CASE d = c
    BY <1>2, <1>3, <1>5, <2>1 DEF Locally, Publishes, Orderly, Creator
  <2>2. CASE d # c
    BY <1>2, <1>4, <1>5, <2>2 DEF Locally, Publishes, OnlyAt, Others, Built, IInv, SafetyInv,
           Ownership
  <2> QED BY <2>1, <2>2
<1>6. ASSUME NEW d \in Callers, NEW e \in Callers, Creator(d)', Creator(e)', net'[d] = net'[e]
      PROVE  d = e
  BY <1>2, <1>3, <1>4, <1>6 DEF Locally, Creator, IInv, SafetyInv, Ownership
<1>7. ASSUME NEW w \in (known \ doomed)' PROVE (vpc[w] = "live" /\ w \in table /\ Wired(w))'
  <2>1. CASE w = v
    BY <1>2, <1>3, <1>7, <2>1 DEF Locally, Publishes
  <2>2. CASE w # v
    <3>1. w \in known \ doomed /\ w \in Vpcs
      BY <1>2, <1>7, <2>2 DEF Locally, Publishes, IInv, TypeInv, TypeOK, UserType
    <3> QED
      BY <1>2, <2>2, <3>1 DEF Locally, OnlyAt, Wired, KnownNetworkComplete, IInv, SafetyInv
  <2> QED BY <2>1, <2>2
<1>8. (doomed \subseteq known)' /\ (\A w \in known : vpc[w] # "none")'
  BY <1>2, <1>3 DEF Locally, Publishes, Orderly, OnlyAt, IInv, SafetyInv, TypeInv, TypeOK,
         UserType
<1>9. (\A w \in Vpcs : vpc[w] = "gone" => gw[w] # "attached")'
  BY <1>2 DEF Locally, Orderly, OnlyAt, IInv, SafetyInv
<1> QED
  BY <1>5, <1>6, <1>7, <1>8, <1>9 DEF SafetyInv, Ownership, KnownNetworkComplete

\* A caller that touches no network and builds none disturbs nobody either.
LEMMA IdleStep ==
  ASSUME IInv, NEW c \in Callers, Others(c), UNCHANGED <<netVars, known>>,
         ~Creator(c)', doomed \subseteq doomed', doomed' \subseteq known
  PROVE  SafetyInv'
<1>1. \A d \in Callers : Creator(d)' => d # c /\ Creator(d) /\ pc'[d] = pc[d] /\ net'[d] = net[d]
  BY DEF Others, Creator
<1>2. Ownership'
  BY <1>1 DEF Ownership, Built, netVars, IInv, SafetyInv
<1>3. KnownNetworkComplete'
  BY DEF KnownNetworkComplete, Wired, netVars, IInv, SafetyInv
<1> QED
  BY <1>2, <1>3 DEF SafetyInv, netVars, IInv

\* What CreateVpc does: one fresh network, that is unknown and that nobody builds.
LEMMA CreateVpcFacts ==
  ASSUME IInv, NEW c \in Callers, CreateVpc(c)
  PROVE  \E v \in Vpcs :
           /\ vpc[v] = "none" /\ v \notin known /\ \A d \in Callers : Creator(d) => net[d] # v
           /\ ~Creator(c) /\ Others(c) /\ OnlyAt(v)
           /\ vpc'[v] = "live" /\ v \in table' /\ UNCHANGED <<tagged, gw, routes, known, doomed>>
           /\ Creator(c)' => net'[c] = v /\ pc'[c] = "AddTags"
<1>1. PICK v \in Vpcs, a \in {"ok", "lost"} :
        /\ vpc[v] = "none" /\ vpc' = [vpc EXCEPT ![v] = "live"] /\ table' = table \cup {v}
        /\ IF a = "ok" THEN Enter(c, "CreateNetwork", v, None, "AddTags") ELSE Return(c)
  BY DEF CreateVpc
<1>2. UNCHANGED <<tagged, gw, routes, known, doomed>>
  BY DEF CreateVpc, userVars
<1>3. OnlyAt(v) /\ vpc'[v] = "live" /\ v \in table'
  BY <1>1, <1>2 DEF OnlyAt, IInv, TypeInv, TypeOK, NetworkType
<1>4. Others(c) /\ ~Creator(c) /\ (Creator(c)' => net'[c] = v /\ pc'[c] = "AddTags")
  BY <1>1, EnterOthers, ReturnOthers DEF IInv, Creator, CreateVpc
<1>5. v \notin known /\ \A d \in Callers : Creator(d) => net[d] # v
  BY <1>1 DEF IInv, SafetyInv, Ownership, Built
<1> QED
  BY <1>1, <1>2, <1>3, <1>4, <1>5

LEMMA CreateVpcSafe ==
  ASSUME IInv, NEW c \in Callers, CreateVpc(c)
  PROVE  SafetyInv'
<1>1. PICK v \in Vpcs :
           /\ vpc[v] = "none" /\ v \notin known /\ \A d \in Callers : Creator(d) => net[d] # v
           /\ ~Creator(c) /\ Others(c) /\ OnlyAt(v)
           /\ vpc'[v] = "live" /\ v \in table' /\ UNCHANGED <<tagged, gw, routes, known, doomed>>
           /\ Creator(c)' => net'[c] = v /\ pc'[c] = "AddTags"
  BY CreateVpcFacts
<1>2. ASSUME NEW d \in Callers, Creator(d)' PROVE net'[d] \notin known' /\ Built(d)'
  <2>1. CASE d = c
    BY <1>1, <1>2, <2>1 DEF Built, NetworkCalls
  <2>2. CASE d # c
    <3>1. Creator(d) /\ pc'[d] = pc[d] /\ net'[d] = net[d] /\ net[d] \in Vpcs \ {v}
      BY <1>1, <1>2, <2>2 DEF Others, Creator, IInv, TypeInv, FrameInv, FrameOK
    <3> QED
      BY <1>1, <3>1 DEF OnlyAt, Built, IInv, SafetyInv, Ownership
  <2> QED BY <2>1, <2>2
<1>3. \A d, e \in Callers : Creator(d)' /\ Creator(e)' /\ net'[d] = net'[e] => d = e
  BY <1>1 DEF Others, Creator, IInv, SafetyInv, Ownership
<1>4. KnownNetworkComplete'
  BY <1>1 DEF OnlyAt, KnownNetworkComplete, Wired, IInv, SafetyInv, TypeInv, TypeOK, UserType
<1> QED
  BY <1>1, <1>2, <1>3, <1>4 DEF SafetyInv, Ownership, OnlyAt, IInv, TypeInv, TypeOK, UserType

\* The steps that work on a subnet, or only note that a deletion is asked for.
UserStep(c) == TagSubnet(c) \/ SubnetTable(c) \/ AssociateTable(c) \/ GetSubnet(c) \/ UndoSubnet(c)
               \/ DeleteNetwork(c) \/ CreateSubnet(c) \/ DeleteSubnet(c)

LEMMA UserStepFacts ==
  ASSUME IInv, NEW c \in Callers, UserStep(c)
  PROVE  /\ Others(c) /\ UNCHANGED <<netVars, known>> /\ ~Creator(c) /\ ~Creator(c)'
         /\ \/ UNCHANGED doomed
            \/ \E v \in known : doomed' = doomed \cup {v}
<1> USE GotoOthers, ReturnOthers, EnterOthers
    DEF IInv, SubnetCalls, Creator, TypeInv, FrameInv, FrameOK, subnetVars, userVars
<1>1. CASE TagSubnet(c)
  BY <1>1 DEF TagSubnet
<1>2. CASE SubnetTable(c)
  BY <1>2 DEF SubnetTable
<1>3. CASE AssociateTable(c)
  BY <1>3 DEF AssociateTable
<1>4. CASE GetSubnet(c)
  BY <1>4 DEF GetSubnet
<1>5. CASE UndoSubnet(c)
  BY <1>5 DEF UndoSubnet
<1>6. CASE DeleteNetwork(c)
  BY <1>6 DEF DeleteNetwork
<1>7. CASE CreateSubnet(c)
  BY <1>7 DEF CreateSubnet
<1>8. CASE DeleteSubnet(c)
  BY <1>8 DEF DeleteSubnet, frameVars, Others
<1> QED
  BY <1>1, <1>2, <1>3, <1>4, <1>5, <1>6, <1>7, <1>8 DEF UserStep

LEMMA NextSteps ==
  Next => \E c \in Callers : CreateVpc(c) \/ NetworkStep(c) \/ UserStep(c)
BY DEF Next, Continue, NetworkStep, UserStep

LEMMA IInvStep == IInv /\ [Next]_vars => IInv'
<1> SUFFICES ASSUME IInv, [Next]_vars PROVE IInv'
  OBVIOUS
<1>1. TypeInv'
  BY FrameInvStep, FaultTypeStep, CloudTypeStep DEF IInv, TypeInv, TypeOK, FrameInv
<1>2. ASSUME NEW c \in Callers, NetworkStep(c) PROVE SafetyInv'
  BY <1>2, NetworkStepSafe
<1>3. ASSUME NEW c \in Callers, UserStep(c) PROVE SafetyInv'
  <2>1. doomed \subseteq known
    BY DEF IInv, SafetyInv
  <2>2. doomed \subseteq doomed' /\ doomed' \subseteq known
    BY <1>3, <2>1, UserStepFacts
  <2> QED
    BY <1>3, <2>2, UserStepFacts, IdleStep
<1>4. ASSUME NEW c \in Callers, CreateVpc(c) PROVE SafetyInv'
  BY <1>4, CreateVpcSafe
<1>5. ASSUME UNCHANGED vars PROVE SafetyInv'
  <2>1. Ownership'
    BY <1>5 DEF vars, netVars, frameVars, userVars, IInv, SafetyInv, Ownership, Creator, Built
  <2>2. KnownNetworkComplete'
    BY <1>5 DEF vars, netVars, userVars, IInv, SafetyInv, KnownNetworkComplete, Wired
  <2> QED
    BY <1>5, <2>1, <2>2 DEF vars, netVars, userVars, IInv, SafetyInv
<1> QED
  BY <1>1, <1>2, <1>3, <1>4, <1>5, NextSteps DEF IInv

LEMMA IInvInit == Init => IInv
BY MaxFaultsAssumption DEF Init, IInv, TypeInv, TypeOK, FrameInv, NetworkType, SubnetType,
       FrameType, UserType, FaultType, FrameOK, NetworkCalls, RemovalCalls, SubnetCalls, Calls,
       SafetyInv, Ownership, KnownNetworkComplete, Creator

\* An unpublished network is worked on by its creator only, whatever else goes on.
THEOREM NetworkOwnership == Spec => []Ownership
<1>1. IInv => Ownership
  BY DEF IInv, SafetyInv
<1> QED
  BY IInvInit, IInvStep, <1>1, PTL DEF Spec

\* A published network stays up, named and routed until its deletion is asked for.
THEOREM NetworkStaysComplete == Spec => []KnownNetworkComplete
<1>1. IInv => KnownNetworkComplete
  BY DEF IInv, SafetyInv
<1> QED
  BY IInvInit, IInvStep, <1>1, PTL DEF Spec

-----------------------------------------------------------------------------
\* What is left behind.  hit only grows, and remembers a call that failed or whose answer was
\* lost; the rest of the invariant says where the caller is that still has to clean up.

RemovalFaults == RemovalCalls \cup {"CreateVpc", "GetNetwork"}
GatewayFaults == {"CreateGateway", "AttachGateway", "DetachGateway", "DeleteGateway"}

\* When a creator undoes its work, the gateway is as its lookup by attachment found it.
Undoes(c) ==
  /\ pc[c] = "DetachGateway" => gw[net[c]] = "attached"
  /\ pc[c] = "DeleteGateway" => gw[net[c]] = "free"
  /\ pc[c] = "DeleteVpc" => gw[net[c]] # "attached"

UndoInv == \A c \in Callers : Creator(c) => Undoes(c)

\* A loose gateway is about to be attached or deleted, unless a fault was in the way.
HandlesGateway(c, v) == net[c] = v /\ pc[c] \in {"AttachGateway", "DeleteGateway"}

GatewayInv ==
  \A v \in Vpcs : gw[v] = "free" =>
    hit[v] \cap GatewayFaults # {} \/ \E c \in Callers : HandlesGateway(c, v)

\* A live subnet is in a live network that was published.
SubnetHomeInv ==
  \A s \in Subnets : sstate[s] = "live" => snet[s] \in known /\ vpc[snet[s]] = "live"

ResidueInv == UndoInv /\ GatewayInv /\ SubnetHomeInv /\ FailedCreateLeavesNothing

LEMMA ChargeHits ==
  ASSUME FaultType, NEW v, NEW a, NEW cause, Charge(a, v, cause)
  PROVE  /\ \A w \in Vpcs : hit[w] \subseteq hit'[w]
         /\ v \in Vpcs /\ a \in {"fail", "lost"} => cause \in hit'[v]
BY DEF FaultType, Charge, faultVars

LEMMA HitGrows ==
  ASSUME IInv, NEW c \in Callers, CreateVpc(c) \/ NetworkStep(c) \/ UserStep(c)
  PROVE  \A w \in Vpcs : hit[w] \subseteq hit'[w]
<1>0. FaultType
  BY DEF IInv, TypeInv, TypeOK
<1> USE ChargeHits
<1>1. CASE CreateVpc(c)
  BY <1>1, <1>0 DEF CreateVpc
<1>2. CASE AddTags(c)
  BY <1>2, <1>0 DEF AddTags
<1>3. CASE CreateGateway(c)
  BY <1>3, <1>0 DEF CreateGateway
<1>4. CASE AttachGateway(c)
  BY <1>4, <1>0 DEF AttachGateway
<1>5. CASE GetRouteTable(c)
  BY <1>5, <1>0 DEF GetRouteTable
<1>6. CASE RouteV4(c)
  BY <1>6, <1>0 DEF RouteV4
<1>7. CASE RouteV6(c)
  BY <1>7, <1>0 DEF RouteV6
<1>8. CASE DropRouteV4(c)
  BY <1>8, <1>0 DEF DropRouteV4
<1>9. CASE DropTable(c)
  BY <1>9, <1>0 DEF DropTable, faultVars
<1>10. CASE GetNetwork(c)
  BY <1>10, <1>0 DEF GetNetwork
<1>11. CASE DescribeGateways(c)
  BY <1>11, <1>0 DEF DescribeGateways
<1>12. CASE DetachGateway(c)
  BY <1>12, <1>0 DEF DetachGateway
<1>13. CASE DeleteGateway(c)
  BY <1>13, <1>0 DEF DeleteGateway
<1>14. CASE DeleteVpc(c)
  BY <1>14, <1>0 DEF DeleteVpc, FaultType
<1>15. CASE TagSubnet(c)
  BY <1>15, <1>0 DEF TagSubnet
<1>16. CASE SubnetTable(c)
  BY <1>16, <1>0 DEF SubnetTable
<1>17. CASE AssociateTable(c)
  BY <1>17, <1>0 DEF AssociateTable
<1>18. CASE GetSubnet(c)
  BY <1>18, <1>0 DEF GetSubnet
<1>19. CASE UndoSubnet(c)
  BY <1>19, <1>0 DEF UndoSubnet, RemoveSubnet
<1>20. CASE DeleteNetwork(c)
  BY <1>20, <1>0 DEF DeleteNetwork, faultVars
<1>21. CASE CreateSubnet(c)
  BY <1>21, <1>0 DEF CreateSubnet
<1>22. CASE DeleteSubnet(c)
  BY <1>22, <1>0 DEF DeleteSubnet, RemoveSubnet
<1> QED
  BY <1>1, <1>2, <1>3, <1>4, <1>5, <1>6, <1>7, <1>8, <1>9, <1>10, <1>11, <1>12, <1>13, <1>14,
     <1>15, <1>16, <1>17, <1>18, <1>19, <1>20, <1>21, <1>22 DEF NetworkStep, UserStep

\* What a step on network v leaves to its caller: the gateway as it found it, ...
LEMMA UndoFacts ==
  ASSUME IInv, NEW c \in Callers, NetworkStep(c)
  PROVE  Creator(c)' => Undoes(c)'
<1>0. pc[c] # "idle" => gw[net[c]] \in {"none", "free", "attached", "gone"} /\ net[c] \in Vpcs
  BY DEF IInv, TypeInv, TypeOK, FrameInv, FrameOK, NetworkType
<1>1. gw \in [Vpcs -> {"none", "free", "attached", "gone"}] /\ TypeInv
  BY DEF IInv, TypeInv, TypeOK, NetworkType
<1> USE GotoOthers, ReturnOthers DEF Undoes, Rollback
<1>2. CASE AddTags(c)
  BY <1>2, <1>0, <1>1 DEF AddTags, Creator, Applied, Answers, netVars
<1>3. CASE CreateGateway(c)
  BY <1>3, <1>0, <1>1 DEF CreateGateway, Creator, Applied, Answers, netVars
<1>4. CASE AttachGateway(c)
  BY <1>4, <1>0, <1>1 DEF AttachGateway, Creator, Applied, Answers, netVars
<1>5. CASE GetRouteTable(c)
  BY <1>5, <1>0, <1>1 DEF GetRouteTable, Creator, Applied, Answers, netVars
<1>6. CASE RouteV4(c)
  BY <1>6, <1>0, <1>1 DEF RouteV4, Creator, Applied, Answers, netVars
<1>7. CASE RouteV6(c)
  BY <1>7, <1>0, <1>1 DEF RouteV6, Creator, Applied, Answers, netVars
<1>8. CASE DropRouteV4(c)
  BY <1>8, <1>0, <1>1 DEF DropRouteV4, Creator, Applied, Answers, netVars
<1>9. CASE DropTable(c)
  BY <1>9, <1>0, <1>1 DEF DropTable, Creator, Applied, Answers, netVars
<1>10. CASE GetNetwork(c)
  BY <1>10, <1>0, <1>1 DEF GetNetwork, Creator, Applied, Answers, netVars
<1>11. CASE DescribeGateways(c)
  BY <1>11, <1>0, <1>1 DEF DescribeGateways, Creator, Applied, Answers, netVars
<1>12. CASE DetachGateway(c)
  BY <1>12, <1>0, <1>1 DEF DetachGateway, Creator, Applied, Answers, netVars
<1>13. CASE DeleteGateway(c)
  BY <1>13, <1>0, <1>1 DEF DeleteGateway, Creator, Applied, Answers, netVars
<1>14. CASE DeleteVpc(c)
  BY <1>14, <1>0, <1>1 DEF DeleteVpc, Creator, Applied, Answers, netVars
<1> QED
  BY <1>2, <1>3, <1>4, <1>5, <1>6, <1>7, <1>8, <1>9, <1>10, <1>11, <1>12, <1>13, <1>14 DEF
     NetworkStep

\* ... a trace of the fault when it gives up on the network, ...
LEMMA ReturnTraces ==
  ASSUME IInv, NEW c \in Callers, NetworkStep(c), Creator(c), Undoes(c), SubnetsOf(net[c]) = {},
         pc'[c] = "idle", vpc'[net[c]] = "live", net[c] \notin known'
  PROVE  hit'[net[c]] \cap RemovalFaults # {}
<1>0. /\ net[c] \in Vpcs /\ vpc[net[c]] = "live" /\ FaultType
      /\ vpc \in [Vpcs -> {"none", "live", "gone"}] /\ TypeInv
  BY DEF IInv, TypeInv, TypeOK, FrameInv, FrameOK, NetworkType, SafetyInv, Ownership, Built,
         Creator
<1> USE ChargeHits, GotoOthers DEF RemovalFaults, RemovalCalls, Undoes, Rollback
<1>1. CASE AddTags(c)
  BY <1>1, <1>0 DEF AddTags, Applied, Answers, ReadAnswers
<1>2. CASE CreateGateway(c)
  BY <1>2, <1>0 DEF CreateGateway, Applied, Answers, ReadAnswers
<1>3. CASE AttachGateway(c)
  BY <1>3, <1>0 DEF AttachGateway, Applied, Answers, ReadAnswers
<1>4. CASE GetRouteTable(c)
  BY <1>4, <1>0 DEF GetRouteTable, Applied, Answers, ReadAnswers
<1>5. CASE RouteV4(c)
  BY <1>5, <1>0 DEF RouteV4, Applied, Answers, ReadAnswers
<1>6. CASE RouteV6(c)
  BY <1>6, <1>0 DEF RouteV6, Applied, Answers, ReadAnswers
<1>7. CASE DropRouteV4(c)
  BY <1>7, <1>0 DEF DropRouteV4, Applied, Answers, ReadAnswers
<1>8. CASE DropTable(c)
  BY <1>8, <1>0 DEF DropTable, Applied, Answers, ReadAnswers
<1>9. CASE GetNetwork(c)
  BY <1>9, <1>0 DEF GetNetwork, Applied, Answers, ReadAnswers
<1>10. CASE DescribeGateways(c)
  BY <1>10, <1>0 DEF DescribeGateways, Applied, Answers, ReadAnswers
<1>11. CASE DetachGateway(c)
  BY <1>11, <1>0 DEF DetachGateway, Applied, Answers, ReadAnswers
<1>12. CASE DeleteGateway(c)
  BY <1>12, <1>0 DEF DeleteGateway, Applied, Answers, ReadAnswers
<1>13. CASE DeleteVpc(c)
  BY <1>13, <1>0 DEF DeleteVpc, Applied, Answers, ReadAnswers
<1> QED
  BY <1>1, <1>2, <1>3, <1>4, <1>5, <1>6, <1>7, <1>8, <1>9, <1>10, <1>11, <1>12, <1>13 DEF
     NetworkStep

\* ... and a loose gateway only to be handled, or after a fault.
LEMMA GatewayTraces ==
  ASSUME IInv, NEW c \in Callers, NEW v, v = net[c], NetworkStep(c), gw'[v] = "free"
  PROVE  \/ hit'[v] \cap GatewayFaults # {}
         \/ HandlesGateway(c, v)'
         \/ gw[v] = "free" /\ ~HandlesGateway(c, v)
<1>0. /\ pc[c] # "idle" => net[c] \in Vpcs
      /\ pc[c] = "AttachGateway" => vpc[net[c]] = "live"
      /\ FaultType /\ TypeInv /\ gw \in [Vpcs -> {"none", "free", "attached", "gone"}]
  BY DEF IInv, TypeInv, TypeOK, FrameInv, FrameOK, NetworkType, NetworkCalls, SafetyInv,
         Ownership, Built, Creator
<1> USE ChargeHits, GotoOthers DEF GatewayFaults, HandlesGateway, Rollback
<1>1. CASE AddTags(c)
  BY <1>1, <1>0 DEF AddTags, Applied, Answers, netVars
<1>2. CASE CreateGateway(c)
  BY <1>2, <1>0 DEF CreateGateway, Applied, Answers, netVars
<1>3. CASE AttachGateway(c)
  BY <1>3, <1>0 DEF AttachGateway, Applied, Answers, netVars
<1>4. CASE GetRouteTable(c)
  BY <1>4, <1>0 DEF GetRouteTable, Applied, Answers, netVars
<1>5. CASE RouteV4(c)
  BY <1>5, <1>0 DEF RouteV4, Applied, Answers, netVars
<1>6. CASE RouteV6(c)
  BY <1>6, <1>0 DEF RouteV6, Applied, Answers, netVars
<1>7. CASE DropRouteV4(c)
  BY <1>7, <1>0 DEF DropRouteV4, Applied, Answers, netVars
<1>8. CASE DropTable(c)
  BY <1>8, <1>0 DEF DropTable, Applied, Answers, netVars
<1>9. CASE GetNetwork(c)
  BY <1>9, <1>0 DEF GetNetwork, Applied, Answers, netVars
<1>10. CASE DescribeGateways(c)
  BY <1>10, <1>0 DEF DescribeGateways, Applied, Answers, netVars
<1>11. CASE DetachGateway(c)
  BY <1>11, <1>0 DEF DetachGateway, Applied, Answers, netVars
<1>12. CASE DeleteGateway(c)
  BY <1>12, <1>0 DEF DeleteGateway, Applied, Answers, netVars
<1>13. CASE DeleteVpc(c)
  BY <1>13, <1>0 DEF DeleteVpc, Applied, Answers, netVars
<1> QED
  BY <1>1, <1>2, <1>3, <1>4, <1>5, <1>6, <1>7, <1>8, <1>9, <1>10, <1>11, <1>12, <1>13 DEF
     NetworkStep

\* Whoever else goes on: a step on network v leaves the others and their networks alone.
LEMMA OthersUndo ==
  ASSUME IInv, UndoInv, NEW c \in Callers, NetworkStep(c)
  PROVE  UndoInv'
<1> SUFFICES ASSUME NEW d \in Callers, Creator(d)' PROVE Undoes(d)'
  BY DEF UndoInv
<1>1. PICK v : v = net[c]
  OBVIOUS
<1>2. pc[c] \in NetworkCalls \cup RemovalCalls /\ Locally(c, v)
  BY <1>1, NetworkStepFacts
<1>3. CASE d = c
  BY <1>3, UndoFacts
<1>4. CASE d # c
  <2>1. Creator(d) /\ pc'[d] = pc[d] /\ net'[d] = net[d] /\ net[d] \in Vpcs
    BY <1>2, <1>4 DEF Locally, Others, Creator, IInv, TypeInv, FrameInv, FrameOK
  <2>2. net[d] # v
    <3>1. Creator(c) \/ v \in doomed
      BY <1>1, <1>2, NetworkFrame
    <3> QED BY <1>1, <1>4, <2>1, <3>1 DEF IInv, SafetyInv, Ownership
  <2> QED BY <1>2, <2>1, <2>2 DEF Locally, OnlyAt, UndoInv, Undoes
<1> QED BY <1>3, <1>4

LEMMA CreatingIs ==
  \A v : /\ Creating(v) <=> \E c \in Callers : Creator(c) /\ net[c] = v
         /\ Creating(v)' <=> \E c \in Callers : Creator(c)' /\ net'[c] = v
BY DEF Creating, Works, Creator

LEMMA NetworkStepResidue ==
  ASSUME IInv, ResidueInv, NEW c \in Callers, NetworkStep(c)
  PROVE  ResidueInv'
<1>1. PICK v : v = net[c]
  OBVIOUS
<1>2. pc[c] \in NetworkCalls \cup RemovalCalls /\ Locally(c, v) /\ Orderly(c, v)
  BY <1>1, NetworkStepFacts
<1>3. /\ v \in Vpcs /\ (Creator(c) \/ v \in doomed)
      /\ pc[c] # "idle" /\ (Creator(c) => v \notin known)
  BY <1>1, <1>2, NetworkFrame DEF NetworkCalls, RemovalCalls
<1>4. UndoInv'
  BY OthersUndo DEF ResidueInv
<1>5. \A w \in Vpcs : hit[w] \subseteq hit'[w]
  BY HitGrows
<1>6. known \subseteq known' /\ doomed \subseteq known /\ known \subseteq Vpcs
  BY <1>2 DEF Locally, Publishes, IInv, SafetyInv, TypeInv, TypeOK, UserType
<1>7. ASSUME NEW w \in Vpcs, gw'[w] = "free"
      PROVE  hit'[w] \cap GatewayFaults # {} \/ \E d \in Callers : HandlesGateway(d, w)'
  <2>1. \A d \in Callers \ {c} : HandlesGateway(d, w) => HandlesGateway(d, w)'
    BY <1>2 DEF Locally, Others, HandlesGateway
  <2>2. CASE w = v
    <3>1. CASE gw[v] = "free" /\ ~HandlesGateway(c, v)
      <4>1. hit[v] \cap GatewayFaults # {} \/ \E d \in Callers \ {c} : HandlesGateway(d, v)
        BY <1>3, <3>1 DEF ResidueInv, GatewayInv
      <4>2. hit[v] \cap GatewayFaults # {} => hit'[v] \cap GatewayFaults # {}
        BY <1>3, <1>5
      <4> QED BY <2>1, <2>2, <4>1, <4>2 DEF HandlesGateway
    <3> QED BY <1>1, <1>7, <2>2, <3>1, GatewayTraces DEF HandlesGateway
  <2>3. CASE w # v
    <3>1. gw[w] = "free" /\ ~HandlesGateway(c, w)
      BY <1>1, <1>2, <1>7, <2>3 DEF Locally, OnlyAt, HandlesGateway
    <3> QED BY <1>5, <2>1, <3>1 DEF ResidueInv, GatewayInv
  <2> QED BY <2>2, <2>3
<1>8. ASSUME NEW s \in Subnets, sstate'[s] = "live"
      PROVE  snet'[s] \in known' /\ vpc'[snet'[s]] = "live"
  <2>1. UNCHANGED subnetVars
    BY DEF NetworkStep, AddTags, CreateGateway, AttachGateway, GetRouteTable, RouteV4, RouteV6,
           DropRouteV4, DropTable, GetNetwork, DescribeGateways, DetachGateway, DeleteGateway,
           DeleteVpc
  <2>2. snet'[s] = snet[s] /\ snet[s] \in known /\ vpc[snet[s]] = "live"
    BY <1>8, <2>1 DEF subnetVars, ResidueInv, SubnetHomeInv
  <2>3. ASSUME snet[s] = v PROVE vpc'[v] = "live"
    <3>1. s \in SubnetsOf(v)
      BY <1>8, <2>1, <2>3 DEF subnetVars, SubnetsOf
    <3>2. CASE DeleteVpc(c)
      BY <1>1, <2>2, <2>3, <3>1, <3>2 DEF DeleteVpc, Answers, Applied
    <3>3. CASE ~DeleteVpc(c)
      BY <2>2, <2>3, <3>3 DEF NetworkStep, AddTags, CreateGateway, AttachGateway, GetRouteTable,
         RouteV4, RouteV6, DropRouteV4, DropTable, GetNetwork, DescribeGateways, DetachGateway,
         DeleteGateway, netVars
    <3> QED BY <3>2, <3>3
  <2> QED BY <1>2, <1>6, <2>2, <2>3 DEF Locally, OnlyAt
<1>9. ASSUME NEW w \in Vpcs, vpc'[w] = "live", w \notin known', ~Creating(w)'
      PROVE  hit'[w] \cap RemovalFaults # {}
  <2>1. CASE w = v
    <3>1. Creator(c) /\ Undoes(c)
      BY <1>3, <1>6, <1>9, <2>1 DEF ResidueInv, UndoInv
    <3>2. pc'[c] = "idle"
      BY <1>2, <1>9, <2>1, <3>1, CreatingIs DEF Locally, Creator
    <3>3. SubnetsOf(v) = {}
      BY <1>3, <3>1 DEF SubnetsOf, ResidueInv, SubnetHomeInv
    <3> QED BY <1>1, <1>9, <2>1, <3>1, <3>2, <3>3, ReturnTraces
  <2>2. CASE w # v
    <3>1. \A d \in Callers : Creator(d) /\ net[d] = w => Creator(d)' /\ net'[d] = w
      BY <1>1, <1>2, <2>2 DEF Locally, Others, Creator
    <3>2. vpc[w] = "live" /\ w \notin known /\ ~Creating(w)
      BY <1>2, <1>6, <1>9, <2>2, <3>1, CreatingIs DEF Locally, OnlyAt
    <3>3. hit[w] \cap RemovalFaults # {}
      BY <3>2 DEF ResidueInv, FailedCreateLeavesNothing, RemovalFaults
    <3> QED BY <1>5, <3>3
  <2> QED BY <2>1, <2>2
<1> QED
  BY <1>4, <1>7, <1>8, <1>9
  DEF ResidueInv, GatewayInv, SubnetHomeInv, FailedCreateLeavesNothing, RemovalFaults

LEMMA CreateVpcResidue ==
  ASSUME IInv, ResidueInv, NEW c \in Callers, CreateVpc(c)
  PROVE  ResidueInv'
<1>1. PICK v \in Vpcs :
        /\ vpc[v] = "none" /\ v \notin known /\ (\A d \in Callers : Creator(d) => net[d] # v)
        /\ ~Creator(c) /\ Others(c) /\ OnlyAt(v)
        /\ vpc'[v] = "live" /\ v \in table' /\ UNCHANGED <<tagged, gw, routes, known, doomed>>
        /\ Creator(c)' => net'[c] = v /\ pc'[c] = "AddTags"
  BY CreateVpcFacts
<1>2. (\A w \in Vpcs : hit[w] \subseteq hit'[w]) /\ UNCHANGED subnetVars /\ pc[c] = "idle"
  BY HitGrows DEF CreateVpc
<1>3. UndoInv'
  BY <1>1 DEF UndoInv, Undoes, Others, Creator, ResidueInv
<1>4. GatewayInv'
  <2>1. \A d \in Callers, w \in Vpcs : HandlesGateway(d, w) => HandlesGateway(d, w)'
    BY <1>1, <1>2 DEF Others, HandlesGateway
  <2> QED BY <1>1, <1>2, <2>1 DEF GatewayInv, ResidueInv
<1>5. SubnetHomeInv'
  BY <1>1, <1>2 DEF SubnetHomeInv, ResidueInv, subnetVars, OnlyAt, IInv, TypeInv, TypeOK, UserType
<1>6. ASSUME NEW w \in Vpcs, vpc'[w] = "live", w \notin known', ~Creating(w)'
      PROVE  hit'[w] \cap RemovalFaults # {}
  <2>1. CASE w = v
    <3>1. PICK u \in Vpcs, a \in {"ok", "lost"} :
            /\ vpc[u] = "none" /\ vpc' = [vpc EXCEPT ![u] = "live"] /\ Charge(a, u, "CreateVpc")
            /\ IF a = "ok" THEN Enter(c, "CreateNetwork", u, None, "AddTags") ELSE Return(c)
      BY DEF CreateVpc
    <3>2. u = v
      BY <1>1, <3>1 DEF IInv, TypeInv, TypeOK, NetworkType
    <3>3. a = "lost"
      BY <1>6, <2>1, <3>1, <3>2, EnterOthers, CreatingIs DEF IInv, Creator
    <3>4. FaultType
      BY DEF IInv, TypeInv, TypeOK
    <3> QED BY <2>1, <3>1, <3>2, <3>3, <3>4, ChargeHits DEF RemovalFaults
  <2>2. CASE w # v
    <3>1. \A d \in Callers : Creator(d) /\ net[d] = w => Creator(d)' /\ net'[d] = w
      BY <1>1 DEF Others, Creator
    <3>2. vpc[w] = "live" /\ w \notin known /\ ~Creating(w)
      BY <1>1, <1>6, <2>2, <3>1, CreatingIs DEF OnlyAt
    <3>3. hit[w] \cap RemovalFaults # {}
      BY <3>2 DEF ResidueInv, FailedCreateLeavesNothing, RemovalFaults
    <3> QED BY <1>2, <3>3
  <2> QED BY <2>1, <2>2
<1> QED
  BY <1>3, <1>4, <1>5, <1>6 DEF ResidueInv, FailedCreateLeavesNothing, RemovalFaults

LEMMA UserStepResidue ==
  ASSUME IInv, ResidueInv, NEW c \in Callers, UserStep(c)
  PROVE  ResidueInv'
<1>1. /\ Others(c) /\ UNCHANGED <<netVars, known>> /\ ~Creator(c) /\ ~Creator(c)'
  BY UserStepFacts
<1>2. (\A w \in Vpcs : hit[w] \subseteq hit'[w]) /\ pc[c] \in SubnetCalls \cup {"idle"}
  BY HitGrows DEF UserStep, TagSubnet, SubnetTable, AssociateTable, GetSubnet, UndoSubnet,
     DeleteNetwork, CreateSubnet, DeleteSubnet, SubnetCalls
<1>3. UndoInv'
  BY <1>1 DEF UndoInv, Undoes, Others, Creator, ResidueInv, netVars
<1>4. GatewayInv'
  <2>1. \A d \in Callers, w \in Vpcs : HandlesGateway(d, w) => HandlesGateway(d, w)'
    BY <1>1, <1>2 DEF Others, HandlesGateway, SubnetCalls
  <2> QED BY <1>1, <1>2, <2>1 DEF GatewayInv, ResidueInv, netVars
<1>5. SubnetHomeInv'
  <2>1. CASE CreateSubnet(c)
    BY <1>1, <2>1 DEF CreateSubnet, SubnetHomeInv, ResidueInv, netVars, IInv, TypeInv, TypeOK,
           SubnetType
  <2>2. CASE UndoSubnet(c) \/ DeleteSubnet(c)
    BY <1>1, <2>2 DEF UndoSubnet, DeleteSubnet, RemoveSubnet, SubnetHomeInv, ResidueInv, netVars,
           IInv, TypeInv, TypeOK, SubnetType
  <2>3. CASE TagSubnet(c) \/ SubnetTable(c) \/ AssociateTable(c) \/ GetSubnet(c) \/ DeleteNetwork(c)
    BY <1>1, <2>3 DEF TagSubnet, SubnetTable, AssociateTable, GetSubnet, DeleteNetwork,
       SubnetHomeInv, ResidueInv, netVars, subnetVars
  <2> QED BY <2>1, <2>2, <2>3 DEF UserStep
<1>6. FailedCreateLeavesNothing'
  <2>1. \A w \in Vpcs : Creating(w) => Creating(w)'
    BY <1>1, CreatingIs DEF Others, Creator
  <2>2. \A w \in Vpcs : (vpc[w] = "live" /\ w \notin known /\ ~Creating(w))
                         => hit[w] \cap RemovalFaults # {}
    BY DEF ResidueInv, FailedCreateLeavesNothing, RemovalFaults
  <2> QED BY <1>1, <1>2, <2>1, <2>2 DEF FailedCreateLeavesNothing, RemovalFaults, netVars
<1> QED
  BY <1>3, <1>4, <1>5, <1>6 DEF ResidueInv

LEMMA ResidueStep == IInv /\ ResidueInv /\ [Next]_vars => ResidueInv'
<1> SUFFICES ASSUME IInv, ResidueInv, [Next]_vars PROVE ResidueInv'
  OBVIOUS
<1>1. ASSUME UNCHANGED vars PROVE ResidueInv'
  <2>1. UndoInv' /\ GatewayInv' /\ SubnetHomeInv'
    BY <1>1 DEF vars, netVars, subnetVars, frameVars, userVars, faultVars, ResidueInv, UndoInv,
       Undoes, Creator, GatewayInv, HandlesGateway, SubnetHomeInv
  <2>2. FailedCreateLeavesNothing'
    BY <1>1 DEF vars, netVars, frameVars, userVars, faultVars, ResidueInv,
       FailedCreateLeavesNothing, Creating, Works
  <2> QED BY <2>1, <2>2 DEF ResidueInv
<1> QED
  BY <1>1, NextSteps, CreateVpcResidue, NetworkStepResidue, UserStepResidue

LEMMA ResidueInit == Init => ResidueInv
BY DEF Init, ResidueInv, UndoInv, Creator, GatewayInv, SubnetHomeInv, FailedCreateLeavesNothing

\* A network nobody was told of is left behind only by a fault on its creation's answer, on the
\* final read, or on a call of its own undo: whatever other callers do, the undo itself works.
THEOREM FailedCreateCleansUp == Spec => []FailedCreateLeavesNothing
<1>1. ResidueInv => FailedCreateLeavesNothing
  BY DEF ResidueInv
<1> QED
  BY IInvInit, IInvStep, ResidueInit, ResidueStep, <1>1, PTL DEF Spec

\* A gateway that nobody is building or deleting is loose only after a fault on a gateway call.
THEOREM OrphanGateways == Spec => []OrphanGatewayExplained
<1>1. IInv /\ ResidueInv => OrphanGatewayExplained
  <2> SUFFICES ASSUME IInv, ResidueInv, NEW v \in Vpcs, gw[v] = "free", ~Creating(v), ~Deleting(v)
               PROVE  hit[v] \cap GatewayFaults # {}
    BY DEF OrphanGatewayExplained, GatewayFaults
  <2>1. ASSUME NEW c \in Callers, HandlesGateway(c, v) PROVE FALSE
    BY <2>1 DEF HandlesGateway, Creating, Deleting, Works, IInv, TypeInv, FrameInv, FrameOK,
       NetworkCalls, RemovalCalls
  <2> QED BY <2>1 DEF ResidueInv, GatewayInv
<1> QED
  BY IInvInit, IInvStep, ResidueInit, ResidueStep, <1>1, PTL DEF Spec

-----------------------------------------------------------------------------
\* Subnets.  A subnet in the making is in its maker's hands only, and each step of CreateSubnet
\* finds there what the steps before it made.

MakesSubnet(c) == pc[c] \in SubnetCalls

SubnetBuilt(c) ==
  /\ sub[c] \notin knownSub /\ sstate[sub[c]] = "live" /\ snet[sub[c]] = net[c]
  /\ pc[c] \in {"SubnetTable", "AssociateTable", "GetSubnet"} => sub[c] \in stagged
  /\ pc[c] = "GetSubnet" => sub[c] \in assoc

SubnetInv ==
  /\ \A c \in Callers : MakesSubnet(c) => SubnetBuilt(c)
  /\ \A c, d \in Callers : MakesSubnet(c) /\ MakesSubnet(d) /\ sub[c] = sub[d] => c = d
  /\ doomedSub \subseteq knownSub
  /\ \A s \in knownSub : sstate[s] # "none"
  /\ \A s \in knownSub \ doomedSub : sstate[s] = "live" /\ s \in stagged /\ s \in assoc

\* The frames of the other callers, subnets included.
OtherSubnets(c) == Others(c) /\ \A d \in Callers \ {c} : sub'[d] = sub[d]

LEMMA GotoSubnet ==
  ASSUME TypeInv, NEW c \in Callers, NEW call, Goto(c, call)
  PROVE  OtherSubnets(c) /\ pc'[c] = call /\ net'[c] = net[c] /\ sub'[c] = sub[c]
BY DEF TypeInv, FrameInv, FrameType, Goto, frameVars, Others, OtherSubnets

LEMMA EnterSubnet ==
  ASSUME TypeInv, NEW c \in Callers, NEW method, NEW v, NEW s, NEW call,
         Enter(c, method, v, s, call)
  PROVE  OtherSubnets(c) /\ pc'[c] = call /\ net'[c] = v /\ sub'[c] = s
BY DEF TypeInv, FrameInv, FrameType, Enter, Others, OtherSubnets

LEMMA ReturnSubnet ==
  ASSUME TypeInv, NEW c \in Callers, Return(c)
  PROVE  OtherSubnets(c) /\ pc'[c] = "idle"
BY EnterSubnet DEF Return

\* The steps on networks leave the subnets alone.
LEMMA NetworkStepSubnets ==
  ASSUME IInv, SubnetInv, NEW c \in Callers, CreateVpc(c) \/ NetworkStep(c) \/ DeleteNetwork(c)
  PROVE  SubnetInv'
<1>1. OtherSubnets(c) /\ ~MakesSubnet(c)' /\ UNCHANGED <<subnetVars, knownSub, doomedSub>>
  <2>0. TypeInv
    BY DEF IInv
  <2> USE <2>0, GotoSubnet, EnterSubnet, ReturnSubnet
      DEF MakesSubnet, SubnetCalls, Rollback, userVars
  <2>1. CASE CreateVpc(c)
    BY <2>1 DEF CreateVpc
  <2>2. CASE DeleteNetwork(c)
    BY <2>2 DEF DeleteNetwork
  <2>3. CASE AddTags(c)
    BY <2>3 DEF AddTags
  <2>4. CASE CreateGateway(c)
    BY <2>4 DEF CreateGateway
  <2>5. CASE AttachGateway(c)
    BY <2>5 DEF AttachGateway
  <2>6. CASE GetRouteTable(c)
    BY <2>6 DEF GetRouteTable
  <2>7. CASE RouteV4(c)
    BY <2>7 DEF RouteV4
  <2>8. CASE RouteV6(c)
    BY <2>8 DEF RouteV6
  <2>9. CASE DropRouteV4(c)
    BY <2>9 DEF DropRouteV4
  <2>10. CASE DropTable(c)
    BY <2>10 DEF DropTable
  <2>11. CASE GetNetwork(c)
    BY <2>11 DEF GetNetwork
  <2>12. CASE DescribeGateways(c)
    BY <2>12 DEF DescribeGateways
  <2>13. CASE DetachGateway(c)
    BY <2>13 DEF DetachGateway
  <2>14. CASE DeleteGateway(c)
    BY <2>14 DEF DeleteGateway
  <2>15. CASE DeleteVpc(c)
    BY <2>15 DEF DeleteVpc
  <2> QED
    BY <2>1, <2>2, <2>3, <2>4, <2>5, <2>6, <2>7, <2>8, <2>9, <2>10, <2>11, <2>12, <2>13, <2>14,
       <2>15 DEF NetworkStep
<1> QED
  BY <1>1 DEF SubnetInv, MakesSubnet, SubnetBuilt, OtherSubnets, Others, subnetVars

LEMMA MakerStepSubnets ==
  ASSUME IInv, SubnetInv, NEW c \in Callers,
         TagSubnet(c) \/ SubnetTable(c) \/ AssociateTable(c) \/ GetSubnet(c) \/ UndoSubnet(c)
  PROVE  SubnetInv'
<1>0. /\ TypeInv /\ sstate \in [Subnets -> {"none", "live", "gone"}] /\ MakesSubnet(c)
      /\ sub[c] \in Subnets /\ SubnetBuilt(c)
  BY DEF IInv, TypeInv, TypeOK, SubnetType, SubnetInv, MakesSubnet, FrameInv, FrameOK,
         SubnetCalls, TagSubnet, SubnetTable, AssociateTable, GetSubnet, UndoSubnet
<1>1. /\ OtherSubnets(c) /\ UNCHANGED <<snet, doomedSub>>
      /\ MakesSubnet(c)' => sub'[c] = sub[c] /\ SubnetBuilt(c)'
  <2> USE <1>0, GotoSubnet, ReturnSubnet
      DEF MakesSubnet, SubnetCalls, SubnetBuilt, Answers, Applied, ReadAnswers, userVars, subnetVars
  <2>1. CASE TagSubnet(c)
    BY <2>1 DEF TagSubnet
  <2>2. CASE SubnetTable(c)
    BY <2>2 DEF SubnetTable
  <2>3. CASE AssociateTable(c)
    BY <2>3 DEF AssociateTable
  <2>4. CASE GetSubnet(c)
    BY <2>4 DEF GetSubnet
  <2>5. CASE UndoSubnet(c)
    BY <2>5 DEF UndoSubnet
  <2> QED BY <2>1, <2>2, <2>3, <2>4, <2>5
<1>2. /\ stagged \subseteq stagged' /\ assoc \subseteq assoc'
      /\ \A s \in Subnets \ {sub[c]} :
           sstate'[s] = sstate[s] /\ (s \in knownSub' <=> s \in knownSub)
      /\ \/ UNCHANGED knownSub /\ sstate'[sub[c]] # "none"
         \/ UNCHANGED sstate /\ knownSub' = knownSub \cup {sub[c]} /\ pc[c] = "GetSubnet"
            /\ ~MakesSubnet(c)'
  <2> USE <1>0, ReturnSubnet DEF SubnetBuilt, MakesSubnet, SubnetCalls, userVars, subnetVars
  <2>1. CASE TagSubnet(c)
    BY <2>1 DEF TagSubnet
  <2>2. CASE SubnetTable(c)
    BY <2>2 DEF SubnetTable
  <2>3. CASE AssociateTable(c)
    BY <2>3 DEF AssociateTable
  <2>4. CASE GetSubnet(c)
    BY <2>4 DEF GetSubnet
  <2>5. CASE UndoSubnet(c)
    BY <2>5 DEF UndoSubnet, RemoveSubnet
  <2> QED BY <2>1, <2>2, <2>3, <2>4, <2>5
<1>3. ASSUME NEW d \in Callers, MakesSubnet(d)', d # c
      PROVE  /\ MakesSubnet(d) /\ sub'[d] = sub[d] /\ sub[d] \in Subnets \ {sub[c]}
             /\ SubnetBuilt(d)'
  <2>1. MakesSubnet(d) /\ sub'[d] = sub[d] /\ pc'[d] = pc[d] /\ net'[d] = net[d]
    BY <1>1, <1>3 DEF OtherSubnets, Others, MakesSubnet
  <2>2. sub[d] \in Subnets \ {sub[c]}
    BY <1>0, <1>3, <2>1 DEF SubnetInv, IInv, TypeInv, FrameInv, FrameOK, MakesSubnet
  <2> QED BY <1>1, <1>2, <2>1, <2>2 DEF SubnetInv, SubnetBuilt
<1>4. knownSub \subseteq Subnets
  BY DEF IInv, TypeInv, TypeOK, UserType
<1>5. (\A d \in Callers : MakesSubnet(d) => SubnetBuilt(d))'
  BY <1>1, <1>3
<1>6. (\A d, e \in Callers : MakesSubnet(d) /\ MakesSubnet(e) /\ sub[d] = sub[e] => d = e)'
  BY <1>1, <1>3 DEF SubnetInv
<1>7. (doomedSub \subseteq knownSub)'
  BY <1>1, <1>2 DEF SubnetInv
<1>8. ASSUME NEW s \in knownSub'
      PROVE  /\ sstate'[s] # "none"
             /\ s \notin doomedSub' => sstate'[s] = "live" /\ s \in stagged' /\ s \in assoc'
  <2>1. CASE s # sub[c]
    BY <1>1, <1>2, <1>4, <1>8, <2>1 DEF SubnetInv
  <2>2. CASE s = sub[c]
    BY <1>0, <1>2, <1>8, <2>2 DEF SubnetBuilt
  <2> QED BY <2>1, <2>2
<1> QED
  BY <1>5, <1>6, <1>7, <1>8 DEF SubnetInv

LEMMA CreateSubnetSubnets ==
  ASSUME IInv, SubnetInv, NEW c \in Callers, CreateSubnet(c)
  PROVE  SubnetInv'
<1>1. PICK v \in known, s \in Subnets, a \in {"ok", "lost"} :
        /\ sstate[s] = "none" /\ sstate' = [sstate EXCEPT ![s] = "live"]
        /\ snet' = [snet EXCEPT ![s] = v]
        /\ IF a = "ok" THEN Enter(c, "CreateSubnet", v, s, "TagSubnet") ELSE Return(c)
  BY DEF CreateSubnet
<1>2. UNCHANGED <<stagged, assoc, knownSub, doomedSub>> /\ TypeInv
  BY DEF CreateSubnet, userVars, IInv
<1>3. /\ \A r \in Subnets \ {s} : sstate'[r] = sstate[r] /\ snet'[r] = snet[r]
      /\ sstate'[s] = "live" /\ snet'[s] = v /\ s \notin knownSub
  BY <1>1 DEF IInv, TypeInv, TypeOK, SubnetType, SubnetInv
<1>4. OtherSubnets(c) /\ (MakesSubnet(c)' => pc'[c] = "TagSubnet" /\ net'[c] = v /\ sub'[c] = s)
  BY <1>1, <1>2, EnterSubnet, ReturnSubnet DEF MakesSubnet, SubnetCalls
<1>5. ASSUME NEW d \in Callers, MakesSubnet(d)', d # c
      PROVE  /\ MakesSubnet(d) /\ sub'[d] = sub[d] /\ sub[d] \in Subnets \ {s}
             /\ SubnetBuilt(d)'
  <2>1. MakesSubnet(d) /\ sub'[d] = sub[d] /\ pc'[d] = pc[d] /\ net'[d] = net[d]
    BY <1>4, <1>5 DEF OtherSubnets, Others, MakesSubnet
  <2>2. sub[d] \in Subnets \ {s}
    BY <1>1, <1>2, <2>1 DEF SubnetInv, SubnetBuilt, TypeInv, FrameInv, FrameOK, MakesSubnet
  <2> QED BY <1>2, <1>3, <2>1, <2>2 DEF SubnetInv, SubnetBuilt
<1>6. MakesSubnet(c)' => SubnetBuilt(c)'
  BY <1>2, <1>3, <1>4 DEF SubnetBuilt
<1>7. knownSub \subseteq Subnets
  BY DEF IInv, TypeInv, TypeOK, UserType
<1>8. (\A d, e \in Callers : MakesSubnet(d) /\ MakesSubnet(e) /\ sub[d] = sub[e] => d = e)'
  BY <1>4, <1>5 DEF SubnetInv
<1>9. (\A r \in knownSub : sstate[r] # "none")'
      /\ (\A r \in knownSub \ doomedSub : sstate[r] = "live" /\ r \in stagged /\ r \in assoc)'
  BY <1>2, <1>3, <1>7 DEF SubnetInv
<1> QED
  BY <1>2, <1>5, <1>6, <1>8, <1>9 DEF SubnetInv

LEMMA DeleteSubnetSubnets ==
  ASSUME IInv, SubnetInv, NEW c \in Callers, DeleteSubnet(c)
  PROVE  SubnetInv'
<1>1. PICK s \in knownSub : RemoveSubnet(s, snet[s]) /\ doomedSub' = doomedSub \cup {s}
  BY DEF DeleteSubnet
<1>2. UNCHANGED <<snet, stagged, assoc, pc, net, sub, knownSub>>
  BY DEF DeleteSubnet, frameVars
<1>3. knownSub \subseteq Subnets /\ sstate \in [Subnets -> {"none", "live", "gone"}]
  BY DEF IInv, TypeInv, TypeOK, SubnetType, UserType
<1>4. /\ \A r \in Subnets \ {s} : sstate'[r] = sstate[r]
      /\ sstate[s] # "none" => sstate'[s] # "none"
  BY <1>1, <1>3 DEF RemoveSubnet
<1>5. \A d \in Callers : MakesSubnet(d) => sub[d] \in Subnets \ {s}
  BY <1>1 DEF SubnetInv, SubnetBuilt, IInv, TypeInv, FrameInv, FrameOK, MakesSubnet
<1>6. (\A d \in Callers : MakesSubnet(d) => SubnetBuilt(d))'
  BY <1>2, <1>4, <1>5 DEF SubnetInv, SubnetBuilt, MakesSubnet
<1> QED
  BY <1>1, <1>2, <1>3, <1>4, <1>6 DEF SubnetInv, MakesSubnet

LEMMA SubnetStep == IInv /\ SubnetInv /\ [Next]_vars => SubnetInv'
<1> SUFFICES ASSUME IInv, SubnetInv, [Next]_vars PROVE SubnetInv'
  OBVIOUS
<1>1. ASSUME UNCHANGED vars PROVE SubnetInv'
  BY <1>1 DEF vars, subnetVars, frameVars, userVars, SubnetInv, MakesSubnet, SubnetBuilt
<1> QED
  BY <1>1, NextSteps, NetworkStepSubnets, MakerStepSubnets, CreateSubnetSubnets,
     DeleteSubnetSubnets DEF UserStep

LEMMA SubnetInit == Init => SubnetInv
BY DEF Init, SubnetInv, MakesSubnet, SubnetCalls

\* A subnet CreateSubnet returned is up, named and associated until its deletion is asked for,
\* its network is never removed under it, and is wired as long as nobody deletes it.
THEOREM SubnetsStayRouted == Spec => []KnownSubnetRouted
<1>1. IInv /\ ResidueInv /\ SubnetInv => KnownSubnetRouted
  <2> SUFFICES ASSUME IInv, ResidueInv, SubnetInv, NEW s \in knownSub \ doomedSub
               PROVE  /\ sstate[s] = "live" /\ s \in stagged /\ s \in assoc
                      /\ vpc[snet[s]] = "live"
                      /\ snet[s] \notin doomed => Wired(snet[s])
    BY DEF KnownSubnetRouted
  <2>1. s \in Subnets /\ sstate[s] = "live" /\ s \in stagged /\ s \in assoc
    BY DEF SubnetInv, IInv, TypeInv, TypeOK, UserType
  <2>2. snet[s] \in known /\ vpc[snet[s]] = "live"
    BY <2>1 DEF ResidueInv, SubnetHomeInv
  <2> QED
    BY <2>1, <2>2 DEF IInv, SafetyInv, KnownNetworkComplete
<1> QED
  BY IInvInit, IInvStep, ResidueInit, ResidueStep, SubnetInit, SubnetStep, <1>1, PTL DEF Spec

-----------------------------------------------------------------------------
(***************************************************************************)
(* AwsNetwork implements NetworkLifecycle under the refinement mapping     *)
(* Lifecycle: each EC2 call is a step of the life of the network it works  *)
(* on, or no step at all.                                                  *)
(***************************************************************************)
\* The phase of a network, read off the EC2 state and what callers were told.
LEMMA PhaseOf ==
  ASSUME NEW v \in Vpcs
  PROVE  /\ vpc[v] = "none" => Phase(v) = "absent"
         /\ vpc[v] = "gone" => Phase(v) = "removed"
         /\ vpc[v] = "live" =>
              /\ v \in doomed => Phase(v) = "dismantling"
              /\ v \in known \ doomed => Phase(v) = "usable"
              /\ v \notin known \cup doomed /\ Creating(v) => Phase(v) = "building"
              /\ v \notin known \cup doomed /\ ~Creating(v) => Phase(v) = "residue"
BY DEF Phase

LEMMA NextPhaseOf ==
  ASSUME NEW v \in Vpcs
  PROVE  /\ vpc'[v] = "none" => Phase(v)' = "absent"
         /\ vpc'[v] = "gone" => Phase(v)' = "removed"
         /\ vpc'[v] = "live" =>
              /\ v \in doomed' => Phase(v)' = "dismantling"
              /\ v \in known' \ doomed' => Phase(v)' = "usable"
              /\ v \notin known' \cup doomed' /\ Creating(v)' => Phase(v)' = "building"
              /\ v \notin known' \cup doomed' /\ ~Creating(v)' => Phase(v)' = "residue"
BY DEF Phase

\* A step of the abstract specification, told by what happens to one network v.
Elsewhere(v) == \A w \in Vpcs \ {v} : Phase(w)' = Phase(w) /\ (Wired(w)' <=> Wired(w))

SameWiring(v) == Wired(v)' <=> Wired(v)

AbstractMove(v) ==
  \/ Phase(v) = "absent" /\ Phase(v)' \in {"building", "residue"} /\ SameWiring(v)
  \/ Phase(v) = "building" /\ Phase(v)' = "usable" /\ Wired(v) /\ SameWiring(v)
  \/ Phase(v) = "building" /\ Phase(v)' = "residue" /\ (Wired(v)' => Wired(v))
  \/ Phase(v) = "usable" /\ Phase(v)' = "dismantling" /\ SameWiring(v)
  \/ Phase(v) \in {"building", "dismantling"} /\ Phase(v)' = "removed" /\ ~Wired(v) /\ SameWiring(v)
  \/ Phase(v) = "building" /\ Phase(v)' = "building"
  \/ Phase(v) = "dismantling" /\ Phase(v)' = "dismantling" /\ (Wired(v)' => Wired(v))
  \/ Phase(v)' = Phase(v) /\ SameWiring(v)

AbstractNext == [Lifecycle!Next]_(Lifecycle!lifecycle)

LEMMA AbstractStep ==
  ASSUME NEW v \in Vpcs, Elsewhere(v), AbstractMove(v)
  PROVE  AbstractNext
<1> DEFINE P == [w \in Vpcs |-> Phase(w)]
           W == {w \in Vpcs : Wired(w)}
<1>1. P' = [P EXCEPT ![v] = Phase(v)'] /\ P[v] = Phase(v)
  BY DEF Elsewhere
<1>2. W' = IF Wired(v)' THEN W \cup {v} ELSE W \ {v}
  BY DEF Elsewhere
<1>3. SameWiring(v) => W' = W
  BY <1>2 DEF SameWiring
<1>4. (Wired(v)' => Wired(v)) => W' \in {W, W \ {v}}
  BY <1>2
<1>5. v \in W <=> Wired(v)
  OBVIOUS
<1>6. Phase(v)' = Phase(v) => P' = P
  BY <1>1 DEF Elsewhere
<1> HIDE DEF P, W
<1> QED
  BY <1>1, <1>2, <1>3, <1>4, <1>5, <1>6 DEF AbstractMove, AbstractNext, Lifecycle!Next,
         Lifecycle!lifecycle, Lifecycle!Start, Lifecycle!Publish, Lifecycle!Abandon,
         Lifecycle!AskDeletion, Lifecycle!Remove, Lifecycle!Wire, Lifecycle!Unwire,
         Lifecycle!Move, P, W

-----------------------------------------------------------------------------
\* The steps of the callers

\* A caller that works on network v only leaves the life of the other networks alone.
LEMMA ElsewhereSame ==
  ASSUME NEW c \in Callers, NEW v \in Vpcs, Others(c), OnlyAt(v),
         Creator(c) => net[c] = v, Creator(c)' => net'[c] = v,
         known' \in {known, known \cup {v}}, doomed' \in {doomed, doomed \cup {v}}
  PROVE  Elsewhere(v)
<1> SUFFICES ASSUME NEW w \in Vpcs \ {v} PROVE Phase(w)' = Phase(w) /\ (Wired(w)' <=> Wired(w))
  BY DEF Elsewhere
<1>1. Creating(w)' <=> Creating(w)
  <2>1. \A d \in Callers \ {c} : (Creator(d)' <=> Creator(d)) /\ net'[d] = net[d]
    BY DEF Others, Creator
  <2> QED BY <2>1, CreatingIs
<1>2. Wired(w)' <=> Wired(w)
  BY DEF Wired, OnlyAt
<1>3. Phase(w)' = Phase(w)
  BY <1>1 DEF Phase, OnlyAt
<1> QED BY <1>2, <1>3

LEMMA NetworkStepMoves ==
  ASSUME IInv, IInv', NEW c \in Callers, NetworkStep(c)
  PROVE  AbstractNext
<1>1. PICK v : v = net[c]
  OBVIOUS
<1>2. pc[c] \in NetworkCalls \cup RemovalCalls /\ Locally(c, v) /\ Orderly(c, v)
  BY <1>1, NetworkStepFacts
<1>3. /\ v \in Vpcs /\ vpc[v] # "none" /\ (Creator(c) \/ v \in doomed)
      /\ Creator(c) => v \notin known /\ vpc[v] = "live"
  BY <1>1, <1>2, NetworkFrame DEF Built
<1>4. Elsewhere(v)
  BY <1>1, <1>2, <1>3, ElsewhereSame DEF Locally, Publishes, Creator
<1>5. vpc[v] \in {"live", "gone"} /\ vpc'[v] \in {"live", "gone"} /\ doomed \subseteq known
  BY <1>2, <1>3 DEF Orderly, IInv, TypeInv, TypeOK, NetworkType, SafetyInv
<1>6. CASE Creator(c)
  <2>1. Phase(v) = "building" /\ v \notin doomed'
    BY <1>1, <1>2, <1>3, <1>5, <1>6, PhaseOf, CreatingIs DEF Locally
  <2>2. ASSUME vpc'[v] = "gone" PROVE AbstractMove(v)
    BY <1>2, <1>3, <2>1, <2>2, NextPhaseOf DEF AbstractMove, SameWiring, Orderly, Wired
  <2>3. ASSUME vpc'[v] = "live" /\ Publishes(c, v) PROVE AbstractMove(v)
    BY <1>3, <2>1, <2>3, NextPhaseOf DEF AbstractMove, SameWiring, Publishes
  <2>4. ASSUME vpc'[v] = "live", UNCHANGED known, pc'[c] = "idle" PROVE AbstractMove(v)
    <3>1. ~Creating(v)'
      BY <1>1, <1>2, <1>6, <2>4, CreatingIs DEF Locally, Others, Creator, IInv, SafetyInv,
             Ownership
    <3> QED
      BY <1>2, <1>3, <1>6, <2>1, <2>4, <3>1, NextPhaseOf DEF AbstractMove, Orderly
  <2>5. ASSUME vpc'[v] = "live", UNCHANGED known, pc'[c] # "idle" PROVE AbstractMove(v)
    <3>1. Creating(v)'
      BY <1>2, <1>6, <2>5, CreatingIs DEF Locally, Creator
    <3> QED
      BY <1>3, <1>6, <2>1, <2>5, <3>1, NextPhaseOf DEF AbstractMove
  <2>6. AbstractMove(v)
    BY <1>2, <1>5, <2>2, <2>3, <2>4, <2>5 DEF Locally
  <2> QED
    BY <1>3, <1>4, <2>6, AbstractStep
<1>7. CASE ~Creator(c)
  <2>1. v \in doomed /\ v \in doomed'
    BY <1>2, <1>3, <1>7 DEF Locally
  <2>2. ASSUME vpc[v] = "gone" PROVE AbstractMove(v)
    BY <1>2, <1>3, <2>2, PhaseOf, NextPhaseOf DEF AbstractMove, SameWiring, Orderly, Wired
  <2>3. ASSUME vpc[v] = "live" /\ vpc'[v] = "gone" PROVE AbstractMove(v)
    BY <1>2, <1>3, <2>1, <2>3, PhaseOf, NextPhaseOf DEF AbstractMove, SameWiring, Orderly, Wired
  <2>4. ASSUME vpc[v] = "live" /\ vpc'[v] = "live" PROVE AbstractMove(v)
    BY <1>2, <1>3, <1>7, <2>1, <2>4, PhaseOf, NextPhaseOf DEF AbstractMove, Orderly
  <2>5. AbstractMove(v)
    BY <1>5, <2>2, <2>3, <2>4
  <2> QED
    BY <1>3, <1>4, <2>5, AbstractStep
<1> QED BY <1>6, <1>7

LEMMA CreateVpcMoves ==
  ASSUME IInv, NEW c \in Callers, CreateVpc(c)
  PROVE  AbstractNext
<1>1. PICK v \in Vpcs :
           /\ vpc[v] = "none" /\ v \notin known /\ \A d \in Callers : Creator(d) => net[d] # v
           /\ ~Creator(c) /\ Others(c) /\ OnlyAt(v)
           /\ vpc'[v] = "live" /\ v \in table' /\ UNCHANGED <<tagged, gw, routes, known, doomed>>
           /\ Creator(c)' => net'[c] = v /\ pc'[c] = "AddTags"
  BY CreateVpcFacts
<1>2. Elsewhere(v)
  BY <1>1, ElsewhereSame
<1>3. v \notin known' \cup doomed'
  BY <1>1 DEF IInv, SafetyInv
<1>4. AbstractMove(v)
  BY <1>1, <1>3, PhaseOf, NextPhaseOf DEF AbstractMove, SameWiring, Wired
<1> QED
  BY <1>2, <1>4, AbstractStep

LEMMA UserStepMoves ==
  ASSUME IInv, NEW c \in Callers, UserStep(c)
  PROVE  AbstractNext
<1>1. /\ Others(c) /\ UNCHANGED <<netVars, known>> /\ ~Creator(c) /\ ~Creator(c)'
      /\ UNCHANGED doomed \/ \E v \in known : doomed' = doomed \cup {v}
  BY UserStepFacts
<1>2. \A v \in Vpcs : OnlyAt(v) /\ SameWiring(v)
  BY <1>1 DEF OnlyAt, netVars, SameWiring, Wired
<1>3. \A v : Creating(v)' <=> Creating(v)
  <2>1. \A d \in Callers : (Creator(d)' <=> Creator(d)) /\ (Creator(d) => net'[d] = net[d])
    BY <1>1 DEF Others, Creator
  <2> QED BY <2>1, CreatingIs
<1>4. CASE UNCHANGED doomed
  <2>1. \A v \in Vpcs : Phase(v)' = Phase(v)
    BY <1>1, <1>3, <1>4 DEF Phase, netVars
  <2> QED
    BY <1>2, <2>1 DEF AbstractNext, Lifecycle!lifecycle, SameWiring
<1>5. ASSUME NEW v \in known, doomed' = doomed \cup {v} PROVE AbstractNext
  <2>1. v \in Vpcs
    BY <1>5 DEF IInv, TypeInv, TypeOK, UserType
  <2>2. Elsewhere(v)
    BY <1>1, <1>2, <1>5, <2>1, ElsewhereSame
  <2>3. CASE v \in doomed
    <3>1. Phase(v)' = Phase(v)
      BY <1>1, <1>3, <1>5, <2>1, <2>3 DEF Phase, netVars
    <3> QED
      BY <1>2, <2>1, <2>2, <3>1, AbstractStep DEF AbstractMove
  <2>4. CASE v \notin doomed
    <3>1. vpc[v] = "live" /\ vpc'[v] = "live"
      BY <1>1, <1>5, <2>4 DEF netVars, IInv, SafetyInv, KnownNetworkComplete
    <3>2. Phase(v) = "usable" /\ Phase(v)' = "dismantling"
      BY <1>5, <2>1, <2>4, <3>1, PhaseOf, NextPhaseOf
    <3> QED
      BY <1>2, <2>1, <2>2, <3>2, AbstractStep DEF AbstractMove
  <2> QED BY <2>3, <2>4
<1> QED BY <1>1, <1>4, <1>5

-----------------------------------------------------------------------------
LEMMA InitMoves == Init => Lifecycle!Init
BY DEF Init, Lifecycle!Init, Phase, Wired

LEMMA NextMoves == IInv /\ IInv' /\ [Next]_vars => [Lifecycle!Next]_(Lifecycle!lifecycle)
<1> SUFFICES ASSUME IInv, IInv', [Next]_vars PROVE AbstractNext
  BY DEF AbstractNext
<1>1. ASSUME UNCHANGED vars PROVE AbstractNext
  <2>1. \A v : Creating(v)' <=> Creating(v)
    BY <1>1 DEF vars, frameVars, Creating, Works
  <2>2. \A v \in Vpcs : Phase(v)' = Phase(v) /\ (Wired(v)' <=> Wired(v))
    BY <1>1, <2>1 DEF vars, netVars, userVars, Phase, Wired
  <2> QED
    BY <2>2 DEF AbstractNext, Lifecycle!lifecycle
<1> QED
  BY <1>1, NextSteps, CreateVpcMoves, NetworkStepMoves, UserStepMoves

\* Creating and deleting networks through EC2 calls that fail, get lost and interleave
\* gives every network the life the NetworkManager interface promises.
THEOREM NetworkRefinement == Spec => ImplementsLifecycle
BY InitMoves, NextMoves, IInvInit, IInvStep, PTL DEF Spec, ImplementsLifecycle, Lifecycle!Spec

=============================================================================

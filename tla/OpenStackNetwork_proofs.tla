---------------------- MODULE OpenStackNetwork_proofs ----------------------
(***************************************************************************)
(* Proofs about OpenStackNetwork: its type invariant, that networks and    *)
(* subnets keep the routes they were returned with, and that creations     *)
(* that fail and deletions leave nothing behind that nothing stopped.      *)
(***************************************************************************)
EXTENDS OpenStackNetwork, TLAPS

-----------------------------------------------------------------------------
\* The frame of a caller, by the kind of call it is about to make

Removal == {"FindRouter", "DeleteRouter", "DeleteNet"}
SubnetCalls == {"FindNamedRouter", "CreateSub", "AddInterface", "UndoSubnet"}

FrameOK(c) ==
  /\ pc[c] \in Calls => cur[c] \in Networks
  /\ pc[c] = "idle" => op[c] = "none"
  /\ pc[c] = "CreateRouter" => op[c] = "CreateNetwork"
  /\ pc[c] \in Removal => op[c] \in {"CreateNetwork", "DeleteNetwork"}
  /\ pc[c] \in SubnetCalls \cup {"crashed"} => op[c] = "CreateSubnet"
  /\ pc[c] \in {"AddInterface", "UndoSubnet"} => sub[c] \in Subnets /\ via[c] \in Networks

FrameType ==
  /\ pc \in [Callers -> Calls \cup {"idle", "crashed"}]
  /\ op \in [Callers -> {"none", "CreateNetwork", "DeleteNetwork", "CreateSubnet"}]
  /\ cur \in [Callers -> Networks \cup {None}]
  /\ sub \in [Callers -> Subnets \cup {None}]
  /\ via \in [Callers -> Networks \cup {None}]

FrameInv == FrameType /\ \A c \in Callers : FrameOK(c)

FaultType == faults \in 0 .. MaxFaults /\ stopped \in SUBSET Networks

\* A subnet has a network from the moment it is made.
Placed == \A s \in Subnets : sstate[s] # "none" <=> snet[s] \in Networks

TypeInv == TypeOK /\ FrameInv /\ Placed

\* A caller enters a method, or a call of it, with what the call needs.
LEMMA EnterFrame ==
  ASSUME FrameInv, NEW c \in Callers, NEW method, NEW n \in Networks,
         NEW s \in Subnets \cup {None}, NEW r \in Networks \cup {None}, NEW call,
         Enter(c, method, n, s, r, call),
         \/ method = "CreateNetwork" /\ call = "CreateRouter"
         \/ method = "DeleteNetwork" /\ call = "FindRouter"
         \/ method = "CreateSubnet" /\ call \in {"FindNamedRouter", "CreateSub", "crashed"}
         \/ method = "CreateSubnet" /\ call = "AddInterface" /\ s # None /\ r # None
  PROVE  FrameInv'
<1> USE DEF Enter, FrameOK, Calls, Removal, SubnetCalls
<1>1. FrameType'
  BY DEF FrameInv, FrameType
<1>2. ASSUME NEW d \in Callers PROVE FrameOK(d)'
  BY <1>2 DEF FrameInv, FrameType
<1> QED
  BY <1>1, <1>2 DEF FrameInv

LEMMA ReturnFrame ==
  ASSUME FrameInv, NEW c \in Callers, Return(c)
  PROVE  FrameInv'
<1> USE DEF Return, Enter, FrameOK, Calls, Removal, SubnetCalls
<1>1. FrameType'
  BY DEF FrameInv, FrameType
<1>2. ASSUME NEW d \in Callers PROVE FrameOK(d)'
  BY <1>2 DEF FrameInv, FrameType
<1> QED
  BY <1>1, <1>2 DEF FrameInv

\* A caller goes on to a call of the same method, or from building to undoing.
LEMMA GotoFrame ==
  ASSUME FrameInv, NEW c \in Callers, NEW call, Goto(c, call),
         \/ pc[c] \in Removal \cup {"CreateRouter"} /\ call \in Removal
         \/ pc[c] = "AddInterface" /\ call = "UndoSubnet"
  PROVE  FrameInv'
<1> USE DEF Goto, FrameOK, Calls, Removal, SubnetCalls, frameVars
<1>1. FrameType'
  BY DEF FrameInv, FrameType
<1>2. ASSUME NEW d \in Callers PROVE FrameOK(d)'
  BY <1>2 DEF FrameInv, FrameType
<1> QED
  BY <1>1, <1>2 DEF FrameInv

LEMMA SameFrame ==
  ASSUME FrameInv, UNCHANGED <<pc, frameVars>>
  PROVE  FrameInv'
BY DEF FrameInv, FrameType, FrameOK, frameVars

LEMMA FrameFacts ==
  ASSUME FrameInv, NEW c \in Callers
  PROVE  /\ pc[c] \in Calls => cur[c] \in Networks
         /\ via[c] \in Networks \cup {None}
         /\ pc[c] \in {"AddInterface", "UndoSubnet"} => sub[c] \in Subnets /\ via[c] \in Networks
BY DEF FrameInv, FrameType, FrameOK

LEMMA FrameStep ==
  ASSUME TypeInv, [Next]_vars
  PROVE  FrameInv'
<1> USE EnterFrame, ReturnFrame, GotoFrame, SameFrame, FrameFacts
    DEF TypeInv, TypeOK, Removal, Calls, ReadAnswers
<1>1. ASSUME NEW c \in Callers, CreateNetwork(c) PROVE FrameInv'
  BY <1>1 DEF CreateNetwork
<1>2. ASSUME NEW c \in Callers, CreateRouter(c) PROVE FrameInv'
  BY <1>2 DEF CreateRouter
<1>3. ASSUME NEW c \in Callers, DeleteNetwork(c) PROVE FrameInv'
  BY <1>3 DEF DeleteNetwork, Listed
<1>4. ASSUME NEW c \in Callers, FindRouter(c) PROVE FrameInv'
  BY <1>4 DEF FindRouter
<1>5. ASSUME NEW c \in Callers, DeleteRouter(c) PROVE FrameInv'
  BY <1>5 DEF DeleteRouter
<1>6. ASSUME NEW c \in Callers, DeleteNet(c) PROVE FrameInv'
  BY <1>6 DEF DeleteNet
<1>7. ASSUME NEW c \in Callers, CreateSubnet(c) PROVE FrameInv'
  BY <1>7 DEF CreateSubnet, Listed
<1>8. ASSUME NEW c \in Callers, FindNamedRouter(c) PROVE FrameInv'
  BY <1>8 DEF FindNamedRouter
<1>9. ASSUME NEW c \in Callers, CreateSub(c) PROVE FrameInv'
  <2>1. cur[c] \in Networks
    BY <1>9, FrameFacts DEF CreateSub, Calls
  <2>2. CASE Return(c)
    BY <2>2
  <2>3. ASSUME NEW s \in Subnets, via[c] = None,
               Enter(c, "CreateSubnet", cur[c], s, via[c],
                     IF via[c] = None THEN "crashed" ELSE "AddInterface")
        PROVE  FrameInv'
    <3>1. Enter(c, "CreateSubnet", cur[c], s, via[c], "crashed")
      BY <2>3
    <3> QED
      BY <2>1, <2>3, <3>1
  <2>4. ASSUME NEW s \in Subnets, via[c] # None,
               Enter(c, "CreateSubnet", cur[c], s, via[c],
                     IF via[c] = None THEN "crashed" ELSE "AddInterface")
        PROVE  FrameInv'
    <3>1. Enter(c, "CreateSubnet", cur[c], s, via[c], "AddInterface")
      BY <2>4
    <3> QED
      BY <2>1, <2>4, <3>1, NoneAssumption
  <2> QED
    BY <1>9, <2>2, <2>3, <2>4 DEF CreateSub
<1>10. ASSUME NEW c \in Callers, AddInterface(c) PROVE FrameInv'
  BY <1>10 DEF AddInterface
<1>11. ASSUME NEW c \in Callers, UndoSubnet(c) PROVE FrameInv'
  BY <1>11 DEF UndoSubnet, RemoveSubnet
<1>12. ASSUME NEW c \in Callers, DeleteSubnet(c) PROVE FrameInv'
  BY <1>12 DEF DeleteSubnet, RemoveSubnet
<1>13. CASE Servers
  BY <1>13 DEF Servers, PlugServer, UnplugServer
<1>14. CASE UNCHANGED vars
  BY <1>14 DEF vars
<1> QED
  BY <1>1, <1>2, <1>3, <1>4, <1>5, <1>6, <1>7, <1>8, <1>9, <1>10, <1>11, <1>12, <1>13, <1>14 DEF
     Next, Continue

-----------------------------------------------------------------------------
\* Type correctness

LEMMA CostType ==
  ASSUME FaultType, NEW a, Cost(a)
  PROVE  faults' \in 0 .. MaxFaults
BY MaxFaultsAssumption DEF FaultType, Cost

LEMMA FaultStep ==
  ASSUME TypeInv, [Next]_vars
  PROVE  FaultType'
<1> FaultType
  BY DEF TypeInv, TypeOK, FaultType
<1> USE CostType, FrameFacts DEF TypeInv, FaultType, CostOf, Calls
<1>1. ASSUME NEW c \in Callers, CreateNetwork(c) PROVE FaultType'
  BY <1>1 DEF CreateNetwork
<1>2. ASSUME NEW c \in Callers, CreateRouter(c) PROVE FaultType'
  BY <1>2 DEF CreateRouter
<1>3. ASSUME NEW c \in Callers, DeleteNetwork(c) PROVE FaultType'
  BY <1>3 DEF DeleteNetwork
<1>4. ASSUME NEW c \in Callers, FindRouter(c) PROVE FaultType'
  BY <1>4 DEF FindRouter
<1>5. ASSUME NEW c \in Callers, DeleteRouter(c) PROVE FaultType'
  BY <1>5 DEF DeleteRouter
<1>6. ASSUME NEW c \in Callers, DeleteNet(c) PROVE FaultType'
  BY <1>6 DEF DeleteNet
<1>7. ASSUME NEW c \in Callers, CreateSubnet(c) PROVE FaultType'
  BY <1>7 DEF CreateSubnet, faultVars
<1>8. ASSUME NEW c \in Callers, FindNamedRouter(c) PROVE FaultType'
  BY <1>8 DEF FindNamedRouter
<1>9. ASSUME NEW c \in Callers, CreateSub(c) PROVE FaultType'
  BY <1>9 DEF CreateSub
<1>10. ASSUME NEW c \in Callers, AddInterface(c) PROVE FaultType'
  BY <1>10 DEF AddInterface
<1>11. ASSUME NEW c \in Callers, UndoSubnet(c) PROVE FaultType'
  BY <1>11 DEF UndoSubnet, RemoveSubnet
<1>12. ASSUME NEW c \in Callers, DeleteSubnet(c) PROVE FaultType'
  BY <1>12 DEF DeleteSubnet, RemoveSubnet
<1>13. CASE Servers
  BY <1>13 DEF Servers, PlugServer, UnplugServer, faultVars
<1>14. CASE UNCHANGED vars
  BY <1>14 DEF vars, faultVars
<1> QED
  BY <1>1, <1>2, <1>3, <1>4, <1>5, <1>6, <1>7, <1>8, <1>9, <1>10, <1>11, <1>12, <1>13, <1>14 DEF
     Next, Continue

CloudType ==
  /\ net \in [Networks -> Life] /\ router \in [Networks -> Life]
  /\ sstate \in [Subnets -> Life]
  /\ snet \in [Subnets -> Networks \cup {None}]
  /\ port \in [Subnets -> Networks \cup {None}]
  /\ busy \in SUBSET Networks

UserType ==
  /\ known \in SUBSET Networks /\ doomed \in SUBSET Networks
  /\ knownSub \in SUBSET Subnets /\ doomedSub \in SUBSET Subnets

LEMMA RemoveSubnetType ==
  ASSUME TypeInv, NEW s \in Subnets, NEW a, RemoveSubnet(s, a), doomedSub' \in SUBSET Subnets
  PROVE  CloudType' /\ UserType' /\ Placed'
<1>1. sstate' = sstate \/ sstate' = [sstate EXCEPT ![s] = "gone"]
  BY DEF RemoveSubnet
<1>2. sstate[s] # "none" \/ sstate' = sstate
  BY DEF RemoveSubnet, Answers, Applied, Unplugged
<1>3. UNCHANGED <<net, router, snet, port, busy, known, doomed, knownSub>>
  BY DEF RemoveSubnet, netVars
<1> QED
  BY <1>1, <1>2, <1>3 DEF TypeInv, TypeOK, CloudType, UserType, Placed, Life

LEMMA CloudStep ==
  ASSUME TypeInv, [Next]_vars
  PROVE  CloudType' /\ UserType' /\ Placed'
<1> USE RemoveSubnetType, FrameFacts DEF TypeInv, TypeOK, FrameInv, FrameOK, Placed, CloudType,
        UserType, Life, Calls, Removal, SubnetCalls, netVars, subnetVars, userVars
<1>1. ASSUME NEW c \in Callers, CreateNetwork(c) PROVE CloudType' /\ UserType' /\ Placed'
  BY <1>1 DEF CreateNetwork
<1>2. ASSUME NEW c \in Callers, CreateRouter(c) PROVE CloudType' /\ UserType' /\ Placed'
  BY <1>2 DEF CreateRouter
<1>3. ASSUME NEW c \in Callers, DeleteNetwork(c) PROVE CloudType' /\ UserType' /\ Placed'
  BY <1>3 DEF DeleteNetwork, Listed
<1>4. ASSUME NEW c \in Callers, FindRouter(c) PROVE CloudType' /\ UserType' /\ Placed'
  BY <1>4 DEF FindRouter
<1>5. ASSUME NEW c \in Callers, DeleteRouter(c) PROVE CloudType' /\ UserType' /\ Placed'
  BY <1>5 DEF DeleteRouter
<1>6. ASSUME NEW c \in Callers, DeleteNet(c) PROVE CloudType' /\ UserType' /\ Placed'
  BY <1>6 DEF DeleteNet
<1>7. ASSUME NEW c \in Callers, CreateSubnet(c) PROVE CloudType' /\ UserType' /\ Placed'
  BY <1>7 DEF CreateSubnet
<1>8. ASSUME NEW c \in Callers, FindNamedRouter(c) PROVE CloudType' /\ UserType' /\ Placed'
  BY <1>8 DEF FindNamedRouter
<1>9. ASSUME NEW c \in Callers, CreateSub(c) PROVE CloudType' /\ UserType' /\ Placed'
  BY <1>9 DEF CreateSub
<1>10. ASSUME NEW c \in Callers, AddInterface(c) PROVE CloudType' /\ UserType' /\ Placed'
  BY <1>10 DEF AddInterface
<1>11. ASSUME NEW c \in Callers, UndoSubnet(c) PROVE CloudType' /\ UserType' /\ Placed'
  BY <1>11 DEF UndoSubnet
<1>12. ASSUME NEW c \in Callers, DeleteSubnet(c) PROVE CloudType' /\ UserType' /\ Placed'
  BY <1>12 DEF DeleteSubnet
<1>13. CASE Servers
  BY <1>13 DEF Servers, PlugServer, UnplugServer
<1>14. CASE UNCHANGED vars
  BY <1>14 DEF vars
<1> QED
  BY <1>1, <1>2, <1>3, <1>4, <1>5, <1>6, <1>7, <1>8, <1>9, <1>10, <1>11, <1>12, <1>13, <1>14 DEF
     Next, Continue

LEMMA TypeInit == Init => TypeInv
BY MaxFaultsAssumption, NoneAssumption DEF Init, TypeInv, TypeOK, FrameInv, FrameType, FrameOK,
       Placed, Life, Calls, Removal, SubnetCalls

LEMMA TypeStep == TypeInv /\ [Next]_vars => TypeInv'
<1> SUFFICES ASSUME TypeInv, [Next]_vars PROVE TypeInv'
  OBVIOUS
<1>1. FrameInv' /\ FaultType' /\ CloudType' /\ UserType' /\ Placed'
  BY FrameStep, FaultStep, CloudStep
<1> QED
  BY <1>1 DEF TypeInv, TypeOK, FrameInv, FrameType, FaultType, CloudType, UserType

\* TypeOK needs the frames: a call works on a network or a subnet, never on None.
THEOREM TypeCorrect == Spec => []TypeOK
<1>1. TypeInv => TypeOK
  BY DEF TypeInv
<1> QED
  BY <1>1, TypeInit, TypeStep, PTL DEF Spec

-----------------------------------------------------------------------------
\* What callers work on.  A network under construction has one creator, is unknown to the callers it
\* would be returned to, has no router before its creator makes it, and is up unless users, who
\* may have it from a list, asked for its deletion.

WorkOK(c) ==
  /\ op[c] = "CreateNetwork" => /\ cur[c] \notin known
                                /\ cur[c] \in doomed \/ net[cur[c]] = "up"
  /\ pc[c] = "CreateRouter" => router[cur[c]] = "none"
  /\ op[c] = "DeleteNetwork" => cur[c] \in doomed
  /\ op[c] \in {"CreateNetwork", "DeleteNetwork"} => net[cur[c]] # "none"

SoleCreator ==
  \A c, d \in Callers :
    op[c] = "CreateNetwork" /\ op[d] = "CreateNetwork" /\ cur[c] = cur[d] => c = d

WorkInv ==
  /\ \A n \in known \cup doomed : net[n] # "none"
  /\ \A n \in Networks : net[n] = "none" => router[n] = "none"
  /\ \A c \in Callers : WorkOK(c)
  /\ SoleCreator

\* Callers are told of subnets that were made, and no subnet survives its network.
SubnetInv == /\ \A s \in knownSub : sstate[s] # "none"
             /\ \A s \in Subnets : sstate[s] = "up" => net[snet[s]] = "up"

\* Somebody still has to remove what is left of a network that is not to stay, and nothing stopped it.
\* The one who does holds no outdated answer: whoever finds the router missing while it is still
\* to be made stops the deletion, and a deletion that starts looks for the router once more.
Awaited(n) ==
  /\ n \in doomed /\ At(n, {"CreateRouter"}) => At(n, {"FindRouter"})
  /\ n \notin known \ doomed =>
       /\ router[n] = "up" => At(n, {"FindRouter", "DeleteRouter"})
       /\ net[n] = "up" => \/ At(n, {"CreateRouter", "FindRouter", "DeleteNet"})
                           \/ router[n] = "up" /\ At(n, {"DeleteRouter"})

RemovalInv == \A n \in Networks \ stopped : Awaited(n)

IInv == /\ TypeInv /\ WorkInv /\ SubnetInv /\ RemovalInv
        /\ KnownNetworkRouted /\ KnownSubnetRouted

\* The frame after each way to leave a call
LEMMA FrameAfter ==
  ASSUME TypeInv, NEW c \in Callers
  PROVE  /\ \A method, n, s, r, call : Enter(c, method, n, s, r, call) =>
              /\ \A d \in Callers \ {c} : pc'[d] = pc[d] /\ op'[d] = op[d] /\ cur'[d] = cur[d]
              /\ pc'[c] = call /\ op'[c] = method /\ cur'[c] = n
         /\ \A call : Goto(c, call) =>
              /\ \A d \in Callers \ {c} : pc'[d] = pc[d] /\ op'[d] = op[d] /\ cur'[d] = cur[d]
              /\ pc'[c] = call /\ op'[c] = op[c] /\ cur'[c] = cur[c]
         /\ Return(c) =>
              /\ \A d \in Callers \ {c} : pc'[d] = pc[d] /\ op'[d] = op[d] /\ cur'[d] = cur[d]
              /\ pc'[c] = "idle" /\ op'[c] = "none"
BY DEF TypeInv, FrameInv, FrameType, Enter, Goto, Return, frameVars

\* Whoever removes a network was asked to or created it, and competes with its creator only when
\* users asked for its deletion.
LEMMA RemovalFacts ==
  ASSUME TypeInv, WorkInv, NEW c \in Callers, pc[c] \in Removal
  PROVE  /\ cur[c] \in Networks /\ cur[c] \notin known \ doomed
         /\ \A d \in Callers \ {c} : op[d] = "CreateNetwork" /\ cur[d] = cur[c]
              => cur[c] \in doomed /\ cur[c] \notin known
<1>1. cur[c] \in Networks /\ op[c] \in {"CreateNetwork", "DeleteNetwork"}
  BY DEF TypeInv, FrameInv, FrameOK, Removal, Calls
<1>2. /\ op[c] = "CreateNetwork" => cur[c] \notin known
      /\ op[c] = "DeleteNetwork" => cur[c] \in doomed
  BY DEF WorkInv, WorkOK
<1>3. ASSUME NEW d \in Callers \ {c}, op[d] = "CreateNetwork", cur[d] = cur[c]
      PROVE  cur[c] \in doomed /\ cur[c] \notin known
  <2>1. WorkOK(d) /\ (op[c] = "CreateNetwork" => c = d)
    BY <1>3 DEF WorkInv, SoleCreator
  <2> QED
    BY <1>1, <1>2, <1>3, <2>1 DEF WorkOK
<1> QED
  BY <1>1, <1>2, <1>3

LEMMA WorkStep ==
  ASSUME TypeInv, WorkInv, [Next]_vars
  PROVE  WorkInv'
<1> USE FrameAfter DEF TypeInv, TypeOK, FrameInv, FrameOK, Placed, Life, Calls, Removal,
        SubnetCalls, WorkInv, WorkOK, SoleCreator, Answers, Applied, netVars, userVars, frameVars
<1>1. ASSUME NEW c \in Callers, CreateNetwork(c) PROVE WorkInv'
  BY <1>1 DEF CreateNetwork
<1>2. ASSUME NEW c \in Callers, CreateRouter(c) PROVE WorkInv'
  BY <1>2 DEF CreateRouter
<1>3. ASSUME NEW c \in Callers, DeleteNetwork(c) PROVE WorkInv'
  BY <1>3 DEF DeleteNetwork, Listed
<1>4. ASSUME NEW c \in Callers, FindRouter(c) PROVE WorkInv'
  BY <1>4 DEF FindRouter
<1>5. ASSUME NEW c \in Callers, DeleteRouter(c) PROVE WorkInv'
  BY <1>5 DEF DeleteRouter
<1>6. ASSUME NEW c \in Callers, DeleteNet(c) PROVE WorkInv'
  <2>1. /\ cur[c] \in Networks /\ op[c] \in {"CreateNetwork", "DeleteNetwork"}
        /\ UNCHANGED <<router, known, doomed>>
    BY <1>6, FrameFacts DEF DeleteNet
  <2>2. /\ \A d \in Callers \ {c} : pc'[d] = pc[d] /\ op'[d] = op[d] /\ cur'[d] = cur[d]
        /\ pc'[c] = "idle" /\ op'[c] = "none"
    BY <1>6, FrameAfter DEF DeleteNet
  <2>3. net' = net \/ net' = [net EXCEPT ![cur[c]] = "gone"]
    BY <1>6 DEF DeleteNet
  <2>4. \A n \in Networks : /\ net'[n] = "none" => net[n] = "none"
                            /\ net[n] = "none" => net'[n] = "none" \/ n = cur[c]
                            /\ n # cur[c] => net'[n] = net[n]
    BY <2>1, <2>3
  <2>5. ASSUME NEW d \in Callers PROVE WorkOK(d)'
    <3>1. CASE d = c
      BY <2>2, <3>1
    <3>2. CASE d # c /\ cur[d] = cur[c]
      <4>1. /\ op'[d] = op[d] /\ cur'[d] = cur[c] /\ pc'[d] = pc[d] /\ WorkOK(d) /\ WorkOK(c)
            /\ net[cur[c]] # "none"
        BY <2>1, <2>2, <3>2
      <4>2. op[d] = "CreateNetwork" => cur[c] \in doomed /\ cur[c] \notin known
        BY <1>6, <3>2, RemovalFacts DEF DeleteNet
      <4> QED
        BY <2>1, <2>4, <3>2, <4>1, <4>2
    <3>3. CASE d # c /\ cur[d] # cur[c]
      BY <2>1, <2>2, <2>4, <3>3
    <3> QED
      BY <3>1, <3>2, <3>3
  <2>6. SoleCreator'
    BY <2>2
  <2> QED
    BY <2>1, <2>4, <2>5, <2>6
<1>7. ASSUME NEW c \in Callers, CreateSubnet(c) PROVE WorkInv'
  BY <1>7 DEF CreateSubnet
<1>8. ASSUME NEW c \in Callers, FindNamedRouter(c) PROVE WorkInv'
  BY <1>8 DEF FindNamedRouter
<1>9. ASSUME NEW c \in Callers, CreateSub(c) PROVE WorkInv'
  BY <1>9 DEF CreateSub
<1>10. ASSUME NEW c \in Callers, AddInterface(c) PROVE WorkInv'
  BY <1>10 DEF AddInterface
<1>11. ASSUME NEW c \in Callers, UndoSubnet(c) PROVE WorkInv'
  BY <1>11 DEF UndoSubnet, RemoveSubnet
<1>12. ASSUME NEW c \in Callers, DeleteSubnet(c) PROVE WorkInv'
  BY <1>12 DEF DeleteSubnet, RemoveSubnet
<1>13. CASE Servers
  BY <1>13 DEF Servers, PlugServer, UnplugServer
<1>14. CASE UNCHANGED vars
  BY <1>14 DEF vars
<1> QED
  BY <1>1, <1>2, <1>3, <1>4, <1>5, <1>6, <1>7, <1>8, <1>9, <1>10, <1>11, <1>12, <1>13, <1>14 DEF
     Next, Continue

LEMMA SubnetStep ==
  ASSUME TypeInv, WorkInv, SubnetInv, [Next]_vars
  PROVE  SubnetInv'
<1> USE FrameFacts DEF TypeInv, TypeOK, FrameInv, FrameOK, Placed, Life, Calls, Removal,
        SubnetCalls, WorkInv, WorkOK, SubnetInv, Answers, Applied, Occupied, Unplugged, netVars,
        subnetVars, userVars
<1>1. ASSUME NEW c \in Callers, CreateNetwork(c) PROVE SubnetInv'
  BY <1>1 DEF CreateNetwork
<1>2. ASSUME NEW c \in Callers, CreateRouter(c) PROVE SubnetInv'
  BY <1>2 DEF CreateRouter
<1>3. ASSUME NEW c \in Callers, DeleteNetwork(c) PROVE SubnetInv'
  BY <1>3 DEF DeleteNetwork
<1>4. ASSUME NEW c \in Callers, FindRouter(c) PROVE SubnetInv'
  BY <1>4 DEF FindRouter
<1>5. ASSUME NEW c \in Callers, DeleteRouter(c) PROVE SubnetInv'
  BY <1>5 DEF DeleteRouter
<1>6. ASSUME NEW c \in Callers, DeleteNet(c) PROVE SubnetInv'
  <2>1. UNCHANGED <<snet, knownSub>>
    BY <1>6 DEF DeleteNet
  <2>2. CASE UNCHANGED <<net, sstate>>
    BY <2>1, <2>2
  <2>3. CASE /\ net' = [net EXCEPT ![cur[c]] = "gone"]
             /\ sstate' = [s \in Subnets |-> IF snet[s] = cur[c] THEN "gone" ELSE sstate[s]]
    <3>1. \A s \in Subnets : /\ sstate'[s] = "up" => sstate[s] = "up" /\ snet[s] # cur[c]
                             /\ sstate'[s] = "none" => sstate[s] = "none"
      BY <2>3
    <3> QED
      BY <2>1, <2>3, <3>1
  <2> QED
    BY <1>6, <2>2, <2>3 DEF DeleteNet
<1>7. ASSUME NEW c \in Callers, CreateSubnet(c) PROVE SubnetInv'
  BY <1>7 DEF CreateSubnet
<1>8. ASSUME NEW c \in Callers, FindNamedRouter(c) PROVE SubnetInv'
  BY <1>8 DEF FindNamedRouter
<1>9. ASSUME NEW c \in Callers, CreateSub(c) PROVE SubnetInv'
  BY <1>9 DEF CreateSub
<1>10. ASSUME NEW c \in Callers, AddInterface(c) PROVE SubnetInv'
  BY <1>10 DEF AddInterface
<1>11. ASSUME NEW c \in Callers, UndoSubnet(c) PROVE SubnetInv'
  BY <1>11 DEF UndoSubnet, RemoveSubnet
<1>12. ASSUME NEW c \in Callers, DeleteSubnet(c) PROVE SubnetInv'
  BY <1>12 DEF DeleteSubnet, RemoveSubnet
<1>13. CASE Servers
  BY <1>13 DEF Servers, PlugServer, UnplugServer
<1>14. CASE UNCHANGED vars
  BY <1>14 DEF vars
<1> QED
  BY <1>1, <1>2, <1>3, <1>4, <1>5, <1>6, <1>7, <1>8, <1>9, <1>10, <1>11, <1>12, <1>13, <1>14 DEF
     Next, Continue

LEMMA RoutedStep ==
  ASSUME TypeInv, WorkInv, KnownNetworkRouted, [Next]_vars
  PROVE  KnownNetworkRouted'
<1> USE FrameFacts DEF TypeInv, TypeOK, FrameInv, FrameOK, Life, Calls, Removal, WorkInv, WorkOK,
            KnownNetworkRouted, Answers, Applied, netVars, userVars
<1>1. ASSUME NEW c \in Callers, CreateNetwork(c) PROVE KnownNetworkRouted'
  BY <1>1 DEF CreateNetwork
<1>2. ASSUME NEW c \in Callers, CreateRouter(c) PROVE KnownNetworkRouted'
  BY <1>2 DEF CreateRouter
<1>3. ASSUME NEW c \in Callers, DeleteNetwork(c) PROVE KnownNetworkRouted'
  BY <1>3 DEF DeleteNetwork
<1>4. ASSUME NEW c \in Callers, FindRouter(c) PROVE KnownNetworkRouted'
  BY <1>4 DEF FindRouter
<1>5. ASSUME NEW c \in Callers, DeleteRouter(c) PROVE KnownNetworkRouted'
  <2>1. cur[c] \in Networks /\ cur[c] \notin known \ doomed /\ UNCHANGED <<net, known, doomed>>
    BY <1>5, RemovalFacts DEF DeleteRouter
  <2>2. \A n \in Networks : router'[n] = router[n] \/ n = cur[c]
    BY <1>5 DEF DeleteRouter
  <2> QED
    BY <2>1, <2>2
<1>6. ASSUME NEW c \in Callers, DeleteNet(c) PROVE KnownNetworkRouted'
  <2>1. cur[c] \in Networks /\ cur[c] \notin known \ doomed /\ UNCHANGED <<router, known, doomed>>
    BY <1>6, RemovalFacts DEF DeleteNet
  <2>2. \A n \in Networks : net'[n] = net[n] \/ n = cur[c]
    BY <1>6 DEF DeleteNet
  <2> QED
    BY <2>1, <2>2
<1>7. ASSUME NEW c \in Callers, CreateSubnet(c) PROVE KnownNetworkRouted'
  BY <1>7 DEF CreateSubnet
<1>8. ASSUME NEW c \in Callers, FindNamedRouter(c) PROVE KnownNetworkRouted'
  BY <1>8 DEF FindNamedRouter
<1>9. ASSUME NEW c \in Callers, CreateSub(c) PROVE KnownNetworkRouted'
  BY <1>9 DEF CreateSub
<1>10. ASSUME NEW c \in Callers, AddInterface(c) PROVE KnownNetworkRouted'
  BY <1>10 DEF AddInterface
<1>11. ASSUME NEW c \in Callers, UndoSubnet(c) PROVE KnownNetworkRouted'
  BY <1>11 DEF UndoSubnet, RemoveSubnet
<1>12. ASSUME NEW c \in Callers, DeleteSubnet(c) PROVE KnownNetworkRouted'
  BY <1>12 DEF DeleteSubnet, RemoveSubnet
<1>13. CASE Servers
  BY <1>13 DEF Servers, PlugServer, UnplugServer
<1>14. CASE UNCHANGED vars
  BY <1>14 DEF vars
<1> QED
  BY <1>1, <1>2, <1>3, <1>4, <1>5, <1>6, <1>7, <1>8, <1>9, <1>10, <1>11, <1>12, <1>13, <1>14 DEF
     Next, Continue

LEMMA SubnetRoutedStep ==
  ASSUME TypeInv, WorkInv, SubnetInv, KnownSubnetRouted, [Next]_vars
  PROVE  KnownSubnetRouted'
<1> USE FrameFacts DEF TypeInv, TypeOK, FrameInv, FrameOK, Placed, Life, Calls, Removal,
        SubnetCalls, SubnetInv, KnownSubnetRouted, Answers, Applied, Occupied, Plugged, Unplugged,
        netVars, subnetVars, userVars
<1>1. ASSUME NEW c \in Callers, CreateNetwork(c) PROVE KnownSubnetRouted'
  BY <1>1 DEF CreateNetwork
<1>2. ASSUME NEW c \in Callers, CreateRouter(c) PROVE KnownSubnetRouted'
  BY <1>2 DEF CreateRouter
<1>3. ASSUME NEW c \in Callers, DeleteNetwork(c) PROVE KnownSubnetRouted'
  BY <1>3 DEF DeleteNetwork
<1>4. ASSUME NEW c \in Callers, FindRouter(c) PROVE KnownSubnetRouted'
  BY <1>4 DEF FindRouter
<1>5. ASSUME NEW c \in Callers, DeleteRouter(c) PROVE KnownSubnetRouted'
  BY <1>5 DEF DeleteRouter
<1>6. ASSUME NEW c \in Callers, DeleteNet(c) PROVE KnownSubnetRouted'
  BY <1>6 DEF DeleteNet
<1>7. ASSUME NEW c \in Callers, CreateSubnet(c) PROVE KnownSubnetRouted'
  BY <1>7 DEF CreateSubnet
<1>8. ASSUME NEW c \in Callers, FindNamedRouter(c) PROVE KnownSubnetRouted'
  BY <1>8 DEF FindNamedRouter
<1>9. ASSUME NEW c \in Callers, CreateSub(c) PROVE KnownSubnetRouted'
  <2>1. UNCHANGED <<net, router, port, knownSub>>
    BY <1>9 DEF CreateSub
  <2>2. UNCHANGED <<sstate, snet>>
        \/ \E s \in Subnets : /\ sstate[s] = "none"
                              /\ sstate' = [sstate EXCEPT ![s] = "up"]
                              /\ snet' = [snet EXCEPT ![s] = cur[c]]
    BY <1>9 DEF CreateSub
  <2>3. \A s \in knownSub : sstate[s] # "none"
    OBVIOUS
  <2> QED
    BY <2>1, <2>2, <2>3
<1>10. ASSUME NEW c \in Callers, AddInterface(c) PROVE KnownSubnetRouted'
  <2>1. UNCHANGED <<net, router, sstate, snet>> /\ sub[c] \in Subnets /\ via[c] \in Networks
    BY <1>10, FrameFacts DEF AddInterface
  <2>2. CASE UNCHANGED <<port, knownSub>>
    BY <2>1, <2>2
  <2>3. CASE /\ port' = [port EXCEPT ![sub[c]] = via[c]]
             /\ knownSub' \in {knownSub, knownSub \cup {sub[c]}}
             /\ sstate[sub[c]] = "up" /\ router[via[c]] = "up"
    BY <2>1, <2>3, NoneAssumption
  <2>4. \/ UNCHANGED <<port, knownSub>>
        \/ /\ port' = [port EXCEPT ![sub[c]] = via[c]]
           /\ knownSub' \in {knownSub, knownSub \cup {sub[c]}}
           /\ sstate[sub[c]] = "up" /\ router[via[c]] = "up"
    BY <1>10 DEF AddInterface
  <2> QED
    BY <2>2, <2>3, <2>4
<1>11. ASSUME NEW c \in Callers, UndoSubnet(c) PROVE KnownSubnetRouted'
  BY <1>11 DEF UndoSubnet, RemoveSubnet
<1>12. ASSUME NEW c \in Callers, DeleteSubnet(c) PROVE KnownSubnetRouted'
  BY <1>12 DEF DeleteSubnet, RemoveSubnet
<1>13. CASE Servers
  BY <1>13 DEF Servers, PlugServer, UnplugServer
<1>14. CASE UNCHANGED vars
  BY <1>14 DEF vars
<1> QED
  BY <1>1, <1>2, <1>3, <1>4, <1>5, <1>6, <1>7, <1>8, <1>9, <1>10, <1>11, <1>12, <1>13, <1>14 DEF
     Next, Continue

\* A caller that moves on for one network changes nobody's place for the others.
LEMMA AtOthers ==
  ASSUME TypeInv, NEW c \in Callers, NEW n \in Networks, NEW calls, "idle" \notin calls,
         \A d \in Callers \ {c} : pc'[d] = pc[d] /\ cur'[d] = cur[d],
         pc[c] = "idle" \/ cur[c] # n, pc'[c] = "idle" \/ cur'[c] # n
  PROVE  At(n, calls)' <=> At(n, calls)
BY DEF At

\* The creator makes the router: it returns, or it goes on to its undo.
LEMMA CreateRouterAwaited ==
  ASSUME TypeInv, WorkInv, RemovalInv, NEW c \in Callers, NEW n, n = cur[c], CreateRouter(c)
  PROVE  RemovalInv'
<1>1. /\ pc[c] = "CreateRouter" /\ op[c] = "CreateNetwork" /\ n \in Networks
      /\ UNCHANGED <<net, doomed, stopped>>
  BY FrameFacts DEF CreateRouter, TypeInv, FrameInv, FrameOK, Calls
<1>2. /\ \A d \in Callers \ {c} : pc'[d] = pc[d] /\ cur'[d] = cur[d]
      /\ pc'[c] = "idle" \/ (pc'[c] = "FindRouter" /\ cur'[c] = n)
  BY <1>1, FrameAfter DEF CreateRouter
<1>3. \A m \in Networks \ {n} : router'[m] = router[m] /\ (m \in known' <=> m \in known)
  BY <1>1 DEF CreateRouter, TypeInv, TypeOK
<1>4. ASSUME NEW m \in Networks \ {n} PROVE m \notin stopped' => Awaited(m)'
  <2>1. \A calls \in SUBSET Calls : At(m, calls)' <=> At(m, calls)
    BY <1>1, <1>2, AtOthers DEF Calls
  <2> QED
    BY <1>1, <1>3, <1>4, <2>1 DEF RemovalInv, Awaited, Calls
<1>5. CASE pc'[c] = "FindRouter"
  <2>1. At(n, {"FindRouter"})' /\ At(n, {"FindRouter", "DeleteRouter"})'
        /\ At(n, {"CreateRouter", "FindRouter", "DeleteNet"})'
    BY <1>2, <1>5 DEF At
  <2> QED
    BY <1>4, <2>1 DEF RemovalInv, Awaited
<1>6. CASE pc'[c] = "idle"
  <2>1. known' = known \cup {n}
    BY <1>1, <1>6, FrameAfter DEF CreateRouter
  <2>2. At(n, {"CreateRouter"})
    BY <1>1 DEF At
  <2>3. ASSUME n \in doomed, n \notin stopped PROVE Awaited(n)'
    <3>1. PICK d \in Callers : pc[d] = "FindRouter" /\ cur[d] = n
      BY <1>1, <2>2, <2>3 DEF RemovalInv, Awaited, At
    <3>2. pc'[d] = "FindRouter" /\ cur'[d] = n
      BY <1>1, <1>2, <3>1
    <3>3. At(n, {"FindRouter"})' /\ At(n, {"FindRouter", "DeleteRouter"})'
          /\ At(n, {"CreateRouter", "FindRouter", "DeleteNet"})'
      BY <3>2 DEF At
    <3> QED
      BY <3>3 DEF Awaited
  <2>4. ASSUME n \notin doomed PROVE Awaited(n)'
    BY <1>1, <2>1, <2>4 DEF Awaited
  <2> QED
    BY <1>1, <1>4, <2>3, <2>4 DEF RemovalInv
<1> QED
  BY <1>2, <1>5, <1>6

\* A caller that stays away from what removes networks
LEMMA AwayStep ==
  ASSUME TypeInv, WorkInv, RemovalInv, NEW c \in Callers,
         \A d \in Callers \ {c} : pc'[d] = pc[d] /\ cur'[d] = cur[d],
         pc[c] \notin Removal \cup {"CreateRouter"}, pc'[c] \notin Removal \cup {"CreateRouter"},
         UNCHANGED <<net, router, known, doomed, stopped>>
  PROVE  RemovalInv'
<1>1. ASSUME NEW n \in Networks, NEW calls, calls \subseteq Removal \cup {"CreateRouter"}
      PROVE  At(n, calls)' <=> At(n, calls)
  BY <1>1 DEF At
<1> QED
  BY <1>1 DEF RemovalInv, Awaited, Removal

LEMMA RemovalStep ==
  ASSUME TypeInv, WorkInv, RemovalInv, [Next]_vars
  PROVE  RemovalInv'
<1> USE FrameFacts, FrameAfter DEF TypeInv, TypeOK, FrameInv, FrameOK, Life, Calls, Removal,
        SubnetCalls, WorkInv, WorkOK, SoleCreator, RemovalInv, Awaited, At, CostOf, Faulty,
        Answers, ReadAnswers, Applied, Occupied, netVars, userVars, faultVars, frameVars
<1>1. ASSUME NEW c \in Callers, CreateNetwork(c) PROVE RemovalInv'
  BY <1>1 DEF CreateNetwork
<1>2. ASSUME NEW c \in Callers, CreateRouter(c) PROVE RemovalInv'
  BY <1>2, CreateRouterAwaited
<1>3. ASSUME NEW c \in Callers, DeleteNetwork(c) PROVE RemovalInv'
  BY <1>3 DEF DeleteNetwork, Listed
<1>4. ASSUME NEW c \in Callers, FindRouter(c) PROVE RemovalInv'
  BY <1>4 DEF FindRouter
<1>5. ASSUME NEW c \in Callers, DeleteRouter(c) PROVE RemovalInv'
  BY <1>5 DEF DeleteRouter
<1>6. ASSUME NEW c \in Callers, DeleteNet(c) PROVE RemovalInv'
  BY <1>6 DEF DeleteNet
<1>7. ASSUME NEW c \in Callers, CreateSubnet(c) PROVE RemovalInv'
  BY <1>7, AwayStep DEF CreateSubnet
<1>8. ASSUME NEW c \in Callers, FindNamedRouter(c) PROVE RemovalInv'
  BY <1>8, AwayStep DEF FindNamedRouter
<1>9. ASSUME NEW c \in Callers, CreateSub(c) PROVE RemovalInv'
  <2>1. /\ \A d \in Callers \ {c} : pc'[d] = pc[d] /\ cur'[d] = cur[d]
        /\ pc'[c] \in {"idle", "crashed", "AddInterface"}
    BY <1>9, FrameAfter DEF CreateSub
  <2>2. pc[c] = "CreateSub" /\ UNCHANGED <<net, router, known, doomed, stopped>>
    BY <1>9 DEF CreateSub
  <2> QED
    BY <2>1, <2>2, AwayStep
<1>10. ASSUME NEW c \in Callers, AddInterface(c) PROVE RemovalInv'
  BY <1>10, AwayStep DEF AddInterface
<1>11. ASSUME NEW c \in Callers, UndoSubnet(c) PROVE RemovalInv'
  BY <1>11, AwayStep DEF UndoSubnet, RemoveSubnet
<1>12. ASSUME NEW c \in Callers, DeleteSubnet(c) PROVE RemovalInv'
  BY <1>12, AwayStep DEF DeleteSubnet, RemoveSubnet
<1>13. CASE Servers
  BY <1>13 DEF Servers, PlugServer, UnplugServer
<1>14. CASE UNCHANGED vars
  BY <1>14 DEF vars
<1> QED
  BY <1>1, <1>2, <1>3, <1>4, <1>5, <1>6, <1>7, <1>8, <1>9, <1>10, <1>11, <1>12, <1>13, <1>14 DEF
     Next, Continue

\* Whoever still has something to remove creates or deletes the network.
LEMMA NothingLeft == IInv => NothingLeftBehind
<1> SUFFICES ASSUME IInv, NEW n \in Networks, n \notin known \ doomed, n \notin stopped,
                    ~Creating(n), ~Deleting(n)
             PROVE  net[n] # "up" /\ router[n] # "up"
  BY DEF NothingLeftBehind
<1>1. ~At(n, Removal \cup {"CreateRouter"})
  BY DEF At, Creating, Deleting, Works, IInv, TypeInv, FrameInv, FrameOK, Removal, Calls
<1> QED
  BY <1>1 DEF IInv, RemovalInv, Awaited, At, Removal

LEMMA IInvInductive == (Init => IInv) /\ (IInv /\ [Next]_vars => IInv')
<1>1. Init => TypeInv
  BY TypeInit
<1>2. Init => IInv
  BY <1>1 DEF Init, IInv, WorkInv, WorkOK, SoleCreator, SubnetInv, RemovalInv, Awaited, At,
     KnownNetworkRouted, KnownSubnetRouted
<1>3. IInv /\ [Next]_vars => IInv'
  BY TypeStep, WorkStep, SubnetStep, RoutedStep, SubnetRoutedStep, RemovalStep DEF IInv
<1> QED
  BY <1>2, <1>3

\* A network CreateNetwork returned keeps its router until its deletion is asked for.
THEOREM NetworksStayRouted == Spec => []KnownNetworkRouted
<1>1. IInv => KnownNetworkRouted
  BY DEF IInv
<1> QED
  BY <1>1, IInvInductive, PTL DEF Spec

\* As long as it is there, a subnet CreateSubnet returned keeps its network and its router.
THEOREM SubnetsStayRouted == Spec => []KnownSubnetRouted
<1>1. IInv => KnownSubnetRouted
  BY DEF IInv
<1> QED
  BY <1>1, IInvInductive, PTL DEF Spec

\* Creations that fail and deletions leave nothing behind that nothing stopped.
THEOREM RemovalsLeaveNothing == Spec => []NothingLeftBehind
BY NothingLeft, IInvInductive, PTL DEF Spec

=============================================================================

----------------------------- MODULE AwsNetwork -----------------------------
(***************************************************************************)
(* NetworkManager of the AWS provider (providers/aws/networks.go).         *)
(*                                                                         *)
(* Every method is a sequence of EC2 calls.  A caller (a goroutine or a    *)
(* process using the library) is a small stack frame: the next EC2 call to *)
(* make (pc), the method that was invoked (op), and the network and subnet *)
(* it works on.  One action is one EC2 call with everything the code does  *)
(* with its answer before the next call.  Callers interleave between EC2   *)
(* calls and share the account.                                            *)
(*                                                                         *)
(* An EC2 call answers "ok", "refused" (EC2's own rules forbid it),        *)
(* "fail" (an error, nothing was done) or "lost" (it was done and the      *)
(* answer never came, so the caller sees an error).  "fail" and "lost" are *)
(* the injected faults: at most MaxFaults of them, remembered per network  *)
(* in hit under the name of the call.                                      *)
(*                                                                         *)
(* createNetwork makes one internet gateway for the network it is building *)
(* and attaches it to no other, so gw[v] is the gateway made for v.        *)
(***************************************************************************)
EXTENDS Naturals, FiniteSets

CONSTANTS Callers,    \* concurrent users of the library
          Vpcs,       \* identifiers EC2 can hand out for networks
          Subnets,    \* identifiers EC2 can hand out for subnets
          MaxFaults,  \* bound on injected faults
          None

ASSUME MaxFaultsAssumption == MaxFaults \in Nat
ASSUME NoneAssumption == None \notin Vpcs \cup Subnets

VARIABLES vpc, tagged, gw, table, routes,         \* EC2: networks
          snet, sstate, stagged, assoc,           \* EC2: subnets
          pc, op, net, sub,                       \* the callers
          known, doomed, knownSub, doomedSub,     \* what callers were told, what they asked to delete
          faults, hit                             \* injected faults

netVars    == <<vpc, tagged, gw, table, routes>>
subnetVars == <<snet, sstate, stagged, assoc>>
frameVars  == <<op, net, sub>>
userVars   == <<known, doomed, knownSub, doomedSub>>
faultVars  == <<faults, hit>>
vars == <<netVars, subnetVars, pc, frameVars, userVars, faultVars>>

Families == {"v4", "v6"}

NetworkCalls == {"AddTags", "CreateGateway", "AttachGateway", "GetRouteTable", "RouteV4",
                 "RouteV6", "DropRouteV4", "DropTable", "GetNetwork"}
RemovalCalls == {"DescribeGateways", "DetachGateway", "DeleteGateway", "DeleteVpc"}
SubnetCalls  == {"TagSubnet", "SubnetTable", "AssociateTable", "GetSubnet", "DeleteSubnet"}
Calls  == NetworkCalls \cup RemovalCalls \cup SubnetCalls
Causes == Calls \cup {"CreateVpc", "CreateSubnet", "SubnetInUse"}

NetworkType ==
  /\ vpc \in [Vpcs -> {"none", "live", "gone"}]
  /\ tagged \in SUBSET Vpcs
  /\ gw \in [Vpcs -> {"none", "free", "attached", "gone"}]
  /\ table \in SUBSET Vpcs
  /\ routes \in [Vpcs -> SUBSET Families]

SubnetType ==
  /\ snet \in [Subnets -> Vpcs \cup {None}]
  /\ sstate \in [Subnets -> {"none", "live", "gone"}]
  /\ stagged \in SUBSET Subnets
  /\ assoc \in SUBSET Subnets

FrameType ==
  /\ pc \in [Callers -> Calls \cup {"idle"}]
  /\ op \in [Callers -> {"none", "CreateNetwork", "DeleteNetwork", "CreateSubnet"}]
  /\ net \in [Callers -> Vpcs \cup {None}]
  /\ sub \in [Callers -> Subnets \cup {None}]

UserType ==
  /\ known \in SUBSET Vpcs
  /\ doomed \in SUBSET Vpcs
  /\ knownSub \in SUBSET Subnets
  /\ doomedSub \in SUBSET Subnets

FaultType ==
  /\ faults \in 0 .. MaxFaults
  /\ hit \in [Vpcs -> SUBSET Causes]

\* Types.  Networks, gateways, tables and subnets are strings in networks.go: none is used for
\* another.
TypeOK == NetworkType /\ SubnetType /\ FrameType /\ UserType /\ FaultType

Init ==
  /\ vpc = [v \in Vpcs |-> "none"]
  /\ tagged = {}
  /\ gw = [v \in Vpcs |-> "none"]
  /\ table = {}
  /\ routes = [v \in Vpcs |-> {}]
  /\ snet = [s \in Subnets |-> None]
  /\ sstate = [s \in Subnets |-> "none"]
  /\ stagged = {}
  /\ assoc = {}
  /\ pc = [c \in Callers |-> "idle"]
  /\ op = [c \in Callers |-> "none"]
  /\ net = [c \in Callers |-> None]
  /\ sub = [c \in Callers |-> None]
  /\ known = {}
  /\ doomed = {}
  /\ knownSub = {}
  /\ doomedSub = {}
  /\ faults = 0
  /\ hit = [v \in Vpcs |-> {}]

-----------------------------------------------------------------------------
\* Answers of EC2 to a call whose precondition is pre, and what they cost.

Answers(pre) == IF pre THEN {"ok", "fail", "lost"} ELSE {"refused"}
ReadAnswers  == {"ok", "fail"}
Applied(a)   == a \in {"ok", "lost"}

Charge(a, v, cause) ==
  IF a \in {"fail", "lost"}
  THEN /\ faults < MaxFaults
       /\ faults' = faults + 1
       /\ hit' = [hit EXCEPT ![v] = @ \cup {cause}]
  ELSE UNCHANGED faultVars

Goto(c, call) == /\ pc' = [pc EXCEPT ![c] = call]
                 /\ UNCHANGED frameVars

Enter(c, method, v, s, call) ==
  /\ pc' = [pc EXCEPT ![c] = call]
  /\ op' = [op EXCEPT ![c] = method]
  /\ net' = [net EXCEPT ![c] = v]
  /\ sub' = [sub EXCEPT ![c] = s]

Return(c) == Enter(c, "none", None, None, "idle")

\* Faulty variant: the error is returned and nothing is undone.
NoRollback(c) == Return(c)

Rollback(c) == Goto(c, "DescribeGateways")

-----------------------------------------------------------------------------
\* CreateNetwork

\* A refused or failed CreateVpc changes nothing: CreateNetwork returns the error.
CreateVpc(c) ==
  /\ pc[c] = "idle"
  /\ \E v \in Vpcs, a \in {"ok", "lost"} :
       /\ vpc[v] = "none"
       /\ vpc' = [vpc EXCEPT ![v] = "live"]
       /\ table' = table \cup {v}
       /\ Charge(a, v, "CreateVpc")
       /\ IF a = "ok" THEN Enter(c, "CreateNetwork", v, None, "AddTags") ELSE Return(c)
  /\ UNCHANGED <<tagged, gw, routes, subnetVars, userVars>>

AddTags(c) ==
  /\ pc[c] = "AddTags"
  /\ \E a \in Answers(vpc[net[c]] = "live") :
       /\ Charge(a, net[c], "AddTags")
       /\ tagged' = IF Applied(a) THEN tagged \cup {net[c]} ELSE tagged
       /\ IF a = "ok" THEN Goto(c, "CreateGateway") ELSE Rollback(c)
  /\ UNCHANGED <<vpc, gw, table, routes, subnetVars, userVars>>

CreateGateway(c) ==
  /\ pc[c] = "CreateGateway"
  /\ \E a \in Answers(TRUE) :
       /\ Charge(a, net[c], "CreateGateway")
       /\ gw' = IF Applied(a) THEN [gw EXCEPT ![net[c]] = "free"] ELSE gw
       /\ IF a = "ok" THEN Goto(c, "AttachGateway") ELSE Rollback(c)
  /\ UNCHANGED <<vpc, tagged, table, routes, subnetVars, userVars>>

AttachGateway(c) ==
  /\ pc[c] = "AttachGateway"
  /\ \E a \in Answers(vpc[net[c]] = "live" /\ gw[net[c]] = "free") :
       /\ Charge(a, net[c], "AttachGateway")
       /\ gw' = IF Applied(a) THEN [gw EXCEPT ![net[c]] = "attached"] ELSE gw
       /\ IF a = "ok" THEN Goto(c, "GetRouteTable") ELSE Rollback(c)
  /\ UNCHANGED <<vpc, tagged, table, routes, subnetVars, userVars>>

\* An empty answer of DescribeRouteTables is an error of getRouteTable.
GetRouteTable(c) ==
  /\ pc[c] = "GetRouteTable"
  /\ \E a \in ReadAnswers :
       /\ Charge(a, net[c], "GetRouteTable")
       /\ IF a = "ok" /\ net[c] \in table THEN Goto(c, "RouteV4") ELSE Rollback(c)
  /\ UNCHANGED <<netVars, subnetVars, userVars>>

CanRoute(v) == v \in table /\ gw[v] = "attached"

RouteV4(c) ==
  /\ pc[c] = "RouteV4"
  /\ \E a \in Answers(CanRoute(net[c])) :
       /\ Charge(a, net[c], "RouteV4")
       /\ routes' = IF Applied(a) THEN [routes EXCEPT ![net[c]] = @ \cup {"v4"}] ELSE routes
       /\ Goto(c, IF a = "ok" THEN "RouteV6" ELSE "DropTable")
  /\ UNCHANGED <<vpc, tagged, gw, table, subnetVars, userVars>>

\* Faulty variant: the error of the second CreateRoute is not looked at.
RouteV6Unchecked(c) ==
  /\ pc[c] = "RouteV6"
  /\ \E a \in Answers(CanRoute(net[c])) :
       /\ Charge(a, net[c], "RouteV6")
       /\ routes' = IF Applied(a) THEN [routes EXCEPT ![net[c]] = @ \cup {"v6"}] ELSE routes
  /\ Goto(c, "GetNetwork")
  /\ UNCHANGED <<vpc, tagged, gw, table, subnetVars, userVars>>

RouteV6(c) ==
  /\ pc[c] = "RouteV6"
  /\ \E a \in Answers(CanRoute(net[c])) :
       /\ Charge(a, net[c], "RouteV6")
       /\ routes' = IF Applied(a) THEN [routes EXCEPT ![net[c]] = @ \cup {"v6"}] ELSE routes
       /\ Goto(c, IF a = "ok" THEN "GetNetwork" ELSE "DropRouteV4")
  /\ UNCHANGED <<vpc, tagged, gw, table, subnetVars, userVars>>

\* The answers of the two undo calls of populateRouteTable are discarded.
DropRouteV4(c) ==
  /\ pc[c] = "DropRouteV4"
  /\ \E a \in Answers(net[c] \in table /\ "v4" \in routes[net[c]]) :
       /\ Charge(a, net[c], "DropRouteV4")
       /\ routes' = IF Applied(a) THEN [routes EXCEPT ![net[c]] = @ \ {"v4"}] ELSE routes
  /\ Goto(c, "DropTable")
  /\ UNCHANGED <<vpc, tagged, gw, table, subnetVars, userVars>>

\* The table is the main one of the network, which EC2 may refuse to delete.
DropTable(c) ==
  /\ pc[c] = "DropTable"
  /\ \/ UNCHANGED <<table, routes>>
     \/ /\ table' = table \ {net[c]}
        /\ routes' = [routes EXCEPT ![net[c]] = {}]
  /\ Rollback(c)
  /\ UNCHANGED <<vpc, tagged, gw, subnetVars, userVars, faultVars>>

\* The network is handed to the caller only here.  When this last read fails, or
\* answers with an empty list, createNetwork returns without undoing anything.
GetNetwork(c) ==
  /\ pc[c] = "GetNetwork"
  /\ \E a \in ReadAnswers :
       /\ Charge(a, net[c], "GetNetwork")
       /\ known' = IF a = "ok" /\ vpc[net[c]] = "live" THEN known \cup {net[c]} ELSE known
  /\ Return(c)
  /\ UNCHANGED <<netVars, subnetVars, doomed, knownSub, doomedSub>>

-----------------------------------------------------------------------------
\* DeleteNetwork, called by a user on a network it was given, or by CreateNetwork
\* to undo what it did.  The gateway is found through its attachment.

\* Faulty variant: any network EC2 lists is deleted.
DeleteListedNetwork(c) ==
  /\ pc[c] = "idle"
  /\ \E v \in Vpcs : /\ vpc[v] = "live"
                     /\ Enter(c, "DeleteNetwork", v, None, "DescribeGateways")
                     /\ doomed' = doomed \cup {v}
  /\ UNCHANGED <<netVars, subnetVars, known, knownSub, doomedSub, faultVars>>

DeleteNetwork(c) ==
  /\ pc[c] = "idle"
  /\ \E v \in known : /\ Enter(c, "DeleteNetwork", v, None, "DescribeGateways")
                      /\ doomed' = doomed \cup {v}
  /\ UNCHANGED <<netVars, subnetVars, known, knownSub, doomedSub, faultVars>>

DescribeGateways(c) ==
  /\ pc[c] = "DescribeGateways"
  /\ \E a \in ReadAnswers :
       /\ Charge(a, net[c], "DescribeGateways")
       /\ IF a = "ok"
          THEN Goto(c, IF gw[net[c]] = "attached" THEN "DetachGateway" ELSE "DeleteVpc")
          ELSE Return(c)
  /\ UNCHANGED <<netVars, subnetVars, userVars>>

\* Faulty variant: the detached gateway is not deleted.
DetachGatewayOnly(c) ==
  /\ pc[c] = "DetachGateway"
  /\ \E a \in Answers(gw[net[c]] = "attached") :
       /\ Charge(a, net[c], "DetachGateway")
       /\ gw' = IF Applied(a) THEN [gw EXCEPT ![net[c]] = "free"] ELSE gw
       /\ IF a = "ok" THEN Goto(c, "DeleteVpc") ELSE Return(c)
  /\ UNCHANGED <<vpc, tagged, table, routes, subnetVars, userVars>>

DetachGateway(c) ==
  /\ pc[c] = "DetachGateway"
  /\ \E a \in Answers(gw[net[c]] = "attached") :
       /\ Charge(a, net[c], "DetachGateway")
       /\ gw' = IF Applied(a) THEN [gw EXCEPT ![net[c]] = "free"] ELSE gw
       /\ IF a = "ok" THEN Goto(c, "DeleteGateway") ELSE Return(c)
  /\ UNCHANGED <<vpc, tagged, table, routes, subnetVars, userVars>>

\* Faulty variant: deleteNetwork returns after the removal of the gateway.
DeleteGatewayReturns(c) ==
  /\ pc[c] = "DeleteGateway"
  /\ \E a \in Answers(gw[net[c]] = "free") :
       /\ Charge(a, net[c], "DeleteGateway")
       /\ gw' = IF Applied(a) THEN [gw EXCEPT ![net[c]] = "gone"] ELSE gw
  /\ Return(c)
  /\ UNCHANGED <<vpc, tagged, table, routes, subnetVars, userVars>>

DeleteGateway(c) ==
  /\ pc[c] = "DeleteGateway"
  /\ \E a \in Answers(gw[net[c]] = "free") :
       /\ Charge(a, net[c], "DeleteGateway")
       /\ gw' = IF Applied(a) THEN [gw EXCEPT ![net[c]] = "gone"] ELSE gw
       /\ IF a = "ok" THEN Goto(c, "DeleteVpc") ELSE Return(c)
  /\ UNCHANGED <<vpc, tagged, table, routes, subnetVars, userVars>>

SubnetsOf(v) == {s \in Subnets : snet[s] = v /\ sstate[s] = "live"}

\* EC2 deletes only an empty network; hit remembers that a subnet was in the way.
DeleteVpc(c) ==
  /\ pc[c] = "DeleteVpc"
  /\ \E a \in Answers(/\ vpc[net[c]] = "live"
                      /\ gw[net[c]] # "attached"
                      /\ SubnetsOf(net[c]) = {}) :
       /\ IF a = "refused" /\ SubnetsOf(net[c]) # {}
          THEN /\ hit' = [hit EXCEPT ![net[c]] = @ \cup {"SubnetInUse"}]
               /\ UNCHANGED faults
          ELSE Charge(a, net[c], "DeleteVpc")
       /\ vpc' = IF Applied(a) THEN [vpc EXCEPT ![net[c]] = "gone"] ELSE vpc
       /\ table' = IF Applied(a) THEN table \ {net[c]} ELSE table
  /\ Return(c)
  /\ UNCHANGED <<tagged, gw, routes, subnetVars, userVars>>

-----------------------------------------------------------------------------
\* CreateSubnet and DeleteSubnet

CreateSubnet(c) ==
  /\ pc[c] = "idle"
  /\ \E v \in known, s \in Subnets, a \in {"ok", "lost"} :
       /\ vpc[v] = "live"
       /\ sstate[s] = "none"
       /\ sstate' = [sstate EXCEPT ![s] = "live"]
       /\ snet' = [snet EXCEPT ![s] = v]
       /\ Charge(a, v, "CreateSubnet")
       /\ IF a = "ok" THEN Enter(c, "CreateSubnet", v, s, "TagSubnet") ELSE Return(c)
  /\ UNCHANGED <<netVars, stagged, assoc, userVars>>

TagSubnet(c) ==
  /\ pc[c] = "TagSubnet"
  /\ \E a \in Answers(sstate[sub[c]] = "live") :
       /\ Charge(a, net[c], "TagSubnet")
       /\ stagged' = IF Applied(a) THEN stagged \cup {sub[c]} ELSE stagged
       /\ Goto(c, IF a = "ok" THEN "SubnetTable" ELSE "DeleteSubnet")
  /\ UNCHANGED <<netVars, snet, sstate, assoc, userVars>>

SubnetTable(c) ==
  /\ pc[c] = "SubnetTable"
  /\ \E a \in ReadAnswers :
       /\ Charge(a, net[c], "SubnetTable")
       /\ Goto(c, IF a = "ok" /\ net[c] \in table THEN "AssociateTable" ELSE "DeleteSubnet")
  /\ UNCHANGED <<netVars, subnetVars, userVars>>

\* Faulty variant: the error of AssociateRouteTable is not looked at.
AssociateTableUnchecked(c) ==
  /\ pc[c] = "AssociateTable"
  /\ \E a \in Answers(sstate[sub[c]] = "live" /\ net[c] \in table) :
       /\ Charge(a, net[c], "AssociateTable")
       /\ assoc' = IF Applied(a) THEN assoc \cup {sub[c]} ELSE assoc
  /\ Goto(c, "GetSubnet")
  /\ UNCHANGED <<netVars, snet, sstate, stagged, userVars>>

AssociateTable(c) ==
  /\ pc[c] = "AssociateTable"
  /\ \E a \in Answers(sstate[sub[c]] = "live" /\ net[c] \in table) :
       /\ Charge(a, net[c], "AssociateTable")
       /\ assoc' = IF Applied(a) THEN assoc \cup {sub[c]} ELSE assoc
       /\ Goto(c, IF a = "ok" THEN "GetSubnet" ELSE "DeleteSubnet")
  /\ UNCHANGED <<netVars, snet, sstate, stagged, userVars>>

GetSubnet(c) ==
  /\ pc[c] = "GetSubnet"
  /\ \E a \in ReadAnswers :
       /\ Charge(a, net[c], "GetSubnet")
       /\ knownSub' = IF a = "ok" /\ sstate[sub[c]] = "live"
                      THEN knownSub \cup {sub[c]} ELSE knownSub
  /\ Return(c)
  /\ UNCHANGED <<netVars, subnetVars, known, doomed, doomedSub>>

RemoveSubnet(s, v) ==
  \E a \in Answers(sstate[s] = "live") :
    /\ Charge(a, v, "DeleteSubnet")
    /\ sstate' = IF Applied(a) THEN [sstate EXCEPT ![s] = "gone"] ELSE sstate

UndoSubnet(c) ==
  /\ pc[c] = "DeleteSubnet"
  /\ RemoveSubnet(sub[c], net[c])
  /\ Return(c)
  /\ UNCHANGED <<netVars, snet, stagged, assoc, userVars>>

DeleteSubnet(c) ==
  /\ pc[c] = "idle"
  /\ \E s \in knownSub : /\ RemoveSubnet(s, snet[s])
                         /\ doomedSub' = doomedSub \cup {s}
  /\ UNCHANGED <<netVars, snet, stagged, assoc, pc, frameVars, known, doomed, knownSub>>

-----------------------------------------------------------------------------
\* The calls a caller still owes to a method it entered
Continue(c) ==
  \/ AddTags(c) \/ CreateGateway(c) \/ AttachGateway(c) \/ GetRouteTable(c)
  \/ RouteV4(c) \/ RouteV6(c) \/ DropRouteV4(c) \/ DropTable(c) \/ GetNetwork(c)
  \/ DescribeGateways(c) \/ DetachGateway(c) \/ DeleteGateway(c) \/ DeleteVpc(c)
  \/ TagSubnet(c) \/ SubnetTable(c) \/ AssociateTable(c) \/ GetSubnet(c) \/ UndoSubnet(c)

Next == \E c \in Callers : \/ CreateVpc(c) \/ DeleteNetwork(c)
                           \/ CreateSubnet(c) \/ DeleteSubnet(c)
                           \/ Continue(c)

\* A caller inside a method goes on to its next call: EC2 calls return.
Fairness == \A c \in Callers : WF_vars(Continue(c))

Spec == Init /\ [][Next]_vars /\ Fairness

-----------------------------------------------------------------------------
\* Properties

Works(c, method, v) == pc[c] # "idle" /\ op[c] = method /\ net[c] = v

Creating(v) == \E c \in Callers : Works(c, "CreateNetwork", v)
Deleting(v) == \E c \in Callers : Works(c, "DeleteNetwork", v)

Wired(v) == v \in tagged /\ gw[v] = "attached" /\ routes[v] = Families

\* A network CreateNetwork returned stays up, named and routed to the internet on both
\* address families until somebody calls DeleteNetwork on it, whatever the other callers
\* create, undo or delete meanwhile (createNetwork, rollbacks of other networks).
KnownNetworkComplete ==
  \A v \in known \ doomed : vpc[v] = "live" /\ v \in table /\ Wired(v)

\* A network that is not published yet belongs to the one call of CreateNetwork that builds
\* or undoes it: no other caller builds, undoes or deletes it, and when that call reaches a
\* step, what its former steps made is still there.  (doomed networks are shared by deleters.)
Creator(c) == pc[c] # "idle" /\ op[c] = "CreateNetwork"

Built(c) ==
  /\ vpc[net[c]] = "live"
  /\ pc[c] \in NetworkCalls => net[c] \in table
  /\ pc[c] \in {"CreateGateway", "AttachGateway"} => net[c] \in tagged
  /\ pc[c] \in {"GetRouteTable", "RouteV4", "RouteV6", "GetNetwork"}
       => net[c] \in tagged /\ gw[net[c]] = "attached"
  /\ pc[c] = "RouteV6" => "v4" \in routes[net[c]]
  /\ pc[c] = "GetNetwork" => routes[net[c]] = Families

Ownership ==
  /\ \A c \in Callers : Creator(c) => net[c] \notin known /\ Built(c)
  /\ \A c, d \in Callers : Creator(c) /\ Creator(d) /\ net[c] = net[d] => c = d

\* CreateNetwork leaves a network behind that nobody was told of only if its own undo
\* was hit by a fault, or the creation answer was lost, or the final GetNetwork failed.
FailedCreateLeavesNothing ==
  \A v \in Vpcs : (vpc[v] = "live" /\ v \notin known /\ ~Creating(v))
     => hit[v] \cap (RemovalCalls \cup {"CreateVpc", "GetNetwork"}) # {}

\* An internet gateway is left unattached, out of reach of the lookup by attachment in
\* removeInternetGateway, only after a fault on one of the four gateway calls of that network.
OrphanGatewayExplained ==
  \A v \in Vpcs : (gw[v] = "free" /\ ~Creating(v) /\ ~Deleting(v))
     => hit[v] \cap {"CreateGateway", "AttachGateway", "DetachGateway", "DeleteGateway"} # {}

\* A subnet CreateSubnet returned is up, named and associated with the route table until it
\* is deleted, and it reaches the internet as long as its network is not being deleted:
\* a DeleteNetwork racing with CreateSubnet never removes the network under the subnet.
KnownSubnetRouted ==
  \A s \in knownSub \ doomedSub :
     /\ sstate[s] = "live" /\ s \in stagged /\ s \in assoc
     /\ vpc[snet[s]] = "live"
     /\ snet[s] \notin doomed => Wired(snet[s])

\* Deletion makes progress: callers that delete the same network race on its gateway and all but one
\* may fail, yet a network someone asked to delete disappears, unless a fault hit one of the removal
\* calls or EC2 found a subnet in the network.
DeletionCompletes ==
  \A v \in Vpcs : v \in doomed
     ~> (vpc[v] = "gone" \/ hit[v] \cap (RemovalCalls \cup {"SubnetInUse"}) # {})

-----------------------------------------------------------------------------
\* Refinement: the calls above implement the promise of the interface.

Phase(v) ==
  CASE vpc[v] = "none" -> "absent"
    [] vpc[v] = "gone" -> "removed"
    [] vpc[v] = "live" /\ v \in doomed -> "dismantling"
    [] vpc[v] = "live" /\ v \in known \ doomed -> "usable"
    [] vpc[v] = "live" /\ v \notin known \cup doomed ->
         IF Creating(v) THEN "building" ELSE "residue"

Lifecycle == INSTANCE NetworkLifecycle WITH
  Networks <- Vpcs,
  phase <- [v \in Vpcs |-> Phase(v)],
  wired <- {v \in Vpcs : Wired(v)}

\* Whatever callers do concurrently and whichever calls fail, a network goes through the
\* life the interface promises: published only when wired, wired until its deletion is
\* asked for, removed only when unwired, and never published after a failed creation.
ImplementsLifecycle == Lifecycle!Spec

=============================================================================

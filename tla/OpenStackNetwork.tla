-------------------------- MODULE OpenStackNetwork --------------------------
(***************************************************************************)
(* NetworkManager of the OpenStack provider                                *)
(* (providers/openstack/networks.go).                                      *)
(*                                                                         *)
(* A network gets a router that has the identifier of the network for      *)
(* name: a router is identified here by that network.  CreateSubnet looks  *)
(* for its router by the name of the subnet, not by the network; a name is *)
(* None when no network has it for identifier.  One action is one call to  *)
(* Neutron: it may answer "ok", be "refused", "fail" (nothing was done) or *)
(* get "lost" (it was done, the caller sees an error).  At most MaxFaults  *)
(* answers fail or get lost.                                               *)
(*                                                                         *)
(* Users work on the networks they were given and on those they list:      *)
(* ListNetworks hands out a network while CreateNetwork still makes its    *)
(* router.  They delete any subnet they list.                              *)
(***************************************************************************)
EXTENDS Naturals

CONSTANTS Callers,    \* processes that use the library
          Networks,   \* identifiers Neutron can hand out for networks
          Subnets,    \* and for subnets
          MaxFaults,  \* bound on injected faults
          None

ASSUME MaxFaultsAssumption == MaxFaults \in Nat
ASSUME NoneAssumption == None \notin Networks \cup Subnets

VARIABLES net, router,          \* Neutron: networks, and the router named after each
          sstate, snet, port,   \* Neutron: subnets, their network, the router they are plugged on
          busy,                 \* networks that servers use
          pc, op, cur, sub, via, \* callers: call, method, network, subnet and router in hand
          known, knownSub,      \* what callers were told
          doomed,               \* networks they asked to delete
          doomedSub,            \* subnets they asked to delete, answered and with no server around
          faults,
          stopped               \* networks whose creation, or last deletion, met a fault, was told
                                \* that they are in use or came before their router

netVars    == <<net, router>>
subnetVars == <<sstate, snet, port>>
frameVars  == <<op, cur, sub, via>>
userVars   == <<known, knownSub, doomed, doomedSub>>
faultVars  == <<faults, stopped>>
vars == <<netVars, subnetVars, busy, pc, frameVars, userVars, faultVars>>

Calls == {"CreateRouter", "FindRouter", "DeleteRouter", "DeleteNet",
          "FindNamedRouter", "CreateSub", "AddInterface", "UndoSubnet"}

Life == {"none", "up", "gone"}

\* Types.  Networks, routers and subnets are strings in networks.go: none is used for another.
TypeOK ==
  /\ net \in [Networks -> Life] /\ router \in [Networks -> Life]
  /\ sstate \in [Subnets -> Life]
  /\ snet \in [Subnets -> Networks \cup {None}]
  /\ port \in [Subnets -> Networks \cup {None}]
  /\ busy \in SUBSET Networks
  /\ pc \in [Callers -> Calls \cup {"idle", "crashed"}]
  /\ op \in [Callers -> {"none", "CreateNetwork", "DeleteNetwork", "CreateSubnet"}]
  /\ cur \in [Callers -> Networks \cup {None}]
  /\ sub \in [Callers -> Subnets \cup {None}]
  /\ via \in [Callers -> Networks \cup {None}]
  /\ known \in SUBSET Networks /\ doomed \in SUBSET Networks
  /\ knownSub \in SUBSET Subnets /\ doomedSub \in SUBSET Subnets
  /\ faults \in 0 .. MaxFaults
  /\ stopped \in SUBSET Networks

Init ==
  /\ net = [n \in Networks |-> "none"] /\ router = [n \in Networks |-> "none"]
  /\ sstate = [s \in Subnets |-> "none"]
  /\ snet = [s \in Subnets |-> None] /\ port = [s \in Subnets |-> None]
  /\ busy = {}
  /\ pc = [c \in Callers |-> "idle"]
  /\ op = [c \in Callers |-> "none"]
  /\ cur = [c \in Callers |-> None]
  /\ sub = [c \in Callers |-> None]
  /\ via = [c \in Callers |-> None]
  /\ known = {} /\ knownSub = {} /\ doomed = {} /\ doomedSub = {}
  /\ faults = 0
  /\ stopped = {}

-----------------------------------------------------------------------------
\* Answers of Neutron to a call whose precondition is pre, and what they cost.

Answers(pre) == IF pre THEN {"ok", "fail", "lost"} ELSE {"refused"}
ReadAnswers  == {"ok", "fail"}
Applied(a)   == a \in {"ok", "lost"}

Faulty(a)    == a \in {"fail", "lost"}

Cost(a) == IF Faulty(a) THEN faults < MaxFaults /\ faults' = faults + 1 ELSE UNCHANGED faults

\* What may keep n from being removed: a faulty answer, or trouble.
CostOf(a, n, trouble) ==
  /\ Cost(a)
  /\ stopped' = IF Faulty(a) \/ trouble THEN stopped \cup {n} ELSE stopped

Enter(c, method, n, s, r, call) ==
  /\ pc' = [pc EXCEPT ![c] = call]
  /\ op' = [op EXCEPT ![c] = method]
  /\ cur' = [cur EXCEPT ![c] = n]
  /\ sub' = [sub EXCEPT ![c] = s]
  /\ via' = [via EXCEPT ![c] = r]

Goto(c, call) == pc' = [pc EXCEPT ![c] = call] /\ UNCHANGED frameVars
Return(c)     == Enter(c, "none", None, None, None, "idle")

Plugged(r)  == \E s \in Subnets : sstate[s] = "up" /\ port[s] = r
At(n, calls) == \E c \in Callers : pc[c] \in calls /\ cur[c] = n
Listed      == {n \in Networks : net[n] = "up"}
Occupied(n) == n \in busy \/ \E s \in Subnets : sstate[s] = "up" /\ snet[s] = n /\ port[s] # None

-----------------------------------------------------------------------------
\* CreateNetwork

\* A creation that is refused or fails changes nothing.
CreateNetwork(c) ==
  /\ pc[c] = "idle"
  /\ \E n \in Networks, a \in {"ok", "lost"} :
       /\ net[n] = "none"
       /\ net' = [net EXCEPT ![n] = "up"]
       /\ CostOf(a, n, FALSE)
       /\ IF a = "ok" THEN Enter(c, "CreateNetwork", n, None, None, "CreateRouter") ELSE Return(c)
  /\ UNCHANGED <<router, subnetVars, busy, userVars>>

\* A faulty CreateRouter: its error is not looked at.
CreateRouterUnchecked(c) ==
  /\ pc[c] = "CreateRouter"
  /\ \E a \in Answers(TRUE) :
       /\ Cost(a)
       /\ router' = IF Applied(a) THEN [router EXCEPT ![cur[c]] = "up"] ELSE router
  /\ known' = known \cup {cur[c]} /\ Return(c)
  /\ UNCHANGED <<net, subnetVars, busy, knownSub, doomed, doomedSub, stopped>>

\* A faulty CreateRouter: the undo forgets that the router may be there.
CreateRouterOrDrop(c) ==
  /\ pc[c] = "CreateRouter"
  /\ \E a \in Answers(TRUE) :
       /\ Cost(a)
       /\ router' = IF Applied(a) THEN [router EXCEPT ![cur[c]] = "up"] ELSE router
       /\ IF a = "ok" THEN known' = known \cup {cur[c]} /\ Return(c)
                      ELSE Goto(c, "DeleteNet") /\ UNCHANGED known
  /\ UNCHANGED <<net, subnetVars, busy, knownSub, doomed, doomedSub, stopped>>

\* The look-up of the external network that comes first fails like the creation itself.
CreateRouter(c) ==
  /\ pc[c] = "CreateRouter"
  /\ \E a \in Answers(TRUE) :
       /\ Cost(a)
       /\ router' = IF Applied(a) THEN [router EXCEPT ![cur[c]] = "up"] ELSE router
       /\ IF a = "ok" THEN known' = known \cup {cur[c]} /\ Return(c)
                      ELSE Goto(c, "FindRouter") /\ UNCHANGED known
  /\ UNCHANGED <<net, subnetVars, busy, knownSub, doomed, doomedSub, stopped>>

-----------------------------------------------------------------------------
\* DeleteNetwork, which is also the undo of CreateNetwork

DeleteNetwork(c) ==
  /\ pc[c] = "idle"
  /\ \E n \in known \cup Listed : /\ Enter(c, "DeleteNetwork", n, None, None, "FindRouter")
                                  /\ doomed' = doomed \cup {n}
                                  /\ stopped' = stopped \ {n}
  /\ UNCHANGED <<netVars, subnetVars, busy, known, knownSub, doomedSub, faults>>

\* A faulty FindRouter: a network without its router is an error.
FindRouterOrStop(c) ==
  /\ pc[c] = "FindRouter"
  /\ \E a \in ReadAnswers :
       /\ CostOf(a, cur[c], At(cur[c], {"CreateRouter"}))
       /\ IF a = "ok" /\ router[cur[c]] = "up" THEN Goto(c, "DeleteRouter") ELSE Return(c)
  /\ UNCHANGED <<netVars, subnetVars, busy, userVars>>

\* The router of a network that is still being created is missed.
FindRouter(c) ==
  /\ pc[c] = "FindRouter"
  /\ \E a \in ReadAnswers :
       /\ CostOf(a, cur[c], At(cur[c], {"CreateRouter"}))
       /\ IF a = "fail" THEN Return(c)
          ELSE IF router[cur[c]] = "up" THEN Goto(c, "DeleteRouter") ELSE Goto(c, "DeleteNet")
  /\ UNCHANGED <<netVars, subnetVars, busy, userVars>>

DeleteRouter(c) ==
  /\ pc[c] = "DeleteRouter"
  /\ \E a \in Answers(router[cur[c]] = "up" /\ ~Plugged(cur[c])) :
       /\ CostOf(a, cur[c], Plugged(cur[c]))
       /\ router' = IF Applied(a) THEN [router EXCEPT ![cur[c]] = "gone"] ELSE router
       /\ IF a = "ok" THEN Goto(c, "DeleteNet") ELSE Return(c)
  /\ UNCHANGED <<net, subnetVars, busy, userVars>>

\* Neutron refuses while servers or routers are plugged on the network, and deletes the
\* subnets with it otherwise.
DeleteNet(c) ==
  /\ pc[c] = "DeleteNet"
  /\ \E a \in Answers(net[cur[c]] = "up" /\ ~Occupied(cur[c])) :
       /\ CostOf(a, cur[c], Occupied(cur[c]))
       /\ net' = IF Applied(a) THEN [net EXCEPT ![cur[c]] = "gone"] ELSE net
       /\ sstate' = IF Applied(a)
                    THEN [s \in Subnets |-> IF snet[s] = cur[c] THEN "gone" ELSE sstate[s]]
                    ELSE sstate
  /\ Return(c)
  /\ UNCHANGED <<router, snet, port, busy, userVars>>

-----------------------------------------------------------------------------
\* CreateSubnet

CreateSubnet(c) ==
  /\ pc[c] = "idle"
  /\ \E n \in known \cup Listed, name \in Networks \cup {None} :
       Enter(c, "CreateSubnet", n, None, name, "FindNamedRouter")
  /\ UNCHANGED <<netVars, subnetVars, busy, userVars, faultVars>>

FindNamedRouter(c) ==
  /\ pc[c] = "FindNamedRouter"
  /\ \E a \in ReadAnswers :
       /\ Cost(a)
       /\ IF a = "fail" THEN Return(c)
          ELSE Enter(c, "CreateSubnet", cur[c], None,
                     IF via[c] # None /\ router[via[c]] = "up" THEN via[c] ELSE None, "CreateSub")
  /\ UNCHANGED <<netVars, subnetVars, busy, userVars, stopped>>

\* Without a router the next call dereferences nil: the process dies and the subnet stays.
CreateSub(c) ==
  /\ pc[c] = "CreateSub"
  /\ \/ \E s \in Subnets, a \in {"ok", "lost"} :
          /\ net[cur[c]] = "up" /\ sstate[s] = "none"
          /\ Cost(a)
          /\ sstate' = [sstate EXCEPT ![s] = "up"]
          /\ snet' = [snet EXCEPT ![s] = cur[c]]
          /\ IF a = "lost" THEN Return(c)
             ELSE Enter(c, "CreateSubnet", cur[c], s, via[c],
                        IF via[c] = None THEN "crashed" ELSE "AddInterface")
     \/ \E a \in {"refused", "fail"} : /\ Cost(a)
                                       /\ Return(c)
                                       /\ UNCHANGED <<sstate, snet>>
  /\ UNCHANGED <<netVars, port, busy, userVars, stopped>>

\* A faulty AddInterface: its two identifiers, both strings, are swapped.
SwappedInterface(c) ==
  /\ pc[c] = "AddInterface"
  /\ port' = [port EXCEPT ![sub[c]] = sub[c]]
  /\ knownSub' = knownSub \cup {sub[c]}
  /\ Return(c)
  /\ UNCHANGED <<netVars, sstate, snet, busy, known, doomed, doomedSub, faultVars>>

\* A faulty AddInterface: its error is not looked at.
AddInterfaceUnchecked(c) ==
  /\ pc[c] = "AddInterface"
  /\ \E a \in Answers(sstate[sub[c]] = "up" /\ router[via[c]] = "up") :
       /\ Cost(a)
       /\ port' = IF Applied(a) THEN [port EXCEPT ![sub[c]] = via[c]] ELSE port
  /\ knownSub' = knownSub \cup {sub[c]} /\ Return(c)
  /\ UNCHANGED <<netVars, sstate, snet, busy, known, doomed, doomedSub, stopped>>

AddInterface(c) ==
  /\ pc[c] = "AddInterface"
  /\ \E a \in Answers(sstate[sub[c]] = "up" /\ router[via[c]] = "up") :
       /\ Cost(a)
       /\ port' = IF Applied(a) THEN [port EXCEPT ![sub[c]] = via[c]] ELSE port
       /\ IF a = "ok" THEN knownSub' = knownSub \cup {sub[c]} /\ Return(c)
                      ELSE Goto(c, "UndoSubnet") /\ UNCHANGED knownSub
  /\ UNCHANGED <<netVars, sstate, snet, busy, known, doomed, doomedSub, stopped>>

-----------------------------------------------------------------------------
\* DeleteSubnet: nobody unplugs the subnet from its router, and Neutron refuses until then.

Unplugged(s) == sstate[s] = "up" /\ port[s] = None

RemoveSubnet(s, a) ==
  /\ a \in Answers(Unplugged(s)) /\ Cost(a)
  /\ sstate' = IF Applied(a) THEN [sstate EXCEPT ![s] = "gone"] ELSE sstate
  /\ UNCHANGED <<netVars, snet, port, busy, known, knownSub, doomed, stopped>>

UndoSubnet(c) ==
  /\ pc[c] = "UndoSubnet"
  /\ \E a \in {"ok", "refused", "fail", "lost"} : RemoveSubnet(sub[c], a)
  /\ Return(c)
  /\ UNCHANGED doomedSub

DeleteSubnet(c) ==
  /\ pc[c] = "idle"
  /\ \E s \in Subnets, a \in {"ok", "refused", "fail", "lost"} :
       /\ sstate[s] = "up"
       /\ RemoveSubnet(s, a)
       /\ doomedSub' = IF Faulty(a) \/ snet[s] \in busy THEN doomedSub ELSE doomedSub \cup {s}
  /\ UNCHANGED <<pc, frameVars>>

-----------------------------------------------------------------------------
\* Servers come and go on a network that has a subnet.
PlugServer == \E s \in Subnets : /\ sstate[s] = "up" /\ net[snet[s]] = "up"
                                 /\ busy' = busy \cup {snet[s]}
UnplugServer == \E n \in busy : busy' = busy \ {n}

Servers == /\ PlugServer \/ UnplugServer
           /\ UNCHANGED <<netVars, subnetVars, pc, frameVars, userVars, faultVars>>

Continue(c) == \/ CreateRouter(c) \/ FindRouter(c) \/ DeleteRouter(c) \/ DeleteNet(c)
               \/ FindNamedRouter(c) \/ CreateSub(c) \/ AddInterface(c) \/ UndoSubnet(c)

Next == \/ \E c \in Callers : \/ CreateNetwork(c) \/ DeleteNetwork(c)
                              \/ CreateSubnet(c) \/ DeleteSubnet(c) \/ Continue(c)
        \/ Servers

\* A caller inside a method goes on to its next call: calls to Neutron return.
Fairness == \A c \in Callers : WF_vars(Continue(c))

Spec == Init /\ [][Next]_vars /\ Fairness

-----------------------------------------------------------------------------
\* Properties

Works(c, method, n) == pc[c] \in Calls /\ op[c] = method /\ cur[c] = n
Creating(n) == \E c \in Callers : Works(c, "CreateNetwork", n)
Deleting(n) == \E c \in Callers : Works(c, "DeleteNetwork", n)

\* A network CreateNetwork returned is up and has its router until somebody deletes it,
\* whatever the other callers create, undo and delete.
KnownNetworkRouted == \A n \in known \ doomed : net[n] = "up" /\ router[n] = "up"

\* Once nobody creates or deletes it any more, a network whose creation failed or whose deletion was
\* asked for is gone with its router, however the undo and the deletions of several callers met
\* (the one that finds the router already deleted leaves the network to the other), but for what
\* stopped the last of them: a fault, the network in use, or its router not made yet.
NothingLeftBehind ==
  \A n \in Networks \ (known \ doomed) :
    ~Creating(n) /\ ~Deleting(n) /\ n \notin stopped => net[n] # "up" /\ router[n] # "up"

\* While a subnet CreateSubnet returned is there, its network and a router it is plugged on are: a
\* DeleteNetwork that runs at the same time stops before it takes either away.
KnownSubnetRouted ==
  \A s \in knownSub : sstate[s] = "up" => /\ net[snet[s]] = "up"
                                          /\ port[s] # None /\ router[port[s]] = "up"

\* A network somebody asks to delete goes away with its router, unless a fault, its use or a router
\* that is not made yet stops the deletion.  That a deletion was stopped does not excuse the next.
DeletionCompletes ==
  \A n \in Networks :
    n \in doomed ~> (net[n] = "gone" /\ router[n] # "up") \/ n \in stopped

\* What TestSubnets of tests/network.go expects: a subnet CreateSubnet returned is gone from the list
\* once DeleteSubnet was called on it, no call to Neutron failed and no server was around.
DeletedSubnetsGo == \A s \in knownSub \cap doomedSub : sstate[s] # "up"

=============================================================================

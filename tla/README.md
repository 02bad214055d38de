# Formal model of anyclouds

anyclouds is a Go library that offers one interface (`src/api`) to the IaaS APIs of AWS, Azure and
OpenStack. It persists nothing and starts no goroutine of its own: each method of a manager is a
*sequence of remote calls* to a cloud, and the state it manipulates lives in the cloud, where it is
shared by every process and goroutine that uses the library. The hard behaviours are therefore those
of a distributed saga: a call in the middle of the sequence fails, its reply is lost, the undo
sequence fails too, two callers interleave their sequences on the same resource, a value read by one
call is stale when the next one uses it, a wait times out while the answer arrives.

## 1. Inventory

| component | source | state | operations that change state | hard behaviours |
|---|---|---|---|---|
| API types and errors | `api/*.go` | none | `NewXxxError` constructors, `NewErrorStack*` | constructors without a nil check make a success look like an error |
| AWS networks | `providers/aws/networks.go`, `tags.go` | VPC, internet gateway, main route table, subnets | CreateNetwork, DeleteNetwork, CreateSubnet, DeleteSubnet | five-call saga with rollback; rollback finds gateways through their attachment; interleaved delete/delete and delete/create-subnet |
| AWS servers | `providers/aws/servers.go`, `keypairs.go` | instances, spot requests, reservations, temporary key pairs | Create (on demand, spot, reserved), Delete, Start, Stop, Resize | deferred key deletion; wait timeout racing fulfilment; rollback through Delete |
| AWS public addresses | `providers/aws/publicaddresses.go` | addresses, associations | Create, Associate, Dissociate, Delete | lookups before update; index 0 of an empty answer |
| AWS network interfaces | `providers/aws/networkinterfaces.go` | interfaces, attachments | Create, Update, Delete | attach/wait/detach compensation, swallowed errors |
| AWS security groups | `providers/aws/securitygroups.go` | groups, permissions | Create, Delete, Attach, AddSecurityRule, RemoveSecurityRule | rule identifiers that encode the rule; identifier loses the CIDR |
| AWS volumes | `providers/aws/volumes.go` | volumes, attachments | Create, Delete, Resize, Attach, Detach | type selection at unit boundaries; wait after detach |
| OpenStack servers | `providers/openstack/servers.go`, `providers/services.go`, `keypairs.go` | servers, flavor resize, temporary key pairs, floating IPs | Create, Delete, Start, Stop, Resize | polling with a timeout, compensation after a wait, confirm/revert |
| OpenStack networks | `providers/openstack/networks.go` | networks, routers, subnets | CreateNetwork, DeleteNetwork, CreateSubnet, DeleteSubnet | router found by name; compensation |
| OpenStack public addresses, interfaces, groups, volumes | `providers/openstack/{publicipaddresses,networkinterfaces,securitygroups,volumes}.go` | floating IPs, ports, groups, rules, volumes | create/associate/dissociate/delete/update/attach | List functions that call each other; port selection by index |
| Azure security groups | `providers/azure/securitygroups.go` | security group documents (with their rules) | Create, Delete, Attach, AddSecurityRule, RemoveSecurityRule | read-modify-write of a whole document without a precondition |
| Azure interfaces and public addresses | `providers/azure/{networkinterfaces,publicaddresses}.go` | interface documents, addresses | Create, Update, Delete, Associate, Dissociate | read-modify-write; addresses of loop variables |
| Azure servers | `providers/azure/servers.go` | virtual machines, their interfaces | Create, Delete, Start, Stop, Resize | interfaces created before the machine, no rollback |
| Azure networks | `providers/azure/networks.go` | virtual networks, subnets | CreateNetwork, DeleteNetwork, CreateSubnet, DeleteSubnet | single-call operations |
| IP ranges | `iputils/ip.go` | none | GetRange and address arithmetic | boundaries of a prefix, carries, /31 and /32 |
| Images, templates | `providers/*/{images,templates}.go` | none | read-only catalogues | not concurrent, no state |
| Providers | `providers/*/provider.go` | configuration, managers | Init | sequential initialisation |
| SSH utilities | `sshutils/ssh.go` | none | CreateClient, CreateKeyPair | I/O and cryptography |

What makes each component correct:

- *Networks* (AWS, OpenStack): a network handed to a user is complete until its deletion is asked
  for; a creation that fails leaves nothing that its own undo could have removed; callers that delete
  the same network at the same time do remove it; a subnet handed to a user keeps its network and its
  route.
- *Servers* (AWS, OpenStack): temporary key pairs do not outlive the call; no server runs that nobody
  was told of; a server that was returned went through every step; a deletion ends the server and
  touches no other; a resize that reports success did what was asked, and no resize is left open.
- *Security groups*: a rule that was accepted stays, one that was removed stays away, a deleted group
  does not come back; every method acts as one atomic operation.
- *Interfaces, addresses, volumes*: an attachment is either complete or undone; an address belongs to
  the server it was last given to; updates do not take each other back.
- *IP ranges*: first and last address delimit exactly the hosts of the prefix.

## 2. Plan

Modules are written in the order in which a mistake costs most: what leaks paid resources or cuts a
running network off first, then what loses configuration, then arithmetic.

| step | modules | contents | state |
|---|---|---|---|
| 1 | `NetworkLifecycle`, `AwsNetwork` | what the interface promises of a network; the EC2 sequences | done, checked, safety and refinement proved |
| 2 | `AwsServer` | the servers of AWS with their key pairs and address associations | done, checked, safety proved |
| 3 | `AtomicRules`, `AzureSecurityGroup` | atomic operations on rules; the read-modify-write of a document | done, checked, proved |
| 4 | `ApiErrors`, `OpenStackServer` | error constructors; servers, waits, resize, addresses | done, checked, safety proved |
| 5 | `OpenStackNetwork` | networks, routers, subnets | done, checked, safety proved |
| 6 | `AzureServer` | servers with their interfaces and addresses: documents that refer to each other, read and written back | done, checked, safety proved |
| 7 | `AwsNetworkInterface`, `AwsSecurityGroup` | attach, wait, detach and their undo, composed with the groups the interfaces carry and the identifiers of rules | done, checked, proved |
| 8 | `AwsVolume`, `IpRange` | volumes, their types and units; the loop of `GetRange` | done, checked, proved |

What could be added: an abstract specification of `atomic` in `AzureServer`, which the module would implement
as long as nothing is written from an outdated copy. `NetworkLifecycle` is not implemented by `OpenStackNetwork`: it has no notion of a
server that keeps a network from going away half-way, which Neutron has. `AtomicRules` has no counterpart
for AWS, where adding and removing a rule is one call of EC2 already; what goes wrong there are the
identifiers, which `AwsSecurityGroup` is about. The ports and groups of OpenStack would add no behaviour
(section 8).

## 3. Modules and code

Common to all modules: a caller is a process or goroutine that uses the library. It has a program
counter that names the cloud call it is about to make and the few local variables that matter. One
action is one cloud call together with all the code does with its answer up to the next call, so that
callers interleave exactly where the code gives up control. An answer is `ok`, `refused` (the cloud's
own rule forbids the call), `fail` (nothing was done) or `lost` (it was done and the caller sees an
error). `fail` and `lost` are bounded by `MaxFaults` and are recorded in a history variable (`hit`, or
`stopped` in `OpenStackNetwork`), because the properties say which failure may leave what behind. Waiters of
EC2 are not bounded: they may give up at any time. Users work on what they were given and, where the
library has a list that returns, on whatever it shows, resources that another call is still making included. Where a failed call changes nothing and
leads nowhere, as the first call of a method does, its failure is no action. What the cloud does by
itself (boots, spot requests, resizes, attachments, what it refuses) is marked external in
`PROJECT.json`. Definitions announced as *faulty* in a module are variants of an action that no
specification uses: each shows that a property notices that change.

**`AwsNetwork`** (`aws/networks.go`). `vpc`, `gw`, `table`, `routes`, `tagged` are the network, its
gateway, its main route table, its default routes and its name tag in EC2; `snet`, `sstate`, `assoc`,
`stagged` the subnets. `pc`, `op`, `net`, `sub` are the stack frame of a caller. `known` and `doomed`
hold what users were given and what they asked to delete. `CreateNetwork` is the chain `CreateVpc`,
`AddTags`, `CreateGateway`, `AttachGateway`, `GetRouteTable`, `RouteV4`, `RouteV6`, `GetNetwork`; an
error goes to `DescribeGateways`, the first call of `DeleteNetwork`, which is also the undo. The undo
of the routes (`DropRouteV4`, `DropTable`) discards its errors as the code does.

**`NetworkLifecycle`** is what `api/networks.go` promises: a network is built, published when wired,
stays wired until its deletion is asked for, and does not come back.

**`AwsServer`** (`aws/servers.go`, `keypairs.go`, `publicaddresses.go`). A call of `Create` is named by
the uuid of its temporary key pair. The three ways to get an instance are `RunInstances`,
`RequestSpot`/`WaitSpot`/`CancelSpot`/`DescribeSpot` and `FindOffering`/`Purchase`; they meet in
`WaitStatus`, after which an error goes through `Delete`. `DeleteKey` is the deferred call and ends
every `Create`. `Delete` lists the addresses once (`todo`), reads each association (`seen`), takes it
off and terminates. Users delete any instance that is listed, also one `Create` still works on; they start, stop
and associate the servers they were given. Each of the three waits for the status of an instance (`WaitOk`) may give up
while the instance runs, which leads through the undo. `ModifyGroups` waits no second time when no group was asked for.
A reservation never leads to a server: its identifier is used as an instance identifier, which `WaitStatus` does not find.

**`AwsNetworkInterface`** (`aws/networkinterfaces.go`). `status`, `server` and `group` are an interface,
its server and its security group in EC2, which attaches and detaches in the background
(`Background`). `Create` is `CreateInterface`, then `WaitCreated` or
`AttachCreated`/`WaitAttached`/`DetachCreated`/`DeleteCreated`, and `GetCreated`; `Describe`, `Detach`,
`Delete` are the method `Delete`, which the wait of `Create` uses as its undo, and which users call for any
interface that is listed: `Describe` may see an interface that its creator attaches before `Delete` removes it
(`BeingDeleted`; `hit` then holds `Overtaken`). In a frame, `nic` is the
interface, `want` the group the caller asked for, and `due` the interfaces that have it because of
this call. `told[n]` is the group a caller was told of last and that nobody wrote since; `cleared` are
the interfaces whose `Delete` returned nil.

**`AwsSecurityGroup`** (`aws/securitygroups.go`) extends it with the groups: `Attach` walks through the
interfaces of a server (`todo`) and changes each with one call (`Modify`); when the address of the options is that of none,
it returns nil and nothing has changed. A rule of EC2 and the
identifier the library encodes it into are the same record, except that `AddSecurityRule` leaves the
CIDR out (`NoCidr`), which `RemoveSecurityRule` takes for the open block (`Revoked`). `ids` are the
identifiers users hold, each with the rule the user takes it for. Which block goes to EC2 in which list is
decided by the length of the mask (`SentAsV6`); EC2 refuses what is in the wrong list (`Accepts`).

**`AwsVolume`** (`aws/volumes.go`). `vstate`, `type`, `server` are a volume, its type and its server in EC2,
`asked` the options it was made or resized with. The conversions between decimal and binary units are
the integer divisions the code does in floating point and truncates; `selectVolumeType` and `DataRate`
are the two tables that use them. `promised` is the server a caller was told the volume is attached to, which EC2 is
still attaching then: nobody waits for it. `Convert` is the conversion of the answer of `CreateVolume`: it panics on a magnetic
volume, which is made and known to nobody. EC2 detaches for the server of the options only.

**`AzureSecurityGroup`** (`azure/securitygroups.go`). `doc[g]` is the document of a group: its rules,
or `Absent`. `held[c]` is what a caller has between its read and its write. `raced`, `wanted`,
`dropped`, `deleted` are history. **`AtomicRules`** has the same operations in one step each, as
`api/securitygroups.go` describes them.

**`OpenStackServer`** (`openstack/servers.go`, `providers/services.go`, `keypairs.go`). `power` and
`phase` are the Nova state and the resize under way. `WaitStable` and `WaitResize` are the waits: a
poll may see any state the server has on the way, or time out; a server that another caller deletes
vanishes under the wait (`Vanish`). `Crash` is the panic in the conversion of a server that could not
be read. `overtaken` marks the callers of `Resize` whose server somebody else resized meanwhile.
`Delete` looks the address of the server up, deletes the server and then the address it found, and
`Associate` moves addresses between servers. **`ApiErrors`** holds whether an error constructor of `api`
returns nil.

**`OpenStackNetwork`** (`openstack/networks.go`). A router has the identifier of its network for name,
so `router[n]` is the router of `n`. `via` is the router `CreateSubnet` found, by the name of the
*subnet*; `CreateSub` without one is the nil dereference of line 171. `CreateNetwork` undoes itself
through `DeleteNetwork` (`FindRouter`, `DeleteRouter`, `DeleteNet`). Neutron refuses to delete what is
plugged (`Plugged`, `Occupied`). `ListNetworks` hands out a network between the two calls of its creation (`Listed`), so that
users delete it, or make subnets in it, before it has its router. `stopped` has the networks whose creation or last
deletion met a fault, was told that they are in use, or came before their router was made; a new deletion takes the network
out of it, so that what stopped an earlier one excuses nothing. `doomedSub` has the subnets whose deletion was asked for, with an
answer and no server on the network.

**`AzureServer`** (`azure/servers.go`, `networkinterfaces.go`, `publicaddresses.go`). `nic[n]` is the
document of interface `n`, `vm[s]` the interfaces of server `s`, `allocated` the addresses. An interface
of a server is named after its subnet, so one set stands for both. `Create` and `MakeNextInterface` are
the rounds of `createNetworkInterfaces`, `PutMachine` the call that makes the server. `frame[c].copy` is
the document a caller of `Update` or `Associate` read and will write. `known` holds what users were
given; `atomic` and `outdated` say what the documents would be without races; `excused` names the interfaces a
failure, a deletion or a user left without a server, `unclaimed` the servers no answer told anybody of. Not actions, because they change nothing: `Dissociate`, which
returns or panics before it writes, and `SecurityGroupManager.Attach`, whose write is refused (section
7). Sizes and power states are one value set by one call each.

**`IpRange`** (`iputils/ip.go`). An address is a number below `Limit`; `Advance` is one round of the loop of
`GetRange`, `Finish` its end. The block is known by its length and by the address the CIDR is written
with, which need not be the first of its block. Its names differ from those of the other modules, since its proofs
stand beside those of `AzureServer`, which reports the ranges of its address pools with it.

## 4. Runs

| run | instance | distinct states | question |
|---|---|---|---|
| `network_safety` | 2 callers, 2 networks, 1 subnet, 2 faults | 546 568 | completeness, ownership, leaks, deletions that complete, and the refinement of `NetworkLifecycle` |
| `server_safety` | 2 callers, 2 calls, 2 instances, 1 address, 1 fault, symmetric; `View` | 1 025 473 | key pairs, leaks, completeness, deletion |
| `groups_safety` | 3 callers, 2 groups, 3 rules, symmetric | 31 342 | only outdated copies break atomicity |
| `os_server_safety` | 2 callers, 2 calls, 2 servers, 2 flavors, 1 address, 1 fault, symmetric; `View` | 977 395 | key pairs, resizes, addresses |
| `os_network_safety` | 2 callers, 2 networks, 1 subnet, 1 fault | 517 711 | routes, leaks, what deletions leave, deletions that complete |
| `azure_server_safety` | 2 callers, 2 servers, 2 subnets, 2 groups, 1 address, 1 fault, symmetric | 581 142 | interfaces, updates, leaks |
| `aws_groups` | 2 callers, an interface a server was launched with and one to make, 1 server, 2 groups, 1 range of ports, 4 blocks, 1 fault, symmetric; `Bound`, `View` | 572 770 | leaks, silent deletions, groups that are as told, which rule an identifier leads to |
| `aws_volumes` | 2 callers, 2 servers, 2 volumes, 1 fault, symmetric; sizes 310, 358, 500, rates 135, 300, 1049 | 575 635 | leaks, attachments, types and rates |
| `ip_range` | 256 addresses, blocks of 1, 2, 4 ... 256 | 67 071 | the range is the hosts of the block, and the loop ends |
| `server_addresses`, `os_server_pending_resize`, `os_network_subnets` | smallest that shows it | | see section 7 |

The symmetric runs check invariants and `[][A]_v` properties only; temporal properties are checked without
symmetry. Three runs take states for the same that differ only in what nothing tells apart (`View`, in `MCAwsServer`,
`MCOpenStackServer` and `MCAwsSecurityGroup`): what is left of a resource that is gone, and which of several causes that excuse the same was met. Type invariants that TLAPS proves for `AwsNetwork`, `AzureSecurityGroup`, `AwsVolume` and `IpRange`
are not repeated in the runs.

*Why the bounds are enough.* Callers share nothing but the cloud, and all but
the frames is indexed by network, server, group or key: two callers on one resource give every race of
the code between two of its calls, and the second resource shows that work on one does not touch the other. Faults matter in pairs at
most: one starts the undo, one more hits it. Where a property holds except after a fault, one fault
already reaches every exception, and two reach a fault inside the undo of another. In `AzureServer` two subnets
reach a creation that fails half-way and one whose interfaces belong to two servers. Rules of Azure are never
reused, so three rules allow an addition, a removal and an addition that overlap. `aws_groups` explores, with
`Bound` of `MCAwsSecurityGroup`, three parts of the behaviours: rules of the default group, while no interface was touched and
no other group made; the making and deletion of groups, while no interface was touched; and work on interfaces, once all groups
are made and while there is no rule. The last stops at a `Delete` of an interface a
server was launched with, of which EC2 changed nothing. A group that is deleted with its rules, or while an interface is about to
get it, is left to the proofs, which are about the whole. The blocks of addresses are the open one, one of each
family, and one with a mask of 16 bits, which are the cases the code distinguishes. The sizes and rates of volumes reach all four
types, the gap of gp2 and the excess of io1; they do not lie on both sides of every limit, but `RatesKept` is proved for
all of them. Where a module has a proof,
the bounds do not matter to what is proved.

Deadlock is not checked (`CHECK_DEADLOCK FALSE`) where identifiers run out, since a model with a finite
supply of fresh identifiers stops although the program does not, and in `ip_range`, where the function returns.

*Fairness.* Weak fairness on `Continue(c)`, for each caller: a caller inside a method makes its next
call. The code has no loop without a bound there and the SDKs return with an answer or an error, so
this is what a running process does. Nothing is assumed of users, who never have to call anything, or
of the cloud, which need not boot or free anything. In `AwsNetwork` and `OpenStackNetwork` it gives
`DeletionCompletes`: after the request the network goes, or `hit` names the failure or it was in use (AWS), or its
deletion was `stopped` (OpenStack).
In `IpRange`, weak fairness on `RangeNext`: a loop that can go on does.
The other specifications have no fairness: nothing temporal is claimed of them.

## 5. Proofs

All theorems hold for any sets of callers, networks, groups, rules and volumes, any options and any `MaxFaults`;
they assume only the named assumptions: `MaxFaults` is a natural number, `None` and `Absent` are none of the
values they stand beside, interfaces are not groups (`DistinctAssumption`), servers are launched with
interfaces (`LaunchedAssumption`), the default group is one of the groups (`DefaultAssumption`), the open block is
neither of IP v6 nor has a mask of 16 bits and the empty string is no block (`CidrAssumption`), options and lengths are
numbers.

- `AwsNetwork_proofs!TypeCorrect`. `TypeOK` is not inductive, since a caller deletes or routes
  `net[c]`, which its type allows to be `None`. `TypeInv` adds `FrameInv`: what the program counter
  says of the frame.
- `NetworkOwnership`, `NetworkStaysComplete`. `IInv` is `TypeInv` and `SafetyInv`.
  `KnownNetworkComplete` depends on the creator having built everything when it publishes, hence on
  `Ownership`, which says what is built at each position of the creator and that no second caller works
  on the same network before it is published. That in turn needs that only published networks are
  deleted (`doomed \subseteq known`) and that a removed network had no gateway attached.
  `NetworkStepFacts` treats each of the thirteen steps on a network once, and says what it changes and
  that it leaves a creator's work in order; the invariants follow from these facts alone.
- `FailedCreateCleansUp`, `OrphanGateways` add `ResidueInv`. While a creator undoes its work, the gateway stays as its
  lookup found it (`UndoInv`), a loose gateway is in the hands of a caller that will attach or delete it, unless
  a fault was in the way (`GatewayInv`), and the network being undone has no subnet, since
  subnets are made in published networks only (`SubnetHomeInv`). Hence EC2 refuses none of the calls of an undo,
  and only a fault can leave the network. `SubnetsStayRouted` adds `SubnetInv`, what the caller
  of `CreateSubnet` has done at each of its positions (`SubnetBuilt`); the network under a subnet stays
  because EC2 removes none with a subnet in it.
- `NetworkRefinement`: every EC2 call is a step of `NetworkLifecycle` on one
  network or a stutter (`AbstractMove`), with the phase read off EC2 and off what users know. It uses
  `IInv` in both states: without `Ownership` a creator could publish a network that is not wired.
- `AwsServer_proofs`: all five properties of servers. `TypeInv` adds to the types what a program counter says of
  the frame; `OwnFrame` shows once that a step touches the frame of its caller only. `CallInv` is about calls of `Create`:
  a uuid belongs to one call (`SoleCall`), an instance keeps the call it comes from, what fills a spot request comes from
  the call that made it (`RequestOK`), and the call of a known server is over (`KnownOK`). From these,
  `InstanceMoves` says what a step does to an instance: only EC2 and `Delete` end one. An unknown
  instance that is up has a caller that will learn of it (`Controls`) or a cause; a server to be deleted has a
  caller that will end it (`WillEnd`), hence `EndingStep`: a deletion goes on, ends its server or is hit. A
  server that is being built may be deleted by a user who found it in the list; `BuiltStays` is what remains then: it is up, or
  its deletion was asked for (`StillUp`), and its group was set, or it is not there any more to be waited for (`Handled`).
- `AzureSecurityGroup_proofs!TypeCorrect`, `OnlyRacesCorrupt`. `ConsistentUnlessRaced` needs that copies
  come from their reads (`CopiesFollowReads`), that a rule somebody adds is nowhere else
  (`AddedRulesFresh`) and that names are drawn once (`NamesDrawn`): otherwise a write whose copy is up to
  date could still bring back a rule that was removed.
- `OnlyOverwrites`: a step is one of `AtomicRules`, or a write with an outdated copy (`StepAtomic`).
- `SoleCallerIsAtomic`: with one caller a copy is never out of date (`SoleCopyFresh`) and the component
  implements `AtomicRules`.
- `OpenStackNetwork_proofs!TypeCorrect`, `NetworksStayRouted`, `SubnetsStayRouted`, `RemovalsLeaveNothing`.
  The strengthening has `WorkInv`, what a creator has built at each of its positions and that it is the
  only one to do so (`SoleCreator`); `SubnetInv`, that a subnet on its way has the router it was
  promised; and `RemovalInv`: as long as nothing stopped it, somebody still has to remove what is left of a network that is not
  to stay (`Awaited`). `RemovalFacts` says what the calls of a deletion find, `CreateRouterAwaited` that a router made
  while somebody deletes its network is still found or has stopped the deletion, and `AwayStep` that what is gone stays so.
- `AwsSecurityGroup_proofs`: all six properties of interfaces and groups. `TypeInv` adds to the types what a program counter
  says of the frame. `WorkInv`: an interface in the hands of a creator was returned to no user and is in
  the hands of no other creator (`KnownExist`, `SoleCreator`), although users may delete it meanwhile, and what the undo or
  such a deletion leaves at each of its positions is covered by `hit` (`WorkOK`). `OvertakenStep` is the race of the creator's
  attachment with a deletion that saw none. `ToldInv` is why `GroupAsTold` holds: whatever is `due` to a caller has the
  group that caller wants, and nobody was told anything newer of it (`DueOK`, `FreshOK`), so that two
  loops of `Attach` that overlap may each report success only for what the other has not written since.
  `RuleInv`: an identifier is the rule it was made from, or that rule without its CIDR (`IdOK`).
- `AwsVolume_proofs`: `TypeCorrect`, `LeaksExplained`, `AttachmentsStay`, `RatesKept`. The first two of the
  properties need what a frame says of its volume and that a volume on its way exists or was deleted. `RatesKept` is
  arithmetic, for all sizes, operations and rates: with the type the code selects (`TypeSelected`) the rate the
  code reports is below the rate asked for in the two gaps only (`SelectedRate`).
- `OpenStackServer_proofs`: all five properties of servers. `TypeInv` adds what a program counter says of the frame
  (`FrameOK`); `EnterFrame`, `GotoFrame` and `ReturnFrame` show once what a call does to the frames. `ResizeInv`: a
  resize under way has a caller that works on it, or one of `ResizeFaults` cut its work short. `ResizedAsAsked` needs
  `TargetInv` besides: the resize a caller waits for has the flavor that caller wants, unless the caller is
  `overtaken`. `ResizeMove` is what any step does to the resize of a server (as it was, over, or a new one of the
  caller), and both follow from it. `AddressKept` needs `GoneInv`: a caller that deletes an address has deleted its
  server, so that an address still on that server goes with it.
- `Azure_proofs`: all four properties of `AzureServer`. `TypeInv` adds that the interfaces made and to be made are those
  that were asked for. `InterfaceMove` says what a step does to one document: one that a server uses stays, a write keeps
  the agreement with `atomic` unless its copy was outdated, and a document without a server is held by the caller,
  excused, or was loose before. `ReturnedServerWired`, `UpdatesAtomic` and `LeakExplained` together are inductive over
  `TypeInv`.
- `Azure_proofs!RangeTypeCorrect` and `RangeCorrect`, about `IpRange`: for any number of addresses and any lengths, the range is the hosts of
  the block that follow the address. The invariant says that the loop has not left the block.

*Model-checked only*: liveness, which is out of reach of the prover (`DeletionCompletes` of `AwsNetwork` and of
`OpenStackNetwork`, `Terminates`), the three properties the code violates (section 7), and whatever depends on the
instance, as the numbers of states do. Every other property of a run is the statement of a theorem.

## 6. What holds, in words

With any interleaving and the faults of the runs: an AWS or OpenStack network that was returned keeps
its gateway or router and its routes until its deletion; deletions complete, simultaneous ones too
(`DeletionCompletes`); leftovers exist only after one of the failures each property names. On OpenStack a network may be
deleted while its router is being made: the router is then left, and the next deletion of the network removes it
(`NothingLeftBehind`). On AWS a server may be deleted while `Create` completes it, and `Create` then fails or returns a server
that was asked to go. Two of these failures are
inherent to the code: the last read of AWS `CreateNetwork` and of `Create` fails and a complete network
or server is left unknown (`networks.go:48`, `servers.go:245`), and a gateway whose attachment failed is
not found by the undo, which looks for attached gateways. `KeyPairsTemporary` holds for both clouds
because the deletion is deferred before the error of the import is looked at.

An OpenStack server loses its address only to a user who moves it or to a `Delete` that had looked it up before
it moved (`AddressKept`).

A server that Azure `Create` returned has the interfaces it was asked for and shares none, whatever
happens on its subnets meanwhile: Azure decides who gets an interface, and the code reports success
only when it did. What an interface was set to last is another matter: only as long as nobody writes
it from an outdated copy (`UpdatesAtomic`).

An AWS interface has the group that the last success on it told of, however the loops of several callers
overlap. Its undo is weaker: an interface is detached and deleted at once, so that the deletion comes while EC2
is still detaching, is refused, and leaves the interface behind (`LeaksExplained`); the same happens in `Delete`, which reports
success (`ClearedExplained`). It does so too when the creator of an interface attaches it while it is being deleted. A volume stays where its caller was told it is; one whose creation was given up
while EC2 was still making it is left behind, and so is every magnetic one, as `Create` panics. A rule is removed through its identifier: the one a list gives leads back
to its rule, the one `AddSecurityRule` gives to the open rule with the same ports.

## 7. Where the code and its documentation part

Shown by a run:

- AWS `Delete` takes an address off a server it does not delete when the address moved after it was
  listed (`server_addresses`).
- OpenStack `Resize` waits for `RESIZE`, confirms too early, reverts too early, and leaves the resize
  open (`os_server_pending_resize`).
- OpenStack `DeleteSubnet` does not unplug the subnet from its router (`openstack/networks.go:189`), so Neutron refuses:
  a subnet that `CreateSubnet` returned, and therefore its network, cannot be deleted with this library, which
  `tests/network.go:102-117` expects (`os_network_subnets`). The name that test gives its subnet would make `CreateSubnet`
  panic before that, see below.

Found while modelling, without a run of their own:

*AWS*

- `Create` and `Delete` of servers end with an error constructor that never returns nil, so that
  success is reported as an error (`aws/servers.go:246` and `286`). So do `Delete` of security groups and
  `Delete`, `Detach` and `Resize` of volumes; `Get` of a volume reports the volume it finds as an error
  (`aws/volumes.go:175`).
- Reservations never lead to a server (`aws/servers.go:190`), as told in section 3.
- `ListNetworks` calls itself instead of `listNetworks` (`aws/networks.go:152`), and the name of a
  network is looked for by binary search in tags that are not sorted (line 141).
- The list of servers begins with as many empty servers as there are servers: the slice is made with that length and then
  appended to (`aws/servers.go:301`).
- An instance that is shutting down is reported as shut off and one that is terminated as deleted
  (`aws/servers.go:348-365`); a caller that waits for the former may act on a server that is going.
- Interfaces: `Update` with a server looks at the error the wrong way round and never attaches
  (`aws/networkinterfaces.go:209`). `Create` for a server waits for "available", which an attached interface is
  not, so it normally undoes itself. `Update` of an attached interface reports an error for the same reason
  although the group was changed. `Delete` returns nil whatever EC2 answers (line 121; the comment at line 117
  has no error raised only when the removal succeeds), among others when the creator of the interface attached it after
  `Delete` had found no attachment.
- `Create` of a security group loses the cause of its error (`aws/securitygroups.go:98`).
- The identifier `AddSecurityRule` returns is encoded without the CIDR (`aws/securitygroups.go:317-324`), so a removal with it takes the
  rule that is open to all addresses. `tests/volumes.go:119-152` removes a rule that way, which works because the rule
  it added is the open one. `RemoveSecurityRule` ignores the group it is given and takes the one in the identifier.
- A block of IP v4 with a mask of 16 bits is sent to EC2 as IP v6, blocks of IP v6 with another mask as IP v4; both are
  refused. Groups are read back with their incoming rules and the first block of IP v4 of each, so outgoing rules and those for
  IP v6 are never listed (lines 46-65): but for an open outgoing rule no identifier leads back to them, so that `RemoveSecurityRule`,
  of which `aws/securitygroups.go:328` says that it "deletes a security rule", cannot remove them.
- The list of volumes returns nothing (`aws/volumes.go:153`). The number of operations of a volume on
  magnetic disks is nil and dereferenced (line 125): `Create` of such a volume panics after EC2 made it, and nobody is told
  of it (`VolumeLeakExplained` names it). The data rate reported is below the one asked for between 311 and
  358 GiB on gp2 and above 1048 MB/s (`RateKeptOutsideGaps`).

*Azure*

- Two callers of `AddSecurityRule` lose a rule: `ConsistentUnlessRaced` excepts the groups that were written from an
  outdated copy.
- `AddSecurityRule` looks for its rule by comparing the address of the name (line 286), so it adds the rule and
  reports an error, and a caller that tries again adds it twice; `RemoveSecurityRule` compares the name with the
  resource identifier that `Get` reports (lines 121 and 302), so the rule a user lists cannot be removed with what was
  listed; `src/tests/securitygroups.go:76` expects that it can.
- A write of a group that was deleted after the read makes the group again.
- `Create` of a server names its interfaces after the subnet (`azure/servers.go:25`). A second
  server on a subnet replaces the interface of the first: its security group becomes that of the second
  and its public address is taken off, and the second server is then refused.
- Interfaces: an error of `create` or of the last `Get` of `update` is met after the nil interface
  was converted, which panics (`azure/networkinterfaces.go:73` and `131`); the error of the wait in
  `update` is overwritten (line 208), so an update that failed is reported as done.
- `Associate` looks for the tag `server-id`, which interfaces made by `Create` of a server do not
  have, so a server made by this library cannot be given an address unless its interface is made anew
  by hand. `Create` of an address panics after Azure allocated it (`azure/publicaddresses.go:141`), and
  `Dissociate` returns at line 223 in every case, since nothing sets `NetworkInterfaceID`.
- `Attach` of a security group passes the name of the interface as resource group and the reverse
  (`azure/securitygroups.go:206`), which Azure refuses.
- `GetNetwork` dereferences the tag "cidr" of networks that have none (`azure/networks.go:83`), and
  `ListSubnets` gives the name of the network as the identifier of each subnet (line 130).

*OpenStack*

- `Create` never returns its server: `Get` returns a non-nil error with the server, the wait
  takes it for a failure, and the code after it returns an error in every case.
- `CreateSubnet` looks for its router by the name of the subnet, finds none and dereferences
  nil after the subnet was created (`openstack/networks.go:171`); `CreateSub` has it as a step.
- `Delete` deletes the floating address of the server, even when it moved to another server
  after it was looked up (`openstack/servers.go:116`).
- Concurrent `Resize` calls: one may confirm or revert the resize of the other
  (lines 216 and 234); `ResizedAsAsked` says so with `overtaken`.
- A network that is deleted between the two calls of `CreateNetwork` leaves its router (`openstack/networks.go:29`); its creator is
  told of a network that is gone. The tests do nothing of the kind.
- `tests/server.go:176-179` expects the address of a server to survive it; `openstack/servers.go:116` deletes it with the
  server.
- `Update` of an interface calls itself (`openstack/networkinterfaces.go:144`), and the lists of addresses and of
  interfaces call each other: none of them returns. `Associate` takes the first of the selected ports without
  looking whether there is one.
- The name of a group is split with the arguments of `strings.Split` swapped (`openstack/securitygroups.go:19`), so that
  creating, listing or reading a group panics, creating it after the group was made. `Attach` of a group ignores the errors of its updates and always returns
  an error. `Detach` of a volume dereferences nil.

*IP ranges*: for blocks of one and two addresses the last address of the range is below the first, and the first may be
outside the block. `add` writes the bytes of the sum into a buffer that is not
cleared, so that the successor of an address of IP v6 below 2^40 has ones in the place of zeros.

## 8. Not modelled

Listed as `not_modelled` in `PROJECT.json`: Azure networks, where each
operation is one call and nothing happens between two; images, templates and providers, which only
read or initialise; SSH, which is I/O. Of OpenStack, the ports, groups, volumes and the rest of the addresses:
what returns at all is one call each, and the rest recurses without end or panics (section 7), so there is no
behaviour between two calls to check. Within modelled parts: conversions and wording of errors, CIDR
blocks and names except where they identify something, AWS `Resize` of servers, which sends an empty request, `Update`
of an AWS interface with a server, which never changes anything, IP v6 in `GetRange`, and
methods that only read, unless another method uses what they read.

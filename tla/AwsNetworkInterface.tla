------------------------ MODULE AwsNetworkInterface -------------------------
(***************************************************************************)
(* NetworkInterfaceManager of the AWS provider                             *)
(* (providers/aws/networkinterfaces.go).  AwsSecurityGroup extends this    *)
(* module with the groups, which are put on interfaces too, and completes  *)
(* the specification.                                                      *)
(*                                                                         *)
(* As in AwsNetwork a caller is a small stack frame, one action is one     *)
(* call to EC2, and an answer is "ok", "refused", "fail" or "lost".  Only  *)
(* "fail" and "lost" are charged to faults; hit[x] remembers what went     *)
(* wrong for interface or group x.  Waiters give up at any time.           *)
(*                                                                         *)
(* EC2 attaches and detaches in the background, lets nobody detach the     *)
(* interface a server was launched with, and deletes no interface that is  *)
(* attached, attaching or detaching.                                       *)
(*                                                                         *)
(* List hands out every interface that exists, also one that another       *)
(* caller is still creating: users delete and update whichever they find.  *)
(*                                                                         *)
(* Update with a ServerID is left out: networkinterfaces.go:209 reports an *)
(* interface that EC2 finds as not found, and nothing is ever changed.     *)
(***************************************************************************)
EXTENDS Naturals, FiniteSets

CONSTANTS Callers,     \* concurrent users of the library
          Interfaces,  \* identifiers EC2 can hand out for interfaces
          Launched,    \* interfaces that servers were launched with
          Servers,     \* running servers
          Groups,      \* identifiers EC2 can hand out for security groups
          Default,     \* the group every network has
          MaxFaults,   \* bound on injected faults
          None

ASSUME MaxFaultsAssumption == MaxFaults \in Nat
ASSUME LaunchedAssumption == Launched \subseteq Interfaces
ASSUME DefaultAssumption == Default \in Groups
ASSUME DistinctAssumption == Interfaces \cap Groups = {}
ASSUME NoneAssumption == None \notin Interfaces \cup Servers \cup Groups

VARIABLES status, server, group,      \* EC2: interfaces, where they are and the group they have
          gstate,                     \* EC2: security groups
          pc, op, nic, want, todo,    \* the callers
          due,                        \* interfaces that have group want[c] when the call succeeds
          known, told, cleared,       \* what callers were told: interfaces, groups, deletions
          knownGroups,                \* the groups Create returned
          faults, hit

interfaceVars == <<status, server, group>>
frameVars == <<op, nic, want, todo, due>>
userVars  == <<known, told, cleared>>
faultVars == <<faults, hit>>

CreateCalls == {"WaitCreated", "AttachCreated", "WaitAttached", "DetachCreated", "DeleteCreated",
                "GetCreated"}
RemovalCalls == {"Describe", "Detach", "Delete"}
GroupCalls   == {"WaitUpdated", "Modify", "GetGroup"}
Causes == CreateCalls \cup RemovalCalls \cup {"CreateInterface", "Detaching", "Primary", "Overtaken"}
            \cup {"CreateGroup", "GetGroup"}

\* A status with an attachment
Plugged == {"attaching", "in-use", "detaching"}

InterfaceType ==
  /\ status \in [Interfaces -> Plugged \cup {"none", "available", "gone"}]
  /\ server \in [Interfaces -> Servers \cup {None}]
  /\ group \in [Interfaces -> Groups \cup {None}]
  /\ gstate \in [Groups -> {"none", "live", "gone"}]

FrameType ==
  /\ pc \in [Callers -> CreateCalls \cup RemovalCalls \cup GroupCalls \cup {"idle"}]
  /\ op \in [Callers -> {"none", "Create", "Delete", "Update", "Attach", "CreateGroup"}]
  /\ nic \in [Callers -> Interfaces \cup {None}]
  /\ want \in [Callers -> Groups \cup {None}]
  /\ todo \in [Callers -> SUBSET Interfaces]
  /\ due \in [Callers -> SUBSET Interfaces]

UserType ==
  /\ known \in SUBSET Interfaces /\ cleared \in SUBSET Interfaces
  /\ told \in [Interfaces -> Groups \cup {None}]
  /\ knownGroups \in SUBSET Groups

FaultType == faults \in 0 .. MaxFaults /\ hit \in [Interfaces \cup Groups -> SUBSET Causes]

\* The interfaces servers were launched with have the default group.
InterfaceInit ==
  /\ status = [n \in Interfaces |-> IF n \in Launched THEN "in-use" ELSE "none"]
  /\ server \in {f \in [Interfaces -> Servers \cup {None}] :
                   \A n \in Interfaces : n \in Launched <=> f[n] # None}
  /\ group = [n \in Interfaces |-> IF n \in Launched THEN Default ELSE None]
  /\ gstate = [g \in Groups |-> IF g = Default THEN "live" ELSE "none"]
  /\ pc = [c \in Callers |-> "idle"] /\ op = [c \in Callers |-> "none"]
  /\ nic = [c \in Callers |-> None] /\ want = [c \in Callers |-> None]
  /\ todo = [c \in Callers |-> {}] /\ due = [c \in Callers |-> {}]
  /\ known = Launched /\ cleared = {}
  /\ told = [n \in Interfaces |-> None]
  /\ knownGroups = {Default}
  /\ faults = 0
  /\ hit = [x \in Interfaces \cup Groups |-> {}]

-----------------------------------------------------------------------------
\* Answers of EC2, what they cost, and the frame

Answers(pre) == IF pre THEN {"ok", "fail", "lost"} ELSE {"refused"}
ReadAnswers  == {"ok", "fail"}
Applied(a)   == a \in {"ok", "lost"}

Note(x, cause) == hit' = [hit EXCEPT ![x] = @ \cup {cause}]

Spend(a) == IF a \in {"fail", "lost"} THEN faults < MaxFaults /\ faults' = faults + 1
                                      ELSE UNCHANGED faults

Charge(a, x, cause) ==
  Spend(a) /\ IF a \in {"fail", "lost"} THEN Note(x, cause) ELSE UNCHANGED hit

\* A fault that leaves nothing behind is not noted.
Tolerate(a) == Spend(a) /\ UNCHANGED hit

Goto(c, call) == pc' = [pc EXCEPT ![c] = call]

Proceed(c, call) == Goto(c, call) /\ UNCHANGED frameVars

Leave(c) ==
  /\ Goto(c, "idle")
  /\ op' = [op EXCEPT ![c] = "none"]
  /\ nic' = [nic EXCEPT ![c] = None]
  /\ want' = [want EXCEPT ![c] = None]
  /\ todo' = [todo EXCEPT ![c] = {}]

Return(c) == Leave(c) /\ due' = [due EXCEPT ![c] = {}]

\* The interfaces in nics now have the group the caller asked for, as far as it is told.
Report(c, nics) == told' = [n \in Interfaces |-> IF n \in nics THEN want[c] ELSE told[n]]

Exists(n) == status[n] \notin {"none", "gone"}

-----------------------------------------------------------------------------
\* Create

CreateInterface(c) ==
  /\ pc[c] = "idle"
  /\ \E n \in Interfaces, s \in Servers \cup {None}, g \in Groups, a \in {"ok", "lost"} :
       /\ status[n] = "none" /\ gstate[g] = "live"
       /\ status' = [status EXCEPT ![n] = "available"]
       /\ group' = [group EXCEPT ![n] = g]
       /\ Charge(a, n, "CreateInterface")
       /\ IF a = "ok"
          THEN /\ Goto(c, IF s = None THEN "WaitCreated" ELSE "AttachCreated")
               /\ op' = [op EXCEPT ![c] = "Create"]
               /\ nic' = [nic EXCEPT ![c] = n]
               /\ want' = [want EXCEPT ![c] = g]
               /\ due' = [due EXCEPT ![c] = {n}]
               /\ UNCHANGED todo
          ELSE Return(c)
  /\ UNCHANGED <<server, gstate, userVars, knownGroups>>

\* WaitUntilNetworkInterfaceAvailable; an error is followed by the method Delete.
WaitCreated(c) ==
  /\ pc[c] = "WaitCreated"
  /\ \/ status[nic[c]] = "available" /\ Proceed(c, "GetCreated")
     \/ Proceed(c, "Describe")
  /\ UNCHANGED <<interfaceVars, gstate, userVars, knownGroups, faultVars>>

\* Somebody who found interface n in the list without an attachment is about to delete it.
BeingDeleted(n) == \E d \in Callers : pc[d] = "Delete" /\ nic[d] = n

AttachCauses(n, a) == {x \in {"AttachCreated", "Overtaken"} :
                         \/ x = "AttachCreated" /\ a \in {"fail", "lost"}
                         \/ x = "Overtaken" /\ Applied(a) /\ BeingDeleted(n)}

\* The server the interface is made for is named here, where it is first used.  EC2 also refuses
\* when it takes no more interfaces.  hit remembers that the attachment overtook a deletion.
AttachCreated(c) ==
  /\ pc[c] = "AttachCreated"
  /\ \E a \in Answers(status[nic[c]] = "available") \cup {"refused"}, s \in Servers :
       /\ IF Applied(a) THEN /\ status' = [status EXCEPT ![nic[c]] = "attaching"]
                             /\ server' = [server EXCEPT ![nic[c]] = s]
                        ELSE UNCHANGED <<status, server>>
       /\ hit' = [hit EXCEPT ![nic[c]] = @ \cup AttachCauses(nic[c], a)]
       /\ Spend(a)
       /\ Proceed(c, IF a = "ok" THEN "WaitAttached" ELSE "DeleteCreated")
  /\ UNCHANGED <<group, gstate, userVars, knownGroups>>

\* A faulty WaitAttached: the interface is deleted while it is still attached.
WaitAttachedOrDelete(c) ==
  /\ pc[c] = "WaitAttached"
  /\ \/ status[nic[c]] \in {"available", "attaching"} /\ Proceed(c, "GetCreated")
     \/ Proceed(c, "DeleteCreated")
  /\ UNCHANGED <<interfaceVars, gstate, userVars, knownGroups, faultVars>>

\* It waits for "available", which an attached interface is not: it goes on only if the answer
\* of EC2 is older than the attachment.
WaitAttached(c) ==
  /\ pc[c] = "WaitAttached"
  /\ \/ status[nic[c]] \in {"available", "attaching"} /\ Proceed(c, "GetCreated")
     \/ Proceed(c, "DetachCreated")
  /\ UNCHANGED <<interfaceVars, gstate, userVars, knownGroups, faultVars>>

CanDetach(n) == status[n] \in {"attaching", "in-use"} /\ n \notin Launched

\* DetachNetworkInterface, then the next call whatever EC2 answers
DetachThen(c, name, next) ==
  /\ pc[c] = name
  /\ \E a \in Answers(CanDetach(nic[c])) :
       /\ Charge(a, nic[c], name)
       /\ status' = IF Applied(a) THEN [status EXCEPT ![nic[c]] = "detaching"] ELSE status
  /\ Proceed(c, next)
  /\ UNCHANGED <<server, group, gstate, userVars, knownGroups>>

DetachCreated(c) == DetachThen(c, "DetachCreated", "DeleteCreated")

\* DeleteNetworkInterface.  hit remembers which rule of EC2 was in the way.
RemoveInterface(n, name) ==
  \E a \in Answers(status[n] = "available") :
    /\ \/ a = "refused" /\ status[n] = "detaching" /\ Note(n, "Detaching") /\ UNCHANGED faults
       \/ a = "refused" /\ n \in Launched /\ Note(n, "Primary") /\ UNCHANGED faults
       \/ ~(a = "refused" /\ (status[n] = "detaching" \/ n \in Launched)) /\ Charge(a, n, name)
    /\ status' = IF Applied(a) THEN [status EXCEPT ![n] = "gone"] ELSE status

DeleteCreated(c) ==
  /\ pc[c] = "DeleteCreated"
  /\ RemoveInterface(nic[c], "DeleteCreated")
  /\ Return(c)
  /\ UNCHANGED <<server, group, gstate, userVars, knownGroups>>

\* The last read hands the interface to the caller.  When it fails nothing is undone.
GetCreated(c) ==
  /\ pc[c] = "GetCreated"
  /\ \E a \in ReadAnswers :
       /\ Charge(a, nic[c], "GetCreated")
       /\ IF a = "ok" /\ Exists(nic[c]) THEN known' = known \cup {nic[c]} /\ Report(c, due[c])
                                        ELSE UNCHANGED <<known, told>>
  /\ Return(c)
  /\ UNCHANGED <<interfaceVars, gstate, cleared, knownGroups>>

-----------------------------------------------------------------------------
\* Delete, called by a user or to undo Create.  The user is told of success in every case in
\* which the interface was found (line 121).

DeleteInterface(c) ==
  /\ pc[c] = "idle"
  /\ \E n \in Interfaces : Exists(n) /\ nic' = [nic EXCEPT ![c] = n]
  /\ op' = [op EXCEPT ![c] = "Delete"]
  /\ Goto(c, "Describe")
  /\ UNCHANGED <<interfaceVars, gstate, want, todo, due, userVars, knownGroups, faultVars>>

\* A faulty Describe: the attachment is not looked at.
DescribeOnly(c) ==
  /\ pc[c] = "Describe"
  /\ \E a \in ReadAnswers :
       /\ Charge(a, nic[c], "Describe")
       /\ IF a = "ok" /\ Exists(nic[c]) THEN Proceed(c, "Delete") ELSE Return(c)
  /\ UNCHANGED <<interfaceVars, gstate, userVars, knownGroups>>

Describe(c) ==
  /\ pc[c] = "Describe"
  /\ \E a \in ReadAnswers :
       /\ Charge(a, nic[c], "Describe")
       /\ IF a = "ok" /\ Exists(nic[c])
          THEN Proceed(c, IF status[nic[c]] \in Plugged THEN "Detach" ELSE "Delete")
          ELSE Return(c)
  /\ UNCHANGED <<interfaceVars, gstate, userVars, knownGroups>>

Detach(c) == DetachThen(c, "Detach", "Delete")

Delete(c) ==
  /\ pc[c] = "Delete"
  /\ RemoveInterface(nic[c], "Delete")
  /\ cleared' = IF op[c] = "Delete" THEN cleared \cup {nic[c]} ELSE cleared
  /\ Return(c)
  /\ UNCHANGED <<server, group, gstate, known, told, knownGroups>>

-----------------------------------------------------------------------------
\* Groups of interfaces: Update with a group, and ModifyNetworkInterfaceAttribute

\* Interface n gets group g from caller c: what others were told or will be told of it is void.
SetGroup(c, n, g) ==
  /\ group' = [group EXCEPT ![n] = g]
  /\ due' = [d \in Callers |-> IF d = c THEN due[d] \cup {n} ELSE due[d] \ {n}]

UpdateGroup(c) ==
  /\ pc[c] = "idle"
  /\ \E n \in Interfaces, g \in Groups, a \in {"ok", "lost"} :
       /\ Exists(n) /\ gstate[g] = "live"
       /\ group' = [group EXCEPT ![n] = g]
       /\ due' = [d \in Callers |-> IF d = c THEN (IF a = "ok" THEN {n} ELSE {}) ELSE due[d] \ {n}]
       /\ told' = [told EXCEPT ![n] = None]
       /\ Tolerate(a)
       /\ IF a = "ok" THEN /\ Goto(c, "WaitUpdated")
                           /\ op' = [op EXCEPT ![c] = "Update"]
                           /\ nic' = [nic EXCEPT ![c] = n]
                           /\ want' = [want EXCEPT ![c] = g]
                           /\ UNCHANGED todo
                      ELSE Leave(c)
  /\ UNCHANGED <<status, server, gstate, known, cleared, knownGroups>>

\* The interface has its new group whether or not the wait succeeds; an attached one makes it
\* fail.
WaitUpdated(c) ==
  /\ pc[c] = "WaitUpdated"
  /\ \/ status[nic[c]] = "available" /\ Report(c, due[c])
     \/ UNCHANGED told
  /\ Return(c)
  /\ UNCHANGED <<interfaceVars, gstate, known, cleared, knownGroups, faultVars>>

-----------------------------------------------------------------------------
\* What EC2 does in the background

FinishAttach(n) == status[n] = "attaching" /\ status' = [status EXCEPT ![n] = "in-use"]
                   /\ UNCHANGED server

FinishDetach(n) == status[n] = "detaching" /\ status' = [status EXCEPT ![n] = "available"]
                   /\ server' = [server EXCEPT ![n] = None]

Background == /\ \E n \in Interfaces : FinishAttach(n) \/ FinishDetach(n)
              /\ UNCHANGED <<group, gstate, pc, frameVars, userVars, knownGroups, faultVars>>

InterfaceNext(c) ==
  \/ CreateInterface(c) \/ WaitCreated(c) \/ AttachCreated(c) \/ WaitAttached(c)
  \/ DetachCreated(c) \/ DeleteCreated(c) \/ GetCreated(c)
  \/ DeleteInterface(c) \/ Describe(c) \/ Detach(c) \/ Delete(c)
  \/ UpdateGroup(c) \/ WaitUpdated(c)

=============================================================================

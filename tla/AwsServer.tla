----------------------------- MODULE AwsServer -----------------------------
(***************************************************************************)
(* ServerManager of the AWS provider (providers/aws/servers.go) with the   *)
(* key pairs and the public addresses it uses (keypairs.go and             *)
(* publicaddresses.go).                                                    *)
(*                                                                         *)
(* A call of Create is identified by the name of its temporary key pair, a *)
(* fresh uuid; the spot request and the reservation it makes carry the     *)
(* same identifier.  As in AwsNetwork a caller is a small stack frame and  *)
(* one action is one call to EC2: it may answer "ok", be "refused" by EC2, *)
(* "fail" (nothing was done) or get "lost" (it was done, the caller sees   *)
(* an error).  At most MaxFaults answers fail or get lost.  Waiters are    *)
(* not charged: they may give up at any time.  hit[k] remembers the faults *)
(* of call k, and that its wait for a spot request was given up.           *)
(*                                                                         *)
(* Users delete any instance they list, one that Create still works on     *)
(* included; they start, stop and associate the servers they were given.   *)
(*                                                                         *)
(* Create with both spot and reserved options returns at once, and Resize  *)
(* sends an empty request: neither changes anything and both are left out. *)
(***************************************************************************)
EXTENDS Naturals, FiniteSets

CONSTANTS Callers,    \* concurrent users of the library
          Keys,       \* uuids: one per call of Create
          Instances,  \* identifiers EC2 can hand out for instances
          Addresses,  \* elastic addresses the users have
          MaxFaults,  \* bound on injected faults
          None

ASSUME MaxFaultsAssumption == MaxFaults \in Nat
ASSUME NoneAssumption == None \notin Keys \cup Instances \cup Addresses

VARIABLES keys, used,                  \* EC2: key pairs; uuids drawn so far
          inst, made, tagged, grouped, \* EC2: instances, the call each comes from
          request, filled, bought,     \* EC2: spot requests and what fills them, reservations
          addrOf,                      \* EC2: the instance an address is associated with
          pc, call, cur, todo, seen,   \* the callers
          known, doomed,               \* what callers were told, what they asked to delete
          robbed,                      \* servers that lost an address to the deletion of another
          faults, hit

keyVars      == <<keys, used>>
instanceVars == <<inst, made, tagged, grouped>>
marketVars   == <<request, filled, bought>>
deleteVars   == <<todo, seen>>
frameVars    == <<call, cur, deleteVars>>
userVars     == <<known, doomed, robbed>>
faultVars    == <<faults, hit>>
vars == <<keyVars, instanceVars, marketVars, addrOf, pc, frameVars, userVars, faultVars>>

CreateCalls == {"ImportKey", "RunInstances", "RequestSpot", "WaitSpot", "CancelSpot", "DescribeSpot",
                "FindOffering", "Purchase", "WaitStatus", "TagInstance", "ModifyGroups", "WaitGroups",
                "WaitStatusAgain", "GetInstance", "DeleteKey"}
DeleteCalls == {"ListAddresses", "GetAddress", "Disassociate", "Terminate", "WaitTerminated"}
AddressCalls == {"FindInterface", "AssociateAddress"}
EC2Calls == CreateCalls \cup DeleteCalls \cup AddressCalls
Causes   == EC2Calls \cup {"Reclaim", "StopInstances", "StartInstances"}

Up == {"pending", "running", "stopped"}

\* Types.  Key pairs, instances, requests and addresses are all strings in servers.go: none is
\* used for another.
TypeOK ==
  /\ keys \in SUBSET Keys /\ used \in SUBSET Keys
  /\ inst \in [Instances -> Up \cup {"none", "shutting-down", "terminated"}]
  /\ made \in [Instances -> Keys \cup {None}]
  /\ tagged \in SUBSET Instances /\ grouped \in SUBSET Instances
  /\ request \in [Keys -> {"none", "open", "filled", "cancelled"}]
  /\ filled \in [Keys -> Instances \cup {None}]
  /\ bought \in SUBSET Keys
  /\ addrOf \in [Addresses -> Instances \cup {None}]
  /\ pc \in [Callers -> EC2Calls \cup {"idle"}]
  /\ call \in [Callers -> Keys \cup {None}]
  /\ cur \in [Callers -> Instances \cup {None}]
  /\ todo \in [Callers -> SUBSET Addresses]
  /\ seen \in [Callers -> (Addresses \X (Instances \cup {None})) \cup {None}]
  /\ known \in SUBSET Instances /\ doomed \in SUBSET Instances /\ robbed \in SUBSET Instances
  /\ faults \in 0 .. MaxFaults
  /\ hit \in [Keys -> SUBSET Causes]

Init ==
  /\ keys = {} /\ used = {}
  /\ inst = [i \in Instances |-> "none"]
  /\ made = [i \in Instances |-> None]
  /\ tagged = {} /\ grouped = {}
  /\ request = [k \in Keys |-> "none"]
  /\ filled = [k \in Keys |-> None]
  /\ bought = {}
  /\ addrOf = [a \in Addresses |-> None]
  /\ pc = [c \in Callers |-> "idle"]
  /\ call = [c \in Callers |-> None]
  /\ cur = [c \in Callers |-> None]
  /\ todo = [c \in Callers |-> {}]
  /\ seen = [c \in Callers |-> None]
  /\ known = {} /\ doomed = {} /\ robbed = {}
  /\ faults = 0
  /\ hit = [k \in Keys |-> {}]

-----------------------------------------------------------------------------
\* Answers of EC2, and the call of Create they are charged to.

Answers(pre) == IF pre THEN {"ok", "fail", "lost"} ELSE {"refused"}
ReadAnswers  == {"ok", "fail"}
Applied(a)   == a \in {"ok", "lost"}

Note(k, cause) == hit' = [hit EXCEPT ![k] = @ \cup {cause}]

Charge(a, k, cause) ==
  IF a \in {"fail", "lost"}
  THEN faults < MaxFaults /\ faults' = faults + 1 /\ Note(k, cause)
  ELSE UNCHANGED faultVars

Origin(c) == IF call[c] # None THEN call[c] ELSE made[cur[c]]

Goto(c, next) == pc' = [pc EXCEPT ![c] = next]

\* The next call, in the same frame, of a method that returns nothing yet.
Proceed(c, next) == Goto(c, next) /\ UNCHANGED frameVars

IsUp(i) == i # None /\ inst[i] \in Up

-----------------------------------------------------------------------------
\* Create: the key pair, then one of three ways to get an instance

\* The values Create returns are set before the deferred deletion of the key pair runs.
ReturnFromCreate(c, server) ==
  /\ Goto(c, "DeleteKey")
  /\ cur' = [cur EXCEPT ![c] = server]
  /\ UNCHANGED <<call, deleteVars>>

Fail(c) == ReturnFromCreate(c, None)

Create(c) ==
  /\ pc[c] = "idle"
  /\ \E k \in Keys \ used : /\ used' = used \cup {k}
                            /\ call' = [call EXCEPT ![c] = k]
  /\ Goto(c, "ImportKey")
  /\ UNCHANGED <<keys, instanceVars, marketVars, addrOf, cur, deleteVars, userVars, faultVars>>

\* A faulty ImportKey: the deletion is deferred after the test of the error.
ImportThenDefer(c) ==
  /\ pc[c] = "ImportKey"
  /\ \E a \in Answers(TRUE) :
       /\ Charge(a, call[c], "ImportKey")
       /\ keys' = IF Applied(a) THEN keys \cup {call[c]} ELSE keys
       /\ IF a = "ok" THEN \E next \in {"RunInstances", "RequestSpot", "FindOffering"} : Proceed(c, next)
                      ELSE Goto(c, "idle") /\ call' = [call EXCEPT ![c] = None]
                           /\ UNCHANGED <<cur, deleteVars>>
  /\ UNCHANGED <<used, instanceVars, marketVars, addrOf, userVars>>

ImportKey(c) ==
  /\ pc[c] = "ImportKey"
  /\ \E a \in Answers(TRUE) :
       /\ Charge(a, call[c], "ImportKey")
       /\ keys' = IF Applied(a) THEN keys \cup {call[c]} ELSE keys
       /\ IF a = "ok" THEN \E next \in {"RunInstances", "RequestSpot", "FindOffering"} : Proceed(c, next)
                      ELSE Fail(c)
  /\ UNCHANGED <<used, instanceVars, marketVars, addrOf, userVars>>

Launch(i, k) == /\ inst[i] = "none"
                /\ inst' = [inst EXCEPT ![i] = "pending"]
                /\ made' = [made EXCEPT ![i] = k]

\* EC2 refuses when it has no capacity.
RunInstances(c) ==
  /\ pc[c] = "RunInstances"
  /\ \/ \E a \in {"ok", "lost"}, i \in Instances :
          /\ Charge(a, call[c], "RunInstances")
          /\ Launch(i, call[c])
          /\ IF a = "ok" THEN /\ Goto(c, "WaitStatus")
                              /\ cur' = [cur EXCEPT ![c] = i]
                              /\ UNCHANGED <<call, deleteVars>>
                         ELSE Fail(c)
     \/ \E a \in {"refused", "fail"} :
          /\ Charge(a, call[c], "RunInstances")
          /\ Fail(c)
          /\ UNCHANGED <<inst, made>>
  /\ UNCHANGED <<keyVars, tagged, grouped, marketVars, addrOf, userVars>>

RequestSpot(c) ==
  /\ pc[c] = "RequestSpot"
  /\ \E a \in Answers(TRUE) :
       /\ Charge(a, call[c], "RequestSpot")
       /\ request' = IF Applied(a) THEN [request EXCEPT ![call[c]] = "open"] ELSE request
       /\ IF a = "ok" THEN Proceed(c, "WaitSpot") ELSE Fail(c)
  /\ UNCHANGED <<keyVars, instanceVars, filled, bought, addrOf, userVars>>

\* The waiter polls: it may give up although the request is filled since its last poll.
WaitSpot(c) ==
  /\ pc[c] = "WaitSpot"
  /\ \/ /\ request[call[c]] = "filled"
        /\ Proceed(c, "DescribeSpot")
        /\ UNCHANGED hit
     \/ /\ Note(call[c], "WaitSpot")
        /\ Proceed(c, "CancelSpot")
  /\ UNCHANGED <<keyVars, instanceVars, marketVars, addrOf, userVars, faults>>

\* The answer is discarded.  Cancelling a filled request leaves its instance running.
CancelSpot(c) ==
  /\ pc[c] = "CancelSpot"
  /\ \E a \in Answers(request[call[c]] = "open") :
       /\ Charge(a, call[c], "CancelSpot")
       /\ request' = IF Applied(a) THEN [request EXCEPT ![call[c]] = "cancelled"] ELSE request
  /\ Fail(c)
  /\ UNCHANGED <<keyVars, instanceVars, filled, bought, addrOf, userVars>>

DescribeSpot(c) ==
  /\ pc[c] = "DescribeSpot"
  /\ \E a \in ReadAnswers :
       /\ Charge(a, call[c], "DescribeSpot")
       /\ IF a = "ok" THEN /\ Goto(c, "WaitStatus")
                           /\ cur' = [cur EXCEPT ![c] = filled[call[c]]]
                           /\ UNCHANGED <<call, deleteVars>>
                      ELSE Fail(c)
  /\ UNCHANGED <<keyVars, instanceVars, marketVars, addrOf, userVars>>

\* The template and the offerings are read; there may be no offering.
FindOffering(c) ==
  /\ pc[c] = "FindOffering"
  /\ \E a \in ReadAnswers :
       /\ Charge(a, call[c], "FindOffering")
       /\ (a = "ok" /\ Proceed(c, "Purchase")) \/ Fail(c)
  /\ UNCHANGED <<keyVars, instanceVars, marketVars, addrOf, userVars>>

\* The identifier of the reservation is used as the one of an instance: cur stays None,
\* which is the identifier of no instance.
Purchase(c) ==
  /\ pc[c] = "Purchase"
  /\ \E a \in Answers(TRUE) :
       /\ Charge(a, call[c], "Purchase")
       /\ bought' = IF Applied(a) THEN bought \cup {call[c]} ELSE bought
       /\ IF a = "ok" THEN Proceed(c, "WaitStatus") ELSE Fail(c)
  /\ UNCHANGED <<keyVars, instanceVars, request, filled, addrOf, userVars>>

-----------------------------------------------------------------------------
\* Create: the instance is completed, or deleted

Rollback(c) == Proceed(c, "ListAddresses")

\* WaitUntilInstanceStatusOk.  It gives up at any time, on a running instance too: a poll fails, the
\* time is over, or the status of the instance stays impaired.  That excuses nothing.
WaitOk(c, name, next) ==
  /\ pc[c] = name
  /\ \/ cur[c] # None /\ inst[cur[c]] = "running" /\ Proceed(c, next)
     \/ Rollback(c)
  /\ UNCHANGED <<keyVars, instanceVars, marketVars, addrOf, userVars, faultVars>>

WaitStatus(c)      == WaitOk(c, "WaitStatus", "TagInstance")
WaitGroups(c)      == WaitOk(c, "WaitGroups", "WaitStatusAgain")
WaitStatusAgain(c) == WaitOk(c, "WaitStatusAgain", "GetInstance")

\* Two faulty TagInstance: an error returns without the deletion, or is discarded.
TagOrFail(c) ==
  /\ pc[c] = "TagInstance"
  /\ \E a \in Answers(TRUE) :
       /\ Charge(a, call[c], "TagInstance")
       /\ tagged' = IF Applied(a) THEN tagged \cup {cur[c]} ELSE tagged
       /\ IF a = "ok" THEN Proceed(c, "ModifyGroups") ELSE Fail(c)
  /\ UNCHANGED <<keyVars, inst, made, grouped, marketVars, addrOf, userVars>>

TagErrorDiscarded(c) ==
  /\ pc[c] = "TagInstance"
  /\ \E a \in Answers(TRUE) :
       /\ Charge(a, call[c], "TagInstance")
       /\ tagged' = IF Applied(a) THEN tagged \cup {cur[c]} ELSE tagged
  /\ Proceed(c, "ModifyGroups")
  /\ UNCHANGED <<keyVars, inst, made, grouped, marketVars, addrOf, userVars>>

TagInstance(c) ==
  /\ pc[c] = "TagInstance"
  /\ \E a \in Answers(TRUE) :
       /\ Charge(a, call[c], "TagInstance")
       /\ tagged' = IF Applied(a) THEN tagged \cup {cur[c]} ELSE tagged
       /\ IF a = "ok" THEN Proceed(c, "ModifyGroups") ELSE Rollback(c)
  /\ UNCHANGED <<keyVars, inst, made, grouped, marketVars, addrOf, userVars>>

\* The error of ModifyInstanceAttribute is overwritten by the one of the waiter.  When no group was
\* asked for there is nothing to set and nothing to wait for.
ModifyGroups(c) ==
  /\ pc[c] = "ModifyGroups"
  /\ \/ /\ \E a \in Answers(IsUp(cur[c])) :
             /\ Charge(a, call[c], "ModifyGroups")
             /\ grouped' = IF Applied(a) THEN grouped \cup {cur[c]} ELSE grouped
        /\ Proceed(c, "WaitGroups")
     \/ /\ grouped' = grouped \cup {cur[c]}
        /\ UNCHANGED faultVars
        /\ Proceed(c, "WaitStatusAgain")
  /\ UNCHANGED <<keyVars, inst, made, tagged, marketVars, addrOf, userVars>>

GetInstance(c) ==
  /\ pc[c] = "GetInstance"
  /\ \E a \in ReadAnswers :
       /\ Charge(a, call[c], "GetInstance")
       /\ IF a = "ok" THEN ReturnFromCreate(c, cur[c]) ELSE Fail(c)
  /\ UNCHANGED <<keyVars, instanceVars, marketVars, addrOf, userVars>>

\* The deferred deletion, whose answer is discarded, ends every call of Create.
DeleteKey(c) ==
  /\ pc[c] = "DeleteKey"
  /\ \E a \in Answers(TRUE) :
       /\ Charge(a, call[c], "DeleteKey")
       /\ keys' = IF Applied(a) THEN keys \ {call[c]} ELSE keys
  /\ Goto(c, "idle")
  /\ known' = known \cup ({cur[c]} \ {None})
  /\ call' = [call EXCEPT ![c] = None]
  /\ cur' = [cur EXCEPT ![c] = None]
  /\ UNCHANGED <<used, instanceVars, marketVars, addrOf, deleteVars, doomed, robbed>>

-----------------------------------------------------------------------------
\* Delete, called by a user or by Create: the addresses are listed once, then taken off one
\* by one through whatever association each has by then, then the instance is terminated.

Delete(c) ==
  /\ pc[c] = "idle"
  /\ \E i \in Instances : /\ inst[i] # "none"
                          /\ cur' = [cur EXCEPT ![c] = i]
                          /\ doomed' = doomed \cup {i}
  /\ Goto(c, "ListAddresses")
  /\ UNCHANGED <<keyVars, instanceVars, marketVars, addrOf, call, deleteVars, known, robbed, faultVars>>

ReturnFromDelete(c) ==
  IF call[c] # None THEN Fail(c)
  ELSE /\ Goto(c, "idle")
       /\ cur' = [cur EXCEPT ![c] = None]
       /\ UNCHANGED <<call, deleteVars>>

ListAddresses(c) ==
  /\ pc[c] = "ListAddresses"
  /\ \E a \in ReadAnswers :
       /\ Charge(a, Origin(c), "ListAddresses")
       /\ IF a = "ok"
          THEN LET found == {x \in Addresses : addrOf[x] # None /\ addrOf[x] = cur[c]} IN
               /\ todo' = [todo EXCEPT ![c] = found]
               /\ Goto(c, IF found = {} THEN "Terminate" ELSE "GetAddress")
               /\ UNCHANGED <<call, cur, seen>>
          ELSE ReturnFromDelete(c)
  /\ UNCHANGED <<keyVars, instanceVars, marketVars, addrOf, userVars>>

\* Both calls of Dissociate may fail: Delete goes on to the next address.
Skip(c, x) ==
  /\ todo' = [todo EXCEPT ![c] = @ \ {x}]
  /\ seen' = [seen EXCEPT ![c] = None]
  /\ Goto(c, IF todo[c] \subseteq {x} THEN "Terminate" ELSE "GetAddress")

\* A faulty GetAddress: an error ends the deletion instead of passing to the next address.
GetAddressOrReturn(c) ==
  /\ pc[c] = "GetAddress"
  /\ \E x \in todo[c], a \in ReadAnswers :
       /\ Charge(a, Origin(c), "GetAddress")
       /\ IF a = "ok" THEN /\ seen' = [seen EXCEPT ![c] = <<x, addrOf[x]>>]
                           /\ Goto(c, "Disassociate")
                           /\ UNCHANGED <<todo, call, cur>>
                      ELSE ReturnFromDelete(c)
  /\ UNCHANGED <<keyVars, instanceVars, marketVars, addrOf, userVars>>

GetAddress(c) ==
  /\ pc[c] = "GetAddress"
  /\ \E x \in todo[c], a \in ReadAnswers :
       /\ Charge(a, Origin(c), "GetAddress")
       /\ IF a = "ok" THEN /\ seen' = [seen EXCEPT ![c] = <<x, addrOf[x]>>]
                           /\ Goto(c, "Disassociate")
                           /\ UNCHANGED todo
                      ELSE Skip(c, x)
  /\ UNCHANGED <<keyVars, instanceVars, marketVars, addrOf, call, cur, userVars>>

Disassociate(c) ==
  /\ pc[c] = "Disassociate"
  /\ LET x == seen[c][1]
         holder == seen[c][2]
     IN \E a \in Answers(holder # None /\ addrOf[x] = holder) :
          /\ Charge(a, Origin(c), "Disassociate")
          /\ addrOf' = IF Applied(a) THEN [addrOf EXCEPT ![x] = None] ELSE addrOf
          /\ robbed' = IF Applied(a) /\ holder # cur[c] THEN robbed \cup {holder} ELSE robbed
          /\ Skip(c, x)
  /\ UNCHANGED <<keyVars, instanceVars, marketVars, call, cur, known, doomed>>

\* The error of TerminateInstances is overwritten by the one of the waiter.
Terminate(c) ==
  /\ pc[c] = "Terminate"
  /\ \E a \in Answers(cur[c] # None) :
       /\ Charge(a, Origin(c), "Terminate")
       /\ inst' = IF Applied(a) /\ IsUp(cur[c])
                  THEN [inst EXCEPT ![cur[c]] = "shutting-down"] ELSE inst
  /\ Proceed(c, "WaitTerminated")
  /\ UNCHANGED <<keyVars, made, tagged, grouped, marketVars, addrOf, userVars>>

\* The error of this wait is the answer of Delete.
WaitTerminated(c) ==
  /\ pc[c] = "WaitTerminated"
  /\ ReturnFromDelete(c)
  /\ UNCHANGED <<keyVars, instanceVars, marketVars, addrOf, userVars, faultVars>>

-----------------------------------------------------------------------------
\* The other operations of users: Start, Stop and PublicIPManager.Associate

Switch(c, from, to, name) ==
  /\ pc[c] = "idle"
  /\ \E i \in known :
       /\ inst[i] = from
       /\ \E a \in {"ok", "lost"} : Charge(a, made[i], name)
       /\ inst' = [inst EXCEPT ![i] = to]
  /\ UNCHANGED <<keyVars, made, tagged, grouped, marketVars, addrOf, pc, frameVars, userVars>>

Stop(c)  == Switch(c, "running", "stopped", "StopInstances")
Start(c) == Switch(c, "stopped", "pending", "StartInstances")

\* A faulty Associate: the two identifiers are swapped.
SwappedAssociate(c) ==
  /\ pc[c] = "idle"
  /\ \E i \in known, x \in Addresses : /\ cur' = [cur EXCEPT ![c] = i]
                                       /\ seen' = [seen EXCEPT ![c] = <<i, x>>]
  /\ Goto(c, "FindInterface")
  /\ UNCHANGED <<keyVars, instanceVars, marketVars, addrOf, call, todo, userVars, faultVars>>

Associate(c) ==
  /\ pc[c] = "idle"
  /\ \E i \in known, x \in Addresses : /\ cur' = [cur EXCEPT ![c] = i]
                                       /\ seen' = [seen EXCEPT ![c] = <<x, i>>]
  /\ Goto(c, "FindInterface")
  /\ UNCHANGED <<keyVars, instanceVars, marketVars, addrOf, call, todo, userVars, faultVars>>

ReturnFromAssociate(c) ==
  /\ Goto(c, "idle")
  /\ cur' = [cur EXCEPT ![c] = None]
  /\ seen' = [seen EXCEPT ![c] = None]
  /\ UNCHANGED <<call, todo>>

FindInterface(c) ==
  /\ pc[c] = "FindInterface"
  /\ \E a \in ReadAnswers :
       /\ Charge(a, Origin(c), "FindInterface")
       /\ IF a = "ok" /\ IsUp(cur[c]) THEN Proceed(c, "AssociateAddress") ELSE ReturnFromAssociate(c)
  /\ UNCHANGED <<keyVars, instanceVars, marketVars, addrOf, userVars>>

\* EC2 moves an address that is associated elsewhere.
AssociateAddress(c) ==
  /\ pc[c] = "AssociateAddress"
  /\ \E a \in Answers(IsUp(cur[c])) :
       /\ Charge(a, Origin(c), "AssociateAddress")
       /\ addrOf' = IF Applied(a) THEN [addrOf EXCEPT ![seen[c][1]] = cur[c]] ELSE addrOf
  /\ ReturnFromAssociate(c)
  /\ UNCHANGED <<keyVars, instanceVars, marketVars, userVars>>

-----------------------------------------------------------------------------
\* EC2 on its own: instances boot and end, spot requests get filled, spot instances reclaimed

EC2Only == UNCHANGED <<keyVars, tagged, grouped, bought, pc, frameVars, userVars>>

Boot(i) == /\ inst[i] = "pending"
           /\ inst' = [inst EXCEPT ![i] = "running"]
           /\ UNCHANGED <<made, request, filled, addrOf, faultVars>>
           /\ EC2Only

Expire(i) == /\ inst[i] = "shutting-down"
             /\ inst' = [inst EXCEPT ![i] = "terminated"]
             /\ addrOf' = [x \in Addresses |-> IF addrOf[x] = i THEN None ELSE addrOf[x]]
             /\ UNCHANGED <<made, request, filled, faultVars>>
             /\ EC2Only

Fill(k, i) == /\ request[k] = "open"
              /\ Launch(i, k)
              /\ request' = [request EXCEPT ![k] = "filled"]
              /\ filled' = [filled EXCEPT ![k] = i]
              /\ UNCHANGED <<addrOf, faultVars>>
              /\ EC2Only

Reclaim(i) == /\ inst[i] = "running" /\ request[made[i]] = "filled"
              /\ faults < MaxFaults /\ faults' = faults + 1
              /\ Note(made[i], "Reclaim")
              /\ inst' = [inst EXCEPT ![i] = "shutting-down"]
              /\ UNCHANGED <<made, request, filled, addrOf>>
              /\ EC2Only

EC2 == \/ \E i \in Instances : Boot(i) \/ Expire(i) \/ Reclaim(i)
       \/ \E k \in Keys, i \in Instances : Fill(k, i)

-----------------------------------------------------------------------------
Continue(c) ==
  \/ ImportKey(c) \/ RunInstances(c) \/ RequestSpot(c) \/ WaitSpot(c) \/ CancelSpot(c)
  \/ DescribeSpot(c) \/ FindOffering(c) \/ Purchase(c) \/ WaitStatus(c) \/ TagInstance(c)
  \/ ModifyGroups(c) \/ WaitGroups(c) \/ WaitStatusAgain(c) \/ GetInstance(c) \/ DeleteKey(c)
  \/ ListAddresses(c) \/ GetAddress(c) \/ Disassociate(c) \/ Terminate(c) \/ WaitTerminated(c)
  \/ FindInterface(c) \/ AssociateAddress(c)

Next == \/ \E c \in Callers : \/ Create(c) \/ Delete(c) \/ Stop(c) \/ Start(c) \/ Associate(c)
                              \/ Continue(c)
        \/ EC2

Spec == Init /\ [][Next]_vars

-----------------------------------------------------------------------------
\* Properties

Running(k) == \E c \in Callers : call[c] = k
Deleting(i) == \E c \in Callers : pc[c] \in DeleteCalls /\ cur[c] = i

\* Every way out of Create deletes its key pair: one that is left was hit by a fault of the
\* deletion itself, also when the import was reported as failed.
KeyPairsTemporary ==
  \A k \in keys : Running(k) \/ "DeleteKey" \in hit[k]

\* An instance nobody was told of runs on only if the answer that creates it was lost, a spot
\* request got filled after the waiter gave up or could not be read, the instance could
\* not be read, or the deletion by which Create undoes it was itself hit.
LeakExplained ==
  \A i \in Instances :
    (inst[i] \in Up /\ i \notin known /\ ~Running(made[i]))
      => hit[made[i]] \cap {"RunInstances", "RequestSpot", "WaitSpot", "DescribeSpot",
                            "ListAddresses", "Terminate", "GetInstance"} # {}

\* A server Create returned went through every step: it is named, its security group was set
\* unless ModifyInstanceAttribute failed, and it was running then: until somebody asks for
\* its deletion it is gone only if the spot market took it back.
ReturnedServerComplete ==
  \A i \in known :
    /\ i \in tagged
    /\ i \in grouped \/ hit[made[i]] \cap {"ModifyGroups", "Reclaim"} # {}
    /\ i \notin doomed => inst[i] \in Up \/ "Reclaim" \in hit[made[i]]

\* When every caller that deletes a server has returned, it is terminated or about to be,
\* unless the list of addresses or the termination was hit by a fault.
DeletedServerEnds ==
  \A i \in doomed : ~Deleting(i)
    => inst[i] \notin Up \/ hit[made[i]] \cap {"ListAddresses", "Terminate"} # {}

\* Delete(id) deletes the server identified by id: no other server loses its address.
DeleteSparesOthers == robbed = {}

=============================================================================

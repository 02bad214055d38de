-------------------------- MODULE AwsSecurityGroup --------------------------
(***************************************************************************)
(* SecurityGroupManager of the AWS provider                                *)
(* (providers/aws/securitygroups.go), composed with the interfaces of      *)
(* AwsNetworkInterface that carry the groups.                              *)
(*                                                                         *)
(* The identifier of a rule is the rule itself, encoded; EC2 has no        *)
(* identifiers for rules.  A rule stands for a permission of EC2 and for   *)
(* its identifier, which is the same record, except that the identifier    *)
(* AddSecurityRule returns has NoCidr in the place of the CIDR: the rule   *)
(* it encodes is built without it (lines 317-324).                         *)
(*                                                                         *)
(* RemoveSecurityRule works on the group in the identifier and ignores its *)
(* other argument.  Names, descriptions, protocols and ports are one value *)
(* of Ports.                                                               *)
(***************************************************************************)
EXTENDS AwsNetworkInterface

CONSTANTS Ports,    \* protocols with their port ranges
          Cidrs,    \* blocks of addresses
          AnyCidr,  \* 0.0.0.0/0
          V6,       \* the blocks of IP v6 addresses
          Sixteen,  \* the blocks with a mask of 16 bits
          NoCidr    \* the empty string

ASSUME CidrAssumption == /\ AnyCidr \in Cidrs \ (V6 \cup Sixteen)
                         /\ NoCidr \notin Cidrs

VARIABLES rules,    \* EC2: the permissions of all groups
          ids,      \* the identifiers users hold, with the rules they take them for
          removed,  \* rules whose removal was reported as done
          strayed   \* rules that went away when the removal of another one was asked

ruleVars == <<rules, ids, removed, strayed>>
vars == <<interfaceVars, gstate, pc, frameVars, userVars, knownGroups, faultVars, ruleVars>>

Directions == {"ingress", "egress"}
Rules == [group : Groups, dir : Directions, ports : Ports, cidr : Cidrs]
Ids   == [group : Groups, dir : Directions, ports : Ports, cidr : Cidrs \cup {NoCidr}]

RuleType ==
  /\ rules \in SUBSET Rules
  /\ ids \in SUBSET [id : Ids, rule : Rules]
  /\ removed \in SUBSET Rules /\ strayed \in SUBSET Rules

\* Types.  Interfaces, groups, blocks and rule identifiers are strings in the code: none is used
\* for another.
TypeOK == InterfaceType /\ FrameType /\ UserType /\ FaultType /\ RuleType

Init == InterfaceInit /\ rules = {} /\ ids = {} /\ removed = {} /\ strayed = {}

-----------------------------------------------------------------------------
\* Create and Delete

CreateGroup(c) ==
  /\ pc[c] = "idle"
  /\ \E g \in Groups, a \in {"ok", "lost"} :
       /\ gstate[g] = "none"
       /\ gstate' = [gstate EXCEPT ![g] = "live"]
       /\ Charge(a, g, "CreateGroup")
       /\ IF a = "ok" THEN /\ Goto(c, "GetGroup")
                           /\ op' = [op EXCEPT ![c] = "CreateGroup"]
                           /\ want' = [want EXCEPT ![c] = g]
                           /\ UNCHANGED <<nic, todo, due>>
                      ELSE Return(c)
  /\ UNCHANGED <<interfaceVars, userVars, knownGroups, ruleVars>>

\* Get is retried for a minute: giving up is noted, the group stays.
GetGroup(c) ==
  /\ pc[c] = "GetGroup"
  /\ \/ gstate[want[c]] = "live" /\ knownGroups' = knownGroups \cup {want[c]} /\ UNCHANGED hit
     \/ Note(want[c], "GetGroup") /\ UNCHANGED knownGroups
  /\ Return(c)
  /\ UNCHANGED <<interfaceVars, gstate, userVars, faults, ruleVars>>

InUse(g) == \E n \in Interfaces : Exists(n) /\ group[n] = g

\* EC2 deletes neither a group in use nor the default one.
DeleteGroup(c) ==
  /\ pc[c] = "idle"
  /\ \E g \in Groups \ {Default}, a \in {"ok", "lost"} :
       /\ gstate[g] = "live" /\ ~InUse(g)
       /\ gstate' = [gstate EXCEPT ![g] = "gone"]
       /\ rules' = {r \in rules : r.group # g}
       /\ Tolerate(a)
  /\ UNCHANGED <<interfaceVars, pc, frameVars, userVars, knownGroups, ids, removed, strayed>>

-----------------------------------------------------------------------------
\* Attach: the interfaces of a server on one subnet, or the one of them with a given address, get
\* the group one after the other.  An error leaves the others as they are.  When none has the
\* address, Attach returns nil and nothing has changed.

AttachedTo(s) == {n \in Interfaces : server[n] = s /\ status[n] \in Plugged}

\* A faulty AttachGroup: the identifiers of the server and of the group are swapped.
SwappedAttach(c) ==
  /\ pc[c] = "idle"
  /\ \E s \in Servers, g \in Groups :
       \E nics \in SUBSET AttachedTo(s) \ {{}} :
         /\ todo' = [todo EXCEPT ![c] = nics]
         /\ due' = [due EXCEPT ![c] = nics]
         /\ want' = [want EXCEPT ![c] = s]
  /\ op' = [op EXCEPT ![c] = "Attach"]
  /\ Goto(c, "Modify")
  /\ UNCHANGED <<interfaceVars, gstate, nic, userVars, knownGroups, faultVars, ruleVars>>

AttachGroup(c) ==
  /\ pc[c] = "idle"
  /\ \E s \in Servers, g \in Groups :
       \E nics \in SUBSET AttachedTo(s) :
         /\ AttachedTo(s) # {} /\ gstate[g] # "none"
         /\ \/ nics = {} /\ UNCHANGED <<pc, op, want, todo, due>>
            \/ /\ nics # {}
               /\ todo' = [todo EXCEPT ![c] = nics]
               /\ due' = [due EXCEPT ![c] = nics]
               /\ want' = [want EXCEPT ![c] = g]
               /\ op' = [op EXCEPT ![c] = "Attach"]
               /\ Goto(c, "Modify")
  /\ UNCHANGED <<interfaceVars, gstate, nic, userVars, knownGroups, faultVars, ruleVars>>

\* What c is told when its call on n, the last one, has succeeded; before that, only that
\* nothing told of n counts any more.
ToldAfter(c, n, last) ==
  told' = [m \in Interfaces |-> CASE last /\ m \in due[c] \cup {n} -> want[c]
                                  [] ~last /\ m = n -> None
                                  [] OTHER -> told[m]]

\* A faulty Modify: an error does not end the loop.
ModifyAll(c) ==
  /\ pc[c] = "Modify"
  /\ \E n \in todo[c], a \in {"ok", "fail", "lost", "refused"} :
       /\ a \in Answers(Exists(n) /\ gstate[want[c]] = "live")
       /\ Tolerate(a)
       /\ IF Applied(a) THEN SetGroup(c, n, want[c]) ELSE UNCHANGED <<group, due>>
       /\ IF todo[c] = {n} THEN ToldAfter(c, n, TRUE) /\ Leave(c)
          ELSE /\ todo' = [todo EXCEPT ![c] = @ \ {n}]
               /\ IF Applied(a) THEN ToldAfter(c, n, FALSE) ELSE UNCHANGED told
               /\ UNCHANGED <<pc, op, nic, want>>
  /\ UNCHANGED <<status, server, gstate, known, cleared, knownGroups, ruleVars>>

Modify(c) ==
  /\ pc[c] = "Modify"
  /\ \E n \in todo[c] :
       \E a \in Answers(Exists(n) /\ gstate[want[c]] = "live") :
         /\ Tolerate(a)
         /\ IF Applied(a) THEN SetGroup(c, n, want[c]) ELSE UNCHANGED <<group, due>>
         /\ IF Applied(a) THEN ToldAfter(c, n, a = "ok" /\ todo[c] = {n}) ELSE UNCHANGED told
         /\ IF a = "ok" /\ todo[c] # {n}
            THEN todo' = [todo EXCEPT ![c] = @ \ {n}] /\ UNCHANGED <<pc, op, nic, want>>
            ELSE Leave(c)
  /\ UNCHANGED <<status, server, gstate, known, cleared, knownGroups, ruleVars>>

-----------------------------------------------------------------------------
\* Rules

\* isV6 looks at the length of the mask.
SentAsV6(cidr) == cidr \in Sixteen

\* EC2 takes a block only in the list of its own family.
Accepts(r) == gstate[r.group] = "live" /\ (SentAsV6(r.cidr) <=> r.cidr \in V6)

\* The identifier of a rule that was added
IdOfAdded(r) == [r EXCEPT !.cidr = NoCidr]

\* An empty CIDR in the options is AnyCidr.  EC2 refuses what is there already.
AddSecurityRule(c) ==
  /\ pc[c] = "idle"
  /\ \E r \in Rules, a \in {"ok", "lost"} :
       /\ Accepts(r) /\ r \notin rules
       /\ rules' = rules \cup {r}
       /\ removed' = removed \ {r}
       /\ Tolerate(a)
       /\ ids' = IF a = "ok" THEN ids \cup {[id |-> IdOfAdded(r), rule |-> r]} ELSE ids
  /\ UNCHANGED <<interfaceVars, gstate, pc, frameVars, userVars, knownGroups, strayed>>

\* group reports incoming rules only, and of each range of ports the first block of IP v4.
Listed(r) == r.dir = "ingress" /\ r.cidr \notin V6

\* A faulty ListRules: the identifier is encoded from the last block of the range of ports, the
\* rule from the first.
ListRulesMixed(c) ==
  /\ pc[c] = "idle"
  /\ \E r, last \in rules :
       /\ Listed(r) /\ Listed(last)
       /\ r.group = last.group /\ r.ports = last.ports
       /\ ids' = ids \cup {[id |-> last, rule |-> r]}
  /\ UNCHANGED <<interfaceVars, gstate, pc, frameVars, userVars, knownGroups, faultVars,
                 rules, removed, strayed>>

ListRules(c) ==
  /\ pc[c] = "idle"
  /\ \E r \in rules : Listed(r) /\ ids' = ids \cup {[id |-> r, rule |-> r]}
  /\ UNCHANGED <<interfaceVars, gstate, pc, frameVars, userVars, knownGroups, faultVars,
                 rules, removed, strayed>>

\* What EC2 is asked to revoke
Revoked(id) == IF id.cidr = NoCidr THEN [id EXCEPT !.cidr = AnyCidr] ELSE id

\* A faulty RemoveSecurityRule: the error of EC2 is assigned to a variable of the inner block.
RemoveErrorShadowed(c) ==
  /\ pc[c] = "idle"
  /\ \E i \in ids, a \in {"ok", "fail"} :
       /\ Revoked(i.id) \in rules /\ Accepts(Revoked(i.id))
       /\ Tolerate(a)
       /\ rules' = IF a = "ok" THEN rules \ {Revoked(i.id)} ELSE rules
       /\ removed' = removed \cup {i.rule}
       /\ strayed' = IF a = "fail" \/ i.rule = Revoked(i.id) THEN strayed
                     ELSE strayed \cup {Revoked(i.id)}
  /\ UNCHANGED <<interfaceVars, gstate, pc, frameVars, userVars, knownGroups, ids>>

RemoveSecurityRule(c) ==
  /\ pc[c] = "idle"
  /\ \E i \in ids, a \in {"ok", "lost"} :
       /\ Revoked(i.id) \in rules /\ Accepts(Revoked(i.id))
       /\ Tolerate(a)
       /\ rules' = rules \ {Revoked(i.id)}
       /\ removed' = IF a = "ok" THEN removed \cup {i.rule} ELSE removed
       /\ strayed' = IF i.rule = Revoked(i.id) THEN strayed ELSE strayed \cup {Revoked(i.id)}
  /\ UNCHANGED <<interfaceVars, gstate, pc, frameVars, userVars, knownGroups, ids>>

-----------------------------------------------------------------------------
GroupNext(c) ==
  \/ CreateGroup(c) \/ GetGroup(c) \/ DeleteGroup(c) \/ AttachGroup(c) \/ Modify(c)
  \/ AddSecurityRule(c) \/ ListRules(c) \/ RemoveSecurityRule(c)

Next == \/ \E c \in Callers : InterfaceNext(c) /\ UNCHANGED ruleVars
        \/ Background /\ UNCHANGED ruleVars
        \/ \E c \in Callers : GroupNext(c)

Spec == Init /\ [][Next]_vars

-----------------------------------------------------------------------------
\* Properties of interfaces

\* Delete says nil in every case, yet the interface is gone, unless a fault hit the removal, EC2
\* was still detaching, a server was launched with it (delete, lines 107-121), or its creator
\* attached it after Delete had found it without an attachment (lines 63, 96 and 114).
ClearedExplained ==
  \A n \in cleared :
    status[n] = "gone" \/ hit[n] \cap (RemovalCalls \cup {"Detaching", "Primary", "Overtaken"}) # {}

\* What a caller was told last of the group of an interface is true until somebody writes it
\* again, whether Create, Update or the loop of Attach told it, and however the writes of several
\* callers overlap: each one's success speaks only of what nobody wrote after it.
GroupAsTold == \A n \in Interfaces : told[n] # None /\ Exists(n) => group[n] = told[n]

InterfaceAccounted(n) ==
  Exists(n) => \/ n \in known \/ \E c \in Callers : op[c] = "Create" /\ nic[c] = n
               \/ hit[n] \cap (CreateCalls \cup RemovalCalls \cup {"CreateInterface", "Detaching"}) # {}

GroupAccounted(g) ==
  gstate[g] = "live" => \/ g \in knownGroups
                        \/ \E c \in Callers : pc[c] = "GetGroup" /\ want[c] = g
                        \/ hit[g] \cap {"CreateGroup", "GetGroup"} # {}

\* An interface that exists and that no caller was told of, and none is building, was left by a
\* fault, or its undo came while EC2 was still detaching it (create, lines 63-86); a group, by a lost
\* answer or by the end of the retries in Create (lines 88-99).
LeaksExplained ==
  (\A n \in Interfaces : InterfaceAccounted(n)) /\ (\A g \in Groups : GroupAccounted(g))

-----------------------------------------------------------------------------
\* Properties of rules

\* A removal that takes a rule other than the one it was asked for takes the one that lets every
\* address in: access is narrowed by mistake, and no narrower rule is ever lost.
OnlyOpenRulesStray == \A r \in strayed : r.cidr = AnyCidr

\* A rule whose removal was reported as done is still there only if its identifier had lost its
\* CIDR, and then the open rule with the same ports went in its place.
RemovedOrSwapped == \A r \in removed \cap rules : [r EXCEPT !.cidr = AnyCidr] \in strayed

=============================================================================

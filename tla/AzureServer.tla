---------------------------- MODULE AzureServer ----------------------------
(***************************************************************************)
(* Servers of the Azure provider (providers/azure/servers.go) with the     *)
(* network interfaces (networkinterfaces.go) and the public addresses      *)
(* (publicaddresses.go) they use.                                          *)
(*                                                                         *)
(* An interface is a document that CreateOrUpdate replaces, or creates     *)
(* when it does not exist.  Create of a server writes the document of      *)
(* NI-<subnet> for each subnet, whatever server uses it already, and then  *)
(* asks for the server; it takes nothing back when a later call fails.     *)
(* Update and Associate read a document and write their copy of it, Resize *)
(* does so with the server.                                                *)
(*                                                                         *)
(* An interface is known by its name: n stands for NI-<subnet> of subnet   *)
(* n, and users may give that name to an interface of their own.  A panic  *)
(* ends the call: whoever calls next is another process.  Sizes and power  *)
(* states, each set by one call, and methods that only read are left out.  *)
(***************************************************************************)
EXTENDS Naturals, FiniteSets

CONSTANTS Callers, Servers, Subnets, Groups, Addresses, None,
          MaxFaults    \* bound: calls of Azure that fail

\* tag: whether the tag server-id is set; which server it names is not used below.
Documents == [group : Groups, addr : Addresses \cup {None}, tag : BOOLEAN]
Machines == (SUBSET Subnets) \ {{}}

ASSUME NoneAssumption ==
  /\ None \notin Servers \cup Subnets \cup Groups \cup Addresses
  /\ \A m \in Machines : None # m
  /\ \A d \in Documents : None # d
ASSUME MaxFaultsAssumption == MaxFaults \in Nat

VARIABLES nic,        \* Azure: the document of each interface
          vm,         \* Azure: the interfaces of each server that exists
          allocated,  \* Azure: the public addresses
          pc, frame,  \* the next call of each caller, and its variables
          known,      \* the subnets of the servers Create returned, until they are deleted
          atomic,     \* the documents, had every Update and Associate been one step;
                      \* None once that is lost
          outdated,   \* interfaces written from an outdated copy and not made anew since
          unclaimed,  \* servers that exist although no call answered that it made them
          excused,    \* interfaces a failure, a deletion or a user left without a server
          faults

cloudVars == <<nic, vm, allocated>>
toldVars == <<known, unclaimed>>
historyVars == <<toldVars, atomic, outdated, excused, faults>>
vars == <<cloudVars, pc, frame, historyVars>>

Empty == [srv |-> None, asked |-> {}, todo |-> {}, made |-> {}, name |-> None, group |-> None, addr |-> None, copy |-> None]
Frames == [srv : Servers \cup {None},
           asked : SUBSET Subnets, todo : SUBSET Subnets, made : SUBSET Subnets,
           name : Subnets \cup {None}, group : Groups \cup {None}, addr : Addresses \cup {None},
           copy : Documents \cup {None}]
Labels == {"idle", "interface", "machine", "update", "associate", "resize"}

\* Types, and that the copy a caller writes is of the kind it writes.
TypeOK ==
  /\ nic \in [Subnets -> Documents \cup {None}]
  /\ vm \in [Servers -> Machines \cup {None}]
  /\ allocated \in SUBSET Addresses
  /\ pc \in [Callers -> Labels]
  /\ frame \in [Callers -> Frames]
  /\ known \in [Servers -> Machines \cup {None}]
  /\ atomic \in [Subnets -> Documents \cup {None}]
  /\ outdated \in SUBSET Subnets
  /\ unclaimed \in SUBSET Servers
  /\ excused \in SUBSET Subnets
  /\ faults \in 0..MaxFaults
  /\ \A c \in Callers :
       /\ pc[c] \in {"update", "associate"} => frame[c].copy \in Documents /\ frame[c].name \in Subnets
       /\ pc[c] = "resize" => frame[c].made \in Machines /\ frame[c].srv \in Servers
       /\ pc[c] \in {"interface", "machine"} =>
            frame[c].srv \in Servers /\ frame[c].asked \in Machines /\ frame[c].group \in Groups

Init ==
  /\ nic = [n \in Subnets |-> None]
  /\ vm = [s \in Servers |-> None]
  /\ allocated = {}
  /\ pc = [c \in Callers |-> "idle"]
  /\ frame = [c \in Callers |-> Empty]
  /\ known = [s \in Servers |-> None]
  /\ atomic = [n \in Subnets |-> None]
  /\ outdated = {}
  /\ unclaimed = {}
  /\ excused = {}
  /\ faults = 0

-----------------------------------------------------------------------------
\* What Azure answers: "lost" is a call that is done and reported as failed.
Answers == {"ok"} \cup (IF faults < MaxFaults THEN {"fail", "lost"} ELSE {})
Done(r) == r # "fail"
Charge(r) == faults' = IF r = "ok" THEN faults ELSE faults + 1

\* Interfaces that servers use, and those of some names that stay without a server after a step.
Attached(n) == \E s \in Servers : vm[s] # None /\ n \in vm[s]
Loose(names) == {n \in names : nic'[n] # None /\ ~Attached(n)}
InUse(a) == \E n \in Subnets : nic[n] # None /\ nic[n].addr = a
Fits(made) == \A n \in made : nic[n] # None /\ ~Attached(n)

Call(c, label, f) == pc' = [pc EXCEPT ![c] = label] /\ frame' = [frame EXCEPT ![c] = f]
End(c) == Call(c, "idle", Empty)

\* CreateOrUpdate of an interface with a document of the caller: what was there is replaced.
Replace(n, d) ==
  /\ nic' = [nic EXCEPT ![n] = d]
  /\ atomic' = [atomic EXCEPT ![n] = d]
  /\ outdated' = outdated \ {n}

\* CreateOrUpdate of an interface with a copy read before, in which Associate sets the address and
\* update the group.
WriteCopy(c) ==
  LET n == frame[c].name
      Change(d) == IF pc[c] = "associate" THEN [d EXCEPT !.addr = frame[c].addr]
                                          ELSE [d EXCEPT !.group = frame[c].group]
      stale == nic[n] # frame[c].copy
  IN /\ nic' = [nic EXCEPT ![n] = Change(frame[c].copy)]
     /\ atomic' = [atomic EXCEPT ![n] = IF stale \/ @ = None THEN None ELSE Change(@)]
     /\ outdated' = IF stale THEN outdated \cup {n} ELSE outdated
     /\ excused' = IF stale THEN excused \cup Loose({n}) ELSE excused

-----------------------------------------------------------------------------
\* ServerManager

\* createNetworkInterfaces: one round of the loop.  An error of Create is met after
\* convertNetworkInterface took the interface for one that exists, so that the call panics and
\* leaves the interfaces made so far.
MakeInterface(c, f) ==
  /\ \E n \in f.todo, r \in Answers :
       /\ IF Done(r) THEN Replace(n, [group |-> f.group, addr |-> None, tag |-> FALSE])
                     ELSE UNCHANGED <<nic, atomic, outdated>>
       /\ IF r = "ok"
          THEN /\ Call(c, IF f.todo = {n} THEN "machine" ELSE "interface",
                          [f EXCEPT !.todo = @ \ {n}, !.made = @ \cup {n}])
               /\ excused' = excused \ {n}
          ELSE End(c) /\ excused' = excused \cup Loose(f.made \cup {n})
       /\ Charge(r)
  /\ UNCHANGED <<vm, allocated, toldVars>>

\* A faulty loop: it goes on after an interface that failed.
SkipInterface(c) ==
  /\ pc[c] = "interface"
  /\ \/ MakeInterface(c, frame[c])
     \/ \E n \in frame[c].todo :
          /\ Call(c, IF frame[c].todo = {n} THEN "machine" ELSE "interface", [frame[c] EXCEPT !.todo = @ \ {n}])
          /\ faults < MaxFaults
          /\ faults' = faults + 1
          /\ UNCHANGED <<cloudVars, toldVars, atomic, outdated, excused>>

Create(c) ==
  /\ pc[c] = "idle"
  /\ \E s \in Servers, m \in Machines, g \in Groups :
       MakeInterface(c, [Empty EXCEPT !.srv = s, !.asked = m, !.todo = m, !.group = g])

MakeNextInterface(c) ==
  /\ pc[c] = "interface"
  /\ MakeInterface(c, frame[c])

\* Azure refuses a server that exists, and interfaces that are gone or used by another server.
Refuses(c) == vm[frame[c].srv] # None \/ ~Fits(frame[c].made)

\* A faulty Create: the slice of references loses its first interface.
PutMachineButOne(c) ==
  /\ pc[c] = "machine"
  /\ ~Refuses(c)
  /\ \E n \in frame[c].made :
       vm' = [vm EXCEPT ![frame[c].srv] = IF frame[c].made = {n} THEN {n} ELSE frame[c].made \ {n}]
  /\ known' = [known EXCEPT ![frame[c].srv] = frame[c].asked]
  /\ End(c)
  /\ UNCHANGED <<nic, allocated, unclaimed, atomic, outdated, excused, faults>>

\* Create: the server itself, from the interfaces that were made.
PutMachine(c) ==
  /\ pc[c] = "machine"
  /\ UNCHANGED <<nic, allocated, atomic, outdated>>
  /\ LET s == frame[c].srv IN
       \/ /\ Refuses(c)
          /\ excused' = excused \cup Loose(frame[c].made)
          /\ UNCHANGED <<vm, toldVars, faults>>
       \/ /\ ~Refuses(c)
          /\ \E r \in Answers :
               /\ vm' = IF Done(r) THEN [vm EXCEPT ![s] = frame[c].made] ELSE vm
               /\ known' = IF r = "ok" THEN [known EXCEPT ![s] = frame[c].asked] ELSE known
               /\ unclaimed' = IF r = "lost" THEN unclaimed \cup {s} ELSE unclaimed
               /\ excused' = IF Done(r) THEN excused \ frame[c].made
                                        ELSE excused \cup Loose(frame[c].made)
               /\ Charge(r)
  /\ End(c)

\* Delete leaves the interfaces of the server.
Delete(c) ==
  /\ pc[c] = "idle"
  /\ \E s \in Servers, r \in Answers :
       /\ vm[s] # None
       /\ IF Done(r) THEN /\ vm' = [vm EXCEPT ![s] = None]
                          /\ known' = [known EXCEPT ![s] = None]
                          /\ unclaimed' = unclaimed \ {s}
                          /\ excused' = excused \cup vm[s]
                     ELSE UNCHANGED <<vm, toldVars, excused>>
       /\ Charge(r)
  /\ UNCHANGED <<nic, allocated, pc, frame, atomic, outdated>>

\* Resize: get, and CreateOrUpdate of what was read with another size.
Resize(c) ==
  /\ pc[c] = "idle"
  /\ \E s \in Servers :
       /\ vm[s] # None
       /\ Call(c, "resize", [Empty EXCEPT !.srv = s, !.made = vm[s]])
  /\ UNCHANGED <<cloudVars, historyVars>>

\* A server deleted in between is refused, or made again from interfaces that are free.
PutResized(c) ==
  /\ pc[c] = "resize"
  /\ LET s == frame[c].srv IN
       \/ UNCHANGED <<vm, unclaimed, excused>>
       \/ /\ vm[s] = None
          /\ Fits(frame[c].made)
          /\ vm' = [vm EXCEPT ![s] = frame[c].made]
          /\ unclaimed' = unclaimed \cup {s}
          /\ excused' = excused \ frame[c].made
  /\ End(c)
  /\ UNCHANGED <<nic, allocated, known, atomic, outdated, faults>>

-----------------------------------------------------------------------------
\* NetworkInterfacesManager

\* Create, by a user: the document replaces one of that name.  An error panics.
CreateInterface(c) ==
  /\ pc[c] = "idle"
  /\ \E n \in Subnets, g \in Groups, tag \in BOOLEAN, r \in Answers :
       /\ IF Done(r) THEN /\ Replace(n, [group |-> g, addr |-> None, tag |-> tag])
                          /\ excused' = excused \cup Loose({n})
                     ELSE UNCHANGED <<nic, atomic, outdated, excused>>
       /\ Charge(r)
  /\ UNCHANGED <<vm, allocated, pc, frame, toldVars>>

\* Delete: Azure refuses an interface that a server uses.
DeleteInterface(c) ==
  /\ pc[c] = "idle"
  /\ \E n \in Subnets, r \in Answers :
       /\ nic[n] # None
       /\ ~Attached(n)
       /\ IF Done(r) THEN Replace(n, None) /\ excused' = excused \ {n}
                     ELSE UNCHANGED <<nic, atomic, outdated, excused>>
       /\ Charge(r)
  /\ UNCHANGED <<vm, allocated, pc, frame, toldVars>>

\* A faulty update: the error of Get is not looked at.
UpdateUnread(c) ==
  /\ pc[c] = "idle"
  /\ \E n \in Subnets, g \in Groups : Call(c, "update", [Empty EXCEPT !.name = n, !.group = g, !.copy = nic[n]])
  /\ UNCHANGED <<cloudVars, historyVars>>

\* update: the read.  Get of what does not exist is an error and ends the call.
Update(c) ==
  /\ pc[c] = "idle"
  /\ \E n \in Subnets, g \in Groups :
       /\ nic[n] # None
       /\ Call(c, "update", [Empty EXCEPT !.name = n, !.group = g, !.copy = nic[n]])
  /\ UNCHANGED <<cloudVars, historyVars>>

\* update: the write.  Neither the error of the wait, which line 208 overwrites, nor the Get that
\* follows, which panics when the interface is gone, changes what was written.
PutUpdated(c) ==
  /\ pc[c] = "update"
  /\ \E r \in Answers :
       /\ IF Done(r) THEN WriteCopy(c)
                     ELSE UNCHANGED <<nic, atomic, outdated, excused>>
       /\ Charge(r)
  /\ End(c)
  /\ UNCHANGED <<vm, allocated, toldVars>>

-----------------------------------------------------------------------------
\* PublicIPManager

\* Create: convertAddress panics, the new address has no configuration yet.
CreateAddress(c) ==
  /\ pc[c] = "idle"
  /\ \E a \in Addresses \ allocated : allocated' = allocated \cup {a}
  /\ UNCHANGED <<nic, vm, pc, frame, historyVars>>

\* Delete: Azure refuses an address that an interface has.
DeleteAddress(c) ==
  /\ pc[c] = "idle"
  /\ \E a \in allocated : ~InUse(a) /\ allocated' = allocated \ {a}
  /\ UNCHANGED <<nic, vm, pc, frame, historyVars>>

\* listAzure with the options of Associate: some server and subnet.
Listed(n) == nic[n] # None /\ nic[n].tag

\* Associate: the reads.  The interface is looked for by the tag server-id, which Create of a
\* server does not set.  The list holds one at most: its name is what is compared with the subnet.
\* The address is read next; the write decides again whether it exists.
Associate(c) ==
  /\ pc[c] = "idle"
  /\ \E n \in Subnets, a \in allocated :
       /\ Listed(n)
       /\ Call(c, "associate", [Empty EXCEPT !.name = n, !.addr = a, !.copy = nic[n]])
  /\ UNCHANGED <<cloudVars, historyVars>>

\* A faulty Associate: the tags of the interface are not carried over.
PutUntagged(c) ==
  /\ pc[c] = "associate"
  /\ LET n == frame[c].name
         a == frame[c].addr
     IN /\ a \in allocated /\ ~InUse(a)
        /\ nic' = [nic EXCEPT ![n] = [frame[c].copy EXCEPT !.addr = a, !.tag = FALSE]]
        /\ atomic' = [atomic EXCEPT ![n] = IF @ = None THEN None ELSE [@ EXCEPT !.addr = a]]
        /\ outdated' = IF nic[n] # frame[c].copy THEN outdated \cup {n} ELSE outdated
  /\ End(c)
  /\ UNCHANGED <<vm, allocated, toldVars, excused, faults>>

\* Associate: the write.  Azure refuses an address that does not exist or is on another interface.
PutAssociated(c) ==
  /\ pc[c] = "associate"
  /\ LET a == frame[c].addr
         elsewhere == \E n \in Subnets \ {frame[c].name} : nic[n] # None /\ nic[n].addr = a
     IN \E r \in Answers :
          /\ IF Done(r) /\ a \in allocated /\ ~elsewhere
             THEN WriteCopy(c)
             ELSE UNCHANGED <<nic, atomic, outdated, excused>>
          /\ Charge(r)
  /\ End(c)
  /\ UNCHANGED <<vm, allocated, toldVars>>

-----------------------------------------------------------------------------
Step(c) ==
  \/ Create(c) \/ MakeNextInterface(c) \/ PutMachine(c) \/ Delete(c) \/ Resize(c) \/ PutResized(c)
  \/ CreateInterface(c) \/ DeleteInterface(c) \/ Update(c) \/ PutUpdated(c)
  \/ CreateAddress(c) \/ DeleteAddress(c) \/ Associate(c) \/ PutAssociated(c)

Next == \E c \in Callers : Step(c)

Spec == Init /\ [][Next]_vars

-----------------------------------------------------------------------------
\* A server that Create returned has the interfaces that were asked for, which exist, and shares
\* none with another server: however the calls on its subnets interleave, until it is deleted.
ReturnedServerWired ==
  \A s \in Servers : known[s] # None =>
    /\ vm[s] = known[s]
    /\ \A n \in known[s] : nic[n] # None
    /\ \A t \in Servers \ {s} : vm[t] # None => vm[t] \cap known[s] = {}

\* What Update and Associate did stays on an interface as if each were one step, until the
\* interface is made anew: unless it was written from an outdated copy.
UpdatesAtomic == \A n \in Subnets \ outdated : nic[n] = atomic[n]

\* An interface without a server, and a server nobody was told of, remain only after a failed
\* call of Azure, a refused server, a deletion of the server, or a write from an outdated copy.
LeakExplained ==
  /\ \A n \in Subnets : nic[n] # None /\ ~Attached(n) /\ n \notin excused =>
       \E c \in Callers : pc[c] \in {"interface", "machine"} /\ n \in frame[c].made
  /\ \A s \in Servers : vm[s] # None /\ known[s] = None => s \in unclaimed

=============================================================================

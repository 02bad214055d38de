---------------------------- MODULE Azure_proofs ----------------------------
(***************************************************************************)
(* Proofs about the servers of Azure, and about the ranges that Azure      *)
(* reports for its address pools: the types, that a server that was        *)
(* returned stays wired, that updates are atomic but for outdated copies,  *)
(* that what is left over is explained, and which range GetRange finds.    *)
(***************************************************************************)
EXTENDS AzureServer, IpRange, TLAPS


-----------------------------------------------------------------------------
\* The variables of a caller, by the call it is about to make.  TypeOK leaves out what a write
\* takes from them, and that the interfaces made and to be made are those that were asked for.

FrameOK(c) ==
  /\ pc[c] = "update" => frame[c].group \in Groups
  /\ pc[c] = "associate" => frame[c].addr \in Addresses
  /\ pc[c] \in {"interface", "machine"} => frame[c].made \cup frame[c].todo = frame[c].asked
  /\ pc[c] = "machine" => frame[c].todo = {}

TypeInv == TypeOK /\ \A c \in Callers : FrameOK(c)

CloudType ==
  /\ nic \in [Subnets -> Documents \cup {None}]
  /\ vm \in [Servers -> Machines \cup {None}]
  /\ allocated \in SUBSET Addresses

HistoryType ==
  /\ known \in [Servers -> Machines \cup {None}]
  /\ atomic \in [Subnets -> Documents \cup {None}]
  /\ outdated \in SUBSET Subnets
  /\ unclaimed \in SUBSET Servers
  /\ excused \in SUBSET Subnets
  /\ faults \in 0..MaxFaults

\* What a caller may hold.
Held(label, f) ==
  /\ label \in Labels /\ f \in Frames
  /\ label \in {"update", "associate"} => f.copy \in Documents /\ f.name \in Subnets
  /\ label = "resize" => f.made \in Machines /\ f.srv \in Servers
  /\ label \in {"interface", "machine"} =>
       /\ f.srv \in Servers /\ f.asked \in Machines /\ f.group \in Groups
       /\ f.made \cup f.todo = f.asked
  /\ label = "update" => f.group \in Groups
  /\ label = "associate" => f.addr \in Addresses
  /\ label = "machine" => f.todo = {}

FrameInv ==
  /\ pc \in [Callers -> Labels] /\ frame \in [Callers -> Frames]
  /\ \A c \in Callers : Held(pc[c], frame[c])

LEMMA TypeParts == TypeInv <=> CloudType /\ HistoryType /\ FrameInv
BY DEF TypeInv, TypeOK, CloudType, HistoryType, FrameInv, FrameOK, Held

LEMMA EmptyHeld == Held("idle", Empty)
BY DEF Held, Empty, Frames, Labels

LEMMA CallFrame ==
  ASSUME FrameInv, NEW c \in Callers, NEW label, NEW f, Held(label, f), Call(c, label, f)
  PROVE  FrameInv'
<1>1. pc' = [pc EXCEPT ![c] = label] /\ frame' = [frame EXCEPT ![c] = f]
  BY DEF Call
<1>2. label \in Labels /\ f \in Frames
  BY DEF Held
<1>3. pc' \in [Callers -> Labels] /\ frame' \in [Callers -> Frames]
  BY <1>1, <1>2 DEF FrameInv
<1>4. ASSUME NEW d \in Callers PROVE Held(pc'[d], frame'[d])
  <2>1. pc'[d] = (IF d = c THEN label ELSE pc[d]) /\ frame'[d] = (IF d = c THEN f ELSE frame[d])
    BY <1>1 DEF FrameInv
  <2> QED
    BY <2>1 DEF FrameInv
<1> QED
  BY <1>3, <1>4 DEF FrameInv

LEMMA EndFrame ==
  ASSUME FrameInv, NEW c \in Callers, End(c)
  PROVE  FrameInv'
BY CallFrame, EmptyHeld DEF End

LEMMA SameFrame ==
  ASSUME FrameInv, UNCHANGED <<pc, frame>>
  PROVE  FrameInv'
BY DEF FrameInv

\* What the first call of a method puts in the frame.
LEMMA StartHeld ==
  /\ \A s \in Servers, m \in Machines :
       Held("resize", [Empty EXCEPT !.srv = s, !.made = m])
  /\ \A n \in Subnets, g \in Groups, d \in Documents :
       Held("update", [Empty EXCEPT !.name = n, !.group = g, !.copy = d])
  /\ \A n \in Subnets, a \in Addresses, d \in Documents :
       Held("associate", [Empty EXCEPT !.name = n, !.addr = a, !.copy = d])
  /\ \A s \in Servers, m \in Machines, g \in Groups :
       Held("interface", [Empty EXCEPT !.srv = s, !.asked = m, !.todo = m, !.group = g])
<1>1. ASSUME NEW s \in Servers, NEW m \in Machines
      PROVE  Held("resize", [Empty EXCEPT !.srv = s, !.made = m])
  BY DEF Held, Empty, Frames, Labels, Machines
<1>2. ASSUME NEW n \in Subnets, NEW g \in Groups, NEW d \in Documents
      PROVE  Held("update", [Empty EXCEPT !.name = n, !.group = g, !.copy = d])
  BY DEF Held, Empty, Frames, Labels
<1>3. ASSUME NEW n \in Subnets, NEW a \in Addresses, NEW d \in Documents
      PROVE  Held("associate", [Empty EXCEPT !.name = n, !.addr = a, !.copy = d])
  BY DEF Held, Empty, Frames, Labels
<1>4. ASSUME NEW s \in Servers, NEW m \in Machines, NEW g \in Groups
      PROVE  Held("interface", [Empty EXCEPT !.srv = s, !.asked = m, !.todo = m, !.group = g])
  <2>1. m \in SUBSET Subnets
    BY DEF Machines
  <2> QED BY <2>1 DEF Held, Empty, Frames, Labels
<1> QED BY <1>1, <1>2, <1>3, <1>4

\* One round of the loop moves an interface from those to be made to those that are.
LEMMA MakeHeld ==
  ASSUME NEW f, Held("interface", f), NEW n \in f.todo
  PROVE  /\ n \in Subnets
         /\ Held(IF f.todo = {n} THEN "machine" ELSE "interface",
                 [f EXCEPT !.todo = @ \ {n}, !.made = @ \cup {n}])
BY DEF Held, Frames, Labels

\* MakeInterface with any frame that is well formed: the one of the caller, or a new one.
LEMMA MakeFrame ==
  ASSUME FrameInv, NEW c \in Callers, NEW f, Held("interface", f), MakeInterface(c, f)
  PROVE  FrameInv'
<1>1. ASSUME NEW n \in f.todo,
             Call(c, IF f.todo = {n} THEN "machine" ELSE "interface",
                     [f EXCEPT !.todo = @ \ {n}, !.made = @ \cup {n}])
      PROVE  FrameInv'
  BY <1>1, MakeHeld, CallFrame
<1> QED
  BY <1>1, EndFrame DEF MakeInterface

LEMMA FrameStep ==
  ASSUME CloudType, FrameInv, NEW c \in Callers, Step(c)
  PROVE  FrameInv'
<1>1. CASE Create(c)
  <2>1. PICK s \in Servers, m \in Machines, g \in Groups :
          MakeInterface(c, [Empty EXCEPT !.srv = s, !.asked = m, !.todo = m, !.group = g])
    BY <1>1 DEF Create
  <2> QED BY <2>1, StartHeld, MakeFrame
<1>2. CASE MakeNextInterface(c)
  <2>1. Held("interface", frame[c])
    BY <1>2 DEF MakeNextInterface, FrameInv
  <2> QED BY <1>2, <2>1, MakeFrame DEF MakeNextInterface
<1>3. CASE PutMachine(c) \/ PutResized(c) \/ PutUpdated(c) \/ PutAssociated(c)
  BY <1>3, EndFrame DEF PutMachine, PutResized, PutUpdated, PutAssociated
<1>4. CASE \/ Delete(c) \/ CreateInterface(c) \/ DeleteInterface(c)
           \/ CreateAddress(c) \/ DeleteAddress(c)
  BY <1>4, SameFrame DEF Delete, CreateInterface, DeleteInterface, CreateAddress, DeleteAddress
<1>5. CASE Resize(c)
  <2>1. PICK s \in Servers :
          vm[s] # None /\ Call(c, "resize", [Empty EXCEPT !.srv = s, !.made = vm[s]])
    BY <1>5 DEF Resize
  <2>2. vm[s] \in Machines
    BY <2>1 DEF CloudType
  <2> QED BY <2>1, <2>2, StartHeld, CallFrame
<1>6. CASE Update(c)
  <2>1. PICK n \in Subnets, g \in Groups :
          /\ nic[n] # None
          /\ Call(c, "update", [Empty EXCEPT !.name = n, !.group = g, !.copy = nic[n]])
    BY <1>6 DEF Update
  <2>2. nic[n] \in Documents
    BY <2>1 DEF CloudType
  <2> QED BY <2>1, <2>2, StartHeld, CallFrame
<1>7. CASE Associate(c)
  <2>1. PICK n \in Subnets, a \in allocated :
          /\ Listed(n)
          /\ Call(c, "associate", [Empty EXCEPT !.name = n, !.addr = a, !.copy = nic[n]])
    BY <1>7 DEF Associate
  <2>2. nic[n] \in Documents /\ a \in Addresses
    BY <2>1 DEF CloudType, Listed
  <2> QED BY <2>1, <2>2, StartHeld, CallFrame
<1> QED
  BY <1>1, <1>2, <1>3, <1>4, <1>5, <1>6, <1>7 DEF Step

-----------------------------------------------------------------------------
\* The types of the account and of the history

LEMMA ChargeType ==
  ASSUME faults \in 0..MaxFaults, NEW r \in Answers, Charge(r)
  PROVE  faults' \in 0..MaxFaults
BY MaxFaultsAssumption DEF Answers, Charge

LEMMA ReplaceType ==
  ASSUME CloudType, HistoryType, NEW n \in Subnets, NEW d \in Documents \cup {None}, Replace(n, d)
  PROVE  /\ nic' \in [Subnets -> Documents \cup {None}]
         /\ atomic' \in [Subnets -> Documents \cup {None}]
         /\ outdated' \in SUBSET Subnets
BY DEF CloudType, HistoryType, Replace

\* A copy that is written back, with another address or another group.
LEMMA ChangeType ==
  ASSUME NEW d \in Documents
  PROVE  /\ \A a \in Addresses : [d EXCEPT !.addr = a] \in Documents
         /\ \A g \in Groups : [d EXCEPT !.group = g] \in Documents
BY DEF Documents

Change(c, d) == IF pc[c] = "associate" THEN [d EXCEPT !.addr = frame[c].addr]
                                       ELSE [d EXCEPT !.group = frame[c].group]

\* What WriteCopy does, from the frame of its caller.
LEMMA WriteCopyIs ==
  ASSUME FrameInv, NEW c \in Callers, pc[c] \in {"update", "associate"}, WriteCopy(c)
  PROVE  \E n \in Subnets, d \in Documents :
           /\ n = frame[c].name /\ d = frame[c].copy
           /\ nic' = [nic EXCEPT ![n] = Change(c, d)]
           /\ atomic' = [atomic EXCEPT ![n] = IF nic[n] # d \/ @ = None THEN None ELSE Change(c, @)]
           /\ outdated' = IF nic[n] # d THEN outdated \cup {n} ELSE outdated
           /\ excused' = IF nic[n] # d THEN excused \cup Loose({n}) ELSE excused
           /\ \A e \in Documents : Change(c, e) \in Documents
<1>1. frame[c].name \in Subnets /\ frame[c].copy \in Documents
  BY DEF FrameInv, Held
<1>2. ASSUME NEW e \in Documents PROVE Change(c, e) \in Documents
  BY ChangeType DEF Change, FrameInv, Held
<1> QED
  BY <1>1, <1>2 DEF WriteCopy, Change

LEMMA WriteCopyType ==
  ASSUME CloudType, HistoryType, FrameInv, NEW c \in Callers, pc[c] \in {"update", "associate"},
         WriteCopy(c)
  PROVE  /\ nic' \in [Subnets -> Documents \cup {None}]
         /\ atomic' \in [Subnets -> Documents \cup {None}]
         /\ outdated' \in SUBSET Subnets /\ excused' \in SUBSET Subnets
<1>1. PICK n \in Subnets, d \in Documents :
           /\ n = frame[c].name /\ d = frame[c].copy
           /\ nic' = [nic EXCEPT ![n] = Change(c, d)]
           /\ atomic' = [atomic EXCEPT ![n] = IF nic[n] # d \/ @ = None THEN None ELSE Change(c, @)]
           /\ outdated' = IF nic[n] # d THEN outdated \cup {n} ELSE outdated
           /\ excused' = IF nic[n] # d THEN excused \cup Loose({n}) ELSE excused
           /\ \A e \in Documents : Change(c, e) \in Documents
  BY WriteCopyIs
<1>2. Loose({n}) \in SUBSET Subnets
  BY DEF Loose
<1>3. /\ atomic[n] \in Documents \cup {None}
      /\ outdated \in SUBSET Subnets /\ excused \in SUBSET Subnets
  BY DEF HistoryType
<1>4. atomic' \in [Subnets -> Documents \cup {None}]
  BY <1>1, <1>3 DEF HistoryType
<1> QED
  BY <1>1, <1>2, <1>3, <1>4 DEF CloudType

LEMMA MakeType ==
  ASSUME CloudType, HistoryType, NEW c \in Callers, NEW f, Held("interface", f), MakeInterface(c, f)
  PROVE  CloudType' /\ HistoryType'
<1>1. PICK n \in f.todo, r \in Answers :
        /\ \/ Replace(n, [group |-> f.group, addr |-> None, tag |-> FALSE])
           \/ UNCHANGED <<nic, atomic, outdated>>
        /\ excused' = excused \ {n} \/ excused' = excused \cup Loose(f.made \cup {n})
        /\ Charge(r)
  BY DEF MakeInterface
<1>2. n \in Subnets /\ [group |-> f.group, addr |-> None, tag |-> FALSE] \in Documents
  BY DEF Held, Frames, Documents
<1>3. Loose(f.made \cup {n}) \in SUBSET Subnets
  BY <1>2 DEF Held, Frames, Loose
<1>4. UNCHANGED <<vm, allocated, known, unclaimed>>
  BY DEF MakeInterface, toldVars
<1>5. /\ nic' \in [Subnets -> Documents \cup {None}]
      /\ atomic' \in [Subnets -> Documents \cup {None}]
      /\ outdated' \in SUBSET Subnets
  BY <1>1, <1>2, ReplaceType DEF CloudType, HistoryType
<1>6. excused' \in SUBSET Subnets /\ faults' \in 0..MaxFaults
  BY <1>1, <1>3, ChargeType DEF HistoryType
<1> QED
  BY <1>4, <1>5, <1>6 DEF CloudType, HistoryType

LEMMA DataStep ==
  ASSUME CloudType, HistoryType, FrameInv, NEW c \in Callers, Step(c)
  PROVE  CloudType' /\ HistoryType'
<1> USE ChargeType DEF CloudType, HistoryType, toldVars, historyVars, cloudVars
<1>1. CASE Create(c)
  <2>1. PICK s \in Servers, m \in Machines, g \in Groups :
          MakeInterface(c, [Empty EXCEPT !.srv = s, !.asked = m, !.todo = m, !.group = g])
    BY <1>1 DEF Create
  <2> QED BY <2>1, StartHeld, MakeType
<1>2. CASE MakeNextInterface(c)
  <2>1. Held("interface", frame[c])
    BY <1>2 DEF MakeNextInterface, FrameInv
  <2> QED BY <1>2, <2>1, MakeType DEF MakeNextInterface
<1>3. CASE PutMachine(c)
  <2>1. /\ frame[c].srv \in Servers /\ frame[c].asked \in Machines /\ frame[c].made \in Machines
        /\ Loose(frame[c].made) \in SUBSET Subnets
    BY <1>3 DEF PutMachine, FrameInv, Held, Machines, Loose
  <2> QED BY <1>3, <2>1 DEF PutMachine
<1>4. CASE Delete(c)
  <2>1. \A s \in Servers : vm[s] # None => vm[s] \in SUBSET Subnets
    BY DEF Machines
  <2> QED BY <1>4, <2>1 DEF Delete
<1>5. CASE Resize(c)
  BY <1>5 DEF Resize
<1>6. CASE PutResized(c)
  <2>1. frame[c].srv \in Servers /\ frame[c].made \in Machines
    BY <1>6 DEF PutResized, FrameInv, Held
  <2> QED BY <1>6, <2>1 DEF PutResized
<1>7. CASE CreateInterface(c)
  <2>1. PICK n \in Subnets, g \in Groups, tag \in BOOLEAN, r \in Answers :
          /\ \/ /\ Replace(n, [group |-> g, addr |-> None, tag |-> tag])
                /\ excused' = excused \cup Loose({n})
             \/ UNCHANGED <<nic, atomic, outdated, excused>>
          /\ Charge(r)
    BY <1>7 DEF CreateInterface
  <2>2. [group |-> g, addr |-> None, tag |-> tag] \in Documents /\ Loose({n}) \in SUBSET Subnets
    BY DEF Documents, Loose
  <2> QED BY <1>7, <2>1, <2>2, ReplaceType DEF CreateInterface
<1>8. CASE DeleteInterface(c)
  BY <1>8, ReplaceType DEF DeleteInterface
<1>9. CASE Update(c)
  BY <1>9 DEF Update
<1>10. CASE PutUpdated(c)
  BY <1>10, WriteCopyType DEF PutUpdated
<1>11. CASE CreateAddress(c)
  BY <1>11 DEF CreateAddress
<1>12. CASE DeleteAddress(c)
  BY <1>12 DEF DeleteAddress
<1>13. CASE Associate(c)
  BY <1>13 DEF Associate
<1>14. CASE PutAssociated(c)
  BY <1>14, WriteCopyType DEF PutAssociated
<1> QED
  BY <1>1, <1>2, <1>3, <1>4, <1>5, <1>6, <1>7, <1>8, <1>9, <1>10, <1>11, <1>12, <1>13, <1>14 DEF
     Step

LEMMA TypeInvInit == Init => TypeInv
<1> SUFFICES ASSUME Init PROVE CloudType /\ HistoryType /\ FrameInv
  BY TypeParts
<1>1. CloudType /\ HistoryType
  BY MaxFaultsAssumption DEF Init, CloudType, HistoryType
<1>2. FrameInv
  BY EmptyHeld DEF Init, FrameInv, Held
<1> QED BY <1>1, <1>2

LEMMA TypeInvStep == TypeInv /\ [Next]_vars => TypeInv'
<1>1. ASSUME CloudType, HistoryType, FrameInv, [Next]_vars
      PROVE  CloudType' /\ HistoryType' /\ FrameInv'
  <2>1. CASE UNCHANGED vars
    BY <1>1, <2>1 DEF vars, cloudVars, toldVars, historyVars, CloudType, HistoryType, FrameInv
  <2> QED BY <1>1, <2>1, FrameStep, DataStep DEF Next
<1>2. TypeInv' <=> CloudType' /\ HistoryType' /\ FrameInv'
  BY DEF TypeInv, TypeOK, CloudType, HistoryType, FrameInv, FrameOK, Held
<1> QED BY <1>1, <1>2, TypeParts

\* Every variable of AzureServer keeps its type: a write finds a document or the interfaces of
\* a server in the copy its caller read.
THEOREM TypeCorrect == Spec => []TypeOK
<1>1. TypeInv => TypeOK
  BY DEF TypeInv
<1> QED
  BY TypeInvInit, TypeInvStep, <1>1, PTL DEF Spec

-----------------------------------------------------------------------------
\* Steps on interfaces, steps on servers, and the rest.

InterfaceStep(c) == Create(c) \/ MakeNextInterface(c) \/ CreateInterface(c) \/ DeleteInterface(c)
                    \/ PutUpdated(c) \/ PutAssociated(c)
ServerStep(c) == PutMachine(c) \/ Delete(c) \/ PutResized(c)
OtherStep(c) == Resize(c) \/ Update(c) \/ Associate(c) \/ CreateAddress(c) \/ DeleteAddress(c)

LEMMA StepKinds ==
  ASSUME NEW c \in Callers, Step(c)
  PROVE  InterfaceStep(c) \/ ServerStep(c) \/ OtherStep(c)
BY DEF Step, InterfaceStep, ServerStep, OtherStep

\* A caller holds the interfaces it made for the server it is creating.
Holds(c, n) == pc[c] \in {"interface", "machine"} /\ n \in frame[c].made

OwnFrame(c) == \A d \in Callers \ {c} : pc'[d] = pc[d] /\ frame'[d] = frame[d]

LEMMA CallOwn ==
  ASSUME FrameInv, NEW c \in Callers, NEW label, NEW f, Call(c, label, f)
  PROVE  OwnFrame(c) /\ pc'[c] = label /\ frame'[c] = f
BY DEF FrameInv, Call, OwnFrame

LEMMA EndOwn ==
  ASSUME FrameInv, NEW c \in Callers, End(c)
  PROVE  OwnFrame(c) /\ pc'[c] = "idle"
BY CallOwn DEF End

\* What a step does to the document of interface n:
\*   - one that a server uses stays,
\*   - it goes on as if updates were one step, unless the copy was outdated,
\*   - one without a server is held by the caller, excused, or was loose before.
InterfaceMove(c, n) ==
  /\ nic[n] # None /\ Attached(n) => nic'[n] # None
  /\ (n \notin outdated => nic[n] = atomic[n]) => (n \notin outdated' => nic'[n] = atomic'[n])
  /\ nic'[n] # None /\ ~Attached(n) /\ n \notin excused' =>
       Holds(c, n)' \/ (nic[n] # None /\ n \notin excused /\ ~Holds(c, n))

LEMMA SameMove ==
  ASSUME NEW c \in Callers, NEW n, UNCHANGED <<nic, atomic, outdated, excused>>,
         Holds(c, n) => Holds(c, n)'
  PROVE  InterfaceMove(c, n)
BY DEF InterfaceMove

LEMMA MakeMove ==
  ASSUME TypeInv, NEW c \in Callers, NEW f, Held("interface", f), MakeInterface(c, f),
         NEW n \in Subnets, Holds(c, n) => n \in f.made
  PROVE  InterfaceMove(c, n) /\ OwnFrame(c)
<1>1. PICK k \in f.todo, r \in Answers :
        /\ IF Done(r) THEN Replace(k, [group |-> f.group, addr |-> None, tag |-> FALSE])
                      ELSE UNCHANGED <<nic, atomic, outdated>>
        /\ IF r = "ok"
           THEN /\ Call(c, IF f.todo = {k} THEN "machine" ELSE "interface",
                           [f EXCEPT !.todo = @ \ {k}, !.made = @ \cup {k}])
                /\ excused' = excused \ {k}
           ELSE End(c) /\ excused' = excused \cup Loose(f.made \cup {k})
  BY DEF MakeInterface
<1>0. CloudType /\ HistoryType /\ FrameInv
  BY TypeParts
<1>2. /\ k \in Subnets /\ f \in Frames
      /\ [group |-> f.group, addr |-> None, tag |-> FALSE] \in Documents
  BY DEF Held, Frames, Documents
<1>3. /\ nic'[n] = (IF Done(r) /\ n = k THEN [group |-> f.group, addr |-> None, tag |-> FALSE]
                                        ELSE nic[n])
      /\ atomic'[n] = (IF Done(r) /\ n = k THEN [group |-> f.group, addr |-> None, tag |-> FALSE]
                                           ELSE atomic[n])
      /\ outdated' = IF Done(r) THEN outdated \ {k} ELSE outdated
  BY <1>0, <1>1 DEF Replace, CloudType, HistoryType
<1>4. /\ nic[n] # None /\ Attached(n) => nic'[n] # None
      /\ (n \notin outdated => nic[n] = atomic[n]) => (n \notin outdated' => nic'[n] = atomic'[n])
  <2>1. CASE Done(r) /\ n = k
    BY <1>2, <1>3, <2>1, NoneAssumption
  <2>2. CASE ~(Done(r) /\ n = k)
    <3>1. nic'[n] = nic[n] /\ atomic'[n] = atomic[n] /\ (n \in outdated => n \in outdated')
      BY <1>3, <2>2
    <3> QED BY <3>1
  <2> QED BY <2>1, <2>2
<1>5. CASE r = "ok"
  <2>1. Call(c, IF f.todo = {k} THEN "machine" ELSE "interface",
                [f EXCEPT !.todo = @ \ {k}, !.made = @ \cup {k}])
        /\ excused' = excused \ {k}
    BY <1>1, <1>5
  <2>2. /\ OwnFrame(c) /\ pc'[c] \in {"interface", "machine"}
        /\ frame'[c] = [f EXCEPT !.todo = @ \ {k}, !.made = @ \cup {k}]
    <3> DEFINE label == IF f.todo = {k} THEN "machine" ELSE "interface"
    <3>1. label \in {"interface", "machine"}
      OBVIOUS
    <3> HIDE DEF label
    <3> QED BY <1>0, <2>1, <3>1, CallOwn DEF label
  <2>5. frame'[c].made = f.made \cup {k}
    BY <1>2, <2>2 DEF Frames
  <2>3. n \in f.made \cup {k} => Holds(c, n)'
    BY <2>2, <2>5 DEF Holds
  <2>4. n # k => nic'[n] = nic[n]
    BY <1>3
  <2> QED BY <1>4, <2>1, <2>2, <2>3, <2>4 DEF InterfaceMove
<1>6. CASE r # "ok"
  <2>1. OwnFrame(c) /\ excused' = excused \cup Loose(f.made \cup {k})
    BY <1>0, <1>1, <1>6, EndOwn
  <2>2. n \in f.made \cup {k} /\ nic'[n] # None /\ ~Attached(n) => n \in excused'
    BY <2>1 DEF Loose
  <2>3. n # k => nic'[n] = nic[n]
    BY <1>3
  <2> QED BY <1>4, <2>1, <2>2, <2>3 DEF InterfaceMove
<1> QED BY <1>5, <1>6

LEMMA WriteMove ==
  ASSUME TypeInv, NEW c \in Callers, pc[c] \in {"update", "associate"}, WriteCopy(c), End(c),
         NEW n \in Subnets
  PROVE  InterfaceMove(c, n) /\ OwnFrame(c)
<1>0. CloudType /\ HistoryType /\ FrameInv
  BY TypeParts
<1>1. PICK k \in Subnets, d \in Documents :
        /\ k = frame[c].name /\ d = frame[c].copy
        /\ nic' = [nic EXCEPT ![k] = Change(c, d)]
        /\ atomic' = [atomic EXCEPT ![k] = IF nic[k] # d \/ @ = None THEN None ELSE Change(c, @)]
        /\ outdated' = IF nic[k] # d THEN outdated \cup {k} ELSE outdated
        /\ excused' = IF nic[k] # d THEN excused \cup Loose({k}) ELSE excused
        /\ \A e \in Documents : Change(c, e) \in Documents
  BY <1>0, WriteCopyIs
<1>2. OwnFrame(c) /\ ~Holds(c, n)
  BY <1>0, EndOwn DEF Holds
<1>3. CASE n # k
  <2>1. nic'[n] = nic[n] /\ atomic'[n] = atomic[n] /\ (n \in outdated' <=> n \in outdated)
        /\ excused \subseteq excused'
    BY <1>0, <1>1, <1>3 DEF CloudType, HistoryType
  <2> QED BY <1>2, <2>1 DEF InterfaceMove
<1>4. CASE n = k
  <2>1. /\ nic'[n] = Change(c, d) /\ d # None /\ Change(c, d) # None
        /\ atomic'[n] = IF nic[n] # d \/ atomic[n] = None THEN None ELSE Change(c, atomic[n])
    BY <1>0, <1>1, <1>4, NoneAssumption DEF CloudType, HistoryType
  <2>2. CASE nic[n] # d
    <3>1. n \in outdated' /\ (nic'[n] # None /\ ~Attached(n) => n \in excused')
      <4>1. n \in outdated' /\ excused' = excused \cup Loose({n})
        BY <1>1, <1>4, <2>2
      <4> QED BY <4>1 DEF Loose
    <3>2. nic'[n] # None
      BY <2>1
    <3> QED BY <1>2, <3>1, <3>2 DEF InterfaceMove
  <2>3. CASE nic[n] = d
    <3>1. UNCHANGED <<outdated, excused>> /\ nic[n] # None
      BY <1>1, <1>4, <2>1, <2>3
    <3> QED BY <1>2, <2>1, <2>3, <3>1 DEF InterfaceMove
  <2> QED BY <2>2, <2>3
<1> QED BY <1>2, <1>3, <1>4

LEMMA InterfaceSteps ==
  ASSUME TypeInv, NEW c \in Callers, InterfaceStep(c), NEW n \in Subnets
  PROVE  InterfaceMove(c, n) /\ OwnFrame(c) /\ UNCHANGED <<vm, known, unclaimed>>
<1>0. CloudType /\ HistoryType /\ FrameInv
  BY TypeParts
<1>1. UNCHANGED <<vm, known, unclaimed>>
  BY DEF InterfaceStep, Create, MakeNextInterface, MakeInterface, CreateInterface,
         DeleteInterface, PutUpdated, PutAssociated, toldVars
<1>2. CASE Create(c)
  <2>1. PICK s \in Servers, m \in Machines, g \in Groups :
          MakeInterface(c, [Empty EXCEPT !.srv = s, !.asked = m, !.todo = m, !.group = g])
    BY <1>2 DEF Create
  <2>2. ~Holds(c, n)
    BY <1>2 DEF Create, Holds
  <2> QED BY <1>1, <2>1, <2>2, StartHeld, MakeMove
<1>3. CASE MakeNextInterface(c)
  <2>1. Held("interface", frame[c]) /\ MakeInterface(c, frame[c])
    BY <1>0, <1>3 DEF MakeNextInterface, FrameInv
  <2> QED BY <1>1, <2>1, MakeMove DEF Holds
<1>4. CASE CreateInterface(c)
  <2>1. PICK k \in Subnets, g \in Groups, tag \in BOOLEAN, r \in Answers :
          IF Done(r) THEN /\ Replace(k, [group |-> g, addr |-> None, tag |-> tag])
                          /\ excused' = excused \cup Loose({k})
                     ELSE UNCHANGED <<nic, atomic, outdated, excused>>
    BY <1>4 DEF CreateInterface
  <2>2. OwnFrame(c) /\ (Holds(c, n) => Holds(c, n)') /\ ~Holds(c, n)
    BY <1>4 DEF CreateInterface, OwnFrame, Holds
  <2>3. CASE UNCHANGED <<nic, atomic, outdated, excused>>
    BY <1>1, <2>2, <2>3, SameMove
  <2>4. CASE /\ Replace(k, [group |-> g, addr |-> None, tag |-> tag])
             /\ excused' = excused \cup Loose({k})
    <3>1. [group |-> g, addr |-> None, tag |-> tag] # None
      BY NoneAssumption DEF Documents
    <3>2. n # k => /\ nic'[n] = nic[n] /\ atomic'[n] = atomic[n]
                   /\ (n \in outdated' <=> n \in outdated)
      BY <1>0, <2>4 DEF Replace, CloudType, HistoryType
    <3>3. n = k => nic'[n] # None /\ nic'[n] = atomic'[n]
                   /\ (nic'[n] # None /\ ~Attached(n) => n \in excused')
      BY <1>0, <2>4, <3>1 DEF Replace, CloudType, HistoryType, Loose
    <3> QED BY <1>1, <2>2, <2>4, <3>2, <3>3 DEF InterfaceMove
  <2> QED BY <2>1, <2>3, <2>4
<1>5. CASE DeleteInterface(c)
  <2>1. PICK k \in Subnets, r \in Answers :
          /\ ~Attached(k)
          /\ IF Done(r) THEN Replace(k, None) /\ excused' = excused \ {k}
                        ELSE UNCHANGED <<nic, atomic, outdated, excused>>
    BY <1>5 DEF DeleteInterface
  <2>2. OwnFrame(c) /\ (Holds(c, n) => Holds(c, n)') /\ ~Holds(c, n)
    BY <1>5 DEF DeleteInterface, OwnFrame, Holds
  <2>3. CASE UNCHANGED <<nic, atomic, outdated, excused>>
    BY <1>1, <2>2, <2>3, SameMove
  <2>4. CASE Replace(k, None) /\ excused' = excused \ {k}
    <3>1. n # k => /\ nic'[n] = nic[n] /\ atomic'[n] = atomic[n]
                   /\ (n \in outdated' <=> n \in outdated)
      BY <1>0, <2>4 DEF Replace, CloudType, HistoryType
    <3>2. n = k => nic'[n] = None /\ atomic'[n] = None /\ ~Attached(n)
      BY <1>0, <2>1, <2>4 DEF Replace, CloudType, HistoryType
    <3> QED BY <1>1, <2>2, <2>4, <3>1, <3>2 DEF InterfaceMove
  <2> QED BY <2>1, <2>3, <2>4
<1>6. CASE PutUpdated(c) \/ PutAssociated(c)
  <2>1. /\ pc[c] \in {"update", "associate"} /\ End(c)
        /\ WriteCopy(c) \/ UNCHANGED <<nic, atomic, outdated, excused>>
    BY <1>6 DEF PutUpdated, PutAssociated
  <2>2. OwnFrame(c) /\ ~Holds(c, n)
    BY <1>0, <2>1, EndOwn DEF Holds
  <2> QED BY <1>1, <2>1, <2>2, WriteMove, SameMove
<1> QED
  BY <1>2, <1>3, <1>4, <1>5, <1>6 DEF InterfaceStep

\* What a step does to the servers: one is made from free interfaces, or one is deleted.
Makes(s, made) ==
  /\ vm[s] = None /\ made \in Machines /\ Fits(made)
  /\ vm' = [vm EXCEPT ![s] = made]
  /\ \/ known' = [known EXCEPT ![s] = made] /\ UNCHANGED unclaimed
     \/ UNCHANGED known /\ unclaimed' = unclaimed \cup {s}

Deletes(s) ==
  /\ vm[s] # None
  /\ vm' = [vm EXCEPT ![s] = None] /\ known' = [known EXCEPT ![s] = None]
  /\ unclaimed' = unclaimed \ {s} /\ excused' = excused \cup vm[s]

LEMMA ServerSteps ==
  ASSUME TypeInv, NEW c \in Callers, ServerStep(c)
  PROVE  /\ UNCHANGED <<nic, atomic, outdated>> /\ OwnFrame(c)
         /\ \/ /\ UNCHANGED <<vm, known, unclaimed>>
               /\ excused \subseteq excused'
               /\ \A n \in Subnets : Holds(c, n) /\ nic[n] # None /\ ~Attached(n) => n \in excused'
            \/ \E s \in Servers, made \in Machines :
                 Makes(s, made) /\ excused' = excused \ made /\ \A n : Holds(c, n) => n \in made
            \/ \E s \in Servers : Deletes(s) /\ \A n : ~Holds(c, n)
<1>0. CloudType /\ HistoryType /\ FrameInv
  BY TypeParts
<1>1. UNCHANGED <<nic, atomic, outdated>>
  BY DEF ServerStep, PutMachine, Delete, PutResized
<1>2. CASE PutMachine(c)
  <2> DEFINE s == frame[c].srv
             made == frame[c].made
  <2>1. s \in Servers /\ made \in Machines /\ made = frame[c].asked /\ OwnFrame(c)
    BY <1>0, <1>2, EndOwn DEF PutMachine, FrameInv, Held
  <2>2. \/ /\ UNCHANGED <<vm, known, unclaimed>>
           /\ excused' = excused \cup Loose(made)
        \/ /\ ~Refuses(c)
           /\ vm' = [vm EXCEPT ![s] = made]
           /\ \/ known' = [known EXCEPT ![s] = frame[c].asked] /\ UNCHANGED unclaimed
              \/ UNCHANGED known /\ unclaimed' = unclaimed \cup {s}
           /\ excused' = excused \ made
    BY <1>2 DEF PutMachine, Answers, Done, toldVars
  <2>3. CASE UNCHANGED <<vm, known, unclaimed>> /\ excused' = excused \cup Loose(made)
    BY <1>1, <2>1, <2>3 DEF Loose, Holds
  <2>4. CASE /\ ~Refuses(c)
             /\ vm' = [vm EXCEPT ![s] = made]
             /\ \/ known' = [known EXCEPT ![s] = frame[c].asked] /\ UNCHANGED unclaimed
                \/ UNCHANGED known /\ unclaimed' = unclaimed \cup {s}
             /\ excused' = excused \ made
    <3>1. Makes(s, made) /\ \A n : Holds(c, n) => n \in made
      BY <2>1, <2>4 DEF Makes, Refuses, Holds
    <3> QED BY <1>1, <2>1, <2>4, <3>1
  <2> QED BY <2>2, <2>3, <2>4
<1>3. CASE Delete(c)
  <2>1. OwnFrame(c) /\ \A n : ~Holds(c, n)
    BY <1>3 DEF Delete, OwnFrame, Holds
  <2>2. UNCHANGED <<vm, known, unclaimed, excused>> \/ \E s \in Servers : Deletes(s)
    BY <1>3 DEF Delete, Deletes, toldVars
  <2> QED BY <1>1, <2>1, <2>2
<1>4. CASE PutResized(c)
  <2> DEFINE s == frame[c].srv
             made == frame[c].made
  <2>1. s \in Servers /\ made \in Machines /\ OwnFrame(c) /\ \A n : ~Holds(c, n)
    BY <1>0, <1>4, EndOwn DEF PutResized, FrameInv, Held, Holds
  <2>2. \/ UNCHANGED <<vm, known, unclaimed, excused>>
        \/ Makes(s, made) /\ excused' = excused \ made
    BY <1>4, <2>1 DEF PutResized, Makes
  <2> QED BY <1>1, <2>1, <2>2
<1> QED
  BY <1>2, <1>3, <1>4 DEF ServerStep

LEMMA OtherSteps ==
  ASSUME TypeInv, NEW c \in Callers, OtherStep(c)
  PROVE  /\ UNCHANGED <<nic, vm, known, atomic, outdated, unclaimed, excused>> /\ OwnFrame(c)
         /\ \A n : ~Holds(c, n)
<1>0. FrameInv
  BY TypeParts
<1> QED
  BY <1>0, CallOwn DEF OtherStep, Resize, Update, Associate, CreateAddress, DeleteAddress, Holds,
     OwnFrame, cloudVars, historyVars, toldVars

-----------------------------------------------------------------------------
SafetyInv == ReturnedServerWired /\ UpdatesAtomic /\ LeakExplained

IInv == TypeInv /\ SafetyInv

\* The two parts of LeakExplained
LooseHeld == \A n \in Subnets : nic[n] # None /\ ~Attached(n) /\ n \notin excused =>
               \E c \in Callers : Holds(c, n)
ServersTold == \A s \in Servers : vm[s] # None /\ known[s] = None => s \in unclaimed

LEMMA LeakParts == LeakExplained <=> LooseHeld /\ ServersTold
BY DEF LeakExplained, LooseHeld, ServersTold, Holds

LEMMA InterfaceStepSafe ==
  ASSUME IInv, NEW c \in Callers, InterfaceStep(c)
  PROVE  SafetyInv'
<1>1. /\ OwnFrame(c) \/ Subnets = {}
      /\ \A n \in Subnets : InterfaceMove(c, n)
      /\ UNCHANGED <<vm, known, unclaimed>> \/ Subnets = {}
  BY InterfaceSteps DEF IInv
<1>2. UNCHANGED <<vm, known, unclaimed>>
  BY DEF InterfaceStep, Create, MakeNextInterface, MakeInterface, CreateInterface,
         DeleteInterface, PutUpdated, PutAssociated, toldVars
<1>3. ReturnedServerWired'
  <2> SUFFICES ASSUME NEW s \in Servers, known[s] # None, NEW n \in known[s] PROVE nic'[n] # None
    BY <1>2 DEF ReturnedServerWired, IInv, SafetyInv
  <2>1. n \in Subnets /\ nic[n] # None /\ Attached(n)
    BY DEF IInv, SafetyInv, ReturnedServerWired, TypeInv, TypeOK, Machines, Attached
  <2> QED BY <1>1, <2>1 DEF InterfaceMove
<1>4. UpdatesAtomic'
  BY <1>1 DEF InterfaceMove, UpdatesAtomic, IInv, SafetyInv
<1>5. LooseHeld'
  <2> SUFFICES ASSUME NEW n \in Subnets, nic'[n] # None, ~Attached(n)', n \notin excused'
               PROVE  \E d \in Callers : Holds(d, n)'
    BY DEF LooseHeld
  <2>1. ~Attached(n)
    BY <1>2 DEF Attached
  <2>2. CASE Holds(c, n)'
    BY <2>2
  <2>3. CASE nic[n] # None /\ n \notin excused /\ ~Holds(c, n)
    <3>1. PICK d \in Callers : Holds(d, n)
      BY <2>1, <2>3, LeakParts DEF LooseHeld, IInv, SafetyInv
    <3> QED BY <1>1, <2>3, <3>1 DEF OwnFrame, Holds
  <2> QED BY <1>1, <2>1, <2>2, <2>3 DEF InterfaceMove
<1>6. ServersTold'
  BY <1>2, LeakParts DEF ServersTold, IInv, SafetyInv
<1>7. LeakExplained'
  BY <1>5, <1>6 DEF LeakExplained, LooseHeld, ServersTold, Holds
<1> QED
  BY <1>3, <1>4, <1>7 DEF SafetyInv

LEMMA MakesSafe ==
  ASSUME IInv, NEW c \in Callers, OwnFrame(c), UNCHANGED nic, NEW s \in Servers,
         NEW made \in Machines, Makes(s, made), excused' = excused \ made,
         \A n : Holds(c, n) => n \in made
  PROVE  ReturnedServerWired' /\ LooseHeld' /\ ServersTold'
<1>0. /\ vm \in [Servers -> Machines \cup {None}] /\ known \in [Servers -> Machines \cup {None}]
      /\ made # None /\ ReturnedServerWired /\ LooseHeld /\ ServersTold
  BY NoneAssumption, LeakParts DEF IInv, SafetyInv, TypeInv, TypeOK
<1>1. /\ vm'[s] = made /\ vm[s] = None
      /\ \A t \in Servers \ {s} : vm'[t] = vm[t] /\ known'[t] = known[t]
      /\ known'[s] \in {made, known[s]}
  BY <1>0 DEF Makes
<1>2. known[s] = None
  BY <1>0, <1>1, NoneAssumption DEF ReturnedServerWired
<1>3. \A n \in made : nic[n] # None /\ ~Attached(n)
  BY DEF Makes, Fits
<1>4. \A t \in Servers \ {s} : vm[t] # None => vm[t] \cap made = {}
  BY <1>3 DEF Attached
<1>5. ReturnedServerWired'
  <2> SUFFICES ASSUME NEW t \in Servers, known'[t] # None
               PROVE  /\ vm'[t] = known'[t]
                      /\ \A n \in known'[t] : nic'[n] # None
                      /\ \A u \in Servers \ {t} : vm'[u] # None => vm'[u] \cap known'[t] = {}
    BY DEF ReturnedServerWired
  <2>1. CASE t = s
    BY <1>1, <1>2, <1>3, <1>4, <2>1
  <2>2. CASE t # s
    <3>1. known'[t] = known[t] /\ vm'[t] = known[t] /\ vm[t] # None /\ vm[t] = known[t]
      BY <1>0, <1>1, <2>2 DEF ReturnedServerWired
    <3>2. made \cap known[t] = {}
      BY <1>4, <2>2, <3>1
    <3>3. \A u \in Servers \ {t} : vm'[u] # None => vm'[u] \cap known[t] = {}
      BY <1>0, <1>1, <3>1, <3>2 DEF ReturnedServerWired
    <3> QED BY <1>0, <3>1, <3>3 DEF ReturnedServerWired
  <2> QED BY <2>1, <2>2
<1>6. LooseHeld'
  <2> SUFFICES ASSUME NEW n \in Subnets, nic'[n] # None, ~Attached(n)', n \notin excused'
               PROVE  \E d \in Callers : Holds(d, n)'
    BY DEF LooseHeld
  <2>1. n \notin made
    BY <1>0, <1>1 DEF Attached
  <2>2. ~Attached(n)
    BY <1>1 DEF Attached
  <2>3. PICK d \in Callers : Holds(d, n)
    BY <1>0, <2>1, <2>2 DEF LooseHeld
  <2> QED BY <2>1, <2>3 DEF OwnFrame, Holds
<1>7. ServersTold'
  <2> SUFFICES ASSUME NEW t \in Servers, vm'[t] # None, known'[t] = None PROVE t \in unclaimed'
    BY DEF ServersTold
  <2>1. CASE t = s
    BY <1>0, <2>1 DEF Makes
  <2>2. CASE t # s
    BY <1>0, <1>1, <2>2 DEF ServersTold, Makes
  <2> QED BY <2>1, <2>2
<1> QED BY <1>5, <1>6, <1>7

LEMMA DeletesSafe ==
  ASSUME IInv, NEW c \in Callers, OwnFrame(c), UNCHANGED nic, NEW s \in Servers, Deletes(s),
         \A n : ~Holds(c, n)
  PROVE  ReturnedServerWired' /\ LooseHeld' /\ ServersTold'
<1>0. /\ vm \in [Servers -> Machines \cup {None}] /\ known \in [Servers -> Machines \cup {None}]
      /\ ReturnedServerWired /\ LooseHeld /\ ServersTold
  BY LeakParts DEF IInv, SafetyInv, TypeInv, TypeOK
<1>1. /\ vm'[s] = None /\ known'[s] = None
      /\ \A t \in Servers \ {s} : vm'[t] = vm[t] /\ known'[t] = known[t]
  BY <1>0 DEF Deletes
<1>2. ReturnedServerWired'
  <2> SUFFICES ASSUME NEW t \in Servers, known'[t] # None
               PROVE  /\ vm'[t] = known'[t]
                      /\ \A n \in known'[t] : nic'[n] # None
                      /\ \A u \in Servers \ {t} : vm'[u] # None => vm'[u] \cap known'[t] = {}
    BY DEF ReturnedServerWired
  <2>1. t # s /\ known'[t] = known[t] /\ vm'[t] = vm[t]
    BY <1>1
  <2> QED BY <1>0, <1>1, <2>1 DEF ReturnedServerWired
<1>3. LooseHeld'
  <2> SUFFICES ASSUME NEW n \in Subnets, nic'[n] # None, ~Attached(n)', n \notin excused'
               PROVE  \E d \in Callers : Holds(d, n)'
    BY DEF LooseHeld
  <2>1. n \notin excused /\ n \notin vm[s]
    BY DEF Deletes
  <2>2. ~Attached(n)
    BY <1>1, <2>1 DEF Attached
  <2>3. PICK d \in Callers : Holds(d, n)
    BY <1>0, <2>1, <2>2 DEF LooseHeld
  <2> QED BY <2>3 DEF OwnFrame, Holds
<1>4. ServersTold'
  BY <1>0, <1>1 DEF ServersTold, Deletes
<1> QED BY <1>2, <1>3, <1>4

\* A step that leaves the servers alone and lets go of no interface that is loose.
LEMMA IdleSafe ==
  ASSUME IInv, NEW c \in Callers, OwnFrame(c), UNCHANGED <<nic, vm, known, unclaimed>>,
         excused \subseteq excused',
         \A n \in Subnets : Holds(c, n) /\ nic[n] # None /\ ~Attached(n) => n \in excused'
  PROVE  ReturnedServerWired' /\ LooseHeld' /\ ServersTold'
<1>0. ReturnedServerWired /\ LooseHeld /\ ServersTold
  BY LeakParts DEF IInv, SafetyInv
<1>1. ReturnedServerWired' /\ ServersTold'
  BY <1>0 DEF ReturnedServerWired, ServersTold
<1>2. \A n \in Subnets : Attached(n)' <=> Attached(n)
  BY DEF Attached
<1>3. LooseHeld'
  BY <1>0, <1>2 DEF LooseHeld, OwnFrame, Holds
<1> QED BY <1>1, <1>3

LEMMA IInvStep == IInv /\ [Next]_vars => IInv'
<1> SUFFICES ASSUME IInv, [Next]_vars PROVE IInv'
  OBVIOUS
<1>0. TypeInv /\ TypeInv'
  BY TypeInvStep DEF IInv
<1>1. LooseHeld' /\ ServersTold' => LeakExplained'
  BY DEF LeakExplained, LooseHeld, ServersTold, Holds
<1>2. ASSUME NEW c \in Callers, ServerStep(c) PROVE SafetyInv'
  <2>1. UpdatesAtomic'
    BY <1>0, <1>2, ServerSteps DEF UpdatesAtomic, IInv, SafetyInv
  <2>2. ReturnedServerWired' /\ LooseHeld' /\ ServersTold'
    BY <1>0, <1>2, ServerSteps, IdleSafe, MakesSafe, DeletesSafe
  <2> QED BY <1>1, <2>1, <2>2 DEF SafetyInv
<1>3. ASSUME NEW c \in Callers, OtherStep(c) PROVE SafetyInv'
  <2>1. UpdatesAtomic'
    BY <1>0, <1>3, OtherSteps DEF UpdatesAtomic, IInv, SafetyInv
  <2>2. ReturnedServerWired' /\ LooseHeld' /\ ServersTold'
    BY <1>0, <1>3, OtherSteps, IdleSafe
  <2> QED BY <1>1, <2>1, <2>2 DEF SafetyInv
<1>4. ASSUME UNCHANGED vars PROVE SafetyInv'
  BY <1>4 DEF vars, cloudVars, historyVars, toldVars, IInv, SafetyInv, ReturnedServerWired,
     UpdatesAtomic, LeakExplained, Attached
<1> QED
  BY <1>0, <1>2, <1>3, <1>4, StepKinds, InterfaceStepSafe DEF IInv, Next

LEMMA IInvInit == Init => IInv
<1> SUFFICES ASSUME Init PROVE SafetyInv
  BY TypeInvInit DEF IInv
<1> QED
  BY DEF Init, SafetyInv, ReturnedServerWired, UpdatesAtomic, LeakExplained, Attached

\* A server that Create returned keeps the interfaces that were asked for, alone, until it is
\* deleted, whatever is created, written or deleted under the same names.
THEOREM ServersStayWired == Spec => []ReturnedServerWired
<1>1. IInv => ReturnedServerWired
  BY DEF IInv, SafetyInv
<1> QED
  BY IInvInit, IInvStep, <1>1, PTL DEF Spec

\* An interface written from up-to-date copies is what updates in one step would have made.
THEOREM UpdatesAreAtomic == Spec => []UpdatesAtomic
<1>1. IInv => UpdatesAtomic
  BY DEF IInv, SafetyInv
<1> QED
  BY IInvInit, IInvStep, <1>1, PTL DEF Spec

\* Interfaces without a server and servers nobody was told of are left only by a failed or
\* refused call, the deletion of the server, or a write from an outdated copy.
THEOREM LeaksAreExplained == Spec => []LeakExplained
<1>1. IInv => LeakExplained
  BY DEF IInv, SafetyInv
<1> QED
  BY IInvInit, IInvStep, <1>1, PTL DEF Spec

-----------------------------------------------------------------------------
(***************************************************************************)
(* IpRange: GetRange reports the hosts of a block, whatever the width of   *)
(* addresses and the block.                                                *)
(***************************************************************************)


\* The block has the address: what clearing the bits after the prefix gives.
InBlock == base <= ip /\ ip < base + length

\* What the loop has found so far: between the first address and the one it has reached there is
\* nothing but the block, and when it stops the next address is outside.
Walked == /\ last >= First
          /\ last = First \/ Contains(last)
          /\ stage = "done" => ~Contains(NextIP(last))

RangeInv == RangeTypeOK /\ InBlock /\ Walked

\* Clearing the last bits of an address leaves a number not above it and less than a block below.
LEMMA BaseBelow ==
  ASSUME NEW a \in Nat, NEW n \in Nat \ {0}
  PROVE  /\ a - (a % n) \in Nat
         /\ a - (a % n) <= a
         /\ a < a - (a % n) + n
<1>1. a % n \in 0 .. n - 1
  BY SMT
<1>2. a % n <= a
  BY Z3T(10)
<1> QED  BY <1>1, <1>2

\* The loop starts at the successor of an address of the block.
LEMMA RangeInvInit == RangeInit => RangeInv
<1> SUFFICES ASSUME RangeInit PROVE RangeInv
  OBVIOUS
<1>1. ip \in Nat /\ length \in Nat \ {0} /\ base = ip - (ip % length)
  BY LimitAssumption, LengthsAssumption DEF RangeInit, IPs
<1>2. base \in Nat /\ base <= ip /\ ip < base + length
  BY <1>1, BaseBelow
<1>3. RangeTypeOK
  BY <1>2 DEF RangeInit, RangeTypeOK
<1>4. Walked
  BY <1>1 DEF RangeInit, Walked, First, NextIP
<1> QED  BY <1>2, <1>3, <1>4 DEF RangeInv, InBlock

\* One round of the loop, or its end
LEMMA RangeInvStep == RangeInv /\ [RangeNext]_rangeVars => RangeInv'
<1> SUFFICES ASSUME RangeInv, [RangeNext]_rangeVars PROVE RangeInv'
  OBVIOUS
<1> USE LimitAssumption, LengthsAssumption DEF RangeInv, RangeTypeOK, InBlock, Walked, IPs, First,
        NextIP, Contains
<1>1. CASE Advance
  BY <1>1 DEF Advance
<1>2. CASE Finish
  BY <1>2 DEF Finish
<1>3. CASE UNCHANGED rangeVars
  BY <1>3 DEF rangeVars
<1> QED  BY <1>1, <1>2, <1>3 DEF RangeNext

\* When the loop has ended the invariant fixes the address it ended on.
LEMMA InvRange == RangeInv => RangeIsHosts
<1> SUFFICES ASSUME RangeInv, stage = "done" PROVE FirstIP .. LastIP = {a \in Hosts : ip < a}
  BY DEF RangeIsHosts
<1> USE LimitAssumption, LengthsAssumption DEF RangeInv, RangeTypeOK, InBlock, Walked, IPs, First,
        NextIP, Contains
<1>1. ip \in Int /\ base \in Int /\ length \in Int /\ last \in Int
  OBVIOUS
<1>2. last = ip + 1 \/ last <= base + length - 1
  OBVIOUS
<1>3. last + 1 >= base + length
  OBVIOUS
<1>4. last - 1 = base + length - 2 \/ (last = ip + 1 /\ ip + 1 > base + length - 2)
  BY <1>1, <1>2, <1>3
<1> HIDE DEF RangeInv, RangeTypeOK, InBlock, Walked, IPs, Contains
<1>5. ASSUME NEW a \in Int
      PROVE  a \in FirstIP .. LastIP <=> a \in Hosts /\ ip < a
  <2>1. base <= ip
    BY DEF RangeInv, InBlock
  <2> QED  BY <1>1, <1>4, <2>1 DEF FirstIP, LastIP, PreviousIP, Hosts
<1>6. FirstIP .. LastIP \subseteq Int /\ Hosts \subseteq Int
  BY DEF FirstIP, LastIP, PreviousIP, Hosts
<1> QED  BY <1>5, <1>6

\* Every variable of GetRange keeps its type, and the loop does not leave the block.
THEOREM RangeTypeCorrect == RangeSpec => []RangeTypeOK
<1>1. RangeInv => RangeTypeOK
  BY DEF RangeInv
<1> QED  BY <1>1, RangeInvInit, RangeInvStep, PTL DEF RangeSpec

\* Whatever the address, the block and the width of addresses, what GetRange reports are the hosts
\* of the block after the address it was asked with.
THEOREM RangeCorrect == RangeSpec => []RangeIsHosts
<1> QED  BY RangeInvInit, RangeInvStep, InvRange, PTL DEF RangeSpec

=============================================================================

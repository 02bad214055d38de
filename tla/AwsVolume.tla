----------------------------- MODULE AwsVolume ------------------------------
(***************************************************************************)
(* VolumeManager of the AWS provider (providers/aws/volumes.go).           *)
(*                                                                         *)
(* As in AwsNetwork a caller is a small stack frame, one action is one     *)
(* call to EC2, and an answer is "ok", "refused", "fail" or "lost"; only   *)
(* "fail" and "lost" are charged to faults.  Waiters give up at any time.  *)
(* hit[v] remembers what went wrong for volume v.                          *)
(*                                                                         *)
(* What a user asks for is a record of a size, a number of I/O operations  *)
(* and a data rate; what EC2 makes of it has a size and a type.  EC2 may   *)
(* refuse any of it: a call that is refused changes nothing.               *)
(*                                                                         *)
(* List hands out nothing (line 153); users read identifiers from EC2, and *)
(* may name any volume, also one that another caller is still creating.    *)
(* EC2 attaches, detaches and makes volumes in the background.             *)
(***************************************************************************)
EXTENDS Integers, FiniteSets

CONSTANTS Callers,    \* concurrent users of the library
          Volumes,    \* identifiers EC2 can hand out for volumes
          Servers,    \* running servers
          Sizes,      \* sizes users ask for, in GiB
          IOPS,       \* numbers of I/O operations per second they ask for
          Rates,      \* data rates they ask for, in MB/s
          MaxFaults,  \* bound on injected faults
          None

ASSUME MaxFaultsAssumption == MaxFaults \in Nat
ASSUME OptionsAssumption ==
  Sizes \subseteq Nat \ {0} /\ IOPS \subseteq Nat /\ Rates \subseteq Nat
ASSUME NoneAssumption == None \notin Volumes \cup Servers

VARIABLES vstate, type, server,  \* EC2: volumes and where they are attached
          asked,                 \* what the volume was made or resized for, with its size
          pc, vol, out,          \* the callers; out is the type in the answer of CreateVolume
          known,                 \* volumes users were given
          promised,              \* the server a caller was told the volume is attached to
          faults, hit

volumeVars == <<vstate, type, server, asked>>
frameVars  == <<pc, vol, out>>
userVars   == <<known, promised>>
faultVars  == <<faults, hit>>
vars == <<volumeVars, frameVars, userVars, faultVars>>

Types   == {"sc1", "st1", "gp2", "io1"}
Options == [size : Sizes, iops : IOPS, rate : Rates]
NoOptions == [size |-> 0, iops |-> 0, rate |-> 0]
Causes  == {"CreateVolume", "UndoCreate", "Creating", "Attached", "NoIops"}

\* The states of a volume that has an attachment
Plugged == {"attaching", "in-use", "detaching"}

\* Types.  Volumes, servers and types of volumes are strings in volumes.go: none is used for
\* another.
TypeOK ==
  /\ vstate \in [Volumes -> Plugged \cup {"none", "creating", "error", "available", "gone"}]
  /\ type \in [Volumes -> Types \cup {None}]
  /\ server \in [Volumes -> Servers \cup {None}]
  /\ asked \in [Volumes -> Options \cup {NoOptions}]
  /\ pc \in [Callers -> {"idle", "WaitCreated", "UndoCreate", "WaitDetached"}]
  /\ vol \in [Callers -> Volumes \cup {None}]
  /\ out \in [Callers -> Types \cup {None}]
  /\ known \in SUBSET Volumes
  /\ promised \in [Volumes -> Servers \cup {None}]
  /\ faults \in 0 .. MaxFaults
  /\ hit \in [Volumes -> SUBSET Causes]

Init ==
  /\ vstate = [v \in Volumes |-> "none"]
  /\ type = [v \in Volumes |-> None] /\ server = [v \in Volumes |-> None]
  /\ asked = [v \in Volumes |-> NoOptions]
  /\ pc = [c \in Callers |-> "idle"] /\ vol = [c \in Callers |-> None]
  /\ out = [c \in Callers |-> None]
  /\ known = {}
  /\ promised = [v \in Volumes |-> None]
  /\ faults = 0 /\ hit = [v \in Volumes |-> {}]

-----------------------------------------------------------------------------
\* Units.  The code multiplies and divides floating point numbers and truncates.

cMBToMiB(v) == (v * 100000) \div 104858
cGBToGiB(v) == (v * 100000) \div 107374
cMiBToMB(v) == (v * 104858) \div 100000
cGiBToGB(v) == (v * 107374) \div 100000

IsHDD(o, limit) == o.iops < limit /\ o.rate < limit /\ o.size >= 500

\* A faulty IsGP2: the lower of the two rates is converted the wrong way.
IsGP2Swapped(o) ==
  /\ o.iops <= 16000 /\ o.size >= 4
  /\ \/ o.rate <= cMBToMiB(250) /\ o.size >= cGBToGiB(334)
     \/ o.rate <= cMiBToMB(132)

IsGP2(o) ==
  /\ o.iops <= 16000 /\ o.size >= 4
  /\ \/ o.rate <= cMBToMiB(250) /\ o.size >= cGBToGiB(334)
     \/ o.rate <= cMBToMiB(128)

selectVolumeType(o) ==
  IF IsHDD(o, 250) THEN "sc1"
  ELSE IF IsHDD(o, 500) THEN "st1"
  ELSE IF IsGP2(o) THEN "gp2" ELSE "io1"

\* The data rate reported for a volume
DataRate(t, sz) ==
  CASE t = "gp2" -> IF sz <= cGiBToGB(334) THEN cMiBToMB(128) ELSE cMiBToMB(250)
    [] t = "st1" -> 500
    [] t = "sc1" -> 250
    [] t = "io1" -> cMiBToMB(1000)

-----------------------------------------------------------------------------
\* Answers of EC2, what they cost, and the frame

Answers(pre) == IF pre THEN {"ok", "fail", "lost"} ELSE {"refused"}
Applied(a)   == a \in {"ok", "lost"}

Note(v, cause) == hit' = [hit EXCEPT ![v] = @ \cup {cause}]

Charge(a, v, cause) ==
  IF a \in {"fail", "lost"}
  THEN faults < MaxFaults /\ faults' = faults + 1 /\ Note(v, cause)
  ELSE UNCHANGED faultVars

Tolerate(a) == /\ IF a \in {"fail", "lost"} THEN faults < MaxFaults /\ faults' = faults + 1
                                            ELSE UNCHANGED faults
               /\ UNCHANGED hit

Goto(c, call, v, t) == /\ pc' = [pc EXCEPT ![c] = call]
                       /\ vol' = [vol EXCEPT ![c] = v]
                       /\ out' = [out EXCEPT ![c] = t]

Return(c) == Goto(c, "idle", None, None)

\* A volume EC2 knows of
Exists(v) == vstate[v] \notin {"none", "gone"}

-----------------------------------------------------------------------------
\* Create and Delete

Create(c) ==
  /\ pc[c] = "idle"
  /\ \E v \in Volumes, o \in Options, a \in {"ok", "lost"} :
       /\ vstate[v] = "none"
       /\ vstate' = [vstate EXCEPT ![v] = "creating"]
       /\ type' = [type EXCEPT ![v] = selectVolumeType(o)]
       /\ asked' = [asked EXCEPT ![v] = o]
       /\ Charge(a, v, "CreateVolume")
       /\ IF a = "ok" THEN Goto(c, "WaitCreated", v, selectVolumeType(o)) ELSE Return(c)
  /\ UNCHANGED <<server, userVars>>

\* The conversion of the answer dereferences the number of I/O operations, which EC2 reports for
\* solid-state volumes only: Create panics after the volume was made (line 125).
HasIops(t) == t \in {"gp2", "io1"}

Convert(c) ==
  /\ IF HasIops(out[c]) THEN known' = known \cup {vol[c]} /\ UNCHANGED faultVars
                        ELSE Note(vol[c], "NoIops") /\ UNCHANGED <<known, faults>>
  /\ Return(c)

\* A faulty WaitCreated: the error of the waiter is returned and nothing is deleted.
WaitOrReturn(c) ==
  /\ pc[c] = "WaitCreated"
  /\ \/ vstate[vol[c]] = "available" /\ Convert(c)
     \/ Return(c) /\ UNCHANGED <<known, faultVars>>
  /\ UNCHANGED <<volumeVars, promised>>

WaitCreated(c) ==
  /\ pc[c] = "WaitCreated"
  /\ \/ vstate[vol[c]] = "available" /\ Convert(c)
     \/ Goto(c, "UndoCreate", vol[c], None) /\ UNCHANGED <<known, faultVars>>
  /\ UNCHANGED <<volumeVars, promised>>

Deletable(v) == vstate[v] \in {"available", "error"}

\* The method Delete.  EC2 deletes neither a volume it is still making nor one that somebody has
\* attached meanwhile.
UndoCreate(c) ==
  /\ pc[c] = "UndoCreate"
  /\ \E a \in Answers(Deletable(vol[c])) :
       /\ vstate' = IF Applied(a) THEN [vstate EXCEPT ![vol[c]] = "gone"] ELSE vstate
       /\ IF a = "refused" /\ Exists(vol[c])
          THEN /\ Note(vol[c], IF vstate[vol[c]] = "creating" THEN "Creating" ELSE "Attached")
               /\ UNCHANGED faults
          ELSE Charge(a, vol[c], "UndoCreate")
  /\ Return(c)
  /\ UNCHANGED <<type, server, asked, userVars>>

Delete(c) ==
  /\ pc[c] = "idle"
  /\ \E v \in Volumes, a \in {"ok", "lost"} :
       /\ Deletable(v)
       /\ vstate' = [vstate EXCEPT ![v] = "gone"]
       /\ Tolerate(a)
  /\ UNCHANGED <<type, server, asked, frameVars, userVars>>

-----------------------------------------------------------------------------
\* Attach, Detach and Resize

\* The answer of EC2 is not waited upon: the volume is attaching when Attach returns.
Attach(c) ==
  /\ pc[c] = "idle"
  /\ \E v \in Volumes, s \in Servers, a \in {"ok", "lost"} :
       /\ vstate[v] = "available"
       /\ vstate' = [vstate EXCEPT ![v] = "attaching"]
       /\ server' = [server EXCEPT ![v] = s]
       /\ promised' = [promised EXCEPT ![v] = IF a = "ok" THEN s ELSE None]
       /\ Tolerate(a)
  /\ UNCHANGED <<type, asked, frameVars, known>>

\* A faulty Detach: the request names the volume and not the server.
DetachAnywhere(c) ==
  /\ pc[c] = "idle"
  /\ \E v \in Volumes, s \in Servers, a \in {"ok", "lost"} :
       /\ vstate[v] \in {"attaching", "in-use"}
       /\ vstate' = [vstate EXCEPT ![v] = "detaching"]
       /\ promised' = [promised EXCEPT ![v] = IF @ = s THEN None ELSE @]
       /\ Tolerate(a)
       /\ IF a = "ok" THEN Goto(c, "WaitDetached", v, None) ELSE UNCHANGED frameVars
  /\ UNCHANGED <<type, server, asked, known>>

\* EC2 refuses when the volume is attached to another server than the one of the options.
Detach(c) ==
  /\ pc[c] = "idle"
  /\ \E v \in Volumes, s \in Servers, a \in {"ok", "lost"} :
       /\ vstate[v] \in {"attaching", "in-use"} /\ server[v] = s
       /\ vstate' = [vstate EXCEPT ![v] = "detaching"]
       /\ promised' = [promised EXCEPT ![v] = None]
       /\ Tolerate(a)
       /\ IF a = "ok" THEN Goto(c, "WaitDetached", v, None) ELSE UNCHANGED frameVars
  /\ UNCHANGED <<type, server, asked, known>>

\* The caller sees an error however the wait ends: its constructor never returns nil.
WaitDetached(c) ==
  /\ pc[c] = "WaitDetached"
  /\ Return(c)
  /\ UNCHANGED <<volumeVars, userVars, faultVars>>

\* Get reports a volume it finds as an error (line 175), so that Resize always ends with one.
Resize(c) ==
  /\ pc[c] = "idle"
  /\ \E v \in Volumes, o \in Options, a \in {"ok", "lost"} :
       /\ vstate[v] \in {"available", "attaching", "in-use"} /\ o.size >= asked[v].size
       /\ type' = [type EXCEPT ![v] = selectVolumeType(o)]
       /\ asked' = [asked EXCEPT ![v] = o]
       /\ Tolerate(a)
  /\ UNCHANGED <<vstate, server, frameVars, userVars>>

-----------------------------------------------------------------------------
\* What EC2 does in the background

FinishCreate(v) == /\ vstate[v] = "creating"
                   /\ \E s \in {"available", "error"} : vstate' = [vstate EXCEPT ![v] = s]
                   /\ UNCHANGED server

FinishAttach(v) == /\ vstate[v] = "attaching"
                   /\ vstate' = [vstate EXCEPT ![v] = "in-use"]
                   /\ UNCHANGED server

FinishDetach(v) == /\ vstate[v] = "detaching"
                   /\ vstate' = [vstate EXCEPT ![v] = "available"]
                   /\ server' = [server EXCEPT ![v] = None]

Background == /\ \E v \in Volumes : FinishCreate(v) \/ FinishAttach(v) \/ FinishDetach(v)
              /\ UNCHANGED <<type, asked, frameVars, userVars, faultVars>>

CallerNext(c) ==
  \/ Create(c) \/ WaitCreated(c) \/ UndoCreate(c) \/ Delete(c)
  \/ Attach(c) \/ Detach(c) \/ WaitDetached(c) \/ Resize(c)

Next == (\E c \in Callers : CallerNext(c)) \/ Background

Spec == Init /\ [][Next]_vars

-----------------------------------------------------------------------------
\* Properties

Creates(c, v) == pc[c] \in {"WaitCreated", "UndoCreate"} /\ vol[c] = v

\* A volume that exists and that Create told nobody of, while none works on it, is either one whose
\* conversion panicked, which happens to magnetic volumes only (line 125), or was left by a lost
\* answer, by a failed undo, or by an undo that EC2 refused because it was still making the volume
\* Create had stopped waiting for, or because somebody had attached it (lines 57-64).
VolumeLeakExplained ==
  \A v \in Volumes \ known :
    Exists(v) /\ (\A c \in Callers : ~Creates(c, v))
      => hit[v] \cap {"NoIops", "CreateVolume", "UndoCreate", "Creating", "Attached"} # {}

\* A caller that was told its volume is attached to a server keeps it there until somebody asks
\* to detach it from that server: a Detach that was meant for an earlier attachment, a Delete or a
\* Resize of another caller does not take it away.
AttachmentStays ==
  \A v \in Volumes :
    promised[v] # None => vstate[v] \in {"attaching", "in-use"} /\ server[v] = promised[v]

\* The data rate a volume is reported to have is at least the one it was created or resized for,
\* except in the two gaps between selectVolumeType and volume: the size at which gp2 becomes
\* faster is converted to GiB by the one and to GB by the other, and io1 is chosen for whatever no
\* type can do.
RateKeptOutsideGaps ==
  \A v \in known :
    LET o == asked[v] IN
    \/ DataRate(type[v], o.size) >= o.rate
    \/ /\ type[v] = "gp2"
       /\ o.size \in cGBToGiB(334) .. cGiBToGB(334)
       /\ o.rate \in cMiBToMB(128) + 1 .. cMBToMiB(250)
    \/ type[v] = "io1" /\ o.rate > cMiBToMB(1000)

=============================================================================

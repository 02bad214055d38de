-------------------------- MODULE AwsVolume_proofs --------------------------
(* Volumes of AWS: types, leaks, attachments and data rates, for any callers, volumes, servers and *)
(* options.                                                                                        *)
EXTENDS AwsVolume, TLAPS

\* What the program counter says of the volume a caller works on
FrameInv ==
  \A c \in Callers : /\ pc[c] \in {"WaitCreated", "UndoCreate"} => vol[c] \in Volumes
                     /\ pc[c] = "idle" => vol[c] = None

TypeInv == TypeOK /\ FrameInv

\* The type of a volume is the one selected for what it was last made or resized for.
TypeSelected ==
  \A v \in Volumes : vstate[v] # "none"
    => asked[v] \in Options /\ type[v] = selectVolumeType(asked[v])

\* What was given to a user was made.
KnownMade == \A v \in known : vstate[v] # "none"

\* A volume Create works on was made.
CreatesMade ==
  \A c \in Callers : pc[c] \in {"WaitCreated", "UndoCreate"} => vstate[vol[c]] # "none"

IInv == TypeInv /\ KnownMade /\ CreatesMade /\ TypeSelected /\ VolumeLeakExplained /\ AttachmentStays

-----------------------------------------------------------------------------
\* The types of volumes, for all sizes, numbers of operations and rates

\* selectVolumeType answers with one of the types EC2 has.
LEMMA SelectType ==
  ASSUME NEW o \in Options
  PROVE  selectVolumeType(o) \in Types
BY DEF selectVolumeType, Types

\* The four converted numbers that decide
LEMMA Conversions ==
  /\ cMBToMiB(250) = 238 /\ cMBToMiB(128) = 122 /\ cGBToGiB(334) = 311
  /\ cGiBToGB(334) = 358 /\ cMiBToMB(128) = 134 /\ cMiBToMB(250) = 262 /\ cMiBToMB(1000) = 1048
BY SMT DEF cMBToMiB, cGBToGiB, cGiBToGB, cMiBToMB

\* Whatever is asked for, the type that is selected is reported as fast enough, outside the gaps.
LEMMA SelectedRate ==
  ASSUME NEW o \in Options
  PROVE  LET t == selectVolumeType(o) IN
         \/ DataRate(t, o.size) >= o.rate
         \/ /\ t = "gp2"
            /\ o.size \in cGBToGiB(334) .. cGiBToGB(334)
            /\ o.rate \in cMiBToMB(128) + 1 .. cMBToMiB(250)
         \/ t = "io1" /\ o.rate > cMiBToMB(1000)
<1> DEFINE t == selectVolumeType(o)
<1>1. o.size \in Nat /\ o.iops \in Nat /\ o.rate \in Nat
  BY OptionsAssumption DEF Options
<1>2. CASE t = "sc1"
  <2>1. o.rate < 250
    BY <1>2 DEF selectVolumeType, IsHDD
  <2> QED  BY <1>1, <1>2, <2>1 DEF DataRate
<1>3. CASE t = "st1"
  <2>1. o.rate < 500
    BY <1>3 DEF selectVolumeType, IsHDD
  <2> QED  BY <1>1, <1>3, <2>1 DEF DataRate
<1>4. CASE t = "gp2"
  <2>1. IsGP2(o)
    BY <1>4 DEF selectVolumeType
  <2>2. (o.rate <= 238 /\ o.size >= 311) \/ o.rate <= 122
    BY <2>1, Conversions DEF IsGP2
  <2>3. DataRate("gp2", o.size) = IF o.size <= 358 THEN 134 ELSE 262
    BY Conversions DEF DataRate
  <2>4. CASE DataRate("gp2", o.size) >= o.rate
    BY <1>4, <2>4
  <2>5. CASE ~(DataRate("gp2", o.size) >= o.rate)
    <3>1. o.size \in 311 .. 358 /\ o.rate \in 135 .. 238
      BY <1>1, <2>2, <2>3, <2>5
    <3>2. /\ o.size \in cGBToGiB(334) .. cGiBToGB(334)
          /\ o.rate \in cMiBToMB(128) + 1 .. cMBToMiB(250)
      BY <3>1, Conversions
    <3> QED  BY <1>4, <3>2
  <2> QED  BY <2>4, <2>5
<1>5. CASE t = "io1"
  <2>1. DataRate("io1", o.size) = 1048
    BY Conversions DEF DataRate
  <2> QED  BY <1>1, <1>5, <2>1, Conversions
<1> QED  BY <1>2, <1>3, <1>4, <1>5, SelectType DEF Types

-----------------------------------------------------------------------------
\* At first there is no volume.
LEMMA InitInv == Init => IInv
BY MaxFaultsAssumption, NoneAssumption
   DEF Init, IInv, TypeInv, TypeOK, FrameInv, KnownMade, CreatesMade, TypeSelected, VolumeLeakExplained,
       AttachmentStays, Plugged, Exists

\* Every step keeps the types and the frames.
LEMMA NextType == TypeInv /\ [Next]_vars => TypeInv'
<1> SUFFICES ASSUME TypeInv, [Next]_vars PROVE TypeInv'
  OBVIOUS
<1> USE MaxFaultsAssumption, NoneAssumption DEF TypeInv, TypeOK, FrameInv, Goto, Return, Applied,
        Causes, Plugged, volumeVars, frameVars, userVars, faultVars
<1>0. \A o \in Options : selectVolumeType(o) \in Types
  BY SelectType
<1>1. ASSUME NEW c \in Callers, Create(c) PROVE TypeInv'
  BY <1>0, <1>1 DEF Create, Charge, Note
<1>2. ASSUME NEW c \in Callers, WaitCreated(c) PROVE TypeInv'
  BY <1>2 DEF WaitCreated, Convert, Note
<1>3. ASSUME NEW c \in Callers, UndoCreate(c) PROVE TypeInv'
  BY <1>3 DEF UndoCreate, Charge, Note, Answers
<1>4. ASSUME NEW c \in Callers, Delete(c) PROVE TypeInv'
  BY <1>4 DEF Delete, Tolerate
<1>5. ASSUME NEW c \in Callers, Attach(c) PROVE TypeInv'
  BY <1>5 DEF Attach, Tolerate
<1>6. ASSUME NEW c \in Callers, Detach(c) PROVE TypeInv'
  BY <1>6 DEF Detach, Tolerate
<1>7. ASSUME NEW c \in Callers, WaitDetached(c) PROVE TypeInv'
  BY <1>7 DEF WaitDetached
<1>8. ASSUME NEW c \in Callers, Resize(c) PROVE TypeInv'
  BY <1>0, <1>8 DEF Resize, Tolerate
<1>9. CASE Background
  BY <1>9 DEF Background, FinishCreate, FinishAttach, FinishDetach
<1>10. CASE UNCHANGED vars
  BY <1>10 DEF vars
<1> QED  BY <1>1, <1>2, <1>3, <1>4, <1>5, <1>6, <1>7, <1>8, <1>9, <1>10 DEF Next, CallerNext

\* Once a volume was made it stays made, and one that is gone stays gone.
LEMMA VolumesOnceMade ==
  ASSUME TypeInv, [Next]_vars, NEW v \in Volumes
  PROVE  /\ vstate[v] # "none" => vstate'[v] # "none"
         /\ vstate[v] = "gone" => vstate'[v] = "gone"
<1> USE DEF TypeInv, TypeOK, Applied, Deletable, volumeVars
<1>1. ASSUME NEW c \in Callers, Create(c) \/ WaitCreated(c) \/ UndoCreate(c) \/ Delete(c)
      PROVE  (vstate[v] # "none" => vstate'[v] # "none") /\ (vstate[v] = "gone" => vstate'[v] = "gone")
  BY <1>1 DEF Create, WaitCreated, UndoCreate, Answers, Delete
<1>2. ASSUME NEW c \in Callers, Attach(c) \/ Detach(c) \/ WaitDetached(c) \/ Resize(c)
      PROVE  (vstate[v] # "none" => vstate'[v] # "none") /\ (vstate[v] = "gone" => vstate'[v] = "gone")
  BY <1>2 DEF Attach, Detach, WaitDetached, Resize
<1>3. ASSUME Background
      PROVE  (vstate[v] # "none" => vstate'[v] # "none") /\ (vstate[v] = "gone" => vstate'[v] = "gone")
  BY <1>3 DEF Background, FinishCreate, FinishAttach, FinishDetach
<1> QED  BY <1>1, <1>2, <1>3 DEF Next, CallerNext, vars

\* The causes of a volume left behind
LeakCauses == {"NoIops", "CreateVolume", "UndoCreate", "Creating", "Attached"}

\* A step outside Create touches neither causes nor the calls of Create.
LEMMA OthersKeepLeaks ==
  ASSUME IInv, [Next]_vars, TypeInv', UNCHANGED <<hit, known>>,
         \A d \in Callers, v \in Volumes : Creates(d, v) => Creates(d, v)',
         \A v \in Volumes : vstate[v] = "none" => vstate'[v] = "none"
  PROVE  VolumeLeakExplained'
<1> SUFFICES ASSUME NEW v \in Volumes \ known', Exists(v)', \A c \in Callers : ~Creates(c, v)'
             PROVE  (hit[v] \cap LeakCauses)' # {}
  BY DEF VolumeLeakExplained, LeakCauses
<1>1. Exists(v)
  BY VolumesOnceMade DEF IInv, Exists
<1>2. \A c \in Callers : ~Creates(c, v)
  OBVIOUS
<1> QED  BY <1>1, <1>2 DEF IInv, VolumeLeakExplained, LeakCauses

\* Every step keeps the leaks explained.
LEMMA NextLeak == IInv /\ [Next]_vars => VolumeLeakExplained'
<1> SUFFICES ASSUME IInv, [Next]_vars PROVE VolumeLeakExplained'
  OBVIOUS
<1>0. TypeInv /\ TypeInv'
  BY NextType DEF IInv
<1>00. TypeOK /\ FrameInv
  BY <1>0 DEF TypeInv
<1>1. ASSUME NEW c \in Callers, Create(c) PROVE VolumeLeakExplained'
  <2>1. PICK v \in Volumes, o \in Options, a \in {"ok", "lost"} :
          /\ vstate[v] = "none"
          /\ vstate' = [vstate EXCEPT ![v] = "creating"]
          /\ Charge(a, v, "CreateVolume")
          /\ IF a = "ok" THEN Goto(c, "WaitCreated", v, selectVolumeType(o)) ELSE Return(c)
    BY <1>1 DEF Create
  <2>2. pc[c] = "idle" /\ known' = known
    BY <1>1 DEF Create, userVars
  <2>3. a = "ok" => Creates(c, v)'
    BY <1>00, <2>1 DEF Goto, Creates, TypeOK
  <2>4. ASSUME a = "lost" PROVE "CreateVolume" \in hit'[v]
    BY <1>00, <2>1, <2>4 DEF Charge, Note, TypeOK
  <2>5. ASSUME NEW w \in Volumes, w # v
        PROVE  /\ hit'[w] = hit[w] /\ vstate'[w] = vstate[w]
               /\ \A d \in Callers : Creates(d, w) => Creates(d, w)'
    <3>1. hit'[w] = hit[w] /\ vstate'[w] = vstate[w]
      BY <1>00, <2>1, <2>5 DEF Charge, Note, TypeOK, faultVars
    <3>2. \A d \in Callers : d # c => pc'[d] = pc[d] /\ vol'[d] = vol[d]
      BY <1>00, <2>1 DEF Goto, Return, TypeOK
    <3> QED  BY <2>2, <3>1, <3>2 DEF Creates
  <2> QED  BY <2>1, <2>2, <2>3, <2>4, <2>5 DEF IInv, VolumeLeakExplained, Exists
<1>2. ASSUME NEW c \in Callers, WaitCreated(c) PROVE VolumeLeakExplained'
  <2>0. PICK v \in Volumes : v = vol[c]
    BY <1>00, <1>2 DEF WaitCreated, FrameInv
  <2>1. vstate' = vstate /\ pc[c] = "WaitCreated"
    BY <1>2 DEF WaitCreated, volumeVars
  <2>2. v \in known' \/ "NoIops" \in hit'[v] \/ Creates(c, v)'
    BY <1>00, <1>2, <2>0, <2>1 DEF WaitCreated, Convert, Note, Goto, Creates, TypeOK
  <2>3. known \subseteq known'
    BY <1>2 DEF WaitCreated, Convert
  <2>4. \A w \in Volumes : hit[w] \subseteq hit'[w]
    BY <1>00, <1>2, <2>0, <2>1 DEF WaitCreated, Convert, Note, TypeOK, faultVars
  <2>5. ASSUME NEW w \in Volumes, w # v, NEW d \in Callers, Creates(d, w) PROVE Creates(d, w)'
    BY <1>00, <1>2, <2>0, <2>5 DEF WaitCreated, Convert, Goto, Return, Creates, TypeOK
  <2> QED  BY <2>1, <2>2, <2>3, <2>4, <2>5 DEF IInv, VolumeLeakExplained, Exists
<1>3. ASSUME NEW c \in Callers, UndoCreate(c) PROVE VolumeLeakExplained'
  <2>0. PICK v \in Volumes : v = vol[c]
    BY <1>00, <1>3 DEF UndoCreate, FrameInv
  <2>1. known' = known
    BY <1>3 DEF UndoCreate, userVars
  <2>2. PICK a \in Answers(Deletable(v)) :
          /\ vstate' = IF Applied(a) THEN [vstate EXCEPT ![v] = "gone"] ELSE vstate
          /\ IF a = "refused" /\ Exists(v)
             THEN /\ Note(v, IF vstate[v] = "creating" THEN "Creating" ELSE "Attached")
                  /\ UNCHANGED faults
             ELSE Charge(a, v, "UndoCreate")
    BY <1>3, <2>0 DEF UndoCreate
  <2>3. ~Exists(v)' \/ hit'[v] \cap LeakCauses # {}
    <3>1. CASE Applied(a)
      BY <1>00, <2>1, <2>2, <3>1 DEF Exists, TypeOK
    <3>2. CASE a = "fail"
      BY <1>00, <2>1, <2>2, <3>2 DEF Charge, Note, TypeOK, LeakCauses
    <3>3. CASE a = "refused" /\ Exists(v)
      <4>1. hit' = [hit EXCEPT ![v] = @ \cup {"Creating"}] \/ hit' = [hit EXCEPT ![v] = @ \cup {"Attached"}]
        BY <2>2, <3>3 DEF Note
      <4>2. "Creating" \in hit'[v] \/ "Attached" \in hit'[v]
        BY <1>00, <4>1 DEF TypeOK
      <4> QED  BY <4>2 DEF LeakCauses
    <3>4. CASE a = "refused" /\ ~Exists(v)
      BY <2>2, <3>4 DEF Exists, Applied
    <3> QED  BY <2>2, <3>1, <3>2, <3>3, <3>4 DEF Answers, Applied
  <2>4. \A w \in Volumes : hit[w] \subseteq hit'[w]
    BY <1>00, <2>1, <2>2 DEF Charge, Note, TypeOK, faultVars
  <2>5. \A w \in Volumes : w # v => vstate'[w] = vstate[w]
    BY <1>00, <2>1, <2>2 DEF TypeOK
  <2>6. ASSUME NEW w \in Volumes, w # v, NEW d \in Callers, Creates(d, w) PROVE Creates(d, w)'
    BY <1>00, <1>3, <2>0, <2>6 DEF UndoCreate, Goto, Return, Creates, TypeOK
  <2> QED  BY <2>1, <2>3, <2>4, <2>5, <2>6 DEF IInv, VolumeLeakExplained, Exists, LeakCauses
<1>4. ASSUME NEW c \in Callers, Delete(c) \/ Attach(c) \/ Resize(c) PROVE VolumeLeakExplained'
  <2>1. UNCHANGED <<hit, known, pc, vol>>
    BY <1>4 DEF Delete, Attach, Resize, Tolerate, frameVars, userVars
  <2>2. \A v \in Volumes : vstate[v] = "none" => vstate'[v] = "none"
    BY <1>00, <1>4 DEF Delete, Attach, Resize, Deletable, TypeOK
  <2> QED  BY <1>0, <2>1, <2>2, OthersKeepLeaks DEF Creates
<1>5. ASSUME NEW c \in Callers, Detach(c) \/ WaitDetached(c) PROVE VolumeLeakExplained'
  <2>1. UNCHANGED <<hit, known>>
    BY <1>5 DEF Detach, WaitDetached, Tolerate, userVars, faultVars
  <2>2. \A v \in Volumes : vstate[v] = "none" => vstate'[v] = "none"
    BY <1>00, <1>5 DEF Detach, WaitDetached, volumeVars, TypeOK
  <2>3. \A d \in Callers, v \in Volumes : Creates(d, v) => Creates(d, v)'
    BY <1>00, <1>5 DEF Detach, WaitDetached, Goto, Return, Creates, TypeOK, frameVars
  <2> QED  BY <1>0, <2>1, <2>2, <2>3, OthersKeepLeaks
<1>6. CASE Background
  <2>1. UNCHANGED <<hit, known, pc, vol>>
    BY <1>6 DEF Background, frameVars, userVars, faultVars
  <2>2. \A v \in Volumes : vstate[v] = "none" => vstate'[v] = "none"
    BY <1>00, <1>6 DEF Background, FinishCreate, FinishAttach, FinishDetach, TypeOK
  <2> QED  BY <1>0, <2>1, <2>2, OthersKeepLeaks DEF Creates
<1>7. CASE UNCHANGED vars
  BY <1>7 DEF vars, volumeVars, frameVars, userVars, faultVars, IInv, VolumeLeakExplained, Exists, Creates
<1> QED  BY <1>1, <1>2, <1>3, <1>4, <1>5, <1>6, <1>7 DEF Next, CallerNext

\* Every step keeps what the properties need.
LEMMA NextInv == IInv /\ [Next]_vars => IInv'
<1> SUFFICES ASSUME IInv, [Next]_vars PROVE IInv'
  OBVIOUS
<1>0. TypeInv /\ TypeInv' /\ VolumeLeakExplained'
  BY NextType, NextLeak DEF IInv
<1> DEFINE Rest == KnownMade /\ CreatesMade /\ TypeSelected /\ AttachmentStays
<1>00. /\ \A v \in Volumes : vstate[v] # "none" => vstate'[v] # "none"
       /\ TypeOK /\ FrameInv /\ KnownMade /\ CreatesMade /\ TypeSelected /\ AttachmentStays
  BY <1>0, VolumesOnceMade DEF IInv, TypeInv
<1> USE NoneAssumption DEF TypeOK, FrameInv, KnownMade, CreatesMade, TypeSelected,
        AttachmentStays, Plugged, Goto, Return, Applied, volumeVars, frameVars, userVars, faultVars
<1>1. ASSUME NEW c \in Callers, Create(c) PROVE Rest'
  BY <1>00, <1>1 DEF Create
<1>2. ASSUME NEW c \in Callers, WaitCreated(c) PROVE Rest'
  BY <1>00, <1>2 DEF WaitCreated, Convert
<1>3. ASSUME NEW c \in Callers, UndoCreate(c) PROVE Rest'
  BY <1>00, <1>3 DEF UndoCreate, Answers, Deletable
<1>4. ASSUME NEW c \in Callers, Delete(c) PROVE Rest'
  BY <1>00, <1>4 DEF Delete, Tolerate, Deletable
<1>5. ASSUME NEW c \in Callers, Attach(c) PROVE Rest'
  BY <1>00, <1>5 DEF Attach, Tolerate
<1>6. ASSUME NEW c \in Callers, Detach(c) PROVE Rest'
  BY <1>00, <1>6 DEF Detach, Tolerate
<1>7. ASSUME NEW c \in Callers, WaitDetached(c) PROVE Rest'
  BY <1>00, <1>7 DEF WaitDetached
<1>8. ASSUME NEW c \in Callers, Resize(c) PROVE Rest'
  BY <1>00, <1>8 DEF Resize, Tolerate
<1>9. ASSUME Background PROVE Rest'
  BY <1>00, <1>9 DEF Background, FinishCreate, FinishAttach, FinishDetach
<1>10. ASSUME UNCHANGED vars PROVE Rest'
  BY <1>00, <1>10 DEF vars
<1>11. Rest'
  BY <1>1, <1>2, <1>3, <1>4, <1>5, <1>6, <1>7, <1>8, <1>9, <1>10 DEF Next, CallerNext
<1> QED  BY <1>0, <1>11 DEF IInv

\* A volume that is known has a type selected for what it was asked for.
LEMMA InvRate == IInv => RateKeptOutsideGaps
<1> SUFFICES ASSUME IInv, NEW v \in known
             PROVE  LET o == asked[v] IN
                    \/ DataRate(type[v], o.size) >= o.rate
                    \/ /\ type[v] = "gp2"
                       /\ o.size \in cGBToGiB(334) .. cGiBToGB(334)
                       /\ o.rate \in cMiBToMB(128) + 1 .. cMBToMiB(250)
                    \/ type[v] = "io1" /\ o.rate > cMiBToMB(1000)
  BY DEF RateKeptOutsideGaps
<1>1. v \in Volumes /\ vstate[v] # "none"
  BY DEF IInv, TypeInv, TypeOK, KnownMade
<1>2. asked[v] \in Options /\ type[v] = selectVolumeType(asked[v])
  BY <1>1 DEF IInv, TypeSelected
<1> QED  BY <1>2, SelectedRate

\* Every variable of AwsVolume keeps its type.
THEOREM TypeCorrect == Spec => []TypeOK
<1>1. IInv => TypeOK
  BY DEF IInv, TypeInv
<1> QED  BY <1>1, InitInv, NextInv, PTL DEF Spec

\* A volume is left behind unknown only by a conversion that panicked, a lost answer or an undo that failed
\* or was refused.
THEOREM LeaksExplained == Spec => []VolumeLeakExplained
<1>1. IInv => VolumeLeakExplained
  BY DEF IInv
<1> QED  BY <1>1, InitInv, NextInv, PTL DEF Spec

\* A volume stays where its caller was told it is until somebody detaches it from there.
THEOREM AttachmentsStay == Spec => []AttachmentStays
<1>1. IInv => AttachmentStays
  BY DEF IInv
<1> QED  BY <1>1, InitInv, NextInv, PTL DEF Spec

\* Outside the gaps every volume is reported as fast as it was asked to be, for all options.
THEOREM RatesKept == Spec => []RateKeptOutsideGaps
<1> QED  BY InitInv, NextInv, InvRate, PTL DEF Spec

=============================================================================

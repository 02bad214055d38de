----------------------- MODULE OpenStackServer_proofs ------------------------
(***************************************************************************)
(* Proofs about OpenStackServer: its type invariant, that a key pair and a *)
(* resize in waiting are never left behind without a reason, that Resize   *)
(* returns without error only for the flavor it asked for, and that a      *)
(* server loses its address only with its own end or another one's.        *)
(***************************************************************************)
EXTENDS OpenStackServer, TLAPS

-----------------------------------------------------------------------------
\* What a caller has in hand, by the call it is about to make.

FrameOK(c) ==
  /\ pc[c] \in CreateCalls => call[c] \in Keys
  /\ pc[c] \notin CreateCalls => call[c] = None
  /\ pc[c] = "WaitStable" => cur[c] \in Servers
  /\ pc[c] \in ResizeCalls => cur[c] \in Servers /\ want[c] \in Flavors
  /\ pc[c] \in DeleteCalls => cur[c] \in Servers
  /\ pc[c] = "DeleteIP" => ip[c] \in Addresses

FrameType ==
  /\ pc \in [Callers -> CreateCalls \cup ResizeCalls \cup DeleteCalls \cup {"idle", "crashed"}]
  /\ call \in [Callers -> Keys \cup {None}]
  /\ cur \in [Callers -> Servers \cup {None}]
  /\ want \in [Callers -> Flavors \cup {None}]
  /\ ip \in [Callers -> Addresses \cup {None}]

ServerType ==
  /\ power \in [Servers -> {"none", "BUILD", "ACTIVE", "SHUTOFF", "ERROR", "gone"}]
  /\ phase \in [Servers -> {"steady", "RESIZE", "VERIFY_RESIZE"}]
  /\ flavor \in [Servers -> Flavors \cup {None}]
  /\ target \in [Servers -> Flavors \cup {None}]
  /\ addrOf \in [Addresses -> Servers \cup {None}] /\ released \in SUBSET Addresses

NoteType ==
  /\ keys \in SUBSET Keys /\ used \in SUBSET Keys /\ keyHit \in SUBSET Keys
  /\ overtaken \in SUBSET Callers
  /\ faults \in 0 .. MaxFaults
  /\ hit \in [Servers -> SUBSET (ResizeCalls \cup {"RevertEarly"})]

FrameInv == FrameType /\ \A c \in Callers : FrameOK(c)

TypeInv == FrameInv /\ ServerType /\ NoteType

LEMMA TypeParts == TypeOK <=> FrameType /\ ServerType /\ NoteType
BY DEF TypeOK, FrameType, ServerType, NoteType

\* The frames after a step of caller c: the others keep theirs.
OwnFrame(c) ==
  \A d \in Callers \ {c} : /\ pc'[d] = pc[d] /\ call'[d] = call[d] /\ cur'[d] = cur[d]
                           /\ want'[d] = want[d] /\ ip'[d] = ip[d]

LEMMA EnterFrame ==
  ASSUME FrameType, NEW c \in Callers, NEW key, NEW s, NEW f, NEW a, NEW next,
         Enter(c, key, s, f, a, next)
  PROVE  /\ OwnFrame(c) /\ pc'[c] = next
         /\ call'[c] = key /\ cur'[c] = s /\ want'[c] = f /\ ip'[c] = a
BY DEF FrameType, Enter, OwnFrame

LEMMA GotoFrame ==
  ASSUME FrameType, NEW c \in Callers, NEW next, Goto(c, next)
  PROVE  /\ OwnFrame(c) /\ pc'[c] = next
         /\ call'[c] = call[c] /\ cur'[c] = cur[c] /\ want'[c] = want[c] /\ ip'[c] = ip[c]
BY DEF FrameType, Goto, OwnFrame, frameVars

LEMMA ReturnFrame ==
  ASSUME FrameType, NEW c \in Callers, Return(c)
  PROVE  /\ OwnFrame(c) /\ pc'[c] = "idle"
         /\ call'[c] = None /\ cur'[c] = None /\ want'[c] = None /\ ip'[c] = None
BY EnterFrame DEF Return

\* Entering a method, going on or returning leaves every frame well formed.
LEMMA EnterOK ==
  ASSUME FrameInv, NEW c \in Callers, NEW key \in Keys \cup {None}, NEW s \in Servers \cup {None},
         NEW f \in Flavors \cup {None}, NEW a \in Addresses \cup {None}, NEW next,
         next \in CreateCalls \cup ResizeCalls \cup DeleteCalls \cup {"idle", "crashed"},
         next \in CreateCalls => key \in Keys,
         next \notin CreateCalls => key = None,
         next \in {"WaitStable"} \cup ResizeCalls \cup DeleteCalls => s \in Servers,
         next \in ResizeCalls => f \in Flavors,
         next = "DeleteIP" => a \in Addresses,
         Enter(c, key, s, f, a, next)
  PROVE  FrameInv'
<1>1. FrameType'
  BY DEF FrameInv, FrameType, Enter
<1>2. ASSUME NEW d \in Callers PROVE FrameOK(d)'
  <2>1. FrameOK(d)
    BY <1>2 DEF FrameInv
  <2> QED
    BY <1>2, <2>1, EnterFrame DEF FrameInv, FrameOK, OwnFrame
<1> QED
  BY <1>1, <1>2 DEF FrameInv

LEMMA GotoOK ==
  ASSUME FrameInv, NEW c \in Callers, NEW next,
         \/ pc[c] \in CreateCalls /\ next \in CreateCalls \ {"WaitStable"}
         \/ pc[c] \in ResizeCalls /\ next \in ResizeCalls
         \/ pc[c] = "DeleteServer" /\ next = "DeleteIP" /\ ip[c] # None,
         Goto(c, next)
  PROVE  FrameInv'
<1>1. FrameType'
  BY DEF FrameInv, FrameType, Goto, CreateCalls, ResizeCalls, DeleteCalls, frameVars
<1>2. ASSUME NEW d \in Callers PROVE FrameOK(d)'
  <2>1. FrameOK(d)
    BY <1>2 DEF FrameInv
  <2> QED
    BY <1>2, <2>1, GotoFrame
    DEF FrameInv, FrameType, FrameOK, OwnFrame, CreateCalls, ResizeCalls, DeleteCalls
<1> QED
  BY <1>1, <1>2 DEF FrameInv

LEMMA ReturnOK ==
  ASSUME FrameInv, NEW c \in Callers, Return(c)
  PROVE  FrameInv'
BY EnterOK DEF Return, CreateCalls, ResizeCalls, DeleteCalls

LEMMA SameFrame ==
  ASSUME FrameInv, UNCHANGED <<pc, frameVars>>
  PROVE  FrameInv'
BY DEF FrameInv, FrameType, FrameOK, frameVars

LEMMA FrameStep ==
  ASSUME FrameInv, [Next]_vars
  PROVE  FrameInv'
<1> USE EnterOK, GotoOK, ReturnOK, SameFrame DEF CreateCalls, ResizeCalls, DeleteCalls
<1>1. ASSUME NEW c \in Callers, Create(c) PROVE FrameInv'
  BY <1>1 DEF Create
<1>2. ASSUME NEW c \in Callers, ImportKey(c) PROVE FrameInv'
  BY <1>2 DEF ImportKey
<1>3. ASSUME NEW c \in Callers, CreateServer(c) PROVE FrameInv'
  <2>1. FrameOK(c)
    BY DEF FrameInv
  <2>2. pc[c] \in CreateCalls /\ call[c] \in Keys
    BY <1>3, <2>1 DEF CreateServer, FrameOK
  <2>3. CASE \E s \in Servers : Enter(c, call[c], s, None, None, "WaitStable")
    BY <2>2, <2>3
  <2>4. CASE Goto(c, "DeleteKey")
    BY <2>2, <2>4
  <2> QED BY <1>3, <2>3, <2>4 DEF CreateServer
<1>4. ASSUME NEW c \in Callers, WaitStable(c) PROVE FrameInv'
  BY <1>4 DEF WaitStable
<1>5. ASSUME NEW c \in Callers, Crash(c) PROVE FrameInv'
  BY <1>5 DEF Crash
<1>6. ASSUME NEW c \in Callers, DeleteKey(c) PROVE FrameInv'
  BY <1>6 DEF DeleteKey
<1>7. ASSUME NEW c \in Callers, Delete(c) PROVE FrameInv'
  BY <1>7 DEF Delete
<1>8. ASSUME NEW c \in Callers, DeleteServer(c) PROVE FrameInv'
  BY <1>8 DEF DeleteServer, Vanish
<1>9. ASSUME NEW c \in Callers, DeleteIP(c) PROVE FrameInv'
  BY <1>9 DEF DeleteIP
<1>10. ASSUME NEW c \in Callers, Resize(c) PROVE FrameInv'
  BY <1>10 DEF Resize
<1>11. ASSUME NEW c \in Callers, AskResize(c) PROVE FrameInv'
  BY <1>11 DEF AskResize
<1>12. ASSUME NEW c \in Callers, WaitResize(c) PROVE FrameInv'
  BY <1>12 DEF WaitResize, Note
<1>13. ASSUME NEW c \in Callers, Confirm(c) PROVE FrameInv'
  BY <1>13 DEF Confirm
<1>14. ASSUME NEW c \in Callers, Revert(c) PROVE FrameInv'
  BY <1>14 DEF Revert, Note
<1>15. ASSUME NEW c \in Callers, Stop(c) PROVE FrameInv'
  BY <1>15 DEF Stop, Switch
<1>16. ASSUME NEW c \in Callers, Start(c) PROVE FrameInv'
  BY <1>16 DEF Start, Switch
<1>17. ASSUME NEW c \in Callers, Associate(c) PROVE FrameInv'
  BY <1>17 DEF Associate
<1>18. ASSUME NEW s \in Servers, Built(s) PROVE FrameInv'
  BY <1>18 DEF Built, NovaOnly
<1>19. ASSUME NEW s \in Servers, Resized(s) PROVE FrameInv'
  BY <1>19 DEF Resized, NovaOnly
<1>20. CASE UNCHANGED vars
  BY <1>20 DEF vars
<1> QED
  BY <1>1, <1>2, <1>3, <1>4, <1>5, <1>6, <1>7, <1>8, <1>9, <1>10, <1>11, <1>12, <1>13, <1>14,
     <1>15, <1>16, <1>17, <1>18, <1>19, <1>20 DEF Next, Continue

LEMMA ServerTypeStep ==
  ASSUME TypeInv, [Next]_vars
  PROVE  ServerType'
<1> USE DEF TypeInv, FrameInv, FrameOK, ServerType, FrameType, CreateCalls, ResizeCalls,
        DeleteCalls, resizeVars, serverVars, ipVars
<1>1. ASSUME NEW c \in Callers, Create(c) PROVE ServerType'
  BY <1>1 DEF Create
<1>2. ASSUME NEW c \in Callers, ImportKey(c) PROVE ServerType'
  BY <1>2 DEF ImportKey
<1>3. ASSUME NEW c \in Callers, CreateServer(c) PROVE ServerType'
  BY <1>3 DEF CreateServer
<1>4. ASSUME NEW c \in Callers, WaitStable(c) PROVE ServerType'
  BY <1>4 DEF WaitStable, StableState, NewServerError, NewErrorStack
<1>5. ASSUME NEW c \in Callers, Crash(c) PROVE ServerType'
  BY <1>5 DEF Crash
<1>6. ASSUME NEW c \in Callers, DeleteKey(c) PROVE ServerType'
  BY <1>6 DEF DeleteKey
<1>7. ASSUME NEW c \in Callers, Delete(c) PROVE ServerType'
  BY <1>7 DEF Delete
<1>8. ASSUME NEW c \in Callers, DeleteServer(c) PROVE ServerType'
  BY <1>8 DEF DeleteServer, Vanish
<1>9. ASSUME NEW c \in Callers, DeleteIP(c) PROVE ServerType'
  BY <1>9 DEF DeleteIP
<1>10. ASSUME NEW c \in Callers, Resize(c) PROVE ServerType'
  BY <1>10 DEF Resize
<1>11. ASSUME NEW c \in Callers, AskResize(c) PROVE ServerType'
  BY <1>11 DEF AskResize, Rivals, Steady
<1>12. ASSUME NEW c \in Callers, WaitResize(c) PROVE ServerType'
  BY <1>12 DEF WaitResize, Note
<1>13. ASSUME NEW c \in Callers, Confirm(c) PROVE ServerType'
  BY <1>13 DEF Confirm
<1>14. ASSUME NEW c \in Callers, Revert(c) PROVE ServerType'
  BY <1>14 DEF Revert, Note
<1>15. ASSUME NEW c \in Callers, Stop(c) PROVE ServerType'
  BY <1>15 DEF Stop, Switch
<1>16. ASSUME NEW c \in Callers, Start(c) PROVE ServerType'
  BY <1>16 DEF Start, Switch
<1>17. ASSUME NEW c \in Callers, Associate(c) PROVE ServerType'
  BY <1>17 DEF Associate
<1>18. ASSUME NEW s \in Servers, Built(s) PROVE ServerType'
  BY <1>18 DEF Built, NovaOnly
<1>19. ASSUME NEW s \in Servers, Resized(s) PROVE ServerType'
  BY <1>19 DEF Resized, NovaOnly
<1>20. CASE UNCHANGED vars
  BY <1>20 DEF vars
<1> QED
  BY <1>1, <1>2, <1>3, <1>4, <1>5, <1>6, <1>7, <1>8, <1>9, <1>10, <1>11, <1>12, <1>13, <1>14,
     <1>15, <1>16, <1>17, <1>18, <1>19, <1>20 DEF Next, Continue

LEMMA PayType ==
  ASSUME faults \in 0 .. MaxFaults, NEW a, Pay(a)
  PROVE  faults' \in 0 .. MaxFaults
BY MaxFaultsAssumption DEF Pay

LEMMA NoteTypeStep ==
  ASSUME TypeInv, [Next]_vars
  PROVE  NoteType'
<1> USE PayType DEF TypeInv, FrameInv, FrameOK, NoteType, FrameType, CreateCalls, ResizeCalls,
        DeleteCalls, keyVars, faultVars
<1>1. ASSUME NEW c \in Callers, Create(c) PROVE NoteType'
  BY <1>1 DEF Create
<1>2. ASSUME NEW c \in Callers, ImportKey(c) PROVE NoteType'
  BY <1>2 DEF ImportKey
<1>3. ASSUME NEW c \in Callers, CreateServer(c) PROVE NoteType'
  BY <1>3 DEF CreateServer
<1>4. ASSUME NEW c \in Callers, WaitStable(c) PROVE NoteType'
  BY <1>4 DEF WaitStable, StableState, NewServerError, NewErrorStack
<1>5. ASSUME NEW c \in Callers, Crash(c) PROVE NoteType'
  <2>1. call[c] \in Keys
    BY <1>5 DEF Crash
  <2> QED BY <1>5, <2>1, MaxFaultsAssumption DEF Crash
<1>6. ASSUME NEW c \in Callers, DeleteKey(c) PROVE NoteType'
  BY <1>6 DEF DeleteKey
<1>7. ASSUME NEW c \in Callers, Delete(c) PROVE NoteType'
  BY <1>7 DEF Delete
<1>8. ASSUME NEW c \in Callers, DeleteServer(c) PROVE NoteType'
  BY <1>8 DEF DeleteServer, Vanish
<1>9. ASSUME NEW c \in Callers, DeleteIP(c) PROVE NoteType'
  BY <1>9 DEF DeleteIP
<1>10. ASSUME NEW c \in Callers, Resize(c) PROVE NoteType'
  BY <1>10 DEF Resize
<1>11. ASSUME NEW c \in Callers, AskResize(c) PROVE NoteType'
  BY <1>11 DEF AskResize, Rivals, Steady
<1>12. ASSUME NEW c \in Callers, WaitResize(c) PROVE NoteType'
  BY <1>12 DEF WaitResize, Note
<1>13. ASSUME NEW c \in Callers, Confirm(c) PROVE NoteType'
  BY <1>13 DEF Confirm
<1>14. ASSUME NEW c \in Callers, Revert(c) PROVE NoteType'
  BY <1>14 DEF Revert, Note
<1>15. ASSUME NEW c \in Callers, Stop(c) PROVE NoteType'
  BY <1>15 DEF Stop, Switch
<1>16. ASSUME NEW c \in Callers, Start(c) PROVE NoteType'
  BY <1>16 DEF Start, Switch
<1>17. ASSUME NEW c \in Callers, Associate(c) PROVE NoteType'
  BY <1>17 DEF Associate
<1>18. ASSUME NEW s \in Servers, Built(s) PROVE NoteType'
  BY <1>18 DEF Built, NovaOnly
<1>19. ASSUME NEW s \in Servers, Resized(s) PROVE NoteType'
  BY <1>19 DEF Resized, NovaOnly
<1>20. CASE UNCHANGED vars
  BY <1>20 DEF vars
<1> QED
  BY <1>1, <1>2, <1>3, <1>4, <1>5, <1>6, <1>7, <1>8, <1>9, <1>10, <1>11, <1>12, <1>13, <1>14,
     <1>15, <1>16, <1>17, <1>18, <1>19, <1>20 DEF Next, Continue

\* The types of OpenStackServer, which need the frames: a call works on a server, a flavor, a
\* key or an address, never on None.
THEOREM TypeCorrect == Spec => []TypeOK
<1>1. Init => TypeInv
  BY MaxFaultsAssumption DEF Init, TypeInv, FrameInv, FrameType, FrameOK, ServerType, NoteType,
     CreateCalls, ResizeCalls, DeleteCalls
<1>2. TypeInv /\ [Next]_vars => TypeInv'
  BY FrameStep, ServerTypeStep, NoteTypeStep DEF TypeInv
<1>3. TypeInv => TypeOK
  BY TypeParts DEF TypeInv, FrameInv
<1> QED
  BY <1>1, <1>2, <1>3, PTL DEF Spec

-----------------------------------------------------------------------------
\* The steps, told by who takes them.

CallerStep(c) == Create(c) \/ Delete(c) \/ Resize(c) \/ Stop(c) \/ Start(c) \/ Associate(c)
                 \/ Continue(c)
NovaStep(s) == Built(s) \/ Resized(s)

LEMMA NextSteps == Next <=> (\E c \in Callers : CallerStep(c)) \/ (\E s \in Servers : NovaStep(s))
BY DEF Next, CallerStep, NovaStep

LEMMA StepFrame ==
  ASSUME FrameType, NEW c \in Callers, CallerStep(c)
  PROVE  OwnFrame(c)
<1> USE EnterFrame, GotoFrame, ReturnFrame
<1>1. CASE Create(c)
  BY <1>1 DEF Create
<1>2. CASE ImportKey(c)
  BY <1>2 DEF ImportKey
<1>3. CASE CreateServer(c)
  BY <1>3 DEF CreateServer
<1>4. CASE WaitStable(c)
  BY <1>4 DEF WaitStable, StableState, NewServerError, NewErrorStack
<1>5. CASE Crash(c)
  BY <1>5 DEF Crash
<1>6. CASE DeleteKey(c)
  BY <1>6 DEF DeleteKey
<1>7. CASE Delete(c)
  BY <1>7 DEF Delete
<1>8. CASE DeleteServer(c)
  BY <1>8 DEF DeleteServer, Vanish
<1>9. CASE DeleteIP(c)
  BY <1>9 DEF DeleteIP
<1>10. CASE Resize(c)
  BY <1>10 DEF Resize
<1>11. CASE AskResize(c)
  BY <1>11 DEF AskResize, Rivals, Steady
<1>12. CASE WaitResize(c)
  BY <1>12 DEF WaitResize, Note
<1>13. CASE Confirm(c)
  BY <1>13 DEF Confirm
<1>14. CASE Revert(c)
  BY <1>14 DEF Revert, Note
<1>15. CASE Stop(c)
  BY <1>15 DEF Stop, Switch, OwnFrame, frameVars
<1>16. CASE Start(c)
  BY <1>16 DEF Start, Switch, OwnFrame, frameVars
<1>17. CASE Associate(c)
  BY <1>17 DEF Associate, OwnFrame, frameVars
<1> QED
  BY <1>1, <1>2, <1>3, <1>4, <1>5, <1>6, <1>7, <1>8, <1>9, <1>10, <1>11, <1>12, <1>13, <1>14,
     <1>15, <1>16, <1>17 DEF CallerStep, Continue

-----------------------------------------------------------------------------
\* Key pairs.  A caller carries its key from its import to its deletion; when it lets go of it,
\* the key is deleted, or its deletion is known to have gone wrong.

LetsGo(c) ==
  /\ keyHit \subseteq keyHit'
  /\ \/ keys' \subseteq keys
     \/ keys' = keys \cup {call[c]} /\ call'[c] = call[c] /\ pc'[c] # "crashed"
  /\ \/ call'[c] = call[c] /\ pc'[c] # "crashed"
     \/ call[c] \notin Keys \/ call[c] \notin keys' \/ call[c] \in keyHit'

LEMMA KeySteps ==
  ASSUME TypeInv, NEW c \in Callers, CallerStep(c)
  PROVE  LetsGo(c)
<1>0. FrameType /\ FrameOK(c) /\ None \notin Keys
  BY NoneAssumption DEF TypeInv, FrameInv
<1> USE <1>0, EnterFrame, GotoFrame, ReturnFrame DEF LetsGo, FrameOK, keyVars, CreateCalls,
        ResizeCalls, DeleteCalls
<1>1. CASE Create(c)
  BY <1>1 DEF Create
<1>2. CASE ImportKey(c)
  BY <1>2 DEF ImportKey
<1>3. CASE CreateServer(c)
  BY <1>3 DEF CreateServer
<1>4. CASE WaitStable(c)
  BY <1>4 DEF WaitStable, StableState, NewServerError, NewErrorStack
<1>5. CASE Crash(c)
  BY <1>5 DEF Crash
<1>6. CASE DeleteKey(c)
  BY <1>6 DEF DeleteKey
<1>7. CASE Delete(c)
  BY <1>7 DEF Delete
<1>8. CASE DeleteServer(c)
  BY <1>8 DEF DeleteServer, Vanish
<1>9. CASE DeleteIP(c)
  BY <1>9 DEF DeleteIP
<1>10. CASE Resize(c)
  BY <1>10 DEF Resize
<1>11. CASE AskResize(c)
  BY <1>11 DEF AskResize, Rivals, Steady
<1>12. CASE WaitResize(c)
  BY <1>12 DEF WaitResize, Note
<1>13. CASE Confirm(c)
  BY <1>13 DEF Confirm
<1>14. CASE Revert(c)
  BY <1>14 DEF Revert, Note
<1>15. CASE Stop(c)
  BY <1>15 DEF Stop, Switch, frameVars
<1>16. CASE Start(c)
  BY <1>16 DEF Start, Switch, frameVars
<1>17. CASE Associate(c)
  BY <1>17 DEF Associate, frameVars
<1> QED
  BY <1>1, <1>2, <1>3, <1>4, <1>5, <1>6, <1>7, <1>8, <1>9, <1>10, <1>11, <1>12, <1>13, <1>14,
     <1>15, <1>16, <1>17 DEF CallerStep, Continue

LEMMA KeyPairsStep == TypeInv /\ KeyPairsTemporary /\ [Next]_vars => KeyPairsTemporary'
<1> SUFFICES ASSUME TypeInv, KeyPairsTemporary, [Next]_vars PROVE KeyPairsTemporary'
  OBVIOUS
<1>1. ASSUME NEW c \in Callers, CallerStep(c) PROVE KeyPairsTemporary'
  <2> SUFFICES ASSUME NEW k \in keys'
               PROVE  (\E d \in Callers : call'[d] = k /\ pc'[d] # "crashed") \/ k \in keyHit'
    BY DEF KeyPairsTemporary
  <2>1. LetsGo(c) /\ OwnFrame(c) /\ keys \subseteq Keys
    BY <1>1, KeySteps, StepFrame DEF TypeInv, FrameInv, NoteType
  <2>2. CASE k \in keys
    <3>1. (\E d \in Callers : call[d] = k /\ pc[d] # "crashed") \/ k \in keyHit
      BY <2>2 DEF KeyPairsTemporary
    <3> QED BY <2>1, <2>2, <3>1 DEF LetsGo, OwnFrame
  <2>3. CASE k \notin keys
    BY <2>1, <2>3 DEF LetsGo
  <2> QED BY <2>2, <2>3
<1>2. ASSUME NEW s \in Servers, NovaStep(s) PROVE KeyPairsTemporary'
  BY <1>2 DEF NovaStep, Built, Resized, NovaOnly, keyVars, frameVars, KeyPairsTemporary
<1>3. ASSUME UNCHANGED vars PROVE KeyPairsTemporary'
  BY <1>3 DEF vars, keyVars, frameVars, KeyPairsTemporary
<1> QED
  BY <1>1, <1>2, <1>3, NextSteps

-----------------------------------------------------------------------------
\* Resizes.  What a step of caller c does to the resize of server s.

Works(c, s) == pc[c] \in ResizeCalls /\ cur[c] = s
Waits(c, s) == pc[c] \in {"WaitResize", "Confirm"} /\ cur[c] = s

\* A resize is under way as long as a caller works on it, unless a fault cut its work short.
ResizeFaults == {"RevertEarly", "Revert", "WaitResize"}

ResizeInv ==
  \A s \in Servers : phase[s] # "steady" =>
    (\E c \in Callers : Works(c, s)) \/ hit[s] \cap ResizeFaults # {}

\* The resize a caller waits for is its own, unless another one's was accepted after it.
TargetInv ==
  \A c \in Callers : \A s \in Servers :
    Waits(c, s) /\ phase[s] # "steady" => target[s] = want[c] \/ c \in overtaken

\* A server that does not exist is not being resized, and a caller that deletes an address has
\* deleted its server.
GoneInv ==
  /\ \A s \in Servers : ~Exists(s) => phase[s] = "steady"
  /\ \A c \in Callers : pc[c] = "DeleteIP" => power[cur[c]] = "gone"

\* The resize of s after a step of c: as it was, over, or a new one that c works on.
ResizeMove(c, s) ==
  \/ /\ phase'[s] = phase[s] /\ target'[s] = target[s] /\ hit[s] \subseteq hit'[s]
     /\ \A d \in Callers : d # c /\ d \in overtaken => d \in overtaken'
     /\ Works(c, s) /\ phase[s] # "steady" => Works(c, s)' \/ hit'[s] \cap ResizeFaults # {}
     /\ Waits(c, s)' /\ phase[s] # "steady" =>
          Waits(c, s) /\ want'[c] = want[c] /\ (c \in overtaken => c \in overtaken')
  \/ phase'[s] = "steady"
  \/ /\ phase[s] = "steady" /\ Works(c, s)'
     /\ \A d \in Callers \ {c} : Waits(d, s) => d \in overtaken'
     /\ Waits(c, s)' => target'[s] = want'[c]

LEMMA ResizeSteps ==
  ASSUME TypeInv, NEW c \in Callers, NEW s \in Servers, CallerStep(c)
  PROVE  ResizeMove(c, s)
<1>0. FrameType /\ FrameOK(c) /\ ServerType /\ NoteType
  BY DEF TypeInv, FrameInv
<1> USE <1>0, EnterFrame, GotoFrame, ReturnFrame DEF ResizeMove, Works, Waits, ResizeFaults,
        FrameOK, ServerType, NoteType, CreateCalls, ResizeCalls, DeleteCalls, resizeVars,
        serverVars, faultVars
<1>1. CASE Create(c)
  BY <1>1 DEF Create
<1>2. CASE ImportKey(c)
  BY <1>2 DEF ImportKey
<1>3. CASE CreateServer(c)
  BY <1>3 DEF CreateServer
<1>4. CASE WaitStable(c)
  BY <1>4 DEF WaitStable, StableState, NewServerError, NewErrorStack
<1>5. CASE Crash(c)
  BY <1>5 DEF Crash
<1>6. CASE DeleteKey(c)
  BY <1>6 DEF DeleteKey
<1>7. CASE Delete(c)
  BY <1>7 DEF Delete
<1>8. CASE DeleteServer(c)
  BY <1>8 DEF DeleteServer, Vanish
<1>9. CASE DeleteIP(c)
  BY <1>9 DEF DeleteIP
<1>10. CASE Resize(c)
  BY <1>10 DEF Resize
<1>11. CASE AskResize(c)
  <2>1. PICK a \in Answers(Steady(cur[c]) /\ power[cur[c]] \in {"ACTIVE", "SHUTOFF"}) :
          /\ phase' = IF Applied(a) THEN [phase EXCEPT ![cur[c]] = "RESIZE"] ELSE phase
          /\ target' = IF Applied(a) THEN [target EXCEPT ![cur[c]] = want[c]] ELSE target
          /\ overtaken' = IF Applied(a) THEN overtaken \cup Rivals(c) ELSE overtaken
          /\ hit' = IF Applied(a) THEN [hit EXCEPT ![cur[c]] = {}] ELSE hit
          /\ Goto(c, IF a = "ok" THEN "WaitResize" ELSE "Revert")
    BY <1>11 DEF AskResize
  <2>2. pc[c] = "Resize" /\ cur[c] \in Servers
    BY <1>11 DEF AskResize
  <2>3. CASE ~Applied(a)
    BY <2>1, <2>2, <2>3 DEF Applied
  <2>4. CASE Applied(a) /\ s # cur[c]
    BY <2>1, <2>2, <2>4
  <2>5. CASE Applied(a) /\ s = cur[c]
    <3>1. phase[s] = "steady" /\ a \in {"ok", "lost"}
      BY <2>1, <2>5 DEF Answers, Steady, Applied
    <3>2. \A d \in Callers \ {c} : Waits(d, s) => d \in overtaken'
      BY <2>1, <2>5 DEF Rivals
    <3>3. Works(c, s)' /\ (Waits(c, s)' => target'[s] = want'[c])
      BY <2>1, <2>2, <2>5
    <3> QED BY <3>1, <3>2, <3>3
  <2> QED BY <2>3, <2>4, <2>5
<1>12. CASE WaitResize(c)
  <2>1. /\ pc[c] = "WaitResize" /\ cur[c] \in Servers
        /\ UNCHANGED <<phase, target, overtaken>>
    BY <1>12 DEF WaitResize
  <2>2. CASE Goto(c, "Confirm") /\ UNCHANGED hit
    BY <2>1, <2>2
  <2>3. CASE Goto(c, "Revert") /\ UNCHANGED hit
    BY <2>1, <2>3
  <2>4. CASE Note(cur[c], {"WaitResize"}) /\ Return(c)
    <3>1. hit[s] \subseteq hit'[s] /\ (s = cur[c] => "WaitResize" \in hit'[s])
      BY <2>1, <2>4 DEF Note
    <3>2. pc'[c] = "idle"
      BY <2>4
    <3>3. s # cur[c] => ~Works(c, s)
      BY <2>1
    <3> QED BY <2>1, <3>1, <3>2, <3>3
  <2> QED BY <1>12, <2>2, <2>3, <2>4 DEF WaitResize
<1>13. CASE Confirm(c)
  <2>1. cur[c] \in Servers /\ pc[c] = "Confirm" /\ UNCHANGED <<overtaken, hit>>
    BY <1>13 DEF Confirm
  <2>2. CASE s = cur[c]
    BY <1>13, <2>1, <2>2 DEF Confirm, Answers, Applied
  <2>3. CASE s # cur[c]
    <3>1. phase'[s] = phase[s] /\ target'[s] = target[s]
      BY <1>13, <2>1, <2>3 DEF Confirm
    <3>2. ~Works(c, s) /\ ~Waits(c, s)'
      <4>1. Return(c) \/ Goto(c, "Revert")
        BY <1>13 DEF Confirm
      <4> QED BY <2>1, <2>3, <4>1
    <3> QED BY <2>1, <2>3, <3>1, <3>2
  <2> QED BY <2>2, <2>3
<1>14. CASE Revert(c)
  <2>1. cur[c] \in Servers /\ pc[c] = "Revert" /\ UNCHANGED overtaken /\ Return(c)
    BY <1>14 DEF Revert
  <2>2. CASE s # cur[c]
    BY <1>14, <2>1, <2>2 DEF Revert, Note
  <2>3. PICK a \in Answers(phase[cur[c]] = "VERIFY_RESIZE") :
          /\ phase' = IF Applied(a) THEN [phase EXCEPT ![cur[c]] = "steady"] ELSE phase
          /\ target' = IF Applied(a) THEN [target EXCEPT ![cur[c]] = None] ELSE target
          /\ Note(cur[c], (IF a = "fail" THEN {"Revert"} ELSE {})
                          \cup (IF phase[cur[c]] = "RESIZE" THEN {"RevertEarly"} ELSE {}))
    BY <1>14 DEF Revert
  <2>4. CASE s = cur[c]
    <3>1. CASE Applied(a)
      BY <2>1, <2>3, <2>4, <3>1
    <3>2. CASE ~Applied(a)
      <4>1. phase'[s] = phase[s] /\ target'[s] = target[s] /\ hit[s] \subseteq hit'[s]
        BY <2>1, <2>3, <2>4, <3>2 DEF Note
      <4>2. phase[s] # "steady" => hit'[s] \cap ResizeFaults # {}
        <5>1. phase[s] # "steady" => a = "fail" \/ phase[s] = "RESIZE"
          BY <2>1, <2>3, <2>4, <3>2 DEF Answers, Applied
        <5>2. a = "fail" => "Revert" \in hit'[s]
          BY <2>1, <2>3, <2>4 DEF Note
        <5>3. phase[s] = "RESIZE" => "RevertEarly" \in hit'[s]
          BY <2>1, <2>3, <2>4 DEF Note
        <5> QED BY <5>1, <5>2, <5>3
      <4> QED BY <2>1, <2>4, <4>1, <4>2
    <3> QED BY <3>1, <3>2
  <2> QED BY <2>2, <2>4
<1>15. CASE Stop(c)
  BY <1>15 DEF Stop, Switch, frameVars
<1>16. CASE Start(c)
  BY <1>16 DEF Start, Switch, frameVars
<1>17. CASE Associate(c)
  BY <1>17 DEF Associate, frameVars
<1> QED
  BY <1>1, <1>2, <1>3, <1>4, <1>5, <1>6, <1>7, <1>8, <1>9, <1>10, <1>11, <1>12, <1>13, <1>14,
     <1>15, <1>16, <1>17 DEF CallerStep, Continue

LEMMA ResizeStep ==
  ASSUME TypeInv, ResizeInv, TargetInv, NEW c \in Callers, CallerStep(c)
  PROVE  ResizeInv' /\ TargetInv'
<1>1. OwnFrame(c)
  BY StepFrame DEF TypeInv, FrameInv
<1>2. ASSUME NEW s \in Servers, phase'[s] # "steady"
      PROVE  (\E d \in Callers : Works(d, s)') \/ hit'[s] \cap ResizeFaults # {}
  <2>1. ResizeMove(c, s)
    BY ResizeSteps
  <2>2. \A d \in Callers \ {c} : Works(d, s) => Works(d, s)'
    BY <1>1 DEF OwnFrame, Works
  <2> QED BY <1>2, <2>1, <2>2 DEF ResizeMove, ResizeInv
<1>3. ASSUME NEW s \in Servers, NEW d \in Callers, Waits(d, s)', phase'[s] # "steady"
      PROVE  target'[s] = want'[d] \/ d \in overtaken'
  <2>1. ResizeMove(c, s)
    BY ResizeSteps
  <2>2. d # c => Waits(d, s) /\ want'[d] = want[d]
    BY <1>1, <1>3 DEF OwnFrame, Waits
  <2> QED BY <1>3, <2>1, <2>2 DEF ResizeMove, TargetInv
<1> QED BY <1>2, <1>3 DEF ResizeInv, TargetInv

LEMMA NovaResizeStep ==
  ASSUME TypeInv, ResizeInv, TargetInv, NEW s \in Servers, NovaStep(s)
  PROVE  ResizeInv' /\ TargetInv'
<1>1. UNCHANGED <<pc, cur, want, overtaken, hit>>
  BY DEF NovaStep, Built, Resized, NovaOnly, frameVars, faultVars
<1>2. \A r \in Servers : phase'[r] = "steady" \/ (phase[r] # "steady" /\ target'[r] = target[r])
  BY DEF NovaStep, Built, Resized, TypeInv, ServerType
<1> QED
  BY <1>1, <1>2 DEF ResizeInv, TargetInv, Works, Waits

LEMMA GoneKeeps ==
  ASSUME TypeInv, GoneInv, NEW c \in Callers, CallerStep(c), OwnFrame(c),
         \A s \in Servers : power[s] = "gone" => power'[s] = "gone",
         \A s \in Servers : ~Exists(s)' => phase'[s] = "steady",
         pc'[c] = "DeleteIP" => power'[cur'[c]] = "gone"
  PROVE  GoneInv'
<1>1. \A d \in Callers : pc[d] = "DeleteIP" => cur[d] \in Servers
  BY DEF TypeInv, FrameInv, FrameOK, DeleteCalls
<1> QED BY <1>1 DEF GoneInv, OwnFrame

LEMMA GoneSteps ==
  ASSUME TypeInv, GoneInv, NEW c \in Callers, CallerStep(c)
  PROVE  /\ \A s \in Servers : power[s] = "gone" => power'[s] = "gone"
         /\ \A s \in Servers : ~Exists(s)' => phase'[s] = "steady"
         /\ pc'[c] = "DeleteIP" => power'[cur'[c]] = "gone"
<1>0. FrameType /\ FrameOK(c) /\ ServerType
  BY DEF TypeInv, FrameInv
<1> USE <1>0, EnterFrame, GotoFrame, ReturnFrame DEF GoneInv, Exists, Steady, FrameOK,
        ServerType, DeleteCalls, ResizeCalls, resizeVars, serverVars
<1>1. CASE Create(c)
  BY <1>1 DEF Create
<1>2. CASE ImportKey(c)
  BY <1>2 DEF ImportKey
<1>3. CASE CreateServer(c)
  BY <1>3 DEF CreateServer
<1>4. CASE WaitStable(c)
  BY <1>4 DEF WaitStable, StableState, NewServerError, NewErrorStack
<1>5. CASE Crash(c)
  BY <1>5 DEF Crash
<1>6. CASE DeleteKey(c)
  BY <1>6 DEF DeleteKey
<1>7. CASE Delete(c)
  BY <1>7 DEF Delete
<1>8. CASE DeleteServer(c)
  <2>1. cur[c] \in Servers
    BY <1>8 DEF DeleteServer
  <2>2. PICK a \in Answers(Exists(cur[c])) :
          /\ power' = IF Applied(a) THEN [power EXCEPT ![cur[c]] = "gone"] ELSE power
          /\ IF Applied(a) THEN Vanish(cur[c]) ELSE UNCHANGED <<resizeVars, addrOf, hit>>
          /\ IF a = "ok" /\ ip[c] # None THEN Goto(c, "DeleteIP") ELSE Return(c)
    BY <1>8 DEF DeleteServer
  <2>3. \A s \in Servers : power[s] = "gone" => power'[s] = "gone"
    BY <2>1, <2>2
  <2>4. \A s \in Servers : ~Exists(s)' => phase'[s] = "steady"
    BY <2>1, <2>2 DEF Vanish
  <2>5. pc'[c] = "DeleteIP" => power'[cur'[c]] = "gone"
    BY <2>1, <2>2 DEF Applied
  <2> QED BY <2>3, <2>4, <2>5
<1>9. CASE DeleteIP(c)
  BY <1>9 DEF DeleteIP
<1>10. CASE Resize(c)
  BY <1>10 DEF Resize
<1>11. CASE AskResize(c)
  <2>1. cur[c] \in Servers /\ UNCHANGED power /\ pc'[c] # "DeleteIP"
    BY <1>11 DEF AskResize
  <2>2. \A s \in Servers : ~Exists(s) => phase'[s] = "steady"
    BY <1>11, <2>1 DEF AskResize, Answers, Applied
  <2> QED BY <2>1, <2>2
<1>12. CASE WaitResize(c)
  BY <1>12 DEF WaitResize, Note
<1>13. CASE Confirm(c)
  BY <1>13 DEF Confirm
<1>14. CASE Revert(c)
  BY <1>14 DEF Revert, Note
<1>15. CASE Stop(c)
  BY <1>15 DEF Stop, Switch, frameVars
<1>16. CASE Start(c)
  BY <1>16 DEF Start, Switch, frameVars
<1>17. CASE Associate(c)
  BY <1>17 DEF Associate, frameVars
<1> QED
  BY <1>1, <1>2, <1>3, <1>4, <1>5, <1>6, <1>7, <1>8, <1>9, <1>10, <1>11, <1>12, <1>13, <1>14,
     <1>15, <1>16, <1>17 DEF CallerStep, Continue

LEMMA GoneStep == TypeInv /\ GoneInv /\ [Next]_vars => GoneInv'
<1> SUFFICES ASSUME TypeInv, GoneInv, [Next]_vars PROVE GoneInv'
  OBVIOUS
<1>1. ASSUME NEW c \in Callers, CallerStep(c) PROVE GoneInv'
  BY <1>1, GoneSteps, GoneKeeps, StepFrame DEF TypeInv, FrameInv
<1>2. ASSUME NEW s \in Servers, NovaStep(s) PROVE GoneInv'
  <2>1. UNCHANGED <<pc, cur>> /\ \A d \in Callers : pc[d] = "DeleteIP" => cur[d] \in Servers
    BY <1>2 DEF NovaStep, Built, Resized, NovaOnly, frameVars, TypeInv, FrameInv, FrameOK,
       DeleteCalls
  <2>2. \A r \in Servers : power[r] = "gone" => power'[r] = "gone"
    BY <1>2 DEF NovaStep, Built, Resized, TypeInv, ServerType, GoneInv, Exists
  <2>3. \A r \in Servers : ~Exists(r)' => phase'[r] = "steady"
    BY <1>2 DEF NovaStep, Built, Resized, TypeInv, ServerType, GoneInv, Exists
  <2> QED BY <2>1, <2>2, <2>3 DEF GoneInv
<1>3. ASSUME UNCHANGED vars PROVE GoneInv'
  BY <1>3 DEF vars, serverVars, resizeVars, frameVars, GoneInv, Exists
<1> QED
  BY <1>1, <1>2, <1>3, NextSteps

-----------------------------------------------------------------------------
IInv == TypeInv /\ KeyPairsTemporary /\ ResizeInv /\ TargetInv /\ GoneInv

LEMMA IInvInit == Init => IInv
BY MaxFaultsAssumption DEF Init, IInv, TypeInv, FrameInv, FrameType, FrameOK, ServerType,
       NoteType, CreateCalls, ResizeCalls, DeleteCalls, KeyPairsTemporary, ResizeInv, TargetInv,
       Waits, GoneInv

LEMMA IInvStep == IInv /\ [Next]_vars => IInv'
<1> SUFFICES ASSUME IInv, [Next]_vars PROVE IInv'
  OBVIOUS
<1>1. TypeInv' /\ KeyPairsTemporary' /\ GoneInv'
  BY FrameStep, ServerTypeStep, NoteTypeStep, KeyPairsStep, GoneStep DEF IInv, TypeInv
<1>2. ASSUME UNCHANGED vars PROVE ResizeInv' /\ TargetInv'
  BY <1>2 DEF vars, serverVars, resizeVars, frameVars, faultVars, IInv, ResizeInv, TargetInv,
     Works, Waits
<1>3. ResizeInv' /\ TargetInv'
  BY <1>2, NextSteps, ResizeStep, NovaResizeStep DEF IInv
<1> QED
  BY <1>1, <1>3 DEF IInv

\* createServer leaves a key pair behind only if its deletion went wrong or the process died.
THEOREM KeyPairsAreTemporary == Spec => []KeyPairsTemporary
<1>1. IInv => KeyPairsTemporary
  BY DEF IInv
<1> QED
  BY IInvInit, IInvStep, <1>1, PTL DEF Spec

\* A resize that waits for its confirmation has a caller working on it, unless it was reverted
\* too early, its revert failed, or the wait was cut by a failed poll.
THEOREM PendingResizes == Spec => []PendingResizeExplained
<1>1. IInv => PendingResizeExplained
  BY DEF IInv, PendingResizeExplained, ResizeInv, Works, ResizeFaults
<1> QED
  BY IInvInit, IInvStep, <1>1, PTL DEF Spec

\* Resize returns without error only on a server of the flavor it asked for, or when another
\* resize of the server was accepted while it waited.
THEOREM ResizeReturnsFlavor == Spec => ResizedAsAsked
<1> DEFINE AsAsked(c) ==
      (pc[c] = "Confirm" /\ pc'[c] = "idle") => flavor'[cur[c]] = want[c] \/ c \in overtaken
<1>1. ASSUME IInv, Next, NEW c \in Callers, pc[c] = "Confirm", pc'[c] = "idle"
      PROVE  flavor'[cur[c]] = want[c] \/ c \in overtaken
  <2>0. FrameType /\ cur[c] \in Servers /\ flavor \in [Servers -> Flavors \cup {None}]
    BY <1>1 DEF IInv, TypeInv, FrameInv, FrameOK, ServerType, ResizeCalls
  <2>1. ASSUME NEW s \in Servers, NovaStep(s) PROVE FALSE
    BY <1>1, <2>1 DEF NovaStep, Built, Resized, NovaOnly
  <2>2. PICK d \in Callers : CallerStep(d)
    BY <1>1, <2>1, NextSteps
  <2>3. d = c
    BY <1>1, <2>0, <2>2, StepFrame DEF OwnFrame
  <2>4. Confirm(c)
    <3>1. pc[c] = "Confirm" /\ pc'[c] # pc[c]
      BY <1>1
    <3> QED
      BY <2>2, <2>3, <3>1 DEF CallerStep, Continue, Create, ImportKey, CreateServer, WaitStable,
         Crash, DeleteKey, Delete, DeleteServer, DeleteIP, Resize, AskResize, WaitResize, Revert,
         Stop, Start, Switch, Associate
  <2>5. phase[cur[c]] = "VERIFY_RESIZE" /\ flavor'[cur[c]] = target[cur[c]]
    BY <1>1, <2>0, <2>4, GotoFrame DEF Confirm, Answers, Applied
  <2> QED
    BY <1>1, <2>0, <2>5 DEF IInv, TargetInv, Waits
<1>2. IInv /\ [Next]_vars => [\A c \in Callers : AsAsked(c)]_vars
  BY <1>1
<1> QED
  BY IInvInit, IInvStep, <1>2, PTL DEF Spec, ResizedAsAsked

\* A server loses its address only with its own end, or to the Delete of another server that
\* had the address when it was looked up.
THEOREM AddressesAreKept == Spec => AddressKept
<1> DEFINE Taken(x) == \E c \in Callers : /\ pc[c] = "DeleteIP" /\ ip[c] = x
                                          /\ cur[c] # addrOf[x]
           Lost(x) == addrOf[x] # None /\ power'[addrOf[x]] # "gone" /\ addrOf'[x] = None
<1>1. ASSUME IInv, Next, NEW x \in Addresses, Lost(x) PROVE Taken(x)
  <2>0. /\ addrOf \in [Addresses -> Servers \cup {None}] /\ addrOf[x] \in Servers
        /\ power \in [Servers -> {"none", "BUILD", "ACTIVE", "SHUTOFF", "ERROR", "gone"}]
    BY <1>1 DEF IInv, TypeInv, ServerType
  <2>1. ASSUME NEW s \in Servers, NovaStep(s) PROVE FALSE
    BY <1>1, <2>1 DEF NovaStep, Built, Resized, NovaOnly, ipVars
  <2>2. PICK c \in Callers : CallerStep(c)
    BY <1>1, <2>1, NextSteps
  <2>3. FrameOK(c)
    BY <1>1 DEF IInv, TypeInv, FrameInv
  <2>4. CASE DeleteServer(c)
    BY <1>1, <2>0, <2>3, <2>4 DEF DeleteServer, Vanish, FrameOK, DeleteCalls
  <2>5. CASE DeleteIP(c)
    <3>1. ip[c] = x
      BY <1>1, <2>0, <2>5 DEF DeleteIP
    <3>2. power[cur[c]] = "gone" /\ UNCHANGED power /\ pc[c] = "DeleteIP"
      BY <1>1, <2>5 DEF IInv, GoneInv, DeleteIP, serverVars
    <3> QED BY <1>1, <3>1, <3>2
  <2>6. CASE Associate(c)
    BY <1>1, <2>0, <2>6, NoneAssumption DEF Associate
  <2> QED
    BY <1>1, <2>2, <2>4, <2>5, <2>6 DEF CallerStep, Continue, Create, ImportKey, CreateServer,
       WaitStable, Crash, DeleteKey, Delete, Resize, AskResize, WaitResize, Confirm, Revert,
       Stop, Start, Switch, ipVars
<1>2. IInv /\ [Next]_vars =>
       [\A x \in Addresses :
          addrOf[x] # None /\ power'[addrOf[x]] # "gone" /\ addrOf'[x] = None
            => \E c \in Callers : /\ pc[c] = "DeleteIP" /\ ip[c] = x
                                  /\ cur[c] # addrOf[x]]_vars
  BY <1>1
<1> QED
  BY IInvInit, IInvStep, <1>2, PTL DEF Spec, AddressKept

=============================================================================

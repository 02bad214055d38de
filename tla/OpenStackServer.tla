-------------------------- MODULE OpenStackServer ---------------------------
(***************************************************************************)
(* ServerManager of the OpenStack provider                                 *)
(* (providers/openstack/servers.go), with the key pairs of keypairs.go and *)
(* WaitUntilServerReachStableState of providers/services.go.               *)
(*                                                                         *)
(* One action is one call to OpenStack or one wait.  An answer is "ok",    *)
(* "refused" (the state of the server does not allow the call), "fail"     *)
(* (nothing done) or "lost" (done, the caller sees an error); at most      *)
(* MaxFaults fail or get lost.  A wait polls the server every second for   *)
(* three minutes: it sees some of the states the server goes through.      *)
(* hit[s] remembers what went wrong since the last resize of server s.     *)
(*                                                                         *)
(* Users name any server, since List reports all of them.                  *)
(***************************************************************************)
EXTENDS Naturals, FiniteSets, ApiErrors

CONSTANTS Callers, Keys, Servers, Flavors, Addresses, MaxFaults, None

ASSUME MaxFaultsAssumption == MaxFaults \in Nat
ASSUME NoneAssumption == None \notin Keys \cup Servers \cup Flavors \cup Addresses

VARIABLES keys, used, keyHit,           \* key pairs, uuids drawn, calls whose deletion went wrong
          power, phase, flavor, target, \* servers: state, resize under way, flavor, new flavor
          addrOf, released,             \* floating addresses: server, those that were deleted
          pc, call, cur, want, ip,      \* callers: key, server, flavor and address in hand
          overtaken,                    \* callers of Resize whose server another one resizes
          faults, hit

keyVars    == <<keys, used, keyHit>>
resizeVars == <<phase, flavor, target>>
serverVars == <<power, resizeVars>>
ipVars     == <<addrOf, released>>
frameVars  == <<call, cur, want, ip>>
faultVars  == <<faults, hit>>
vars == <<keyVars, serverVars, ipVars, pc, frameVars, overtaken, faultVars>>

CreateCalls == {"ImportKey", "CreateServer", "WaitStable", "DeleteKey"}
ResizeCalls == {"Resize", "WaitResize", "Confirm", "Revert"}
DeleteCalls == {"DeleteServer", "DeleteIP"}

\* Types.  Servers, flavors, keys and addresses are strings in servers.go: none is used for
\* another.
TypeOK ==
  /\ keys \in SUBSET Keys /\ used \in SUBSET Keys /\ keyHit \in SUBSET Keys
  /\ power \in [Servers -> {"none", "BUILD", "ACTIVE", "SHUTOFF", "ERROR", "gone"}]
  /\ phase \in [Servers -> {"steady", "RESIZE", "VERIFY_RESIZE"}]
  /\ flavor \in [Servers -> Flavors \cup {None}]
  /\ target \in [Servers -> Flavors \cup {None}]
  /\ addrOf \in [Addresses -> Servers \cup {None}] /\ released \in SUBSET Addresses
  /\ pc \in [Callers -> CreateCalls \cup ResizeCalls \cup DeleteCalls \cup {"idle", "crashed"}]
  /\ call \in [Callers -> Keys \cup {None}]
  /\ cur \in [Callers -> Servers \cup {None}]
  /\ want \in [Callers -> Flavors \cup {None}]
  /\ ip \in [Callers -> Addresses \cup {None}]
  /\ overtaken \in SUBSET Callers
  /\ faults \in 0 .. MaxFaults
  /\ hit \in [Servers -> SUBSET (ResizeCalls \cup {"RevertEarly"})]

Init ==
  /\ keys = {} /\ used = {} /\ keyHit = {}
  /\ power = [s \in Servers |-> "none"]
  /\ phase = [s \in Servers |-> "steady"]
  /\ flavor = [s \in Servers |-> None]
  /\ target = [s \in Servers |-> None]
  /\ addrOf = [a \in Addresses |-> None] /\ released = {}
  /\ pc = [c \in Callers |-> "idle"]
  /\ call = [c \in Callers |-> None]
  /\ cur = [c \in Callers |-> None]
  /\ want = [c \in Callers |-> None]
  /\ ip = [c \in Callers |-> None]
  /\ overtaken = {}
  /\ faults = 0
  /\ hit = [s \in Servers |-> {}]

-----------------------------------------------------------------------------
Answers(pre) == IF pre THEN {"ok", "fail", "lost"} ELSE {"refused"}
Applied(a) == a \in {"ok", "lost"}

Pay(a) == IF a \in {"fail", "lost"} THEN faults < MaxFaults /\ faults' = faults + 1
                                    ELSE UNCHANGED faults

Note(s, causes) == hit' = [hit EXCEPT ![s] = @ \cup causes]

Exists(s) == power[s] \notin {"none", "gone"}
Steady(s) == Exists(s) /\ phase[s] = "steady"

Enter(c, key, s, f, a, next) ==
  /\ pc' = [pc EXCEPT ![c] = next]
  /\ call' = [call EXCEPT ![c] = key]
  /\ cur' = [cur EXCEPT ![c] = s]
  /\ want' = [want EXCEPT ![c] = f]
  /\ ip' = [ip EXCEPT ![c] = a]

Goto(c, next) == pc' = [pc EXCEPT ![c] = next] /\ UNCHANGED frameVars
Return(c)     == Enter(c, None, None, None, None, "idle")

-----------------------------------------------------------------------------
\* Create

Create(c) ==
  /\ pc[c] = "idle"
  /\ \E k \in Keys \ used : used' = used \cup {k} /\ Enter(c, k, None, None, None, "ImportKey")
  /\ UNCHANGED <<keys, keyHit, serverVars, ipVars, overtaken, faultVars>>

ImportKey(c) ==
  /\ pc[c] = "ImportKey"
  /\ \E a \in Answers(TRUE) :
       /\ Pay(a)
       /\ keys' = IF Applied(a) THEN keys \cup {call[c]} ELSE keys
       /\ Goto(c, IF a = "ok" THEN "CreateServer" ELSE "DeleteKey")
  /\ UNCHANGED <<used, keyHit, serverVars, ipVars, overtaken, hit>>

\* The name of the key pair is put where Nova does not read it: the server has no key.
CreateServer(c) ==
  /\ pc[c] = "CreateServer"
  /\ \/ \E a \in {"ok", "lost"}, s \in Servers, f \in Flavors :
          /\ Pay(a)
          /\ power[s] = "none"
          /\ power' = [power EXCEPT ![s] = "BUILD"]
          /\ flavor' = [flavor EXCEPT ![s] = f]
          /\ IF a = "ok" THEN Enter(c, call[c], s, None, None, "WaitStable")
                         ELSE Goto(c, "DeleteKey")
     \/ \E a \in {"refused", "fail"} : /\ Pay(a)
                                       /\ Goto(c, "DeleteKey")
                                       /\ UNCHANGED <<power, flavor>>
  /\ UNCHANGED <<keyVars, phase, target, ipVars, overtaken, hit>>

\* What WaitUntilServerReachStableState returns, last being the state of the last poll.
\* Get builds a non-nil error also when it got the server: the wait takes it for a failure.
StableState(last) == IF NewServerError("nil") = "error" THEN None ELSE last

\* A server that is not ready is deleted, but no state ever comes back from the wait.
WaitStable(c) ==
  /\ pc[c] = "WaitStable"
  /\ LET state == StableState(power[cur[c]])
     IN power' = IF state \notin {None, "ACTIVE"} THEN [power EXCEPT ![cur[c]] = "gone"] ELSE power
  /\ Goto(c, "DeleteKey")
  /\ UNCHANGED <<keyVars, resizeVars, ipVars, overtaken, faultVars>>

\* A poll that fails converts a server without flavor, which panics: the process ends,
\* before or after its deferred deletion of the key pair.
Crash(c) ==
  /\ pc[c] = "WaitStable"
  /\ \/ /\ Exists(cur[c]) /\ faults < MaxFaults
        /\ faults' = faults + 1
     \/ ~Exists(cur[c]) /\ UNCHANGED faults
  /\ Enter(c, None, None, None, None, "crashed")
  /\ \/ keys' = keys \ {call[c]} /\ UNCHANGED keyHit
     \/ keyHit' = keyHit \cup {call[c]} /\ UNCHANGED keys
  /\ UNCHANGED <<used, serverVars, ipVars, overtaken, hit>>

\* A faulty DeleteKey: it is given up when the import was not confirmed.
DeleteKeyOnSuccess(c) ==
  /\ pc[c] = "DeleteKey"
  /\ IF cur[c] = None THEN UNCHANGED <<keys, keyHit, faults>>
     ELSE \E a \in Answers(TRUE) :
            /\ Pay(a)
            /\ keys' = IF Applied(a) THEN keys \ {call[c]} ELSE keys
            /\ keyHit' = IF Applied(a) THEN keyHit ELSE keyHit \cup {call[c]}
  /\ Return(c)
  /\ UNCHANGED <<used, serverVars, ipVars, overtaken, hit>>

DeleteKey(c) ==
  /\ pc[c] = "DeleteKey"
  /\ \E a \in Answers(TRUE) :
       /\ Pay(a)
       /\ keys' = IF Applied(a) THEN keys \ {call[c]} ELSE keys
       /\ keyHit' = IF Applied(a) THEN keyHit ELSE keyHit \cup {call[c]}
  /\ Return(c)
  /\ UNCHANGED <<used, serverVars, ipVars, overtaken, hit>>

-----------------------------------------------------------------------------
\* Delete: the address of the server is looked up first and deleted with it.

\* The look-up answers "no address" when it fails.
Delete(c) ==
  /\ pc[c] = "idle"
  /\ \E s \in Servers : Exists(s) /\ \E a \in {None} \cup {x \in Addresses : addrOf[x] = s} :
       Enter(c, None, s, None, a, "DeleteServer")
  /\ UNCHANGED <<keyVars, serverVars, ipVars, overtaken, faultVars>>

\* With a server go its resize, its flavor and its address; nobody asks for its history.
Vanish(s) ==
  /\ phase' = [phase EXCEPT ![s] = "steady"]
  /\ flavor' = [flavor EXCEPT ![s] = None] /\ target' = [target EXCEPT ![s] = None]
  /\ addrOf' = [x \in Addresses |-> IF addrOf[x] = s THEN None ELSE addrOf[x]]
  /\ hit' = [hit EXCEPT ![s] = {}]

\* A faulty DeleteServer: the address is deleted although the server was not.
DeleteServerOrNot(c) ==
  /\ pc[c] = "DeleteServer"
  /\ \E a \in Answers(Exists(cur[c])) :
       /\ Pay(a)
       /\ power' = IF Applied(a) THEN [power EXCEPT ![cur[c]] = "gone"] ELSE power
       /\ IF Applied(a) THEN Vanish(cur[c]) ELSE UNCHANGED <<resizeVars, addrOf, hit>>
  /\ IF ip[c] # None THEN Goto(c, "DeleteIP") ELSE Return(c)
  /\ UNCHANGED <<keyVars, released, overtaken>>

DeleteServer(c) ==
  /\ pc[c] = "DeleteServer"
  /\ \E a \in Answers(Exists(cur[c])) :
       /\ Pay(a)
       /\ power' = IF Applied(a) THEN [power EXCEPT ![cur[c]] = "gone"] ELSE power
       /\ IF Applied(a) THEN Vanish(cur[c]) ELSE UNCHANGED <<resizeVars, addrOf, hit>>
       /\ IF a = "ok" /\ ip[c] # None THEN Goto(c, "DeleteIP") ELSE Return(c)
  /\ UNCHANGED <<keyVars, released, overtaken>>

DeleteIP(c) ==
  /\ pc[c] = "DeleteIP"
  /\ \E a \in Answers(ip[c] \notin released) :
       /\ Pay(a)
       /\ released' = IF Applied(a) THEN released \cup {ip[c]} ELSE released
       /\ addrOf' = IF Applied(a) THEN [addrOf EXCEPT ![ip[c]] = None] ELSE addrOf
  /\ Return(c)
  /\ UNCHANGED <<keyVars, serverVars, overtaken, hit>>

-----------------------------------------------------------------------------
\* Resize: asked for, waited for, then confirmed or reverted

\* A faulty Resize: the identifiers of the server and of the template are swapped.
SwappedResize(c) ==
  /\ pc[c] = "idle"
  /\ \E s \in Servers, f \in Flavors : Exists(s) /\ Enter(c, None, f, s, None, "Resize")
  /\ overtaken' = overtaken \ {c}
  /\ UNCHANGED <<keyVars, serverVars, ipVars, faultVars>>

Resize(c) ==
  /\ pc[c] = "idle"
  /\ \E s \in Servers, f \in Flavors : Exists(s) /\ Enter(c, None, s, f, None, "Resize")
  /\ overtaken' = overtaken \ {c}
  /\ UNCHANGED <<keyVars, serverVars, ipVars, faultVars>>

\* The others that wait for a resize of the same server, or confirm one.
Rivals(c) == {d \in Callers \ {c} : pc[d] \in {"WaitResize", "Confirm"} /\ cur[d] = cur[c]}

AskResize(c) ==
  /\ pc[c] = "Resize"
  /\ \E a \in Answers(Steady(cur[c]) /\ power[cur[c]] \in {"ACTIVE", "SHUTOFF"}) :
       /\ Pay(a)
       /\ phase' = IF Applied(a) THEN [phase EXCEPT ![cur[c]] = "RESIZE"] ELSE phase
       /\ target' = IF Applied(a) THEN [target EXCEPT ![cur[c]] = want[c]] ELSE target
       /\ overtaken' = IF Applied(a) THEN overtaken \cup Rivals(c) ELSE overtaken
       /\ hit' = IF Applied(a) THEN [hit EXCEPT ![cur[c]] = {}] ELSE hit
       /\ Goto(c, IF a = "ok" THEN "WaitResize" ELSE "Revert")
  /\ UNCHANGED <<keyVars, power, flavor, ipVars>>

\* A faulty WaitResize: a time-out returns like a failed poll, without the revert.
WaitResizeReturns(c) ==
  /\ pc[c] = "WaitResize"
  /\ \/ /\ phase[cur[c]] = "RESIZE"
        /\ Goto(c, "Confirm")
     \/ /\ phase[cur[c]] # "RESIZE"
        /\ Return(c)
  /\ UNCHANGED <<keyVars, serverVars, ipVars, overtaken, faultVars>>

\* The wait is for status RESIZE.  It ends at once when a poll sees it, and by the time-out
\* when every poll comes too late; a last poll that fails is returned without a revert.
WaitResize(c) ==
  /\ pc[c] = "WaitResize"
  /\ \/ /\ phase[cur[c]] = "RESIZE"
        /\ Goto(c, "Confirm")
        /\ UNCHANGED faultVars
     \/ /\ Exists(cur[c]) /\ phase[cur[c]] # "RESIZE"
        /\ Goto(c, "Revert")
        /\ UNCHANGED faultVars
     \/ /\ IF Exists(cur[c]) THEN Pay("fail") ELSE UNCHANGED faults
        /\ Note(cur[c], {"WaitResize"})
        /\ Return(c)
  /\ UNCHANGED <<keyVars, serverVars, ipVars, overtaken>>

\* A faulty Confirm: its error is not looked at.
ConfirmUnchecked(c) ==
  /\ pc[c] = "Confirm"
  /\ \E a \in Answers(phase[cur[c]] = "VERIFY_RESIZE") :
       /\ Pay(a)
       /\ phase' = IF Applied(a) THEN [phase EXCEPT ![cur[c]] = "steady"] ELSE phase
       /\ flavor' = IF Applied(a) THEN [flavor EXCEPT ![cur[c]] = target[cur[c]]] ELSE flavor
       /\ target' = IF Applied(a) THEN [target EXCEPT ![cur[c]] = None] ELSE target
  /\ Return(c)
  /\ UNCHANGED <<keyVars, power, ipVars, overtaken, hit>>

Confirm(c) ==
  /\ pc[c] = "Confirm"
  /\ \E a \in Answers(phase[cur[c]] = "VERIFY_RESIZE") :
       /\ Pay(a)
       /\ phase' = IF Applied(a) THEN [phase EXCEPT ![cur[c]] = "steady"] ELSE phase
       /\ flavor' = IF Applied(a) THEN [flavor EXCEPT ![cur[c]] = target[cur[c]]] ELSE flavor
       /\ target' = IF Applied(a) THEN [target EXCEPT ![cur[c]] = None] ELSE target
       /\ IF a = "ok" THEN Return(c) ELSE Goto(c, "Revert")
  /\ UNCHANGED <<keyVars, power, ipVars, overtaken, hit>>

\* The answer is discarded.
Revert(c) ==
  /\ pc[c] = "Revert"
  /\ \E a \in Answers(phase[cur[c]] = "VERIFY_RESIZE") :
       /\ Pay(a)
       /\ phase' = IF Applied(a) THEN [phase EXCEPT ![cur[c]] = "steady"] ELSE phase
       /\ target' = IF Applied(a) THEN [target EXCEPT ![cur[c]] = None] ELSE target
       /\ Note(cur[c], (IF a = "fail" THEN {"Revert"} ELSE {})
                       \cup (IF phase[cur[c]] = "RESIZE" THEN {"RevertEarly"} ELSE {}))
  /\ Return(c)
  /\ UNCHANGED <<keyVars, power, flavor, ipVars, overtaken>>

-----------------------------------------------------------------------------
\* Start, Stop and PublicIPManager.Associate: one call changes the state

Switch(c, from, to) ==
  /\ pc[c] = "idle"
  /\ \E s \in Servers : /\ Steady(s) /\ power[s] = from
                        /\ power' = [power EXCEPT ![s] = to]
  /\ UNCHANGED <<keyVars, resizeVars, ipVars, pc, frameVars, overtaken, faultVars>>

Stop(c)  == Switch(c, "ACTIVE", "SHUTOFF")
Start(c) == Switch(c, "SHUTOFF", "ACTIVE")

Associate(c) ==
  /\ pc[c] = "idle"
  /\ \E s \in Servers, x \in Addresses \ released : /\ Exists(s)
                                                    /\ addrOf' = [addrOf EXCEPT ![x] = s]
  /\ UNCHANGED <<keyVars, serverVars, released, pc, frameVars, overtaken, faultVars>>

-----------------------------------------------------------------------------
\* OpenStack on its own: builds and resizes end, well or not

NovaOnly == UNCHANGED <<keyVars, flavor, ipVars, pc, frameVars, overtaken, faultVars>>

Built(s) == /\ power[s] = "BUILD"
            /\ \E to \in {"ACTIVE", "ERROR"} : power' = [power EXCEPT ![s] = to]
            /\ UNCHANGED <<phase, target>>
            /\ NovaOnly

Resized(s) == /\ phase[s] = "RESIZE"
              /\ \/ phase' = [phase EXCEPT ![s] = "VERIFY_RESIZE"] /\ UNCHANGED <<power, target>>
                 \/ /\ phase' = [phase EXCEPT ![s] = "steady"]
                    /\ power' = [power EXCEPT ![s] = "ERROR"]
                    /\ target' = [target EXCEPT ![s] = None]
              /\ NovaOnly

Continue(c) ==
  \/ ImportKey(c) \/ CreateServer(c) \/ WaitStable(c) \/ Crash(c) \/ DeleteKey(c)
  \/ DeleteServer(c) \/ DeleteIP(c)
  \/ AskResize(c) \/ WaitResize(c) \/ Confirm(c) \/ Revert(c)

Next ==
  \/ \E c \in Callers : \/ Create(c) \/ Delete(c) \/ Resize(c) \/ Stop(c) \/ Start(c)
                        \/ Associate(c) \/ Continue(c)
  \/ \E s \in Servers : Built(s) \/ Resized(s)

Spec == Init /\ [][Next]_vars

-----------------------------------------------------------------------------
\* Properties

\* createServer deletes its key pair on every path: one is left only if the deletion went
\* wrong or the process died first.
KeyPairsTemporary ==
  \A k \in keys : (\E c \in Callers : call[c] = k /\ pc[c] # "crashed") \/ k \in keyHit

\* Nobody works on a resize that waits for its confirmation only if it was reverted too
\* early, the revert failed, or the wait was cut by a failed poll.
PendingResizeExplained ==
  \A s \in Servers : phase[s] = "VERIFY_RESIZE" =>
    \/ \E c \in Callers : pc[c] \in ResizeCalls /\ cur[c] = s
    \/ hit[s] \cap {"RevertEarly", "Revert", "WaitResize"} # {}

\* Resize returns without error only when the server has the flavor that was asked for, or
\* another caller had its own resize accepted in the meantime, which this one confirmed.
ResizedAsAsked ==
  [][\A c \in Callers :
       (pc[c] = "Confirm" /\ pc'[c] = "idle") => flavor'[cur[c]] = want[c] \/ c \in overtaken]_vars

\* A server loses its address only with its own end, or to a Delete of another server that had the
\* address when it was looked up (line 116): no other failure, and no other overlap, takes it.
AddressKept ==
  [][\A x \in Addresses :
       addrOf[x] # None /\ power'[addrOf[x]] # "gone" /\ addrOf'[x] = None
         => \E c \in Callers : /\ pc[c] = "DeleteIP" /\ ip[c] = x
                               /\ cur[c] # addrOf[x]]_vars

\* Resize leaves no resize waiting for a confirmation when nothing fails.
ResizeSettled ==
  \A s \in Servers : phase[s] = "VERIFY_RESIZE" =>
    \E c \in Callers : pc[c] \in ResizeCalls /\ cur[c] = s

=============================================================================

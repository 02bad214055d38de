-------------------------- MODULE NetworkLifecycle --------------------------
(***************************************************************************)
(* What the CreateNetwork and DeleteNetwork operations of the              *)
(* NetworkManager interface (api/networks.go) promise about a network,     *)
(* with none of the cloud calls they are made of.                          *)
(*                                                                         *)
(* A network is built in private, is published to its creator once it is   *)
(* wired (named, attached to a gateway and routed), stays wired until its  *)
(* deletion is asked for, and never comes back.  A creation that fails     *)
(* leaves nothing, or a residue that nobody was told of and that is never  *)
(* published later.                                                        *)
(***************************************************************************)
CONSTANT Networks

VARIABLES phase,   \* where each network is in its life
          wired    \* the networks that are complete

lifecycle == <<phase, wired>>

Phases == {"absent", "building", "usable", "dismantling", "residue", "removed"}

Init == /\ phase = [n \in Networks |-> "absent"]
        /\ wired = {}

Move(n, from, to) == /\ phase[n] \in from
                     /\ phase' = [phase EXCEPT ![n] = to]
                     /\ UNCHANGED wired

\* A creation whose first answer is lost leaves a residue at once.
Start(n) == Move(n, {"absent"}, "building") \/ Move(n, {"absent"}, "residue")

Publish(n) == n \in wired /\ Move(n, {"building"}, "usable")

\* The creator gives up; its last attempt to undo may still take effect.
Abandon(n) == /\ phase[n] = "building"
              /\ phase' = [phase EXCEPT ![n] = "residue"]
              /\ wired' \in {wired, wired \ {n}}

AskDeletion(n) == Move(n, {"usable"}, "dismantling")

Remove(n) == n \notin wired /\ Move(n, {"building", "dismantling"}, "removed")

\* Only a network under construction becomes wired; one that is under construction or being
\* deleted may lose its wiring, a usable one may not.
Wire(n) == /\ phase[n] = "building"
           /\ wired' = wired \cup {n}
           /\ UNCHANGED phase

Unwire(n) == /\ phase[n] \in {"building", "dismantling"}
             /\ wired' = wired \ {n}
             /\ UNCHANGED phase

Next == \E n \in Networks :
          \/ Start(n) \/ Publish(n) \/ Abandon(n) \/ AskDeletion(n) \/ Remove(n)
          \/ Wire(n) \/ Unwire(n)

Spec == Init /\ [][Next]_lifecycle

\* The users of a published network always find it wired.
UsableIsWired == {n \in Networks : phase[n] = "usable"} \subseteq wired

=============================================================================

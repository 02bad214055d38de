------------------------------ MODULE IpRange -------------------------------
(***************************************************************************)
(* GetRange (iputils/ip.go), which Azure and OpenStack call to report the  *)
(* addresses of their pools.  It walks through the block one address at a  *)
(* time, from the address the CIDR is written with.                        *)
(*                                                                         *)
(* Addresses are the numbers below Limit, which is 2^32 for IP v4.  The    *)
(* code adds in 16 bytes, so that the successor of the last address is no  *)
(* IP v4 address and belongs to no block; here it is the number Limit.     *)
(* A block is known by its length, a power of two in the code: Lengths may *)
(* be any set of numbers.                                                  *)
(***************************************************************************)
EXTENDS Integers

CONSTANTS Limit,    \* the number of addresses
          Lengths   \* the lengths of the blocks

ASSUME LimitAssumption == Limit \in Nat
ASSUME LengthsAssumption == Lengths \subseteq Nat \ {0}

VARIABLES ip,      \* the address in the CIDR
          base,    \* the first address of its block
          length,  \* the length of the block
          last,    \* the address the loop has reached
          stage

rangeVars == <<ip, base, length, last, stage>>

IPs == 0 .. Limit - 1

NextIP(a)     == a + 1
PreviousIP(a) == a - 1

Contains(a) == base <= a /\ a < base + length

First == NextIP(ip)

\* Types.  The loop stays in the block unless it starts outside.
RangeTypeOK ==
  /\ ip \in IPs /\ base \in Nat /\ length \in Lengths
  /\ last \in {First} \cup base .. base + length - 1
  /\ stage \in {"loop", "done"}

\* ParseCIDR returns the address and the block it belongs to, whose first address is the one with
\* the bits after the prefix cleared.
RangeInit ==
  /\ ip \in IPs
  /\ length \in Lengths
  /\ base = ip - (ip % length)
  /\ last = First
  /\ stage = "loop"

-----------------------------------------------------------------------------
\* A faulty Step: the loop looks at the address it is at and not at the next one.
AdvanceLate ==
  /\ stage = "loop"
  /\ Contains(last)
  /\ last' = NextIP(last)
  /\ UNCHANGED <<ip, base, length, stage>>

Advance ==
  /\ stage = "loop"
  /\ Contains(NextIP(last))
  /\ last' = NextIP(last)
  /\ UNCHANGED <<ip, base, length, stage>>

\* A faulty Finish: the loop ends on the last address only when it is in the block.
FinishInside ==
  /\ stage = "loop"
  /\ Contains(last) /\ ~Contains(NextIP(last))
  /\ stage' = "done"
  /\ UNCHANGED <<ip, base, length, last>>

Finish ==
  /\ stage = "loop"
  /\ ~Contains(NextIP(last))
  /\ stage' = "done"
  /\ UNCHANGED <<ip, base, length, last>>

RangeNext == Advance \/ Finish

RangeSpec == RangeInit /\ [][RangeNext]_rangeVars /\ WF_rangeVars(RangeNext)

-----------------------------------------------------------------------------
\* The result

FirstIP == First
LastIP  == PreviousIP(last)

\* The hosts of a block: neither its own address nor the one of the broadcast
Hosts == base + 1 .. base + length - 2

\* The range that is reported has the hosts of the block that come after the address it was asked
\* with: all of them for the address of the block, and none for blocks of one or two addresses or
\* when the last or the broadcast address was asked with; LastIP is below FirstIP then.
RangeIsHosts == stage = "done" => FirstIP .. LastIP = {a \in Hosts : ip < a}

\* The loop ends, whatever the block: one of 2^24 addresses takes as many steps.
Terminates == <>(stage = "done")

=============================================================================

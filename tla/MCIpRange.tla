----------------------------- MODULE MCIpRange ------------------------------
(* Instance of IpRange for TLC. *)
EXTENDS IpRange

\* The lengths of the blocks that the prefixes of an address can give
ASSUME PrefixAssumption == \A n \in Lengths : Limit % n = 0

=============================================================================

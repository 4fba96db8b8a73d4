---------------------------- MODULE MCConsensus ----------------------------
(* Small instances of Consensus for TLC. *)
EXTENDS Consensus

MCGenesis == [a \in {1, 2} |-> "k1"]

\* Address 3 hashes below address 1, which shares its bytes with address 2, so
\* that ties are broken by the address.
MCAddressHash == [a \in Address |-> IF a = 3 THEN 0 ELSE 1]
============================================================================

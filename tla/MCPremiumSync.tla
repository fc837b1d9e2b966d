--------------------------- MODULE MCPremiumSync ---------------------------
(* Two devices: the clock of the older rotki is ahead of the other's.       *)
EXTENDS PremiumSync

CONSTANTS old, new

MCDevice     == {old, new}
MCAhead      == [d \in MCDevice |-> IF d = old THEN 1 ELSE 0]
MCTogether   == [d \in MCDevice |-> 0]
MCAppVersion == [d \in MCDevice |-> IF d = old THEN 1 ELSE 2]
=============================================================================

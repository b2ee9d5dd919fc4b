------------------------------ MODULE MCHandover ------------------------------
(* The rollout on small instances. *)
EXTENDS Handover

OneName == [z \in Zones |-> CHOOSE n \in Names : TRUE]

\* Unsigned zones that are deleted with their data, and signed ones.
PlainSpecs  == [meta : Metas, dnssec : {FALSE}, orphan : {FALSE}]
SignedSpecs == [meta : Metas, dnssec : BOOLEAN, orphan : {FALSE}]

SteadyServer ==
  {[up |-> TRUE, deleting |-> FALSE, phase |-> "Ready", allows |-> Zones, key |-> TRUE]}

===============================================================================

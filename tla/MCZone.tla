------------------------------- MODULE MCZone ---------------------------------
(* The Zone controller on small instances. *)
EXTENDS ZoneInvariants

OneName == [z \in Zones |-> CHOOSE n \in Names : TRUE]

\* Zones of all kinds, and the ones that are not both signed and detached.
AllSpecs == [meta : Metas, dnssec : BOOLEAN, orphan : BOOLEAN]
SomeSpecs == {s \in AllSpecs : ~(s.dnssec /\ s.orphan)}

Running == [up |-> TRUE, deleting |-> FALSE, phase |-> "Ready", allows |-> Zones, key |-> TRUE]

\* A server that stays Ready.
SteadyServer == {Running}

\* A server that comes up, loses its API key, and fails.
ChangingServer ==
  {Running, [Running EXCEPT !.phase = "Other", !.key = FALSE], [Running EXCEPT !.phase = "Failed"]}

===============================================================================

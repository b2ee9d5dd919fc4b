------------------------------- MODULE MCRRSet --------------------------------
(* The RRSet controller on small instances. *)
EXTENDS RRSetInvariants

\* Two contents, and a third that PowerDNS rewrites to the first.
TheContents == {"a", "b", "A"}
TheCanon == [c \in TheContents |-> IF c = "A" THEN "a" ELSE c]

\* Values that differ in one record, and in how the TTL is given.
TwoValues == {[ttl |-> Unset, records |-> <<"a", "b">>], [ttl |-> 3600, records |-> <<"a">>]}

\* A value with two records, the same in another order, and one that is rewritten.
ThreeValues == {[ttl |-> 60, records |-> <<"a", "b">>], [ttl |-> 60, records |-> <<"b", "a">>],
                [ttl |-> 60, records |-> <<"A">>]}

\* All resources claim the same name and type.
SameKey == [r \in RRs |-> CHOOSE k \in Keys : TRUE]

\* Each resource has a name and type of its own.
OwnKey == [r \in RRs |-> r]

AllSpecs == [value : Values, orphan : BOOLEAN]

\* RRSets that are deleted with their record.
DeleteSpecs == [value : Values, orphan : {FALSE}]

ReadyZone == [up |-> TRUE, deleting |-> FALSE, secondary |-> FALSE, ready |-> TRUE]

SteadyZone == {ReadyZone}

\* A zone that is not Ready yet, turns Secondary, or is deleted.
ChangingZone ==
  {ReadyZone, [ReadyZone EXCEPT !.ready = FALSE], [ReadyZone EXCEPT !.secondary = TRUE],
   [ReadyZone EXCEPT !.deleting = TRUE]}

Running == [up |-> TRUE, deleting |-> FALSE, phase |-> "Ready", allows |-> RRs, key |-> TRUE]

SteadyServer == {Running}

\* A server that loses its API key, or fails.
ChangingServer == {Running, [Running EXCEPT !.key = FALSE], [Running EXCEPT !.phase = "Failed"]}

===============================================================================

---------------------------- MODULE MCRecordPlane -----------------------------
(* The record plane on small instances. *)
EXTENDS RecordPlane

OneName == [z \in Zones |-> CHOOSE n \in Names : TRUE]
OneKey  == [r \in RRs |-> CHOOSE k \in Keys : TRUE]

\* One value, with one content.
OneContent == [c \in Contents |-> c]
OneValue   == [ttl : {60}, records : {<<c>> : c \in Contents}]

\* Unsigned zones, deleted with their data, or detached from it.
DeleteSpecs == [meta : Metas, dnssec : {FALSE}, orphan : {FALSE}]
OrphanSpecs == [meta : Metas, dnssec : {FALSE}, orphan : {TRUE}]

\* RRSets that are deleted with their record.
DeleteRRs == [value : Values, orphan : {FALSE}]

SteadyServer ==
  {[up |-> TRUE, deleting |-> FALSE, phase |-> "Ready", allows |-> Zones, key |-> TRUE]}

===============================================================================

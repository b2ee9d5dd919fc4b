---------------------------- MODULE PlaneInvariants ---------------------------
(***************************************************************************)
(* Why a record always has someone bound to delete it: what is true of the *)
(* two informer caches and of the two running passes in every reachable    *)
(* state of the record plane.                                              *)
(***************************************************************************)
EXTENDS RecordPlane, ZoneInvariants

\* A finalizer on a live Zone was put there by a pass that read this very
\* incarnation of it, so the cache shows it live as well.
FinalizerWasCached ==
  \A z \in Zones :
    zone[z].up /\ zone[z].fin /\ ~zone[z].deleting => cached[z].up /\ ~cached[z].deleting

\* What both controllers rest on where they meet.
ZoneInv == OwnershipInv /\ FinalizerWasCached

RRTyped ==
  /\ rrset \in [RRs -> R!Objects] /\ listed \in [RRs -> R!Objects]
  /\ rcur \in RRs /\ rbase \in R!Objects /\ rtodo \in R!Statuses
  /\ recs = [k \in Keys |-> recs[k]]

\* b is a, or a later version of the same RRSet name.
RRLater(a, b) ==
  /\ a.gen <= b.gen
  /\ a.gen = b.gen /\ b.up => a.up /\ (a.deleting => b.deleting)

RRCacheLags ==
  /\ \A r \in RRs : RRLater(listed[r], rrset[r])
  /\ rpc # "idle" => RRLater(rbase, listed[rcur])

\* Steps of a pass that removes the finalizer of a deleted RRSet.
Releasing == {"delete", "release", "yield", "abandon", "detach"}

\* A finalizer the controller has seen on a live RRSet is still there, and stays
\* while a pass works on it.
RRFinalizerHolds ==
  /\ \A r \in RRs : listed[r].up /\ listed[r].fin /\ ~listed[r].deleting => rrset[r].up /\ rrset[r].fin
  /\ rpc \in {"get", "patch"} => rrset[rcur].up /\ rrset[rcur].fin
  /\ rpc = "finalizer" => ~rbase.deleting
  /\ rpc \in Releasing => rbase.deleting

RecordsHosted == ~Hosted => recs = NoRecords

\* The Zone is being deleted, and its data with it.
ZoneGoing == zone[TheZone].up /\ zone[TheZone].fin /\ zone[TheZone].deleting

\* Nobody else has touched the zone, and it was not left behind on purpose.
ZoneKept == Name(TheZone) \notin left \cup disturbed

\* An RRSet is released once its record is gone or is bound to go: after the
\* delete nobody writes the record again, and a pass that gives the record up
\* for the zone's sake saw a deletion that has happened.
ReleasedRecordGoes ==
  KeyOf[rcur] \notin rdisturbed =>
    /\ rpc = "release" => recs[KeyOf[rcur]] = NoValue
    /\ rpc = "abandon" /\ ZoneKept /\ recs[KeyOf[rcur]] # NoValue => ZoneGoing

\* RecordsOwned of a zone that nobody else touched.
KeptRecordsOwned == ZoneKept => RecordsOwned

\* Each record is declared by one RRSet, and the zone by one Zone.
UniqueKeys == \A r, o \in RRs : KeyOf[r] = KeyOf[o] => r = o
SoleZone   == \A z \in Zones : Name(z) = Name(TheZone) => z = TheZone

\* Zones are deleted with their data, on a server that stays, by an operator that
\* is PowerDNS's only client and whose timeouts cancel what they give up on.
NothingDetached ==
  /\ \A s \in Specs : s.orphan = FALSE
  /\ \A v \in ServerViews : v.up /\ ~v.deleting /\ v.phase # "Failed"
  /\ MaxForeign = 0 /\ "late" \notin Faults

\* Then no Zone is released without an API delete.
DeletesWithData ==
  /\ Alone /\ left = {} /\ server \in ServerViews
  /\ \A z \in Zones : zone[z].orphan = FALSE /\ cached[z].orphan = FALSE
  /\ pc # "detach"

\* What RecordsOwned rests on.
PlaneInv ==
  /\ ZoneInv /\ RRTyped /\ RRCacheLags /\ RRFinalizerHolds /\ RecordsHosted
  /\ rpc # "yield" /\ ReleasedRecordGoes /\ KeptRecordsOwned

===============================================================================

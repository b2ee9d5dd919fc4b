---------------------------- MODULE RRSetInvariants ---------------------------
(***************************************************************************)
(* Why two claimants of one record are never both Applied, and why what an *)
(* Applied one asks for is served: what is true of the cache, of a running *)
(* pass and of the records in every reachable state.                       *)
(***************************************************************************)
EXTENDS RRSetController

\* The part of TypeOK that is about objects and passes.  A user always states
\* what the record set holds, and a pass works on an object that exists.
ObjectsTyped ==
  /\ rrset \in [RRs -> Objects] /\ listed \in [RRs -> Objects]
  /\ cur \in RRs /\ base \in Objects /\ todo \in Statuses
  /\ \A r \in RRs : (rrset[r].up => rrset[r].value \in Values)
                    /\ (listed[r].up => listed[r].value \in Values)
  /\ pc # "idle" => base.up /\ base.value \in Values

\* b is a, or a later version of the same resource name: within one spec
\* version a deletion mark stays, an object that is gone stays gone, and the
\* records it asks for are the same.
Later(a, b) ==
  /\ a.gen <= b.gen
  /\ a.gen = b.gen /\ b.up => a.up /\ (a.deleting => b.deleting) /\ a.value = b.value

\* The cache is no newer than the API server, what a pass read no newer than
\* the cache.
CacheLags ==
  /\ \A r \in RRs : Later(listed[r], rrset[r])
  /\ pc # "idle" => Later(base, rrset[cur]) /\ base.gen <= listed[cur].gen

\* observedGeneration was copied from an object that went through the cache.
ObservedWasCached ==
  /\ \A r \in RRs : rrset[r].status.obs <= listed[r].gen /\ listed[r].status.obs <= listed[r].gen
  /\ pc # "idle" => base.status.obs <= base.gen
  /\ pc = "status" => todo.obs <= base.gen

\* The pass has found no rival and may report Applied.
Applying == pc \in {"get", "patch"} \/ (pc = "status" /\ todo.reason = "Applied")

AppliedLive(r) == AppliedNow(r) /\ ~rrset[r].deleting

\* While a pass is applying an RRSet, no live rival of it is Applied; while it
\* is deleting the record, no live claimant of it is.
SoleApplier ==
  Applying \/ pc = "delete" =>
    \A o \in RRs : Key(o) = Key(cur) /\ AppliedLive(o) => o = cur /\ pc # "delete"

\* What AtMostOneApplied rests on.
ClaimInv ==
  ObjectsTyped /\ CacheLags /\ ObservedWasCached /\ SoleApplier /\ AtMostOneApplied

\* The part of TypeOK that is about PowerDNS.
RecordsTyped ==
  /\ hosted \in BOOLEAN /\ recs \in [Keys -> Kept]
  /\ inflight \subseteq Keys \X ({desiredRRSet(v) : v \in Values} \cup {NoValue})

\* A pass on an RRSet that is Applied works on its current spec.
AppliedFromCurrent == pc # "idle" /\ AppliedLive(cur) => base.gen = rrset[cur].gen

\* A pass that is about to report Applied has seen the records served.
ReportedIsServed ==
  pc = "status" /\ todo.reason = "Applied" /\ Key(cur) \notin disturbed =>
    hosted /\ Serves(recs[Key(cur)], base.value)

\* A record is only written for an RRSet that has its finalizer.
WritesFinalized == pc \in {"get", "patch", "delete"} => base.fin

\* What AppliedMeansServed rests on.
ServedInv ==
  /\ ClaimInv /\ RecordsTyped /\ WritesFinalized
  /\ AppliedFromCurrent /\ ReportedIsServed /\ AppliedMeansServed

\* The part of TypeOK that nothing else rests on.
RestTyped ==
  /\ zview \in ZoneStates /\ server \in ServerStates
  /\ pc \in {"idle", "finalizer", "get", "patch", "status", "delete", "release", "yield",
            "abandon", "detach"}
  /\ faults \in 0..MaxFaults /\ foreign \in 0..MaxForeign
  /\ disturbed \subseteq Keys /\ left \subseteq Keys

===============================================================================

---------------------------- MODULE ZoneInvariants ----------------------------
(***************************************************************************)
(* Why the Zone controller's safety properties hold: what is true of the   *)
(* cache and of a running pass in every reachable state.                   *)
(***************************************************************************)
EXTENDS ZoneController

\* b is a, or a later version of the same resource name.  Within one spec
\* version the spec is fixed, finalizer and deletion mark only ever appear, and
\* an object that is gone stays gone.
Later(a, b) ==
  /\ a.gen <= b.gen
  /\ a.gen = b.gen /\ b.up =>
       /\ a.up /\ a.meta = b.meta /\ a.dnssec = b.dnssec /\ a.orphan = b.orphan
       /\ a.fin => b.fin
       /\ a.deleting => b.deleting

\* What the pass read is no newer than the cache, and the cache no newer than
\* the API server.
CacheLags ==
  /\ \A z \in Zones : Later(cached[z], zone[z])
  /\ pc # "idle" => base.up /\ Later(base, cached[cur])

\* observedGeneration was copied from an object that went through the cache, so
\* every pass works from a spec at least as new as the one last reported.
ObservedWasCached ==
  /\ \A z \in Zones : zone[z].status.obs <= cached[z].gen /\ cached[z].status.obs <= cached[z].gen
  /\ pc # "idle" => zone[cur].status.obs <= base.gen /\ base.status.obs <= base.gen
  /\ pc = "status" => todo.obs <= base.gen

\* Steps of a pass that may write to PowerDNS on behalf of a live Zone.
Working == {"get", "create", "seed", "compensate", "rollback", "adopt", "update", "list",
            "deactivate", "activate", "addkey", "rectify", "relist"}

\* A finalizer the controller has seen on a live object is still there, and
\* stays while a pass works on it.
FinalizerHolds ==
  /\ \A z \in Zones :
       cached[z].up /\ cached[z].fin /\ ~cached[z].deleting => zone[z].up /\ zone[z].fin
  /\ pc \in Working => zone[cur].up /\ zone[cur].fin
  /\ pc = "finalizer" => ~base.deleting
  /\ pc \in {"delete", "release", "detach"} => base.deleting
  /\ pc \in {"delete", "release"} => ~base.orphan

Undisturbed == Name(cur) \notin disturbed

\* Between the API delete and the removal of the finalizer nobody of the
\* operator's creates the zone again.
ReleaseAfterDelete == pc = "release" /\ Undisturbed => ~store[Name(cur)].up

\* What the steps already taken have established in PowerDNS.
Progress ==
  /\ pc \in {"activate", "addkey", "rectify", "relist"} => base.dnssec
  /\ pc = "deactivate" => ~base.dnssec
  /\ Undisturbed =>
       /\ pc \in {"seed", "list", "deactivate", "activate", "addkey", "rectify", "relist"} =>
            store[Name(cur)].up /\ store[Name(cur)].meta = base.meta
       /\ pc = "deactivate" => store[Name(cur)].active = active
       /\ pc \in {"rectify", "relist"} => store[Name(cur)].active # {}

\* A Ready status is only about to be written when it is true.
ReportIsTrue ==
  pc = "status" /\ todo.phase = "Ready" /\ Undisturbed =>
    /\ store[Name(cur)].up /\ store[Name(cur)].meta = base.meta
    /\ (store[Name(cur)].active # {}) = base.dnssec
    /\ todo.ds \subseteq store[Name(cur)].active

\* The zone z promises to be served.
Promised(z) == ReadyNow(z) /\ (zone[z].deleting => zone[z].orphan)

\* A pass that creates the zone, and may have to roll that back, is not about
\* a Zone that has been promised.
CreatesUnpromised ==
  pc \in {"create", "seed", "compensate", "rollback"} /\ Undisturbed => ~Promised(cur)

\* No two Zone resources are for the same zone of the server.
UniqueNames == \A x, y \in Zones : Name(x) = Name(y) => x = y

\* What NoUnownedZone rests on.
OwnershipInv ==
  TypeOK /\ CacheLags /\ FinalizerHolds /\ ReleaseAfterDelete /\ NoUnownedZone

\* What ReadyMeansServed rests on.
ServiceInv ==
  OwnershipInv /\ ObservedWasCached /\ Progress /\ ReportIsTrue /\ CreatesUnpromised
  /\ ReadyMeansServed

\* Nobody but the controller writes to PowerDNS, and no write is late.
Alone == disturbed = {} /\ inflight = {} /\ foreign = 0

\* A zone that nobody else changed has one key at most: a pass adds one only where
\* it has just seen none.
OneKey ==
  /\ \A n \in Names \ disturbed :
       store[n].active \subseteq store[n].keys /\ \A j, k \in store[n].keys : j = k
  /\ pc = "addkey" /\ Undisturbed => store[Name(cur)].keys = {}

\* What LodgedDSStaysValid rests on.
LodgedInv == ServiceInv /\ OneKey

-------------------------------------------------------------------------------
(* The controller implements the registry of zones *)

Held    == {n \in Names : store[n].up}
Owned   == {n \in Names : \E z \in Zones : Name(z) = n /\ zone[z].up /\ zone[z].fin}
Excused == disturbed \cup left

Registry == INSTANCE ZoneRegistry WITH held <- Held, owned <- Owned, excused <- Excused

\* Through passes over stale caches, failed calls and crashes, the controller
\* does to PowerDNS and to finalizers only what the registry allows, one zone
\* at a time: it creates and removes a zone under a claim and drops the claim
\* when the zone is gone (Reconcile and reconcileDelete, zone_controller.go:53).
ImplementsRegistry == Registry!Spec

===============================================================================

# TLA+ models of the aether-powerdns operator

The operator runs four controllers in one process. They keep PowerDNS servers
on Kubernetes, the zones and records these servers hold, and dnsdist frontends
in the state that four custom resources declare. This directory holds TLA+
models of the controllers and of what they work against, TLC runs that check
them on small instances, and TLAPS proofs, for instances of any size, of all but
two of the safety properties the passing runs check. Source paths below are relative to
the repository root; controllers are in `internal/controller/`.

## The system and its models

| Part | Source | Modules |
| --- | --- | --- |
| PowerDNS HTTP client | `internal/pdnsclient/client.go` | `PdnsClient`, and the calls in the next two |
| Zone controller | `zone_controller.go`, `pdnsaccess.go` | `ZoneController`, `ZoneRegistry`, `ZoneInvariants`, `ZoneProofs`, `ZoneStatusProofs` |
| RRSet controller | `rrset_controller.go`, `pdnsaccess.go` | `RRSetController`, `RRSetInvariants`, `RRSetProofs` |
| Zone and RRSet controllers together | both | `RecordPlane`, `PlaneInvariants`, `PlaneProofs` |
| PowerDNSServer controller | `powerdnsserver_controller.go`, `converge.go` (`updateConfigMap`), `internal/cnpg` | `ServerController`, `ServerInvariants`, `ServerProofs` |
| DNSDist controller | `dnsdist_controller.go` | `DNSDistController`, `DNSDistInvariants`, `DNSDistProofs` |
| Service convergence | `converge.go` (`updateService`) | `ServiceConverge`, `ServiceProofs` |
| Garbage collection of additional Services | both server controllers | `AdditionalServices`, `AdditionalProofs` |
| Rendering | `internal/manifests/*.go` | tuples in `ServerController`, `DNSDistController` |
| API types and CRDs | `api/v1alpha1`, `config/crd` | record fields; immutability restricts `EditSpec` |
| Process | `cmd/operator/main.go` | one worker per controller; `ProcessCrash` in `RecordPlane`; a rollout in `Handover`, proved in `ZoneStatusProofs` |
| Generated deep copies, RBAC, manager manifests, examples, build | | not modelled: no behaviour |

`MC*.tla` give instances their constants, `MC*.cfg` are the TLC configurations.

### How a controller is modelled

controller-runtime calls `Reconcile` for one object at a time. Such a pass reads
the object from an informer cache, does a number of calls, and writes the
object's status or finalizers. Each of these calls is a step of the model, so
users, the cache, the other controllers and failures act between any two.

* The stored object and the cached one are two variables; `Refresh` copies one to
  the other. The pass keeps the object it read in `base`.
* An object write is accepted when the stored object still equals `base`. That
  stands for the resourceVersion check: two versions of one object with equal
  contents lead to the same pass.
* `gen` counts spec versions over all incarnations of a resource name and so
  stands for uid and generation.
* `Begin...` actions are the alternatives of the head of `Reconcile`, with its
  guards and early returns; the other actions of `PassStep` are its calls, named
  after the Go functions. An alternative of `Reconcile` that changes nothing (a
  Get that fails, no usable client on deletion) is the absence of a `Begin` step.
* Failures: a PowerDNS call is executed and answered (`done`), not executed
  (`err`), executed with the answer lost (`lost`), or executed after the client
  gave up (`late`, the "zombie write" of `client.go:31`; action `Land`).
  Kubernetes calls have the first three. `Crash` ends a pass anywhere.

**ZoneController.** `zone`, `cached`, `server` (what the gates read: existence,
deletion, phase, allow-list, usable key), `store` (what PowerDNS holds per zone
name: kind and masters as one value, SOA seeded or placeholder, keys, active
keys, rectified), `inflight` (late writes). History variables record which names
others or late writes changed (`disturbed`), which were released without a
delete (`left`), and which DS records were ever published (`lodged`).

**ZoneRegistry** is the abstract specification of the Zone controller: the zones
PowerDNS has (`held`), the names claimed by a Zone resource (`owned`), and the
names of which nothing is promised because others touched them or they were left
on purpose (`excused`). The mapping is at the end of `ZoneInvariants`: `held` is
the existence of the zone in `store`, `owned` the finalizer, `excused` the
history variables.

**RRSetController.** The same for several RRSets of one zone. `findConflict`
walks the same cache snapshot the pass started from. `recs` holds one value, a
TTL and a list of contents, per (name, type); `Patch` replaces or deletes one of
them. `desiredRRSet` fills in the default TTL. PowerDNS keeps a content in a form
of its own (`Canon`) and lists the records in any order (`Listings`);
`rrsetMatches` is the counting loop that compares such a list with the spec, in
closed form: when the loop comes to an entry, the content must be wanted more
often than it has been listed so far.

**Handover** is a rollout of the operator: the Zone controller twice, an old and
a new process with a cache and a pass each (`Old` is an INSTANCE), over one API
server and one PowerDNS. `main` starts the manager without leader election, so
the two overlap. It starts from Zones at rest. `fresh` and `checked` are history
variables: the Zones whose current pass the new process began after the old one
was gone, and those of which such a pass has written a status.

**RecordPlane** extends ZoneController and instantiates RRSetController: the
RRSet controller's view of the Zone is the Zone informer's copy, its `hosted` is
the existence of the zone in `store`, deleting a zone deletes its records, and a
crash ends both passes.

**ServerController.** The phase machine of `status.phase`. A child is a tuple of
the spec fields (and, for the Deployment, the hash) it is rendered from, plus
the incarnation that owns it. A pass works through the children in the code's
order (`Workload`, `Routes`, `Drift`), create-only or converging as the code
does. Around it: CloudNativePG, the schema Job, pods with what they mounted when
they started, the load balancer, the garbage collector, and users who edit,
delete and tamper.

**DNSDistController.** Resolution of backends one by one, hash over
configuration, addresses and TLS Secret, children, status. Replicas and
disruption budget are numbers: `validateDNSDist` compares them, `pdbFor` computes
the budget, and scaling leaves the pod template alone. No finalizer: the garbage
collector removes what is left.

**ServiceConverge.** One `updateService` call at a time with its conflict
retries on an informer copy, against node port assignment and a load balancer
controller that adds annotations.

**AdditionalServices.** The write, list, delete sequence of a server and of a
dnsdist tier, interleaved call by call over an informer copy of the Services.
Whether the two resources share a name is chosen in `Init`.

### Abstractions

* Specs are records of the fields on which control flow or a property depends.
  `conf` is everything rendered into configuration, pods and Services.
* `validateSpec`, `nameInZone`, selectors, and the checks of `validateDNSDist`
  other than the one on `minAvailable`, are abstracted to their verdict.
* The disruption budget of a PowerDNSServer is an opaque value; that of a DNSDist
  has its numbers.
* The garbage collector removes all orphans in one step.
* `status.dnsEndpoint` of a DNSDist is left out. A PowerDNSServer's endpoint is
  reduced to its kind.
* The order in which `backendsReady` visits backends is arbitrary.
* An edit does not move a server to another database. The CRD only fixes
  `backend.type`; nothing after ProvisioningBackend reads the BYO block again.
* In `ServerController` and `DNSDistController` reads of children other than the
  ConfigMap are current, those of the schema Job included. The ConfigMap's
  informer may lag (`Lag`), as may the Services' in `ServiceConverge` and
  `AdditionalServices`.

## Model checking

`tlc -config X.cfg M` for each row. Deadlock is not checked: when users and
failures have used up their bounds and everything has converged the system may
rest.

| Run | Module, cfg | Checks |
| --- | --- | --- |
| `zone_safety` | `MCZone`, `MCZoneSafety` | `ReadyMeansServed`, `NoUnownedZone`, `LodgedDSStaysValid`, `ImplementsRegistry`, `StrandedByFault` |
| `zone_live` | `MCZone`, `MCZoneLive` | `ReadyMeansSeeded`, `EventuallyReady`, `DeletionCompletes` |
| `rrset_rivals` | `MCRRSet`, `MCRRSetRivals` | `AppliedMeansServed`, `AtMostOneApplied`, `EventuallyBothConflict`, `DeletionCompletes` |
| `rrset_parents` | `MCRRSet`, `MCRRSetParents` | `OthersRecordsUntouched`, `EventuallyApplied`, `DeletionCompletes`, `SerialSettles` |
| `plane` | `MCRecordPlane`, `MCRecordPlane` | `RecordsOwned`, `RecordsReturn`, `DeletedRecordsGo` |
| `server_safety` | `MCServer`, `MCServerSafety` | `SchemaBeforeServer`, `JobAwaitsDatabase`, `ReadyNeverFails` |
| `server_live` | `MCServer`, `MCServerLive` | `EventuallyServing`, `EventuallyDelivered`, `DeletionCompletes` |
| `dnsdist` | `MCDNSDist`, `MCDNSDist` | `ReadyMeansRendered`, `EventuallyCurrent`, `NothingLeft` |
| `additional` | `AdditionalServices`, `MCAdditional` | `ServerSpared`, `EventuallyExact` |
| `service` | `ServiceConverge`, `MCService` | `ForeignStateKept`, `Quiescent`, `EventuallyConverged` |
| `handover` | `MCHandover`, `MCHandover` | `StatusNeverRegresses`, `TruthReturns` |
| `rrset_leak` | `MCRRSet`, `MCRRSetLeak` | violated: `NoLeakedRecord` |

`TypeOK` of each controller, and of `AdditionalServices`, is checked in one of its
runs. Every
property has a mutant next to the definition it changes ("Mutant of ..."), a
plausible mistake in that code under which TLC finds the property violated.

### What the runs show

* **Zones.** A Zone that is Ready for its current generation is served with that
  kind, those masters and that DNSSEC state, and its DS records are those of
  active keys, through stale caches, conflicts, failed and lost calls, crashes,
  deletion and recreation. A zone in PowerDNS always has someone bound to delete
  it. Switching DNSSEC off and on keeps published DS records valid. A zone whose
  SOA could not be seeded is deleted again; only a fault in the create, in the
  compensation, or a crash between them leaves it with the placeholder. Admitted
  Zones become Ready and stay so; deletions do not hang. Every step of the
  controller is a step of `ZoneRegistry` or changes nothing there.
* **Records.** Two claimants of one name and type never both report Applied, no
  pass of one disturbs the applied record of the other, and live claimants both
  end in Conflict. An Applied RRSet is served with the declared TTL and records.
  Resyncs stop sending PATCHes, so the serial comes to rest, except for contents
  that PowerDNS rewrites: those differ from the spec on every resync. Together
  with the Zone controller, records survive neither their RRSet nor their Zone,
  and come back when the Zone does.
* **Rollouts.** While two operator processes overlap, a status of an older spec
  never replaces one of a newer. A Zone may be Ready and not served meanwhile,
  because one process undoes from its older cache what the other has reported;
  `TruthReturns` says that the first status the new process writes from a pass it
  began alone ends this. During the overlap a zone may be left without an owner
  (see `MCHandoverLeak` below).
* **Servers.** The Deployment never precedes the schema, nor the Job a managed
  database. A Ready server is never made Failed. Servers end Ready, with pods on
  the current configuration and Secrets also after an API key was replaced or a
  password rotated by someone who writes it to the backend Secret too. They leave
  nothing when deleted, the database included.
* **dnsdist.** Ready is only reported for a generation all children are at, and
  then the disruption budget is below the number of replicas. Pods end with the
  current configuration, addresses and certificate.
* **Shared helpers.** `updateService` loses nothing that others put on a
  Service, and the writers come to rest. A server's additional Services are
  deleted by the server alone, also when a dnsdist tier has its name, and they end
  as the spec lists them. Those of the tier do so where the names differ; where
  they do not, the server deletes them and they come back, again and again.

### Bounds

* `MaxGen` 2 or 3: create, edit, recreate. A pass that acts on an outdated
  version needs two; a disable and re-enable of DNSSEC three. `rrset_parents`
  uses 1, its changes come from the parents.
* `MaxFaults`, `MaxForeign`, `MaxTrouble` 1 or 2: a pass keeps nothing, so the
  next one starts from the objects alone; a second fault is the same situation
  again except where it hits the recovery of the first (`server_safety` has 2).
  `rrset_rivals` has none: a status write that is refused ends a pass between the
  PATCH and the status as a crash does, `rrset_parents` has the faults, and the
  safety properties of both are proved under all of them.
* One Zone, or two RRSets, or one RRSet with another's record: Zones of different
  names share nothing but the worker, and the proofs are for any number of them.
  Conflicts are between pairs.
* One backend in `dnsdist`: backends only meet in "all of them are Ready". Its
  specs have 2 or 3 replicas, with the default budget, a smaller one, and one
  that equals the replicas and is rejected; the range of `int32` is never near.
  Others delete its Deployment (`Tampered`); deleted Services are in `service`.
* `Contents` in the RRSet runs: two contents and one that PowerDNS rewrites to the
  first, in lists of one or two. That is enough for a list to differ by order, by
  a missing record or by form. A list never repeats a content.
* `MaxOverlap` 1 in `handover`: passes the old process begins beside the new one.
  One suffices for a pass of each to interleave at every call. The run has one
  unsigned Zone and one failed call or lost answer.
* `server_live`: one edit of the spec (`MaxGen` 2) and one trouble, which may be a
  deleted Deployment (`Tampered`), an edited Deployment or API-key Secret, or a
  rotation that reaches the backend Secret too (`Altered`, `Rotations`). Two edits
  would include the one that is taken back, which is `MCServerFlip`. One server is
  on a CloudNativePG database behind a load balancer, the other, which is edited,
  on a database of its own behind a gateway. Jobs that expire are in
  `server_safety`.
* `additional`: two suffixes, two edits or failed calls, with one name and with
  two.

### Fairness

* `PassStep`: calls return, by the client's 10 s timeout or the API server's.
* `Refresh`: watches deliver.
* `BeginPass`: every pass ends in a requeue, a retry with back-off or a 30 s
  loop, and watches on parents enqueue too (`SetupWithManager`). Strong fairness
  per object where several objects share the worker, since the work queue is
  first-in first-out; weak fairness where there is one object. `DNSDistController`
  states it together with `PassStep`: one of the two is enabled at a time.
* In the server models, the cluster's own controllers (garbage collector,
  Job and Deployment controllers, load balancer, CloudNativePG) make progress.
* `Handover` states none: its properties are about safety.
* Nothing is assumed of users, failures, late writes and changes by others.

## Where code and documentation disagree

One of the disagreements is a run (`rrset_leak`). The others are kept as
configurations in which TLC finds the counterexample; the passing
runs leave these situations out, by their constants or in the property.

| cfg (module) | Violated | What happens |
| --- | --- | --- |
| `MCRRSetLeak` (`MCRRSet`) | `NoLeakedRecord` | A deleted RRSet leaves its record to a claimant that is deleted before its first pass; docs/managing-zones.md:71 |
| `MCAdditionalShared` (`AdditionalServices`) | `OthersSpared` | The server's selector lacks the app name; dnsdist_controller.go:235-238 |
| `MCZoneSeedLost` (`MCZone`) | `ReadyMeansSeeded` | The answer to the create is lost, the next pass finds the zone and never seeds it; docs/managing-zones.md:70 |
| `MCZoneLateKey` (`MCZone`) | `LodgedDSRecovers` | A key creation lands late; after a disable only the first key is activated again; zone_controller.go:226-229 |
| `MCRecordPlaneOrphan` (`MCRecordPlane`) | `DeletedRecordsGo` | An RRSet is released because its Zone is going, but the Zone is an Orphan one; rrset_controller.go:147-148 |
| `MCHandoverLeak` (`MCHandover`) | `NoUnownedZone` | During a rollout the old process creates a zone again that the new one has deleted and released; docs/managing-zones.md:71 |
| `MCServerEarlyEdit` (`MCServer`) | `ExposureFollowsSpec` | Exposure edited before Ready is never delivered: ExposingDNS writes no Services; docs/configuration.md:54 |
| `MCServerKey` (`MCServer`) | `KeyRegenerated` | A deleted key Secret is only created in Pending; docs/operations.md:60-61 |
| `MCServerOwnKey` (`MCServer`) | `EventuallyServing` | Pods mount the generated Secret, which a BYO key never creates; docs/configuration.md:105-106 |
| `MCServerRotate` (`MCServer`) | `CredentialsRepublished` | The backend Secret is only written in ProvisioningBackend; docs/operations.md:68-71 |
| `MCServerFailed` (`MCServer`) | `FailedUntilEdited` | Correcting the spec does not leave Failed; docs/architecture.md:40-41 |
| `MCServerBudget` (`MCServer`) | `ReadyLoopCoversAll` | The disruption budget is create-only; docs/architecture.md:42-45 |
| `MCServerDatabase` (`MCServer`) | `DatabaseSurvives` | The Cluster has an owner reference and is collected; docs/configuration.md:271-273 |
| `MCServerHasty` (`MCServer`) | `EventuallyServing` | A server recreated at once takes the old children for its own before they are collected; docs/operations.md:117-119 |
| `MCServerFlip` (`MCServer`) | `EventuallyDelivered` | Edited and edited back: pods that restarted in between keep the middle ConfigMap under an unchanged hash; docs/configuration.md:238-239 |
| `MCDNSDistStuck` (`MCDNSDist`) | `AddressesFollow` | One backend that stays down stops delivery of another's new address; internal/manifests/dnsdist.go:67-69 |

## Proofs

`tlapm M.tla` for each. They hold for any sets of resources, names, specs,
server states and faults and any bounds, from the assumptions
`FaultAssumption`, `ZoneAssumption`, `RRSetAssumption`, `PlaneAssumption`,
`ServerAssumption`, `TierAssumption`, `HandoverAssumption`,
`AdditionalAssumption` and `ServiceAssumption`, and what the table names. The assumptions type the
constants and say what the CRDs, the validation and PowerDNS guarantee (a dnsdist
tier has a backend; only a spec with gateway exposure can have bad parents;
PowerDNS's own form of a content is stable).

| Module | Theorem | States |
| --- | --- | --- |
| `ZoneProofs` | `TypeCorrect` | `Spec => []TypeOK` |
| | `Ownership` | `Spec => []NoUnownedZone` |
| | `Refinement` | `Spec => ImplementsRegistry` |
| `ZoneStatusProofs` | `Service` | `UniqueNames` implies `Spec => []ReadyMeansServed` |
| | `LodgedUndisturbed` | `UniqueNames` implies `Spec => [](disturbed = {} => LodgedDSStaysValid)` |
| | `Lodged` | `UniqueNames`, no `late` writes and `MaxForeign = 0` imply `Spec => []LodgedDSStaysValid` |
| | `SeedFailuresRepaired` | `Spec => StrandedByFault` |
| | `NeverRegresses` | `HandoverSpec => StatusNeverRegresses` |
| `RRSetProofs` | `RRSetTypes` | `Spec => []TypeOK` |
| | `OneClaimant` | `Spec => []AtMostOneApplied` |
| | `Served` | `Spec => []AppliedMeansServed` |
| | `Untouched` | `Spec => OthersRecordsUntouched` |
| `PlaneProofs` | `OwnedUnlessLeft` | `UniqueKeys` and `SoleZone` imply `PlaneSpec => [](ZoneKept => RecordsOwned)` |
| | `AlwaysOwned` | `UniqueKeys`, `SoleZone` and `NothingDetached` imply `PlaneSpec => []RecordsOwned` |
| | `ZonesStayOwned` | `PlaneSpec => []NoUnownedZone` |
| | `PlaneImplements` | `PlaneSpec => ImplementsRegistry` |
| `ServerProofs` | `ServerTypes` | `Spec => []TypeOK` |
| | `NeverFails` | `Spec => ReadyNeverFails` |
| | `SchemaFirst` | `Hasty = FALSE` implies `Spec => []SchemaBeforeServer` |
| | `DatabaseFirst` | `Hasty = FALSE` implies `Spec => []JobAwaitsDatabase` |
| `DNSDistProofs` | `TierTypes` | `Spec => []TypeOK` |
| | `Rendering` | `Spec => []ReadyMeansRendered` |
| `AdditionalProofs` | `WrittenKept` | `Spec => []TypeOK` |
| | `Spared` | `Spec => ServerSpared` |
| `ServiceProofs` | `ForeignKept` | `Spec => ForeignStateKept` |

Two ideas recur. The cache is never newer than the object, nor the copy in a
pass newer than the cache (`CacheLags`, `Lags`, over an order `Later` between
versions of an object). And a reported generation went through the cache
(`ObservedWasCached`), so a pass that starts later cannot be on an older spec:
that is why a pass on an old spec cannot undo what a newer one reported.

### Zones

`NoUnownedZone` is not inductive: a pass may be about to create a zone from a
cached object that says it has a finalizer. `OwnershipInv` in `ZoneInvariants`
adds `CacheLags`, that a finalizer seen on a live object stays while a pass works
on it (`FinalizerHolds`: only a pass on a deleting object removes it, and there
is one pass at a time), and that between the API delete and the release nobody
creates the zone again (`ReleaseAfterDelete`).

`ReadyMeansServed` needs more, collected in `ServiceInv`: what the steps of a
pass have established so far (`Progress`), that a Ready status about to be
written is true (`ReportIsTrue`), that a pass which may roll a creation back is
not about a Zone that has been promised (`CreatesUnpromised`), and
`ObservedWasCached`. It assumes `UniqueNames`: no two Zone resources for one zone
of the server. The code has no conflict rule for Zones, so without it two
resources do undo each other.

`LodgedDSStaysValid` rests on `LodgedInv`, which adds `OneKey`: a pass adds a key
only where it has just seen none, so a zone that nobody else changed has one key,
and every published DS record is that key's. A key that others or a late write
add ends this, as `MCZoneLateKey` shows, hence the hypotheses.

`StrandedByFault` bounds what the compensation of a failed seed leaves open. Its
proof follows `createZone` through the calls: a create that is answered goes on to
the seed; a seed that is answered has replaced the SOA, and one that is not goes
on to the compensating delete, whatever happened to the seed; a delete that is
answered has removed the zone. So a zone gets stuck on the placeholder only where
one of these calls fails or the process stops, and no other pass, of this or of
another zone, puts a placeholder back. The exceptions are real: `MCZoneSeedLost`
takes the first of them to a Zone that is Ready and never seeded.

`Refinement` needs `OwnershipInv` and nothing more: a create happens under a
finalizer (`FinalizerHolds`), and a finalizer is released when the zone is gone
(`ReleaseAfterDelete`), or the name is recorded in `left`. The proof goes through
the kinds of steps: calls change one zone and no claim, object writes change one
claim and no zone, users change neither, and late writes and others excuse the
name they touch.

### Records

`AtMostOneApplied` is not inductive: a pass may be about to report Applied from
an old snapshot. `ClaimInv` in `RRSetInvariants` adds `CacheLags`,
`ObservedWasCached`, and that while a pass is applying an RRSet, or deleting its
record, no live rival of it is Applied (`SoleApplier`). The last holds because an
RRSet that is Applied for its current spec is in the cache, live, and so every
pass that starts on a rival sees it; and because there is one pass at a time, no
rival becomes Applied during it.

`AppliedMeansServed` rests on `ServedInv`: in addition a pass on an Applied RRSet
works on its current spec (`AppliedFromCurrent`), and a pass about to report
Applied has seen its records served (`ReportedIsServed`). After a PATCH that is
what PowerDNS stored. Without one it is the verdict of `rrsetMatches`, and the
proof shows that two lists of one length that pass its loop have every content
equally often, whatever their length and order. The lemmas on counts use
induction in the form of a least counterexample, which the prover can follow.
`OthersRecordsUntouched` needs of it that a record is written only under the
finalizer (`WritesFinalized`).

### Zones and records together

`RecordsOwned` says that a record always has someone bound to delete it: its
RRSet's finalizer, or a Zone that is being deleted with its data. The hard case
is an RRSet that is deleted while its Zone is: `deleteFromPowerDNS` then makes no
API call, on the word of a cached Zone. `PlaneInv` in `PlaneInvariants` shows why
that is right. It consists of

* `OwnershipInv` of the Zone controller, which the RRSet controller's steps leave
  alone, and `FinalizerWasCached`: a Zone that is live and has its finalizer is
  live in the cache too. So a pass that sees the Zone deleted or absent is not
  looking at a stale copy from before a recreation: a Zone that still has its
  zone in PowerDNS is being deleted;
* for RRSets the order of versions (`RRCacheLags`) and the finalizer argument
  (`RRFinalizerHolds`), restated for the composition;
* `RecordsHosted`: where there is no zone there are no records;
* `ReleasedRecordGoes`: a pass about to release an RRSet has deleted its record,
  or the Zone is on its way out.

The hypotheses are needed. Without `UniqueKeys` a deleted RRSet yields its record
to a rival that may never get a finalizer (`MCRRSetLeak`). Without `SoleZone` a
second Zone resource of the same name may keep the zone when `TheZone` is gone. A
zone that is left behind on purpose, or that others or late writes touch, takes
its records with it (`MCRecordPlaneOrphan`): `OwnedUnlessLeft` excludes that in
the state (`ZoneKept`), `AlwaysOwned` by constants (`NothingDetached`: no Orphan
Zones, a server that stays, no late writes, nobody else). The constants of the
run `plane` satisfy all three; the theorems add any number of Zones and RRSets,
Orphan RRSets, and lost answers.

`ZonesStayOwned` and `PlaneImplements` need none of these hypotheses. They carry
`Ownership` and `Refinement` over to the composition: the RRSet controller leaves
the Zone controller's variables alone, and a crash of the process ends its pass
as a crash of the controller does.

### Servers

`ReadyNeverFails` rests on `PhaseInv` in `ServerInvariants`: which moves of the
phase a pass may be about to write at each of its calls (`PhaseMoves`; none goes
from Ready to Failed), that such a write only succeeds on the object the pass
read, and the finalizer, which keeps an incarnation in place while a pass works
on it (`FinalizerHolds`, `ReleaseSeen`).

`SchemaBeforeServer` and `JobAwaitsDatabase` rest on `DatabaseInv`: every copy of
the object of this incarnation, and the status about to be written, is in a phase
only with the database and the schema that phase presupposes (`PhaseEarned`); a
Job that succeeded left the schema; and all children are of this incarnation
(`OwnChildren`). The last is the hypothesis `Hasty = FALSE`: a server is
recreated only when the children of its predecessor have been collected.
`MCServerHasty` is about what happens otherwise.

### dnsdist

`RenderInv` in `DNSDistInvariants`: of the children, a pass has those it is done
with at its own spec (`Progress`), a reported tier has all of them at its current
one, and once a generation is reported no pass works on an older one
(`ObservedWasCached`). The budget below the replicas follows from
`validateDNSDist` having accepted the spec a pass works on.

### Rollouts

`StatusNeverRegresses` does not depend on caches at all. `HonestInv`: a status is
never about a spec newer than its object, and a pass of either process reports
the spec it read or the one reported before. Its write is accepted only on the
very object it read.

### Helpers

The properties of the helpers follow from small invariants. `TierHoldsOwn`: the
dnsdist controller is about to delete Services of its own only, whatever
the names, since its selector has the app name. The server's selector does not,
so the same is false of the server when the name is shared; `MCAdditionalShared`
has the counterexample. `TypeOK` of `AdditionalServices` says that a pass of
either does not delete a Service of its own that it has just written.
`PortAssigned`: a LoadBalancer has its node port, so a write gives it no
other one.

All inductive invariants were model-checked before they were proved, on the
instances of the runs; `PlaneInv` on a larger one, with Orphan Zones and RRSets,
late writes and RRSets that are recreated (21 million states).

### What is not proved

* Only model-checked: liveness under fairness and ENABLED, out of the prover's reach: the
  `Eventually...`, `DeletionCompletes`, `SerialSettles`, `RecordsReturn`,
  `DeletedRecordsGo`, `NothingLeft` and `Quiescent` properties.
* Only model-checked, of the safety properties: `ReadyMeansSeeded`, which the code
  keeps only for primary zones and where no fault hits the compensation
  (`StrandedByFault` is the part that is proved), and `TruthReturns`.
* The rest of what the controllers guarantee one by one is proved of the single
  controllers only, not of `RecordPlane`: `ReadyMeansServed`,
  `AppliedMeansServed` and the others that are not in the table for
  `PlaneSpec`. No run checks them there.

## Not modelled, and what could follow

* Text: YAML, dnsdist Lua, `ValidateExtraSettings` and `renderExtraSettings`,
  `nameInZone`. They are string functions without state; a model would repeat
  them character by character.
* The server's `validateSpec` bounds on the disruption budget. It is checked in
  Pending only, and the budget is create-only, which `MCServerBudget` shows.
* Generated deep copies, RBAC, manager manifests, examples and build: no
  behaviour.
* Not done: a server that is deleted or recreated under its zones, and a server
  with the dnsdist tier in front of it, as compositions (each side sees the other
  as a changing environment now); an abstract specification of the RRSet
  controller.

---------------------------- MODULE ZoneController ----------------------------
(***************************************************************************)
(* The Zone controller (internal/controller/zone_controller.go) against    *)
(* the Kubernetes API server and one PowerDNS server.                      *)
(*                                                                         *)
(* The controller runs one Reconcile pass at a time (controller-runtime's  *)
(* default of one worker).  A pass reads the Zone object from the informer *)
(* cache, which may lag behind the API server, makes a sequence of         *)
(* PowerDNS calls, and ends with at most one write to the Zone object; the *)
(* API server rejects that write when the object is no longer the one the  *)
(* pass read.  Every PowerDNS call and every object write is a step of its *)
(* own, so users, the cache and other writers act between any two.         *)
(*                                                                         *)
(* An object is identified with its content: a write is accepted when the  *)
(* stored content still equals the content read.  Equal contents of one    *)
(* object under different resourceVersions give the same pass, so this     *)
(* accepts nothing that a pass reading the newer version would not do.     *)
(***************************************************************************)
EXTENDS PdnsClient

CONSTANTS Zones,        \* Zone resources
          Names,        \* DNS zone names on the server
          NameOf,       \* spec.zoneName of each Zone; the CRD makes it immutable
          Metas,        \* values of (spec.kind, spec.masters)
          SecondaryMetas, \* those whose kind is Secondary
          Specs,        \* the mutable parts of specs users write
          ServerViews,  \* states of the PowerDNSServer that occur
          MaxGen,       \* bound: spec versions per Zone resource name
          MaxForeign    \* bound: changes made to PowerDNS by others

\* The PowerDNSServer as Reconcile sees it: whether the object exists and is
\* being deleted, status.phase, the Zones its allow-list admits, and whether
\* pdnsClientFor finds the published endpoint and a usable API-key Secret.
ServerStates == [up : BOOLEAN, deleting : BOOLEAN, phase : {"Ready", "Failed", "Other"},
                 allows : SUBSET Zones, key : BOOLEAN]

ASSUME ZoneAssumption ==
  /\ NameOf \in [Zones -> Names]
  /\ SecondaryMetas \subseteq Metas
  /\ "" \notin Metas
  /\ Specs \subseteq [meta : Metas, dnssec : BOOLEAN, orphan : BOOLEAN]
  /\ ServerViews \subseteq ServerStates
  /\ MaxGen \in Nat /\ MaxForeign \in Nat

VARIABLES
  zone,       \* the Zone objects in the API server
  cached,     \* the Zone informer's copy of them
  server,     \* the PowerDNSServer as the informer shows it
  store,      \* the zones PowerDNS holds
  inflight,   \* writes the client gave up on and the server may still execute
  pc,         \* where the running pass is; "idle" between passes
  cur,        \* the Zone the pass is about
  base,       \* the object as the pass read it
  keys,       \* key ids of the last ListCryptokeys answer
  active,     \* those that were active in it, less the ones deactivated since
  todo,       \* the status the pass is about to write
  minted,     \* DNSSEC keys created so far; ids are never reused
  faults,     \* faults so far
  foreign,    \* changes by others so far
  disturbed,  \* history: names changed by others or by a late write
  left,       \* history: names whose Zone was released without an API delete
  lodged      \* history: per name, key ids ever published as status.dsRecords

objVars   == <<zone, cached, server>>
passVars  == <<pc, cur, base, keys, active, todo>>
storeVars == <<store, inflight, minted>>
histVars  == <<foreign, disturbed, left, lodged>>
vars == <<zone, cached, server, store, inflight, pc, cur, base, keys, active,
          todo, minted, faults, foreign, disturbed, left, lodged>>

-------------------------------------------------------------------------------
(* Zone objects *)

Phases == {"", "Pending", "Failed", "Ready"}

\* The part of ZoneStatus the controller computes: phase (the Ready condition
\* is True exactly when it is Ready), observedGeneration, the Registered and
\* DNSSECReady conditions, and the keys behind dsRecords.
Statuses == [phase : Phases, obs : Nat,
             reg : {"", "True", "False"},
             sec : {"", "Secured", "Disabled", "Failed"},
             ds  : SUBSET Nat]

NoStatus == [phase |-> "", obs |-> 0, reg |-> "", sec |-> "", ds |-> {}]

\* gen counts spec versions over all incarnations of a resource name, so that
\* it stands for the pair (uid, metadata.generation).
Objects == [up : BOOLEAN, gen : Nat, deleting : BOOLEAN, fin : BOOLEAN,
            meta : Metas \cup {""}, dnssec : BOOLEAN, orphan : BOOLEAN,
            status : Statuses]

Gone(g) == [up |-> FALSE, gen |-> g, deleting |-> FALSE, fin |-> FALSE,
            meta |-> "", dnssec |-> FALSE, orphan |-> FALSE,
            status |-> NoStatus]

Name(z) == NameOf[z]

(* PowerDNS: what it stores for a zone name, and what each API call does.   *)

\* soa: "default" until the operator's SOA replaces PowerDNS's placeholder;
\* rect: the zone was rectified after the last key became active.
StoredZones == [up : BOOLEAN, meta : Metas \cup {""}, soa : {"default", "seeded"},
                keys : SUBSET Nat, active : SUBSET Nat, rect : BOOLEAN]

Absent == [up |-> FALSE, meta |-> "", soa |-> "default",
           keys |-> {}, active |-> {}, rect |-> FALSE]

\* A request is <<operation, zone name, argument>>.
Effect(q, s) ==
  CASE q[1] = "create"  -> IF s.up THEN s ELSE [Absent EXCEPT !.up = TRUE, !.meta = q[3]]
    [] q[1] = "delete"  -> Absent
    [] q[1] = "seed"    -> IF s.up THEN [s EXCEPT !.soa = "seeded"] ELSE s
    [] q[1] = "update"  -> IF s.up THEN [s EXCEPT !.meta = q[3]] ELSE s
    [] q[1] = "addkey"  -> IF s.up THEN [s EXCEPT !.keys = @ \cup {q[3]},
                                                  !.active = @ \cup {q[3]},
                                                  !.rect = FALSE] ELSE s
    [] q[1] = "on"      -> IF s.up /\ q[3] \in s.keys
                           THEN [s EXCEPT !.active = @ \cup {q[3]}, !.rect = FALSE] ELSE s
    [] q[1] = "off"     -> IF s.up THEN [s EXCEPT !.active = @ \ {q[3]}] ELSE s
    [] q[1] = "rectify" -> IF s.up THEN [s EXCEPT !.rect = TRUE] ELSE s

Reply(q, s) ==
  CASE q[1] = "create"         -> IF s.up THEN "exists" ELSE "ok"
    [] q[1] = "delete"         -> "ok"
    [] q[1] \in {"on", "off"}  -> IF s.up /\ q[3] \in s.keys THEN "ok" ELSE "notfound"
    [] OTHER                   -> IF s.up THEN "ok" ELSE "notfound"

\* The client performs request q and sees answer r.
Call(q, r) ==
  \E o \in Outcomes(faults) :
    /\ r \in Seen(o, Reply(q, store[q[2]]))
    /\ store' = IF TakesEffect(o) THEN [store EXCEPT ![q[2]] = Effect(q, @)] ELSE store
    /\ inflight' = IF o = "late" THEN inflight \cup {q} ELSE inflight
    /\ faults' = Charge(faults, o)

\* The client reads zone n and sees answer r.
Fetch(n, r) ==
  \E o \in ReadOutcomes(faults) :
    /\ r \in Seen(o, IF store[n].up THEN "ok" ELSE "notfound")
    /\ faults' = Charge(faults, o)
    /\ UNCHANGED <<store, inflight>>

-------------------------------------------------------------------------------
(* One Reconcile pass *)

\* Secondary content is replicated already signed, so this spec is invalid.
InvalidSpec(o) == o.meta \in SecondaryMetas /\ o.dnssec

\* Every gate between the spec check and the first PowerDNS call is open.
Admitted(z) ==
  server.up /\ z \in server.allows /\ server.phase = "Ready" /\ server.key

\* Deletion is released without an API call when the data goes with the server.
ServerLost == ~server.up \/ server.deleting \/ server.phase = "Failed"

\* The pass on z starts with the cached object; p is its first step.
Begin(z, p) ==
  /\ pc = "idle"
  /\ cached[z].up
  /\ pc' = p /\ cur' = z /\ base' = cached[z] /\ keys' = {} /\ active' = {}

\* The pass ends.
Finish ==
  /\ pc' = "idle" /\ base' = Gone(0) /\ keys' = {} /\ active' = {} /\ todo' = NoStatus
  /\ UNCHANGED cur

\* The pass continues at p with nothing but its position changed.
Goto(p) == pc' = p /\ UNCHANGED <<cur, base, keys, active, todo>>

\* The pass is over but for writing status st.
Report(st) == pc' = "status" /\ todo' = st /\ UNCHANGED <<cur, base, keys, active>>

\* Mutant of Pending: a phase the CRD does not have.
PendingUnknownPhase(st) == [st EXCEPT !.phase = "NotReady"]

Pending(st)      == [st EXCEPT !.phase = "Pending"]
Unregistered(st) == [Pending(st) EXCEPT !.reg = "False"]
Unsecured(st)    == [Pending(st) EXCEPT !.reg = "True", !.sec = "Failed"]

\* The last lines of reconcileZone: what a completed pass reports.
Reconciled(o, ds) ==
  [phase |-> "Ready", obs |-> o.gen, reg |-> "True",
   sec |-> IF o.dnssec THEN "Secured" ELSE "Disabled", ds |-> ds]

\* Mutant of Unmodified: writes do not carry the version they are based on.
UnmodifiedBlind == zone[cur].up

\* Update and Status().Update are optimistic: a pass that read an older
\* version of the object gets a Conflict and writes nothing.
Unmodified == zone[cur] = base

BeginAddFinalizer(z) ==
  /\ Begin(z, "finalizer")
  /\ ~cached[z].deleting /\ ~cached[z].fin
  /\ UNCHANGED <<objVars, storeVars, faults, histVars, todo>>

BeginInvalid(z) ==
  /\ Begin(z, "status")
  /\ ~cached[z].deleting /\ cached[z].fin /\ InvalidSpec(cached[z])
  /\ todo' = [cached[z].status EXCEPT !.phase = "Failed"]
  /\ UNCHANGED <<objVars, storeVars, faults, histVars>>

BeginNotReady(z) ==
  /\ Begin(z, "status")
  /\ ~cached[z].deleting /\ cached[z].fin /\ ~InvalidSpec(cached[z]) /\ ~Admitted(z)
  /\ todo' = Pending(cached[z].status)
  /\ UNCHANGED <<objVars, storeVars, faults, histVars>>

\* Mutant of BeginZone: a Zone that is Pending is not retried.
BeginZoneNoRetry(z) ==
  /\ Begin(z, "get")
  /\ ~cached[z].deleting /\ cached[z].fin /\ ~InvalidSpec(cached[z]) /\ Admitted(z)
  /\ cached[z].status.phase # "Pending"
  /\ UNCHANGED <<objVars, storeVars, faults, histVars, todo>>

\* Mutant of BeginZone: the zone is created before the finalizer is written.
BeginZoneUnclaimed(z) ==
  /\ Begin(z, "get")
  /\ ~cached[z].deleting /\ ~InvalidSpec(cached[z]) /\ Admitted(z)
  /\ UNCHANGED <<objVars, storeVars, faults, histVars, todo>>

BeginZone(z) ==
  /\ Begin(z, "get")
  /\ ~cached[z].deleting /\ cached[z].fin /\ ~InvalidSpec(cached[z]) /\ Admitted(z)
  /\ UNCHANGED <<objVars, storeVars, faults, histVars, todo>>

\* reconcileDelete up to its first call; without a usable client it fails
\* and changes nothing.
BeginDelete(z) ==
  /\ Begin(z, "delete")
  /\ cached[z].deleting /\ cached[z].fin /\ ~cached[z].orphan /\ ~ServerLost /\ server.key
  /\ UNCHANGED <<objVars, storeVars, faults, histVars, todo>>

\* Mutant of BeginDetach: no escape when the server is gone or Failed.
BeginDetachOrphanOnly(z) ==
  /\ Begin(z, "detach")
  /\ cached[z].deleting /\ cached[z].fin /\ cached[z].orphan
  /\ UNCHANGED <<objVars, storeVars, faults, histVars, todo>>

BeginDetach(z) ==
  /\ Begin(z, "detach")
  /\ cached[z].deleting /\ cached[z].fin /\ (cached[z].orphan \/ ServerLost)
  /\ UNCHANGED <<objVars, storeVars, faults, histVars, todo>>

AddFinalizer ==
  /\ pc = "finalizer"
  /\ zone' = IF Unmodified THEN [zone EXCEPT ![cur].fin = TRUE] ELSE zone
  /\ Finish
  /\ UNCHANGED <<cached, server, storeVars, faults, histVars>>

\* Mutant of GetZone: a generation that was observed is not compared again.
GetZoneOnce ==
  /\ pc = "get"
  /\ \E r \in Answers :
       /\ Fetch(Name(cur), r)
       /\ \/ /\ r = "ok"
             /\ Goto(IF /\ store[Name(cur)].meta # base.meta
                        /\ base.status.obs # base.gen
                     THEN "update" ELSE "list")
          \/ r = "notfound" /\ Goto("create")
          \/ r \in {"failed", "exists"} /\ Report(Unregistered(base.status))
  /\ UNCHANGED <<objVars, minted, histVars>>

\* GetZone, and what the pass does next: kind or masters that differ are
\* updated first, otherwise DNSSEC is next.
GetZone ==
  /\ pc = "get"
  /\ \E r \in Answers :
       /\ Fetch(Name(cur), r)
       /\ \/ r = "ok" /\ Goto(IF store[Name(cur)].meta # base.meta THEN "update" ELSE "list")
          \/ r = "notfound" /\ Goto("create")
          \/ r \in {"failed", "exists"} /\ Report(Unregistered(base.status))
  /\ UNCHANGED <<objVars, minted, histVars>>

CreateZone ==
  /\ pc = "create"
  /\ \E r \in Answers :
       /\ Call(<<"create", Name(cur), base.meta>>, r)
       /\ \/ r = "ok" /\ Goto(IF base.meta \in SecondaryMetas THEN "list" ELSE "seed")
          \/ r = "exists" /\ Goto("adopt")
          \/ r = "failed" /\ Report(Unregistered(base.status))
  /\ UNCHANGED <<objVars, minted, histVars>>

\* createZone's second call: the operator's SOA replaces the placeholder.
SeedSOA ==
  /\ pc = "seed"
  /\ \E r \in Answers :
       /\ Call(<<"seed", Name(cur), "">>, r)
       /\ Goto(CASE r = "ok" -> "list" [] r = "exists" -> "rollback" [] OTHER -> "compensate")
  /\ UNCHANGED <<objVars, minted, histVars>>

\* Mutant of Compensate: the zone without its SOA is left in place.
CompensateSkipped ==
  /\ pc \in {"compensate", "rollback"}
  /\ IF pc = "rollback" THEN Goto("adopt") ELSE Report(Unregistered(base.status))
  /\ UNCHANGED <<objVars, storeVars, faults, histVars>>

\* The zone without its SOA is deleted again; createZone returns the seed's
\* error whether or not that works, and its caller takes a conflict for one
\* of CreateZone's.
Compensate ==
  /\ pc \in {"compensate", "rollback"}
  /\ \E r \in Answers : Call(<<"delete", Name(cur), "">>, r)
  /\ IF pc = "rollback" THEN Goto("adopt") ELSE Report(Unregistered(base.status))
  /\ UNCHANGED <<objVars, minted, histVars>>

\* CreateZone hit an existing zone: read it and go on as if it had been found.
Adopt ==
  /\ pc = "adopt"
  /\ \E r \in Answers :
       /\ Fetch(Name(cur), r)
       /\ \/ r = "ok" /\ Goto(IF store[Name(cur)].meta # base.meta THEN "update" ELSE "list")
          \/ r # "ok" /\ Report(Unregistered(base.status))
  /\ UNCHANGED <<objVars, minted, histVars>>

UpdateZone ==
  /\ pc = "update"
  /\ \E r \in Answers :
       /\ Call(<<"update", Name(cur), base.meta>>, r)
       /\ \/ r = "ok" /\ Goto("list")
          \/ r # "ok" /\ Report([Pending(base.status) EXCEPT !.reg = "True"])
  /\ UNCHANGED <<objVars, minted, histVars>>

\* Mutant of AfterList: dsRecords are taken from all keys, not the active ones.
AfterListAllKeys(ks, as) ==
  /\ UNCHANGED <<cur, base>>
  /\ keys' = ks /\ active' = as
  /\ \/ /\ ~base.dnssec /\ as # {} /\ pc' = "deactivate" /\ UNCHANGED todo
     \/ /\ base.dnssec /\ as = {} /\ UNCHANGED todo
        /\ pc' = IF ks # {} THEN "activate" ELSE "addkey"
     \/ /\ base.dnssec <=> as # {}
        /\ pc' = "status" /\ todo' = Reconciled(base, ks)

\* Mutant of AfterList: enabling DNSSEC again makes a new key.
AfterListAlwaysNew(ks, as) ==
  /\ UNCHANGED <<cur, base>>
  /\ keys' = ks /\ active' = as
  /\ \/ /\ ~base.dnssec /\ as # {} /\ pc' = "deactivate" /\ UNCHANGED todo
     \/ /\ base.dnssec /\ as = {} /\ UNCHANGED todo /\ pc' = "addkey"
     \/ /\ base.dnssec <=> as # {}
        /\ pc' = "status" /\ todo' = Reconciled(base, as)

\* ensureDNSSEC's decision on the key list it has just read.
AfterList(ks, as) ==
  /\ UNCHANGED <<cur, base>>
  /\ keys' = ks /\ active' = as
  /\ \/ /\ ~base.dnssec /\ as # {} /\ pc' = "deactivate" /\ UNCHANGED todo
     \/ /\ base.dnssec /\ as = {} /\ UNCHANGED todo
        /\ pc' = IF ks # {} THEN "activate" ELSE "addkey"
     \/ /\ base.dnssec <=> as # {}
        /\ pc' = "status" /\ todo' = Reconciled(base, as)

ListCryptokeys ==
  /\ pc = "list"
  /\ \E r \in Answers :
       /\ Fetch(Name(cur), r)
       /\ \/ r = "ok" /\ AfterList(store[Name(cur)].keys, store[Name(cur)].active)
          \/ r # "ok" /\ Report(Unsecured(base.status))
  /\ UNCHANGED <<objVars, minted, histVars>>

\* Disabled: deactivate the active keys one by one, in list order.
Deactivate ==
  /\ pc = "deactivate"
  /\ \E k \in active : \E r \in Answers :
       /\ \A j \in active : k <= j
       /\ Call(<<"off", Name(cur), k>>, r)
       /\ \/ /\ r = "ok" /\ active' = active \ {k} /\ UNCHANGED <<cur, base, keys>>
             /\ IF active' = {} THEN pc' = "status" /\ todo' = Reconciled(base, {})
                               ELSE UNCHANGED <<pc, todo>>
          \/ r # "ok" /\ Report(Unsecured(base.status))
  /\ UNCHANGED <<objVars, minted, histVars>>

\* Enabled with only inactive keys: the first one is used again.
Activate ==
  /\ pc = "activate"
  /\ \E k \in keys : \E r \in Answers :
       /\ \A j \in keys : k <= j
       /\ Call(<<"on", Name(cur), k>>, r)
       /\ IF r = "ok" THEN Goto("rectify") ELSE Report(Unsecured(base.status))
  /\ UNCHANGED <<objVars, minted, histVars>>

CreateCryptokey ==
  /\ pc = "addkey"
  /\ \E r \in Answers :
       /\ Call(<<"addkey", Name(cur), minted + 1>>, r)
       /\ IF r = "ok" THEN Goto("rectify") ELSE Report(Unsecured(base.status))
  /\ minted' = minted + 1
  /\ UNCHANGED <<objVars, histVars>>

RectifyZone ==
  /\ pc = "rectify"
  /\ \E r \in Answers :
       /\ Call(<<"rectify", Name(cur), "">>, r)
       /\ IF r = "ok" THEN Goto("relist") ELSE Report(Unsecured(base.status))
  /\ UNCHANGED <<objVars, minted, histVars>>

\* The second key list only feeds dsRecords.
RelistCryptokeys ==
  /\ pc = "relist"
  /\ \E r \in Answers :
       /\ Fetch(Name(cur), r)
       /\ \/ r = "ok" /\ Report(Reconciled(base, store[Name(cur)].active))
          \/ r # "ok" /\ Report(Unsecured(base.status))
  /\ UNCHANGED <<objVars, minted, histVars>>

\* Status().Update at the end of reconcileZone, markNotReady and markFailed.
WriteStatus ==
  /\ pc = "status"
  /\ zone' = IF Unmodified THEN [zone EXCEPT ![cur].status = todo] ELSE zone
  /\ lodged' = IF Unmodified THEN [lodged EXCEPT ![Name(cur)] = @ \cup todo.ds] ELSE lodged
  /\ Finish
  /\ UNCHANGED <<cached, server, storeVars, faults, foreign, disturbed, left>>

\* Mutant of DeleteZone: the finalizer is released although the delete failed.
DeleteZoneBestEffort ==
  /\ pc = "delete"
  /\ \E r \in Answers : Call(<<"delete", Name(cur), "">>, r)
  /\ Goto("release")
  /\ UNCHANGED <<objVars, minted, histVars>>

\* reconcileDelete's API call; an error ends the pass and it is retried.
DeleteZone ==
  /\ pc = "delete"
  /\ \E r \in Answers :
       /\ Call(<<"delete", Name(cur), "">>, r)
       /\ IF r = "ok" THEN Goto("release") ELSE Finish
  /\ UNCHANGED <<objVars, minted, histVars>>

\* Removing the last finalizer of a deleting object makes it disappear.
Release ==
  /\ pc \in {"release", "detach"}
  /\ zone' = IF Unmodified THEN [zone EXCEPT ![cur] = Gone(@.gen)] ELSE zone
  /\ left' = IF ~Unmodified THEN left
             ELSE IF pc = "detach" THEN left \cup {Name(cur)} ELSE left \ {Name(cur)}
  /\ Finish
  /\ UNCHANGED <<cached, server, storeVars, faults, foreign, disturbed, lodged>>

\* The operator stops (or its context is cancelled) between two calls; the
\* next process starts a new pass from the objects alone.
Crash ==
  /\ pc # "idle"
  /\ "crash" \in Faults /\ faults < MaxFaults /\ faults' = faults + 1
  /\ Finish
  /\ UNCHANGED <<objVars, storeVars, histVars>>

-------------------------------------------------------------------------------
(* Everyone else *)

\* The informer catches up with the API server.
Refresh ==
  /\ cached # zone /\ cached' = zone
  /\ UNCHANGED <<zone, server, passVars, storeVars, faults, histVars>>

\* The PowerDNSServer controller, or a user, changes the server.
ServerChanges ==
  /\ foreign < MaxForeign /\ foreign' = foreign + 1
  /\ server' \in ServerViews \ {server}
  /\ UNCHANGED <<zone, cached, passVars, storeVars, faults, disturbed, left, lodged>>

\* A user writes spec s: the generation grows.
WithSpec(o, s) ==
  [o EXCEPT !.up = TRUE, !.gen = @ + 1, !.meta = s.meta, !.dnssec = s.dnssec, !.orphan = s.orphan]

CreateCR(z) ==
  /\ ~zone[z].up /\ zone[z].gen < MaxGen
  /\ \E s \in Specs : zone' = [zone EXCEPT ![z] = WithSpec(Gone(zone[z].gen), s)]
  /\ UNCHANGED <<cached, server, passVars, storeVars, faults, histVars>>

EditSpec(z) ==
  /\ zone[z].up /\ zone[z].gen < MaxGen
  /\ \E s \in Specs :
       /\ s # [meta |-> zone[z].meta, dnssec |-> zone[z].dnssec, orphan |-> zone[z].orphan]
       /\ zone' = [zone EXCEPT ![z] = WithSpec(zone[z], s)]
  /\ UNCHANGED <<cached, server, passVars, storeVars, faults, histVars>>

\* Without a finalizer the object is removed at once.
DeleteCR(z) ==
  /\ zone[z].up /\ ~zone[z].deleting
  /\ zone' = IF zone[z].fin THEN [zone EXCEPT ![z].deleting = TRUE]
             ELSE [zone EXCEPT ![z] = Gone(@.gen)]
  /\ UNCHANGED <<cached, server, passVars, storeVars, faults, histVars>>

\* Someone changes zone n with pdnsutil or the HTTP API.
ForeignRequests(n) ==
  {"delete", "seed", "rectify"} \X {n} \X {""}
    \cup {"create", "update"} \X {n} \X Metas
    \cup {"addkey"} \X {n} \X {minted + 1}
    \cup {"on", "off"} \X {n} \X store[n].keys

ForeignChange(n) ==
  /\ foreign < MaxForeign /\ foreign' = foreign + 1
  /\ \E q \in ForeignRequests(n) : store' = [store EXCEPT ![n] = Effect(q, @)]
  /\ minted' = minted + 1
  /\ disturbed' = disturbed \cup {n}
  /\ UNCHANGED <<objVars, passVars, inflight, faults, left, lodged>>

\* A write whose caller has long given up takes effect.
Land(q) ==
  /\ q \in inflight
  /\ inflight' = inflight \ {q}
  /\ store' = [store EXCEPT ![q[2]] = Effect(q, @)]
  /\ disturbed' = disturbed \cup {q[2]}
  /\ UNCHANGED <<objVars, passVars, minted, faults, foreign, left, lodged>>

-------------------------------------------------------------------------------
Init ==
  /\ zone = [z \in Zones |-> Gone(0)] /\ cached = zone
  /\ server \in ServerViews
  /\ store = [n \in Names |-> Absent] /\ inflight = {} /\ minted = 0
  /\ pc = "idle" /\ cur \in Zones /\ base = Gone(0)
  /\ keys = {} /\ active = {} /\ todo = NoStatus
  /\ faults = 0 /\ foreign = 0 /\ disturbed = {} /\ left = {}
  /\ lodged = [n \in Names |-> {}]

BeginPass(z) ==
  \/ BeginAddFinalizer(z) \/ BeginInvalid(z) \/ BeginNotReady(z)
  \/ BeginZone(z) \/ BeginDelete(z) \/ BeginDetach(z)

PassStep ==
  \/ AddFinalizer \/ GetZone \/ CreateZone \/ SeedSOA \/ Compensate \/ Adopt
  \/ UpdateZone \/ ListCryptokeys \/ Deactivate \/ Activate \/ CreateCryptokey
  \/ RectifyZone \/ RelistCryptokeys \/ WriteStatus \/ DeleteZone \/ Release

Environment ==
  \/ Refresh \/ ServerChanges
  \/ \E z \in Zones : CreateCR(z) \/ EditSpec(z) \/ DeleteCR(z)
  \/ \E n \in Names : ForeignChange(n)
  \/ \E q \in inflight : Land(q)

Next == PassStep \/ Crash \/ Environment \/ \E z \in Zones : BeginPass(z)

\* Calls return (the client's timeout), watches deliver, and the workqueue is
\* first-in first-out: a Zone that is queued again and again gets its pass.
\* Nothing is assumed of users, of faults or of late writes.
Fairness ==
  WF_vars(PassStep) /\ WF_vars(Refresh) /\ \A z \in Zones : SF_vars(BeginPass(z))

Spec == Init /\ [][Next]_vars /\ Fairness

-------------------------------------------------------------------------------
(* Properties *)

PCs == {"idle", "finalizer", "get", "create", "seed", "compensate", "rollback",
        "adopt", "update", "list", "deactivate", "activate", "addkey", "rectify",
        "relist", "status", "delete", "release", "detach"}

\* Requests the controller sends.
Requests == {"create", "update"} \X Names \X (Metas \cup {""})
            \cup {"delete", "seed", "rectify"} \X Names \X {""}
            \cup {"addkey", "on", "off"} \X Names \X Nat

\* Every variable keeps the type the Go structures give it (zone_controller.go:53).
TypeOK ==
  /\ zone \in [Zones -> Objects] /\ cached \in [Zones -> Objects]
  /\ server \in ServerStates
  /\ store \in [Names -> StoredZones] /\ inflight \subseteq Requests
  /\ pc \in PCs /\ cur \in Zones /\ base \in Objects
  /\ keys \subseteq Nat /\ active \subseteq Nat /\ todo \in Statuses
  /\ minted \in Nat /\ faults \in 0..MaxFaults /\ foreign \in 0..MaxForeign
  /\ disturbed \subseteq Names /\ left \subseteq Names
  /\ lodged \in [Names -> SUBSET Nat]

\* The status a user acts on: Ready, and computed from the current spec.
ReadyNow(z) == zone[z].up /\ zone[z].status.phase = "Ready" /\ zone[z].status.obs = zone[z].gen

\* PowerDNS holds what the spec of z asks for.
Served(z) ==
  LET s == store[Name(z)] IN
    /\ s.up /\ s.meta = zone[z].meta
    /\ (s.active # {}) = zone[z].dnssec
    /\ zone[z].status.ds \subseteq s.active

\* A Zone that reports Ready for its current generation is the zone PowerDNS
\* serves: same kind and masters, signed exactly when asked to be, and the DS
\* records in its status are those of active keys.  This outlives stale
\* caches, conflicts, crashes and lost answers; with deletionPolicy Orphan it
\* also outlives the resource's own deletion.  Excluded are names that someone
\* else, or a write that landed late, has changed (reconcileZone).
ReadyMeansServed ==
  \A z \in Zones :
    ReadyNow(z) /\ (zone[z].deleting => zone[z].orphan) /\ Name(z) \notin disturbed => Served(z)

\* A zone in PowerDNS always has a Zone resource whose finalizer will delete
\* it, unless it was released on purpose (deletionPolicy Orphan, or the server
\* is going away) or somebody else created it (Reconcile's finalizer-first
\* rule, reconcileDelete's delete-then-release order).
NoUnownedZone ==
  \A n \in Names : store[n].up /\ n \notin disturbed \cup left =>
    \E z \in Zones : Name(z) = n /\ zone[z].up /\ zone[z].fin

\* A Zone that reports Ready is not on PowerDNS's placeholder SOA: seeding is
\* create-only and its compensating delete makes up for a failed seed
\* (createZone; docs/managing-zones.md:70).
ReadyMeansSeeded ==
  \A z \in Zones :
    ReadyNow(z) /\ ~zone[z].deleting /\ zone[z].meta \notin SecondaryMetas
    /\ Name(z) \notin disturbed => store[Name(z)].soa = "seeded"

\* Zone n is on PowerDNS's placeholder SOA, and no pass is about to replace that
\* SOA or to delete the zone again.
Stranded(n) ==
  /\ store[n].up /\ store[n].soa = "default" /\ n \notin disturbed
  /\ ~(pc \in {"seed", "compensate", "rollback"} /\ Name(cur) = n)

\* How far the compensating delete of createZone reaches (zone_controller.go:214):
\* a seed that fails never strands a zone by itself, however many calls fail.
\* Only a create whose answer is lost does, a compensating delete that fails too,
\* and a process that stops in between.  A secondary zone gets its SOA by transfer.
StrandedByFault ==
  [][\A n \in Names : ~Stranded(n) /\ Stranded(n)' =>
       \/ pc = "create" /\ (base.meta \in SecondaryMetas \/ faults' > faults)
       \/ pc \in {"compensate", "rollback"} /\ faults' > faults
       \/ pc = "seed" /\ pc' = "idle"]_vars

\* Disabling DNSSEC keeps the keys and enabling it again brings back the ones
\* whose DS records were published before, so a DS lodged at the registrar
\* stays valid (ensureDNSSEC, zone_controller.go:226).
LodgedDSStaysValid ==
  \A z \in Zones :
    ReadyNow(z) /\ ~zone[z].deleting /\ zone[z].dnssec =>
      lodged[Name(z)] \cap store[Name(z)].keys \subseteq store[Name(z)].active

\* Once users, faults and others have stopped, a Zone that its server admits
\* becomes Ready for its current spec, is served, and stays so.
EventuallyReady ==
  \A z \in Zones :
    <>[](zone[z].up /\ ~zone[z].deleting /\ Admitted(z) /\ ~InvalidSpec(zone[z])
           => ReadyNow(z) /\ Served(z))

\* The same in the long run: whatever late writes did meanwhile, once they have
\* all landed the published DS records of a signed zone are valid again.
LodgedDSRecovers ==
  \A z \in Zones :
    <>[](ReadyNow(z) /\ ~zone[z].deleting /\ zone[z].dnssec =>
           lodged[Name(z)] \cap store[Name(z)].keys \subseteq store[Name(z)].active)

\* A deleted Zone disappears as long as its server can be called or is itself
\* gone, going or Failed: no deletion is wedged (reconcileDelete).
DeletionCompletes ==
  \A z \in Zones : <>[]~(zone[z].up /\ zone[z].deleting /\ (ServerLost \/ server.key))

===============================================================================

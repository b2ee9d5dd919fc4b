---------------------------- MODULE RRSetController ---------------------------
(***************************************************************************)
(* The RRSet controller (internal/controller/rrset_controller.go): the     *)
(* RRSet resources of one Zone and the records PowerDNS holds for it.      *)
(*                                                                         *)
(* As in ZoneController there is one pass at a time; it reads one snapshot *)
(* of all RRSets from the informer cache (its own object, and the list     *)
(* findConflict walks), makes at most two PowerDNS calls and ends with at  *)
(* most one optimistic write.  The Zone and the PowerDNSServer are what    *)
(* the cache shows of them; they change under the controller at any time.  *)
(***************************************************************************)
EXTENDS PdnsClient, Integers, Sequences, FiniteSets

CONSTANTS RRs,         \* RRSet resources
          Keys,        \* (name, type) pairs
          KeyOf,       \* the pair each resource declares; immutable
          InZone,      \* the resources whose name lies within the zone
          Contents,    \* contents of records
          Canon,       \* the form in which PowerDNS keeps each of them
          Values,      \* (ttl, records) of an rrset; the ttl may be Unset
          Specs,       \* the mutable parts of specs users write
          NoValue,     \* the value of an rrset that does not exist
          ZoneViews,   \* states of the Zone that occur
          ServerViews, \* states of the PowerDNSServer that occur
          MaxGen,      \* bound: spec versions per RRSet resource name
          MaxForeign   \* bound: changes to the zone, the server and the records by others

\* The Zone and the PowerDNSServer as Reconcile sees them.
ZoneStates == [up : BOOLEAN, deleting : BOOLEAN, secondary : BOOLEAN, ready : BOOLEAN]

ServerStates == [up : BOOLEAN, deleting : BOOLEAN, phase : {"Ready", "Failed", "Other"},
                 allows : SUBSET RRs, key : BOOLEAN]

Unset == -1

RecordSets == [ttl : Nat \cup {Unset}, records : Seq(Contents)]

ASSUME RRSetAssumption ==
  /\ KeyOf \in [RRs -> Keys]
  /\ Canon \in [Contents -> Contents] /\ \A c \in Contents : Canon[Canon[c]] = Canon[c]
  /\ Values \subseteq RecordSets /\ NoValue \notin RecordSets
  /\ InZone \subseteq RRs
  /\ Specs \subseteq [value : Values, orphan : BOOLEAN]
  /\ ZoneViews \subseteq ZoneStates /\ ServerViews \subseteq ServerStates
  /\ MaxGen \in Nat /\ MaxForeign \in Nat

VARIABLES
  rrset,      \* the RRSet objects in the API server
  listed,     \* the RRSet informer's copy of them
  zview,      \* the Zone as the informer shows it
  server,     \* the PowerDNSServer as the informer shows it
  hosted,     \* PowerDNS has the zone
  recs,       \* its records
  inflight,   \* writes the client gave up on and the server may still execute
  pc,         \* where the running pass is; "idle" between passes
  cur,        \* the RRSet the pass is about
  base,       \* the object as the pass read it
  todo,       \* the status the pass is about to write
  faults,     \* faults so far
  foreign,    \* changes by others so far
  disturbed,  \* history: keys changed by others or by a late write
  left        \* history: keys released for good without an API delete

objVars  == <<rrset, listed, zview, server>>
passVars == <<pc, cur, base, todo>>
pdnsVars == <<hosted, recs, inflight>>
histVars == <<foreign, disturbed, left>>
vars == <<rrset, listed, zview, server, hosted, recs, inflight, pc, cur, base,
          todo, faults, foreign, disturbed, left>>

-------------------------------------------------------------------------------
(* Objects *)

\* RRSetStatus: the Ready condition (its reason; True exactly for Applied)
\* and observedGeneration.
Statuses == [reason : {"", "Applied", "Conflict", "NotReady"}, obs : Nat]

NoStatus == [reason |-> "", obs |-> 0]

\* gen counts spec versions over all incarnations of a resource name.
Objects == [up : BOOLEAN, gen : Nat, deleting : BOOLEAN, fin : BOOLEAN,
            value : Values \cup {NoValue}, orphan : BOOLEAN, status : Statuses]

Gone(g) == [up |-> FALSE, gen |-> g, deleting |-> FALSE, fin |-> FALSE,
            value |-> NoValue, orphan |-> FALSE, status |-> NoStatus]

Key(r) == KeyOf[r]

-------------------------------------------------------------------------------
(* Record sets *)

\* What the PATCH carries.
desiredRRSet(v) == IF v.ttl = Unset THEN [v EXCEPT !.ttl = 3600] ELSE v

\* What PowerDNS keeps of it.
Stored(d) == [d EXCEPT !.records = [i \in 1..Len(d.records) |-> Canon[d.records[i]]]]

Occurs(s, c) == Cardinality({i \in 1..Len(s) : s[i] = c})

\* The orders in which PowerDNS may list the records of a set.
Listings(g) ==
  IF g = NoValue THEN {NoValue}
  ELSE {[g EXCEPT !.records = s] :
          s \in {t \in [1..Len(g.records) -> Contents] :
                   \A c \in Contents : Occurs(t, c) = Occurs(g.records, c)}}

\* Mutant of rrsetMatches: the records are compared one by one.
rrsetMatchesInOrder(got, d) == got = d

\* Mutant of rrsetMatches: each record that is served only has to be wanted.
rrsetMatchesSubset(got, d) ==
  /\ got # NoValue /\ got.ttl = d.ttl
  /\ \A i \in 1..Len(got.records) : Occurs(d.records, got.records[i]) > 0

\* The zone lists the rrset d, in any order: every record that is listed has to
\* be wanted more often than it was listed before.
rrsetMatches(got, d) ==
  /\ got # NoValue /\ got.ttl = d.ttl /\ Len(got.records) = Len(d.records)
  /\ \A i \in 1..Len(got.records) :
       LET c == got.records[i] IN Occurs(d.records, c) # Occurs(SubSeq(got.records, 1, i - 1), c)

\* What PowerDNS may hold for a key.
Kept == {Stored(desiredRRSet(v)) : v \in Values} \cup {NoValue}

Written(v) == IF v = NoValue THEN NoValue ELSE Stored(v)

\* Mutant of Patch: the change replaces the zone's records, not one rrset.
PatchWholesale(k, v, a) ==
  \E o \in Outcomes(faults) :
    /\ a \in Seen(o, IF hosted THEN "ok" ELSE "notfound")
    /\ recs' = IF TakesEffect(o) /\ hosted
               THEN [j \in Keys |-> IF j = k THEN Written(v) ELSE NoValue] ELSE recs
    /\ inflight' = IF o = "late" THEN inflight \cup {<<k, v>>} ELSE inflight
    /\ faults' = Charge(faults, o)
    /\ UNCHANGED hosted

\* PATCH of key k: changetype REPLACE with value v, or DELETE for NoValue.  A
\* PATCH of a zone PowerDNS does not have is a 404.
Patch(k, v, a) ==
  \E o \in Outcomes(faults) :
    /\ a \in Seen(o, IF hosted THEN "ok" ELSE "notfound")
    /\ recs' = IF TakesEffect(o) /\ hosted THEN [recs EXCEPT ![k] = Written(v)] ELSE recs
    /\ inflight' = IF o = "late" THEN inflight \cup {<<k, v>>} ELSE inflight
    /\ faults' = Charge(faults, o)
    /\ UNCHANGED hosted

-------------------------------------------------------------------------------
(* One Reconcile pass *)

\* The gates of Reconcile up to findConflict.
Targetable(r) ==
  /\ zview.up /\ ~zview.deleting /\ ~zview.secondary /\ r \in InZone
  /\ server.up /\ r \in server.allows /\ server.phase = "Ready"

\* The gates after it.
Reachable == zview.ready /\ server.key

\* findConflict: another live RRSet of the snapshot claims the same key.
Rivals(r) == {o \in RRs \ {r} : listed[o].up /\ ~listed[o].deleting /\ Key(o) = Key(r)}

\* deleteFromPowerDNS: the zone or the server is gone or going.
ZoneLost   == ~zview.up \/ zview.deleting
ServerLost == ~server.up \/ server.deleting \/ server.phase = "Failed"

\* The pass on r starts with the cached object; p is its first step.
Begin(r, p) ==
  /\ pc = "idle" /\ listed[r].up
  /\ pc' = p /\ cur' = r /\ base' = listed[r]
  /\ UNCHANGED <<objVars, pdnsVars, faults, histVars>>

Finish == pc' = "idle" /\ base' = Gone(0) /\ todo' = NoStatus /\ UNCHANGED cur

Goto(p) == pc' = p /\ UNCHANGED <<cur, base, todo>>

Report(st) == pc' = "status" /\ todo' = st /\ UNCHANGED <<cur, base>>

\* Mutant of NotReady: a reason that is not one of the controller's.
NotReadyUnknown(o) == [o.status EXCEPT !.reason = "Pending"]

\* markNotReady leaves observedGeneration alone.
NotReady(o) == [o.status EXCEPT !.reason = "NotReady"]
Applied(o)  == [reason |-> "Applied", obs |-> o.gen]

\* The API server rejects a write based on an older version of the object.
Unmodified == rrset[cur] = base

\* Mutant of Live: the record is written before the finalizer is.
LiveWithoutFinalizer(r) == listed[r].up /\ ~listed[r].deleting

Live(r) == listed[r].up /\ ~listed[r].deleting /\ listed[r].fin

BeginAddFinalizer(r) ==
  /\ Begin(r, "finalizer")
  /\ ~listed[r].deleting /\ ~listed[r].fin
  /\ UNCHANGED todo

BeginNotReady(r) ==
  /\ Begin(r, "status") /\ Live(r)
  /\ ~Targetable(r) \/ (Rivals(r) = {} /\ ~Reachable)
  /\ todo' = NotReady(listed[r])

\* Mutant of BeginConflict: the claimant that was applied first wins.
BeginConflictFirstWins(r) ==
  /\ Begin(r, "status") /\ Live(r)
  /\ Targetable(r) /\ Rivals(r) # {} /\ listed[r].status.reason # "Applied"
  /\ todo' = [listed[r].status EXCEPT !.reason = "Conflict"]

\* Both claimants are rejected, each on its own pass.
BeginConflict(r) ==
  /\ Begin(r, "status") /\ Live(r)
  /\ Targetable(r) /\ Rivals(r) # {}
  /\ todo' = [listed[r].status EXCEPT !.reason = "Conflict"]

\* Mutant of BeginApply: other claimants are not looked for.
BeginApplyAnyway(r) ==
  /\ Begin(r, "get") /\ Live(r)
  /\ Targetable(r) /\ Reachable
  /\ UNCHANGED todo

\* Mutant of BeginApply: a generation that was applied is not looked at again.
BeginApplyOnce(r) ==
  /\ Begin(r, "get") /\ Live(r)
  /\ Targetable(r) /\ Rivals(r) = {} /\ Reachable /\ listed[r].status.obs # listed[r].gen
  /\ UNCHANGED todo

BeginApply(r) ==
  /\ Begin(r, "get") /\ Live(r)
  /\ Targetable(r) /\ Rivals(r) = {} /\ Reachable
  /\ UNCHANGED todo

\* reconcileDelete: the record is deleted, left to a surviving claimant, left
\* to the deletion of its zone, or released because the policy is Orphan or
\* the server is on its way out.
\* Without a usable client the pass fails and changes nothing.
BeginDelete(r) ==
  /\ Begin(r, "delete") /\ listed[r].deleting /\ listed[r].fin
  /\ ~listed[r].orphan /\ ~ZoneLost /\ Rivals(r) = {} /\ ~ServerLost /\ server.key
  /\ UNCHANGED todo

\* Mutant of BeginYield: a conflict is reported on the deleted RRSet as well.
BeginYieldReports(r) ==
  /\ Begin(r, "status") /\ listed[r].deleting /\ listed[r].fin
  /\ ~listed[r].orphan /\ ~ZoneLost /\ Rivals(r) # {}
  /\ todo' = [listed[r].status EXCEPT !.reason = "Conflict"]

BeginYield(r) ==
  /\ Begin(r, "yield") /\ listed[r].deleting /\ listed[r].fin
  /\ ~listed[r].orphan /\ ~ZoneLost /\ Rivals(r) # {}
  /\ UNCHANGED todo

\* Mutant of BeginAbandon: a zone that is being deleted is waited for.
BeginAbandonGone(r) ==
  /\ Begin(r, "abandon") /\ listed[r].deleting /\ listed[r].fin
  /\ ~listed[r].orphan /\ ~zview.up
  /\ UNCHANGED todo

BeginAbandon(r) ==
  /\ Begin(r, "abandon") /\ listed[r].deleting /\ listed[r].fin
  /\ ~listed[r].orphan /\ ZoneLost
  /\ UNCHANGED todo

BeginDetach(r) ==
  /\ Begin(r, "detach") /\ listed[r].deleting /\ listed[r].fin
  /\ listed[r].orphan \/ (~ZoneLost /\ Rivals(r) = {} /\ ServerLost)
  /\ UNCHANGED todo

AddFinalizer ==
  /\ pc = "finalizer"
  /\ rrset' = IF Unmodified THEN [rrset EXCEPT ![cur].fin = TRUE] ELSE rrset
  /\ Finish
  /\ UNCHANGED <<listed, zview, server, pdnsVars, faults, histVars>>

\* GetZone and rrsetMatches: a PATCH is only sent for a difference.
GetZone ==
  /\ pc = "get"
  /\ \E o \in ReadOutcomes(faults), got \in Listings(recs[Key(cur)]) :
       /\ faults' = Charge(faults, o)
       /\ LET same == rrsetMatches(got, desiredRRSet(base.value))
          IN \/ (o # "done" \/ ~hosted) /\ Report(NotReady(base))
             \/ o = "done" /\ hosted /\ ~same /\ Goto("patch")
             \/ o = "done" /\ hosted /\ same /\ Report(Applied(base))
  /\ UNCHANGED <<objVars, pdnsVars, histVars>>

PatchRRSet ==
  /\ pc = "patch"
  /\ \E a \in Answers :
       /\ Patch(Key(cur), desiredRRSet(base.value), a)
       /\ Report(IF a = "ok" THEN Applied(base) ELSE NotReady(base))
  /\ UNCHANGED <<objVars, histVars>>

WriteStatus ==
  /\ pc = "status"
  /\ rrset' = IF Unmodified THEN [rrset EXCEPT ![cur].status = todo] ELSE rrset
  /\ Finish
  /\ UNCHANGED <<listed, zview, server, pdnsVars, faults, histVars>>

\* Mutant of DeleteRRSet: the finalizer is released although the delete failed.
DeleteRRSetBestEffort ==
  /\ pc = "delete"
  /\ \E a \in Answers : Patch(Key(cur), NoValue, a)
  /\ Goto("release")
  /\ UNCHANGED <<objVars, histVars>>

\* An error other than a 404 ends the pass and it is retried.
DeleteRRSet ==
  /\ pc = "delete"
  /\ \E a \in Answers :
       /\ Patch(Key(cur), NoValue, a)
       /\ IF a \in {"ok", "notfound"} THEN Goto("release") ELSE Finish
  /\ UNCHANGED <<objVars, histVars>>

\* Removing the last finalizer of a deleting object makes it disappear.
Release ==
  /\ pc \in {"release", "yield", "abandon", "detach"}
  /\ rrset' = IF Unmodified THEN [rrset EXCEPT ![cur] = Gone(@.gen)] ELSE rrset
  /\ left' = IF Unmodified /\ pc = "detach" THEN left \cup {Key(cur)}
             ELSE IF Unmodified /\ pc = "release" THEN left \ {Key(cur)} ELSE left
  /\ Finish
  /\ UNCHANGED <<listed, zview, server, pdnsVars, faults, foreign, disturbed>>

\* The operator stops between two calls.
Crash ==
  /\ pc # "idle"
  /\ "crash" \in Faults /\ faults < MaxFaults /\ faults' = faults + 1
  /\ Finish
  /\ UNCHANGED <<objVars, pdnsVars, histVars>>

-------------------------------------------------------------------------------
(* Everyone else *)

Refresh ==
  /\ listed # rrset /\ listed' = rrset
  /\ UNCHANGED <<rrset, zview, server, passVars, pdnsVars, faults, histVars>>

CreateCR(r) ==
  /\ ~rrset[r].up /\ rrset[r].gen < MaxGen
  /\ \E s \in Specs :
       rrset' = [rrset EXCEPT ![r] = [Gone(@.gen + 1) EXCEPT !.up = TRUE, !.value = s.value,
                                        !.orphan = s.orphan]]
  /\ UNCHANGED <<listed, zview, server, passVars, pdnsVars, faults, histVars>>

EditSpec(r) ==
  /\ rrset[r].up /\ rrset[r].gen < MaxGen
  /\ \E s \in Specs :
       /\ s # [value |-> rrset[r].value, orphan |-> rrset[r].orphan]
       /\ rrset' = [rrset EXCEPT ![r].gen = @ + 1, ![r].value = s.value, ![r].orphan = s.orphan]
  /\ UNCHANGED <<listed, zview, server, passVars, pdnsVars, faults, histVars>>

\* Without a finalizer the object is removed at once.
DeleteCR(r) ==
  /\ rrset[r].up /\ ~rrset[r].deleting
  /\ rrset' = IF rrset[r].fin THEN [rrset EXCEPT ![r].deleting = TRUE]
              ELSE [rrset EXCEPT ![r] = Gone(@.gen)]
  /\ UNCHANGED <<listed, zview, server, passVars, pdnsVars, faults, histVars>>

\* The Zone or the PowerDNSServer changes.
ParentChanges ==
  /\ foreign < MaxForeign /\ foreign' = foreign + 1
  /\ \/ zview' \in ZoneViews \ {zview} /\ UNCHANGED server
     \/ server' \in ServerViews \ {server} /\ UNCHANGED zview
  /\ UNCHANGED <<rrset, listed, passVars, pdnsVars, faults, disturbed, left>>

\* PowerDNS gets or loses the zone; a new zone has no records.
HostingChanges ==
  /\ foreign < MaxForeign /\ foreign' = foreign + 1
  /\ hosted' = ~hosted /\ recs' = [k \in Keys |-> NoValue]
  /\ disturbed' = Keys
  /\ UNCHANGED <<objVars, passVars, inflight, faults, left>>

\* Someone changes a record with pdnsutil or the HTTP API.
ForeignChange(k) ==
  /\ foreign < MaxForeign /\ foreign' = foreign + 1 /\ hosted
  /\ \E g \in Kept \ {recs[k]} : recs' = [recs EXCEPT ![k] = g]
  /\ disturbed' = disturbed \cup {k}
  /\ UNCHANGED <<objVars, passVars, hosted, inflight, faults, left>>

\* A write whose caller has long given up takes effect.
Land(q) ==
  /\ q \in inflight /\ inflight' = inflight \ {q}
  /\ recs' = IF hosted THEN [recs EXCEPT ![q[1]] = Written(q[2])] ELSE recs
  /\ disturbed' = disturbed \cup {q[1]}
  /\ UNCHANGED <<objVars, passVars, hosted, faults, foreign, left>>

-------------------------------------------------------------------------------
Init ==
  /\ rrset = [r \in RRs |-> Gone(0)] /\ listed = rrset
  /\ zview \in ZoneViews /\ server \in ServerViews
  /\ hosted = zview.ready /\ recs = [k \in Keys |-> NoValue] /\ inflight = {}
  /\ pc = "idle" /\ cur \in RRs /\ base = Gone(0) /\ todo = NoStatus
  /\ faults = 0 /\ foreign = 0 /\ disturbed = {} /\ left = {}

BeginPass(r) ==
  \/ BeginAddFinalizer(r) \/ BeginNotReady(r) \/ BeginConflict(r) \/ BeginApply(r)
  \/ BeginDelete(r) \/ BeginYield(r) \/ BeginAbandon(r) \/ BeginDetach(r)

PassStep ==
  \/ AddFinalizer \/ GetZone \/ PatchRRSet \/ WriteStatus \/ DeleteRRSet \/ Release

Users == \E r \in RRs : CreateCR(r) \/ EditSpec(r) \/ DeleteCR(r)

Environment ==
  \/ Refresh \/ Users \/ ParentChanges \/ HostingChanges
  \/ \E k \in Keys : ForeignChange(k)
  \/ \E q \in inflight : Land(q)

Next == PassStep \/ Crash \/ Environment \/ \E r \in RRs : BeginPass(r)

\* As in ZoneController: calls return, watches deliver, the workqueue is fair.
Fairness ==
  WF_vars(PassStep) /\ WF_vars(Refresh) /\ \A r \in RRs : SF_vars(BeginPass(r))

Spec == Init /\ [][Next]_vars /\ Fairness

-------------------------------------------------------------------------------
(* Properties *)

\* Every variable keeps the type the Go structures give it (rrset_controller.go:49).
TypeOK ==
  /\ rrset \in [RRs -> Objects] /\ listed \in [RRs -> Objects]
  /\ zview \in ZoneStates /\ server \in ServerStates
  /\ hosted \in BOOLEAN /\ recs \in [Keys -> Kept]
  /\ inflight \subseteq Keys \X ({desiredRRSet(v) : v \in Values} \cup {NoValue})
  /\ pc \in {"idle", "finalizer", "get", "patch", "status", "delete", "release", "yield",
            "abandon", "detach"}
  /\ cur \in RRs /\ base \in Objects /\ todo \in Statuses
  /\ faults \in 0..MaxFaults /\ foreign \in 0..MaxForeign
  /\ disturbed \subseteq Keys /\ left \subseteq Keys

\* Applied, for the current spec.
AppliedNow(r) ==
  rrset[r].up /\ rrset[r].status.reason = "Applied" /\ rrset[r].status.obs = rrset[r].gen

\* The rrset g is the one v asks for: its TTL, and each record as often as wanted.
Serves(g, v) ==
  LET d == Stored(desiredRRSet(v))
  IN g # NoValue /\ g.ttl = d.ttl /\ \A c \in Contents : Occurs(g.records, c) = Occurs(d.records, c)

\* An RRSet that reports Applied for its current spec is what PowerDNS serves
\* for that name and type, whatever other claimants were created, edited or
\* deleted meanwhile: no pass of a rival overwrites or deletes the record of
\* an applied RRSet (findConflict over a lagging cache, reconcileDelete's
\* survivor rule).
AppliedMeansServed ==
  \A r \in RRs :
    AppliedNow(r) /\ ~rrset[r].deleting /\ Key(r) \notin disturbed
      => hosted /\ Serves(recs[Key(r)], rrset[r].value)

\* Two live claimants of one name and type never both report Applied, though
\* each decides on its own from a cache that may lag (findConflict).
AtMostOneApplied ==
  \A r, o \in RRs :
    r # o /\ Key(r) = Key(o) /\ AppliedNow(r) /\ AppliedNow(o) => rrset[r].deleting \/ rrset[o].deleting

\* Deleting the RRSets of a name and type removes the record: none stays in
\* PowerDNS when no resource claims it any more (docs/managing-zones.md:71).
NoLeakedRecord ==
  \A k \in Keys : recs[k] # NoValue /\ k \notin disturbed \cup left =>
    \E r \in RRs : Key(r) = k /\ rrset[r].up

\* The operator never touches a record that no RRSet of a pass declares: what
\* others put under a key only changes by a pass on an RRSet that claims it
\* (docs/managing-zones.md:69).
OthersRecordsUntouched ==
  [][\A k \in Keys : recs'[k] # recs[k] /\ foreign' = foreign /\ inflight \subseteq inflight'
       => pc # "idle" /\ Key(cur) = k /\ base.fin]_vars

\* Once users, faults and others have stopped, an RRSet without rivals in a
\* Ready zone is applied and served, and stays so.
EventuallyApplied ==
  \A r \in RRs :
    <>[](rrset[r].up /\ ~rrset[r].deleting /\ Targetable(r) /\ Reachable /\ hosted
           /\ (\A o \in RRs \ {r} : Key(o) = Key(r) => ~rrset[o].up \/ rrset[o].deleting)
         => AppliedNow(r) /\ Serves(recs[Key(r)], rrset[r].value))

\* A resync of an rrset that is served as declared sends no PATCH, so the zone's
\* serial comes to rest; only contents PowerDNS rewrites are sent again and again
\* (rrsetMatches, rrset_controller.go:266; docs/managing-zones.md:69).
SerialSettles ==
  <>[](pc = "patch" => LET d == desiredRRSet(base.value) IN Stored(d) # d)

\* Two live claimants both end up with reason Conflict
\* (docs/managing-zones.md:73).
EventuallyBothConflict ==
  \A r, o \in RRs :
    r # o /\ Key(r) = Key(o) =>
      <>[](/\ rrset[r].up /\ ~rrset[r].deleting /\ Targetable(r)
           /\ rrset[o].up /\ ~rrset[o].deleting
           => rrset[r].status.reason = "Conflict")

\* A deleted RRSet disappears as long as its server can be called or the zone
\* or the server is itself on its way out (reconcileDelete's escape hatches).
DeletionCompletes ==
  \A r \in RRs :
    <>[]~(rrset[r].up /\ rrset[r].deleting /\ (ZoneLost \/ ServerLost \/ server.key))

===============================================================================

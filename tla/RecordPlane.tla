----------------------------- MODULE RecordPlane ------------------------------
(***************************************************************************)
(* The Zone and the RRSet controller of one operator process together: one *)
(* Zone, its RRSets, and the PowerDNS server both write to.                *)
(*                                                                         *)
(* The two controllers run concurrently.  They share the Zone informer     *)
(* (the RRSet controller gates on the cached Zone the Zone controller also *)
(* reads), the PowerDNSServer, PowerDNS itself (deleting a zone takes its  *)
(* records with it) and the process (a crash ends both passes).            *)
(***************************************************************************)
EXTENDS ZoneController

CONSTANTS TheZone, RRs, Keys, KeyOf, Contents, Canon, Values, NoValue, RRSpecs, MaxRRGen

ASSUME PlaneAssumption ==
  /\ TheZone \in Zones /\ KeyOf \in [RRs -> Keys]
  /\ RRSpecs \subseteq [value : Values, orphan : BOOLEAN]

VARIABLES rrset, listed, recs, rinflight, rpc, rcur, rbase, rtodo, rdisturbed, rleft

rrVars    == <<rrset, listed, rinflight, rpc, rcur, rbase, rtodo, rleft>>
planeVars == <<vars, rrVars, recs, rdisturbed>>

\* The zone as the RRSet controller sees it, and as PowerDNS has it.
ZoneView == [up |-> cached[TheZone].up, deleting |-> cached[TheZone].deleting,
             secondary |-> cached[TheZone].meta \in SecondaryMetas,
             ready |-> cached[TheZone].status.phase = "Ready"]

\* The RRSets live in the Zone's namespace.
RRServer == [server EXCEPT !.allows = IF TheZone \in server.allows THEN RRs ELSE {}]

Hosted == store[Name(TheZone)].up

R == INSTANCE RRSetController WITH
       InZone <- RRs, ZoneViews <- {}, ServerViews <- {}, Specs <- RRSpecs, MaxGen <- MaxRRGen,
       zview <- ZoneView, server <- RRServer, hosted <- Hosted, inflight <- rinflight,
       pc <- rpc, cur <- rcur, base <- rbase, todo <- rtodo,
       disturbed <- rdisturbed, left <- rleft

NoRecords == [k \in Keys |-> NoValue]

PlaneInit ==
  /\ Init
  /\ rrset = [r \in RRs |-> R!Gone(0)] /\ listed = rrset /\ recs = NoRecords
  /\ rinflight = {} /\ rpc = "idle" /\ rcur \in RRs /\ rbase = R!Gone(0)
  /\ rtodo = R!NoStatus /\ rdisturbed = {} /\ rleft = {}

\* A zone PowerDNS no longer has, or has only just got, has no records.
RecordsFollow ==
  /\ recs' = IF Hosted /\ Hosted' THEN recs ELSE NoRecords
  /\ UNCHANGED rdisturbed

ZonePass == (PassStep \/ \E z \in Zones : BeginPass(z)) /\ RecordsFollow /\ UNCHANGED rrVars

ZoneEnvironment == Environment /\ RecordsFollow /\ UNCHANGED rrVars

zoneOnly == <<zone, cached, server, store, inflight, pc, cur, base, keys, active,
              todo, minted, foreign, disturbed, left, lodged>>

RRPass == UNCHANGED zoneOnly /\ (R!PassStep \/ \E r \in RRs : R!BeginPass(r))

RREnvironment ==
  UNCHANGED zoneOnly /\ (R!Refresh \/ R!Users \/ \E q \in rinflight : R!Land(q))

\* The process stops: both passes are over.
ProcessCrash ==
  /\ pc # "idle" \/ rpc # "idle"
  /\ "crash" \in Faults /\ faults < MaxFaults /\ faults' = faults + 1
  /\ Finish /\ R!Finish
  /\ UNCHANGED <<objVars, storeVars, histVars, rrset, listed, recs, rinflight, rdisturbed, rleft>>

PlaneNext == ZonePass \/ ZoneEnvironment \/ RRPass \/ RREnvironment \/ ProcessCrash

ZoneBegins(z) == BeginPass(z) /\ RecordsFollow /\ UNCHANGED rrVars
ZoneSteps     == PassStep /\ RecordsFollow /\ UNCHANGED rrVars
ZoneRefresh   == Refresh /\ RecordsFollow /\ UNCHANGED rrVars
RRBegins(r)   == UNCHANGED zoneOnly /\ R!BeginPass(r)
RRSteps       == UNCHANGED zoneOnly /\ R!PassStep
RRRefresh     == UNCHANGED zoneOnly /\ R!Refresh

PlaneFairness ==
  /\ WF_planeVars(ZoneSteps) /\ WF_planeVars(ZoneRefresh)
  /\ WF_planeVars(RRSteps) /\ WF_planeVars(RRRefresh)
  /\ \A z \in Zones : SF_planeVars(ZoneBegins(z))
  /\ \A r \in RRs : SF_planeVars(RRBegins(r))

PlaneSpec == PlaneInit /\ [][PlaneNext]_planeVars /\ PlaneFairness

-------------------------------------------------------------------------------
(* Properties *)

\* Zones and RRSets may be deleted and created again in any order: when all is
\* quiet, an RRSet without rivals in a Ready zone is applied and served, also
\* if its zone went away and came back (rrsetsForZone, the gates of Reconcile).
RecordsReturn == R!EventuallyApplied

\* A record always has someone bound to delete it: an RRSet with a finalizer, or,
\* once its RRSet was released for the zone's sake, a Zone that is being deleted
\* with its data (finalizer first in both Reconciles, the zone check of
\* deleteFromPowerDNS against a cache that may lag, rrset_controller.go:164).
RecordsOwned ==
  \A k \in Keys \ (rleft \cup rdisturbed) :
    recs[k] # NoValue =>
      \/ \E r \in RRs : KeyOf[r] = k /\ rrset[r].up /\ rrset[r].fin
      \/ zone[TheZone].up /\ zone[TheZone].fin /\ zone[TheZone].deleting

\* Deleting RRSets and their Zone, in any order, leaves none of their records
\* behind, unless the RRSet itself was detached on purpose: in particular a
\* record whose RRSet was released without an API call because its zone is
\* going does go with it (rrset_controller.go:147, docs/managing-zones.md:71).
DeletedRecordsGo ==
  <>[](\A k \in Keys \ rleft :
         recs[k] # NoValue => \E r \in RRs : KeyOf[r] = k /\ rrset[r].up)

===============================================================================

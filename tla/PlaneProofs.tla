------------------------------ MODULE PlaneProofs -----------------------------
(***************************************************************************)
(* The Zone and the RRSet controller together, for any Zones, RRSets,      *)
(* faults and users.                                                       *)
(***************************************************************************)
EXTENDS PlaneInvariants, ZoneProofs

-------------------------------------------------------------------------------
(* The Zone controller beside the RRSet controller *)

LEMMA FinalizerWasCachedStep ==
  ASSUME OwnershipInv, FinalizerWasCached, [Next]_vars
  PROVE  FinalizerWasCached'
<1> SUFFICES ASSUME NEW z \in Zones, zone'[z].up, zone'[z].fin, ~zone'[z].deleting
             PROVE  cached'[z].up /\ ~cached'[z].deleting
  BY DEF FinalizerWasCached
<1>0. TypeOK /\ CacheLags /\ FinalizerHolds /\ zone[z] \in Objects /\ cur \in Zones
  BY DEF OwnershipInv, TypeOK
<1>1. CASE zone[z].up /\ zone[z].fin /\ ~zone[z].deleting
  BY <1>1, ReadFacts DEF FinalizerWasCached
<1>2. CASE zone' = zone
  BY <1>1, <1>2
<1>3. CASE AddFinalizer
  <2>1. CASE zone'[z] = zone[z]
    BY <1>1, <2>1
  <2>2. CASE zone'[z] # zone[z]
    <3>1. z = cur /\ Unmodified /\ pc = "finalizer" /\ cached' = cached
      BY <1>0, <1>3, <2>2 DEF AddFinalizer, TypeOK
    <3>2. base \in Objects /\ cached[cur] \in Objects
      BY <1>0 DEF TypeOK
    <3>3. base.up /\ ~base.deleting /\ Later(base, cached[cur]) /\ Later(cached[cur], base)
      BY <1>0, <3>1 DEF CacheLags, FinalizerHolds, Unmodified
    <3>4. base.gen = cached[cur].gen
      BY <3>2, <3>3, StatusType DEF Later
    <3> QED BY <3>1, <3>3, <3>4 DEF Later
  <2> QED BY <2>1, <2>2
<1>4. CASE WriteStatus
  BY <1>0, <1>1, <1>4 DEF WriteStatus, TypeOK, Objects
<1>5. CASE Release
  <2>1. zone'[z] = zone[z] \/ zone'[z] = Gone(zone[z].gen)
    BY <1>0, <1>5 DEF Release, TypeOK
  <2>2. ~Gone(zone[z].gen).up
    BY DEF Gone
  <2>3. zone'[z] = zone[z]
    BY <2>1, <2>2
  <2> QED BY <1>1, <2>3
<1>6. ASSUME NEW y \in Zones, UserChanges(y) PROVE cached'[z].up /\ ~cached'[z].deleting
  <2>1. CASE y # z
    <3>1. zone'[z] = zone[z]
      BY <1>0, <1>6, <2>1 DEF UserChanges, CreateCR, EditSpec, DeleteCR, TypeOK
    <3> QED BY <1>1, <3>1
  <2>2. CASE CreateCR(z)
    <3>1. \A sp \in Specs : ~WithSpec(Gone(zone[z].gen), sp).fin
      BY DEF WithSpec, Gone
    <3> QED BY <1>0, <2>2, <3>1 DEF CreateCR, TypeOK
  <2>3. CASE EditSpec(z)
    <3>1. \A sp \in Specs : /\ WithSpec(zone[z], sp).deleting = zone[z].deleting
                            /\ WithSpec(zone[z], sp).fin = zone[z].fin
      BY <1>0 DEF WithSpec, Objects
    <3> QED BY <1>0, <1>1, <2>3, <3>1 DEF EditSpec, TypeOK
  <2>4. CASE DeleteCR(z)
    <3>1. ~Gone(zone[z].gen).up /\ [zone[z] EXCEPT !.deleting = TRUE].deleting
      BY <1>0 DEF Gone, Objects
    <3> QED BY <1>0, <2>4, <3>1 DEF DeleteCR, TypeOK
  <2> QED BY <1>6, <2>1, <2>2, <2>3, <2>4 DEF UserChanges
<1> QED BY <1>2, <1>3, <1>4, <1>5, <1>6, StepCases, CallsKeepObjects, OutsideKeepsObjects,
           BeginFacts DEF Refresh, objVars

\* A deletion is not taken back.
LEMMA DeletionStays ==
  ASSUME TypeOK, [Next]_vars, NEW z \in Zones, zone[z].up, zone[z].deleting, zone'[z].up
  PROVE  zone'[z].deleting
<1>0. zone[z] \in Objects /\ cur \in Zones
  BY DEF TypeOK
<1>1. CASE zone' = zone
  BY <1>1
<1>2. CASE AddFinalizer
  BY <1>0, <1>2 DEF AddFinalizer, TypeOK, Objects
<1>3. CASE WriteStatus
  BY <1>0, <1>3 DEF WriteStatus, TypeOK, Objects
<1>4. CASE Release
  <2>1. zone'[z] = zone[z] \/ zone'[z] = Gone(zone[z].gen)
    BY <1>0, <1>4 DEF Release, TypeOK
  <2>2. ~Gone(zone[z].gen).up
    BY DEF Gone
  <2> QED BY <2>1, <2>2
<1>5. ASSUME NEW y \in Zones, UserChanges(y) PROVE zone'[z].deleting
  <2>1. CASE y # z
    BY <1>5, <2>1 DEF UserChanges, CreateCR, EditSpec, DeleteCR, TypeOK
  <2>2. CASE EditSpec(z)
    <3>1. \A sp \in Specs : WithSpec(zone[z], sp).deleting = zone[z].deleting
      BY <1>0 DEF WithSpec, Objects
    <3> QED BY <1>0, <2>2, <3>1 DEF EditSpec, TypeOK
  <2> QED BY <1>5, <2>1, <2>2 DEF UserChanges, CreateCR, DeleteCR
<1> QED BY <1>1, <1>2, <1>3, <1>4, <1>5, StepCases, CallsKeepObjects, OutsideKeepsObjects,
           BeginFacts DEF Refresh, objVars

\* A Zone that is going stays until its zone is gone from PowerDNS.
LEMMA GoingStays ==
  ASSUME OwnershipInv, [Next]_vars, ZoneGoing, Hosted, ZoneKept'
  PROVE  ZoneGoing'
<1>0. /\ TypeOK /\ CacheLags /\ FinalizerHolds /\ TheZone \in Zones
      /\ Name(TheZone) \notin disturbed
  BY StoreFacts, PlaneAssumption DEF OwnershipInv, ZoneKept, Name
<1>1. ~(Release /\ Unmodified /\ TheZone = cur)
  <2> SUFFICES ASSUME Release, Unmodified, TheZone = cur PROVE FALSE
    OBVIOUS
  <2>1. pc = "release" => ~Hosted
    BY <1>0 DEF OwnershipInv, ReleaseAfterDelete, Undisturbed, Hosted
  <2>2. pc = "detach" => Name(TheZone) \in left'
    BY DEF Release
  <2> QED BY <2>1, <2>2 DEF Release, ZoneKept, Name
<1>2. zone'[TheZone].up /\ zone'[TheZone].fin
  BY <1>0, <1>1, FinalizerSurvives DEF ZoneGoing
<1> QED BY <1>0, <1>2, DeletionStays DEF ZoneGoing

\* When the cache shows the Zone deleted, or gone, and PowerDNS still has the
\* zone, the Zone is on its way out.
LEMMA LostIsGoing ==
  ASSUME ZoneInv, SoleZone, Hosted, ZoneKept, ~cached[TheZone].up \/ cached[TheZone].deleting
  PROVE  ZoneGoing
<1>1. Name(TheZone) \in Names
  BY PlaneAssumption, ZoneAssumption DEF Name
<1>2. PICK z \in Zones : Name(z) = Name(TheZone) /\ zone[z].up /\ zone[z].fin
  BY <1>1 DEF ZoneInv, OwnershipInv, NoUnownedZone, Hosted, ZoneKept
<1>3. z = TheZone
  BY <1>2 DEF SoleZone
<1> QED BY <1>2, <1>3 DEF ZoneInv, FinalizerWasCached, ZoneGoing

-------------------------------------------------------------------------------
(* One step of the plane is a step of one of the two controllers, or stops both *)

ZoneMoves == [Next]_vars /\ RecordsFollow /\ UNCHANGED rrVars

RRMoves ==
  /\ UNCHANGED zoneOnly
  /\ \/ R!PassStep \/ R!Refresh \/ R!Users
     \/ (\E r \in RRs : R!BeginPass(r)) \/ \E q \in rinflight : R!Land(q)

LEMMA PlaneCases ==
  ASSUME [PlaneNext]_planeVars
  PROVE  ZoneMoves \/ RRMoves \/ ProcessCrash \/ UNCHANGED planeVars
BY DEF PlaneNext, ZonePass, ZoneEnvironment, RRPass, RREnvironment, ZoneMoves, RRMoves, Next

LEMMA RRFaults ==
  ASSUME faults \in 0..MaxFaults, RRMoves
  PROVE  faults' \in 0..MaxFaults
<1>0. MaxFaults \in Nat
  BY FaultAssumption
<1>1. \A o : o \in R!Outcomes(faults) => R!Charge(faults, o) \in 0..MaxFaults
  BY <1>0 DEF R!Outcomes, R!Charge
<1>2. \A o : o \in R!ReadOutcomes(faults) => R!Charge(faults, o) \in 0..MaxFaults
  BY <1>0 DEF R!ReadOutcomes, R!Charge
<1>3. CASE R!GetZone
  BY <1>2, <1>3 DEF R!GetZone
<1>4. CASE R!PatchRRSet \/ R!DeleteRRSet
  BY <1>1, <1>4 DEF R!PatchRRSet, R!DeleteRRSet, R!Patch
<1>5. CASE R!AddFinalizer \/ R!WriteStatus \/ R!Release \/ R!Refresh
  BY <1>5 DEF R!AddFinalizer, R!WriteStatus, R!Release, R!Refresh
<1>6. CASE R!Users
  BY <1>6 DEF R!Users, R!CreateCR, R!EditSpec, R!DeleteCR
<1>7. CASE \E r \in RRs : R!BeginPass(r)
  BY <1>7 DEF R!BeginPass, R!BeginAddFinalizer, R!BeginNotReady, R!BeginConflict, R!BeginApply,
              R!BeginDelete, R!BeginYield, R!BeginAbandon, R!BeginDetach, R!Begin
<1>8. CASE \E q \in rinflight : R!Land(q)
  BY <1>8 DEF R!Land
<1> QED BY <1>3, <1>4, <1>5, <1>6, <1>7, <1>8 DEF RRMoves, R!PassStep

\* The RRSet controller leaves everything of the Zone controller alone.
LEMMA ZoneInvKept ==
  ASSUME ZoneInv, UNCHANGED zoneOnly, faults' \in 0..MaxFaults
  PROVE  ZoneInv'
<1>1. TypeOK'
  BY DEF ZoneInv, OwnershipInv, TypeOK, zoneOnly
<1>2. CacheLags' /\ FinalizerHolds' /\ FinalizerWasCached'
  BY DEF ZoneInv, OwnershipInv, CacheLags, FinalizerHolds, FinalizerWasCached, Later, zoneOnly
<1>3. ReleaseAfterDelete' /\ NoUnownedZone'
  BY DEF ZoneInv, OwnershipInv, ReleaseAfterDelete, NoUnownedZone, Undisturbed, Name, zoneOnly
<1> QED BY <1>1, <1>2, <1>3 DEF ZoneInv, OwnershipInv

\* A crash ends the pass of the Zone controller, if one is running.
LEMMA ZoneInvCrash ==
  ASSUME ZoneInv, ProcessCrash
  PROVE  ZoneInv'
<1> USE DEF ZoneInv, OwnershipInv
<1>1. /\ UNCHANGED <<objVars, storeVars, histVars, cur>> /\ pc' = "idle"
      /\ base' = Gone(0) /\ keys' = {} /\ active' = {} /\ todo' = NoStatus
      /\ faults < MaxFaults /\ faults' = faults + 1
  BY DEF ProcessCrash, Finish
<1>2. faults' \in 0..MaxFaults
  BY <1>1, FaultAssumption DEF TypeOK
<1>3. TypeOK'
  BY <1>1, <1>2, GoneType DEF TypeOK, objVars, storeVars, histVars, PCs
<1>4. CacheLags' /\ FinalizerHolds' /\ FinalizerWasCached'
  BY <1>1 DEF CacheLags, FinalizerHolds, FinalizerWasCached, Later, objVars, Working
<1>5. ReleaseAfterDelete' /\ NoUnownedZone'
  BY <1>1 DEF ReleaseAfterDelete, NoUnownedZone, Name, objVars, storeVars, histVars
<1> QED BY <1>3, <1>4, <1>5

LEMMA ZoneInvStep ==
  ASSUME ZoneInv, [PlaneNext]_planeVars
  PROVE  ZoneInv'
<1>1. CASE ZoneMoves
  BY <1>1, OwnershipStep, FinalizerWasCachedStep DEF ZoneMoves, ZoneInv
<1>2. CASE RRMoves
  BY <1>2, RRFaults, ZoneInvKept DEF RRMoves, ZoneInv, OwnershipInv, TypeOK
<1>3. CASE UNCHANGED planeVars
  BY <1>3, ZoneInvKept DEF planeVars, vars, zoneOnly, ZoneInv, OwnershipInv, TypeOK
<1> QED BY <1>1, <1>2, <1>3, ZoneInvCrash, PlaneCases

-------------------------------------------------------------------------------
(* RRSet objects *)

LEMMA RRFields ==
  ASSUME NEW o \in R!Objects
  PROVE  o.gen \in Nat /\ o.status \in R!Statuses
BY DEF R!Objects

LEMMA RRGone ==
  ASSUME NEW g \in Nat
  PROVE  /\ R!Gone(g) \in R!Objects /\ R!NoStatus \in R!Statuses
         /\ R!Gone(g).gen = g /\ ~R!Gone(g).up
BY DEF R!Gone, R!Objects, R!NoStatus, R!Statuses

LEMMA RRReports ==
  ASSUME NEW o \in R!Objects
  PROVE  /\ R!NotReady(o) \in R!Statuses /\ R!Applied(o) \in R!Statuses
         /\ [o.status EXCEPT !.reason = "Conflict"] \in R!Statuses
BY RRFields DEF R!NotReady, R!Applied, R!Statuses

LEMMA RRLaterReflexive ==
  ASSUME NEW o \in R!Objects
  PROVE  RRLater(o, o)
BY RRFields DEF RRLater

LEMMA RRLaterTransitive ==
  ASSUME NEW a \in R!Objects, NEW b \in R!Objects, NEW c \in R!Objects, RRLater(a, b), RRLater(b, c)
  PROVE  RRLater(a, c)
BY RRFields DEF RRLater

\* A later version that has kept its finalizer.
Holds(a, b) == RRLater(a, b) /\ (a.up /\ a.fin => b.up /\ b.fin)

LEMMA RRUserFacts ==
  ASSUME RRTyped, R!Users
  PROVE  /\ UNCHANGED <<listed, rpc, rcur, rbase, rtodo, recs, rdisturbed, rleft>>
         /\ rrset' \in [RRs -> R!Objects]
         /\ \A o \in RRs : Holds(rrset[o], rrset'[o])
<1>1. PICK r \in RRs : R!CreateCR(r) \/ R!EditSpec(r) \/ R!DeleteCR(r)
  BY DEF R!Users
<1>2. UNCHANGED <<listed, rpc, rcur, rbase, rtodo, recs, rdisturbed, rleft>>
  BY <1>1 DEF R!CreateCR, R!EditSpec, R!DeleteCR, R!passVars, R!pdnsVars, R!histVars
<1>3. rrset \in [RRs -> R!Objects] /\ rrset[r] \in R!Objects /\ rrset[r].gen \in Nat
  BY RRFields DEF RRTyped
<1>4. ASSUME NEW b \in R!Objects, rrset' = [rrset EXCEPT ![r] = b], Holds(rrset[r], b)
      PROVE  rrset' \in [RRs -> R!Objects] /\ \A o \in RRs : Holds(rrset[o], rrset'[o])
  <2>1. \A o \in RRs : rrset'[o] = IF o = r THEN b ELSE rrset[o]
    BY <1>3, <1>4
  <2>2. \A o \in RRs : Holds(rrset[o], rrset[o])
    BY <1>3, RRLaterReflexive DEF Holds
  <2> QED BY <1>3, <1>4, <2>1, <2>2
<1>5. CASE R!CreateCR(r)
  <2>1. PICK s \in RRSpecs :
          rrset' = [rrset EXCEPT ![r] = [R!Gone(rrset[r].gen + 1) EXCEPT !.up = TRUE,
                                           !.value = s.value, !.orphan = s.orphan]]
    BY <1>5 DEF R!CreateCR
  <2>2. s.value \in Values /\ s.orphan \in BOOLEAN
    BY PlaneAssumption
  <2> DEFINE b == [R!Gone(rrset[r].gen + 1) EXCEPT !.up = TRUE, !.value = s.value, !.orphan = s.orphan]
  <2>3. b \in R!Objects /\ b.gen = rrset[r].gen + 1
    <3>1. PICK g, v, p : g = rrset[r].gen + 1 /\ v = s.value /\ p = s.orphan
      OBVIOUS
    <3>2. b = [R!Gone(g) EXCEPT !.up = TRUE, !.value = v, !.orphan = p]
      BY <3>1
    <3>3. g \in Nat /\ v \in Values /\ p \in BOOLEAN
      BY <1>3, <2>2, <3>1
    <3> HIDE DEF b
    <3>4. R!Gone(g) \in R!Objects /\ R!Gone(g).gen = g
      BY <3>3, RRGone
    <3> QED BY <3>1, <3>2, <3>3, <3>4 DEF R!Objects
  <2>4. Holds(rrset[r], b)
    BY <1>3, <1>5, <2>3 DEF Holds, RRLater, R!CreateCR
  <2> QED BY <1>2, <1>4, <2>1, <2>3, <2>4
<1>6. CASE R!EditSpec(r)
  <2>1. PICK s \in RRSpecs :
          rrset' = [rrset EXCEPT ![r].gen = @ + 1, ![r].value = s.value, ![r].orphan = s.orphan]
    BY <1>6 DEF R!EditSpec
  <2>2. s.value \in Values /\ s.orphan \in BOOLEAN
    BY PlaneAssumption
  <2> DEFINE b == [rrset[r] EXCEPT !.gen = @ + 1, !.value = s.value, !.orphan = s.orphan]
  <2>3. /\ b \in R!Objects /\ b.gen = rrset[r].gen + 1
        /\ b.up = rrset[r].up /\ b.fin = rrset[r].fin
    <3>1. PICK o, g, v, p : o = rrset[r] /\ g = rrset[r].gen + 1 /\ v = s.value /\ p = s.orphan
      OBVIOUS
    <3>2. b = [o EXCEPT !.gen = g, !.value = v, !.orphan = p]
      BY <3>1
    <3>3. o \in R!Objects /\ g \in Nat /\ v \in Values /\ p \in BOOLEAN
      BY <1>3, <2>2, <3>1
    <3> HIDE DEF b
    <3>4. b \in R!Objects /\ b.gen = g /\ b.up = o.up /\ b.fin = o.fin
      BY <3>2, <3>3 DEF R!Objects
    <3> QED BY <3>1, <3>4
  <2>4. Holds(rrset[r], b)
    BY <1>3, <2>3 DEF Holds, RRLater
  <2>5. rrset' = [rrset EXCEPT ![r] = b]
    BY <1>3, <2>1
  <2> QED BY <1>2, <1>4, <2>3, <2>4, <2>5
<1>7. CASE R!DeleteCR(r)
  <2> DEFINE b == [rrset[r] EXCEPT !.deleting = TRUE]
  <2>1. /\ b \in R!Objects /\ b.gen = rrset[r].gen /\ b.deleting
        /\ b.up = rrset[r].up /\ b.fin = rrset[r].fin
    BY <1>3 DEF R!Objects
  <2>2. Holds(rrset[r], b)
    BY <1>3, <2>1 DEF Holds, RRLater
  <2>3. R!Gone(rrset[r].gen) \in R!Objects /\ (~rrset[r].fin => Holds(rrset[r], R!Gone(rrset[r].gen)))
    BY <1>3, RRGone DEF Holds, RRLater
  <2>4. \/ rrset' = [rrset EXCEPT ![r] = b]
        \/ ~rrset[r].fin /\ rrset' = [rrset EXCEPT ![r] = R!Gone(rrset[r].gen)]
    BY <1>7 DEF R!DeleteCR
  <2> QED BY <1>2, <1>4, <2>1, <2>2, <2>3, <2>4
<1> QED BY <1>1, <1>5, <1>6, <1>7

\* The pass of the RRSet controller is over.
RREnded == rpc' = "idle" /\ rbase' = R!Gone(0) /\ rtodo' = R!NoStatus

\* A write of the pass changes its own object, if that is still the one it read;
\* only a release takes the finalizer away.
RRWrites == R!AddFinalizer \/ R!WriteStatus \/ R!Release

LEMMA RRWriteFacts ==
  ASSUME RRTyped, RRWrites
  PROVE  /\ rpc # "idle" /\ RREnded /\ UNCHANGED <<listed, rcur, recs, rdisturbed>>
         /\ rrset' \in [RRs -> R!Objects]
         /\ \A o \in RRs : \/ Holds(rrset[o], rrset'[o])
                           \/ /\ R!Release /\ R!Unmodified /\ o = rcur
                              /\ RRLater(rrset[o], rrset'[o])
<1>1. rpc # "idle" /\ RREnded /\ UNCHANGED <<listed, rcur, recs, rdisturbed>>
  BY DEF RRWrites, R!AddFinalizer, R!WriteStatus, R!Release, R!Finish, RREnded, R!pdnsVars, R!histVars
<1>2. /\ rrset \in [RRs -> R!Objects] /\ rcur \in RRs /\ rrset[rcur] \in R!Objects
      /\ rrset[rcur].gen \in Nat /\ rtodo \in R!Statuses
  BY RRFields DEF RRTyped
<1>3. \A o \in RRs : Holds(rrset[o], rrset[o])
  BY <1>2, RRLaterReflexive DEF Holds
<1>4. CASE rrset' = rrset
  BY <1>1, <1>2, <1>3, <1>4
<1>5. CASE R!AddFinalizer /\ rrset' = [rrset EXCEPT ![rcur].fin = TRUE]
  <2> DEFINE b == [rrset[rcur] EXCEPT !.fin = TRUE]
  <2>1. /\ b \in R!Objects /\ b.gen = rrset[rcur].gen /\ b.up = rrset[rcur].up
        /\ b.fin /\ b.deleting = rrset[rcur].deleting
    BY <1>2 DEF R!Objects
  <2>2. Holds(rrset[rcur], b)
    BY <1>2, <2>1 DEF Holds, RRLater
  <2> QED BY <1>1, <1>2, <1>3, <1>5, <2>1, <2>2
<1>6. CASE R!WriteStatus /\ rrset' = [rrset EXCEPT ![rcur].status = rtodo]
  <2> DEFINE b == [rrset[rcur] EXCEPT !.status = rtodo]
  <2>1. /\ b \in R!Objects /\ b.gen = rrset[rcur].gen /\ b.up = rrset[rcur].up
        /\ b.fin = rrset[rcur].fin /\ b.deleting = rrset[rcur].deleting
    BY <1>2 DEF R!Objects
  <2>2. Holds(rrset[rcur], b)
    BY <1>2, <2>1 DEF Holds, RRLater
  <2> QED BY <1>1, <1>2, <1>3, <1>6, <2>1, <2>2
<1>7. CASE R!Release /\ R!Unmodified /\ rrset' = [rrset EXCEPT ![rcur] = R!Gone(rrset[rcur].gen)]
  <2>1. R!Gone(rrset[rcur].gen) \in R!Objects /\ RRLater(rrset[rcur], R!Gone(rrset[rcur].gen))
    BY <1>2, RRGone DEF RRLater
  <2> QED BY <1>1, <1>2, <1>3, <1>7, <2>1
<1> QED BY <1>4, <1>5, <1>6, <1>7 DEF RRWrites, R!AddFinalizer, R!WriteStatus, R!Release

\* A PATCH changes one record of a zone PowerDNS has, and is answered "ok" only
\* when it did.
LEMMA RRPatchFacts ==
  ASSUME NEW k, NEW v, NEW a, R!Patch(k, v, a)
  PROVE  /\ recs' = recs \/ (Hosted /\ recs' = [recs EXCEPT ![k] = R!Written(v)])
         /\ a = "ok" => recs' = [recs EXCEPT ![k] = R!Written(v)]
         /\ a = "notfound" => ~Hosted /\ recs' = recs
<1>1. PICK o \in R!Outcomes(faults) :
        /\ a \in R!Seen(o, IF Hosted THEN "ok" ELSE "notfound")
        /\ recs' = IF R!TakesEffect(o) /\ Hosted THEN [recs EXCEPT ![k] = R!Written(v)] ELSE recs
  BY DEF R!Patch
<1>2. a \in {"ok", "notfound"} => o = "done" /\ a = IF Hosted THEN "ok" ELSE "notfound"
  BY <1>1 DEF R!Seen, R!Outcomes
<1> QED BY <1>1, <1>2 DEF R!TakesEffect

\* The calls of a pass touch no object; where they lead, and what they do to the
\* record of the pass.
RRCalls == R!GetZone \/ R!PatchRRSet \/ R!DeleteRRSet

LEMMA RRCallFacts ==
  ASSUME RRTyped, RRCalls
  PROVE  /\ UNCHANGED <<rrset, listed, rcur, rdisturbed, rleft>>
         /\ \/ /\ rpc \in {"get", "patch"} /\ rpc' \in {"patch", "status"} /\ rbase' = rbase
               /\ rtodo' \in R!Statuses
               /\ \/ recs' = recs
                  \/ rpc = "patch" /\ Hosted /\ \E v : recs' = [recs EXCEPT ![KeyOf[rcur]] = v]
            \/ /\ rpc = "delete"
               /\ recs' = recs \/ (Hosted /\ recs' = [recs EXCEPT ![KeyOf[rcur]] = NoValue])
               /\ \/ RREnded
                  \/ /\ rpc' = "release" /\ rbase' = rbase /\ rtodo' = rtodo
                     /\ \/ recs' = [recs EXCEPT ![KeyOf[rcur]] = NoValue]
                        \/ ~Hosted /\ recs' = recs
<1>1. rbase \in R!Objects /\ rtodo \in R!Statuses
  BY DEF RRTyped
<1>2. CASE R!GetZone
  <2>1. /\ UNCHANGED <<rrset, listed, recs, rdisturbed, rleft>> /\ rpc = "get"
        /\ R!Goto("patch") \/ R!Report(R!NotReady(rbase)) \/ R!Report(R!Applied(rbase))
    BY <1>2 DEF R!GetZone, R!objVars, R!pdnsVars, R!histVars
  <2> QED BY <1>1, <2>1, RRReports DEF R!Goto, R!Report
<1>3. CASE R!PatchRRSet
  <2>1. PICK a : /\ R!Patch(R!Key(rcur), R!desiredRRSet(rbase.value), a)
                 /\ R!Report(IF a = "ok" THEN R!Applied(rbase) ELSE R!NotReady(rbase))
    BY <1>3 DEF R!PatchRRSet
  <2>2. UNCHANGED <<rrset, listed, rdisturbed, rleft>> /\ rpc = "patch"
    BY <1>3 DEF R!PatchRRSet, R!objVars, R!histVars
  <2>3. recs' = recs \/ (Hosted /\ \E v : recs' = [recs EXCEPT ![KeyOf[rcur]] = v])
    BY <2>1, RRPatchFacts DEF R!Key
  <2> QED BY <1>1, <2>1, <2>2, <2>3, RRReports DEF R!Report
<1>4. CASE R!DeleteRRSet
  <2>1. PICK a : /\ R!Patch(R!Key(rcur), NoValue, a)
                 /\ IF a \in {"ok", "notfound"} THEN R!Goto("release") ELSE R!Finish
    BY <1>4 DEF R!DeleteRRSet
  <2>2. UNCHANGED <<rrset, listed, rdisturbed, rleft>> /\ rpc = "delete"
    BY <1>4 DEF R!DeleteRRSet, R!objVars, R!histVars
  <2>3. R!Written(NoValue) = NoValue /\ R!Key(rcur) = KeyOf[rcur]
    BY DEF R!Written, R!Key
  <2>4. /\ recs' = recs \/ (Hosted /\ recs' = [recs EXCEPT ![KeyOf[rcur]] = NoValue])
        /\ a \in {"ok", "notfound"} => \/ recs' = [recs EXCEPT ![KeyOf[rcur]] = NoValue]
                                       \/ ~Hosted /\ recs' = recs
    BY <2>1, <2>3, RRPatchFacts
  <2>5. CASE a \in {"ok", "notfound"}
    BY <2>1, <2>2, <2>4, <2>5 DEF R!Goto
  <2>6. CASE a \notin {"ok", "notfound"}
    BY <2>1, <2>2, <2>4, <2>6 DEF R!Finish, RREnded
  <2> QED BY <2>5, <2>6
<1> QED BY <1>2, <1>3, <1>4 DEF RRCalls

\* A pass starts from the cached object and touches nothing.
LEMMA RRBeginFacts ==
  ASSUME RRTyped, NEW r \in RRs, R!BeginPass(r)
  PROVE  /\ UNCHANGED <<rrset, listed, recs, rdisturbed, rleft>>
         /\ rpc' # "idle" /\ rcur' = r /\ rbase' = listed[r] /\ rtodo' \in R!Statuses
         /\ rpc' \in {"get", "patch"} => listed[r].up /\ listed[r].fin /\ ~listed[r].deleting
         /\ rpc' = "finalizer" => ~listed[r].deleting
         /\ rpc' \in Releasing => listed[r].deleting
         /\ rpc' # "release"
         /\ rpc' = "yield" => R!Rivals(r) # {}
         /\ rpc' = "abandon" => ~cached[TheZone].up \/ cached[TheZone].deleting
<1>1. listed[r] \in R!Objects /\ rtodo \in R!Statuses
  BY DEF RRTyped
<1>2. CASE R!BeginAddFinalizer(r) \/ R!BeginNotReady(r) \/ R!BeginConflict(r) \/ R!BeginApply(r)
  BY <1>1, <1>2, RRReports
     DEF R!BeginAddFinalizer, R!BeginNotReady, R!BeginConflict, R!BeginApply, R!Begin, R!Live,
         R!objVars, R!pdnsVars, R!histVars, Releasing
<1>3. CASE R!BeginDelete(r) \/ R!BeginYield(r) \/ R!BeginAbandon(r) \/ R!BeginDetach(r)
  <2>1. R!ZoneLost => ~cached[TheZone].up \/ cached[TheZone].deleting
    BY DEF R!ZoneLost, ZoneView
  <2> QED BY <1>1, <1>3, <2>1
             DEF R!BeginDelete, R!BeginYield, R!BeginAbandon, R!BeginDetach, R!Begin,
                 R!objVars, R!pdnsVars, R!histVars, Releasing
<1> QED BY <1>2, <1>3 DEF R!BeginPass

\* A late write marks the record it changes.
LEMMA RRLandFacts ==
  ASSUME RRTyped, NEW q \in rinflight, R!Land(q)
  PROVE  /\ UNCHANGED <<rrset, listed, rpc, rcur, rbase, rtodo, rleft>>
         /\ rdisturbed' = rdisturbed \cup {q[1]}
         /\ \E v : recs' = [recs EXCEPT ![q[1]] = v]
         /\ recs' = recs \/ Hosted
<1>1. UNCHANGED <<rrset, listed, rpc, rcur, rbase, rtodo, rleft>>
      /\ rdisturbed' = rdisturbed \cup {q[1]}
  BY DEF R!Land, R!objVars, R!passVars
<1>2. recs' = IF Hosted THEN [recs EXCEPT ![q[1]] = R!Written(q[2])] ELSE recs
  BY DEF R!Land
<1>3. recs = [recs EXCEPT ![q[1]] = recs[q[1]]]
  BY DEF RRTyped
<1> QED BY <1>1, <1>2, <1>3

-------------------------------------------------------------------------------
(* What each step of the plane does to the RRSets *)

LEMMA RRCases ==
  ASSUME RRMoves
  PROVE  \/ RRCalls \/ RRWrites \/ R!Refresh \/ R!Users
         \/ (\E r \in RRs : R!BeginPass(r)) \/ \E q \in rinflight : R!Land(q)
BY DEF RRMoves, R!PassStep, RRCalls, RRWrites

\* The Zone controller leaves the RRSets alone, but its changes to the zone in
\* PowerDNS may take the records away.
LEMMA ZoneMovesFacts ==
  ASSUME ZoneMoves \/ UNCHANGED planeVars
  PROVE  /\ UNCHANGED <<rrset, listed, rpc, rcur, rbase, rtodo, rdisturbed, rleft>>
         /\ recs' = recs \/ recs' = NoRecords
BY DEF ZoneMoves, RecordsFollow, rrVars, planeVars

LEMMA CrashFacts ==
  ASSUME ProcessCrash
  PROVE  RREnded /\ UNCHANGED <<rrset, listed, rcur, recs, rdisturbed, rleft>>
BY DEF ProcessCrash, R!Finish, RREnded

LEMMA RRRefreshFacts ==
  ASSUME R!Refresh
  PROVE  listed' = rrset /\ UNCHANGED <<rrset, rpc, rcur, rbase, rtodo, recs, rdisturbed, rleft>>
BY DEF R!Refresh, R!passVars, R!pdnsVars, R!histVars

LEMMA RRTypedStep ==
  ASSUME RRTyped, [PlaneNext]_planeVars
  PROVE  RRTyped'
<1>0. R!Gone(0) \in R!Objects /\ R!NoStatus \in R!Statuses
  BY RRGone
<1>1. CASE RRCalls
  <2>1. recs' = [k \in Keys |-> recs'[k]]
    BY <1>1, RRCallFacts DEF RRTyped
  <2> QED BY <1>0, <1>1, <2>1, RRCallFacts DEF RRTyped, RREnded
<1>2. CASE RRWrites
  BY <1>0, <1>2, RRWriteFacts DEF RRTyped, RREnded
<1>3. CASE R!Refresh
  BY <1>3, RRRefreshFacts DEF RRTyped
<1>4. CASE R!Users
  BY <1>4, RRUserFacts DEF RRTyped
<1>5. ASSUME NEW r \in RRs, R!BeginPass(r) PROVE RRTyped'
  BY <1>5, RRBeginFacts DEF RRTyped
<1>6. ASSUME NEW q \in rinflight, R!Land(q) PROVE RRTyped'
  BY <1>6, RRLandFacts DEF RRTyped
<1>7. CASE ZoneMoves \/ UNCHANGED planeVars
  <2>1. recs' = [k \in Keys |-> recs'[k]]
    BY <1>7, ZoneMovesFacts DEF RRTyped, NoRecords
  <2> QED BY <1>7, <2>1, ZoneMovesFacts DEF RRTyped
<1>8. CASE ProcessCrash
  BY <1>0, <1>8, CrashFacts DEF RRTyped, RREnded
<1> QED BY <1>1, <1>2, <1>3, <1>4, <1>5, <1>6, <1>7, <1>8, PlaneCases, RRCases

\* Every step moves the RRSets on; only a release takes a finalizer away.
LEMMA RRSetsMoveOn ==
  ASSUME RRTyped, [PlaneNext]_planeVars, NEW r \in RRs
  PROVE  /\ RRLater(rrset[r], rrset'[r])
         /\ \/ Holds(rrset[r], rrset'[r])
            \/ RRWrites /\ R!Release /\ R!Unmodified /\ r = rcur
<1>0. Holds(rrset[r], rrset[r])
  BY RRLaterReflexive DEF RRTyped, Holds
<1>1. CASE rrset' = rrset
  BY <1>0, <1>1 DEF Holds
<1>2. CASE RRWrites
  BY <1>2, RRWriteFacts DEF Holds
<1>3. CASE R!Users
  BY <1>3, RRUserFacts DEF Holds
<1>4. CASE RRCalls \/ R!Refresh
  BY <1>1, <1>4, RRCallFacts, RRRefreshFacts
<1>5. CASE (\E o \in RRs : R!BeginPass(o)) \/ \E q \in rinflight : R!Land(q)
  BY <1>1, <1>5, RRBeginFacts, RRLandFacts
<1>6. CASE ZoneMoves \/ UNCHANGED planeVars \/ ProcessCrash
  BY <1>1, <1>6, ZoneMovesFacts, CrashFacts
<1> QED BY <1>2, <1>3, <1>4, <1>5, <1>6, PlaneCases, RRCases

\* Who moves the cache, and what a pass remembers.
LEMMA RRReadFacts ==
  ASSUME RRTyped, [PlaneNext]_planeVars
  PROVE  /\ listed' = listed \/ (listed' = rrset /\ rrset' = rrset)
         /\ \/ rpc' = "idle"
            \/ rpc # "idle" /\ UNCHANGED <<rcur, rbase>>
            \/ (\E r \in RRs : R!BeginPass(r)) /\ listed' = listed
<1>1. CASE RRCalls
  BY <1>1, RRCallFacts DEF RREnded
<1>2. CASE RRWrites
  BY <1>2, RRWriteFacts DEF RREnded
<1>3. CASE R!Refresh \/ R!Users
  BY <1>3, RRRefreshFacts, RRUserFacts
<1>4. CASE \E r \in RRs : R!BeginPass(r)
  BY <1>4, RRBeginFacts
<1>5. CASE \E q \in rinflight : R!Land(q)
  BY <1>5, RRLandFacts
<1>6. CASE ZoneMoves \/ UNCHANGED planeVars \/ ProcessCrash
  BY <1>6, ZoneMovesFacts, CrashFacts DEF RREnded
<1> QED BY <1>1, <1>2, <1>3, <1>4, <1>5, <1>6, PlaneCases, RRCases

LEMMA RRCacheLagsStep ==
  ASSUME RRTyped, RRTyped', RRCacheLags, [PlaneNext]_planeVars
  PROVE  RRCacheLags'
<1>t. \A r \in RRs : /\ rrset[r] \in R!Objects /\ rrset'[r] \in R!Objects
                     /\ listed[r] \in R!Objects /\ listed'[r] \in R!Objects
  BY DEF RRTyped
<1>1. \A r \in RRs : RRLater(listed'[r], rrset'[r])
  BY <1>t, RRReadFacts, RRSetsMoveOn, RRLaterReflexive, RRLaterTransitive DEF RRCacheLags
<1>2. \A r \in RRs : RRLater(listed[r], listed'[r])
  BY <1>t, RRReadFacts, RRLaterReflexive DEF RRCacheLags
<1>3. ASSUME rpc' # "idle" PROVE RRLater(rbase', listed'[rcur'])
  <2>1. CASE rpc # "idle" /\ UNCHANGED <<rcur, rbase>>
    BY <1>t, <1>2, <2>1, RRLaterTransitive DEF RRCacheLags, RRTyped
  <2>2. ASSUME NEW r \in RRs, R!BeginPass(r), listed' = listed
        PROVE  RRLater(rbase', listed'[rcur'])
    BY <1>t, <2>2, RRBeginFacts, RRLaterReflexive
  <2> QED BY <1>3, <2>1, <2>2, RRReadFacts
<1> QED BY <1>1, <1>3 DEF RRCacheLags

\* While the RRSet is the one a deleting pass has read, no cached version of it
\* is live.
LEMMA RRDeletionWasCached ==
  ASSUME RRTyped, RRCacheLags, rpc # "idle", rbase.deleting, R!Unmodified, listed[rcur].up
  PROVE  listed[rcur].deleting
<1>1. rbase \in R!Objects /\ listed[rcur] \in R!Objects /\ rcur \in RRs
  BY DEF RRTyped
<1>2. RRLater(rbase, listed[rcur]) /\ RRLater(listed[rcur], rbase)
  BY <1>1 DEF RRCacheLags, R!Unmodified
<1>3. rbase.gen = listed[rcur].gen
  BY <1>1, <1>2, RRFields DEF RRLater
<1> QED BY <1>2, <1>3 DEF RRLater

LEMMA RRFinalizerHoldsStep ==
  ASSUME RRTyped, RRTyped', RRCacheLags, RRFinalizerHolds, [PlaneNext]_planeVars
  PROVE  RRFinalizerHolds'
<1>1. ASSUME NEW r \in RRs, listed'[r].up, listed'[r].fin, ~listed'[r].deleting
      PROVE  rrset'[r].up /\ rrset'[r].fin
  <2>1. CASE listed' = rrset /\ rrset' = rrset
    BY <1>1, <2>1
  <2>2. CASE listed' = listed
    <3>1. rrset[r].up /\ rrset[r].fin
      BY <1>1, <2>2 DEF RRFinalizerHolds
    <3>2. ~(R!Release /\ R!Unmodified /\ r = rcur)
      BY <1>1, <2>2, RRDeletionWasCached DEF R!Release, RRFinalizerHolds, Releasing
    <3> QED BY <3>1, <3>2, RRSetsMoveOn DEF Holds
  <2> QED BY <2>1, <2>2, RRReadFacts
<1>2. CASE RRCalls
  <2>1. rpc' = "idle" \/ (rrset'[rcur'] = rrset[rcur] /\ rbase' = rbase)
    BY <1>2, RRCallFacts DEF RREnded
  <2>2. /\ rpc' \in {"get", "patch"} => rrset'[rcur'].up /\ rrset'[rcur'].fin
        /\ rpc' # "finalizer" /\ (rpc' \in Releasing => rbase'.deleting)
    BY <1>2, <2>1, RRCallFacts DEF RRFinalizerHolds, Releasing, RREnded
  <2> QED BY <1>1, <2>2 DEF RRFinalizerHolds
<1>3. CASE rpc' = "idle"
  BY <1>1, <1>3 DEF RRFinalizerHolds, Releasing
<1>4. ASSUME NEW r \in RRs, R!BeginPass(r) PROVE RRFinalizerHolds'
  BY <1>1, <1>4, RRBeginFacts DEF RRFinalizerHolds
<1>5. CASE UNCHANGED <<rpc, rcur, rbase>>
  <2>1. ASSUME rpc \in {"get", "patch"} PROVE rrset'[rcur].up /\ rrset'[rcur].fin
    <3>1. rcur \in RRs /\ rrset[rcur].up /\ rrset[rcur].fin /\ ~R!Release
      BY <2>1 DEF RRFinalizerHolds, RRTyped, R!Release
    <3> QED BY <3>1, RRSetsMoveOn DEF Holds
  <2> QED BY <1>1, <1>5, <2>1 DEF RRFinalizerHolds
<1>6. CASE RRMoves
  BY <1>2, <1>3, <1>4, <1>5, <1>6, RRCases, RRWriteFacts, RRRefreshFacts, RRUserFacts, RRLandFacts
  DEF RREnded
<1> QED BY <1>3, <1>5, <1>6, PlaneCases, ZoneMovesFacts, CrashFacts DEF RREnded

\* Without rivals there is nobody to yield to.
LEMMA NoYieldStep ==
  ASSUME UniqueKeys, RRTyped, rpc # "yield", [PlaneNext]_planeVars
  PROVE  rpc' # "yield"
<1>1. ASSUME NEW r \in RRs, R!BeginPass(r) PROVE rpc' # "yield"
  BY <1>1, RRBeginFacts DEF UniqueKeys, R!Rivals, R!Key
<1> QED BY <1>1, PlaneCases, RRCases, RRCallFacts, RRWriteFacts, RRRefreshFacts, RRUserFacts,
           RRLandFacts, ZoneMovesFacts, CrashFacts DEF RREnded

LEMMA RecordsHostedStep ==
  ASSUME RRTyped, RecordsHosted, [PlaneNext]_planeVars
  PROVE  RecordsHosted'
<1>1. CASE ZoneMoves
  BY <1>1 DEF ZoneMoves, RecordsFollow, RecordsHosted, NoRecords
<1>2. CASE RRMoves
  <2>1. store' = store
    BY <1>2 DEF RRMoves, zoneOnly
  <2>2. recs' = recs \/ Hosted
    BY <1>2, RRCases, RRCallFacts, RRWriteFacts, RRRefreshFacts, RRUserFacts, RRBeginFacts, RRLandFacts
  <2> QED BY <2>1, <2>2 DEF RecordsHosted, NoRecords, Hosted, Name
<1>3. CASE ProcessCrash \/ UNCHANGED planeVars
  BY <1>3 DEF ProcessCrash, planeVars, vars, storeVars, RecordsHosted, NoRecords, Hosted, Name
<1> QED BY <1>1, <1>2, <1>3, PlaneCases

-------------------------------------------------------------------------------
(* Records and their owners *)

\* A record is there because it was there before, or because a pass wrote it.
LEMMA RecordOrigin ==
  ASSUME RRTyped, [PlaneNext]_planeVars
  PROVE  /\ rdisturbed \subseteq rdisturbed'
         /\ \A k \in Keys \ rdisturbed' :
              recs'[k] # NoValue => \/ recs'[k] = recs[k]
                                    \/ RRCalls /\ rpc = "patch" /\ k = KeyOf[rcur]
<1>0. recs = [k \in Keys |-> recs[k]]
  BY DEF RRTyped
<1>1. CASE recs' = recs /\ rdisturbed' = rdisturbed
  BY <1>1
<1>2. CASE ZoneMoves \/ UNCHANGED planeVars
  BY <1>2, ZoneMovesFacts DEF NoRecords
<1>3. CASE RRCalls
  <2>1. rdisturbed' = rdisturbed
    BY <1>3, RRCallFacts
  <2>2. CASE rpc = "delete"
    BY <1>0, <1>1, <1>3, <2>1, <2>2, RRCallFacts
  <2>3. CASE rpc # "delete"
    BY <1>0, <1>1, <1>3, <2>1, <2>3, RRCallFacts
  <2> QED BY <2>2, <2>3
<1>4. ASSUME NEW q \in rinflight, R!Land(q)
      PROVE  rdisturbed' = rdisturbed \cup {q[1]} /\ \A k \in Keys \ rdisturbed' : recs'[k] = recs[k]
  BY <1>0, <1>4, RRLandFacts
<1> QED BY <1>1, <1>2, <1>3, <1>4, PlaneCases, RRCases, RRWriteFacts, RRRefreshFacts, RRUserFacts,
           RRBeginFacts, CrashFacts

\* While PowerDNS has the zone, the zone is left to itself only by its own Zone's
\* release, and a Zone that is going keeps going.
LEMMA ZoneSide ==
  ASSUME ZoneInv, [PlaneNext]_planeVars, Hosted, ZoneKept'
  PROVE  ZoneKept /\ (ZoneGoing => ZoneGoing')
<1>1. CASE ZoneMoves
  <2>0. [Next]_vars /\ OwnershipInv
    BY <1>1 DEF ZoneMoves, ZoneInv
  <2>1. Name(TheZone) \notin disturbed
    BY <2>0, StoreFacts DEF OwnershipInv, ZoneKept, Name
  <2>2. Name(TheZone) \notin left
    <3> SUFFICES ASSUME Name(TheZone) \in left PROVE FALSE
      OBVIOUS
    <3>1. Name(TheZone) \notin left'
      BY DEF ZoneKept, Name
    <3>2. pc = "release" /\ Name(TheZone) = Name(cur)
      BY <2>0, <3>1, LeftKept
    <3> QED BY <2>0, <2>1, <3>2 DEF OwnershipInv, ReleaseAfterDelete, Undisturbed, Hosted
  <2> QED BY <2>0, <2>1, <2>2, GoingStays DEF ZoneKept
<1>2. CASE RRMoves \/ ProcessCrash \/ UNCHANGED planeVars
  <2>1. UNCHANGED <<zone, left, disturbed>>
    BY <1>2 DEF RRMoves, zoneOnly, ProcessCrash, planeVars, vars, objVars, histVars
  <2> QED BY <2>1 DEF ZoneKept, ZoneGoing, Name
<1> QED BY <1>1, <1>2, PlaneCases

LEMMA ReleasedRecordGoesStep ==
  ASSUME SoleZone, ZoneInv, RRTyped, RRTyped', RecordsHosted, RRFinalizerHolds, ReleasedRecordGoes,
         [PlaneNext]_planeVars
  PROVE  ReleasedRecordGoes'
<1> SUFFICES ASSUME KeyOf[rcur'] \notin rdisturbed'
             PROVE  /\ rpc' = "release" => recs'[KeyOf[rcur']] = NoValue
                    /\ rpc' = "abandon" /\ ZoneKept' /\ recs'[KeyOf[rcur']] # NoValue => ZoneGoing'
  BY DEF ReleasedRecordGoes
<1>0. KeyOf[rcur] \in Keys /\ KeyOf[rcur'] \in Keys
  BY PlaneAssumption DEF RRTyped
<1>h. \A k \in Keys : recs[k] # NoValue => Hosted
  BY DEF RecordsHosted, NoRecords
<1>1. CASE RRCalls
  <2>1. rcur' = rcur /\ rpc' # "abandon"
    BY <1>1, RRCallFacts DEF RREnded
  <2>2. ASSUME rpc' = "release" PROVE recs'[KeyOf[rcur]] = NoValue
    <3>1. recs' = [recs EXCEPT ![KeyOf[rcur]] = NoValue] \/ (~Hosted /\ recs' = recs)
      BY <1>1, <2>2, RRCallFacts DEF RREnded
    <3> QED BY <1>0, <1>h, <3>1 DEF RRTyped
  <2> QED BY <2>1, <2>2
<1>2. ASSUME NEW r \in RRs, R!BeginPass(r), RRMoves
      PROVE  /\ rpc' # "release"
             /\ rpc' = "abandon" /\ ZoneKept' /\ recs'[KeyOf[rcur']] # NoValue => ZoneGoing'
  <2>1. rpc' # "release" /\ recs' = recs /\ UNCHANGED <<zone, left, disturbed>>
    BY <1>2, RRBeginFacts DEF RRMoves, zoneOnly
  <2>2. ASSUME rpc' = "abandon", ZoneKept', recs'[KeyOf[rcur']] # NoValue PROVE ZoneGoing'
    <3>1. Hosted /\ ZoneKept
      BY <1>0, <1>h, <2>1, <2>2 DEF ZoneKept, Name
    <3>2. ZoneGoing
      BY <1>2, <2>2, <3>1, RRBeginFacts, LostIsGoing
    <3> QED BY <2>1, <3>2 DEF ZoneGoing
  <2> QED BY <2>1, <2>2
<1>3. CASE UNCHANGED <<rpc, rcur>> /\ ~RRCalls
  <2>1. KeyOf[rcur] \notin rdisturbed
    BY <1>3, RecordOrigin
  <2>2. recs'[KeyOf[rcur]] # NoValue => recs[KeyOf[rcur]] # NoValue
    BY <1>0, <1>3, RecordOrigin
  <2>3. ASSUME rpc = "abandon", ZoneKept', recs'[KeyOf[rcur]] # NoValue PROVE ZoneGoing'
    <3>1. Hosted
      BY <1>0, <1>h, <2>2, <2>3
    <3>2. ZoneKept /\ (ZoneGoing => ZoneGoing')
      BY <2>3, <3>1, ZoneSide
    <3> QED BY <2>1, <2>2, <2>3, <3>2 DEF ReleasedRecordGoes
  <2> QED BY <1>3, <2>1, <2>2, <2>3 DEF ReleasedRecordGoes
<1>4. CASE rpc' = "idle"
  BY <1>4
<1>5. CASE RRMoves
  BY <1>1, <1>2, <1>3, <1>4, <1>5, RRCases, RRWriteFacts, RRRefreshFacts, RRUserFacts, RRLandFacts
  DEF RREnded
<1> QED BY <1>1, <1>3, <1>4, <1>5, PlaneCases, ZoneMovesFacts, CrashFacts DEF RREnded

\* A key is taken off rleft only by the release that follows a delete.
LEMMA RRLeftKept ==
  ASSUME RRTyped, [PlaneNext]_planeVars, NEW k \in rleft, k \notin rleft'
  PROVE  rpc = "release" /\ k = KeyOf[rcur]
<1>1. CASE RRWrites
  BY <1>1 DEF RRWrites, R!AddFinalizer, R!WriteStatus, R!Release, R!Key, R!histVars
<1> QED BY <1>1, PlaneCases, RRCases, RRCallFacts, RRRefreshFacts, RRUserFacts, RRBeginFacts,
           RRLandFacts, ZoneMovesFacts, CrashFacts

LEMMA KeptRecordsOwnedStep ==
  ASSUME PlaneInv, [PlaneNext]_planeVars
  PROVE  KeptRecordsOwned'
<1> USE DEF PlaneInv
<1> DEFINE Owner(r, k) == KeyOf[r] = k /\ rrset'[r].up /\ rrset'[r].fin
<1> SUFFICES ASSUME ZoneKept', NEW k \in Keys, k \notin rleft', k \notin rdisturbed',
                    recs'[k] # NoValue
             PROVE  (\E r \in RRs : Owner(r, k)) \/ ZoneGoing'
  BY DEF KeptRecordsOwned, RecordsOwned, ZoneGoing
<1>0. rcur \in RRs
  BY DEF RRTyped
<1>1. CASE RRCalls /\ rpc = "patch" /\ k = KeyOf[rcur]
  BY <1>0, <1>1, RRCallFacts DEF RRFinalizerHolds
<1>2. CASE recs'[k] = recs[k]
  <2>1. k \notin rdisturbed /\ Hosted
    BY <1>2, RecordOrigin DEF RecordsHosted, NoRecords
  <2>2. ZoneKept /\ (ZoneGoing => ZoneGoing')
    BY <2>1, ZoneSide
  <2>3. ~(rpc = "release" /\ k = KeyOf[rcur])
    BY <1>2, <2>1 DEF ReleasedRecordGoes
  <2>4. k \notin rleft
    BY <2>3, RRLeftKept
  <2>5. CASE ZoneGoing
    BY <2>2, <2>5
  <2>6. ASSUME NEW r \in RRs, KeyOf[r] = k, rrset[r].up, rrset[r].fin
        PROVE  (\E o \in RRs : Owner(o, k)) \/ ZoneGoing'
    <3>1. CASE Holds(rrset[r], rrset'[r])
      BY <2>6, <3>1 DEF Holds
    <3>2. CASE R!Release /\ R!Unmodified /\ r = rcur
      <4>1. rpc # "detach"
        BY <2>6, <3>2 DEF R!Release, R!Key
      <4>2. rpc = "abandon"
        BY <2>3, <2>6, <3>2, <4>1 DEF R!Release
      <4> QED BY <1>2, <2>1, <2>2, <2>6, <3>2, <4>2 DEF ReleasedRecordGoes
    <3> QED BY <3>1, <3>2, RRSetsMoveOn
  <2> QED BY <1>2, <2>1, <2>2, <2>4, <2>5, <2>6 DEF KeptRecordsOwned, RecordsOwned, ZoneGoing
<1> QED BY <1>1, <1>2, RecordOrigin

-------------------------------------------------------------------------------
(* The theorems *)

LEMMA InitPlane == PlaneInit => PlaneInv
<1> SUFFICES ASSUME PlaneInit PROVE PlaneInv
  OBVIOUS
<1>0. R!Gone(0) \in R!Objects /\ R!NoStatus \in R!Statuses /\ ~R!Gone(0).up
  BY RRGone
<1>1. ZoneInv
  <2>1. OwnershipInv
    BY InitOwnership DEF PlaneInit
  <2>2. FinalizerWasCached
    BY DEF PlaneInit, Init, FinalizerWasCached, Gone
  <2> QED BY <2>1, <2>2 DEF ZoneInv
<1>2. RRTyped
  BY <1>0 DEF PlaneInit, RRTyped, NoRecords
<1>3. RRCacheLags /\ RRFinalizerHolds /\ RecordsHosted /\ rpc # "yield"
  BY <1>0, RRLaterReflexive DEF PlaneInit, RRCacheLags, RRFinalizerHolds, RecordsHosted, Releasing
<1>4. ReleasedRecordGoes /\ KeptRecordsOwned
  BY DEF PlaneInit, ReleasedRecordGoes, KeptRecordsOwned, RecordsOwned, NoRecords
<1> QED BY <1>1, <1>2, <1>3, <1>4 DEF PlaneInv

LEMMA PlaneInvStep ==
  ASSUME UniqueKeys, SoleZone, PlaneInv, [PlaneNext]_planeVars
  PROVE  PlaneInv'
<1>1. ZoneInv' /\ RRTyped'
  BY ZoneInvStep, RRTypedStep DEF PlaneInv
<1>2. RRCacheLags' /\ RRFinalizerHolds' /\ RecordsHosted' /\ rpc' # "yield"
  BY <1>1, RRCacheLagsStep, RRFinalizerHoldsStep, RecordsHostedStep, NoYieldStep DEF PlaneInv
<1>3. ReleasedRecordGoes' /\ KeptRecordsOwned'
  BY <1>1, ReleasedRecordGoesStep, KeptRecordsOwnedStep DEF PlaneInv
<1> QED BY <1>1, <1>2, <1>3 DEF PlaneInv

\* Where each record is declared by one RRSet and the zone by one Zone, a record
\* always has someone bound to delete it, whatever order users delete, create and
\* edit the two in, whatever the caches lag and whichever calls fail: unless the
\* zone itself was left behind on purpose or changed by others (deleteFromPowerDNS,
\* rrset_controller.go:164).
THEOREM OwnedUnlessLeft ==
  ASSUME UniqueKeys, SoleZone
  PROVE  PlaneSpec => [](ZoneKept => RecordsOwned)
<1>1. PlaneInv /\ [PlaneNext]_planeVars => PlaneInv'
  BY PlaneInvStep
<1>2. PlaneInv => (ZoneKept => RecordsOwned)
  BY DEF PlaneInv, KeptRecordsOwned
<1> QED BY <1>1, <1>2, InitPlane, PTL DEF PlaneSpec

LEMMA InitZoneInv == PlaneInit => ZoneInv
BY InitPlane DEF PlaneInv

\* Beside the RRSet controller, in a process that may crash, the Zone controller
\* still leaves no zone in PowerDNS that no Zone owns (zone_controller.go:53).
THEOREM ZonesStayOwned == PlaneSpec => []NoUnownedZone
<1>1. ZoneInv /\ [PlaneNext]_planeVars => ZoneInv'
  BY ZoneInvStep
<1>2. ZoneInv => NoUnownedZone
  BY DEF ZoneInv, OwnershipInv
<1> QED BY <1>1, <1>2, InitZoneInv, PTL DEF PlaneSpec

\* The two controllers in one process implement the registry of zones that the
\* Zone controller alone implements: records come and go without a trace in it
\* (zone_controller.go:53, rrset_controller.go:164).
THEOREM PlaneImplements == PlaneSpec => ImplementsRegistry
<1>1. ZoneInv /\ [PlaneNext]_planeVars => [Registry!Next]_(Registry!registry)
  <2> SUFFICES ASSUME ZoneInv, [PlaneNext]_planeVars
               PROVE  [Registry!Next]_(Registry!registry)
    OBVIOUS
  <2>1. CASE ZoneMoves
    BY <2>1, StepImplements DEF ZoneMoves, ZoneInv
  <2>2. CASE RRMoves \/ UNCHANGED planeVars
    <3>1. UNCHANGED <<zone, store, left, disturbed>>
      BY <2>2 DEF RRMoves, zoneOnly, planeVars, vars, objVars, storeVars, histVars
    <3> QED BY <3>1 DEF Registry!registry, Held, Owned, Excused, Name
  <2>3. CASE ProcessCrash
    <3>1. UNCHANGED <<zone, store, left, disturbed>>
      BY <2>3 DEF ProcessCrash, objVars, storeVars, histVars
    <3> QED BY <3>1 DEF Registry!registry, Held, Owned, Excused, Name
  <2> QED BY <2>1, <2>2, <2>3, PlaneCases
<1>2. ZoneInv /\ [PlaneNext]_planeVars => ZoneInv'
  BY ZoneInvStep
<1>3. PlaneInit => Registry!Init
  BY InitImplements DEF PlaneInit
<1> QED BY <1>1, <1>2, <1>3, InitZoneInv, PTL DEF PlaneSpec, ImplementsRegistry, Registry!Spec

\* The first step of a pass, seen from a deletion policy of Delete.
LEMMA NoDetach ==
  ASSUME NothingDetached, DeletesWithData, NEW z \in Zones, BeginPass(z)
  PROVE  pc' # "detach"
<1>1. server.up /\ ~server.deleting /\ server.phase # "Failed" /\ cached[z].orphan = FALSE
  BY DEF NothingDetached, DeletesWithData
<1>2. ~BeginDetach(z)
  BY <1>1 DEF BeginDetach, ServerLost
<1> QED BY <1>2 DEF BeginPass, BeginAddFinalizer, BeginInvalid, BeginNotReady, BeginZone,
                    BeginDelete, Begin

\* No write makes an object an orphan when no spec does.
LEMMA OrphansAreSpecified ==
  ASSUME NothingDetached, TypeOK, [Next]_vars, NEW z \in Zones, zone[z].orphan = FALSE
  PROVE  zone'[z].orphan = FALSE
<1>0. zone[z] \in Objects /\ cur \in Zones /\ \A s \in Specs : s.orphan = FALSE
  BY DEF TypeOK, NothingDetached
<1>1. CASE zone'[z] = zone[z]
  BY <1>1
<1>2. CASE AddFinalizer
  BY <1>0, <1>2 DEF AddFinalizer, TypeOK, Objects
<1>3. CASE WriteStatus
  BY <1>0, <1>3 DEF WriteStatus, TypeOK, Objects
<1>4. CASE Release
  <2>1. zone'[z] = zone[z] \/ zone'[z] = Gone(zone[z].gen)
    BY <1>0, <1>4 DEF Release, TypeOK
  <2>2. Gone(zone[z].gen).orphan = FALSE
    BY DEF Gone
  <2> QED BY <2>1, <2>2
<1>5. ASSUME NEW y \in Zones, UserChanges(y) PROVE zone'[z].orphan = FALSE
  <2>1. CASE y # z
    BY <1>5, <2>1 DEF UserChanges, CreateCR, EditSpec, DeleteCR, TypeOK
  <2>2. CASE CreateCR(z) \/ EditSpec(z)
    <3>1. zone[z].gen \in Nat
      BY <1>0, StatusType
    <3>2. Gone(zone[z].gen) \in Objects
      BY <3>1, GoneType
    <3>3. \A o \in Objects, s \in Specs : WithSpec(o, s).orphan = s.orphan
      BY DEF WithSpec, Objects
    <3>4. PICK s \in Specs : \/ zone' = [zone EXCEPT ![z] = WithSpec(Gone(zone[z].gen), s)]
                            \/ zone' = [zone EXCEPT ![z] = WithSpec(zone[z], s)]
      BY <2>2 DEF CreateCR, EditSpec
    <3>5. zone'[z] = WithSpec(Gone(zone[z].gen), s) \/ zone'[z] = WithSpec(zone[z], s)
      BY <1>0, <3>4 DEF TypeOK
    <3> QED BY <1>0, <3>2, <3>3, <3>5
  <2>3. CASE DeleteCR(z)
    <3>1. [zone[z] EXCEPT !.deleting = TRUE].orphan = FALSE /\ Gone(zone[z].gen).orphan = FALSE
      BY <1>0 DEF Gone, Objects
    <3> QED BY <1>0, <2>3, <3>1 DEF DeleteCR, TypeOK
  <2> QED BY <1>5, <2>1, <2>2, <2>3 DEF UserChanges
<1> QED BY <1>1, <1>2, <1>3, <1>4, <1>5, StepCases, CallsKeepObjects, OutsideKeepsObjects,
           BeginFacts DEF Refresh, objVars

LEMMA DeletesWithDataStep ==
  ASSUME NothingDetached, ZoneInv, DeletesWithData, [PlaneNext]_planeVars
  PROVE  DeletesWithData'
<1> USE DEF DeletesWithData
<1>0. TypeOK /\ OwnershipInv
  BY DEF ZoneInv, OwnershipInv
<1>1. CASE ZoneMoves
  <2>0. [Next]_vars
    BY <1>1 DEF ZoneMoves
  <2>1. Alone'
    BY <1>0, <2>0, AloneStep DEF NothingDetached
  <2>2. \A z \in Zones : zone'[z].orphan = FALSE /\ cached'[z].orphan = FALSE
    BY <1>0, <2>0, OrphansAreSpecified, ReadFacts
  <2>3. pc' # "detach"
    <3>1. CASE \E z \in Zones : BeginPass(z)
      BY <3>1, NoDetach
    <3>2. CASE PowerDNSCalls
      BY <3>2, CallTransitions DEF Working
    <3>3. CASE Crash \/ AddFinalizer \/ WriteStatus \/ Release
      BY <3>3 DEF Crash, AddFinalizer, WriteStatus, Release, Finish
    <3>4. CASE OutsideChanges \/ Refresh \/ \E z \in Zones : UserChanges(z)
      BY <3>4, OutsideKeepsObjects
      DEF Refresh, UserChanges, CreateCR, EditSpec, DeleteCR, passVars
    <3> QED BY <2>0, <3>1, <3>2, <3>3, <3>4, StepCases
  <2>4. left' = {} /\ server' \in ServerViews
    <3>1. CASE PowerDNSCalls
      BY <3>1 DEF PowerDNSCalls, GetZone, CreateZone, SeedSOA, Compensate, Adopt, UpdateZone,
                  ListCryptokeys, Deactivate, Activate, CreateCryptokey, RectifyZone,
                  RelistCryptokeys, DeleteZone, objVars, histVars
    <3>2. CASE Crash \/ AddFinalizer \/ WriteStatus \/ Release \/ Refresh
      BY <3>2 DEF Crash, AddFinalizer, WriteStatus, Release, Refresh, objVars, histVars
    <3>3. CASE (\E z \in Zones : BeginPass(z)) \/ \E z \in Zones : UserChanges(z)
      BY <3>3, BeginFacts DEF UserChanges, CreateCR, EditSpec, DeleteCR, objVars, histVars
    <3>4. CASE OutsideChanges
      BY <3>4 DEF OutsideChanges, ServerChanges, ForeignChange, Land, vars, objVars
    <3> QED BY <2>0, <3>1, <3>2, <3>3, <3>4, StepCases
  <2> QED BY <2>1, <2>2, <2>3, <2>4
<1>2. CASE RRMoves \/ UNCHANGED planeVars
  BY <1>2 DEF RRMoves, zoneOnly, planeVars, vars, Alone
<1>3. CASE ProcessCrash
  BY <1>3 DEF ProcessCrash, Finish, objVars, storeVars, histVars, Alone
<1> QED BY <1>1, <1>2, <1>3, PlaneCases

\* Where moreover zones are deleted with their data and nobody else writes to
\* PowerDNS, every record has someone bound to delete it, always
\* (deleteFromPowerDNS, rrset_controller.go:164).
THEOREM AlwaysOwned ==
  ASSUME UniqueKeys, SoleZone, NothingDetached
  PROVE  PlaneSpec => []RecordsOwned
<1>1. PlaneInit => DeletesWithData
  <2>1. Gone(0).orphan = FALSE
    BY DEF Gone
  <2>2. Init => \A z \in Zones : zone[z] = Gone(0) /\ cached[z] = Gone(0)
    BY DEF Init
  <2> QED BY <2>1, <2>2 DEF PlaneInit, Init, DeletesWithData, Alone
<1>2. PlaneInv /\ DeletesWithData /\ [PlaneNext]_planeVars => PlaneInv' /\ DeletesWithData'
  BY PlaneInvStep, DeletesWithDataStep DEF PlaneInv
<1>3. PlaneInv /\ DeletesWithData => RecordsOwned
  BY DEF PlaneInv, KeptRecordsOwned, ZoneKept, DeletesWithData, Alone
<1> QED BY <1>1, <1>2, <1>3, InitPlane, PTL DEF PlaneSpec

===============================================================================

----------------------------- MODULE RRSetProofs ------------------------------
(***************************************************************************)
(* The RRSet controller, for any number of RRSets, faults and users.       *)
(*                                                                         *)
(* Two live RRSets that claim one name and type never both report Applied: *)
(* a status was computed from an object that went through the cache, so an *)
(* RRSet that is Applied for its current spec is in the cache, live, and   *)
(* every pass that starts on a rival of it sees the conflict.              *)
(*                                                                         *)
(* What an Applied RRSet asks for is served: no rival's pass writes or     *)
(* deletes its record, a pass of its own works on the same spec, and       *)
(* Applied is reported only after a write or after the counting loop of    *)
(* rrsetMatches found each record as often as it is wanted.                *)
(***************************************************************************)
EXTENDS RRSetInvariants, FiniteSetTheorems, TLAPS

LEMMA FieldTypes ==
  ASSUME NEW o \in Objects
  PROVE  /\ o.gen \in Nat /\ o.status \in Statuses /\ o.status.obs \in Nat
         /\ o.up \in BOOLEAN /\ o.deleting \in BOOLEAN
BY DEF Objects, Statuses

LEMMA GoneFacts ==
  ASSUME NEW g \in Nat
  PROVE  /\ Gone(g) \in Objects /\ NoStatus \in Statuses /\ NoStatus.obs = 0
         /\ NoStatus.reason = "" /\ Gone(g).gen = g /\ ~Gone(g).up /\ Gone(g).status = NoStatus
BY DEF Gone, Objects, NoStatus, Statuses

LEMMA LaterReflexive ==
  ASSUME NEW o \in Objects
  PROVE  Later(o, o)
BY FieldTypes DEF Later

LEMMA LaterTransitive ==
  ASSUME NEW a \in Objects, NEW b \in Objects, NEW c \in Objects, Later(a, b), Later(b, c)
  PROVE  Later(a, c)
BY FieldTypes DEF Later

\* The statuses a pass reports.
LEMMA StatusFacts ==
  ASSUME NEW o \in Objects
  PROVE  /\ NotReady(o) \in Statuses /\ NotReady(o).reason = "NotReady" /\ NotReady(o).obs = o.status.obs
         /\ Applied(o) \in Statuses /\ Applied(o).reason = "Applied" /\ Applied(o).obs = o.gen
         /\ [o.status EXCEPT !.reason = "Conflict"] \in Statuses
         /\ [o.status EXCEPT !.reason = "Conflict"].reason = "Conflict"
         /\ [o.status EXCEPT !.reason = "Conflict"].obs = o.status.obs
BY FieldTypes DEF NotReady, Applied, Statuses

\* What a step does to one object: nothing; a write that keeps its status and
\* spec; a new status; a new spec version that has not been observed; a new
\* object; or its removal.
Keeps(a, b) ==
  b.gen = a.gen /\ b.up = a.up /\ b.value = a.value /\ b.status = a.status /\ (a.deleting => b.deleting)
Restates(a, b, st) ==
  b.gen = a.gen /\ b.up = a.up /\ b.value = a.value /\ b.status = st /\ b.deleting = a.deleting
Respecifies(a, b) == b.gen = a.gen + 1 /\ b.status = a.status
Starts(a, b) == b.gen = a.gen + 1 /\ b.status = NoStatus
Ends(a, b) == b.gen = a.gen /\ ~b.up /\ b.status = NoStatus

UserEdit(a, b) == Keeps(a, b) \/ Respecifies(a, b) \/ Starts(a, b) \/ Ends(a, b)

LEMMA UserFacts ==
  ASSUME ObjectsTyped, NEW r \in RRs, CreateCR(r) \/ EditSpec(r) \/ DeleteCR(r)
  PROVE  /\ UNCHANGED <<listed, pc, cur, base, todo>>
         /\ rrset' \in [RRs -> Objects]
         /\ \A o \in RRs : rrset'[o].up => rrset'[o].value \in Values
         /\ \A o \in RRs : UserEdit(rrset[o], rrset'[o])
<1>0. /\ rrset[r] \in Objects /\ rrset[r].gen \in Nat /\ rrset[r].gen + 1 \in Nat
      /\ rrset \in [RRs -> Objects]
  BY FieldTypes DEF ObjectsTyped
<1>s. \A s \in Specs : s.value \in Values /\ s.orphan \in BOOLEAN
  BY RRSetAssumption
<1>1. UNCHANGED <<listed, pc, cur, base, todo>>
  BY DEF CreateCR, EditSpec, DeleteCR, passVars
<1>2. ASSUME NEW b \in Objects, rrset' = [rrset EXCEPT ![r] = b], UserEdit(rrset[r], b),
             b.up => b.value \in Values
      PROVE  /\ rrset' \in [RRs -> Objects] /\ \A o \in RRs : UserEdit(rrset[o], rrset'[o])
             /\ \A o \in RRs : rrset'[o].up => rrset'[o].value \in Values
  <2>1. rrset' \in [RRs -> Objects]
    BY <1>0, <1>2
  <2>2. ASSUME NEW o \in RRs PROVE UserEdit(rrset[o], rrset'[o])
    <3>1. CASE o = r
      BY <1>0, <1>2, <3>1
    <3>2. CASE o # r
      BY <1>0, <1>2, <3>2 DEF UserEdit, Keeps
    <3> QED BY <3>1, <3>2
  <2>3. \A o \in RRs : rrset'[o].up => rrset'[o].value \in Values
    BY <1>0, <1>2 DEF ObjectsTyped
  <2> QED BY <2>1, <2>2, <2>3
<1>3. CASE CreateCR(r)
  <2>1. PICK s \in Specs :
          rrset' = [rrset EXCEPT ![r] = [Gone(rrset[r].gen + 1) EXCEPT !.up = TRUE,
                                           !.value = s.value, !.orphan = s.orphan]]
    BY <1>3 DEF CreateCR
  <2> DEFINE b == [Gone(rrset[r].gen + 1) EXCEPT !.up = TRUE, !.value = s.value, !.orphan = s.orphan]
  <2>2. b \in Objects /\ b.gen = rrset[r].gen + 1 /\ b.status = NoStatus /\ b.value \in Values
    BY <1>0, <1>s, GoneFacts DEF Objects, Gone
  <2> QED BY <1>1, <1>2, <2>1, <2>2 DEF UserEdit, Starts
<1>4. CASE EditSpec(r)
  <2>1. PICK s \in Specs :
          rrset' = [rrset EXCEPT ![r].gen = @ + 1, ![r].value = s.value, ![r].orphan = s.orphan]
    BY <1>4 DEF EditSpec
  <2> DEFINE b == [rrset[r] EXCEPT !.gen = @ + 1, !.value = s.value, !.orphan = s.orphan]
  <2>2. b \in Objects /\ b.gen = rrset[r].gen + 1 /\ b.status = rrset[r].status /\ b.value \in Values
    BY <1>0, <1>s DEF Objects
  <2>3. rrset' = [rrset EXCEPT ![r] = b]
    BY <1>0, <2>1
  <2> QED BY <1>1, <1>2, <2>2, <2>3 DEF UserEdit, Respecifies
<1>5. CASE DeleteCR(r)
  <2>1. /\ [rrset[r] EXCEPT !.deleting = TRUE] \in Objects
        /\ Keeps(rrset[r], [rrset[r] EXCEPT !.deleting = TRUE])
    BY <1>0 DEF Objects, Keeps
  <2>v. rrset[r].up => rrset[r].value \in Values
    BY DEF ObjectsTyped
  <2>2. Gone(rrset[r].gen) \in Objects /\ Ends(rrset[r], Gone(rrset[r].gen))
    BY <1>0, GoneFacts DEF Ends
  <2>3. \/ rrset' = [rrset EXCEPT ![r] = [rrset[r] EXCEPT !.deleting = TRUE]]
        \/ rrset' = [rrset EXCEPT ![r] = Gone(rrset[r].gen)]
    BY <1>5 DEF DeleteCR
  <2> QED BY <1>0, <1>1, <1>2, <2>1, <2>v, <2>2, <2>3, GoneFacts DEF UserEdit, Keeps
<1> QED BY <1>3, <1>4, <1>5

\* The pass is over.
Ended == pc' = "idle" /\ base' = Gone(0) /\ todo' = NoStatus

\* Calls, and a crash, touch no object.
Calls == GetZone \/ PatchRRSet \/ DeleteRRSet \/ Crash

LEMMA CallFacts ==
  ASSUME Calls
  PROVE  /\ pc # "idle" /\ UNCHANGED <<rrset, listed, cur>>
         /\ \/ Ended
            \/ /\ base' = base /\ pc' \notin {"idle", "get", "delete"}
               /\ (Applying' => pc \in {"get", "patch"})
               /\ \/ pc' # "status" /\ todo' = todo
                  \/ pc' = "status" /\ todo' \in {NotReady(base), Applied(base)}
<1>1. CASE GetZone
  <2>1. UNCHANGED <<rrset, listed>> /\ pc = "get"
    BY <1>1 DEF GetZone, objVars
  <2>2. Goto("patch") \/ Report(NotReady(base)) \/ Report(Applied(base))
    BY <1>1 DEF GetZone
  <2> QED BY <2>1, <2>2 DEF Goto, Report, Applying
<1>2. CASE PatchRRSet
  <2>1. UNCHANGED <<rrset, listed>> /\ pc = "patch"
    BY <1>2 DEF PatchRRSet, objVars
  <2>2. Report(NotReady(base)) \/ Report(Applied(base))
    BY <1>2 DEF PatchRRSet
  <2> QED BY <2>1, <2>2 DEF Report, Applying
<1>3. CASE DeleteRRSet
  <2>1. UNCHANGED <<rrset, listed>> /\ pc = "delete"
    BY <1>3 DEF DeleteRRSet, objVars
  <2>2. Goto("release") \/ Finish
    BY <1>3 DEF DeleteRRSet
  <2> QED BY <2>1, <2>2 DEF Goto, Finish, Applying, Ended
<1>4. CASE Crash
  BY <1>4 DEF Crash, Finish, Ended, objVars
<1> QED BY <1>1, <1>2, <1>3, <1>4 DEF Calls

\* A write of the pass changes its own object, if that is still the one it read.
Writes == AddFinalizer \/ WriteStatus \/ Release

LEMMA WriteFacts ==
  ASSUME ObjectsTyped, Writes
  PROVE  /\ pc # "idle" /\ Ended /\ UNCHANGED <<listed, cur>>
         /\ rrset' \in [RRs -> Objects]
         /\ rrset'[cur].up => rrset'[cur].value = rrset[cur].value /\ rrset[cur].up
         /\ \A o \in RRs \ {cur} : rrset'[o] = rrset[o]
         /\ \/ rrset'[cur] = rrset[cur]
            \/ Keeps(rrset[cur], rrset'[cur])
            \/ Ends(rrset[cur], rrset'[cur])
            \/ pc = "status" /\ rrset[cur] = base /\ Restates(rrset[cur], rrset'[cur], todo)
<1>0. rrset[cur] \in Objects /\ rrset \in [RRs -> Objects] /\ cur \in RRs /\ todo \in Statuses
      /\ rrset[cur].gen \in Nat
  BY FieldTypes DEF ObjectsTyped
<1>1. pc # "idle" /\ Ended /\ UNCHANGED <<listed, cur>>
  BY DEF Writes, AddFinalizer, WriteStatus, Release, Finish, Ended
<1>2. CASE rrset' = rrset
  BY <1>0, <1>1, <1>2
<1>3. CASE AddFinalizer /\ rrset' = [rrset EXCEPT ![cur].fin = TRUE]
  <2>1. [rrset[cur] EXCEPT !.fin = TRUE] \in Objects
    BY <1>0 DEF Objects
  <2>2. Keeps(rrset[cur], [rrset[cur] EXCEPT !.fin = TRUE])
    BY <1>0 DEF Objects, Keeps
  <2> QED BY <1>0, <1>1, <1>3, <2>1, <2>2
<1>4. CASE WriteStatus /\ Unmodified /\ rrset' = [rrset EXCEPT ![cur].status = todo]
  <2>1. [rrset[cur] EXCEPT !.status = todo] \in Objects
    BY <1>0 DEF Objects
  <2>2. Restates(rrset[cur], [rrset[cur] EXCEPT !.status = todo], todo)
    BY <1>0 DEF Objects, Restates
  <2>3. pc = "status" /\ rrset[cur] = base
    BY <1>4 DEF WriteStatus, Unmodified
  <2> QED BY <1>0, <1>1, <1>4, <2>1, <2>2, <2>3
<1>5. CASE Release /\ rrset' = [rrset EXCEPT ![cur] = Gone(@.gen)]
  BY <1>0, <1>1, <1>5, GoneFacts DEF Ends
<1> QED BY <1>2, <1>3, <1>4, <1>5 DEF Writes, AddFinalizer, WriteStatus, Release

LEMMA BeginFacts ==
  ASSUME NEW r \in RRs, BeginPass(r)
  PROVE  /\ UNCHANGED <<rrset, listed>> /\ cur' = r /\ base' = listed[r] /\ pc' # "idle"
         /\ listed[r].up
         /\ \/ pc' # "status" /\ todo' = todo
            \/ pc' = "status" /\ todo' \in {NotReady(listed[r]), [listed[r].status EXCEPT !.reason = "Conflict"]}
         /\ pc' \in {"get", "patch", "delete"} => Rivals(r) = {} /\ listed[r].fin
         /\ pc' = "delete" => listed[r].deleting
BY DEF BeginPass, BeginAddFinalizer, BeginNotReady, BeginConflict, BeginApply, BeginDelete,
       BeginYield, BeginAbandon, BeginDetach, Begin, Live, objVars

\* What others do to the parents and to PowerDNS touches no object and no pass.
Outside ==
  \/ ParentChanges \/ HostingChanges \/ (\E k \in Keys : ForeignChange(k))
  \/ (\E q \in inflight : Land(q)) \/ UNCHANGED vars

LEMMA OutsideFacts ==
  ASSUME Outside
  PROVE  UNCHANGED <<rrset, listed, pc, cur, base, todo>>
BY DEF Outside, ParentChanges, HostingChanges, ForeignChange, Land, objVars, passVars, vars

LEMMA StepCases ==
  ASSUME [Next]_vars
  PROVE  \/ Calls \/ Writes \/ Refresh \/ Outside
         \/ (\E r \in RRs : BeginPass(r))
         \/ \E r \in RRs : CreateCR(r) \/ EditSpec(r) \/ DeleteCR(r)
BY DEF Next, PassStep, Environment, Users, Calls, Writes, Outside

LEMMA TypedStep ==
  ASSUME ObjectsTyped, [Next]_vars
  PROVE  ObjectsTyped'
<1>0. Gone(0) \in Objects /\ NoStatus \in Statuses
  BY GoneFacts
<1>1. CASE Calls
  <2>1. NotReady(base) \in Statuses /\ Applied(base) \in Statuses
    BY StatusFacts DEF ObjectsTyped
  <2> QED BY <1>0, <1>1, <2>1, CallFacts DEF ObjectsTyped, Ended
<1>2. CASE Writes
  BY <1>0, <1>2, WriteFacts DEF ObjectsTyped, Ended
<1>3. ASSUME NEW r \in RRs, BeginPass(r) PROVE ObjectsTyped'
  <2>1. listed[r] \in Objects
    BY DEF ObjectsTyped
  <2> QED BY <1>3, <2>1, BeginFacts, StatusFacts DEF ObjectsTyped
<1>4. CASE Refresh \/ Outside
  BY <1>4, OutsideFacts DEF Refresh, passVars, ObjectsTyped
<1>5. ASSUME NEW r \in RRs, CreateCR(r) \/ EditSpec(r) \/ DeleteCR(r) PROVE ObjectsTyped'
  BY <1>5, UserFacts DEF ObjectsTyped
<1> QED BY <1>1, <1>2, <1>3, <1>4, <1>5, StepCases

\* Every change of an object leads to a later version of it.
LEMMA EditsAreLater ==
  ASSUME NEW a \in Objects, NEW b \in Objects
  PROVE  /\ UserEdit(a, b) => Later(a, b)
         /\ \A st : Restates(a, b, st) => Later(a, b)
BY FieldTypes DEF UserEdit, Keeps, Respecifies, Starts, Ends, Restates, Later

LEMMA ObjectsMoveOn ==
  ASSUME ObjectsTyped, ObjectsTyped', [Next]_vars, NEW r \in RRs
  PROVE  Later(rrset[r], rrset'[r])
<1>0. rrset[r] \in Objects /\ rrset'[r] \in Objects
  BY DEF ObjectsTyped
<1>1. CASE rrset'[r] = rrset[r]
  BY <1>0, <1>1, LaterReflexive
<1>2. CASE Writes
  BY <1>0, <1>1, <1>2, WriteFacts, EditsAreLater DEF UserEdit, ObjectsTyped
<1>3. ASSUME NEW y \in RRs, CreateCR(y) \/ EditSpec(y) \/ DeleteCR(y)
      PROVE  Later(rrset[r], rrset'[r])
  BY <1>0, <1>3, UserFacts, EditsAreLater
<1> QED BY <1>1, <1>2, <1>3, StepCases, CallFacts, OutsideFacts, BeginFacts DEF Refresh

\* Who moves the cache, and what a pass remembers.
LEMMA ReadFacts ==
  ASSUME ObjectsTyped, [Next]_vars
  PROVE  /\ listed' = listed \/ (listed' = rrset /\ rrset' = rrset /\ UNCHANGED <<pc, cur, base, todo>>)
         /\ \/ pc' = "idle"
            \/ pc # "idle" /\ UNCHANGED <<cur, base>>
            \/ \E r \in RRs : BeginPass(r)
<1>1. CASE Calls \/ Writes
  BY <1>1, CallFacts, WriteFacts DEF Ended
<1>2. CASE Refresh
  BY <1>2 DEF Refresh, passVars
<1>3. CASE \E r \in RRs : BeginPass(r)
  BY <1>3, BeginFacts
<1>4. CASE Outside
  BY <1>4, OutsideFacts
<1>5. CASE \E r \in RRs : CreateCR(r) \/ EditSpec(r) \/ DeleteCR(r)
  BY <1>5, UserFacts
<1> QED BY <1>1, <1>2, <1>3, <1>4, <1>5, StepCases

LEMMA CacheLagsStep ==
  ASSUME ObjectsTyped, ObjectsTyped', CacheLags, [Next]_vars
  PROVE  CacheLags'
<1>t. \A r \in RRs : /\ rrset[r] \in Objects /\ rrset'[r] \in Objects
                     /\ listed[r] \in Objects /\ listed'[r] \in Objects
  BY DEF ObjectsTyped
<1>1. \A r \in RRs : Later(listed'[r], rrset'[r])
  BY <1>t, ReadFacts, ObjectsMoveOn, LaterReflexive, LaterTransitive DEF CacheLags
<1>2. \A r \in RRs : listed[r].gen <= listed'[r].gen
  BY <1>t, ReadFacts, FieldTypes DEF CacheLags, Later
<1>3. ASSUME pc' # "idle" PROVE Later(base', rrset'[cur']) /\ base'.gen <= listed'[cur'].gen
  <2>1. CASE pc # "idle" /\ UNCHANGED <<cur, base>>
    <3>1. base \in Objects /\ base.gen \in Nat /\ listed[cur].gen \in Nat
          /\ listed'[cur].gen \in Nat /\ cur \in RRs
      BY <1>t, FieldTypes DEF ObjectsTyped
    <3>2. Later(base, rrset'[cur])
      BY <1>t, <2>1, <3>1, ObjectsMoveOn, LaterTransitive DEF CacheLags
    <3> QED BY <1>2, <2>1, <3>1, <3>2 DEF CacheLags
  <2>2. ASSUME NEW r \in RRs, BeginPass(r)
        PROVE  Later(base', rrset'[cur']) /\ base'.gen <= listed'[cur'].gen
    BY <1>t, <2>2, BeginFacts, FieldTypes DEF CacheLags
  <2> QED BY <1>3, <2>1, <2>2, ReadFacts
<1> QED BY <1>1, <1>3 DEF CacheLags

\* The status of an object is its old one, an empty one, or the one the pass
\* had prepared for it.
LEMMA StatusOrigin ==
  ASSUME ObjectsTyped, [Next]_vars, NEW r \in RRs
  PROVE  \/ rrset'[r].status = rrset[r].status \/ rrset'[r].status = NoStatus
         \/ pc = "status" /\ r = cur /\ listed' = listed /\ rrset'[r].status = todo
<1>1. CASE Writes
  BY <1>1, WriteFacts DEF Keeps, Ends, Restates
<1>2. ASSUME NEW y \in RRs, CreateCR(y) \/ EditSpec(y) \/ DeleteCR(y)
      PROVE  rrset'[r].status = rrset[r].status \/ rrset'[r].status = NoStatus
  BY <1>2, UserFacts DEF UserEdit, Keeps, Respecifies, Starts, Ends
<1> QED BY <1>1, <1>2, StepCases, CallFacts, OutsideFacts, BeginFacts DEF Refresh

LEMMA ObservedWasCachedStep ==
  ASSUME ObjectsTyped, ObjectsTyped', CacheLags, ObservedWasCached, [Next]_vars
  PROVE  ObservedWasCached'
<1>t. \A r \in RRs : /\ rrset[r] \in Objects /\ rrset'[r] \in Objects
                     /\ listed[r] \in Objects /\ listed'[r] \in Objects
  BY DEF ObjectsTyped
<1>b. /\ cur \in RRs /\ base \in Objects /\ base.gen \in Nat /\ base.status.obs \in Nat
      /\ todo.obs \in Nat
  BY FieldTypes DEF ObjectsTyped, Statuses
<1>1. ASSUME NEW r \in RRs
      PROVE  rrset'[r].status.obs <= listed'[r].gen /\ listed'[r].status.obs <= listed'[r].gen
  <2>1. /\ listed[r].gen \in Nat /\ rrset[r].gen \in Nat /\ rrset[r].status.obs \in Nat
        /\ listed[r].status.obs \in Nat /\ NoStatus.obs = 0
    BY <1>t, FieldTypes, GoneFacts
  <2>2. /\ rrset[r].status.obs <= listed[r].gen /\ listed[r].status.obs <= listed[r].gen
        /\ listed[r].gen <= rrset[r].gen
    BY DEF ObservedWasCached, CacheLags, Later
  <2>3. CASE listed' = rrset /\ rrset' = rrset
    BY <2>1, <2>2, <2>3
  <2>4. CASE listed' = listed
    <3>1. pc = "status" /\ r = cur => todo.obs <= listed[r].gen
      BY <1>b, <2>1 DEF ObservedWasCached, CacheLags
    <3> QED BY <2>1, <2>2, <2>4, <3>1, StatusOrigin
  <2> QED BY <2>3, <2>4, ReadFacts
<1>2. ASSUME pc' # "idle" PROVE base'.status.obs <= base'.gen
  <2>1. ASSUME NEW r \in RRs, BeginPass(r) PROVE base'.status.obs <= base'.gen
    BY <2>1, BeginFacts DEF ObservedWasCached
  <2> QED BY <1>2, <2>1, ReadFacts DEF ObservedWasCached
<1>3. ASSUME pc' = "status" PROVE todo'.obs <= base'.gen
  <2>1. CASE Calls
    <3>1. base' = base /\ todo' \in {NotReady(base), Applied(base)} /\ pc # "idle"
      BY <1>3, <2>1, CallFacts DEF Ended
    <3>2. NotReady(base).obs = base.status.obs /\ Applied(base).obs = base.gen
      BY <1>b, StatusFacts
    <3>3. base.status.obs <= base.gen /\ base.gen <= base.gen
      BY <1>b, <3>1 DEF ObservedWasCached
    <3> QED BY <3>1, <3>2, <3>3
  <2>2. ASSUME NEW r \in RRs, BeginPass(r) PROVE todo'.obs <= base'.gen
    <3>1. base' = listed[r] /\ listed[r] \in Objects
      BY <1>t, <2>2, BeginFacts
    <3>2. todo' \in {NotReady(listed[r]), [listed[r].status EXCEPT !.reason = "Conflict"]}
      BY <1>3, <2>2, BeginFacts
    <3>3. /\ NotReady(listed[r]).obs = listed[r].status.obs
          /\ [listed[r].status EXCEPT !.reason = "Conflict"].obs = listed[r].status.obs
      BY <3>1, StatusFacts
    <3>4. todo'.obs = listed[r].status.obs
      BY <3>2, <3>3
    <3> QED BY <3>1, <3>4 DEF ObservedWasCached
  <2>3. CASE UNCHANGED <<pc, base, todo>>
    BY <1>3, <2>3 DEF ObservedWasCached
  <2> QED BY <1>3, <2>1, <2>2, <2>3, StepCases, WriteFacts, OutsideFacts, UserFacts
          DEF Refresh, passVars, Ended
<1> QED BY <1>1, <1>2, <1>3 DEF ObservedWasCached

-------------------------------------------------------------------------------
(* Applied RRSets *)

\* An RRSet that is Applied for its current spec is in the cache, and live.
LEMMA AppliedIsListed ==
  ASSUME ObjectsTyped, CacheLags, ObservedWasCached, NEW o \in RRs, AppliedLive(o)
  PROVE  listed[o].up /\ ~listed[o].deleting
<1>1. listed[o].gen \in Nat /\ rrset[o].gen \in Nat
  BY FieldTypes DEF ObjectsTyped
<1>2. listed[o].gen = rrset[o].gen
  BY <1>1 DEF AppliedLive, AppliedNow, ObservedWasCached, CacheLags, Later
<1> QED BY <1>2 DEF AppliedLive, AppliedNow, CacheLags, Later

\* An RRSet only becomes Applied by a pass that was applying it, and one that
\* stays Applied was not edited.
LEMMA AppliedOrigin ==
  ASSUME ObjectsTyped, CacheLags, ObservedWasCached, [Next]_vars,
         NEW o \in RRs, AppliedLive(o)'
  PROVE  \/ AppliedLive(o) /\ rrset'[o].gen = rrset[o].gen /\ rrset'[o].value = rrset[o].value
         \/ /\ Writes /\ o = cur /\ pc = "status" /\ todo.reason = "Applied"
            /\ rrset[o] = base /\ rrset'[o].value = base.value
<1>a. rrset'[o].up /\ rrset'[o].status.reason = "Applied" /\ rrset'[o].status.obs = rrset'[o].gen
      /\ ~rrset'[o].deleting
  BY DEF AppliedLive, AppliedNow
<1>g. /\ rrset[o].gen \in Nat /\ rrset[o].status.obs \in Nat /\ listed[o].gen \in Nat
      /\ rrset[o].deleting \in BOOLEAN /\ NoStatus.reason # "Applied"
  BY FieldTypes, GoneFacts DEF ObjectsTyped
<1> DEFINE Stays == AppliedLive(o) /\ rrset'[o].gen = rrset[o].gen /\ rrset'[o].value = rrset[o].value
<1>1. rrset'[o] = rrset[o] \/ Keeps(rrset[o], rrset'[o]) => Stays
  BY <1>a, <1>g DEF Keeps, AppliedLive, AppliedNow
<1>2. ~Starts(rrset[o], rrset'[o]) /\ ~Ends(rrset[o], rrset'[o])
  BY <1>a, <1>g DEF Starts, Ends
<1>3. ~Respecifies(rrset[o], rrset'[o])
  BY <1>a, <1>g DEF Respecifies, ObservedWasCached, CacheLags, Later
<1> HIDE DEF Stays
<1>4. CASE Writes
  <2>1. CASE o = cur /\ pc = "status" /\ rrset[o] = base /\ Restates(rrset[o], rrset'[o], todo)
    BY <1>a, <1>4, <2>1 DEF Restates
  <2>2. rrset'[o] = rrset[o] \/ Keeps(rrset[o], rrset'[o]) \/ Ends(rrset[o], rrset'[o])
        \/ (o = cur /\ pc = "status" /\ rrset[o] = base /\ Restates(rrset[o], rrset'[o], todo))
    BY <1>4, WriteFacts
  <2> QED BY <1>1, <1>2, <2>1, <2>2 DEF Stays
<1>5. ASSUME NEW y \in RRs, CreateCR(y) \/ EditSpec(y) \/ DeleteCR(y) PROVE Stays
  BY <1>1, <1>2, <1>3, <1>5, UserFacts DEF UserEdit
<1>6. rrset' = rrset \/ Writes \/ \E y \in RRs : CreateCR(y) \/ EditSpec(y) \/ DeleteCR(y)
  BY StepCases, CallFacts, OutsideFacts, BeginFacts DEF Refresh
<1> QED BY <1>1, <1>4, <1>5, <1>6 DEF Stays

LEMMA SoleApplierStep ==
  ASSUME ObjectsTyped, CacheLags, ObservedWasCached, SoleApplier, [Next]_vars
  PROVE  SoleApplier'
<1> SUFFICES ASSUME Applying' \/ pc' = "delete", NEW o \in RRs, Key(o) = Key(cur'), AppliedLive(o)',
                    o # cur' \/ pc' = "delete"
             PROVE  FALSE
  BY DEF SoleApplier, Key
<1>1. CASE Writes
  BY <1>1, WriteFacts DEF Applying, Ended
<1>2. AppliedLive(o) \/ Writes
  BY AppliedOrigin
<1>3. CASE (Applying \/ pc = "delete") /\ cur' = cur /\ (pc' = "delete" => pc = "delete")
  BY <1>1, <1>2, <1>3 DEF SoleApplier
<1>4. CASE Calls
  BY <1>3, <1>4, CallFacts DEF Ended, Applying
<1>5. ASSUME NEW r \in RRs, BeginPass(r) PROVE FALSE
  <2>1. cur' = r /\ listed[r] \in Objects
    BY <1>5, BeginFacts DEF ObjectsTyped
  <2>2. pc' \in {"get", "patch", "delete"}
    BY <1>5, <2>1, BeginFacts, StatusFacts DEF Applying
  <2>3. o \notin Rivals(r) /\ (pc' = "delete" => listed[r].deleting)
    BY <1>5, <2>2, BeginFacts
  <2>4. listed[o].up /\ ~listed[o].deleting
    BY <1>1, <1>2, AppliedIsListed
  <2> QED BY <2>1, <2>3, <2>4 DEF Rivals
<1>6. CASE UNCHANGED <<pc, cur, todo>>
  BY <1>3, <1>6 DEF Applying
<1> QED BY <1>1, <1>4, <1>5, <1>6, StepCases, OutsideFacts, UserFacts DEF Refresh, passVars

LEMMA AtMostOneStep ==
  ASSUME ObjectsTyped, CacheLags, ObservedWasCached, SoleApplier, AtMostOneApplied, [Next]_vars
  PROVE  AtMostOneApplied'
<1> SUFFICES ASSUME NEW r \in RRs, NEW o \in RRs, r # o, Key(r) = Key(o),
                    AppliedLive(r)', AppliedLive(o)'
             PROVE  FALSE
  BY DEF AtMostOneApplied, AppliedLive, AppliedNow, Key
<1>1. /\ AppliedLive(r) \/ (r = cur /\ Applying)
      /\ AppliedLive(o) \/ (o = cur /\ Applying)
  BY AppliedOrigin DEF Applying
<1>2. ~(AppliedLive(r) /\ AppliedLive(o))
  BY DEF AtMostOneApplied, AppliedLive
<1> QED BY <1>1, <1>2 DEF SoleApplier

LEMMA InitClaim == Init => ClaimInv
<1> SUFFICES ASSUME Init PROVE ClaimInv
  OBVIOUS
<1>0. /\ Gone(0) \in Objects /\ NoStatus \in Statuses /\ Gone(0).status = NoStatus
      /\ Gone(0).gen = 0 /\ ~Gone(0).up /\ NoStatus.obs = 0
  BY GoneFacts
<1>1. ObjectsTyped
  BY <1>0 DEF Init, ObjectsTyped
<1>2. CacheLags
  BY <1>0, LaterReflexive DEF Init, CacheLags
<1>3. ObservedWasCached
  BY <1>0 DEF Init, ObservedWasCached
<1>4. SoleApplier /\ AtMostOneApplied
  BY <1>0 DEF Init, SoleApplier, Applying, AtMostOneApplied, AppliedNow
<1> QED BY <1>1, <1>2, <1>3, <1>4 DEF ClaimInv

LEMMA ClaimStep == ClaimInv /\ [Next]_vars => ClaimInv'
BY TypedStep, CacheLagsStep, ObservedWasCachedStep, SoleApplierStep, AtMostOneStep DEF ClaimInv

\* Two live claimants of one name and type are never both Applied, whatever the
\* cache shows of the other when each of them decides (findConflict,
\* rrset_controller.go:208).
THEOREM OneClaimant == Spec => []AtMostOneApplied
<1>1. ClaimInv => AtMostOneApplied
  BY DEF ClaimInv
<1> QED BY <1>1, InitClaim, ClaimStep, PTL DEF Spec

-------------------------------------------------------------------------------
(* Counting *)

\* Positions up to n at which s has c.
Places(s, n, c) == {j \in 1..n : s[j] = c}

\* What takes the place of induction: a set of naturals has a least element.
LEMMA LeastNatural ==
  ASSUME NEW T, T \subseteq Nat, T # {}
  PROVE  \E x \in T : \A y \in T : x <= y
<1> DEFINE R == {ss \in Nat \X Nat : ss[1] < ss[2]}
<1>1. IsWellFoundedOn(R, Nat)
  BY NatLessThanWellFounded DEF OpToRel
<1> HIDE DEF R
<1>2. PICK x \in T : \A y \in T : ~(<<y, x>> \in R)
  BY <1>1, WFMin
<1>3. ASSUME NEW y \in T PROVE x <= y
  <2>1. x \in Nat /\ y \in Nat /\ <<y, x>> \in Nat \X Nat /\ <<y, x>> \notin R
    BY <1>2
  <2>2. ~(y < x)
    BY <2>1 DEF R
  <2> QED BY <2>1, <2>2
<1> QED BY <1>3

LEMMA PlacesFacts ==
  ASSUME NEW s, NEW n \in Nat, NEW c
  PROVE  /\ IsFiniteSet(Places(s, n, c)) /\ Cardinality(Places(s, n, c)) \in Nat
         /\ Places(s, 0, c) = {} /\ Cardinality(Places(s, 0, c)) = 0
         /\ n > 0 => Cardinality(Places(s, n, c)) =
              Cardinality(Places(s, n - 1, c)) + (IF s[n] = c THEN 1 ELSE 0)
<1>1. ASSUME NEW m \in Nat
      PROVE  IsFiniteSet(Places(s, m, c)) /\ Cardinality(Places(s, m, c)) \in Nat
  <2>1. IsFiniteSet(1..m) /\ Places(s, m, c) \in SUBSET (1..m)
    BY FS_Interval DEF Places
  <2>2. IsFiniteSet(Places(s, m, c))
    BY <2>1, FS_Subset
  <2> QED BY <2>2, FS_CardinalityType
<1>2. Places(s, 0, c) = {}
  BY DEF Places
<1>3. Cardinality(Places(s, 0, c)) = 0
  BY <1>2, FS_EmptySet
<1>4. ASSUME n > 0
      PROVE  Cardinality(Places(s, n, c)) =
               Cardinality(Places(s, n - 1, c)) + (IF s[n] = c THEN 1 ELSE 0)
  <2>1. n - 1 \in Nat /\ IsFiniteSet(Places(s, n - 1, c)) /\ n \notin Places(s, n - 1, c)
    BY <1>1, <1>4 DEF Places
  <2>2. CASE s[n] = c
    <3>1. Places(s, n, c) = Places(s, n - 1, c) \cup {n}
      BY <1>4, <2>2 DEF Places
    <3> QED BY <2>1, <2>2, <3>1, FS_AddElement
  <2>3. CASE s[n] # c
    <3>1. Places(s, n, c) = Places(s, n - 1, c)
      BY <1>4, <2>3 DEF Places
    <3>2. Cardinality(Places(s, n - 1, c)) \in Nat
      BY <1>1, <2>1
    <3> QED BY <2>3, <3>1, <3>2
  <2> QED BY <2>2, <2>3
<1> QED BY <1>1, <1>2, <1>3, <1>4

\* If every place of c has other than m places of c before it, there are at most
\* m of them.
LEMMA NeverPast ==
  ASSUME NEW s, NEW n \in Nat, NEW c, NEW m \in Nat,
         \A i \in 1..n : s[i] = c => Cardinality(Places(s, i - 1, c)) # m
  PROVE  Cardinality(Places(s, n, c)) <= m
<1> DEFINE T == {i \in 0..n : Cardinality(Places(s, i, c)) > m}
<1>1. SUFFICES ASSUME T # {} PROVE FALSE
  <2>1. n \notin T
    BY <1>1
  <2> QED BY <2>1, PlacesFacts
<1>2. PICK x \in T : \A y \in T : x <= y
  <2>1. T \subseteq Nat
    OBVIOUS
  <2> HIDE DEF T
  <2> QED BY <1>1, <2>1, LeastNatural
<1>3. x \in Nat /\ x <= n /\ Cardinality(Places(s, x, c)) > m
  BY <1>2
<1>4. x > 0
  BY <1>3, PlacesFacts
<1>5. x - 1 \in Nat /\ x - 1 \in 0..n /\ x - 1 \notin T
  BY <1>2, <1>3, <1>4
<1>6. Cardinality(Places(s, x - 1, c)) \in Nat /\ Cardinality(Places(s, x - 1, c)) <= m
  BY <1>5, PlacesFacts
<1>7. Cardinality(Places(s, x, c)) = Cardinality(Places(s, x - 1, c)) + (IF s[x] = c THEN 1 ELSE 0)
  BY <1>3, <1>4, PlacesFacts
<1>8. s[x] = c => Cardinality(Places(s, x - 1, c)) # m
  BY <1>3, <1>4
<1> QED BY <1>3, <1>6, <1>7, <1>8

\* Two sequences of one length: if one holds nothing more often than the other,
\* they hold everything equally often.
LEMMA SameLengthSameBag ==
  ASSUME NEW n \in Nat, NEW s, NEW t,
         \A c : Cardinality(Places(s, n, c)) <= Cardinality(Places(t, n, c))
  PROVE  \A c : Cardinality(Places(s, n, c)) = Cardinality(Places(t, n, c))
<1> SUFFICES ASSUME NEW e, Cardinality(Places(s, n, e)) # Cardinality(Places(t, n, e))
             PROVE  FALSE
  OBVIOUS
<1>f. \A c : /\ IsFiniteSet(Places(s, n, c)) /\ IsFiniteSet(Places(t, n, c))
             /\ Cardinality(Places(s, n, c)) \in Nat /\ Cardinality(Places(t, n, c)) \in Nat
  BY PlacesFacts
<1>n. /\ IsFiniteSet(1..n) /\ Cardinality(1..n) = n
      /\ \A c : Places(s, n, c) \subseteq 1..n /\ Places(t, n, c) \subseteq 1..n
  BY FS_Interval DEF Places
<1>1. ASSUME NEW c PROVE \E f : f \in Injection(Places(s, n, c), Places(t, n, c))
  <2>1. PICK g : g \in Bijection(1..Cardinality(Places(s, n, c)), Places(s, n, c))
    BY <1>f, FS_CardinalityType DEF ExistsBijection
  <2>2. PICK h : h \in Bijection(1..Cardinality(Places(t, n, c)), Places(t, n, c))
    BY <1>f, FS_CardinalityType DEF ExistsBijection
  <2> DEFINE a == Cardinality(Places(s, n, c))
             b == Cardinality(Places(t, n, c))
             f == [i \in Places(s, n, c) |-> h[CHOOSE k \in 1..a : g[k] = i]]
  <2>3. a \in Nat /\ b \in Nat /\ a <= b /\ 1..a \subseteq 1..b
    BY <1>f
  <2> HIDE DEF a, b
  <2>4. g \in [1..a -> Places(s, n, c)] /\ \A i \in Places(s, n, c) : \E k \in 1..a : g[k] = i
    BY <2>1 DEF Bijection, Surjection, Injection, a
  <2>5. h \in [1..b -> Places(t, n, c)] /\ \A k, l \in 1..b : h[k] = h[l] => k = l
    BY <2>2 DEF Bijection, Surjection, Injection, IsInjective, b
  <2>6. \A i \in Places(s, n, c) : LET k == CHOOSE k \in 1..a : g[k] = i IN k \in 1..a /\ g[k] = i
    BY <2>4
  <2>7. f \in [Places(s, n, c) -> Places(t, n, c)]
    BY <2>3, <2>5, <2>6
  <2>8. \A i, j \in Places(s, n, c) : f[i] = f[j] => i = j
    BY <2>3, <2>5, <2>6
  <2>9. f \in Injection(Places(s, n, c), Places(t, n, c))
    BY <2>7, <2>8 DEF Injection, IsInjective
  <2> QED BY <2>9
<1> DEFINE F(c) == CHOOSE f : f \in Injection(Places(s, n, c), Places(t, n, c))
           G == [i \in 1..n |-> F(s[i])[i]]
<1>2. \A c : F(c) \in Injection(Places(s, n, c), Places(t, n, c))
  BY <1>1
<1>3. F(e) \notin Surjection(Places(s, n, e), Places(t, n, e))
  BY <1>2, <1>f, FS_Injection
<1> HIDE DEF F
<1>4. \A c : F(c) \in [Places(s, n, c) -> Places(t, n, c)]
             /\ \A i, j \in Places(s, n, c) : F(c)[i] = F(c)[j] => i = j
  BY <1>2 DEF Injection, IsInjective
<1>5. PICK q \in Places(t, n, e) : \A i \in Places(s, n, e) : F(e)[i] # q
  BY <1>3, <1>4 DEF Surjection
<1>6. \A i \in 1..n : i \in Places(s, n, s[i]) /\ G[i] \in Places(t, n, s[i])
  BY <1>4 DEF Places
<1>7. \A i \in 1..n : G[i] \in 1..n /\ t[G[i]] = s[i]
  BY <1>6 DEF Places
<1>8. \A i \in 1..n : G[i] # q
  <2> SUFFICES ASSUME NEW i \in 1..n, G[i] = q PROVE FALSE
    OBVIOUS
  <2>1. t[q] = e /\ s[i] = e
    BY <1>5, <1>7 DEF Places
  <2>2. i \in Places(s, n, e) /\ F(e)[i] = q
    BY <1>6, <2>1
  <2> QED BY <1>5, <2>2
<1>9. \A i, j \in 1..n : G[i] = G[j] => i = j
  <2> SUFFICES ASSUME NEW i \in 1..n, NEW j \in 1..n, G[i] = G[j] PROVE i = j
    OBVIOUS
  <2>1. s[i] = s[j]
    BY <1>7
  <2>2. i \in Places(s, n, s[i]) /\ j \in Places(s, n, s[i]) /\ F(s[i])[i] = F(s[i])[j]
    BY <1>6, <2>1
  <2> QED BY <1>4, <2>2
<1>10. G \in Injection(1..n, (1..n) \ {q})
  BY <1>7, <1>8, <1>9 DEF Injection, IsInjective
<1>11. IsFiniteSet((1..n) \ {q}) /\ Cardinality((1..n) \ {q}) = n - 1
  <2>1. q \in 1..n
    BY <1>5, <1>n
  <2> QED BY <1>n, <2>1, FS_RemoveElement
<1> QED BY <1>n, <1>10, <1>11, FS_Injection

-------------------------------------------------------------------------------
(* Record sets *)

LEMMA DesiredFacts ==
  ASSUME NEW v \in Values
  PROVE  /\ desiredRRSet(v) \in RecordSets /\ desiredRRSet(v) # NoValue
         /\ desiredRRSet(v).records = v.records /\ v.records \in Seq(Contents)
<1>1. v \in RecordSets /\ v.records \in Seq(Contents)
  BY RRSetAssumption DEF RecordSets
<1>2. [v EXCEPT !.ttl = 3600] \in RecordSets /\ [v EXCEPT !.ttl = 3600].records = v.records
  BY <1>1 DEF RecordSets
<1> QED BY <1>1, <1>2, RRSetAssumption DEF desiredRRSet

LEMMA StoredFacts ==
  ASSUME NEW d \in RecordSets
  PROVE  /\ Stored(d) \in RecordSets /\ Stored(d).ttl = d.ttl
         /\ Len(Stored(d).records) = Len(d.records) /\ Len(d.records) \in Nat
         /\ \A i \in 1..Len(d.records) : Stored(d).records[i] = Canon[d.records[i]]
<1> DEFINE n == Len(d.records)
           c == [i \in 1..n |-> Canon[d.records[i]]]
<1>1. n \in Nat /\ \A i \in 1..n : d.records[i] \in Contents
  BY DEF RecordSets
<1>2. \A i \in 1..n : Canon[d.records[i]] \in Contents
  BY <1>1, RRSetAssumption
<1>3. c \in Seq(Contents) /\ Len(c) = n
  BY <1>1, <1>2
<1>4. Stored(d) = [d EXCEPT !.records = c]
  BY DEF Stored
<1> HIDE DEF c
<1>5. Stored(d) \in RecordSets /\ Stored(d).ttl = d.ttl /\ Stored(d).records = c
  BY <1>3, <1>4 DEF RecordSets
<1> QED BY <1>1, <1>3, <1>5 DEF c

LEMMA OccursIsPlaces ==
  ASSUME NEW s, Len(s) \in Nat
  PROVE  \A c : Occurs(s, c) = Cardinality(Places(s, Len(s), c))
BY DEF Occurs, Places

LEMMA OccursBefore ==
  ASSUME NEW s \in Seq(Contents), NEW i \in 1..Len(s)
  PROVE  \A c : Occurs(SubSeq(s, 1, i - 1), c) = Cardinality(Places(s, i - 1, c))
<1>1. Len(s) \in Nat /\ i \in Nat /\ i - 1 \in Nat /\ i - 1 <= Len(s)
  OBVIOUS
<1>2. /\ Len(SubSeq(s, 1, i - 1)) = i - 1
      /\ \A j \in 1..(i - 1) : SubSeq(s, 1, i - 1)[j] = s[j]
  BY <1>1
<1>3. \A c : {j \in 1..(i - 1) : SubSeq(s, 1, i - 1)[j] = c} = Places(s, i - 1, c)
  BY <1>2 DEF Places
<1> QED BY <1>2, <1>3 DEF Occurs

\* rrsetMatches does what it is for: the records it finds equal to the wanted
\* ones are these, each as often, whatever the order of the listing.
LEMMA MatchCounts ==
  ASSUME NEW t \in Seq(Contents), NEW d \in Seq(Contents), Len(t) = Len(d),
         \A i \in 1..Len(t) : Occurs(d, t[i]) # Occurs(SubSeq(t, 1, i - 1), t[i])
  PROVE  \A c : Occurs(t, c) = Occurs(d, c)
<1> DEFINE n == Len(t)
<1>1. n \in Nat /\ Len(d) = n
  OBVIOUS
<1>2. \A c : Occurs(t, c) = Cardinality(Places(t, n, c)) /\ Occurs(d, c) = Cardinality(Places(d, n, c))
  BY <1>1, OccursIsPlaces
<1>3. ASSUME NEW c
      PROVE  Cardinality(Places(t, n, c)) <= Cardinality(Places(d, n, c))
  <2>1. Cardinality(Places(d, n, c)) \in Nat
    BY <1>1, PlacesFacts
  <2>2. \A i \in 1..n : t[i] = c => Cardinality(Places(t, i - 1, c)) # Cardinality(Places(d, n, c))
    BY <1>2, OccursBefore
  <2> HIDE DEF n
  <2> QED BY <1>1, <2>1, <2>2, NeverPast
<1> HIDE DEF n
<1>4. \A c : Cardinality(Places(t, n, c)) = Cardinality(Places(d, n, c))
  BY <1>1, <1>3, SameLengthSameBag
<1> QED BY <1>2, <1>4

\* A content that occurs as often in one sequence as in another is in both.
LEMMA OccursSomewhere ==
  ASSUME NEW s, NEW t, Len(s) \in Nat, Len(t) \in Nat, NEW i \in 1..Len(s),
         Occurs(s, s[i]) = Occurs(t, s[i])
  PROVE  \E j \in 1..Len(t) : t[j] = s[i]
<1>0. IsFiniteSet(Places(s, Len(s), s[i])) /\ IsFiniteSet(Places(t, Len(t), s[i]))
  BY PlacesFacts
<1>1. Places(s, Len(s), s[i]) # {}
  BY DEF Places
<1>2. Cardinality(Places(s, Len(s), s[i])) # 0
  BY <1>0, <1>1, FS_EmptySet
<1>3. Cardinality(Places(t, Len(t), s[i])) # 0
  BY <1>2, OccursIsPlaces
<1>4. Places(t, Len(t), s[i]) # {}
  BY <1>3, FS_EmptySet
<1> QED BY <1>4 DEF Places

\* A record set that rrsetMatches accepts, in whatever order PowerDNS lists it,
\* is the one the RRSet asks for.
LEMMA MatchedIsServed ==
  ASSUME NEW v \in Values, NEW g \in Kept, NEW got \in Listings(g),
         rrsetMatches(got, desiredRRSet(v))
  PROVE  Serves(g, v)
<1> DEFINE d == desiredRRSet(v)
<1>1. d \in RecordSets /\ d.records \in Seq(Contents)
  BY DesiredFacts
<1>2. g # NoValue
  BY DEF Listings, rrsetMatches
<1>3. PICK w \in Values : g = Stored(desiredRRSet(w))
  BY <1>2 DEF Kept
<1>4. g \in RecordSets /\ g.records \in Seq(Contents) /\ Len(g.records) \in Nat
      /\ \A j \in 1..Len(g.records) : Canon[g.records[j]] = g.records[j]
  <2>1. desiredRRSet(w) \in RecordSets
    BY DesiredFacts
  <2>2. \A j \in 1..Len(desiredRRSet(w).records) : desiredRRSet(w).records[j] \in Contents
    BY <2>1 DEF RecordSets
  <2>3. g \in RecordSets
    BY <1>3, <2>1, StoredFacts
  <2>4. g.records \in Seq(Contents) /\ Len(g.records) \in Nat
    BY <2>3 DEF RecordSets
  <2> QED BY <1>3, <2>1, <2>2, <2>3, <2>4, StoredFacts, RRSetAssumption
<1>5. PICK t \in [1..Len(g.records) -> Contents] :
        got = [g EXCEPT !.records = t] /\ \A c \in Contents : Occurs(t, c) = Occurs(g.records, c)
  BY <1>2 DEF Listings
<1>6. t \in Seq(Contents) /\ Len(t) = Len(g.records)
  BY <1>4, <1>5
<1>7. got.records = t /\ got.ttl = g.ttl
  BY <1>4, <1>5 DEF RecordSets
<1>8. /\ g.ttl = d.ttl /\ Len(t) = Len(d.records)
      /\ \A i \in 1..Len(t) : Occurs(d.records, t[i]) # Occurs(SubSeq(t, 1, i - 1), t[i])
  BY <1>7 DEF rrsetMatches
<1> HIDE DEF d
<1>9. \A c : Occurs(t, c) = Occurs(d.records, c)
  BY <1>1, <1>6, <1>8, MatchCounts
<1>10. \A i \in 1..Len(t) : Canon[t[i]] = t[i]
  <2> SUFFICES ASSUME NEW i \in 1..Len(t) PROVE Canon[t[i]] = t[i]
    OBVIOUS
  <2>1. PICK q : q = g.records
    OBVIOUS
  <2>2. Len(t) \in Nat /\ Len(q) \in Nat /\ Occurs(t, t[i]) = Occurs(q, t[i])
    BY <1>4, <1>5, <1>6, <2>1
  <2>3. \E j \in 1..Len(q) : q[j] = t[i]
    BY ONLY <2>2, i \in 1..Len(t), OccursSomewhere
  <2> QED BY <1>4, <2>1, <2>3
<1>11. \A i \in 1..Len(d.records) : Canon[d.records[i]] = d.records[i]
  <2> SUFFICES ASSUME NEW i \in 1..Len(d.records) PROVE Canon[d.records[i]] = d.records[i]
    OBVIOUS
  <2>1. PICK q : q = d.records
    OBVIOUS
  <2>2. Len(t) \in Nat /\ Len(q) \in Nat /\ i \in 1..Len(q) /\ Occurs(q, q[i]) = Occurs(t, q[i])
    BY <1>4, <1>6, <1>8, <1>9, <2>1
  <2>3. \E j \in 1..Len(t) : t[j] = q[i]
    BY ONLY <2>2, OccursSomewhere
  <2> QED BY <1>10, <2>1, <2>3
<1>12. /\ Stored(d).ttl = d.ttl /\ Len(Stored(d).records) = Len(d.records)
       /\ \A i \in 1..Len(d.records) : Stored(d).records[i] = d.records[i]
  BY <1>1, <1>11, StoredFacts
<1>13. \A c : Occurs(Stored(d).records, c) = Occurs(d.records, c)
  <2>1. \A c : {i \in 1..Len(d.records) : Stored(d).records[i] = c} = {i \in 1..Len(d.records) : d.records[i] = c}
    BY <1>12
  <2> QED BY <1>12, <2>1 DEF Occurs
<1>14. /\ g.ttl = Stored(d).ttl
       /\ \A c \in Contents : Occurs(g.records, c) = Occurs(Stored(d).records, c)
  BY <1>5, <1>8, <1>9, <1>12, <1>13
<1> QED BY <1>2, <1>14 DEF Serves, d

LEMMA WrittenIsServed ==
  ASSUME NEW v \in Values
  PROVE  Written(desiredRRSet(v)) \in Kept /\ Serves(Written(desiredRRSet(v)), v)
<1>1. Written(desiredRRSet(v)) = Stored(desiredRRSet(v))
  BY DesiredFacts DEF Written
<1>2. Stored(desiredRRSet(v)) # NoValue
  BY DesiredFacts, StoredFacts, RRSetAssumption
<1> QED BY <1>1, <1>2 DEF Kept, Serves

-------------------------------------------------------------------------------
(* What is served *)

\* One call that writes: PowerDNS executes it, or refuses it, or may execute it
\* later.
LEMMA PatchFacts ==
  ASSUME RecordsTyped, NEW k \in Keys, NEW v, NEW a, Patch(k, v, a),
         v = NoValue \/ \E w \in Values : v = desiredRRSet(w)
  PROVE  /\ RecordsTyped' /\ hosted' = hosted /\ inflight \subseteq inflight'
         /\ \A j \in Keys \ {k} : recs'[j] = recs[j]
         /\ recs'[k] = recs[k] \/ (hosted /\ recs'[k] = Written(v))
         /\ a = "ok" => hosted /\ recs'[k] = Written(v)
<1>1. PICK o \in Outcomes(faults) :
        /\ a \in Seen(o, IF hosted THEN "ok" ELSE "notfound")
        /\ recs' = IF TakesEffect(o) /\ hosted THEN [recs EXCEPT ![k] = Written(v)] ELSE recs
        /\ inflight' = IF o = "late" THEN inflight \cup {<<k, v>>} ELSE inflight
        /\ UNCHANGED hosted
  BY DEF Patch
<1>2. recs \in [Keys -> Kept] /\ hosted \in BOOLEAN
  BY DEF RecordsTyped
<1>3. Written(v) \in Kept
  BY WrittenIsServed DEF Written, Kept
<1>4. recs' \in [Keys -> Kept]
  BY <1>1, <1>2, <1>3
<1>5. v \in {desiredRRSet(w) : w \in Values} \cup {NoValue}
  OBVIOUS
<1>6. RecordsTyped' /\ inflight \subseteq inflight'
  BY <1>1, <1>2, <1>4, <1>5 DEF RecordsTyped
<1>7. a = "ok" => o = "done" /\ hosted
  BY <1>1 DEF Seen
<1>8. a = "ok" => hosted /\ recs'[k] = Written(v)
  BY <1>1, <1>2, <1>7 DEF TakesEffect
<1> QED BY <1>1, <1>2, <1>6, <1>8

\* The value of a written call, and the two passes that write.
PatchPass == PatchRRSet \/ DeleteRRSet

LEMMA CurKey ==
  ASSUME ObjectsTyped
  PROVE  Key(cur) \in Keys
BY RRSetAssumption DEF ObjectsTyped, Key

LEMMA PatchPassFacts ==
  ASSUME ObjectsTyped, RecordsTyped, PatchPass
  PROVE  /\ RecordsTyped' /\ UNCHANGED <<hosted, foreign, disturbed, left>> /\ inflight \subseteq inflight'
         /\ pc \in {"patch", "delete"}
         /\ \A j \in Keys \ {Key(cur)} : recs'[j] = recs[j]
         /\ recs'[Key(cur)] = recs[Key(cur)] \/ pc = "delete"
            \/ (hosted /\ recs'[Key(cur)] = Written(desiredRRSet(base.value)))
         /\ pc' = "status" /\ todo'.reason = "Applied" =>
              hosted /\ recs'[Key(cur)] = Written(desiredRRSet(base.value))
<1>0. Key(cur) \in Keys /\ base \in Objects
  BY CurKey DEF ObjectsTyped
<1>1. CASE PatchRRSet
  <2>1. pc = "patch" /\ base.value \in Values /\ UNCHANGED <<foreign, disturbed, left>>
    BY <1>1 DEF PatchRRSet, ObjectsTyped, histVars
  <2>2. PICK a \in Answers : /\ Patch(Key(cur), desiredRRSet(base.value), a)
                             /\ Report(IF a = "ok" THEN Applied(base) ELSE NotReady(base))
    BY <1>1 DEF PatchRRSet
  <2>3. todo'.reason = "Applied" => a = "ok"
    BY <1>0, <2>2, StatusFacts DEF Report
  <2> QED BY <1>0, <2>1, <2>2, <2>3, PatchFacts
<1>2. CASE DeleteRRSet
  <2>1. pc = "delete" /\ pc' # "status" /\ UNCHANGED <<foreign, disturbed, left>>
    BY <1>2 DEF DeleteRRSet, Goto, Finish, histVars
  <2>2. PICK a \in Answers : Patch(Key(cur), NoValue, a)
    BY <1>2 DEF DeleteRRSet
  <2> QED BY <1>0, <2>1, <2>2, PatchFacts
<1> QED BY <1>1, <1>2 DEF PatchPass

\* Everything else that changes a record is seen in disturbed.
LEMMA DisturbFacts ==
  ASSUME RecordsTyped, disturbed \subseteq Keys,
         HostingChanges \/ (\E k \in Keys : ForeignChange(k)) \/ (\E q \in inflight : Land(q))
  PROVE  /\ RecordsTyped' /\ disturbed \subseteq disturbed' /\ disturbed' \subseteq Keys
         /\ UNCHANGED <<pc, cur, base, todo>>
         /\ \A k \in Keys \ disturbed' : hosted' = hosted /\ recs'[k] = recs[k]
         /\ foreign' = foreign + 1 \/ ~(inflight \subseteq inflight')
<1>0. recs \in [Keys -> Kept] /\ hosted \in BOOLEAN /\ NoValue \in Kept
  BY DEF RecordsTyped, Kept
<1>1. CASE HostingChanges
  <2>1. hosted' \in BOOLEAN /\ recs' \in [Keys -> Kept] /\ inflight' = inflight
    BY <1>0, <1>1 DEF HostingChanges
  <2> QED BY <1>1, <2>1 DEF HostingChanges, RecordsTyped, passVars
<1>2. ASSUME NEW k \in Keys, ForeignChange(k)
      PROVE  /\ RecordsTyped' /\ disturbed \subseteq disturbed' /\ disturbed' \subseteq Keys
             /\ UNCHANGED <<pc, cur, base, todo>> /\ foreign' = foreign + 1
             /\ \A j \in Keys \ disturbed' : hosted' = hosted /\ recs'[j] = recs[j]
  <2>1. /\ UNCHANGED <<pc, cur, base, todo, hosted, inflight>> /\ disturbed' = disturbed \cup {k}
        /\ foreign' = foreign + 1
    BY <1>2 DEF ForeignChange, passVars
  <2>2. PICK g \in Kept : recs' = [recs EXCEPT ![k] = g]
    BY <1>2 DEF ForeignChange
  <2>3. recs' \in [Keys -> Kept] /\ \A j \in Keys \ {k} : recs'[j] = recs[j]
    BY <1>0, <2>2
  <2> QED BY <2>1, <2>3 DEF RecordsTyped
<1>3. ASSUME NEW q \in inflight, Land(q)
      PROVE  /\ RecordsTyped' /\ disturbed \subseteq disturbed' /\ disturbed' \subseteq Keys
             /\ UNCHANGED <<pc, cur, base, todo>> /\ ~(inflight \subseteq inflight')
             /\ \A j \in Keys \ disturbed' : hosted' = hosted /\ recs'[j] = recs[j]
  <2>1. /\ UNCHANGED <<pc, cur, base, todo, hosted>> /\ disturbed' = disturbed \cup {q[1]}
        /\ inflight' = inflight \ {q}
        /\ recs' = IF hosted THEN [recs EXCEPT ![q[1]] = Written(q[2])] ELSE recs
    BY <1>3 DEF Land, passVars
  <2>2. q[1] \in Keys /\ (q[2] = NoValue \/ \E w \in Values : q[2] = desiredRRSet(w))
    BY DEF RecordsTyped
  <2>3. Written(q[2]) \in Kept
    BY <2>2, WrittenIsServed DEF Written, Kept
  <2>4. recs' \in [Keys -> Kept] /\ \A j \in Keys \ {q[1]} : recs'[j] = recs[j]
    BY <1>0, <2>1, <2>2, <2>3
  <2> QED BY <2>1, <2>2, <2>4 DEF RecordsTyped
<1> QED BY <1>1, <1>2, <1>3

Disturbs == HostingChanges \/ (\E k \in Keys : ForeignChange(k)) \/ \E q \in inflight : Land(q)

\* No other step touches PowerDNS.
LEMMA QuietFacts ==
  ASSUME [Next]_vars, ~Disturbs, ~PatchPass
  PROVE  UNCHANGED <<hosted, recs, inflight, disturbed>>
<1>1. CASE Calls
  BY <1>1 DEF Calls, GetZone, Crash, PatchPass, pdnsVars, histVars
<1>2. CASE Writes
  BY <1>2 DEF Writes, AddFinalizer, WriteStatus, Release, pdnsVars, histVars
<1>3. ASSUME NEW r \in RRs, BeginPass(r) PROVE UNCHANGED <<hosted, recs, inflight, disturbed>>
  BY <1>3 DEF BeginPass, BeginAddFinalizer, BeginNotReady, BeginConflict, BeginApply, BeginDelete,
       BeginYield, BeginAbandon, BeginDetach, Begin, pdnsVars, histVars
<1>4. CASE Refresh \/ Outside
  BY <1>4 DEF Refresh, Outside, Disturbs, ParentChanges, pdnsVars, histVars, vars
<1>5. ASSUME NEW r \in RRs, CreateCR(r) \/ EditSpec(r) \/ DeleteCR(r)
      PROVE  UNCHANGED <<hosted, recs, inflight, disturbed>>
  BY <1>5 DEF CreateCR, EditSpec, DeleteCR, pdnsVars, histVars
<1> QED BY <1>1, <1>2, <1>3, <1>4, <1>5, StepCases

\* A record that is not disturbed only changes by the pass that writes it.
LEMMA RecordFacts ==
  ASSUME ObjectsTyped, RecordsTyped, disturbed \subseteq Keys, [Next]_vars
  PROVE  /\ RecordsTyped' /\ disturbed \subseteq disturbed' /\ disturbed' \subseteq Keys
         /\ \A k \in Keys \ disturbed' :
              hosted' = hosted /\ (recs'[k] = recs[k] \/ (PatchPass /\ k = Key(cur)))
         /\ PatchPass \/ recs' = recs \/ foreign' = foreign + 1 \/ ~(inflight \subseteq inflight')
<1>1. CASE PatchPass
  BY <1>1, PatchPassFacts
<1>2. CASE Disturbs
  BY <1>2, DisturbFacts DEF Disturbs
<1>3. CASE ~Disturbs /\ ~PatchPass
  BY <1>3, QuietFacts DEF RecordsTyped
<1> QED BY <1>1, <1>2, <1>3

LEMMA AppliedFromCurrentStep ==
  ASSUME ClaimInv, AppliedFromCurrent, [Next]_vars
  PROVE  AppliedFromCurrent'
<1>0. ObjectsTyped /\ CacheLags /\ ObservedWasCached /\ cur \in RRs /\ cur' \in RRs
  BY TypedStep DEF ClaimInv, ObjectsTyped
<1> SUFFICES ASSUME pc' # "idle", NEW o \in RRs, o = cur', AppliedLive(o)'
             PROVE  base'.gen = rrset'[o].gen
  BY <1>0 DEF AppliedFromCurrent, AppliedLive, AppliedNow
<1>1. CASE pc # "idle" /\ UNCHANGED <<cur, base>>
  <2>1. ~Writes
    BY <1>0, WriteFacts DEF Ended
  <2>2. AppliedLive(o) /\ rrset'[o].gen = rrset[o].gen
    BY <1>0, <2>1, AppliedOrigin
  <2> QED BY <1>1, <2>2 DEF AppliedFromCurrent
<1>2. ASSUME NEW r \in RRs, BeginPass(r) PROVE base'.gen = rrset'[o].gen
  <2>1. o = r /\ base' = listed[r] /\ rrset' = rrset
    BY <1>2, BeginFacts
  <2>2. rrset[r].up /\ rrset[r].status.obs = rrset[r].gen
    BY <2>1 DEF AppliedLive, AppliedNow
  <2>3. listed[r].gen \in Nat /\ rrset[r].gen \in Nat
    BY <1>0, FieldTypes DEF ObjectsTyped
  <2> QED BY <1>0, <2>1, <2>2, <2>3 DEF ObservedWasCached, CacheLags, Later
<1> QED BY <1>0, <1>1, <1>2, ReadFacts

LEMMA ReportedIsServedStep ==
  ASSUME ClaimInv, RecordsTyped, disturbed \subseteq Keys, ReportedIsServed, [Next]_vars
  PROVE  ReportedIsServed'
<1>0. ObjectsTyped /\ cur \in RRs /\ base \in Objects /\ Key(cur) \in Keys
  BY CurKey DEF ClaimInv, ObjectsTyped
<1> SUFFICES ASSUME pc' = "status", todo'.reason = "Applied", Key(cur') \notin disturbed'
             PROVE  hosted' /\ Serves(recs'[Key(cur')], base'.value)
  BY DEF ReportedIsServed, Key, Serves
<1>1. CASE UNCHANGED <<pc, cur, base, todo>> /\ ~PatchPass
  <2>1. hosted' = hosted /\ recs'[Key(cur)] = recs[Key(cur)] /\ Key(cur) \notin disturbed
    BY <1>0, <1>1, RecordFacts
  <2> QED BY <1>1, <2>1 DEF ReportedIsServed
<1>2. CASE PatchPass
  <2>1. UNCHANGED <<cur, base>> /\ pc \in {"patch", "delete"}
    BY <1>0, <1>2, CallFacts, PatchPassFacts DEF PatchPass, Calls, Ended
  <2>2. hosted' /\ recs'[Key(cur)] = Written(desiredRRSet(base.value))
    <3>1. hosted' = hosted
      BY <1>0, <1>2, PatchPassFacts
    <3>2. hosted /\ recs'[Key(cur)] = Written(desiredRRSet(base.value))
      BY <1>0, <1>2, PatchPassFacts
    <3> QED BY <3>1, <3>2
  <2>3. base.value \in Values
    BY <1>0, <2>1 DEF ObjectsTyped
  <2> QED BY <2>1, <2>2, <2>3, WrittenIsServed
<1>3. CASE GetZone
  <2>1. pc = "get" /\ UNCHANGED <<hosted, recs, cur, base>>
    BY <1>3 DEF GetZone, pdnsVars, Report, Goto
  <2>2. todo' # NotReady(base)
    BY <1>0, StatusFacts
  <2>3. PICK got \in Listings(recs[Key(cur)]) :
          hosted /\ rrsetMatches(got, desiredRRSet(base.value))
    BY <1>3, <2>2 DEF GetZone, Report, Goto
  <2>4. base.value \in Values /\ recs[Key(cur)] \in Kept
    BY <1>0, <2>1 DEF ObjectsTyped, RecordsTyped
  <2> QED BY <2>1, <2>3, <2>4, MatchedIsServed
<1>4. ~(\E r \in RRs : BeginPass(r))
  <2> SUFFICES ASSUME NEW r \in RRs, BeginPass(r) PROVE FALSE
    OBVIOUS
  <2>1. listed[r] \in Objects
    BY <1>0 DEF ObjectsTyped
  <2> QED BY <2>1, BeginFacts, StatusFacts
<1>5. ~Writes /\ ~Crash
  BY <1>0, WriteFacts DEF Ended, Crash, Finish
<1>6. Calls => GetZone \/ PatchPass \/ Crash
  BY DEF Calls, PatchPass
<1> QED BY <1>0, <1>1, <1>2, <1>3, <1>4, <1>5, <1>6, StepCases, OutsideFacts, UserFacts
        DEF Refresh, passVars

LEMMA AppliedMeansServedStep ==
  ASSUME ClaimInv, RecordsTyped, disturbed \subseteq Keys, AppliedFromCurrent, ReportedIsServed,
         AppliedMeansServed, [Next]_vars
  PROVE  AppliedMeansServed'
<1>0. /\ ObjectsTyped /\ CacheLags /\ ObservedWasCached /\ SoleApplier
      /\ cur \in RRs /\ base \in Objects /\ Key(cur) \in Keys
  BY CurKey DEF ClaimInv, ObjectsTyped
<1> SUFFICES ASSUME NEW r \in RRs, AppliedLive(r)', Key(r) \notin disturbed'
             PROVE  hosted' /\ Serves(recs'[Key(r)], rrset'[r].value)
  BY DEF AppliedMeansServed, AppliedLive, AppliedNow, Key, Serves
<1>1. /\ Key(r) \in Keys /\ Key(r) \notin disturbed /\ hosted' = hosted
      /\ recs'[Key(r)] = recs[Key(r)] \/ (PatchPass /\ Key(r) = Key(cur))
  BY <1>0, RecordFacts, RRSetAssumption DEF Key
<1>2. CASE /\ Writes /\ r = cur /\ pc = "status" /\ todo.reason = "Applied"
           /\ rrset[r] = base /\ rrset'[r].value = base.value
  <2>1. ~PatchPass
    BY <1>2 DEF PatchPass, PatchRRSet, DeleteRRSet
  <2> QED BY <1>1, <1>2, <2>1 DEF ReportedIsServed
<1>3. CASE AppliedLive(r) /\ rrset'[r].gen = rrset[r].gen /\ rrset'[r].value = rrset[r].value
  <2>1. hosted /\ Serves(recs[Key(r)], rrset[r].value)
    BY <1>1, <1>3 DEF AppliedMeansServed, AppliedLive
  <2>2. CASE recs'[Key(r)] = recs[Key(r)]
    BY <1>1, <1>3, <2>1, <2>2
  <2>3. CASE PatchPass /\ Key(r) = Key(cur)
    <3>1. pc \in {"patch", "delete"}
      BY <1>0, <2>3, PatchPassFacts
    <3>2. pc = "patch" /\ r = cur
      BY <1>0, <1>3, <2>3, <3>1 DEF SoleApplier, Applying
    <3>3. base.gen = rrset[r].gen /\ rrset[r].up
      BY <1>3, <3>2 DEF AppliedFromCurrent, AppliedLive, AppliedNow
    <3>4. base.value = rrset[r].value /\ base.value \in Values
      BY <1>0, <3>2, <3>3 DEF CacheLags, Later, ObjectsTyped
    <3>5. recs'[Key(r)] = recs[Key(r)] \/ recs'[Key(r)] = Written(desiredRRSet(base.value))
      BY <1>0, <2>3, <3>2, PatchPassFacts
    <3> QED BY <1>1, <1>3, <2>1, <2>2, <3>4, <3>5, WrittenIsServed
  <2> QED BY <1>1, <2>2, <2>3
<1> QED BY <1>0, <1>2, <1>3, AppliedOrigin

LEMMA WritesFinalizedStep ==
  ASSUME ObjectsTyped, WritesFinalized, [Next]_vars
  PROVE  WritesFinalized'
<1>1. CASE Calls
  <2>1. \/ base' = base /\ (pc' = "patch" => pc \in {"get", "patch"}) /\ pc' \notin {"get", "delete"}
        \/ pc' = "idle"
    BY <1>1, CallFacts DEF Applying, Ended
  <2> QED BY <2>1 DEF WritesFinalized
<1>2. ASSUME NEW r \in RRs, BeginPass(r) PROVE WritesFinalized'
  BY <1>2, BeginFacts DEF WritesFinalized
<1>3. CASE pc' = "idle" \/ UNCHANGED <<pc, base>>
  BY <1>3 DEF WritesFinalized
<1> QED BY <1>1, <1>2, <1>3, StepCases, WriteFacts, OutsideFacts, UserFacts
        DEF Refresh, passVars, Ended

-------------------------------------------------------------------------------
(* The rest of the typing *)

LEMMA ChargeFacts ==
  ASSUME faults \in 0..MaxFaults, NEW o \in Outcomes(faults) \cup ReadOutcomes(faults)
  PROVE  Charge(faults, o) \in 0..MaxFaults
<1>1. MaxFaults \in Nat
  BY FaultAssumption
<1>2. o = "done" \/ faults < MaxFaults
  BY DEF Outcomes, ReadOutcomes
<1> QED BY <1>1, <1>2 DEF Charge

Stages == {"idle", "finalizer", "get", "patch", "status", "delete", "release", "yield",
           "abandon", "detach"}

LEMMA RestStep ==
  ASSUME ObjectsTyped, RecordsTyped, RestTyped, [Next]_vars
  PROVE  RestTyped'
<1>0. /\ zview \in ZoneStates /\ server \in ServerStates /\ pc \in Stages
      /\ faults \in 0..MaxFaults /\ foreign \in 0..MaxForeign
      /\ disturbed \subseteq Keys /\ left \subseteq Keys /\ Key(cur) \in Keys
  BY CurKey DEF RestTyped, Stages
<1>n. MaxForeign \in Nat /\ MaxFaults \in Nat
  BY RRSetAssumption, FaultAssumption
<1> SUFFICES /\ zview' \in ZoneStates /\ server' \in ServerStates /\ pc' \in Stages
             /\ faults' \in 0..MaxFaults /\ foreign' \in 0..MaxForeign
             /\ disturbed' \subseteq Keys /\ left' \subseteq Keys
  BY DEF RestTyped, Stages
<1>1. disturbed' \subseteq Keys
  BY <1>0, RecordFacts
<1>2. CASE Calls
  <2>1. UNCHANGED <<zview, server, foreign, left>>
    BY <1>2 DEF Calls, GetZone, PatchRRSet, DeleteRRSet, Crash, objVars, histVars
  <2>2. pc' \in Stages
    BY <1>2 DEF Calls, GetZone, PatchRRSet, DeleteRRSet, Crash, Goto, Report, Finish, Stages
  <2>3. (\E o \in Outcomes(faults) \cup ReadOutcomes(faults) : faults' = Charge(faults, o))
        \/ (faults < MaxFaults /\ faults' = faults + 1)
    BY <1>2 DEF Calls, GetZone, PatchRRSet, DeleteRRSet, Crash, Patch
  <2>4. faults' \in 0..MaxFaults
    BY <1>0, <1>n, <2>3, ChargeFacts
  <2> QED BY <1>0, <1>1, <2>1, <2>2, <2>4
<1>3. CASE Writes
  <2>1. UNCHANGED <<zview, server, foreign, faults>> /\ pc' \in Stages
    BY <1>3 DEF Writes, AddFinalizer, WriteStatus, Release, Finish, histVars, Stages
  <2>2. left' \in {left, left \cup {Key(cur)}, left \ {Key(cur)}}
    BY <1>3 DEF Writes, AddFinalizer, WriteStatus, Release, histVars
  <2> QED BY <1>0, <1>1, <2>1, <2>2
<1>4. ASSUME NEW r \in RRs, BeginPass(r)
      PROVE  UNCHANGED <<zview, server, foreign, faults, left>> /\ pc' \in Stages
  BY <1>4 DEF BeginPass, BeginAddFinalizer, BeginNotReady, BeginConflict, BeginApply, BeginDelete,
       BeginYield, BeginAbandon, BeginDetach, Begin, objVars, histVars, Stages
<1>5. CASE Refresh
  BY <1>0, <1>1, <1>5 DEF Refresh, passVars, histVars
<1>6. CASE Outside
  <2>1. UNCHANGED <<pc, faults, left>>
    BY <1>6 DEF Outside, ParentChanges, HostingChanges, ForeignChange, Land, passVars, vars
  <2>2. zview' \in ZoneStates /\ server' \in ServerStates
    BY <1>0, <1>6, RRSetAssumption
       DEF Outside, ParentChanges, HostingChanges, ForeignChange, Land, objVars, vars
  <2>3. foreign' = foreign \/ (foreign < MaxForeign /\ foreign' = foreign + 1)
    BY <1>6 DEF Outside, ParentChanges, HostingChanges, ForeignChange, Land, vars
  <2> QED BY <1>0, <1>1, <1>n, <2>1, <2>2, <2>3
<1>7. ASSUME NEW r \in RRs, CreateCR(r) \/ EditSpec(r) \/ DeleteCR(r)
      PROVE  UNCHANGED <<zview, server, foreign, faults, left, pc>>
  BY <1>7 DEF CreateCR, EditSpec, DeleteCR, passVars, histVars
<1> QED BY <1>0, <1>1, <1>2, <1>3, <1>4, <1>5, <1>6, <1>7, StepCases

LEMMA InitServed == Init => ServedInv /\ RestTyped
<1> SUFFICES ASSUME Init PROVE ServedInv /\ RestTyped
  OBVIOUS
<1>1. ClaimInv
  BY InitClaim
<1>2. RestTyped
  BY RRSetAssumption, FaultAssumption DEF Init, RestTyped
<1>3. RecordsTyped
  <2>1. zview \in ZoneStates /\ hosted = zview.ready
    BY RRSetAssumption DEF Init
  <2>2. hosted \in BOOLEAN
    BY <2>1 DEF ZoneStates
  <2> QED BY <2>2 DEF Init, RecordsTyped, Kept
<1>4. pc = "idle" /\ \A r \in RRs : ~rrset[r].up
  BY GoneFacts DEF Init
<1>5. AppliedFromCurrent /\ ReportedIsServed /\ WritesFinalized /\ AppliedMeansServed
  BY <1>4 DEF AppliedFromCurrent, ReportedIsServed, WritesFinalized, AppliedMeansServed, AppliedNow
<1> QED BY <1>1, <1>2, <1>3, <1>5 DEF ServedInv

LEMMA ServedStep == ServedInv /\ RestTyped /\ [Next]_vars => (ServedInv /\ RestTyped)'
<1> SUFFICES ASSUME ServedInv, RestTyped, [Next]_vars PROVE (ServedInv /\ RestTyped)'
  OBVIOUS
<1>0. ObjectsTyped /\ ClaimInv /\ RecordsTyped /\ disturbed \subseteq Keys
  BY DEF ServedInv, ClaimInv, RestTyped
<1> QED BY <1>0, ClaimStep, RecordFacts, WritesFinalizedStep, AppliedFromCurrentStep, RestStep,
           ReportedIsServedStep, AppliedMeansServedStep DEF ServedInv

\* The variables keep the types of the Go structures, for any RRSets, keys and
\* faults (rrset_controller.go:49).
THEOREM RRSetTypes == Spec => []TypeOK
<1>1. ServedInv /\ RestTyped => TypeOK
  BY DEF ServedInv, ClaimInv, ObjectsTyped, RecordsTyped, RestTyped, TypeOK
<1> QED BY <1>1, InitServed, ServedStep, PTL DEF Spec

\* What an Applied RRSet asks for is what PowerDNS serves, for any number of
\* claimants, record sets of any length in any listed order, and any faults
\* (findConflict, rrsetMatches and reconcileDelete, rrset_controller.go:147).
THEOREM Served == Spec => []AppliedMeansServed
<1>1. ServedInv => AppliedMeansServed
  BY DEF ServedInv
<1> QED BY <1>1, InitServed, ServedStep, PTL DEF Spec

\* A pass only ever changes the record its own RRSet claims, and only with the
\* finalizer in place (docs/managing-zones.md:69).
THEOREM Untouched == Spec => OthersRecordsUntouched
<1>1. ASSUME ServedInv, RestTyped, [Next]_vars
      PROVE  [\A k \in Keys : recs'[k] # recs[k] /\ foreign' = foreign /\ inflight \subseteq inflight'
                => pc # "idle" /\ Key(cur) = k /\ base.fin]_vars
  <2> SUFFICES ASSUME NEW k \in Keys, recs'[k] # recs[k], foreign' = foreign,
                      inflight \subseteq inflight'
               PROVE  pc # "idle" /\ Key(cur) = k /\ base.fin
    OBVIOUS
  <2>0. ObjectsTyped /\ RecordsTyped /\ disturbed \subseteq Keys /\ foreign \in Nat
    BY <1>1, RRSetAssumption DEF ServedInv, ClaimInv, RestTyped
  <2>1. PatchPass
    BY <1>1, <2>0, RecordFacts
  <2>2. pc \in {"patch", "delete"} /\ Key(cur) = k
    BY <2>0, <2>1, PatchPassFacts
  <2> QED BY <1>1, <2>2 DEF ServedInv, WritesFinalized
<1> QED BY <1>1, InitServed, ServedStep, PTL DEF Spec, OthersRecordsUntouched

===============================================================================

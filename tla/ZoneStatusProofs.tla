---------------------------- MODULE ZoneStatusProofs --------------------------
(***************************************************************************)
(* What a Zone's status is worth: a Zone that reports Ready for its        *)
(* current spec is served as that spec says, a DS record it has published  *)
(* stays valid, and its status does not go back to an older spec, not even *)
(* while two operator processes overlap (Handover).                        *)
(***************************************************************************)
EXTENDS Handover, ZoneProofs

(***************************************************************************)
(* A Zone that reports Ready for its current spec is served as that spec   *)
(* says, provided no two Zone resources share a zone name.  The argument:  *)
(* every pass works from a spec at least as new as the one last reported   *)
(* (ObservedWasCached), so while a Zone is Ready for its current spec a    *)
(* pass on it asks PowerDNS for nothing but that spec; and a pass reports  *)
(* Ready only after its steps have established it (Progress).  From there  *)
(* also: a published DS record stays valid (a zone never has two keys),    *)
(* and the placeholder SOA does not outlive the pass that created a zone.  *)
(***************************************************************************)

\* Where a promise can come from: the status write of a pass, nothing else.
LEMMA PromiseIsOld ==
  ASSUME TypeOK, CacheLags, ObservedWasCached, [Next]_vars, NEW z \in Zones, Promised(z)',
         ~(WriteStatus /\ Unmodified /\ z = cur)
  PROVE  /\ Promised(z)
         /\ zone'[z].meta = zone[z].meta /\ zone'[z].dnssec = zone[z].dnssec
         /\ zone'[z].status = zone[z].status
<1>0. zone[z] \in Objects /\ cached[z] \in Objects /\ zone[z].gen \in Nat /\ cur \in Zones
  BY StatusType DEF TypeOK
<1>p. /\ zone'[z].up /\ zone'[z].status.phase = "Ready" /\ zone'[z].status.obs = zone'[z].gen
      /\ zone'[z].deleting => zone'[z].orphan
  BY DEF Promised, ReadyNow
<1>1. CASE zone'[z] = zone[z]
  BY <1>1, <1>p DEF Promised, ReadyNow
<1>2. CASE AddFinalizer
  <2>1. zone'[z] = zone[z] \/ zone'[z] = [zone[z] EXCEPT !.fin = TRUE]
    BY <1>2 DEF AddFinalizer, TypeOK
  <2> QED BY <1>0, <1>p, <2>1 DEF Promised, ReadyNow, Objects
<1>3. CASE WriteStatus
  BY <1>0, <1>1, <1>3 DEF WriteStatus, TypeOK
<1>4. CASE Release
  BY <1>0, <1>1, <1>4, <1>p DEF Release, TypeOK, Gone
<1>5. ASSUME NEW y \in Zones, UserChanges(y), zone'[z] # zone[z]
      PROVE  \/ zone'[z] = [zone[z] EXCEPT !.deleting = TRUE] /\ ~zone[z].deleting
             \/ zone'[z] = Gone(zone[z].gen)
             \/ \E s \in Specs : zone'[z] = WithSpec(zone[z], s)
             \/ \E s \in Specs : zone'[z] = WithSpec(Gone(zone[z].gen), s)
  <2>1. CASE CreateCR(y)
    BY <1>5, <2>1 DEF CreateCR, TypeOK
  <2>2. CASE EditSpec(y)
    BY <1>5, <2>2 DEF EditSpec, TypeOK
  <2>3. CASE DeleteCR(y)
    BY <1>5, <2>3 DEF DeleteCR, TypeOK
  <2> QED BY <1>5, <2>1, <2>2, <2>3 DEF UserChanges
<1>6. zone'[z] # Gone(zone[z].gen)
  <2>1. ~Gone(zone[z].gen).up
    BY DEF Gone
  <2> QED BY <1>p, <2>1
<1>7. ASSUME NEW s \in Specs, zone'[z] = WithSpec(zone[z], s) PROVE FALSE
  <2>1. WithSpec(zone[z], s).gen = zone[z].gen + 1 /\ WithSpec(zone[z], s).status = zone[z].status
    BY <1>0 DEF WithSpec, Objects
  <2>2. zone[z].status.obs \in Nat /\ cached[z].gen \in Nat
    BY <1>0, StatusType DEF Statuses
  <2>3. zone[z].status.obs <= cached[z].gen /\ cached[z].gen <= zone[z].gen
    BY DEF CacheLags, ObservedWasCached, Later
  <2> QED BY <1>0, <1>p, <1>7, <2>1, <2>2, <2>3
<1>8. ASSUME NEW s \in Specs, zone'[z] = WithSpec(Gone(zone[z].gen), s) PROVE FALSE
  <2>1. WithSpec(Gone(zone[z].gen), s).status = NoStatus
    BY <1>0, GoneType DEF WithSpec, Gone, Objects
  <2>2. NoStatus.phase # "Ready"
    BY DEF NoStatus
  <2> QED BY <1>p, <1>8, <2>1, <2>2
<1>9. CASE zone'[z] = [zone[z] EXCEPT !.deleting = TRUE] /\ ~zone[z].deleting
  BY <1>0, <1>9, <1>p DEF Promised, ReadyNow, Objects
<1> QED BY <1>1, <1>2, <1>3, <1>4, <1>5, <1>6, <1>7, <1>8, <1>9, StepCases, CallsKeepObjects,
           OutsideKeepsObjects, BeginFacts DEF Refresh, objVars

\* While the Zone of a pass is Ready for its current spec, that is the spec the
\* pass has read.
LEMMA PassIsCurrent ==
  ASSUME TypeOK, CacheLags, ObservedWasCached, pc # "idle", ReadyNow(cur)
  PROVE  /\ zone[cur].meta = base.meta /\ zone[cur].dnssec = base.dnssec
         /\ zone[cur].orphan = base.orphan /\ (base.deleting => zone[cur].deleting)
<1>1. base \in Objects /\ cached[cur] \in Objects /\ zone[cur] \in Objects /\ cur \in Zones
  BY DEF TypeOK
<1>2. Later(base, zone[cur])
  BY <1>1, LaterTransitive DEF CacheLags
<1>3. zone[cur].gen <= base.gen
  BY DEF ReadyNow, ObservedWasCached
<1>4. zone[cur].gen = base.gen
  BY <1>1, <1>2, <1>3, StatusType DEF Later
<1> QED BY <1>2, <1>4 DEF Later, ReadyNow

-------------------------------------------------------------------------------
(* What the calls of a pass establish *)

\* Every status but that of a completed pass keeps the observed generation it
\* found, and is not Ready.
LEMMA UnfinishedStatus ==
  ASSUME NEW st \in Statuses
  PROVE  /\ Pending(st).obs = st.obs /\ Pending(st).phase # "Ready"
         /\ Unregistered(st).obs = st.obs /\ Unregistered(st).phase # "Ready"
         /\ Unsecured(st).obs = st.obs /\ Unsecured(st).phase # "Ready"
         /\ [Pending(st) EXCEPT !.reg = "True"].obs = st.obs
         /\ [Pending(st) EXCEPT !.reg = "True"].phase # "Ready"
         /\ [st EXCEPT !.phase = "Failed"].obs = st.obs
         /\ [st EXCEPT !.phase = "Failed"].phase # "Ready"
BY DEF Pending, Unregistered, Unsecured, Statuses

LEMMA ReconciledStatus ==
  ASSUME NEW o, NEW ds
  PROVE  Reconciled(o, ds).obs = o.gen /\ Reconciled(o, ds).ds = ds
BY DEF Reconciled

\* What each call does to the fields a zone is served by.
LEMMA CreateFields ==
  ASSUME NEW n, NEW a, NEW s, ~s.up
  PROVE  Effect(<<"create", n, a>>, s).up /\ Effect(<<"create", n, a>>, s).meta = a
<1>1. Effect(<<"create", n, a>>, s) = [Absent EXCEPT !.up = TRUE, !.meta = a]
  BY CreateEffect, Zenon
<1> DEFINE u == [Absent EXCEPT !.up = TRUE, !.meta = a]
<1>2. u.up /\ u.meta = a
  BY DEF Absent
<1> QED BY <1>1, <1>2, Zenon

LEMMA SeedFields ==
  ASSUME NEW n, NEW s \in StoredZones, s.up
  PROVE  /\ Effect(<<"seed", n, "">>, s).up
         /\ Effect(<<"seed", n, "">>, s).meta = s.meta
<1> DEFINE u == [s EXCEPT !.soa = "seeded"]
           e == Effect(<<"seed", n, "">>, s)
<1>1. e = u
  BY SeedEffect, Zenon
<1>2. u.up /\ u.meta = s.meta
  BY DEF StoredZones
<1> HIDE DEF e, u
<1>3. e.up /\ e.meta = s.meta
  BY <1>1, <1>2, Zenon
<1> QED BY <1>3, Zenon DEF e

LEMMA UpdateFields ==
  ASSUME NEW n, NEW a, NEW s \in StoredZones, s.up
  PROVE  /\ Effect(<<"update", n, a>>, s).up
         /\ Effect(<<"update", n, a>>, s).meta = a
         /\ Effect(<<"update", n, a>>, s).active = s.active
<1> DEFINE u == [s EXCEPT !.meta = a]
           e == Effect(<<"update", n, a>>, s)
<1>1. e = u
  BY UpdateEffect, Zenon
<1>2. u.up /\ u.meta = a /\ u.active = s.active
  BY DEF StoredZones
<1> HIDE DEF e, u
<1>3. e.up /\ e.meta = a /\ e.active = s.active
  BY <1>1, <1>2, Zenon
<1> QED BY <1>3, Zenon DEF e

LEMMA KeyOffFields ==
  ASSUME NEW n, NEW a, NEW s \in StoredZones, s.up
  PROVE  /\ Effect(<<"off", n, a>>, s).up
         /\ Effect(<<"off", n, a>>, s).meta = s.meta
         /\ Effect(<<"off", n, a>>, s).active = s.active \ {a}
<1> DEFINE u == [s EXCEPT !.active = s.active \ {a}]
           e == Effect(<<"off", n, a>>, s)
<1>1. e = u
  BY KeyOffEffect, Zenon
<1>2. u.up /\ u.meta = s.meta /\ u.active = s.active \ {a}
  BY DEF StoredZones
<1> HIDE DEF e, u
<1>3. e.up /\ e.meta = s.meta /\ e.active = s.active \ {a}
  BY <1>1, <1>2, Zenon
<1> QED BY <1>3, Zenon DEF e

LEMMA KeyOnFields ==
  ASSUME NEW n, NEW a, NEW s \in StoredZones, s.up, a \in s.keys
  PROVE  /\ Effect(<<"on", n, a>>, s).up
         /\ Effect(<<"on", n, a>>, s).meta = s.meta
         /\ Effect(<<"on", n, a>>, s).active = s.active \cup {a}
<1> DEFINE u == [s EXCEPT !.active = s.active \cup {a}, !.rect = FALSE]
           e == Effect(<<"on", n, a>>, s)
<1>1. e = u
  BY KeyOnEffect, Zenon
<1>2. u.up /\ u.meta = s.meta /\ u.active = s.active \cup {a}
  BY DEF StoredZones
<1> HIDE DEF e, u
<1>3. e.up /\ e.meta = s.meta /\ e.active = s.active \cup {a}
  BY <1>1, <1>2, Zenon
<1> QED BY <1>3, Zenon DEF e

LEMMA KeyOnForgotten ==
  ASSUME NEW n, NEW a, NEW s, a \notin s.keys
  PROVE  Effect(<<"on", n, a>>, s) = s
BY Zenon DEF Effect

LEMMA AddKeyFields ==
  ASSUME NEW n, NEW a, NEW s \in StoredZones, s.up
  PROVE  /\ Effect(<<"addkey", n, a>>, s).up
         /\ Effect(<<"addkey", n, a>>, s).meta = s.meta
         /\ Effect(<<"addkey", n, a>>, s).active = s.active \cup {a}
<1> DEFINE u == [s EXCEPT !.keys = s.keys \cup {a}, !.active = s.active \cup {a}, !.rect = FALSE]
           e == Effect(<<"addkey", n, a>>, s)
<1>1. e = u
  BY AddKeyEffect, Zenon
<1>2. u.up /\ u.meta = s.meta /\ u.active = s.active \cup {a}
  BY DEF StoredZones
<1> HIDE DEF e, u
<1>3. e.up /\ e.meta = s.meta /\ e.active = s.active \cup {a}
  BY <1>1, <1>2, Zenon
<1> QED BY <1>3, Zenon DEF e

LEMMA RectifyFields ==
  ASSUME NEW n, NEW s \in StoredZones, s.up
  PROVE  /\ Effect(<<"rectify", n, "">>, s).up
         /\ Effect(<<"rectify", n, "">>, s).meta = s.meta
         /\ Effect(<<"rectify", n, "">>, s).active = s.active
<1> DEFINE u == [s EXCEPT !.rect = TRUE]
           e == Effect(<<"rectify", n, "">>, s)
<1>1. e = u
  BY RectifyEffect, Zenon
<1>2. u.up /\ u.meta = s.meta /\ u.active = s.active
  BY DEF StoredZones
<1> HIDE DEF e, u
<1>3. e.up /\ e.meta = s.meta /\ e.active = s.active
  BY <1>1, <1>2, Zenon
<1> QED BY <1>3, Zenon DEF e

\* The pass reports an unfinished status.
Aborted == Report(todo') /\ todo'.phase # "Ready" /\ todo'.obs = base.status.obs

\* What a zone has to be for the pass to go on from "list".
Matching(s) == s.up /\ s.meta = base.meta

\* Each call by what it leaves behind: the zone it is about, and where the pass
\* is afterwards.
LEMMA CallOutcomes ==
  ASSUME TypeOK, PowerDNSCalls
  PROVE  LET s == store[Name(cur)]
             t == store'[Name(cur)]
         IN  \/ Aborted
             \/ pc' = "idle"
             \/ pc \in {"get", "adopt"} /\ t = s /\ s.up
                  /\ Goto(IF s.meta # base.meta THEN "update" ELSE "list")
             \/ pc = "get" /\ t = s /\ ~s.up /\ Goto("create")
             \/ pc = "create" /\ Goto("adopt")
             \/ pc = "create" /\ Matching(t) /\ (Goto("list") \/ Goto("seed"))
             \/ pc = "seed" /\ t.up /\ t.meta = s.meta /\ Goto("list")
             \/ pc = "seed" /\ (Goto("rollback") \/ Goto("compensate"))
             \/ pc = "rollback" /\ Goto("adopt")
             \/ pc = "update" /\ Matching(t) /\ Goto("list")
             \/ pc = "list" /\ t = s /\ s.up /\ AfterList(s.keys, s.active)
             \/ /\ pc = "deactivate" /\ UNCHANGED <<cur, base>>
                /\ t.up /\ t.meta = s.meta
                /\ s.active = active => t.active = active'
                /\ \/ pc' = "deactivate"
                   \/ pc' = "status" /\ active' = {} /\ todo' = Reconciled(base, {})
             \/ pc \in {"activate", "addkey"} /\ t.up /\ t.meta = s.meta /\ t.active # {}
                  /\ Goto("rectify")
             \/ pc = "rectify" /\ t.up /\ t.meta = s.meta /\ t.active = s.active /\ Goto("relist")
             \/ pc = "relist" /\ t = s /\ s.up /\ Report(Reconciled(base, s.active))
             \/ pc = "delete" /\ Goto("release")
<1> DEFINE n == Name(cur)
           s == store[n]
           t == store'[n]
<1>n. n \in Names /\ s \in StoredZones /\ base.status \in Statuses
  BY CurName, StatusType DEF TypeOK
<1>f. ASSUME NEW r, Fetch(n, r)
      PROVE  t = s /\ (r = "ok" => s.up) /\ (r = "notfound" => ~s.up)
  BY <1>f, <1>n, FetchType
<1>r. ASSUME NEW st, Report(st), st \in {Unregistered(base.status), Unsecured(base.status),
                                        [Pending(base.status) EXCEPT !.reg = "True"]}
      PROVE  Aborted
  BY <1>r, <1>n, UnfinishedStatus DEF Aborted, Report
<1>c. ASSUME NEW op, NEW a, Call(<<op, n, a>>, "ok")
      PROVE  t = Effect(<<op, n, a>>, s) /\ Reply(<<op, n, a>>, s) = "ok"
  BY <1>c, <1>n, CallChanges DEF TypeOK
<1>1. CASE GetZone
  BY <1>1, <1>f, <1>r DEF GetZone
<1>2. CASE Adopt
  BY <1>2, <1>f, <1>r DEF Adopt
<1>3. CASE CreateZone
  <2>1. PICK r \in Answers :
          /\ Call(<<"create", n, base.meta>>, r)
          /\ \/ r = "ok" /\ Goto(IF base.meta \in SecondaryMetas THEN "list" ELSE "seed")
             \/ r = "exists" /\ Goto("adopt")
             \/ r = "failed" /\ Report(Unregistered(base.status))
    BY <1>3 DEF CreateZone
  <2>2. ASSUME r = "ok" PROVE Matching(t)
    <3>0. Call(<<"create", n, base.meta>>, "ok")
      BY <2>1, <2>2, Zenon
    <3>1. t = Effect(<<"create", n, base.meta>>, s) /\ Reply(<<"create", n, base.meta>>, s) = "ok"
      BY <1>c, <3>0, Zenon
    <3>2. ~s.up
      BY <3>1, RequestReplies
    <3>3. t.up /\ t.meta = base.meta
      BY <3>1, <3>2, CreateFields
    <3> QED BY <3>3, Zenon DEF Matching
  <2> QED BY <1>3, <1>r, <2>1, <2>2 DEF CreateZone
<1>4. CASE SeedSOA
  <2>1. PICK r \in Answers :
          /\ Call(<<"seed", n, "">>, r)
          /\ Goto(CASE r = "ok" -> "list" [] r = "exists" -> "rollback" [] OTHER -> "compensate")
    BY <1>4 DEF SeedSOA
  <2>2. ASSUME r = "ok" PROVE t.up /\ t.meta = s.meta /\ Goto("list")
    <3>0. Call(<<"seed", n, "">>, "ok")
      BY <2>1, <2>2, Zenon
    <3>1. t = Effect(<<"seed", n, "">>, s) /\ Reply(<<"seed", n, "">>, s) = "ok"
      BY <1>c, <3>0, Zenon
    <3>2. s.up
      BY <3>1, RequestReplies
    <3>f. Effect(<<"seed", n, "">>, s).up /\ Effect(<<"seed", n, "">>, s).meta = s.meta
      BY <1>n, <3>2, SeedFields
    <3>3. t.up /\ t.meta = s.meta
      BY <3>1, <3>f, Zenon
    <3> QED BY <2>1, <2>2, <3>3
  <2>3. ASSUME r # "ok" PROVE Goto("rollback") \/ Goto("compensate")
    BY <2>1, <2>3
  <2> QED BY <1>4, <2>2, <2>3 DEF SeedSOA
<1>5. CASE Compensate
  BY <1>5, <1>r DEF Compensate
<1>6. CASE UpdateZone
  <2>1. PICK r \in Answers :
          /\ Call(<<"update", n, base.meta>>, r)
          /\ \/ r = "ok" /\ Goto("list")
             \/ r # "ok" /\ Report([Pending(base.status) EXCEPT !.reg = "True"])
    BY <1>6 DEF UpdateZone
  <2>2. ASSUME r = "ok" PROVE Matching(t)
    <3>0. Call(<<"update", n, base.meta>>, "ok")
      BY <2>1, <2>2, Zenon
    <3>1. t = Effect(<<"update", n, base.meta>>, s) /\ Reply(<<"update", n, base.meta>>, s) = "ok"
      BY <1>c, <3>0, Zenon
    <3>2. s.up
      BY <3>1, RequestReplies
    <3>3. t.up /\ t.meta = base.meta
      BY <1>n, <3>1, <3>2, UpdateFields
    <3> QED BY <3>3, Zenon DEF Matching
  <2> QED BY <1>6, <1>r, <2>1, <2>2 DEF UpdateZone
<1>7. CASE ListCryptokeys
  BY <1>7, <1>f, <1>r DEF ListCryptokeys
<1>8. CASE Deactivate
  <2>1. PICK k \in active, r \in Answers :
          /\ Call(<<"off", n, k>>, r)
          /\ \/ /\ r = "ok" /\ active' = active \ {k} /\ UNCHANGED <<cur, base, keys>>
                /\ IF active' = {} THEN pc' = "status" /\ todo' = Reconciled(base, {})
                                  ELSE UNCHANGED <<pc, todo>>
             \/ r # "ok" /\ Report(Unsecured(base.status))
    BY <1>8 DEF Deactivate
  <2>2. ASSUME r = "ok" PROVE t.up /\ t.meta = s.meta /\ t.active = s.active \ {k}
    <3>0. Call(<<"off", n, k>>, "ok")
      BY <2>1, <2>2, Zenon
    <3>1. t = Effect(<<"off", n, k>>, s) /\ Reply(<<"off", n, k>>, s) = "ok"
      BY <1>c, <3>0, Zenon
    <3>2. s.up
      BY <3>1, RequestReplies
    <3> QED BY <1>n, <3>1, <3>2, KeyOffFields
  <2> QED BY <1>8, <1>r, <2>1, <2>2 DEF Deactivate
<1>9. CASE Activate
  <2>1. PICK k \in keys, r \in Answers :
          /\ Call(<<"on", n, k>>, r)
          /\ IF r = "ok" THEN Goto("rectify") ELSE Report(Unsecured(base.status))
    BY <1>9 DEF Activate
  <2>2. ASSUME r = "ok" PROVE t.up /\ t.meta = s.meta /\ t.active # {}
    <3>0. Call(<<"on", n, k>>, "ok")
      BY <2>1, <2>2, Zenon
    <3>1. t = Effect(<<"on", n, k>>, s) /\ Reply(<<"on", n, k>>, s) = "ok"
      BY <1>c, <3>0, Zenon
    <3>2. s.up /\ k \in s.keys
      BY <3>1, RequestReplies
    <3>3. t.up /\ t.meta = s.meta /\ t.active = s.active \cup {k}
      BY <1>n, <3>1, <3>2, KeyOnFields
    <3> QED BY <3>3
  <2> QED BY <1>9, <1>r, <2>1, <2>2 DEF Activate
<1>10. CASE CreateCryptokey
  <2>1. PICK k \in {minted + 1}, r \in Answers :
          /\ Call(<<"addkey", n, k>>, r)
          /\ IF r = "ok" THEN Goto("rectify") ELSE Report(Unsecured(base.status))
    BY <1>10 DEF CreateCryptokey
  <2>2. ASSUME r = "ok" PROVE t.up /\ t.meta = s.meta /\ t.active # {}
    <3>0. Call(<<"addkey", n, k>>, "ok")
      BY <2>1, <2>2, Zenon
    <3>1. t = Effect(<<"addkey", n, k>>, s) /\ Reply(<<"addkey", n, k>>, s) = "ok"
      BY <1>c, <3>0, Zenon
    <3>2. s.up
      BY <3>1, RequestReplies
    <3>3. t.up /\ t.meta = s.meta /\ t.active = s.active \cup {k}
      BY <1>n, <3>1, <3>2, AddKeyFields
    <3> QED BY <3>3
  <2> QED BY <1>10, <1>r, <2>1, <2>2 DEF CreateCryptokey
<1>11. CASE RectifyZone
  <2>1. PICK r \in Answers :
          /\ Call(<<"rectify", n, "">>, r)
          /\ IF r = "ok" THEN Goto("relist") ELSE Report(Unsecured(base.status))
    BY <1>11 DEF RectifyZone
  <2>2. ASSUME r = "ok" PROVE t.up /\ t.meta = s.meta /\ t.active = s.active
    <3>0. Call(<<"rectify", n, "">>, "ok")
      BY <2>1, <2>2, Zenon
    <3>1. t = Effect(<<"rectify", n, "">>, s) /\ Reply(<<"rectify", n, "">>, s) = "ok"
      BY <1>c, <3>0, Zenon
    <3>2. s.up
      BY <3>1, RequestReplies
    <3>3. /\ Effect(<<"rectify", n, "">>, s).up
          /\ Effect(<<"rectify", n, "">>, s).meta = s.meta
          /\ Effect(<<"rectify", n, "">>, s).active = s.active
      BY <1>n, <3>2, RectifyFields
    <3> QED BY <3>1, <3>3, Zenon
  <2> QED BY <1>11, <1>r, <2>1, <2>2 DEF RectifyZone
<1>12. CASE RelistCryptokeys
  BY <1>12, <1>f, <1>r DEF RelistCryptokeys
<1>13. CASE DeleteZone
  BY <1>13 DEF DeleteZone, Finish
<1> QED BY <1>1, <1>2, <1>3, <1>4, <1>5, <1>6, <1>7, <1>8, <1>9, <1>10, <1>11, <1>12, <1>13
        DEF PowerDNSCalls

\* While the pass is Ready for its current spec, no call of it undoes what the
\* zone is served as.
LEMMA CallKeepsServed ==
  ASSUME TypeOK, CacheLags, ObservedWasCached, FinalizerHolds, Progress, CreatesUnpromised,
         Undisturbed, PowerDNSCalls, Promised(cur), Served(cur)
  PROVE  /\ store'[Name(cur)].up /\ store'[Name(cur)].meta = zone[cur].meta
         /\ (store'[Name(cur)].active # {}) = zone[cur].dnssec
         /\ zone[cur].status.ds \subseteq store'[Name(cur)].active
<1> DEFINE n == Name(cur)
           s == store[n]
           t == store'[n]
<1>n. n \in Names /\ s \in StoredZones /\ cur \in Zones /\ zone[cur] \in Objects /\ base \in Objects
  BY CurName DEF TypeOK
<1>s. s.up /\ s.meta = zone[cur].meta /\ (s.active # {}) = zone[cur].dnssec
      /\ zone[cur].status.ds \subseteq s.active
  BY DEF Served
<1>u. s.up
  BY <1>s
<1>b. zone[cur].meta = base.meta /\ zone[cur].dnssec = base.dnssec
      /\ zone[cur].orphan = base.orphan /\ (base.deleting => zone[cur].deleting) /\ pc # "idle"
  BY PassIsCurrent, CallsKeepObjects DEF Promised
<1>0. CASE store' = store
  BY <1>0, <1>s
<1>p. pc \notin {"create", "seed", "compensate", "rollback", "delete"}
  BY <1>b DEF CreatesUnpromised, FinalizerHolds, Promised
<1>c. ASSUME NEW op, NEW a, NEW r, Call(<<op, n, a>>, r)
      PROVE  t = s \/ t = Effect(<<op, n, a>>, s)
  BY <1>c, <1>n, CallChanges DEF TypeOK
<1>1. CASE UpdateZone
  <2>1. PICK r \in Answers : Call(<<"update", n, base.meta>>, r)
    BY <1>1 DEF UpdateZone
  <2>e. t = s \/ t = Effect(<<"update", n, base.meta>>, s)
    BY <1>c, <2>1, Zenon
  <2>2. t = s \/ (t.up /\ t.meta = base.meta /\ t.active = s.active)
    BY <1>n, <1>u, <2>e, UpdateFields
  <2> QED BY <1>s, <1>b, <2>2
<1>2. CASE Deactivate
  <2>1. PICK k \in active, r \in Answers : Call(<<"off", n, k>>, r)
    BY <1>2 DEF Deactivate
  <2>e. t = s \/ t = Effect(<<"off", n, k>>, s)
    BY <1>c, <2>1, Zenon
  <2>2. t = s \/ (t.up /\ t.meta = s.meta /\ t.active = s.active \ {k})
    BY <1>n, <1>u, <2>e, KeyOffFields
  <2>3. s.active = {}
    BY <1>2, <1>s, <1>b DEF Deactivate, Progress
  <2> QED BY <1>s, <2>2, <2>3
<1>3. CASE Activate
  <2>1. PICK k \in keys, r \in Answers : Call(<<"on", n, k>>, r)
    BY <1>3 DEF Activate
  <2>e. t = s \/ t = Effect(<<"on", n, k>>, s)
    BY <1>c, <2>1, Zenon
  <2>f. k \notin s.keys => Effect(<<"on", n, k>>, s) = s
    BY KeyOnForgotten
  <2>2. t = s \/ (t.up /\ t.meta = s.meta /\ t.active = s.active \cup {k})
    BY <1>n, <1>u, <2>e, <2>f, KeyOnFields
  <2>3. zone[cur].dnssec = TRUE
    BY <1>3, <1>b, <1>n DEF Activate, Progress, Objects
  <2>4. t.up /\ t.meta = s.meta /\ t.active # {} /\ s.active \subseteq t.active
    BY <1>s, <2>2, <2>3
  <2> QED BY <1>s, <2>3, <2>4
<1>4. CASE CreateCryptokey
  <2>1. PICK k \in {minted + 1}, r \in Answers : Call(<<"addkey", n, k>>, r)
    BY <1>4 DEF CreateCryptokey
  <2>e. t = s \/ t = Effect(<<"addkey", n, k>>, s)
    BY <1>c, <2>1, Zenon
  <2>2. t = s \/ (t.up /\ t.meta = s.meta /\ t.active = s.active \cup {k})
    BY <1>n, <1>u, <2>e, AddKeyFields
  <2>3. zone[cur].dnssec = TRUE
    BY <1>4, <1>b, <1>n DEF CreateCryptokey, Progress, Objects
  <2>4. t.up /\ t.meta = s.meta /\ t.active # {} /\ s.active \subseteq t.active
    BY <1>s, <2>2, <2>3
  <2> QED BY <1>s, <2>3, <2>4
<1>5. CASE RectifyZone
  <2>1. PICK r \in Answers : Call(<<"rectify", n, "">>, r)
    BY <1>5 DEF RectifyZone
  <2>e. t = s \/ t = Effect(<<"rectify", n, "">>, s)
    BY <1>c, <2>1, Zenon
  <2>f. /\ Effect(<<"rectify", n, "">>, s).up
        /\ Effect(<<"rectify", n, "">>, s).meta = s.meta
        /\ Effect(<<"rectify", n, "">>, s).active = s.active
    BY <1>n, <1>u, RectifyFields
  <2>2. t = s \/ (t.up /\ t.meta = s.meta /\ t.active = s.active)
    BY <2>e, <2>f, Zenon
  <2> QED BY <1>s, <2>2
<1>6. CASE GetZone \/ Adopt \/ ListCryptokeys \/ RelistCryptokeys
  BY <1>0, <1>6 DEF GetZone, Adopt, ListCryptokeys, RelistCryptokeys, Fetch
<1>7. ~(CreateZone \/ SeedSOA \/ Compensate \/ DeleteZone)
  BY <1>p DEF CreateZone, SeedSOA, Compensate, DeleteZone
<1> QED BY <1>1, <1>2, <1>3, <1>4, <1>5, <1>6, <1>7 DEF PowerDNSCalls

-------------------------------------------------------------------------------
(* The invariants *)

\* Where a status comes from.
LEMMA ObservedFrom ==
  ASSUME TypeOK, [Next]_vars, NEW z \in Zones
  PROVE  \/ zone'[z].status = zone[z].status
         \/ zone'[z].status = NoStatus
         \/ WriteStatus /\ z = cur /\ zone'[z].status = todo
<1>0. zone[z] \in Objects /\ todo \in Statuses /\ cur \in Zones /\ zone[z].gen \in Nat
  BY StatusType DEF TypeOK
<1>g. Gone(zone[z].gen).status = NoStatus
  BY DEF Gone
<1>1. CASE zone'[z] = zone[z]
  BY <1>1
<1>2. CASE AddFinalizer
  <2>1. zone'[z] = zone[z] \/ zone'[z] = [zone[z] EXCEPT !.fin = TRUE]
    BY <1>2 DEF AddFinalizer, TypeOK
  <2> QED BY <1>0, <2>1 DEF Objects
<1>3. CASE WriteStatus
  <2>1. zone'[z] = zone[z] \/ (z = cur /\ zone'[z] = [zone[z] EXCEPT !.status = todo])
    BY <1>3 DEF WriteStatus, TypeOK
  <2> QED BY <1>0, <1>3, <2>1 DEF Objects
<1>4. CASE Release
  BY <1>0, <1>1, <1>4, <1>g DEF Release, TypeOK
<1>5. ASSUME NEW y \in Zones, UserChanges(y), zone'[z] # zone[z]
      PROVE  zone'[z].status \in {zone[z].status, NoStatus}
  <2>1. CASE CreateCR(y)
    <3>1. PICK s \in Specs : zone'[z] = WithSpec(Gone(zone[z].gen), s)
      BY <1>5, <2>1 DEF CreateCR, TypeOK
    <3>2. WithSpec(Gone(zone[z].gen), s).status = NoStatus
      BY <1>0, <1>g, GoneType DEF WithSpec, Objects
    <3> QED BY <3>1, <3>2
  <2>2. CASE EditSpec(y)
    <3>1. PICK s \in Specs : zone'[z] = WithSpec(zone[z], s)
      BY <1>5, <2>2 DEF EditSpec, TypeOK
    <3>2. WithSpec(zone[z], s).status = zone[z].status
      BY <1>0 DEF WithSpec, Objects
    <3> QED BY <3>1, <3>2
  <2>3. CASE DeleteCR(y)
    <3>1. zone'[z] = [zone[z] EXCEPT !.deleting = TRUE] \/ zone'[z] = Gone(zone[z].gen)
      BY <1>5, <2>3 DEF DeleteCR, TypeOK
    <3> QED BY <1>0, <1>g, <3>1 DEF Objects
  <2> QED BY <1>5, <2>1, <2>2, <2>3 DEF UserChanges
<1> QED BY <1>1, <1>2, <1>3, <1>4, <1>5, StepCases, CallsKeepObjects,
           OutsideKeepsObjects, BeginFacts DEF Refresh, objVars

\* The status a pass is about to write never claims more than the pass read.
LEMMA ReportedIsRead ==
  ASSUME TypeOK, CacheLags, ObservedWasCached, [Next]_vars, pc' = "status"
  PROVE  todo'.obs <= base'.gen
<1>0. base \in Objects /\ base.gen \in Nat
  BY StatusType DEF TypeOK
<1>1. CASE pc = "status" /\ UNCHANGED <<base, todo>>
  BY <1>1 DEF ObservedWasCached
<1>2. CASE PowerDNSCalls
  <2>1. base' = base /\ pc # "idle"
    BY <1>2, CallsKeepObjects
  <2>2. Aborted \/ \E ds : todo' = Reconciled(base, ds)
    BY <1>2, CallOutcomes DEF Goto, AfterList, Report
  <2>3. todo'.obs = base.status.obs \/ todo'.obs = base.gen
    BY <2>2, ReconciledStatus DEF Aborted
  <2> QED BY <1>0, <2>1, <2>3 DEF ObservedWasCached
<1>3. ASSUME NEW z \in Zones, BeginPass(z) PROVE todo'.obs <= base'.gen
  <2>1. base' = cached[z] /\ cached[z].status \in Statuses
    BY <1>3, BeginFacts, StatusType DEF TypeOK
  <2>2. todo' = Pending(cached[z].status) \/ todo' = [cached[z].status EXCEPT !.phase = "Failed"]
    BY <1>3 DEF BeginPass, BeginAddFinalizer, BeginInvalid, BeginNotReady, BeginZone,
                BeginDelete, BeginDetach, Begin
  <2> QED BY <2>1, <2>2, UnfinishedStatus DEF ObservedWasCached
<1>4. CASE Crash \/ AddFinalizer \/ WriteStatus \/ Release
  BY <1>4 DEF Crash, AddFinalizer, WriteStatus, Release, Finish
<1>5. CASE Refresh \/ OutsideChanges \/ \E z \in Zones : UserChanges(z)
  BY <1>1, <1>5, OutsideKeepsObjects DEF Refresh, UserChanges, CreateCR, EditSpec, DeleteCR, passVars
<1> QED BY <1>2, <1>3, <1>4, <1>5, StepCases

LEMMA ObservedWasCachedStep ==
  ASSUME TypeOK, TypeOK', CacheLags, ObservedWasCached, [Next]_vars
  PROVE  ObservedWasCached'
<1>t. /\ \A z \in Zones : /\ zone[z].status.obs \in Nat /\ zone'[z].status.obs \in Nat
                           /\ cached[z].gen \in Nat /\ cached'[z].gen \in Nat /\ zone[z].gen \in Nat
                           /\ cached[z].status.obs \in Nat
      /\ todo.obs \in Nat /\ base.gen \in Nat /\ cur \in Zones /\ NoStatus.obs = 0
  <2>1. \A st \in Statuses : st.obs \in Nat
    BY DEF Statuses
  <2>2. /\ \A z \in Zones : zone[z] \in Objects /\ zone'[z] \in Objects
                            /\ cached[z] \in Objects /\ cached'[z] \in Objects
        /\ todo \in Statuses /\ base \in Objects /\ cur \in Zones
    BY DEF TypeOK
  <2> QED BY <2>1, <2>2, StatusType DEF NoStatus
<1>1. \A z \in Zones : cached[z].gen <= cached'[z].gen
  <2>1. \A z \in Zones : cached[z].gen <= zone[z].gen
    BY DEF CacheLags, Later
  <2> QED BY <1>t, <2>1, ReadFacts
<1>2. ASSUME NEW z \in Zones PROVE zone'[z].status.obs <= cached[z].gen
  <2>1. CASE zone'[z].status = zone[z].status \/ zone'[z].status = NoStatus
    BY <1>t, <2>1 DEF ObservedWasCached
  <2>2. CASE WriteStatus /\ z = cur /\ zone'[z].status = todo
    <3>1. todo.obs <= base.gen /\ base.gen <= cached[cur].gen
      BY <2>2 DEF WriteStatus, ObservedWasCached, CacheLags, Later
    <3> QED BY <1>t, <2>2, <3>1
  <2> QED BY <2>1, <2>2, ObservedFrom
<1>3. ASSUME NEW z \in Zones PROVE cached'[z].status.obs <= cached'[z].gen
  <2>1. CASE cached' = cached
    BY <2>1 DEF ObservedWasCached
  <2>2. CASE cached' = zone /\ zone' = zone
    BY <1>t, <1>1, <1>2, <2>2
  <2> QED BY <2>1, <2>2, ReadFacts
<1>4. ASSUME pc' # "idle" PROVE zone'[cur'].status.obs <= base'.gen /\ base'.status.obs <= base'.gen
  <2>1. CASE pc # "idle" /\ UNCHANGED <<cur, base>>
    <3>1. CASE zone'[cur].status = zone[cur].status \/ zone'[cur].status = NoStatus
      BY <1>t, <2>1, <3>1 DEF ObservedWasCached
    <3>2. CASE WriteStatus /\ zone'[cur].status = todo
      BY <1>4, <3>2 DEF WriteStatus, Finish
    <3> QED BY <1>t, <2>1, <3>1, <3>2, ObservedFrom
  <2>2. ASSUME NEW z \in Zones, BeginPass(z)
        PROVE  zone'[cur'].status.obs <= base'.gen /\ base'.status.obs <= base'.gen
    BY <2>2, BeginFacts DEF ObservedWasCached, objVars
  <2> QED BY <1>4, <2>1, <2>2, ReadFacts
<1>5. \A z \in Zones : zone'[z].status.obs <= cached'[z].gen
  BY <1>t, <1>1, <1>2
<1> QED BY <1>3, <1>4, <1>5, ReportedIsRead DEF ObservedWasCached

\* What does not call PowerDNS leaves a pass, and an undisturbed zone, alone
\* or starts or ends the pass.
LEMMA OtherStepsKeepPass ==
  ASSUME TypeOK, [Next]_vars, ~PowerDNSCalls
  PROVE  \/ UNCHANGED <<pc, cur, base, active, todo>>
         \/ pc' = "idle"
         \/ pc' \in {"finalizer", "get", "delete", "detach"}
         \/ pc' = "status" /\ todo'.phase # "Ready"
<1>1. ASSUME NEW z \in Zones, BeginPass(z)
      PROVE  \/ pc' \in {"finalizer", "get", "delete", "detach"}
             \/ pc' = "status" /\ todo'.phase # "Ready"
  <2>1. cached[z].status \in Statuses
    BY StatusType DEF TypeOK
  <2>2. pc' \in {"finalizer", "get", "delete", "detach", "status"}
    BY <1>1 DEF BeginPass, BeginAddFinalizer, BeginInvalid, BeginNotReady, BeginZone,
                BeginDelete, BeginDetach, Begin
  <2>3. ASSUME pc' = "status" PROVE todo'.phase # "Ready"
    <3>1. todo' = Pending(cached[z].status) \/ todo' = [cached[z].status EXCEPT !.phase = "Failed"]
      BY <1>1, <2>3 DEF BeginPass, BeginAddFinalizer, BeginInvalid, BeginNotReady, BeginZone,
                        BeginDelete, BeginDetach, Begin
    <3> QED BY <2>1, <3>1, UnfinishedStatus
  <2> QED BY <2>2, <2>3
<1>2. CASE Crash \/ AddFinalizer \/ WriteStatus \/ Release
  BY <1>2 DEF Crash, AddFinalizer, WriteStatus, Release, Finish
<1>3. CASE Refresh \/ OutsideChanges \/ \E z \in Zones : UserChanges(z)
  BY <1>3, OutsideKeepsObjects DEF Refresh, UserChanges, CreateCR, EditSpec, DeleteCR, passVars
<1> QED BY <1>1, <1>2, <1>3, StepCases

\* The pass's own zone, when undisturbed, changes only by the pass's calls.
LEMMA OwnZoneKept ==
  ASSUME TypeOK, [Next]_vars, ~PowerDNSCalls, cur' = cur, Undisturbed'
  PROVE  Undisturbed /\ store'[Name(cur)] = store[Name(cur)]
BY StoreFacts, CurName DEF Undisturbed, Name

LEMMA ProgressStep ==
  ASSUME TypeOK, Progress, [Next]_vars
  PROVE  Progress'
<1> DEFINE n == Name(cur)
<1>n. n \in Names /\ base.dnssec \in BOOLEAN
  BY CurName DEF TypeOK, Objects
<1>1. CASE ~PowerDNSCalls
  <2>1. CASE UNCHANGED <<pc, cur, base, active, todo>>
    BY <1>1, <2>1, OwnZoneKept DEF Progress, Undisturbed, Name
  <2>2. CASE pc' \in {"idle", "finalizer", "get", "delete", "detach", "status"}
    BY <2>2 DEF Progress
  <2> QED BY <1>1, <2>1, <2>2, OtherStepsKeepPass
<1>2. CASE PowerDNSCalls
  <2>1. cur' = cur /\ (Undisturbed' => Undisturbed) /\ Name(cur)' = n
    BY <1>2, CallsKeepObjects, StoreFacts DEF Undisturbed, Name
  <2>2. CASE Aborted \/ pc' \in {"idle", "create", "adopt", "update", "rollback", "compensate",
                                 "release", "status"}
    BY <2>2 DEF Progress, Aborted, Report
  <2>3. CASE base' = base /\ pc' \in {"seed", "list"}
             /\ (Undisturbed => store'[n].up /\ store'[n].meta = base.meta)
    BY <2>1, <2>3 DEF Progress
  <2>4. CASE pc = "list" /\ store'[n] = store[n] /\ AfterList(store[n].keys, store[n].active)
    BY <1>n, <2>1, <2>4 DEF Progress, AfterList
  <2>5. CASE pc = "deactivate" /\ pc' = "deactivate" /\ base' = base
             /\ store'[n].up /\ store'[n].meta = store[n].meta
             /\ (store[n].active = active => store'[n].active = active')
    BY <2>1, <2>5 DEF Progress
  <2>6. CASE pc \in {"activate", "addkey"} /\ pc' = "rectify" /\ base' = base
             /\ store'[n].up /\ store'[n].meta = store[n].meta /\ store'[n].active # {}
    BY <2>1, <2>6 DEF Progress
  <2>7. CASE pc = "rectify" /\ pc' = "relist" /\ base' = base
             /\ store'[n].up /\ store'[n].meta = store[n].meta
             /\ store'[n].active = store[n].active
    BY <2>1, <2>7 DEF Progress
  <2>8. pc = "seed" /\ Undisturbed => store[n].meta = base.meta
    BY DEF Progress
  <2> QED BY <1>2, <2>2, <2>3, <2>4, <2>5, <2>6, <2>7, <2>8, CallOutcomes
             DEF Goto, Report, Matching
<1> QED BY <1>1, <1>2

LEMMA ReportIsTrueStep ==
  ASSUME TypeOK, Progress, ReportIsTrue, [Next]_vars
  PROVE  ReportIsTrue'
<1> DEFINE n == Name(cur)
<1>n. n \in Names /\ base.dnssec \in BOOLEAN
  BY CurName DEF TypeOK, Objects
<1>1. CASE ~PowerDNSCalls
  <2>1. CASE UNCHANGED <<pc, cur, base, active, todo>>
    BY <1>1, <2>1, OwnZoneKept DEF ReportIsTrue, Undisturbed, Name
  <2>2. CASE pc' # "status" \/ todo'.phase # "Ready"
    BY <2>2 DEF ReportIsTrue
  <2> QED BY <1>1, <2>1, <2>2, OtherStepsKeepPass
<1>2. CASE PowerDNSCalls
  <2>1. cur' = cur /\ (Undisturbed' => Undisturbed) /\ Name(cur)' = n
    BY <1>2, CallsKeepObjects, StoreFacts DEF Undisturbed, Name
  <2>2. CASE Aborted \/ pc' # "status"
    BY <2>2 DEF ReportIsTrue, Aborted
  <2>3. CASE \E ds : /\ todo' = Reconciled(base, ds) /\ base' = base
                     /\ Undisturbed => /\ store'[n].up /\ store'[n].meta = base.meta
                                       /\ (store'[n].active # {}) = base.dnssec
                                       /\ ds \subseteq store'[n].active
    <3>1. PICK ds : /\ todo' = Reconciled(base, ds) /\ base' = base
                    /\ Undisturbed => /\ store'[n].up /\ store'[n].meta = base.meta
                                      /\ (store'[n].active # {}) = base.dnssec
                                      /\ ds \subseteq store'[n].active
      BY <2>3
    <3>2. todo'.ds = ds
      BY <3>1, ReconciledStatus
    <3> QED BY <2>1, <3>1, <3>2 DEF ReportIsTrue
  <2>4. CASE pc = "list" /\ pc' = "status" /\ store'[n] = store[n]
             /\ AfterList(store[n].keys, store[n].active)
    <3>1. (store[n].active # {}) = base.dnssec /\ base' = base
          /\ todo' = Reconciled(base, store[n].active)
      BY <1>n, <2>4 DEF AfterList
    <3>2. Undisturbed => store[n].up /\ store[n].meta = base.meta
      BY <2>4 DEF Progress
    <3> QED BY <2>3, <2>4, <3>1, <3>2
  <2>5. CASE pc = "deactivate" /\ pc' = "status" /\ base' = base /\ active' = {}
             /\ store'[n].up /\ store'[n].meta = store[n].meta
             /\ (store[n].active = active => store'[n].active = active')
             /\ todo' = Reconciled(base, {})
    <3>1. Undisturbed => store[n].meta = base.meta /\ store'[n].active = {}
      BY <2>5 DEF Progress
    <3>2. base.dnssec = FALSE
      BY <1>n, <2>5 DEF Progress
    <3> QED BY <2>3, <2>5, <3>1, <3>2
  <2>6. CASE pc = "relist" /\ base' = base /\ store'[n] = store[n]
             /\ todo' = Reconciled(base, store[n].active)
    <3>1. base.dnssec = TRUE
      BY <1>n, <2>6 DEF Progress
    <3>2. Undisturbed => store[n].up /\ store[n].meta = base.meta /\ store[n].active # {}
      BY <2>6 DEF Progress
    <3> QED BY <2>3, <2>6, <3>1, <3>2
  <2> QED BY <1>2, <2>2, <2>4, <2>5, <2>6, CallOutcomes DEF Goto, Report
<1> QED BY <1>1, <1>2

\* A pass on a promised zone finds it, so it never starts to create it; and a
\* promise cannot appear behind the back of a pass that does.
LEMMA CreatesUnpromisedStep ==
  ASSUME TypeOK, CacheLags, ObservedWasCached, ReadyMeansServed, CreatesUnpromised, [Next]_vars
  PROVE  CreatesUnpromised'
<1> SUFFICES ASSUME pc' \in {"create", "seed", "compensate", "rollback"}, Undisturbed', Promised(cur)'
             PROVE  FALSE
  BY DEF CreatesUnpromised
<1>0. cur \in Zones
  BY DEF TypeOK
<1>1. cur' = cur /\ Undisturbed /\ ~WriteStatus
  <2>1. cur' = cur
    <3>1. CASE PowerDNSCalls
      BY <3>1, CallsKeepObjects
    <3>2. CASE ~PowerDNSCalls
      BY <3>2, OtherStepsKeepPass
    <3> QED BY <3>1, <3>2
  <2> QED BY <2>1, StoreFacts DEF Undisturbed, Name, WriteStatus, Finish
<1>2. Promised(cur)
  <2>1. ASSUME NEW z \in Zones, z = cur PROVE Promised(z)
    <3>1. Promised(z)'
      BY <1>1, <2>1 DEF Promised, ReadyNow
    <3> QED BY <1>1, <3>1, PromiseIsOld
  <2> QED BY <1>0, <2>1
<1>3. pc \notin {"create", "seed", "compensate", "rollback"}
  BY <1>1, <1>2 DEF CreatesUnpromised
<1>4. store[Name(cur)].up
  BY <1>0, <1>1, <1>2 DEF ReadyMeansServed, Promised, Served, Undisturbed
<1>5. PowerDNSCalls
  BY <1>3, OtherStepsKeepPass
<1> QED BY <1>3, <1>4, <1>5, CallOutcomes DEF Goto, Aborted, Report, AfterList

LEMMA ReadyMeansServedStep ==
  ASSUME UniqueNames, ServiceInv, [Next]_vars
  PROVE  ReadyMeansServed'
<1> USE DEF ServiceInv, OwnershipInv
<1> SUFFICES ASSUME NEW z \in Zones, Promised(z)', Name(z) \notin disturbed'
             PROVE  Served(z)'
  BY DEF ReadyMeansServed, Promised, Name
<1> DEFINE n == Name(z)
<1>0. n \in Names /\ n \notin disturbed /\ cur \in Zones
  BY ZoneAssumption, StoreFacts DEF Name, TypeOK
<1>1. CASE WriteStatus /\ Unmodified /\ z = cur
  <2>1. /\ store' = store /\ pc = "status" /\ zone[cur] = base
        /\ zone'[cur] = [base EXCEPT !.status = todo] /\ base \in Objects
    BY <1>0, <1>1 DEF WriteStatus, storeVars, Unmodified, TypeOK
  <2>2. zone'[cur].status = todo /\ zone'[cur].meta = base.meta /\ zone'[cur].dnssec = base.dnssec
    BY <2>1 DEF Objects
  <2>3. todo.phase = "Ready"
    BY <1>1, <2>2 DEF Promised, ReadyNow
  <2> QED BY <1>0, <1>1, <2>1, <2>2, <2>3 DEF ReportIsTrue, Undisturbed, Served, Name
<1>2. CASE ~(WriteStatus /\ Unmodified /\ z = cur)
  <2>1. /\ Promised(z) /\ zone'[z].meta = zone[z].meta /\ zone'[z].dnssec = zone[z].dnssec
        /\ zone'[z].status = zone[z].status
    BY <1>2, PromiseIsOld
  <2>2. Served(z)
    BY <1>0, <2>1 DEF ReadyMeansServed, Promised
  <2>3. CASE store'[n] = store[n]
    BY <2>1, <2>2, <2>3 DEF Served, Name
  <2>4. CASE PowerDNSCalls /\ n = Name(cur)
    <3>1. z = cur
      BY <1>0, <2>4 DEF UniqueNames
    <3>2. Undisturbed /\ Promised(cur) /\ Served(cur)
      BY <1>0, <2>1, <2>2, <3>1 DEF Undisturbed
    <3> QED BY <2>1, <2>4, <3>1, <3>2, CallKeepsServed DEF Served, Name
  <2> QED BY <1>0, <2>3, <2>4, StoreFacts
<1> QED BY <1>1, <1>2

-------------------------------------------------------------------------------
(* The theorem *)

LEMMA InitService == Init => ServiceInv
<1> SUFFICES ASSUME Init PROVE ServiceInv
  OBVIOUS
<1>1. OwnershipInv
  BY InitOwnership
<1>2. Gone(0).status = NoStatus /\ Gone(0).gen = 0 /\ ~Gone(0).up /\ NoStatus.obs = 0
  BY DEF Gone, NoStatus
<1>3. \A z \in Zones : zone[z] = Gone(0) /\ cached[z] = Gone(0)
  BY DEF Init
<1>4. pc = "idle"
  BY DEF Init
<1>5. ObservedWasCached
  BY <1>2, <1>3, <1>4 DEF ObservedWasCached
<1>6. Progress /\ ReportIsTrue /\ CreatesUnpromised
  BY <1>4 DEF Progress, ReportIsTrue, CreatesUnpromised
<1>7. ReadyMeansServed
  BY <1>2, <1>3 DEF ReadyMeansServed, ReadyNow
<1> QED BY <1>1, <1>5, <1>6, <1>7 DEF ServiceInv

LEMMA ServiceStep ==
  ASSUME UniqueNames, ServiceInv, [Next]_vars
  PROVE  ServiceInv'
<1>1. OwnershipInv'
  BY OwnershipStep DEF ServiceInv
<1>2. ObservedWasCached'
  BY <1>1, ObservedWasCachedStep DEF ServiceInv, OwnershipInv
<1> QED BY <1>1, <1>2, ProgressStep, ReportIsTrueStep, CreatesUnpromisedStep,
           ReadyMeansServedStep DEF ServiceInv, OwnershipInv

\* A Zone that reports Ready for its current generation is served by PowerDNS
\* as its spec says, however calls fail, crashes and users interleave, provided
\* no other Zone resource claims the same zone name (reconcileZone).
THEOREM Service ==
  ASSUME UniqueNames
  PROVE  Spec => []ReadyMeansServed
<1>1. ServiceInv /\ [Next]_vars => ServiceInv'
  BY ServiceStep
<1>2. ServiceInv => ReadyMeansServed
  BY DEF ServiceInv
<1> QED BY <1>1, <1>2, InitService, PTL DEF Spec

-------------------------------------------------------------------------------
(* Keys: published DS records stay valid *)

\* The calls that add no key leave a zone with one key at most.
FewKeys(s) == s.active \subseteq s.keys /\ \A j, k \in s.keys : j = k

LEMMA FewKeysKept ==
  ASSUME NEW q \in Requests, NEW s \in StoredZones, FewKeys(s),
         q[1] = "addkey" => s.keys = {}
  PROVE  FewKeys(Effect(q, s))
<1>1. CASE q \in {"create", "update"} \X Names \X (Metas \cup {""})
  BY <1>1 DEF Effect, StoredZones, Absent, FewKeys
<1>2. CASE q \in {"delete", "seed", "rectify"} \X Names \X {""}
  BY <1>2 DEF Effect, StoredZones, Absent, FewKeys
<1>3. CASE q \in {"addkey"} \X Names \X Nat
  BY <1>3 DEF Effect, StoredZones, Absent, FewKeys
<1>4. CASE q \in {"on", "off"} \X Names \X Nat
  BY <1>4 DEF Effect, StoredZones, Absent, FewKeys
<1> QED BY <1>1, <1>2, <1>3, <1>4 DEF Requests

LEMMA OneKeyStep ==
  ASSUME TypeOK, OneKey, [Next]_vars
  PROVE  OneKey'
<1> DEFINE m == Name(cur)
<1>0. m \in Names /\ store \in [Names -> StoredZones]
  BY CurName DEF TypeOK
<1>1. /\ disturbed \subseteq disturbed'
      /\ \A n \in Names \ disturbed' : store'[n] # store[n] => PowerDNSCalls /\ n = m
  BY StoreFacts
<1>2. ASSUME NEW n \in Names \ disturbed' PROVE FewKeys(store'[n])
  <2>1. CASE store'[n] = store[n]
    BY <1>1, <2>1 DEF OneKey, FewKeys
  <2>2. CASE PowerDNSCalls /\ n = m /\ store'[n] # store[n]
    <3>1. PICK q, r : Sends(q) /\ Call(q, r)
      BY <2>2, CallsSend
    <3>2. store'[m] = Effect(q, store[m])
      BY <1>0, <2>2, <3>1, CallEffect DEF Sends
    <3>3. FewKeys(store[m]) /\ (q[1] = "addkey" => store[m].keys = {})
      BY <1>0, <1>1, <2>2, <3>1 DEF Sends, OneKey, FewKeys, Undisturbed
    <3>4. q \in Requests /\ store[m] \in StoredZones
      BY <1>0, <3>1 DEF Sends
    <3>5. FewKeys(Effect(q, store[m]))
      BY <3>3, <3>4, FewKeysKept
    <3> QED BY <2>2, <3>2, <3>5
  <2> QED BY <1>1, <2>1, <2>2
<1>3. ASSUME pc' = "addkey", Undisturbed' PROVE store'[Name(cur)'].keys = {}
  <2>1. CASE PowerDNSCalls
    <3>1. /\ pc = "list" /\ store'[m] = store[m] /\ AfterList(store[m].keys, store[m].active)
      BY <1>3, <2>1, CallOutcomes DEF Goto, Report, Aborted
    <3> QED BY <1>3, <3>1 DEF AfterList, Name
  <2>2. CASE ~PowerDNSCalls
    <3>1. UNCHANGED <<pc, cur>>
      BY <1>3, <2>2, OtherStepsKeepPass
    <3>2. Undisturbed /\ store'[m] = store[m]
      BY <1>3, <2>2, <3>1, OwnZoneKept
    <3> QED BY <1>3, <3>1, <3>2 DEF OneKey, Name
  <2> QED BY <2>1, <2>2
<1> QED BY <1>2, <1>3 DEF OneKey, FewKeys

\* A zone that is Ready, and so signed when it should be, has an active key: its
\* only one, the one whose DS record was published.
LEMMA OneKeyLodged ==
  ASSUME LodgedInv, disturbed = {}
  PROVE  LodgedDSStaysValid
<1> SUFFICES ASSUME NEW z \in Zones, ReadyNow(z), ~zone[z].deleting, zone[z].dnssec
             PROVE  store[Name(z)].keys \subseteq store[Name(z)].active
  BY DEF LodgedDSStaysValid
<1>1. Name(z) \in Names /\ zone[z].dnssec \in BOOLEAN
  BY ZoneAssumption DEF Name, LodgedInv, ServiceInv, OwnershipInv, TypeOK, Objects
<1>2. Served(z)
  BY DEF LodgedInv, ServiceInv, ReadyMeansServed
<1>3. store[Name(z)].active # {}
  BY <1>1, <1>2 DEF Served
<1>4. /\ store[Name(z)].active \subseteq store[Name(z)].keys
      /\ \A j, k \in store[Name(z)].keys : j = k
  BY <1>1 DEF LodgedInv, OneKey
<1> QED BY <1>3, <1>4, Zenon

LEMMA InitLodged == Init => LodgedInv
<1> SUFFICES ASSUME Init PROVE LodgedInv
  OBVIOUS
<1>1. ServiceInv
  BY InitService
<1>2. pc = "idle" /\ store = [n \in Names |-> Absent]
  BY DEF Init
<1>3. Absent.active = {} /\ Absent.keys = {}
  BY DEF Absent
<1> QED BY <1>1, <1>2, <1>3 DEF LodgedInv, OneKey

LEMMA LodgedStep ==
  ASSUME UniqueNames, LodgedInv, [Next]_vars
  PROVE  LodgedInv'
BY ServiceStep, OneKeyStep DEF LodgedInv, ServiceInv, OwnershipInv

\* For as long as nobody else and no late write has changed a zone, every DS record
\* that was ever published and whose key still exists is that of an active key
\* whenever its zone reports Ready: through failures, lost answers, crashes and any
\* switching of DNSSEC (ensureDNSSEC, zone_controller.go:226).
THEOREM LodgedUndisturbed ==
  ASSUME UniqueNames
  PROVE  Spec => [](disturbed = {} => LodgedDSStaysValid)
<1>1. LodgedInv /\ [Next]_vars => LodgedInv'
  BY LodgedStep
<1>2. LodgedInv => (disturbed = {} => LodgedDSStaysValid)
  BY OneKeyLodged
<1> QED BY <1>1, <1>2, InitLodged, PTL DEF Spec

\* The same without the proviso where the operator is PowerDNS's only client and
\* its timeouts cancel what they give up on (ensureDNSSEC, zone_controller.go:226).
THEOREM Lodged ==
  ASSUME UniqueNames, "late" \notin Faults, MaxForeign = 0
  PROVE  Spec => []LodgedDSStaysValid
<1>1. Init => Alone
  BY DEF Init, Alone
<1>2. LodgedInv /\ Alone /\ [Next]_vars => LodgedInv' /\ Alone'
  BY LodgedStep, AloneStep DEF LodgedInv, ServiceInv, OwnershipInv
<1>3. LodgedInv /\ Alone => LodgedDSStaysValid
  BY OneKeyLodged DEF Alone
<1> QED BY <1>1, <1>2, <1>3, InitLodged, PTL DEF Spec

-------------------------------------------------------------------------------
(* The placeholder SOA *)

\* A call is executed and answered, or it costs a fault.
LEMMA ExecutedOrFault ==
  ASSUME faults \in Nat, NEW q, NEW r, Call(q, r)
  PROVE  \/ /\ store' = [store EXCEPT ![q[2]] = Effect(q, store[q[2]])]
            /\ r = Reply(q, store[q[2]])
         \/ faults' = faults + 1
BY DEF Call, Outcomes, Seen, TakesEffect, Charge

LEMMA SOAKept ==
  ASSUME NEW q \in Requests, NEW s \in StoredZones, q[1] \notin {"create", "seed"},
         Effect(q, s).up
  PROVE  s.up /\ Effect(q, s).soa = s.soa
<1>1. CASE q \in {"update"} \X Names \X (Metas \cup {""})
  BY <1>1 DEF Effect, StoredZones, Absent
<1>2. CASE q \in {"delete", "rectify"} \X Names \X {""}
  BY <1>2 DEF Effect, StoredZones, Absent
<1>3. CASE q \in {"addkey", "on", "off"} \X Names \X Nat
  BY <1>3 DEF Effect, StoredZones, Absent
<1> QED BY <1>1, <1>2, <1>3 DEF Requests

LEMMA SeedSets ==
  ASSUME NEW n, NEW s \in StoredZones
  PROVE  ~Effect(<<"seed", n, "">>, s).up \/ Effect(<<"seed", n, "">>, s).soa = "seeded"
<1>1. CASE s.up
  <2>1. Effect(<<"seed", n, "">>, s) = [s EXCEPT !.soa = "seeded"]
    BY <1>1, SeedEffect, Zenon
  <2>2. [s EXCEPT !.soa = "seeded"].soa = "seeded"
    BY DEF StoredZones
  <2> QED BY <2>1, <2>2, Zenon
<1>2. CASE ~s.up
  <2>1. Effect(<<"seed", n, "">>, s) = s
    BY <1>2, SMT DEF Effect
  <2> QED BY <1>2, <2>1, Zenon
<1> QED BY <1>1, <1>2

\* The steps between creating a zone and having replaced, or removed, its SOA.
Seeding == {"seed", "compensate", "rollback"}

\* Between those steps only the pass itself moves, unless the process stops.
LEMMA SeedingWaits ==
  ASSUME pc \in Seeding, ~PowerDNSCalls, [Next]_vars
  PROVE  UNCHANGED <<pc, cur>> \/ Crash
<1>1. ~AddFinalizer /\ ~WriteStatus /\ ~Release /\ ~\E z \in Zones : BeginPass(z)
  BY BeginFacts DEF Seeding, AddFinalizer, WriteStatus, Release
<1>2. CASE OutsideChanges
  BY <1>2 DEF OutsideChanges, ServerChanges, ForeignChange, Land, passVars, vars
<1>3. CASE Refresh \/ \E z \in Zones : UserChanges(z)
  BY <1>3 DEF Refresh, UserChanges, CreateCR, EditSpec, DeleteCR, passVars
<1> QED BY <1>1, <1>2, <1>3, StepCases

\* Creating a zone that was not there leads to the step that seeds it.
LEMMA CreateThenSeed ==
  ASSUME TypeOK, CreateZone, base.meta \notin SecondaryMetas, faults' # faults + 1,
         store'[Name(cur)] # store[Name(cur)]
  PROVE  pc' = "seed" /\ cur' = cur
<1> DEFINE n == Name(cur)
           q == <<"create", n, base.meta>>
<1>0. n \in Names /\ faults \in Nat /\ q[2] = n /\ store \in [Names -> StoredZones]
  BY CurName, NumericTypes DEF TypeOK
<1>1. PICK r \in Answers :
        /\ Call(q, r)
        /\ \/ r = "ok" /\ Goto(IF base.meta \in SecondaryMetas THEN "list" ELSE "seed")
           \/ r = "exists" /\ Goto("adopt")
           \/ r = "failed" /\ Report(Unregistered(base.status))
  BY DEF CreateZone
<1>2. store'[n] = Effect(q, store[n]) /\ r = Reply(q, store[n])
  <2> HIDE DEF q, n
  <2> QED BY <1>0, <1>1, ExecutedOrFault
<1>3. ~store[n].up
  BY <1>2, CreateEffect, Zenon
<1>4. r = "ok"
  BY <1>2, <1>3 DEF Reply
<1> QED BY <1>1, <1>4 DEF Goto

\* A seed that does not replace the SOA leads to the delete that makes up for it.
LEMMA SeedOrCompensate ==
  ASSUME TypeOK, SeedSOA
  PROVE  \/ ~store'[Name(cur)].up \/ store'[Name(cur)].soa = "seeded"
         \/ cur' = cur /\ pc' \in {"compensate", "rollback"}
<1> DEFINE n == Name(cur)
           q == <<"seed", n, "">>
<1>0. n \in Names /\ store \in [Names -> StoredZones] /\ store[n] \in StoredZones
  BY CurName DEF TypeOK
<1>1. PICK r \in Answers :
        /\ Call(q, r)
        /\ Goto(CASE r = "ok" -> "list" [] r = "exists" -> "rollback" [] OTHER -> "compensate")
  BY DEF SeedSOA
<1>2. CASE r = "ok"
  <2>1. store' = [store EXCEPT ![n] = Effect(q, store[n])]
    BY <1>1, <1>2, CallChanges, Zenon
  <2>2. ~Effect(q, store[n]).up \/ Effect(q, store[n]).soa = "seeded"
    BY <1>0, SeedSets
  <2> HIDE DEF q
  <2>3. store'[n] = Effect(q, store[n])
    BY <1>0, <2>1
  <2> QED BY <2>2, <2>3
<1>3. CASE r # "ok"
  <2>1. Goto("rollback") \/ Goto("compensate")
    BY <1>1, <1>3
  <2> QED BY <2>1 DEF Goto
<1> QED BY <1>2, <1>3

\* That delete removes the zone, or costs a fault.
LEMMA CompensateRemoves ==
  ASSUME TypeOK, Compensate
  PROVE  ~store'[Name(cur)].up \/ faults' = faults + 1
<1> DEFINE n == Name(cur)
           q == <<"delete", n, "">>
<1>0. n \in Names /\ faults \in Nat /\ q[2] = n /\ store \in [Names -> StoredZones]
  BY CurName, NumericTypes DEF TypeOK
<1>1. PICK r : Call(q, r)
  BY DEF Compensate
<1>2. store'[n] = Effect(q, store[n]) \/ faults' = faults + 1
  <2> HIDE DEF q, n
  <2> QED BY <1>0, <1>1, ExecutedOrFault
<1>3. Effect(q, store[n]) = Absent
  BY DeleteEffect
<1>4. ~Absent.up
  BY DEF Absent
<1> QED BY <1>2, <1>3, <1>4, Zenon

\* No other call puts a zone on the placeholder.
LEMMA OthersKeepSOA ==
  ASSUME TypeOK, PowerDNSCalls, ~CreateZone, ~SeedSOA, ~Compensate,
         store'[Name(cur)] # store[Name(cur)], store'[Name(cur)].up
  PROVE  store[Name(cur)].up /\ store'[Name(cur)].soa = store[Name(cur)].soa
<1> DEFINE m == Name(cur)
<1>0. m \in Names /\ store \in [Names -> StoredZones] /\ store[m] \in StoredZones
  BY CurName DEF TypeOK
<1>1. pc \notin Seeding /\ pc # "create"
  BY DEF PowerDNSCalls, GetZone, Adopt, UpdateZone, ListCryptokeys, Deactivate, Activate,
         CreateCryptokey, RectifyZone, RelistCryptokeys, DeleteZone, Seeding
<1>2. PICK q, r : Sends(q) /\ Call(q, r)
  BY CallsSend
<1>3. q \in Requests /\ q[2] = m /\ q[1] \notin {"create", "seed"}
  BY <1>1, <1>2 DEF Sends, Seeding
<1>4. store'[m] = Effect(q, store[m])
  <2>1. store' = store \/ store' = [store EXCEPT ![q[2]] = Effect(q, @)]
    BY <1>2, CallEffect, Zenon
  <2>2. store' # store
    BY Zenon
  <2>3. store' = [store EXCEPT ![m] = Effect(q, store[m])]
    BY <1>3, <2>1, <2>2, Zenon
  <2> QED BY ONLY <1>0, <2>3
<1>5. Effect(q, store[m]).up
  BY <1>4, Zenon
<1> QED BY <1>0, <1>3, <1>4, <1>5, SOAKept, Zenon

\* The steps that strand a zone.
StrandingStep ==
  \/ pc = "create" /\ (base.meta \in SecondaryMetas \/ faults' > faults)
  \/ pc \in {"compensate", "rollback"} /\ faults' > faults
  \/ pc = "seed" /\ pc' = "idle"

LEMMA StrandedStep ==
  ASSUME TypeOK, [Next]_vars, NEW n \in Names, ~Stranded(n), Stranded(n)'
  PROVE  StrandingStep
<1> DEFINE m == Name(cur)
<1>0. m \in Names /\ faults \in Nat
  BY CurName, NumericTypes
<1>1. /\ n \notin disturbed /\ n \notin disturbed'
      /\ store'[n] # store[n] => PowerDNSCalls /\ n = m
  BY StoreFacts DEF Stranded
<1>2. /\ store'[n].up /\ store'[n].soa = "default"
      /\ ~(pc' \in Seeding /\ Name(cur') = n)
  BY DEF Stranded, Seeding, Name
<1>3. CASE store'[n] = store[n]
  <2>1. pc \in Seeding /\ m = n
    BY <1>1, <1>2, <1>3 DEF Stranded, Seeding
  <2>2. CASE ~PowerDNSCalls
    <3>1. Crash
      BY <1>2, <2>1, <2>2, SeedingWaits
    <3>2. faults' = faults + 1 /\ pc' = "idle"
      BY <3>1 DEF Crash, Finish
    <3> QED BY <1>0, <2>1, <3>2 DEF StrandingStep, Seeding
  <2>3. CASE SeedSOA
    BY <1>2, <2>1, <2>3, SeedOrCompensate DEF Seeding
  <2>4. CASE Compensate
    <3>1. pc \in {"compensate", "rollback"}
      BY <2>4 DEF Compensate
    <3>2. faults' = faults + 1
      BY <1>2, <2>1, <2>4, CompensateRemoves
    <3> QED BY <1>0, <3>1, <3>2 DEF StrandingStep
  <2>5. CASE PowerDNSCalls /\ ~SeedSOA /\ ~Compensate
    BY <2>1, <2>5 DEF PowerDNSCalls, GetZone, CreateZone, Adopt, UpdateZone, ListCryptokeys,
                      Deactivate, Activate, CreateCryptokey, RectifyZone, RelistCryptokeys,
                      DeleteZone, Seeding
  <2> QED BY <2>2, <2>3, <2>4, <2>5
<1>4. CASE store'[n] # store[n]
  <2>1. PowerDNSCalls /\ n = m
    BY <1>1, <1>4
  <2>2. CASE CreateZone
    <3>1. pc = "create"
      BY <2>2 DEF CreateZone
    <3>2. base.meta \in SecondaryMetas \/ faults' = faults + 1
      BY <1>2, <1>4, <2>1, <2>2, CreateThenSeed DEF Seeding
    <3> QED BY <1>0, <3>1, <3>2 DEF StrandingStep
  <2>3. CASE SeedSOA
    BY <1>2, <2>1, <2>3, SeedOrCompensate DEF Seeding
  <2>4. CASE Compensate
    <3>1. pc \in {"compensate", "rollback"}
      BY <2>4 DEF Compensate
    <3>2. faults' = faults + 1
      BY <1>2, <2>1, <2>4, CompensateRemoves
    <3> QED BY <1>0, <3>1, <3>2 DEF StrandingStep
  <2>5. CASE ~CreateZone /\ ~SeedSOA /\ ~Compensate
    <3>1. store[n].up /\ store[n].soa = "default"
      BY <1>2, <1>4, <2>1, <2>5, OthersKeepSOA
    <3>2. pc \notin Seeding
      BY <2>1, <2>5 DEF PowerDNSCalls, GetZone, Adopt, UpdateZone, ListCryptokeys, Deactivate,
                        Activate, CreateCryptokey, RectifyZone, RelistCryptokeys, DeleteZone,
                        Seeding
    <3> QED BY <1>1, <3>1, <3>2 DEF Stranded, Seeding
  <2> QED BY <2>2, <2>3, <2>4, <2>5
<1> QED BY <1>3, <1>4

\* For any faults, any number of them, zones of every kind and any users: a zone is
\* left on PowerDNS's placeholder SOA only by a lost answer to its create, by a
\* compensating delete that fails, or by a process that stops in between; a seed
\* that fails is always made up for (createZone, zone_controller.go:210-220).
THEOREM SeedFailuresRepaired == Spec => StrandedByFault
<1>1. TypeOK /\ [Next]_vars =>
        [\A n \in Names : ~Stranded(n) /\ Stranded(n)' =>
           \/ pc = "create" /\ (base.meta \in SecondaryMetas \/ faults' > faults)
           \/ pc \in {"compensate", "rollback"} /\ faults' > faults
           \/ pc = "seed" /\ pc' = "idle"]_vars
  BY StrandedStep DEF StrandingStep
<1> QED BY <1>1, TypeCorrect, PTL DEF Spec, StrandedByFault

-------------------------------------------------------------------------------
(***************************************************************************)
(* While two operator processes overlap, a Zone's status only ever moves   *)
(* on to newer specs, for any number of Zones, passes, faults and users.   *)
(* The argument: the status of an object is never about a spec newer than  *)
(* the object's own; a pass reports either the spec it read or the one     *)
(* reported before; and its write is accepted only on the very object it   *)
(* read, whichever process it runs in and however old its cache is.        *)
(***************************************************************************)

\* A status and an object with the fields they have; nothing is needed of most.
Status(st) ==
  st \in [phase : {st.phase}, obs : Nat, reg : {st.reg}, sec : {st.sec}, ds : {st.ds}]

Object(o) ==
  /\ o \in [up : {o.up}, gen : Nat, deleting : {o.deleting}, fin : {o.fin}, meta : {o.meta},
            dnssec : {o.dnssec}, orphan : {o.orphan}, status : {o.status}]
  /\ Status(o.status)

\* The status of an object is about its current spec or an earlier one.
Honest(o) == Object(o) /\ o.status.obs <= o.gen

\* What a pass that read b may report.
Reportable(b, st) == Status(st) /\ st.obs \in {b.gen, b.status.obs}

\* A pass of either process: at p, about z, having read b, about to report st.
HonestPass(p, z, b, st) == z \in Zones /\ Honest(b) /\ (p = "status" => Reportable(b, st))

HonestInv ==
  /\ zone = [z \in Zones |-> zone[z]]
  /\ \A z \in Zones : Honest(zone[z]) /\ Honest(cached[z]) /\ Honest(ocached[z])
  /\ HonestPass(pc, cur, base, todo) /\ HonestPass(opc, ocur, obase, otodo)

-------------------------------------------------------------------------------
(* Objects and reports *)

LEMMA GoneHonest ==
  ASSUME NEW g \in Nat
  PROVE  Honest(Gone(g)) /\ Gone(g).status = NoStatus /\ NoStatus.obs = 0 /\ ~Gone(g).up
<1>1. Status(NoStatus) /\ NoStatus.obs = 0
  BY DEF Status, NoStatus
<1>2. Object(Gone(g)) /\ Gone(g).gen = g /\ Gone(g).status = NoStatus /\ ~Gone(g).up
  BY <1>1 DEF Object, Gone
<1> QED BY <1>1, <1>2 DEF Honest

\* An unfinished pass repeats what was last observed.
LEMMA UnfinishedReports ==
  ASSUME NEW b, Honest(b)
  PROVE  /\ Reportable(b, Pending(b.status)) /\ Reportable(b, Unregistered(b.status))
         /\ Reportable(b, Unsecured(b.status))
         /\ Reportable(b, [Pending(b.status) EXCEPT !.reg = "True"])
         /\ Reportable(b, [b.status EXCEPT !.phase = "Failed"])
<1> DEFINE st == b.status
<1>0. Status(st)
  BY DEF Honest, Object
<1> HIDE DEF st
<1>1. ASSUME NEW p PROVE Status([st EXCEPT !.phase = p]) /\ [st EXCEPT !.phase = p].obs = st.obs
  BY <1>0 DEF Status
<1>2. ASSUME NEW s, Status(s), NEW r
      PROVE  Status([s EXCEPT !.reg = r]) /\ [s EXCEPT !.reg = r].obs = s.obs
  BY <1>2 DEF Status
<1>3. Status(Unsecured(st)) /\ Unsecured(st).obs = st.obs
  <2> DEFINE s == Pending(st)
  <2>1. Status(s) /\ s.obs = st.obs
    BY <1>1 DEF Pending
  <2>2. Unsecured(st) = [s EXCEPT !.reg = "True", !.sec = "Failed"]
    BY DEF Unsecured
  <2> HIDE DEF s
  <2> QED BY <2>1, <2>2 DEF Status
<1>4. Status(Pending(st)) /\ Pending(st).obs = st.obs
  BY <1>1 DEF Pending
<1>5. /\ Status(Unregistered(st)) /\ Unregistered(st).obs = st.obs
      /\ Status([Pending(st) EXCEPT !.reg = "True"])
      /\ [Pending(st) EXCEPT !.reg = "True"].obs = st.obs
  BY <1>2, <1>4 DEF Unregistered
<1> QED BY <1>1, <1>3, <1>4, <1>5 DEF Reportable, st

\* A finished one reports the spec it read.
LEMMA ReconciledReports ==
  ASSUME NEW b, Honest(b), NEW ds
  PROVE  Reportable(b, Reconciled(b, ds))
BY DEF Reportable, Honest, Object, Status, Reconciled

\* The writes an object can take.
LEMMA ObjectWrites ==
  ASSUME NEW o, Honest(o)
  PROVE  /\ Honest([o EXCEPT !.fin = TRUE]) /\ [o EXCEPT !.fin = TRUE].status = o.status
         /\ Honest([o EXCEPT !.deleting = TRUE]) /\ [o EXCEPT !.deleting = TRUE].status = o.status
         /\ \A st : Reportable(o, st) =>
              /\ Honest([o EXCEPT !.status = st])
              /\ [o EXCEPT !.status = st].status.obs >= o.status.obs
         /\ \A s \in Specs : Honest(WithSpec(o, s)) /\ WithSpec(o, s).status = o.status
<1>1. Object(o) /\ o.gen \in Nat /\ o.status.obs \in Nat /\ o.status.obs <= o.gen
  BY DEF Honest, Object, Status
<1>2. Honest([o EXCEPT !.fin = TRUE]) /\ [o EXCEPT !.fin = TRUE].status = o.status
  <2>1. PICK w : w = [o EXCEPT !.fin = TRUE]
    OBVIOUS
  <2> QED BY <1>1, <2>1 DEF Honest, Object
<1>3. Honest([o EXCEPT !.deleting = TRUE]) /\ [o EXCEPT !.deleting = TRUE].status = o.status
  <2>1. PICK w : w = [o EXCEPT !.deleting = TRUE]
    OBVIOUS
  <2> QED BY <1>1, <2>1 DEF Honest, Object
<1>4. ASSUME NEW st, Reportable(o, st)
      PROVE  /\ Honest([o EXCEPT !.status = st])
             /\ [o EXCEPT !.status = st].status.obs >= o.status.obs
  <2>1. [o EXCEPT !.status = st].status = st /\ [o EXCEPT !.status = st].gen = o.gen
    BY <1>1 DEF Object
  <2>2. Status(st) /\ st.obs <= o.gen /\ st.obs >= o.status.obs
    BY <1>1, <1>4 DEF Reportable
  <2>3. Object([o EXCEPT !.status = st])
    BY <1>1, <2>2 DEF Object
  <2> QED BY <2>1, <2>2, <2>3 DEF Honest
<1>5. ASSUME NEW s \in Specs
      PROVE  Honest(WithSpec(o, s)) /\ WithSpec(o, s).status = o.status
  <2>1. PICK w : w = WithSpec(o, s)
    OBVIOUS
  <2>2. w.status = o.status /\ w.gen = o.gen + 1
    BY <1>1, <2>1 DEF WithSpec, Object
  <2>3. w \in [up : {w.up}, gen : Nat, deleting : {w.deleting}, fin : {w.fin}, meta : {w.meta},
               dnssec : {w.dnssec}, orphan : {w.orphan}, status : {w.status}]
    <3>1. w \in [up : {TRUE}, gen : Nat, deleting : {o.deleting}, fin : {o.fin}, meta : {s.meta},
                 dnssec : {s.dnssec}, orphan : {s.orphan}, status : {o.status}]
      <4>1. PICK g, m, d, r : g \in Nat /\ g = o.gen + 1 /\ m = s.meta /\ d = s.dnssec /\ r = s.orphan
        BY <1>1
      <4>2. w = [o EXCEPT !.up = TRUE, !.gen = g, !.meta = m, !.dnssec = d, !.orphan = r]
        BY <2>1, <4>1 DEF WithSpec
      <4>3. w \in [up : {TRUE}, gen : Nat, deleting : {o.deleting}, fin : {o.fin}, meta : {m},
                   dnssec : {d}, orphan : {r}, status : {o.status}]
        BY <1>1, <4>1, <4>2 DEF Object
      <4> QED BY <4>1, <4>3
    <3> QED BY <3>1
  <2> QED BY <1>1, <2>1, <2>2, <2>3 DEF Honest, Object
<1> QED BY <1>2, <1>3, <1>4, <1>5

-------------------------------------------------------------------------------
(* One step of a process *)

\* What a step of a pass does to the objects: nothing, or one write to the object
\* the pass is about, which is still the one it read (b).
PassWrites(p, z, b, st) ==
  \/ zone' = zone
  \/ /\ zone[z] = b
     /\ \/ zone' = [zone EXCEPT ![z].fin = TRUE]
        \/ p = "status" /\ zone' = [zone EXCEPT ![z].status = st]
        \/ zone' = [zone EXCEPT ![z] = Gone(@.gen)]

\* What it does to the pass: it goes on, with a report or without, or ends.
PassMoves(z, b, p2, z2, b2, st2) ==
  /\ z2 = z
  /\ \/ b2 = b /\ (p2 = "status" => Reportable(b, st2))
     \/ b2 = Gone(0) /\ p2 = "idle"

LEMMA NewStep ==
  ASSUME Honest(base), PassStep
  PROVE  PassWrites(pc, cur, base, todo) /\ PassMoves(cur, base, pc', cur', base', todo')
<1>1. CASE AddFinalizer \/ WriteStatus \/ Release
  BY <1>1 DEF AddFinalizer, WriteStatus, Release, Unmodified, Finish, PassWrites, PassMoves
<1>2. CASE GetZone \/ CreateZone \/ SeedSOA \/ Compensate \/ Adopt \/ UpdateZone
  BY <1>2, UnfinishedReports
     DEF GetZone, CreateZone, SeedSOA, Compensate, Adopt, UpdateZone, Goto, Report, objVars,
         PassWrites, PassMoves
<1>3. CASE ListCryptokeys \/ Deactivate \/ Activate \/ CreateCryptokey \/ RectifyZone
           \/ RelistCryptokeys \/ DeleteZone
  BY <1>3, UnfinishedReports, ReconciledReports
     DEF ListCryptokeys, AfterList, Deactivate, Activate, CreateCryptokey, RectifyZone,
         RelistCryptokeys, DeleteZone, Goto, Report, Finish, objVars, PassWrites, PassMoves
<1> QED BY <1>1, <1>2, <1>3 DEF PassStep

\* The same of the old process.
LEMMA OldStep ==
  ASSUME Honest(obase), Old!PassStep
  PROVE  PassWrites(opc, ocur, obase, otodo) /\ PassMoves(ocur, obase, opc', ocur', obase', otodo')
<1> USE DEF Old!Gone, Old!NoStatus, Gone, NoStatus
<1>0. /\ \A st : /\ Old!Pending(st) = Pending(st) /\ Old!Unregistered(st) = Unregistered(st)
                 /\ Old!Unsecured(st) = Unsecured(st)
      /\ \A b, ds : Old!Reconciled(b, ds) = Reconciled(b, ds)
  BY DEF Old!Pending, Old!Unregistered, Old!Unsecured, Old!Reconciled,
         Pending, Unregistered, Unsecured, Reconciled
<1>1. CASE Old!AddFinalizer \/ Old!WriteStatus \/ Old!Release
  BY <1>1 DEF Old!AddFinalizer, Old!WriteStatus, Old!Release, Old!Unmodified, Old!Finish,
              PassWrites, PassMoves
<1>2. CASE Old!GetZone \/ Old!CreateZone \/ Old!SeedSOA \/ Old!Compensate \/ Old!Adopt
           \/ Old!UpdateZone
  BY <1>0, <1>2, UnfinishedReports
     DEF Old!GetZone, Old!CreateZone, Old!SeedSOA, Old!Compensate, Old!Adopt, Old!UpdateZone,
         Old!Goto, Old!Report, Old!objVars, PassWrites, PassMoves
<1>3. CASE Old!ListCryptokeys \/ Old!Deactivate \/ Old!Activate \/ Old!CreateCryptokey
           \/ Old!RectifyZone \/ Old!RelistCryptokeys \/ Old!DeleteZone
  BY <1>0, <1>3, UnfinishedReports, ReconciledReports
     DEF Old!ListCryptokeys, Old!AfterList, Old!Deactivate, Old!Activate, Old!CreateCryptokey,
         Old!RectifyZone, Old!RelistCryptokeys, Old!DeleteZone, Old!Goto, Old!Report, Old!Finish,
         Old!objVars, PassWrites, PassMoves
<1> QED BY <1>1, <1>2, <1>3 DEF Old!PassStep

\* A pass starts from the cached object.
LEMMA NewBegin ==
  ASSUME NEW z \in Zones, Honest(cached[z]), BeginPass(z)
  PROVE  HonestPass(pc', cur', base', todo') /\ UNCHANGED <<zone, cached>>
BY UnfinishedReports
   DEF BeginPass, BeginAddFinalizer, BeginInvalid, BeginNotReady, BeginZone, BeginDelete,
       BeginDetach, Begin, objVars, HonestPass

LEMMA OldBegin ==
  ASSUME NEW z \in Zones, Honest(ocached[z]), Old!BeginPass(z)
  PROVE  HonestPass(opc', ocur', obase', otodo') /\ UNCHANGED <<zone, ocached>>
<1>1. \A st : Old!Pending(st) = Pending(st)
  BY DEF Old!Pending, Pending
<1> QED BY <1>1, UnfinishedReports
           DEF Old!BeginPass, Old!BeginAddFinalizer, Old!BeginInvalid, Old!BeginNotReady,
               Old!BeginZone, Old!BeginDelete, Old!BeginDetach, Old!Begin, Old!objVars, HonestPass

LEMMA HonestNumbers ==
  ASSUME NEW o, Honest(o)
  PROVE  o.gen \in Nat /\ o.status.obs \in Nat /\ o.status.obs >= o.status.obs
<1>1. Object(o) /\ Status(o.status)
  BY DEF Honest, Object
<1>2. o.gen \in Nat
  BY <1>1 DEF Object
<1>3. PICK st : st = o.status
  OBVIOUS
<1>4. st.obs \in Nat
  BY <1>1, <1>3 DEF Status
<1> QED BY <1>2, <1>3, <1>4

\* The objects stay honest, and their statuses move on, in a step that writes one
\* of them in one of the ways they are written.
HonestStep ==
  /\ zone' = [z \in Zones |-> zone'[z]]
  /\ \A z \in Zones : Honest(zone'[z])
  /\ \A z \in Zones : zone'[z].up /\ zone[z].up => zone'[z].status.obs >= zone[z].status.obs

LEMMA ReplaceOne ==
  ASSUME zone = [z \in Zones |-> zone[z]], \A z \in Zones : Honest(zone[z]),
         NEW y \in Zones, NEW o, Honest(o),
         o.up /\ zone[y].up => o.status.obs >= zone[y].status.obs,
         zone' = [zone EXCEPT ![y] = o]
  PROVE  HonestStep
<1>1. \A z \in Zones : zone'[z] = IF z = y THEN o ELSE zone[z]
  OBVIOUS
<1>2. \A z \in Zones : zone[z].status.obs >= zone[z].status.obs
  BY HonestNumbers
<1>3. zone' = [z \in Zones |-> zone'[z]]
  OBVIOUS
<1> QED BY <1>1, <1>2, <1>3 DEF HonestStep

LEMMA NoWrite ==
  ASSUME zone = [z \in Zones |-> zone[z]], \A z \in Zones : Honest(zone[z]), zone' = zone
  PROVE  HonestStep
<1>1. \A z \in Zones : zone[z].status.obs >= zone[z].status.obs
  BY HonestNumbers
<1> QED BY <1>1 DEF HonestStep

LEMMA PassWritesHonest ==
  ASSUME zone = [z \in Zones |-> zone[z]], \A z \in Zones : Honest(zone[z]),
         NEW p, NEW y, NEW b, NEW st, HonestPass(p, y, b, st), PassWrites(p, y, b, st)
  PROVE  HonestStep
<1>0. y \in Zones /\ Honest(zone[y]) /\ zone[y].gen \in Nat
      /\ zone[y].status.obs >= zone[y].status.obs
  BY HonestNumbers DEF HonestPass
<1>1. CASE zone' = zone
  BY <1>1, NoWrite
<1>2. CASE zone' = [zone EXCEPT ![y].fin = TRUE]
  <2>1. zone' = [zone EXCEPT ![y] = [zone[y] EXCEPT !.fin = TRUE]]
    BY <1>2
  <2>2. /\ Honest([zone[y] EXCEPT !.fin = TRUE])
        /\ [zone[y] EXCEPT !.fin = TRUE].status = zone[y].status
    BY <1>0, ObjectWrites
  <2> QED BY <1>0, <2>1, <2>2, ReplaceOne
<1>3. CASE zone[y] = b /\ p = "status" /\ zone' = [zone EXCEPT ![y].status = st]
  <2>1. zone' = [zone EXCEPT ![y] = [zone[y] EXCEPT !.status = st]]
    BY <1>3
  <2>2. /\ Honest([zone[y] EXCEPT !.status = st])
        /\ [zone[y] EXCEPT !.status = st].status.obs >= zone[y].status.obs
    BY <1>0, <1>3, ObjectWrites DEF HonestPass
  <2> QED BY <1>0, <2>1, <2>2, ReplaceOne
<1>4. CASE zone' = [zone EXCEPT ![y] = Gone(@.gen)]
  <2>1. zone' = [zone EXCEPT ![y] = Gone(zone[y].gen)]
    BY <1>4
  <2>2. Honest(Gone(zone[y].gen)) /\ ~Gone(zone[y].gen).up
    BY <1>0, GoneHonest
  <2> QED BY <1>0, <2>1, <2>2, ReplaceOne
<1> QED BY <1>1, <1>2, <1>3, <1>4 DEF PassWrites

LEMMA UsersWriteHonest ==
  ASSUME zone = [z \in Zones |-> zone[z]], \A z \in Zones : Honest(zone[z]),
         NEW y \in Zones, CreateCR(y) \/ EditSpec(y) \/ DeleteCR(y)
  PROVE  HonestStep
<1>0. Honest(zone[y]) /\ zone[y].gen \in Nat /\ zone[y].status.obs >= zone[y].status.obs
  BY HonestNumbers
<1>g. Honest(Gone(zone[y].gen)) /\ ~Gone(zone[y].gen).up
  BY <1>0, GoneHonest
<1>1. CASE CreateCR(y)
  <2>1. PICK s \in Specs : zone' = [zone EXCEPT ![y] = WithSpec(Gone(zone[y].gen), s)]
    BY <1>1 DEF CreateCR
  <2>2. Honest(WithSpec(Gone(zone[y].gen), s)) /\ ~zone[y].up
    BY <1>1, <1>g, ObjectWrites DEF CreateCR
  <2> QED BY <2>1, <2>2, ReplaceOne
<1>2. CASE EditSpec(y)
  <2>1. PICK s \in Specs : zone' = [zone EXCEPT ![y] = WithSpec(zone[y], s)]
    BY <1>2 DEF EditSpec
  <2>2. Honest(WithSpec(zone[y], s)) /\ WithSpec(zone[y], s).status = zone[y].status
    BY <1>0, ObjectWrites
  <2> QED BY <1>0, <2>1, <2>2, ReplaceOne
<1>3. CASE DeleteCR(y)
  <2>1. \/ zone' = [zone EXCEPT ![y] = [zone[y] EXCEPT !.deleting = TRUE]]
        \/ zone' = [zone EXCEPT ![y] = Gone(zone[y].gen)]
    BY <1>3 DEF DeleteCR
  <2>2. /\ Honest([zone[y] EXCEPT !.deleting = TRUE])
        /\ [zone[y] EXCEPT !.deleting = TRUE].status = zone[y].status
    BY <1>0, ObjectWrites
  <2> QED BY <1>0, <1>g, <2>1, <2>2, ReplaceOne
<1> QED BY <1>1, <1>2, <1>3

LEMMA PassMovesHonest ==
  ASSUME NEW p, NEW z, NEW b, NEW st, HonestPass(p, z, b, st),
         NEW p2, NEW z2, NEW b2, NEW st2, PassMoves(z, b, p2, z2, b2, st2)
  PROVE  HonestPass(p2, z2, b2, st2)
BY GoneHonest DEF HonestPass, PassMoves

-------------------------------------------------------------------------------
(* The theorem *)

LEMMA InitHonest == HandoverInit => HonestInv
<1> SUFFICES ASSUME HandoverInit PROVE HonestInv
  OBVIOUS
<1>g. Honest(Gone(0))
  BY GoneHonest
<1>1. ASSUME NEW s \in Specs, NEW ks PROVE Honest(Reconciliation(s, ks))
  <2>1. PICK o : o = WithSpec([Gone(0) EXCEPT !.fin = TRUE], s)
    OBVIOUS
  <2>2. Honest([Gone(0) EXCEPT !.fin = TRUE])
    BY <1>g, ObjectWrites
  <2>3. Honest(o)
    BY <2>1, <2>2, ObjectWrites
  <2>4. Honest([o EXCEPT !.status = Reconciled(o, ks)])
    BY <2>3, ReconciledReports, ObjectWrites
  <2> QED BY <2>1, <2>4 DEF Reconciliation
<1>2. PICK f \in [Zones -> Specs] : \E ks : zone = [z \in Zones |-> Reconciliation(f[z], ks[z])]
  <2>1. PICK f \in [Zones -> {s \in Specs : ~InvalidSpec(s)}] :
          zone = [z \in Zones |-> Reconciliation(f[z], IF f[z].dnssec THEN {1} ELSE {})]
    BY DEF HandoverInit
  <2> DEFINE ks == [z \in Zones |-> IF f[z].dnssec THEN {1} ELSE {}]
  <2>2. zone = [z \in Zones |-> Reconciliation(f[z], ks[z])]
    BY <2>1
  <2>3. f \in [Zones -> Specs]
    BY <2>1
  <2> HIDE DEF ks
  <2> QED BY <2>2, <2>3
<1>3. zone = [z \in Zones |-> zone[z]] /\ \A z \in Zones : Honest(zone[z])
  BY <1>1, <1>2
<1>4. /\ pc = "idle" /\ cur \in Zones /\ base = Gone(0) /\ cached = [z \in Zones |-> Gone(0)]
      /\ ocached = zone /\ opc = pc /\ ocur = cur /\ obase = base
  BY DEF HandoverInit
<1> QED BY <1>g, <1>3, <1>4 DEF HonestInv, HonestPass

LEMMA HonestNext ==
  ASSUME HonestInv, [HandoverNext]_handoverVars
  PROVE  HonestInv' /\ HonestStep
<1>0. /\ zone = [z \in Zones |-> zone[z]] /\ \A z \in Zones : Honest(zone[z])
      /\ \A z \in Zones : Honest(cached[z]) /\ Honest(ocached[z])
      /\ HonestPass(pc, cur, base, todo) /\ HonestPass(opc, ocur, obase, otodo)
      /\ Honest(base) /\ Honest(obase)
  BY DEF HonestInv, HonestPass
<1>1. CASE StartNew
  <2>1. zone' = zone /\ cached' = zone /\ UNCHANGED <<passVars, oldVars>>
    BY <1>1 DEF StartNew
  <2> QED BY <1>0, <2>1, NoWrite DEF HonestInv, HonestStep, passVars, oldVars
<1>2. CASE StopOld
  <2>1. UNCHANGED vars /\ opc' = "idle" /\ obase' = Gone(0) /\ ocur' = ocur
        /\ ocached' = [z \in Zones |-> Gone(0)]
    BY <1>2 DEF StopOld, Old!Finish, Old!Gone, Old!NoStatus, Gone, NoStatus
  <2> QED BY <1>0, <2>1, GoneHonest, NoWrite DEF HonestInv, HonestStep, HonestPass, vars
<1>3. CASE NewSteps
  <2>1. PassStep /\ UNCHANGED oldVars
    BY <1>3 DEF NewSteps
  <2>2. cached' = cached
    BY <2>1 DEF PassStep, AddFinalizer, GetZone, CreateZone, SeedSOA, Compensate, Adopt, UpdateZone,
                ListCryptokeys, Deactivate, Activate, CreateCryptokey, RectifyZone,
                RelistCryptokeys, WriteStatus, DeleteZone, Release, objVars
  <2>3. HonestStep /\ HonestPass(pc', cur', base', todo')
    BY <1>0, <2>1, NewStep, PassWritesHonest, PassMovesHonest
  <2> QED BY <1>0, <2>1, <2>2, <2>3 DEF HonestInv, HonestStep, oldVars
<1>4. CASE OldSteps
  <2>1. Old!PassStep /\ UNCHANGED newOnly
    BY <1>4 DEF OldSteps
  <2>2. ocached' = ocached
    BY <2>1 DEF Old!PassStep, Old!AddFinalizer, Old!GetZone, Old!CreateZone, Old!SeedSOA,
                Old!Compensate, Old!Adopt, Old!UpdateZone, Old!ListCryptokeys, Old!Deactivate,
                Old!Activate, Old!CreateCryptokey, Old!RectifyZone, Old!RelistCryptokeys,
                Old!WriteStatus, Old!DeleteZone, Old!Release, Old!objVars
  <2>3. HonestStep /\ HonestPass(opc', ocur', obase', otodo')
    BY <1>0, <2>1, OldStep, PassWritesHonest, PassMovesHonest
  <2> QED BY <1>0, <2>1, <2>2, <2>3 DEF HonestInv, HonestStep, newOnly, passVars
<1>5. CASE NewRefresh
  <2>1. zone' = zone /\ cached' = zone /\ UNCHANGED <<passVars, oldVars>>
    BY <1>5 DEF NewRefresh, Refresh
  <2> QED BY <1>0, <2>1, NoWrite DEF HonestInv, HonestStep, passVars, oldVars
<1>6. CASE OldRefresh
  <2>1. zone' = zone /\ ocached' = zone /\ UNCHANGED <<opc, ocur, obase, otodo, newOnly>>
    BY <1>6 DEF OldRefresh, Old!Refresh, Old!passVars
  <2> QED BY <1>0, <2>1, NoWrite DEF HonestInv, HonestStep, newOnly, passVars
<1>7. CASE Others
  <2>1. UNCHANGED <<cached, oldVars, pc, cur, base, todo>>
    BY <1>7 DEF Others, Environment, Refresh, ServerChanges, CreateCR, EditSpec, DeleteCR,
                ForeignChange, Land, passVars
  <2>2. HonestStep
    <3>1. CASE zone' = zone
      BY <1>0, <3>1, NoWrite
    <3>2. CASE \E z \in Zones : CreateCR(z) \/ EditSpec(z) \/ DeleteCR(z)
      BY <1>0, <3>2, UsersWriteHonest
    <3> QED BY <1>7, <3>1, <3>2
            DEF Others, Environment, Refresh, ServerChanges, ForeignChange, Land, objVars
  <2> QED BY <1>0, <2>1, <2>2 DEF HonestInv, HonestStep, oldVars
<1>8. ASSUME NEW z \in Zones, NewBegins(z) PROVE HonestInv' /\ HonestStep
  <2>1. BeginPass(z) /\ UNCHANGED oldVars
    BY <1>8 DEF NewBegins
  <2>2. HonestPass(pc', cur', base', todo') /\ UNCHANGED <<zone, cached>>
    BY <1>0, <2>1, NewBegin
  <2> QED BY <1>0, <2>1, <2>2, NoWrite DEF HonestInv, HonestStep, oldVars
<1>9. ASSUME NEW z \in Zones, OldBegins(z) PROVE HonestInv' /\ HonestStep
  <2>1. Old!BeginPass(z) /\ UNCHANGED newOnly
    BY <1>9 DEF OldBegins
  <2>2. HonestPass(opc', ocur', obase', otodo') /\ UNCHANGED <<zone, ocached>>
    BY <1>0, <2>1, OldBegin
  <2> QED BY <1>0, <2>1, <2>2, NoWrite DEF HonestInv, HonestStep, newOnly, passVars
<1>10. CASE UNCHANGED handoverVars
  BY <1>0, <1>10, NoWrite DEF HonestInv, HonestStep, handoverVars, vars, oldVars
<1> QED BY <1>1, <1>2, <1>3, <1>4, <1>5, <1>6, <1>7, <1>8, <1>9, <1>10 DEF HandoverNext

\* While the Zone controllers of two operator processes overlap, no write replaces
\* a status computed from a newer spec by one computed from an older spec
\* (Status().Update, zone_controller.go:155).
THEOREM NeverRegresses == HandoverSpec => StatusNeverRegresses
<1>1. HonestInv /\ [HandoverNext]_handoverVars => HonestInv'
  BY HonestNext
<1>2. HonestInv /\ [HandoverNext]_handoverVars =>
        [\A z \in Zones : zone'[z].up /\ zone[z].up
                            => zone'[z].status.obs >= zone[z].status.obs]_handoverVars
  BY HonestNext DEF HonestStep
<1> QED BY <1>1, <1>2, InitHonest, PTL DEF HandoverSpec, StatusNeverRegresses

===============================================================================

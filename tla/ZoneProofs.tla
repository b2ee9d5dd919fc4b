------------------------------ MODULE ZoneProofs ------------------------------
(***************************************************************************)
(* The Zone controller, for every set of zones, names, specs and faults:   *)
(* it is type correct, leaves no zone in PowerDNS that no Zone resource    *)
(* owns, and implements ZoneRegistry.                                      *)
(***************************************************************************)
EXTENDS ZoneInvariants, TLAPS

(***************************************************************************)
(* Type correctness of the Zone controller, and what one PowerDNS call can *)
(* do, for every set of zones, names, specs and faults.                    *)
(***************************************************************************)

\* PowerDNS stays within its own type whatever request it executes.
LEMMA EffectType ==
  ASSUME NEW q \in Requests, NEW s \in StoredZones
  PROVE  Effect(q, s) \in StoredZones
<1>1. CASE q \in {"create", "update"} \X Names \X (Metas \cup {""})
  BY <1>1 DEF Effect, StoredZones, Absent
<1>2. CASE q \in {"delete", "seed", "rectify"} \X Names \X {""}
  BY <1>2 DEF Effect, StoredZones, Absent
<1>3. CASE q \in {"addkey", "on", "off"} \X Names \X Nat
  BY <1>3 DEF Effect, StoredZones, Absent
<1> QED BY <1>1, <1>2, <1>3 DEF Requests

LEMMA RequestName ==
  ASSUME NEW q \in Requests
  PROVE  q[2] \in Names
BY DEF Requests

\* A call changes at most the zone it names, and an answer "ok" means that it
\* was executed (pdnsclient.do).
LEMMA CallEffect ==
  ASSUME NEW q, NEW r, Call(q, r)
  PROVE  /\ store' = store \/ store' = [store EXCEPT ![q[2]] = Effect(q, @)]
         /\ r = "ok" => /\ store' = [store EXCEPT ![q[2]] = Effect(q, @)]
                        /\ Reply(q, store[q[2]]) = "ok"
BY DEF Call, Seen, Outcomes, TakesEffect

LEMMA CallChanges ==
  ASSUME NEW op, NEW n, NEW a, NEW r, Call(<<op, n, a>>, r)
  PROVE  /\ store' = store \/ store' = [store EXCEPT ![n] = Effect(<<op, n, a>>, store[n])]
         /\ r = "ok" => /\ store' = [store EXCEPT ![n] = Effect(<<op, n, a>>, store[n])]
                        /\ Reply(<<op, n, a>>, store[n]) = "ok"
<1> DEFINE q == <<op, n, a>>
<1>1. q[2] = n
  OBVIOUS
<1>2. /\ store' = store \/ store' = [store EXCEPT ![q[2]] = Effect(q, store[q[2]])]
      /\ r = "ok" => /\ store' = [store EXCEPT ![q[2]] = Effect(q, store[q[2]])]
                     /\ Reply(q, store[q[2]]) = "ok"
  BY CallEffect
<1> QED BY <1>1, <1>2

\* What each request does to a zone of PowerDNS, and when it answers "ok".
LEMMA CreateEffect ==
  ASSUME NEW n, NEW a, NEW s
  PROVE  Effect(<<"create", n, a>>, s) = IF s.up THEN s ELSE [Absent EXCEPT !.up = TRUE, !.meta = a]
BY Zenon DEF Effect

LEMMA DeleteEffect ==
  ASSUME NEW n, NEW a, NEW s
  PROVE  Effect(<<"delete", n, a>>, s) = Absent
BY Zenon DEF Effect

LEMMA SeedEffect ==
  ASSUME NEW n, NEW a, NEW s
  PROVE  Effect(<<"seed", n, a>>, s) = IF s.up THEN [s EXCEPT !.soa = "seeded"] ELSE s
BY Zenon DEF Effect

LEMMA UpdateEffect ==
  ASSUME NEW n, NEW a, NEW s
  PROVE  Effect(<<"update", n, a>>, s) = IF s.up THEN [s EXCEPT !.meta = a] ELSE s
BY Zenon DEF Effect

LEMMA AddKeyEffect ==
  ASSUME NEW n, NEW a, NEW s
  PROVE  Effect(<<"addkey", n, a>>, s) =
           IF s.up THEN [s EXCEPT !.keys = @ \cup {a}, !.active = @ \cup {a}, !.rect = FALSE] ELSE s
BY Zenon DEF Effect

LEMMA KeyOnEffect ==
  ASSUME NEW n, NEW a, NEW s
  PROVE  Effect(<<"on", n, a>>, s) =
           IF s.up /\ a \in s.keys THEN [s EXCEPT !.active = @ \cup {a}, !.rect = FALSE] ELSE s
BY Zenon DEF Effect

LEMMA KeyOffEffect ==
  ASSUME NEW n, NEW a, NEW s
  PROVE  Effect(<<"off", n, a>>, s) = IF s.up THEN [s EXCEPT !.active = @ \ {a}] ELSE s
BY Zenon DEF Effect

LEMMA RectifyEffect ==
  ASSUME NEW n, NEW a, NEW s
  PROVE  Effect(<<"rectify", n, a>>, s) = IF s.up THEN [s EXCEPT !.rect = TRUE] ELSE s
BY Zenon DEF Effect

LEMMA RequestReplies ==
  ASSUME NEW n, NEW a, NEW s
  PROVE  /\ Reply(<<"create", n, a>>, s) = "ok" => ~s.up
         /\ Reply(<<"on", n, a>>, s) = "ok" => s.up /\ a \in s.keys
         /\ \A op \in {"seed", "update", "addkey", "off", "rectify"} :
              Reply(<<op, n, a>>, s) = "ok" => s.up
BY DEF Reply

LEMMA CallType ==
  ASSUME TypeOK, NEW q \in Requests, NEW r, Call(q, r)
  PROVE  /\ store' \in [Names -> StoredZones]
         /\ inflight' \subseteq Requests
         /\ faults' \in 0..MaxFaults
<1>1. store' \in [Names -> StoredZones]
  BY CallEffect, EffectType, RequestName DEF TypeOK
<1>2. inflight' \subseteq Requests
  BY DEF Call, TypeOK
<1>3. faults' \in 0..MaxFaults
  BY FaultAssumption DEF Call, TypeOK, Outcomes, Charge
<1> QED BY <1>1, <1>2, <1>3

LEMMA FetchType ==
  ASSUME TypeOK, NEW n \in Names, NEW r, Fetch(n, r)
  PROVE  /\ store' = store /\ inflight' = inflight
         /\ faults' \in 0..MaxFaults
         /\ r = "ok" => store[n].up
         /\ r = "notfound" => ~store[n].up
BY FaultAssumption DEF Fetch, TypeOK, ReadOutcomes, Charge, Seen

-------------------------------------------------------------------------------
(* The pieces of a step *)

\* TypeOK's conjunct about the running pass.
PassTyped ==
  /\ pc \in PCs /\ cur \in Zones /\ base \in Objects
  /\ keys \subseteq Nat /\ active \subseteq Nat /\ todo \in Statuses

LEMMA CurName ==
  ASSUME TypeOK
  PROVE  Name(cur) \in Names
BY ZoneAssumption DEF TypeOK, Name

LEMMA GoneType ==
  ASSUME NEW g \in Nat
  PROVE  Gone(g) \in Objects /\ NoStatus \in Statuses
BY DEF Gone, Objects, NoStatus, Statuses, Phases

\* Every status a pass reports is a status.
LEMMA ReportTypes ==
  ASSUME NEW st \in Statuses
  PROVE  /\ Pending(st) \in Statuses /\ Unregistered(st) \in Statuses
         /\ Unsecured(st) \in Statuses
         /\ [Pending(st) EXCEPT !.reg = "True"] \in Statuses
         /\ [st EXCEPT !.phase = "Failed"] \in Statuses
BY DEF Pending, Unregistered, Unsecured, Statuses, Phases

LEMMA ReconciledType ==
  ASSUME NEW o \in Objects, NEW ds \in SUBSET Nat
  PROVE  Reconciled(o, ds) \in Statuses
BY DEF Reconciled, Statuses, Objects, Phases

\* The object writes of a pass and of users.
LEMMA ObjectEdits ==
  ASSUME NEW o \in Objects
  PROVE  /\ [o EXCEPT !.fin = TRUE] \in Objects /\ [o EXCEPT !.deleting = TRUE] \in Objects
         /\ \A st \in Statuses : [o EXCEPT !.status = st] \in Objects
BY DEF Objects

LEMMA StatusType ==
  ASSUME NEW o \in Objects
  PROVE  o.status \in Statuses /\ o.gen \in Nat
BY DEF Objects

LEMMA WithSpecType ==
  ASSUME NEW o \in Objects, NEW s \in Specs
  PROVE  WithSpec(o, s) \in Objects
<1>1. s.meta \in Metas /\ s.dnssec \in BOOLEAN /\ s.orphan \in BOOLEAN
  BY ZoneAssumption
<1>2. o.gen + 1 \in Nat
  BY StatusType
<1> QED BY <1>1, <1>2 DEF WithSpec, Objects

\* The counters.
LEMMA NumericTypes ==
  ASSUME TypeOK
  PROVE  /\ minted \in Nat /\ minted + 1 \in Nat /\ faults \in Nat /\ foreign \in Nat
         /\ foreign < MaxForeign => foreign + 1 \in 0..MaxForeign
         /\ faults < MaxFaults => faults + 1 \in 0..MaxFaults
<1>1. minted \in Nat /\ faults \in 0..MaxFaults /\ foreign \in 0..MaxForeign
  BY DEF TypeOK
<1>2. MaxForeign \in Nat /\ MaxFaults \in Nat
  BY ZoneAssumption, FaultAssumption
<1> QED BY <1>1, <1>2

LEMMA FinishType ==
  ASSUME TypeOK, Finish
  PROVE  PassTyped'
BY GoneType DEF TypeOK, Finish, PassTyped, PCs

LEMMA GotoType ==
  ASSUME TypeOK, NEW p \in PCs, Goto(p)
  PROVE  PassTyped'
BY DEF TypeOK, Goto, PassTyped

LEMMA ReportType ==
  ASSUME TypeOK, NEW st \in Statuses, Report(st)
  PROVE  PassTyped'
BY DEF TypeOK, Report, PassTyped, PCs

LEMMA BeginType ==
  ASSUME TypeOK, NEW z \in Zones, NEW p \in PCs, Begin(z, p), todo' \in Statuses
  PROVE  PassTyped'
BY DEF TypeOK, Begin, PassTyped

\* A store write by a pass, seen from TypeOK.
LEMMA CallStep ==
  ASSUME TypeOK, NEW q \in Requests, NEW r, Call(q, r), PassTyped',
         minted' \in Nat, UNCHANGED <<objVars, histVars>>
  PROVE  TypeOK'
BY CallType DEF TypeOK, PassTyped, objVars, histVars

LEMMA FetchStep ==
  ASSUME TypeOK, NEW n \in Names, NEW r, Fetch(n, r), PassTyped',
         UNCHANGED <<objVars, minted, histVars>>
  PROVE  TypeOK'
BY FetchType DEF TypeOK, PassTyped, objVars, histVars

\* An object write by a pass, seen from TypeOK.
LEMMA WriteStep ==
  ASSUME TypeOK, zone' \in [Zones -> Objects], PassTyped', left' \subseteq Names,
         lodged' \in [Names -> SUBSET Nat],
         UNCHANGED <<cached, server, storeVars, faults, foreign, disturbed>>
  PROVE  TypeOK'
BY DEF TypeOK, PassTyped, storeVars

-------------------------------------------------------------------------------
(* The theorem *)

\* A pass keeps the types, whichever call or write is its next step.
LEMMA PassStepType ==
  ASSUME TypeOK, PassStep
  PROVE  TypeOK'
<1> DEFINE n == Name(cur)
           s == store[n]
<1>n. n \in Names
  BY CurName
<1>b. base \in Objects /\ base.status \in Statuses /\ base.meta \in Metas \cup {""} /\ s \in StoredZones
  BY <1>n, StatusType DEF TypeOK, Objects
<1>k. s.keys \in SUBSET Nat /\ s.active \in SUBSET Nat
  BY <1>b DEF StoredZones
<1>q. /\ \A op \in {"delete", "seed", "rectify"} : <<op, n, "">> \in Requests
      /\ \A op \in {"create", "update"} : <<op, n, base.meta>> \in Requests
      /\ \A op \in {"addkey", "on", "off"}, k \in Nat : <<op, n, k>> \in Requests
  BY <1>n, <1>b DEF Requests
<1>u. /\ Unregistered(base.status) \in Statuses /\ Unsecured(base.status) \in Statuses
      /\ [Pending(base.status) EXCEPT !.reg = "True"] \in Statuses
  BY <1>b, ReportTypes
<1> HIDE DEF n, s
<1>1. CASE AddFinalizer
  <2>1. zone' \in [Zones -> Objects]
    BY <1>1, ObjectEdits DEF AddFinalizer, TypeOK
  <2> QED BY <1>1, <2>1, FinishType, WriteStep DEF AddFinalizer, histVars, TypeOK
<1>2. CASE GetZone
  <2>1. PICK r \in Answers : Fetch(n, r) /\ PassTyped'
    BY <1>2, <1>u, GotoType, ReportType DEF GetZone, PCs, n
  <2> QED BY <1>2, <2>1, <1>n, FetchStep DEF GetZone
<1>3. CASE CreateZone
  <2>1. PICK r \in Answers : Call(<<"create", n, base.meta>>, r) /\ PassTyped'
    BY <1>3, <1>u, GotoType, ReportType DEF CreateZone, PCs, n
  <2> QED BY <1>3, <2>1, <1>q, CallStep DEF CreateZone, TypeOK
<1>4. CASE SeedSOA
  <2>1. PICK r \in Answers : Call(<<"seed", n, "">>, r) /\ PassTyped'
    <3>1. PICK r \in Answers :
            /\ Call(<<"seed", n, "">>, r)
            /\ Goto(CASE r = "ok" -> "list" [] r = "exists" -> "rollback" [] OTHER -> "compensate")
      BY <1>4 DEF SeedSOA, n
    <3>2. (CASE r = "ok" -> "list" [] r = "exists" -> "rollback" [] OTHER -> "compensate") \in PCs
      BY DEF PCs
    <3> QED BY <3>1, <3>2, GotoType
  <2> QED BY <1>4, <2>1, <1>q, CallStep DEF SeedSOA, TypeOK
<1>5. CASE Compensate
  <2>1. PICK r \in Answers : Call(<<"delete", n, "">>, r)
    BY <1>5 DEF Compensate, n
  <2>2. PassTyped'
    BY <1>5, <1>u, GotoType, ReportType DEF Compensate, PCs
  <2> QED BY <1>5, <2>1, <2>2, <1>q, CallStep DEF Compensate, TypeOK
<1>6. CASE Adopt
  <2>1. PICK r \in Answers : Fetch(n, r) /\ PassTyped'
    BY <1>6, <1>u, GotoType, ReportType DEF Adopt, PCs, n
  <2> QED BY <1>6, <2>1, <1>n, FetchStep DEF Adopt
<1>7. CASE UpdateZone
  <2>1. PICK r \in Answers : Call(<<"update", n, base.meta>>, r) /\ PassTyped'
    BY <1>7, <1>u, GotoType, ReportType DEF UpdateZone, PCs, n
  <2> QED BY <1>7, <2>1, <1>q, CallStep DEF UpdateZone, TypeOK
<1>8. CASE ListCryptokeys
  <2>1. PICK r \in Answers : Fetch(n, r) /\ PassTyped'
    <3>1. ASSUME AfterList(s.keys, s.active) PROVE PassTyped'
      BY <3>1, <1>b, <1>k, ReconciledType DEF AfterList, PassTyped, TypeOK, PCs
    <3> QED BY <1>8, <1>u, <3>1, ReportType DEF ListCryptokeys, n, s
  <2> QED BY <1>8, <2>1, <1>n, FetchStep DEF ListCryptokeys
<1>9. CASE Deactivate
  <2>1. PICK k \in active, r \in Answers : Call(<<"off", n, k>>, r) /\ PassTyped'
    <3>1. PICK k \in active, r \in Answers :
            /\ Call(<<"off", n, k>>, r)
            /\ \/ /\ active' = active \ {k} /\ UNCHANGED <<cur, base, keys>>
                  /\ IF active' = {} THEN pc' = "status" /\ todo' = Reconciled(base, {})
                                    ELSE UNCHANGED <<pc, todo>>
               \/ Report(Unsecured(base.status))
      BY <1>9 DEF Deactivate, n
    <3>2. Reconciled(base, {}) \in Statuses
      BY <1>b, ReconciledType
    <3> QED BY <3>1, <3>2, <1>u, ReportType DEF PassTyped, TypeOK, PCs
  <2> QED BY <1>9, <2>1, <1>q, CallStep DEF Deactivate, TypeOK
<1>10. CASE Activate
  <2>1. PICK k \in keys, r \in Answers : Call(<<"on", n, k>>, r) /\ PassTyped'
    BY <1>10, <1>u, GotoType, ReportType DEF Activate, PCs, n
  <2> QED BY <1>10, <2>1, <1>q, CallStep DEF Activate, TypeOK
<1>11. CASE CreateCryptokey
  <2>1. PICK r \in Answers : Call(<<"addkey", n, minted + 1>>, r) /\ PassTyped'
    BY <1>11, <1>u, GotoType, ReportType DEF CreateCryptokey, PCs, n
  <2>2. <<"addkey", n, minted + 1>> \in Requests /\ minted' \in Nat
    BY <1>11, <1>q, NumericTypes DEF CreateCryptokey
  <2> QED BY <1>11, <2>1, <2>2, CallStep DEF CreateCryptokey
<1>12. CASE RectifyZone
  <2>1. PICK r \in Answers : Call(<<"rectify", n, "">>, r) /\ PassTyped'
    BY <1>12, <1>u, GotoType, ReportType DEF RectifyZone, PCs, n
  <2> QED BY <1>12, <2>1, <1>q, CallStep DEF RectifyZone, TypeOK
<1>13. CASE RelistCryptokeys
  <2>1. PICK r \in Answers : Fetch(n, r) /\ PassTyped'
    BY <1>13, <1>u, <1>b, <1>k, ReconciledType, ReportType DEF RelistCryptokeys, n, s
  <2> QED BY <1>13, <2>1, <1>n, FetchStep DEF RelistCryptokeys
<1>14. CASE WriteStatus
  <2>1. zone' \in [Zones -> Objects]
    BY <1>14, ObjectEdits DEF WriteStatus, TypeOK
  <2>2. lodged' \in [Names -> SUBSET Nat]
    BY <1>14, <1>n DEF WriteStatus, TypeOK, Statuses, n
  <2> QED BY <1>14, <2>1, <2>2, FinishType, WriteStep DEF WriteStatus, TypeOK
<1>15. CASE DeleteZone
  <2>1. PICK r \in Answers : Call(<<"delete", n, "">>, r) /\ PassTyped'
    BY <1>15, GotoType, FinishType DEF DeleteZone, PCs, n
  <2> QED BY <1>15, <2>1, <1>q, CallStep DEF DeleteZone, TypeOK
<1>16. CASE Release
  <2>1. zone' \in [Zones -> Objects]
    BY <1>16, GoneType DEF Release, TypeOK, Objects
  <2>2. left' \subseteq Names
    BY <1>16, <1>n DEF Release, TypeOK, n
  <2> QED BY <1>16, <2>1, <2>2, FinishType, WriteStep DEF Release, TypeOK
<1> QED BY <1>1, <1>2, <1>3, <1>4, <1>5, <1>6, <1>7, <1>8, <1>9, <1>10, <1>11, <1>12,
            <1>13, <1>14, <1>15, <1>16 DEF PassStep

\* Starting a pass, a crash and everyone else keep the types.
LEMMA OtherStepType ==
  ASSUME TypeOK, Crash \/ Environment \/ \E z \in Zones : BeginPass(z)
  PROVE  TypeOK'
<1>1. CASE Crash
  BY <1>1, FinishType, FaultAssumption
  DEF Crash, TypeOK, PassTyped, objVars, storeVars, histVars
<1>2. ASSUME NEW z \in Zones, BeginPass(z) PROVE TypeOK'
  <2>1. cached[z].status \in Statuses
    BY StatusType DEF TypeOK
  <2>2. todo' \in Statuses /\ \E p \in PCs : Begin(z, p)
    BY <1>2, <2>1, ReportTypes
    DEF BeginPass, BeginAddFinalizer, BeginInvalid, BeginNotReady, BeginZone, BeginDelete,
        BeginDetach, TypeOK, PCs
  <2>3. UNCHANGED <<objVars, storeVars, faults, histVars>>
    BY <1>2
    DEF BeginPass, BeginAddFinalizer, BeginInvalid, BeginNotReady, BeginZone, BeginDelete,
        BeginDetach
  <2> QED BY <2>2, <2>3, BeginType DEF TypeOK, PassTyped, objVars, storeVars, histVars
<1>3. CASE Refresh
  BY <1>3 DEF Refresh, TypeOK, passVars, storeVars, histVars
<1>4. CASE ServerChanges
  <2>1. server' \in ServerStates /\ foreign' \in 0..MaxForeign
    BY <1>4, ZoneAssumption, NumericTypes DEF ServerChanges
  <2> QED BY <1>4, <2>1 DEF ServerChanges, TypeOK, passVars, storeVars
<1>5. ASSUME NEW z \in Zones, CreateCR(z) \/ EditSpec(z) \/ DeleteCR(z) PROVE TypeOK'
  <2>1. zone' \in [Zones -> Objects]
    <3>0. zone[z] \in Objects /\ zone[z].gen \in Nat
      BY StatusType DEF TypeOK
    <3>1. CASE CreateCR(z)
      BY <3>0, <3>1, GoneType, WithSpecType DEF CreateCR, TypeOK
    <3>2. CASE EditSpec(z)
      BY <3>0, <3>2, WithSpecType DEF EditSpec, TypeOK
    <3>3. CASE DeleteCR(z)
      BY <3>0, <3>3, ObjectEdits, GoneType DEF DeleteCR, TypeOK
    <3> QED BY <1>5, <3>1, <3>2, <3>3
  <2> QED BY <1>5, <2>1
          DEF CreateCR, EditSpec, DeleteCR, TypeOK, passVars, storeVars, histVars
<1>6. ASSUME NEW n \in Names, ForeignChange(n) PROVE TypeOK'
  <2>1. store' \in [Names -> StoredZones]
    <3>1. store[n] \in StoredZones
      BY DEF TypeOK
    <3>2. store[n].keys \subseteq Nat
      BY <3>1 DEF StoredZones
    <3>3. PICK q \in ForeignRequests(n) : store' = [store EXCEPT ![n] = Effect(q, @)]
      BY <1>6 DEF ForeignChange
    <3>4. q \in Requests
      BY <3>2, <3>3, NumericTypes DEF Requests, ForeignRequests
    <3> QED BY <3>1, <3>3, <3>4, EffectType DEF TypeOK
  <2>2. foreign' \in 0..MaxForeign /\ minted' \in Nat
    BY <1>6, NumericTypes DEF ForeignChange
  <2> QED BY <1>6, <2>1, <2>2 DEF ForeignChange, TypeOK, objVars, passVars
<1>7. ASSUME NEW q \in inflight, Land(q) PROVE TypeOK'
  <2>1. q \in Requests
    BY DEF TypeOK
  <2>2. store' \in [Names -> StoredZones]
    BY <1>7, <2>1, RequestName, EffectType DEF Land, TypeOK
  <2> QED BY <1>7, <2>1, <2>2, RequestName DEF Land, TypeOK, objVars, passVars
<1> QED BY <1>1, <1>2, <1>3, <1>4, <1>5, <1>6, <1>7 DEF Environment

LEMMA InitType == Init => TypeOK
<1> SUFFICES ASSUME Init PROVE TypeOK
  OBVIOUS
<1>1. Absent \in StoredZones
  BY DEF Absent, StoredZones
<1>2. server \in ServerStates /\ MaxForeign \in Nat /\ MaxFaults \in Nat
  BY ZoneAssumption, FaultAssumption DEF Init
<1>3. Gone(0) \in Objects /\ NoStatus \in Statuses
  BY GoneType
<1> QED BY <1>1, <1>2, <1>3 DEF Init, TypeOK, PCs

LEMMA TypeStep == TypeOK /\ [Next]_vars => TypeOK'
<1>1. ASSUME TypeOK, UNCHANGED vars PROVE TypeOK'
  BY <1>1 DEF TypeOK, vars
<1> QED BY <1>1, PassStepType, OtherStepType DEF Next

\* Every variable of the Zone controller stays within its type.
THEOREM TypeCorrect == Spec => []TypeOK
BY InitType, TypeStep, PTL DEF Spec

-------------------------------------------------------------------------------
(***************************************************************************)
(* No zone is left in PowerDNS without a Zone resource that owns it, for   *)
(* any number of zones, faults and users.  The argument: an object only    *)
(* moves forward in the order Later; the cache and what a pass has read    *)
(* lie behind it; so a finalizer once seen on a live object can only have  *)
(* been removed by a pass that has seen the deletion, and that pass deletes *)
(* the zone first.                                                         *)
(***************************************************************************)

LEMMA LaterReflexive ==
  ASSUME NEW o \in Objects
  PROVE  Later(o, o)
BY StatusType DEF Later

LEMMA LaterTransitive ==
  ASSUME NEW a \in Objects, NEW b \in Objects, NEW c \in Objects, Later(a, b), Later(b, c)
  PROVE  Later(a, c)
BY StatusType DEF Later

\* Every write to an object leads to a later version of it.
LEMMA WritesAreLater ==
  ASSUME NEW o \in Objects
  PROVE  /\ Later(o, [o EXCEPT !.fin = TRUE])
         /\ Later(o, [o EXCEPT !.deleting = TRUE])
         /\ \A st \in Statuses : Later(o, [o EXCEPT !.status = st])
         /\ Later(o, Gone(o.gen))
         /\ \A s \in Specs : Later(o, WithSpec(o, s)) /\ Later(o, WithSpec(Gone(o.gen), s))
<1>1. o.gen \in Nat
  BY StatusType
<1>2. Gone(o.gen) \in Objects
  BY <1>1, GoneType
<1>3. \A s \in Specs : WithSpec(o, s).gen = o.gen + 1 /\ WithSpec(Gone(o.gen), s).gen = o.gen + 1
  BY <1>1, <1>2 DEF WithSpec, Gone, Objects
<1>4. \A s \in Specs : Later(o, WithSpec(o, s)) /\ Later(o, WithSpec(Gone(o.gen), s))
  BY <1>1, <1>3 DEF Later
<1>5. Later(o, Gone(o.gen))
  BY <1>1 DEF Later, Gone
<1>6. /\ Later(o, [o EXCEPT !.fin = TRUE])
      /\ Later(o, [o EXCEPT !.deleting = TRUE])
      /\ \A st \in Statuses : Later(o, [o EXCEPT !.status = st])
  <2>1. /\ [o EXCEPT !.fin = TRUE].gen = o.gen /\ [o EXCEPT !.deleting = TRUE].gen = o.gen
        /\ \A st \in Statuses : [o EXCEPT !.status = st].gen = o.gen
    BY DEF Objects
  <2>2. o.gen <= o.gen
    BY <1>1
  <2> QED BY <2>1, <2>2, Zenon DEF Later, Objects
<1> QED BY <1>4, <1>5, <1>6

\* The steps of a pass that call PowerDNS, and a crash, touch no object; the
\* pass goes on with what it read or ends.
PowerDNSCalls ==
  \/ GetZone \/ CreateZone \/ SeedSOA \/ Compensate \/ Adopt \/ UpdateZone \/ ListCryptokeys
  \/ Deactivate \/ Activate \/ CreateCryptokey \/ RectifyZone \/ RelistCryptokeys \/ DeleteZone

LEMMA CallsKeepObjects ==
  ASSUME PowerDNSCalls \/ Crash
  PROVE  /\ pc # "idle" /\ UNCHANGED <<zone, cached, cur>>
         /\ pc' = "idle" \/ base' = base
BY DEF PowerDNSCalls, Crash, GetZone, CreateZone, SeedSOA, Compensate, Adopt, UpdateZone,
       ListCryptokeys, AfterList, Deactivate, Activate, CreateCryptokey, RectifyZone,
       RelistCryptokeys, DeleteZone, Goto, Report, Finish, objVars

\* What others do to PowerDNS and to the server touches no object and no pass.
OutsideChanges ==
  \/ ServerChanges \/ (\E n \in Names : ForeignChange(n)) \/ (\E q \in inflight : Land(q))
  \/ UNCHANGED vars

LEMMA OutsideKeepsObjects ==
  ASSUME OutsideChanges
  PROVE  UNCHANGED <<zone, cached, pc, cur, base, active, todo>>
BY DEF OutsideChanges, ServerChanges, ForeignChange, Land, objVars, passVars, vars

UserChanges(z) == CreateCR(z) \/ EditSpec(z) \/ DeleteCR(z)

LEMMA StepCases ==
  ASSUME [Next]_vars
  PROVE  \/ PowerDNSCalls \/ Crash \/ AddFinalizer \/ WriteStatus \/ Release
         \/ (\E z \in Zones : BeginPass(z)) \/ OutsideChanges \/ Refresh
         \/ \E z \in Zones : UserChanges(z)
BY DEF Next, PassStep, Environment, PowerDNSCalls, OutsideChanges, UserChanges

\* Objects only move forward.
LEMMA ObjectsMoveOn ==
  ASSUME TypeOK, [Next]_vars
  PROVE  \A z \in Zones : Later(zone[z], zone'[z])
<1> SUFFICES ASSUME NEW z \in Zones PROVE Later(zone[z], zone'[z])
  OBVIOUS
<1>0. zone[z] \in Objects /\ todo \in Statuses /\ cur \in Zones
  BY DEF TypeOK
<1>1. CASE zone' = zone
  BY <1>0, <1>1, LaterReflexive
<1>2. CASE AddFinalizer
  BY <1>0, <1>2, LaterReflexive, WritesAreLater DEF AddFinalizer, TypeOK
<1>3. CASE WriteStatus
  BY <1>0, <1>3, LaterReflexive, WritesAreLater DEF WriteStatus, TypeOK
<1>4. CASE Release
  BY <1>0, <1>4, LaterReflexive, WritesAreLater DEF Release, TypeOK
<1>5. ASSUME NEW y \in Zones, UserChanges(y) PROVE Later(zone[z], zone'[z])
  <2>1. CASE CreateCR(y)
    <3>1. PICK sp \in Specs : zone' = [zone EXCEPT ![y] = WithSpec(Gone(zone[y].gen), sp)]
      BY <2>1 DEF CreateCR
    <3>2. zone'[z] = zone[z] \/ zone'[z] = WithSpec(Gone(zone[z].gen), sp)
      BY <3>1 DEF TypeOK
    <3> QED BY <1>0, <3>2, LaterReflexive, WritesAreLater, Zenon
  <2>2. CASE EditSpec(y)
    <3>1. PICK sp \in Specs : zone' = [zone EXCEPT ![y] = WithSpec(zone[y], sp)]
      BY <2>2 DEF EditSpec
    <3>2. zone'[z] = zone[z] \/ zone'[z] = WithSpec(zone[z], sp)
      BY <3>1 DEF TypeOK
    <3> QED BY <1>0, <3>2, LaterReflexive, WritesAreLater, Zenon
  <2>3. CASE DeleteCR(y)
    BY <1>0, <2>3, LaterReflexive, WritesAreLater DEF DeleteCR, TypeOK
  <2> QED BY <1>5, <2>1, <2>2, <2>3 DEF UserChanges
<1>6. (\E y \in Zones : BeginPass(y)) => zone' = zone
  BY DEF BeginPass, BeginAddFinalizer, BeginInvalid, BeginNotReady, BeginZone, BeginDelete,
         BeginDetach, objVars
<1>7. Refresh => zone' = zone
  BY DEF Refresh
<1> QED BY <1>1, <1>2, <1>3, <1>4, <1>5, <1>6, <1>7, StepCases, CallsKeepObjects,
           OutsideKeepsObjects

\* A pass starts from the cached object and touches nothing.
LEMMA BeginFacts ==
  ASSUME NEW z \in Zones, BeginPass(z)
  PROVE  /\ pc = "idle" /\ cached[z].up /\ cur' = z /\ base' = cached[z]
         /\ UNCHANGED <<objVars, storeVars, faults, histVars>>
         /\ pc' = "finalizer" => ~cached[z].deleting
         /\ pc' \in Working => pc' = "get" /\ cached[z].fin /\ ~cached[z].deleting
         /\ pc' \in {"delete", "detach"} => cached[z].deleting
         /\ pc' = "delete" => ~cached[z].orphan
         /\ pc' # "release" /\ pc' # "idle"
BY DEF BeginPass, BeginAddFinalizer, BeginInvalid, BeginNotReady, BeginZone, BeginDelete,
       BeginDetach, Begin, Working

\* Who moves the cache, and what a pass remembers.
LEMMA ReadFacts ==
  ASSUME [Next]_vars
  PROVE  /\ cached' = cached \/ (cached' = zone /\ zone' = zone)
         /\ \/ pc' = "idle"
            \/ pc # "idle" /\ UNCHANGED <<cur, base>>
            \/ \E z \in Zones : BeginPass(z) /\ cached' = cached
<1>1. CASE AddFinalizer \/ WriteStatus \/ Release
  BY <1>1 DEF AddFinalizer, WriteStatus, Release, Finish
<1>2. CASE Refresh
  BY <1>2 DEF Refresh, passVars
<1>3. ASSUME NEW z \in Zones, UserChanges(z)
      PROVE  cached' = cached /\ UNCHANGED <<pc, cur, base>>
  BY <1>3 DEF UserChanges, CreateCR, EditSpec, DeleteCR, passVars
<1>4. ASSUME NEW z \in Zones, BeginPass(z) PROVE cached' = cached
  BY <1>4, BeginFacts DEF objVars
<1> QED BY <1>1, <1>2, <1>3, <1>4, StepCases, CallsKeepObjects, OutsideKeepsObjects

LEMMA CacheLagsStep ==
  ASSUME TypeOK, TypeOK', CacheLags, [Next]_vars
  PROVE  CacheLags'
<1>t. \A z \in Zones : zone[z] \in Objects /\ zone'[z] \in Objects /\ cached[z] \in Objects
                        /\ cached'[z] \in Objects
  BY DEF TypeOK
<1>1. \A z \in Zones : Later(cached'[z], zone'[z])
  BY <1>t, ReadFacts, ObjectsMoveOn, LaterReflexive, LaterTransitive DEF CacheLags
<1>2. \A z \in Zones : Later(cached[z], cached'[z])
  BY <1>t, ReadFacts, LaterReflexive DEF CacheLags
<1>3. ASSUME pc' # "idle" PROVE base'.up /\ Later(base', cached'[cur'])
  <2>1. CASE pc # "idle" /\ UNCHANGED <<cur, base>>
    BY <2>1, <1>t, <1>2, LaterTransitive DEF CacheLags, TypeOK
  <2>2. ASSUME NEW z \in Zones, BeginPass(z), cached' = cached
        PROVE  base'.up /\ Later(base', cached'[cur'])
    BY <2>2, <1>t, BeginFacts, LaterReflexive
  <2> QED BY <1>3, <2>1, <2>2, ReadFacts
<1> QED BY <1>1, <1>3 DEF CacheLags

\* While the object is the one a deleting pass has read, no cached version of
\* it is live.
LEMMA DeletionWasCached ==
  ASSUME TypeOK, CacheLags, pc # "idle", base.deleting, Unmodified, cached[cur].up
  PROVE  cached[cur].deleting
<1>1. base \in Objects /\ cached[cur] \in Objects /\ zone[cur] \in Objects /\ cur \in Zones
  BY DEF TypeOK
<1>2. Later(base, cached[cur]) /\ Later(cached[cur], base)
  BY <1>1 DEF CacheLags, Unmodified
<1>3. base.gen = cached[cur].gen
  BY <1>1, <1>2, StatusType DEF Later
<1> QED BY <1>2, <1>3 DEF Later

\* Where a PowerDNS call leads.
LEMMA CallTransitions ==
  ASSUME PowerDNSCalls
  PROVE  \/ pc \in Working /\ pc' \in Working \cup {"status"} /\ base' = base
         \/ pc = "delete" /\ pc' = "release" /\ base' = base
         \/ pc = "delete" /\ pc' = "idle"
<1>1. CASE SeedSOA
  <2>1. PICK r \in Answers :
          Goto(CASE r = "ok" -> "list" [] r = "exists" -> "rollback" [] OTHER -> "compensate")
    BY <1>1 DEF SeedSOA
  <2>2. (CASE r = "ok" -> "list" [] r = "exists" -> "rollback" [] OTHER -> "compensate") \in Working
    BY DEF Working
  <2> QED BY <1>1, <2>1, <2>2 DEF SeedSOA, Goto, Working
<1>2. CASE GetZone \/ CreateZone \/ Compensate \/ Adopt \/ UpdateZone
  BY <1>2 DEF GetZone, CreateZone, Compensate, Adopt, UpdateZone, Goto, Report, Working
<1>3. CASE ListCryptokeys \/ Deactivate
  BY <1>3 DEF ListCryptokeys, AfterList, Deactivate, Goto, Report, Working
<1>4. CASE Activate \/ CreateCryptokey \/ RectifyZone \/ RelistCryptokeys
  BY <1>4 DEF Activate, CreateCryptokey, RectifyZone, RelistCryptokeys, Goto, Report, Working
<1>5. CASE DeleteZone
  BY <1>5 DEF DeleteZone, Goto, Finish
<1> QED BY <1>1, <1>2, <1>3, <1>4, <1>5 DEF PowerDNSCalls

\* The finalizer of a live object survives every step but the release of an
\* object that was deleted.
LEMMA FinalizerSurvives ==
  ASSUME TypeOK, CacheLags, FinalizerHolds, [Next]_vars,
         NEW z \in Zones, zone[z].up, zone[z].fin,
         ~(Release /\ Unmodified /\ z = cur)
  PROVE  zone'[z].up /\ zone'[z].fin
<1>0. zone[z] \in Objects /\ cur \in Zones
  BY DEF TypeOK
<1>1. CASE zone' = zone
  BY <1>1
<1>2. CASE AddFinalizer
  BY <1>0, <1>2 DEF AddFinalizer, TypeOK, Objects
<1>3. CASE WriteStatus
  BY <1>0, <1>3 DEF WriteStatus, TypeOK, Objects
<1>4. CASE Release
  BY <1>0, <1>4 DEF Release, TypeOK
<1>5. ASSUME NEW y \in Zones, UserChanges(y) PROVE zone'[z].up /\ zone'[z].fin
  <2>1. CASE y # z
    BY <1>5, <2>1 DEF UserChanges, CreateCR, EditSpec, DeleteCR, TypeOK
  <2>2. CASE y = z
    <3>1. CASE EditSpec(z)
      <4>1. \A sp \in Specs : WithSpec(zone[z], sp).up /\ WithSpec(zone[z], sp).fin = zone[z].fin
        BY <1>0 DEF WithSpec, Objects
      <4> QED BY <3>1, <4>1 DEF EditSpec, TypeOK
    <3>2. CASE DeleteCR(z)
      BY <1>0, <3>2 DEF DeleteCR, TypeOK, Objects
    <3> QED BY <1>5, <2>2, <3>1, <3>2 DEF UserChanges, CreateCR
  <2> QED BY <2>1, <2>2
<1> QED BY <1>1, <1>2, <1>3, <1>4, <1>5, StepCases, CallsKeepObjects, OutsideKeepsObjects,
           BeginFacts DEF Refresh, objVars

LEMMA FinalizerHoldsStep ==
  ASSUME TypeOK, TypeOK', CacheLags, FinalizerHolds, [Next]_vars
  PROVE  FinalizerHolds'
<1>1. ASSUME NEW z \in Zones, cached'[z].up, cached'[z].fin, ~cached'[z].deleting
      PROVE  zone'[z].up /\ zone'[z].fin
  <2>1. CASE cached' = zone /\ zone' = zone
    BY <1>1, <2>1
  <2>2. CASE cached' = cached
    <3>1. zone[z].up /\ zone[z].fin
      BY <1>1, <2>2 DEF FinalizerHolds
    <3>2. ~(Release /\ Unmodified /\ z = cur)
      BY <1>1, <2>2, DeletionWasCached DEF Release, FinalizerHolds
    <3> QED BY <3>1, <3>2, FinalizerSurvives
  <2> QED BY <2>1, <2>2, ReadFacts
<1>2. ASSUME pc' \in Working PROVE zone'[cur'].up /\ zone'[cur'].fin
  <2>1. ASSUME NEW z \in Zones, BeginPass(z) PROVE zone'[cur'].up /\ zone'[cur'].fin
    BY <1>2, <2>1, BeginFacts DEF FinalizerHolds, objVars
  <2>2. CASE pc \in Working /\ cur' = cur
    <3>1. cur \in Zones /\ zone[cur].up /\ zone[cur].fin
      BY <2>2 DEF FinalizerHolds, TypeOK
    <3>2. ~Release
      BY <2>2 DEF Release, Working
    <3> QED BY <2>2, <3>1, <3>2, FinalizerSurvives
  <2>3. CASE PowerDNSCalls
    BY <1>2, <2>2, <2>3, CallTransitions, CallsKeepObjects DEF Working
  <2>4. CASE Crash \/ AddFinalizer \/ WriteStatus \/ Release
    BY <1>2, <2>4 DEF Crash, AddFinalizer, WriteStatus, Release, Finish, Working
  <2>5. CASE OutsideChanges \/ Refresh \/ \E z \in Zones : UserChanges(z)
    BY <1>2, <2>2, <2>5, OutsideKeepsObjects
    DEF Refresh, UserChanges, CreateCR, EditSpec, DeleteCR, passVars
  <2> QED BY <2>1, <2>3, <2>4, <2>5, StepCases
<1>3. /\ pc' = "finalizer" => ~base'.deleting
      /\ pc' \in {"delete", "release", "detach"} => base'.deleting
      /\ pc' \in {"delete", "release"} => ~base'.orphan
  <2>1. CASE \E z \in Zones : BeginPass(z)
    BY <2>1, BeginFacts
  <2>2. CASE PowerDNSCalls
    BY <2>2, CallTransitions DEF FinalizerHolds, Working
  <2>3. CASE Crash \/ AddFinalizer \/ WriteStatus \/ Release
    BY <2>3 DEF Crash, AddFinalizer, WriteStatus, Release, Finish
  <2>4. CASE OutsideChanges \/ Refresh \/ \E z \in Zones : UserChanges(z)
    BY <2>4, OutsideKeepsObjects
    DEF FinalizerHolds, Refresh, UserChanges, CreateCR, EditSpec, DeleteCR, passVars
  <2> QED BY <2>1, <2>2, <2>3, <2>4, StepCases
<1> QED BY <1>1, <1>2, <1>3 DEF FinalizerHolds

-------------------------------------------------------------------------------
(* PowerDNS *)

\* Which zone of PowerDNS a step may change, and how: the pass its own, by the
\* request it sends; others one they mark as disturbed.
LEMMA StoreFacts ==
  ASSUME TypeOK, [Next]_vars
  PROVE  /\ disturbed \subseteq disturbed'
         /\ \A n \in Names \ disturbed' :
              store'[n] # store[n] => PowerDNSCalls /\ n = Name(cur) /\ disturbed' = disturbed
<1>1. CASE PowerDNSCalls
  <2>1. disturbed' = disturbed
    BY <1>1 DEF PowerDNSCalls, GetZone, CreateZone, SeedSOA, Compensate, Adopt, UpdateZone,
                ListCryptokeys, Deactivate, Activate, CreateCryptokey, RectifyZone,
                RelistCryptokeys, DeleteZone, histVars
  <2>2. CASE store' = store
    BY <1>1, <2>1, <2>2
  <2>3. CASE \E op, a, r : Call(<<op, Name(cur), a>>, r)
    <3>1. PICK op, a, r : Call(<<op, Name(cur), a>>, r)
      BY <2>3
    <3>2. store' = store \/ store' = [store EXCEPT ![Name(cur)] = Effect(<<op, Name(cur), a>>, @)]
      BY <3>1, CallEffect
    <3> QED BY <1>1, <2>1, <3>2, CurName DEF TypeOK
  <2>4. CASE GetZone \/ Adopt \/ ListCryptokeys \/ RelistCryptokeys
    BY <2>2, <2>4 DEF GetZone, Adopt, ListCryptokeys, RelistCryptokeys, Fetch
  <2>5. CASE CreateZone \/ SeedSOA \/ Compensate \/ UpdateZone
    BY <2>3, <2>5 DEF CreateZone, SeedSOA, Compensate, UpdateZone
  <2>6. CASE Deactivate \/ Activate \/ CreateCryptokey \/ RectifyZone \/ DeleteZone
    BY <2>3, <2>6 DEF Deactivate, Activate, CreateCryptokey, RectifyZone, DeleteZone
  <2> QED BY <1>1, <2>4, <2>5, <2>6 DEF PowerDNSCalls
<1>2. CASE Crash \/ AddFinalizer \/ WriteStatus \/ Release \/ Refresh
  BY <1>2 DEF Crash, AddFinalizer, WriteStatus, Release, Refresh, storeVars, histVars
<1>3. CASE \E z \in Zones : BeginPass(z)
  BY <1>3, BeginFacts DEF storeVars, histVars
<1>4. CASE \E z \in Zones : UserChanges(z)
  BY <1>4 DEF UserChanges, CreateCR, EditSpec, DeleteCR, storeVars, histVars
<1>5. CASE OutsideChanges
  <2>1. CASE ServerChanges \/ UNCHANGED vars
    BY <2>1 DEF ServerChanges, vars, storeVars
  <2>2. ASSUME NEW n \in Names, ForeignChange(n)
        PROVE  disturbed' = disturbed \cup {n} /\ \A m \in Names \ {n} : store'[m] = store[m]
    BY <2>2 DEF ForeignChange, TypeOK
  <2>3. ASSUME NEW q \in inflight, Land(q)
        PROVE  disturbed' = disturbed \cup {q[2]} /\ \A m \in Names \ {q[2]} : store'[m] = store[m]
    BY <2>3 DEF Land, TypeOK
  <2> QED BY <1>5, <2>1, <2>2, <2>3 DEF OutsideChanges
<1> QED BY <1>1, <1>2, <1>3, <1>4, <1>5, StepCases

\* Only a pass on a live Zone makes a zone appear.
LEMMA AppearsByCreate ==
  ASSUME TypeOK, [Next]_vars, NEW n \in Names \ disturbed', store'[n].up, ~store[n].up
  PROVE  n = Name(cur) /\ pc = "create" /\ PowerDNSCalls
<1>1. PowerDNSCalls /\ n = Name(cur)
  BY StoreFacts
<1>2. store[n] \in StoredZones /\ ~Absent.up
  BY DEF TypeOK, Absent
<1>3. \A op, a : op # "create" /\ op \in {"delete", "seed", "update", "addkey", "on", "off", "rectify"}
        => ~Effect(<<op, n, a>>, store[n]).up
  BY <1>2 DEF Effect
<1>4. ASSUME NEW op \in {"delete", "seed", "update", "addkey", "on", "off", "rectify"},
             NEW a, NEW r, Call(<<op, n, a>>, r)
      PROVE  FALSE
  BY <1>3, <1>4, CallEffect DEF TypeOK
<1>5. CASE GetZone \/ Adopt \/ ListCryptokeys \/ RelistCryptokeys
  BY <1>5 DEF GetZone, Adopt, ListCryptokeys, RelistCryptokeys, Fetch
<1>6. CASE SeedSOA \/ Compensate \/ UpdateZone
  BY <1>1, <1>4, <1>6 DEF SeedSOA, Compensate, UpdateZone
<1>7. CASE Deactivate \/ Activate \/ CreateCryptokey \/ RectifyZone \/ DeleteZone
  BY <1>1, <1>4, <1>7 DEF Deactivate, Activate, CreateCryptokey, RectifyZone, DeleteZone
<1> QED BY <1>1, <1>5, <1>6, <1>7 DEF PowerDNSCalls, CreateZone

LEMMA ReleaseAfterDeleteStep ==
  ASSUME TypeOK, ReleaseAfterDelete, [Next]_vars
  PROVE  ReleaseAfterDelete'
<1> SUFFICES ASSUME pc' = "release", Name(cur') \notin disturbed'
             PROVE  ~store'[Name(cur')].up
  BY DEF ReleaseAfterDelete, Undisturbed, Name
<1>1. CASE PowerDNSCalls
  <2>1. DeleteZone /\ cur' = cur
    <3>1. pc = "delete" /\ cur' = cur
      BY <1>1, CallTransitions, CallsKeepObjects DEF Working
    <3>2. ~(GetZone \/ CreateZone \/ SeedSOA \/ Compensate \/ Adopt \/ UpdateZone)
      BY <3>1 DEF GetZone, CreateZone, SeedSOA, Compensate, Adopt, UpdateZone
    <3>3. ~(ListCryptokeys \/ Deactivate \/ Activate \/ CreateCryptokey \/ RectifyZone
            \/ RelistCryptokeys)
      BY <3>1 DEF ListCryptokeys, Deactivate, Activate, CreateCryptokey, RectifyZone,
                  RelistCryptokeys
    <3> QED BY <1>1, <3>1, <3>2, <3>3 DEF PowerDNSCalls
  <2>2. Call(<<"delete", Name(cur), "">>, "ok")
    BY <2>1 DEF DeleteZone, Finish
  <2>3. store' = [store EXCEPT ![Name(cur)] = Absent]
    <3>1. store' = [store EXCEPT ![Name(cur)] = Effect(<<"delete", Name(cur), "">>, store[Name(cur)])]
      BY <2>2, CallChanges
    <3>2. Effect(<<"delete", Name(cur), "">>, store[Name(cur)]) = Absent
      BY DeleteEffect
    <3> QED BY <3>1, <3>2
  <2> QED BY <2>1, <2>3, CurName DEF TypeOK, Absent
<1>2. CASE pc = "release" /\ cur' = cur /\ ~PowerDNSCalls
  <2>1. Undisturbed /\ ~store[Name(cur)].up
    BY <1>2, StoreFacts DEF ReleaseAfterDelete, Undisturbed
  <2> QED BY <1>2, <2>1, StoreFacts, CurName
<1>3. CASE Crash \/ AddFinalizer \/ WriteStatus \/ Release
  BY <1>3 DEF Crash, AddFinalizer, WriteStatus, Release, Finish
<1>4. CASE \E z \in Zones : BeginPass(z)
  BY <1>4, BeginFacts
<1>5. CASE OutsideChanges \/ Refresh \/ \E z \in Zones : UserChanges(z)
  BY <1>1, <1>2, <1>5, OutsideKeepsObjects
  DEF Refresh, UserChanges, CreateCR, EditSpec, DeleteCR, passVars
<1> QED BY <1>1, <1>3, <1>4, <1>5, StepCases

\* A name is taken off left only when its zone has been deleted.
LEMMA LeftKept ==
  ASSUME [Next]_vars, NEW n \in left, n \notin left'
  PROVE  Release /\ Unmodified /\ pc = "release" /\ n = Name(cur)
<1>1. CASE PowerDNSCalls
  BY <1>1 DEF PowerDNSCalls, GetZone, CreateZone, SeedSOA, Compensate, Adopt, UpdateZone,
              ListCryptokeys, Deactivate, Activate, CreateCryptokey, RectifyZone,
              RelistCryptokeys, DeleteZone, histVars
<1>2. CASE Crash \/ AddFinalizer \/ WriteStatus \/ Refresh
  BY <1>2 DEF Crash, AddFinalizer, WriteStatus, Refresh, histVars
<1>3. CASE Release
  BY <1>3 DEF Release
<1>4. CASE (\E z \in Zones : BeginPass(z)) \/ \E z \in Zones : UserChanges(z)
  BY <1>4, BeginFacts DEF UserChanges, CreateCR, EditSpec, DeleteCR, histVars
<1>5. CASE OutsideChanges
  BY <1>5 DEF OutsideChanges, ServerChanges, ForeignChange, Land, vars
<1> QED BY <1>1, <1>2, <1>3, <1>4, <1>5, StepCases

LEMMA NoUnownedZoneStep ==
  ASSUME OwnershipInv, [Next]_vars
  PROVE  NoUnownedZone'
<1> USE DEF OwnershipInv
<1> SUFFICES ASSUME NEW n \in Names, store'[n].up, n \notin disturbed', n \notin left'
             PROVE  \E z \in Zones : Name(z) = n /\ zone'[z].up /\ zone'[z].fin
  BY DEF NoUnownedZone, Name
<1>0. n \notin disturbed /\ cur \in Zones
  BY StoreFacts DEF TypeOK
<1>1. CASE store[n].up /\ n \notin left
  <2>1. PICK z \in Zones : Name(z) = n /\ zone[z].up /\ zone[z].fin
    BY <1>0, <1>1 DEF NoUnownedZone
  <2>2. CASE Release /\ Unmodified /\ z = cur
    <3>1. pc = "release" => ~store[n].up
      BY <1>0, <2>1, <2>2 DEF ReleaseAfterDelete, Undisturbed
    <3>2. pc = "detach" => n \in left'
      BY <2>1, <2>2 DEF Release
    <3> QED BY <1>1, <2>2, <3>1, <3>2 DEF Release
  <2>3. CASE ~(Release /\ Unmodified /\ z = cur)
    BY <2>1, <2>3, FinalizerSurvives
  <2> QED BY <2>2, <2>3
<1>2. CASE ~store[n].up
  <2>1. n = Name(cur) /\ pc = "create" /\ PowerDNSCalls
    BY <1>2, AppearsByCreate
  <2>2. zone[cur].up /\ zone[cur].fin /\ zone' = zone
    BY <2>1, CallsKeepObjects DEF FinalizerHolds, Working
  <2> QED BY <1>0, <2>1, <2>2
<1>3. CASE store[n].up /\ n \in left
  <2>1. Release /\ Unmodified /\ pc = "release" /\ n = Name(cur)
    BY <1>3, LeftKept
  <2> QED BY <1>0, <1>3, <2>1 DEF ReleaseAfterDelete, Undisturbed
<1> QED BY <1>1, <1>2, <1>3

LEMMA InitOwnership == Init => OwnershipInv
<1> SUFFICES ASSUME Init PROVE OwnershipInv
  OBVIOUS
<1>1. TypeOK
  BY InitType
<1>2. CacheLags
  BY <1>1, LaterReflexive DEF Init, CacheLags, TypeOK
<1>3. FinalizerHolds /\ ReleaseAfterDelete
  BY DEF Init, FinalizerHolds, ReleaseAfterDelete, Gone, Working
<1>4. NoUnownedZone
  BY DEF Init, NoUnownedZone, Absent
<1> QED BY <1>1, <1>2, <1>3, <1>4 DEF OwnershipInv

LEMMA OwnershipStep == OwnershipInv /\ [Next]_vars => OwnershipInv'
BY TypeStep, CacheLagsStep, FinalizerHoldsStep, ReleaseAfterDeleteStep, NoUnownedZoneStep
DEF OwnershipInv

\* Every zone PowerDNS has is owned: whoever created it still has its finalizer,
\* or it was left there on purpose, or it is somebody else's doing.
THEOREM Ownership == Spec => []NoUnownedZone
<1>1. OwnershipInv => NoUnownedZone
  BY DEF OwnershipInv
<1> QED BY <1>1, InitOwnership, OwnershipStep, PTL DEF Spec

-------------------------------------------------------------------------------
(***************************************************************************)
(* The Zone controller implements ZoneRegistry, for any number of Zones,   *)
(* names, faults and users.  Each step changes one name at most, and       *)
(* either its zone or its claim: the calls of a pass change the zone of    *)
(* the pass, AddFinalizer and Release its claim, others change a zone they *)
(* mark as disturbed.  What the registry demands before such a change is   *)
(* in OwnershipInv.                                                        *)
(***************************************************************************)

Claimed(z) == zone[z].up /\ zone[z].fin

\* A call changes the zone of its pass only, and no history.
LEMMA CallsChangeOneZone ==
  ASSUME TypeOK, PowerDNSCalls
  PROVE  /\ UNCHANGED <<disturbed, left>>
         /\ \A n \in Names \ {Name(cur)} : store'[n] = store[n]
<1>1. UNCHANGED <<disturbed, left>>
  BY DEF PowerDNSCalls, GetZone, CreateZone, SeedSOA, Compensate, Adopt, UpdateZone,
         ListCryptokeys, Deactivate, Activate, CreateCryptokey, RectifyZone,
         RelistCryptokeys, DeleteZone, histVars
<1>2. ASSUME NEW op, NEW a, NEW r, Call(<<op, Name(cur), a>>, r)
      PROVE  \A n \in Names \ {Name(cur)} : store'[n] = store[n]
  <2>1. store' = store \/ store' = [store EXCEPT ![Name(cur)] = Effect(<<op, Name(cur), a>>, @)]
    BY <1>2, CallEffect
  <2> QED BY <2>1 DEF TypeOK
<1>3. CASE GetZone \/ Adopt \/ ListCryptokeys \/ RelistCryptokeys
  BY <1>1, <1>3 DEF GetZone, Adopt, ListCryptokeys, RelistCryptokeys, Fetch
<1>4. CASE CreateZone \/ SeedSOA \/ Compensate \/ UpdateZone
  BY <1>1, <1>2, <1>4 DEF CreateZone, SeedSOA, Compensate, UpdateZone
<1>5. CASE Deactivate \/ Activate \/ CreateCryptokey \/ RectifyZone \/ DeleteZone
  BY <1>1, <1>2, <1>5 DEF Deactivate, Activate, CreateCryptokey, RectifyZone, DeleteZone
<1> QED BY <1>3, <1>4, <1>5 DEF PowerDNSCalls

\* PowerDNS has the same zones but for n.
LEMMA HeldChanges ==
  ASSUME NEW n \in Names, \A m \in Names \ {n} : store'[m] = store[m]
  PROVE  /\ store'[n].up => Held' = Held \cup {n}
         /\ ~store'[n].up => Held' = Held \ {n}
BY DEF Held

\* The same names are claimed as long as each Zone keeps its claim.
LEMMA OwnedKept ==
  ASSUME \A z \in Zones : (zone'[z].up /\ zone'[z].fin) <=> Claimed(z)
  PROVE  Owned' = Owned
BY DEF Owned, Claimed, Name

\* Users neither give a Zone a finalizer nor take it away.
LEMMA UsersKeepClaims ==
  ASSUME TypeOK, NEW y \in Zones, UserChanges(y)
  PROVE  Owned' = Owned
<1> SUFFICES ASSUME NEW z \in Zones PROVE (zone'[z].up /\ zone'[z].fin) <=> Claimed(z)
  BY OwnedKept
<1>0. zone[z] \in Objects /\ zone[y] \in Objects /\ zone[z].gen \in Nat
  BY StatusType DEF TypeOK
<1>1. CASE z # y
  BY <1>1 DEF UserChanges, CreateCR, EditSpec, DeleteCR, TypeOK, Claimed
<1>2. CASE z = y /\ CreateCR(z)
  <2>1. \A sp \in Specs : WithSpec(Gone(zone[z].gen), sp).fin = FALSE
    BY DEF WithSpec, Gone
  <2> QED BY <1>2, <2>1 DEF CreateCR, TypeOK, Claimed
<1>3. CASE z = y /\ EditSpec(z)
  <2>1. \A sp \in Specs : WithSpec(zone[z], sp).up /\ WithSpec(zone[z], sp).fin = zone[z].fin
    BY <1>0 DEF WithSpec, Objects
  <2> QED BY <1>3, <2>1 DEF EditSpec, TypeOK, Claimed
<1>4. CASE z = y /\ DeleteCR(z)
  BY <1>0, <1>4 DEF DeleteCR, TypeOK, Claimed, Gone, Objects
<1> QED BY <1>1, <1>2, <1>3, <1>4 DEF UserChanges

\* A write to one object adds or ends its claim, and no other.
LEMMA OwnedChanges ==
  ASSUME TypeOK, \A z \in Zones \ {cur} : zone'[z] = zone[z]
  PROVE  /\ zone'[cur].up /\ zone'[cur].fin => Owned' = Owned \cup {Name(cur)}
         /\ Owned' \in {Owned, Owned \ {Name(cur)}, Owned \cup {Name(cur)}}
         /\ ~(zone'[cur].up /\ zone'[cur].fin) => Owned' \in {Owned, Owned \ {Name(cur)}}
<1>0. cur \in Zones /\ Name(cur) \in Names
  BY CurName DEF TypeOK
<1>1. \A n \in Names \ {Name(cur)} : n \in Owned' <=> n \in Owned
  BY <1>0 DEF Owned, Name
<1>2. zone'[cur].up /\ zone'[cur].fin => Name(cur) \in Owned'
  BY <1>0 DEF Owned, Name
<1>3. ~(zone'[cur].up /\ zone'[cur].fin) /\ Name(cur) \in Owned' => Name(cur) \in Owned
  BY <1>0 DEF Owned, Name
<1>4. Owned \subseteq Names /\ Owned' \subseteq Names
  BY DEF Owned
<1> QED BY <1>0, <1>1, <1>2, <1>3, <1>4

LEMMA CallsImplement ==
  ASSUME OwnershipInv, [Next]_vars, PowerDNSCalls
  PROVE  [Registry!Next]_(Registry!registry)
<1> DEFINE n == Name(cur)
<1>0. TypeOK /\ n \in Names /\ cur \in Zones
  BY CurName DEF OwnershipInv, TypeOK
<1>1. UNCHANGED <<Owned, Excused>>
  BY <1>0, CallsKeepObjects, CallsChangeOneZone DEF Owned, Excused, Name
<1>2. /\ store'[n].up => Held' = Held \cup {n}
      /\ ~store'[n].up => Held' = Held \ {n}
  BY <1>0, CallsChangeOneZone, HeldChanges
<1>3. CASE store'[n].up = store[n].up
  <2>1. Held' = Held
    BY <1>0, <1>2, <1>3 DEF Held
  <2> QED BY <1>1, <2>1 DEF Registry!registry
<1>4. CASE ~store[n].up /\ store'[n].up
  <2>1. CASE n \in disturbed
    <3>1. Excused' = Excused \cup {n}
      BY <1>1, <2>1 DEF Excused
    <3> QED BY <1>0, <1>1, <1>2, <1>4, <3>1 DEF Registry!Next, Registry!Intervene
  <2>2. CASE n \notin disturbed
    <3>1. pc = "create"
      BY <1>0, <1>4, <2>2, AppearsByCreate, CallsChangeOneZone
    <3>2. n \in Owned
      BY <1>0, <3>1 DEF OwnershipInv, FinalizerHolds, Working, Owned
    <3> QED BY <1>0, <1>1, <1>2, <1>4, <3>2 DEF Registry!Next, Registry!Create
  <2> QED BY <2>1, <2>2
<1>5. CASE store[n].up /\ ~store'[n].up
  <2>1. n \in Owned \cup Excused
    BY <1>0, <1>5 DEF OwnershipInv, NoUnownedZone, Owned, Excused
  <2> QED BY <1>0, <1>1, <1>2, <1>5, <2>1 DEF Registry!Next, Registry!Remove
<1>6. store[n].up \in BOOLEAN /\ store'[n].up \in BOOLEAN
  BY <1>0, TypeStep DEF TypeOK, StoredZones
<1> QED BY <1>3, <1>4, <1>5, <1>6

LEMMA ReleaseImplements ==
  ASSUME OwnershipInv, Release
  PROVE  [Registry!Next]_(Registry!registry)
<1> DEFINE n == Name(cur)
<1>0. TypeOK /\ n \in Names /\ cur \in Zones
  BY CurName DEF OwnershipInv, TypeOK
<1>1. UNCHANGED <<Held, disturbed>>
  BY DEF Release, storeVars, Held
<1>2. CASE ~Unmodified
  BY <1>1, <1>2 DEF Release, Registry!registry, Owned, Excused, Name
<1>3. CASE Unmodified
  <2>1. /\ \A z \in Zones \ {cur} : zone'[z] = zone[z]
        /\ ~zone'[cur].up
    BY <1>0, <1>3 DEF Release, TypeOK, Gone
  <2>2. Owned' \in {Owned, Owned \ {n}}
    BY <1>0, <2>1, OwnedChanges
  <2>3. CASE pc = "detach" \/ n \in disturbed
    <3>1. Excused' = Excused \cup {n}
      BY <1>1, <1>3, <2>3 DEF Release, Excused
    <3> QED BY <1>0, <1>1, <2>2, <3>1 DEF Registry!Next, Registry!Leave
  <2>4. CASE pc = "release" /\ n \notin disturbed
    <3>1. n \notin Held
      BY <2>4 DEF OwnershipInv, ReleaseAfterDelete, Undisturbed, Held
    <3>2. Excused' = Excused \ {n}
      BY <1>1, <1>3, <2>4 DEF Release, Excused
    <3> QED BY <1>0, <1>1, <2>2, <3>1, <3>2 DEF Registry!Next, Registry!Release
  <2> QED BY <2>3, <2>4 DEF Release
<1> QED BY <1>2, <1>3

LEMMA OutsideImplements ==
  ASSUME OwnershipInv, OutsideChanges
  PROVE  [Registry!Next]_(Registry!registry)
<1>0. TypeOK
  BY DEF OwnershipInv
<1>1. Owned' = Owned
  BY OutsideKeepsObjects DEF Owned, Name
<1>2. CASE ServerChanges \/ UNCHANGED vars
  BY <1>1, <1>2 DEF ServerChanges, vars, storeVars, Registry!registry, Held, Excused
<1>3. ASSUME NEW n \in Names, \A m \in Names \ {n} : store'[m] = store[m],
             disturbed' = disturbed \cup {n}, left' = left
      PROVE  Registry!Next
  <2>1. Held' \in {Held, Held \cup {n}, Held \ {n}}
    BY <1>3, HeldChanges
  <2>2. Excused' = Excused \cup {n}
    BY <1>3 DEF Excused
  <2> QED BY <1>1, <2>1, <2>2 DEF Registry!Next, Registry!Intervene
<1>4. ASSUME NEW n \in Names, ForeignChange(n) PROVE Registry!Next
  BY <1>0, <1>3, <1>4 DEF ForeignChange, TypeOK
<1>5. ASSUME NEW q \in inflight, Land(q) PROVE Registry!Next
  <2>1. q[2] \in Names
    BY <1>0, RequestName DEF TypeOK
  <2> QED BY <1>0, <1>3, <1>5, <2>1 DEF Land, TypeOK
<1> QED BY <1>2, <1>4, <1>5 DEF OutsideChanges

LEMMA StepImplements ==
  ASSUME OwnershipInv, [Next]_vars
  PROVE  [Registry!Next]_(Registry!registry)
<1>0. TypeOK /\ cur \in Zones /\ Name(cur) \in Names
  BY CurName DEF OwnershipInv, TypeOK
<1>1. CASE AddFinalizer
  <2>1. UNCHANGED <<Held, Excused>>
    BY <1>1 DEF AddFinalizer, storeVars, histVars, Held, Excused
  <2>2. CASE ~Unmodified
    BY <1>1, <2>1, <2>2 DEF AddFinalizer, Registry!registry, Owned, Name
  <2>3. CASE Unmodified
    <3>1. zone[cur].up /\ zone[cur] \in Objects
      BY <1>0, <1>1, <2>3 DEF AddFinalizer, Unmodified, OwnershipInv, CacheLags, TypeOK
    <3>2. /\ \A z \in Zones \ {cur} : zone'[z] = zone[z]
          /\ zone'[cur].up /\ zone'[cur].fin
      BY <1>0, <1>1, <2>3, <3>1 DEF AddFinalizer, TypeOK, Objects
    <3>3. Owned' = Owned \cup {Name(cur)}
      BY <1>0, <3>2, OwnedChanges
    <3> QED BY <1>0, <2>1, <3>3 DEF Registry!Next, Registry!Claim
  <2> QED BY <2>2, <2>3
<1>2. CASE WriteStatus
  <2>1. UNCHANGED <<Held, Excused>>
    BY <1>2 DEF WriteStatus, storeVars, Held, Excused
  <2>2. \A z \in Zones : zone[z] \in Objects
    BY <1>0 DEF TypeOK
  <2>3. \A z \in Zones : (zone'[z].up /\ zone'[z].fin) <=> Claimed(z)
    BY <1>0, <1>2, <2>2 DEF WriteStatus, TypeOK, Objects, Claimed
  <2> QED BY <2>1, <2>3, OwnedKept DEF Registry!registry
<1>3. CASE Crash \/ Refresh \/ \E z \in Zones : BeginPass(z)
  <2>1. UNCHANGED <<zone, store, disturbed, left>>
    BY <1>3, BeginFacts DEF Crash, Refresh, objVars, storeVars, histVars
  <2> QED BY <2>1 DEF Registry!registry, Held, Owned, Excused, Name
<1>4. ASSUME NEW z \in Zones, UserChanges(z) PROVE UNCHANGED Registry!registry
  <2>1. UNCHANGED <<Held, Excused>>
    BY <1>4 DEF UserChanges, CreateCR, EditSpec, DeleteCR, storeVars, histVars, Held, Excused
  <2> QED BY <1>0, <1>4, <2>1, UsersKeepClaims DEF Registry!registry
<1> QED BY <1>1, <1>2, <1>3, <1>4, CallsImplement, ReleaseImplements, OutsideImplements, StepCases

LEMMA InitImplements == Init => Registry!Init
<1> SUFFICES ASSUME Init PROVE Held = {} /\ Owned = {} /\ Excused = {}
  BY DEF Registry!Init
<1>1. Held = {}
  BY DEF Init, Held, Absent
<1>2. Owned = {}
  <2>1. \A z \in Zones : ~zone[z].up
    BY DEF Init, Gone
  <2> QED BY <2>1 DEF Owned
<1>3. Excused = {}
  BY DEF Init, Excused
<1> QED BY <1>1, <1>2, <1>3

\* Every behaviour of the Zone controller is one the registry allows: zones are
\* created and removed under a claim, and a claim ends when the zone is gone
\* (zone_controller.go:53).
THEOREM Refinement == Spec => ImplementsRegistry
<1>1. OwnershipInv /\ [Next]_vars => [Registry!Next]_(Registry!registry)
  BY StepImplements
<1> QED BY <1>1, InitImplements, InitOwnership, OwnershipStep, PTL
        DEF Spec, ImplementsRegistry, Registry!Spec

-------------------------------------------------------------------------------
(* What a pass sends to PowerDNS *)

\* The request the pass sends from where it is.
Sends(q) ==
  /\ q \in Requests /\ q[2] = Name(cur)
  /\ q[1] = "create" => pc = "create"
  /\ q[1] = "seed" => pc = "seed"
  /\ q[1] = "addkey" => pc = "addkey"
  /\ pc \in {"compensate", "rollback"} => q[1] = "delete"

\* A pass that calls PowerDNS reads, or sends one request about its own zone.
LEMMA CallsSend ==
  ASSUME TypeOK, PowerDNSCalls
  PROVE  \/ /\ pc \in {"get", "adopt", "list", "relist"} /\ UNCHANGED <<store, inflight>>
            /\ faults' = faults \/ faults' = faults + 1
         \/ \E q, r : Sends(q) /\ Call(q, r)
<1> DEFINE n == Name(cur)
<1>n. n \in Names /\ base.meta \in Metas \cup {""} /\ minted + 1 \in Nat
  BY CurName, NumericTypes DEF TypeOK, Objects
<1>1. CASE GetZone \/ Adopt \/ ListCryptokeys \/ RelistCryptokeys
  BY <1>1 DEF GetZone, Adopt, ListCryptokeys, RelistCryptokeys, Fetch, Charge
<1>2. CASE CreateZone
  <2>1. PICK r : Call(<<"create", n, base.meta>>, r)
    BY <1>2 DEF CreateZone
  <2>2. Sends(<<"create", n, base.meta>>)
    BY <1>2, <1>n DEF CreateZone, Sends, Requests
  <2> QED BY <2>1, <2>2
<1>3. CASE SeedSOA
  <2>1. PICK r : Call(<<"seed", n, "">>, r)
    BY <1>3 DEF SeedSOA
  <2>2. Sends(<<"seed", n, "">>)
    BY <1>3, <1>n DEF SeedSOA, Sends, Requests
  <2> QED BY <2>1, <2>2
<1>4. CASE Compensate \/ DeleteZone
  <2>1. PICK r : Call(<<"delete", n, "">>, r)
    BY <1>4 DEF Compensate, DeleteZone
  <2>2. Sends(<<"delete", n, "">>)
    BY <1>4, <1>n DEF Compensate, DeleteZone, Sends, Requests
  <2> QED BY <2>1, <2>2
<1>5. CASE UpdateZone
  <2>1. PICK r : Call(<<"update", n, base.meta>>, r)
    BY <1>5 DEF UpdateZone
  <2>2. Sends(<<"update", n, base.meta>>)
    BY <1>5, <1>n DEF UpdateZone, Sends, Requests
  <2> QED BY <2>1, <2>2
<1>6. CASE Deactivate
  <2>1. PICK k, r : k \in active /\ Call(<<"off", n, k>>, r)
    BY <1>6 DEF Deactivate
  <2>2. Sends(<<"off", n, k>>)
    BY <1>6, <2>1, <1>n DEF Deactivate, Sends, Requests, TypeOK
  <2> QED BY <2>1, <2>2
<1>7. CASE Activate
  <2>1. PICK k, r : k \in keys /\ Call(<<"on", n, k>>, r)
    BY <1>7 DEF Activate
  <2>2. Sends(<<"on", n, k>>)
    BY <1>7, <2>1, <1>n DEF Activate, Sends, Requests, TypeOK
  <2> QED BY <2>1, <2>2
<1>8. CASE CreateCryptokey
  <2>1. PICK r : Call(<<"addkey", n, minted + 1>>, r)
    BY <1>8 DEF CreateCryptokey
  <2>2. Sends(<<"addkey", n, minted + 1>>)
    BY <1>8, <1>n DEF CreateCryptokey, Sends, Requests
  <2> QED BY <2>1, <2>2
<1>9. CASE RectifyZone
  <2>1. PICK r : Call(<<"rectify", n, "">>, r)
    BY <1>9 DEF RectifyZone
  <2>2. Sends(<<"rectify", n, "">>)
    BY <1>9, <1>n DEF RectifyZone, Sends, Requests
  <2> QED BY <2>1, <2>2
<1> QED BY <1>1, <1>2, <1>3, <1>4, <1>5, <1>6, <1>7, <1>8, <1>9 DEF PowerDNSCalls

LEMMA AloneStep ==
  ASSUME "late" \notin Faults, MaxForeign = 0, TypeOK, Alone, [Next]_vars
  PROVE  Alone'
<1>1. CASE PowerDNSCalls
  <2>1. UNCHANGED <<disturbed, foreign>>
    BY <1>1 DEF PowerDNSCalls, GetZone, CreateZone, SeedSOA, Compensate, Adopt, UpdateZone,
                ListCryptokeys, Deactivate, Activate, CreateCryptokey, RectifyZone,
                RelistCryptokeys, DeleteZone, histVars
  <2>2. ASSUME NEW q, NEW r, Call(q, r) PROVE inflight' = inflight
    BY <2>2 DEF Call, Outcomes
  <2> QED BY <1>1, <2>1, <2>2, CallsSend DEF Alone
<1>2. CASE Crash \/ AddFinalizer \/ WriteStatus \/ Release \/ Refresh
  BY <1>2 DEF Crash, AddFinalizer, WriteStatus, Release, Refresh, storeVars, histVars, Alone
<1>3. CASE \E z \in Zones : BeginPass(z)
  BY <1>3, BeginFacts DEF storeVars, histVars, Alone
<1>4. CASE \E z \in Zones : UserChanges(z)
  BY <1>4 DEF UserChanges, CreateCR, EditSpec, DeleteCR, storeVars, histVars, Alone
<1>5. CASE OutsideChanges
  BY <1>5 DEF OutsideChanges, ServerChanges, ForeignChange, Land, vars, Alone
<1> QED BY <1>1, <1>2, <1>3, <1>4, <1>5, StepCases

===============================================================================

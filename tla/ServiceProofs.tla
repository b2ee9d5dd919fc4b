----------------------------- MODULE ServiceProofs ----------------------------
(***************************************************************************)
(* updateService keeps what others put on a Service, for any annotations,  *)
(* values and number of attempts, edits and deletions.                     *)
(***************************************************************************)
EXTENDS ServiceConverge, TLAPS

Annotations == [Keys -> Values \cup {"", "set"}]

Services == [up : BOOLEAN, type : {"ClusterIP", "LoadBalancer"}, port : Nat, ann : Annotations]

\* A LoadBalancer has its node port, so the API server assigns no other.
PortAssigned ==
  /\ svc \in Services /\ seen \in Services /\ copy \in Services
  /\ want \in Rendered /\ base \in Rendered /\ ports \in Nat
  /\ svc.type = "LoadBalancer" => svc.port # 0

LEMMA NowhereType == Nowhere \in Services /\ Nowhere.type = "ClusterIP" /\ ~Nowhere.up
<1>1. [k \in Keys |-> ""] \in Annotations
  BY DEF Annotations
<1> QED BY <1>1 DEF Nowhere, Services

LEMMA NothingRendered == [type |-> "ClusterIP", ann |-> [k \in OwnKeys |-> ""]] \in Rendered
BY DEF Rendered

LEMMA UpdatedFacts ==
  ASSUME NEW s \in Services, NEW d \in Rendered
  PROVE  /\ Updated(s, d) \in Services
         /\ Updated(s, d).up = s.up /\ Updated(s, d).type = d.type
         /\ d.type = "LoadBalancer" => Updated(s, d).port = s.port
         /\ \A k \in ForeignKeys : Updated(s, d).ann[k] = s.ann[k]
<1> DEFINE a == [k \in Keys |-> IF k \in OwnKeys /\ d.ann[k] # "" THEN d.ann[k] ELSE s.ann[k]]
<1> DEFINE p == IF d.type = "LoadBalancer" THEN s.port ELSE 0
<1>1. d.type \in {"ClusterIP", "LoadBalancer"} /\ d.ann \in [OwnKeys -> Values \cup {""}]
  BY DEF Rendered
<1>2. s.ann \in Annotations /\ s.port \in Nat
  BY DEF Services
<1>3. a \in Annotations
  BY <1>1, <1>2 DEF Annotations, Keys
<1>4. \A k \in ForeignKeys : a[k] = s.ann[k]
  BY ServiceAssumption DEF Keys
<1>5. p \in Nat /\ (d.type = "LoadBalancer" => p = s.port)
  BY <1>2
<1>6. \E q, b : /\ q = p /\ b = a
                /\ Updated(s, d) = [s EXCEPT !.type = d.type, !.port = q, !.ann = b]
  BY Zenon DEF Updated
<1> HIDE DEF a, p
<1>7. PICK q, b : /\ q = p /\ b = a
                  /\ Updated(s, d) = [s EXCEPT !.type = d.type, !.port = q, !.ann = b]
  BY <1>6
<1>8. /\ Updated(s, d) \in Services /\ Updated(s, d).up = s.up
      /\ Updated(s, d).type = d.type /\ Updated(s, d).port = q /\ Updated(s, d).ann = b
  BY <1>1, <1>3, <1>5, <1>7 DEF Services
<1> QED BY <1>4, <1>5, <1>7, <1>8

\* What the API server stores: a node port is added where there is none.
LEMMA StoreFacts ==
  ASSUME NEW s \in Services, ports \in Nat, Store(s)
  PROVE  /\ svc' \in Services /\ ports' \in Nat
         /\ svc'.type = "LoadBalancer" => svc'.port # 0
         /\ svc'.type = s.type /\ svc'.ann = s.ann
         /\ s.port # 0 => svc'.port = s.port
<1>1. CASE s.type = "LoadBalancer" /\ s.port = 0
  <2>1. svc' = [s EXCEPT !.port = ports + 1]
    BY <1>1 DEF Store, Admitted
  <2>2. svc' \in Services /\ svc'.port = ports + 1 /\ svc'.type = s.type /\ svc'.ann = s.ann
    BY <2>1 DEF Services
  <2>3. ports' \in Nat
    BY DEF Store
  <2> QED BY <1>1, <2>2, <2>3
<1>2. CASE ~(s.type = "LoadBalancer" /\ s.port = 0)
  <2>1. svc' = s /\ ports' \in Nat
    BY <1>2 DEF Store, Admitted
  <2> QED BY <1>2, <2>1
<1> QED BY <1>1, <1>2

LEMMA CreatedType ==
  ASSUME NEW d \in Rendered
  PROVE  Created(d) \in Services
<1>1. [Nowhere EXCEPT !.up = TRUE] \in Services
  BY NowhereType DEF Services
<1> QED BY <1>1, UpdatedFacts DEF Created

LEMMA InitPort == Init => PortAssigned
<1> SUFFICES ASSUME Init PROVE PortAssigned
  OBVIOUS
<1>1. svc = Nowhere /\ seen = Nowhere /\ copy = Nowhere /\ want \in Rendered /\ ports = 0
  BY DEF Init
<1>2. base \in Rendered
  BY NothingRendered, Zenon DEF Init
<1> QED BY <1>1, <1>2, NowhereType DEF PortAssigned

LEMMA PortStep == PortAssigned /\ [Next]_vars => PortAssigned'
<1> SUFFICES ASSUME PortAssigned, [Next]_vars PROVE PortAssigned'
  OBVIOUS
<1>1. CASE Begin
  BY <1>1 DEF Begin, PortAssigned
<1>2. CASE Create
  BY <1>2, NowhereType, NothingRendered, CreatedType, StoreFacts DEF Create, Finish, PortAssigned
<1>3. CASE Skip
  BY <1>3, NowhereType, NothingRendered DEF Skip, Finish, PortAssigned
<1>4. CASE Update
  BY <1>4, NowhereType, NothingRendered, UpdatedFacts, StoreFacts DEF Update, Finish, PortAssigned
<1>5. CASE Conflict
  BY <1>5, NowhereType, NothingRendered DEF Conflict, Finish, PortAssigned
<1>6. CASE Refresh
  BY <1>6 DEF Refresh, PortAssigned
<1>7. CASE Annotate
  <2>1. PICK k \in ForeignKeys : svc' = [svc EXCEPT !.ann[k] = "set"]
    BY <1>7 DEF Annotate
  <2>2. svc' \in Services /\ svc'.type = svc.type /\ svc'.port = svc.port
    BY <2>1 DEF PortAssigned, Services, Annotations, Keys
  <2> QED BY <1>7, <2>2 DEF Annotate, PortAssigned
<1>8. CASE EditSpec
  BY <1>8 DEF EditSpec, PortAssigned
<1>9. CASE DeleteService
  BY <1>9, NowhereType DEF DeleteService, PortAssigned
<1>10. CASE UNCHANGED vars
  BY <1>10 DEF vars, PortAssigned
<1> QED BY <1>1, <1>2, <1>3, <1>4, <1>5, <1>6, <1>7, <1>8, <1>9, <1>10 DEF Next, Attempt

\* What ForeignStateKept says of one step.
Keeps ==
  svc.up /\ svc'.up =>
    /\ \A k \in ForeignKeys : svc.ann[k] # "" => svc'.ann[k] = svc.ann[k]
    /\ svc.type = "LoadBalancer" /\ svc'.type = "LoadBalancer" => svc'.port = svc.port

LEMMA KeepsStep == PortAssigned /\ [Next]_vars => [Keeps]_vars
<1> SUFFICES ASSUME PortAssigned, [Next]_vars PROVE Keeps
  OBVIOUS
<1>1. CASE UNCHANGED svc
  BY <1>1 DEF Keeps
<1>2. CASE Create
  BY <1>2 DEF Create, Keeps
<1>3. CASE Update
  <2>1. /\ svc \in Services /\ base \in Rendered /\ ports \in Nat /\ Store(Updated(svc, base))
        /\ svc.type = "LoadBalancer" => svc.port # 0
    BY <1>3 DEF Update, PortAssigned
  <2>2. /\ svc'.type = base.type /\ svc'.ann = Updated(svc, base).ann
        /\ Updated(svc, base).port # 0 => svc'.port = Updated(svc, base).port
    BY <2>1, UpdatedFacts, StoreFacts
  <2>3. /\ Updated(svc, base).type = base.type
        /\ base.type = "LoadBalancer" => Updated(svc, base).port = svc.port
        /\ \A k \in ForeignKeys : Updated(svc, base).ann[k] = svc.ann[k]
    BY <2>1, UpdatedFacts
  <2>4. \A k \in ForeignKeys : svc'.ann[k] = svc.ann[k]
    BY <2>2, <2>3
  <2>5. svc.type = "LoadBalancer" /\ svc'.type = "LoadBalancer" => svc'.port = svc.port
    BY <2>1, <2>2, <2>3
  <2> QED BY <2>4, <2>5 DEF Keeps
<1>4. CASE Annotate
  <2>1. PICK k \in ForeignKeys : svc.ann[k] = "" /\ svc' = [svc EXCEPT !.ann[k] = "set"]
    BY <1>4 DEF Annotate
  <2> QED BY <2>1 DEF Keeps, PortAssigned, Services, Annotations, Keys
<1>5. CASE DeleteService
  BY <1>5 DEF DeleteService, Nowhere, Keeps
<1> QED BY <1>1, <1>2, <1>3, <1>4, <1>5
        DEF Next, Attempt, Begin, Skip, Conflict, Refresh, EditSpec, vars

\* No write by updateService takes an annotation of another controller, or the
\* node port of a Service that stays a LoadBalancer (converge.go:24).
THEOREM ForeignKept == Spec => ForeignStateKept
<1>1. PortAssigned /\ [Next]_vars => [Keeps]_vars
  BY KeepsStep
<1> QED BY <1>1, InitPort, PortStep, PTL DEF Spec, ForeignStateKept, Keeps

===============================================================================

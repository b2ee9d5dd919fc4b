----------------------------- MODULE DNSDistProofs ----------------------------
(***************************************************************************)
(* A dnsdist tier that says Ready for its current generation has children  *)
(* of that generation only, for any backends, specs, failures and          *)
(* interference.  The argument: a status write is refused unless the tier  *)
(* is as the pass read it, so the generation reported was in the cache     *)
(* when the pass began, and no later pass works from an older one          *)
(* (ObservedWasCached); and a pass reports Ready only after it went        *)
(* through all children (Progress).                                        *)
(***************************************************************************)
EXTENDS DNSDistInvariants, SequenceTheorems, TLAPS

-------------------------------------------------------------------------------
(* Objects *)

Statuses == [phase : {"", "Pending", "Failed", "Ready"}, obs : 0..MaxGen, avail : BOOLEAN]

LEMMA FieldTypes ==
  ASSUME NEW o \in Objects
  PROVE  /\ o.gen \in Nat /\ o.gen \in 0..MaxGen /\ o.uid \in 0..MaxGen /\ o.up \in BOOLEAN
         /\ o.spec \in Specs \cup {NoSpec} /\ o.status \in Statuses
         /\ o.status.obs \in Nat /\ o.status.obs \in 0..MaxGen
<1>1. /\ o.gen \in 0..MaxGen /\ o.uid \in 0..MaxGen /\ o.up \in BOOLEAN
      /\ o.spec \in Specs \cup {NoSpec} /\ o.status \in Statuses
  BY DEF Objects, Statuses
<1>2. o.status.obs \in 0..MaxGen
  BY <1>1 DEF Statuses
<1> QED BY <1>1, <1>2, TierAssumption

LEMMA SpecFacts ==
  ASSUME NEW sp \in Specs \cup {NoSpec}
  PROVE  sp.replicas \in Nat /\ sp.replicas > 0 /\ sp.minAvailable \in Nat
<1>1. CASE sp = NoSpec
  <2>1. NoSpec.replicas = 1 /\ NoSpec.minAvailable = 0
    BY DEF NoSpec
  <2> QED BY <1>1, <2>1
<1>2. CASE sp \in Specs
  BY <1>2, TierAssumption DEF SpecRecords
<1> QED BY <1>1, <1>2

LEMMA GoneFacts ==
  ASSUME NEW g \in 0..MaxGen
  PROVE  /\ Gone(g) \in Objects /\ ~Gone(g).up /\ Gone(g).uid = 0 /\ Gone(g).gen = g
         /\ Gone(g).status.phase = "" /\ Gone(g).status.obs = 0
<1>1. MaxGen \in Nat /\ 0 \in 0..MaxGen
  BY TierAssumption
<1>2. NoStatus \in Statuses /\ NoStatus.phase = "" /\ NoStatus.obs = 0
  BY <1>1 DEF NoStatus, Statuses
<1> QED BY <1>1, <1>2 DEF Gone, Objects, Statuses

LEMMA LaterReflexive ==
  ASSUME NEW o \in Objects
  PROVE  Later(o, o)
BY FieldTypes DEF Later

LEMMA LaterTransitive ==
  ASSUME NEW a \in Objects, NEW b \in Objects, NEW c \in Objects, Later(a, b), Later(b, c)
  PROVE  Later(a, c)
<1>1. a.gen \in Nat /\ b.gen \in Nat /\ c.gen \in Nat
  BY FieldTypes
<1> QED BY <1>1 DEF Later

\* A pass that ends forgets everything.
LEMMA FinishFacts ==
  ASSUME Finish
  PROVE  /\ pc' = "idle" /\ base' \in Objects /\ ~base'.up /\ base'.gen = 0
         /\ refs' = {} /\ DOMAIN addrs' = Backends /\ todo' = <<>>
         /\ todo' \in Seq(Kinds \cup {"hash"})
<1>1. 0 \in 0..MaxGen
  BY TierAssumption
<1>2. Gone(0) \in Objects /\ ~Gone(0).up /\ Gone(0).gen = 0
  BY <1>1, GoneFacts
<1>3. <<>> \in Seq(Kinds \cup {"hash"})
  BY EmptySeq
<1> QED BY <1>2, <1>3 DEF Finish, NoAddrs

LEMMA ForgottenIsOld ==
  ASSUME NEW a \in Objects, ~a.up, a.gen = 0, NEW o \in Objects, o.up => o.gen > 0
  PROVE  Later(a, o)
BY FieldTypes DEF Later

LEMMA ChargeFacts ==
  ASSUME Typed, NEW o \in Outcomes, Charge(o)
  PROVE  trouble' \in 0..MaxTrouble
<1>1. MaxTrouble \in Nat /\ trouble \in 0..MaxTrouble
  BY TierAssumption DEF Typed, TypeOK
<1>2. o = "done" \/ trouble < MaxTrouble
  BY DEF Outcomes
<1> QED BY <1>1, <1>2 DEF Charge

-------------------------------------------------------------------------------
(* What is rendered *)

LEMMA RenderFacts ==
  ASSUME NEW k \in Kinds, NEW sp, NEW a, NEW h
  PROVE  Rendered(k, Render(k, sp, a, h), sp)
<1>1. CASE k = "configmap"
  BY <1>1 DEF Rendered, Render, DNSDistConfigMap
<1>2. CASE k = "deployment"
  BY <1>2 DEF Rendered, Render, DNSDistDeployment
<1>3. CASE k \notin {"configmap", "deployment"}
  BY <1>3 DEF Rendered, Render
<1> QED BY <1>1, <1>2, <1>3

IsChild(v) == DOMAIN v = {"val", "owner"} /\ v.owner \in 0..MaxGen

LEMMA NoneFacts == IsChild(None) /\ None.val = <<>>
BY TierAssumption DEF IsChild, None

LEMMA ConvergedFacts ==
  ASSUME Typed, NEW k \in Kinds
  PROVE  IsChild(Converged(k)) /\ Rendered(k, Converged(k).val, base.spec)
<1>1. base.uid \in 0..MaxGen /\ DOMAIN child[k] = {"val", "owner"} /\ child[k].owner \in 0..MaxGen
  BY FieldTypes DEF Typed, TypeOK
<1> PICK want : want = Render(k, base.spec, addrs, hash)
  OBVIOUS
<1>2. Rendered(k, want, base.spec)
  BY RenderFacts
<1>3. \/ Converged(k) = None
      \/ Converged(k) = [child[k] EXCEPT !.val = want]
      \/ Converged(k) = [val |-> want, owner |-> base.uid]
  BY DEF Converged
<1>4. CASE Converged(k) = None
  BY <1>4, NoneFacts DEF Rendered
<1>5. CASE Converged(k) = [child[k] EXCEPT !.val = want]
  <2>1. /\ [child[k] EXCEPT !.val = want].val = want
        /\ [child[k] EXCEPT !.val = want].owner = child[k].owner
        /\ DOMAIN [child[k] EXCEPT !.val = want] = {"val", "owner"}
    BY <1>1
  <2> QED BY <1>1, <1>2, <1>5, <2>1 DEF IsChild
<1>6. CASE Converged(k) = [val |-> want, owner |-> base.uid]
  BY <1>1, <1>2, <1>6 DEF IsChild
<1> QED BY <1>3, <1>4, <1>5, <1>6

\* The budget of a valid spec leaves a pod to spare.
LEMMA BudgetFacts ==
  ASSUME NEW sp \in Specs \cup {NoSpec}, validateDNSDist(sp), DNSDistPDB(sp) # <<>>
  PROVE  DNSDistPDB(sp)[1] \in 1..(sp.replicas - 1)
<1>1. sp.replicas \in Nat /\ sp.replicas > 0 /\ sp.minAvailable \in Nat
  BY SpecFacts
<1>2. sp.replicas > 1 /\ DNSDistPDB(sp) = <<IF sp.minAvailable # 0 THEN sp.minAvailable ELSE sp.replicas - 1>>
  BY <1>1 DEF DNSDistPDB, pdbFor
<1>3. sp.minAvailable < sp.replicas
  BY <1>1, <1>2 DEF validateDNSDist
<1> QED BY <1>1, <1>2, <1>3

-------------------------------------------------------------------------------
(* The steps of a pass *)

LEMMA BeginFacts ==
  ASSUME Typed, BeginPass
  PROVE  /\ pc = "idle" /\ cached.up /\ base' = cached /\ todo' = <<>> /\ DOMAIN addrs' = Backends
         /\ UNCHANGED <<tier, cached, child, envVars, trouble>>
         /\ \/ pc' = "status" /\ next' = "Failed" /\ refs' = {}
            \/ pc' = "resolve" /\ refs' = Backends /\ validateDNSDist(cached.spec)
BY DEF BeginPass, BeginInvalid, BeginResolve, Begin, NoAddrs

\* Resolving backends touches no object.
LEMMA ResolveFacts ==
  ASSUME Typed, ResolveBackend
  PROVE  /\ pc = "resolve" /\ UNCHANGED <<tier, cached, child, envVars>>
         /\ trouble' \in 0..MaxTrouble
         /\ \/ Finish
            \/ /\ base' = base /\ DOMAIN addrs' = Backends /\ refs' \subseteq Backends
               /\ \/ /\ pc' = "resolve" /\ refs' # {} /\ todo' = todo
                     /\ \A b \in Backends \ refs' : addrs'[b] # 0
                  \/ /\ pc' = "child" /\ refs' = {} /\ todo' = Children /\ next' = next
                     /\ \A b \in Backends : addrs'[b] # 0
                  \/ pc' = "status" /\ refs' = {} /\ todo' = todo /\ next' = "Pending"
<1>1. /\ pc = "resolve" /\ refs \subseteq Backends /\ DOMAIN addrs = Backends
      /\ trouble \in 0..MaxTrouble /\ \A b \in Backends \ refs : addrs[b] # 0
  BY DEF Typed, TypeOK, ResolveBackend
<1>2. UNCHANGED <<tier, cached, child, envVars>>
  BY DEF ResolveBackend
<1>3. PICK b \in refs :
       \/ /\ b \in ready /\ ip[b] # 0
          /\ addrs' = [addrs EXCEPT ![b] = ip[b]] /\ refs' = refs \ {b}
          /\ IF refs = {b} THEN pc' = "child" /\ todo' = Children /\ UNCHANGED <<base, hash, next>>
                           ELSE UNCHANGED <<pc, base, todo, hash, next>>
          /\ UNCHANGED trouble
       \/ /\ pc' = "status" /\ next' = "Pending" /\ refs' = {} /\ UNCHANGED trouble
          /\ UNCHANGED <<base, addrs, todo, hash>>
       \/ "err" \in Outcomes /\ Charge("err") /\ Finish
  BY DEF ResolveBackend
<1>4. CASE "err" \in Outcomes /\ Charge("err") /\ Finish
  BY <1>1, <1>2, <1>4, ChargeFacts
<1>5. CASE /\ pc' = "status" /\ next' = "Pending" /\ refs' = {} /\ UNCHANGED trouble
           /\ UNCHANGED <<base, addrs, todo, hash>>
  BY <1>1, <1>2, <1>5
<1>6. CASE /\ ip[b] # 0 /\ addrs' = [addrs EXCEPT ![b] = ip[b]] /\ refs' = refs \ {b}
           /\ IF refs = {b} THEN pc' = "child" /\ todo' = Children /\ UNCHANGED <<base, hash, next>>
                            ELSE UNCHANGED <<pc, base, todo, hash, next>>
           /\ UNCHANGED trouble
  <2>1. DOMAIN addrs' = Backends /\ \A c \in Backends \ refs' : addrs'[c] # 0
    BY <1>1, <1>6
  <2>2. CASE refs = {b}
    BY <1>1, <1>2, <1>6, <2>1, <2>2
  <2>3. CASE refs # {b}
    <3>1. refs' # {}
      BY <1>3, <1>6, <2>3
    <3> QED BY <1>1, <1>2, <1>6, <2>1, <2>3, <3>1
  <2> QED BY <2>2, <2>3
<1> QED BY <1>3, <1>4, <1>5, <1>6

\* Nothing of the children is left to do in t.
Done(k, t) == ~\E i \in 1..Len(t) : t[i] = k

LEMMA ChildrenFacts ==
  /\ Children \in Seq(Kinds \cup {"hash"}) /\ Children # <<>>
  /\ \A k \in Kinds : \E i \in 1..Len(Children) : Children[i] = k
<1>1. Children \in Seq(Kinds \cup {"hash"}) /\ Len(Children) = 8 /\ Children # <<>>
  BY DEF Children, Kinds
<1>2. /\ Children[1] = "configmap" /\ Children[3] = "deployment" /\ Children[4] = "dnsservice"
      /\ Children[5] = "additional" /\ Children[6] = "pdb" /\ Children[7] = "tcproute"
      /\ Children[8] = "udproute"
  BY DEF Children
<1>3. \A k \in Kinds : \E i \in 1..8 : Children[i] = k
  BY <1>2 DEF Kinds
<1> QED BY <1>1, <1>3

LEMMA TailFacts ==
  ASSUME NEW S, NEW t \in Seq(S), t # <<>>
  PROVE  /\ Head(t) \in S /\ Tail(t) \in Seq(S) /\ Len(t) \in Nat
         /\ Tail(t) = <<>> <=> ~(Len(t) > 1)
         /\ \A k : Done(k, Tail(t)) => k = Head(t) \/ Done(k, t)
<1>1. /\ Head(t) \in S /\ Tail(t) \in Seq(S) /\ Len(Tail(t)) = Len(t) - 1 /\ Len(t) \in Nat
      /\ \A i \in 1..Len(Tail(t)) : Tail(t)[i] = t[i + 1]
  BY HeadTailProperties, LenProperties
<1>2. Len(t) # 0 /\ (Tail(t) = <<>> <=> Len(Tail(t)) = 0)
  BY <1>1, EmptySeq
<1>3. Head(t) = t[1]
  BY <1>2
<1>4. ASSUME NEW k, Done(k, Tail(t)), k # Head(t)
      PROVE  Done(k, t)
  <2>1. SUFFICES ASSUME NEW i \in 1..Len(t), t[i] = k
                 PROVE  FALSE
    BY DEF Done
  <2>2. i # 1
    BY <1>3, <1>4, <2>1
  <2>3. i - 1 \in 1..Len(Tail(t)) /\ (i - 1) + 1 = i
    BY <1>1, <2>1, <2>2
  <2> QED BY <1>1, <1>4, <2>1, <2>3 DEF Done
<1> QED BY <1>1, <1>2, <1>4

\* One child, or the hash: the child becomes what the spec says if the pass goes on.
Converges ==
  /\ pc = "child" /\ UNCHANGED <<tier, cached, envVars>> /\ trouble' \in 0..MaxTrouble
  /\ DOMAIN child' = Kinds
  /\ \A k \in Kinds : \/ child'[k] = child[k]
                      \/ IsChild(child'[k]) /\ Rendered(k, child'[k].val, base.spec)
  /\ \/ Finish
     \/ /\ UNCHANGED <<base, refs, addrs>> /\ todo' = Tail(todo)
        /\ Head(todo) \in Kinds => Rendered(Head(todo), child'[Head(todo)].val, base.spec)
        /\ IF Len(todo) > 1 THEN UNCHANGED <<pc, next>> ELSE pc' = "status" /\ next' = "Ready"

LEMMA ConvergeFacts ==
  ASSUME Typed, ComputeHash \/ ConvergeChild
  PROVE  Converges
<1>1. /\ pc = "child" /\ todo \in Seq(Kinds \cup {"hash"}) /\ todo # <<>> /\ DOMAIN child = Kinds
  BY DEF Typed, TypeOK, ComputeHash, ConvergeChild
<1>2. Head(todo) \in Kinds \cup {"hash"} /\ "hash" \notin Kinds
  BY <1>1, HeadTailProperties DEF Kinds
<1>3. CASE ComputeHash
  <2>1. /\ Head(todo) = "hash" /\ UNCHANGED <<tier, cached, child, envVars>>
        /\ \E o \in Outcomes : Charge(o) /\ (Finish \/ Advance)
    BY <1>3 DEF ComputeHash
  <2>2. trouble' \in 0..MaxTrouble
    BY <2>1, ChargeFacts
  <2> QED BY <1>1, <1>2, <2>1, <2>2 DEF Converges, Advance
<1>4. CASE ConvergeChild
  <2> PICK k : k = Head(todo)
    OBVIOUS
  <2>1. k \in Kinds
    BY <1>2, <1>4 DEF ConvergeChild
  <2> PICK v : v = Converged(k)
    OBVIOUS
  <2>2. IsChild(v) /\ Rendered(k, v.val, base.spec)
    BY <2>1, ConvergedFacts
  <2>3. PICK o \in Outcomes : /\ Charge(o)
                              /\ child' = IF o = "err" THEN child ELSE [child EXCEPT ![k] = v]
                              /\ IF o = "done" THEN Advance /\ UNCHANGED hash ELSE Finish
    BY <1>4 DEF ConvergeChild
  <2>4. trouble' \in 0..MaxTrouble
    BY <2>3, ChargeFacts
  <2>5. CASE o = "err"
    <3>1. Finish /\ child' = child
      BY <2>3, <2>5
    <3> QED BY <1>1, <1>4, <2>4, <3>1 DEF Converges, ConvergeChild
  <2>6. CASE o # "err"
    <3>1. child' = [child EXCEPT ![k] = v]
      BY <2>3, <2>6
    <3>2. DOMAIN child' = Kinds /\ child'[k] = v /\ \A j \in Kinds \ {k} : child'[j] = child[j]
      BY <1>1, <2>1, <3>1
    <3>3. /\ \A j \in Kinds : \/ child'[j] = child[j]
                              \/ IsChild(child'[j]) /\ Rendered(j, child'[j].val, base.spec)
          /\ Rendered(k, child'[k].val, base.spec)
      BY <2>2, <3>2
    <3> QED BY <1>1, <1>4, <2>3, <2>4, <3>2, <3>3 DEF Converges, ConvergeChild, Advance
  <2> QED BY <2>5, <2>6
<1> QED BY <1>3, <1>4

\* The status write: refused, or what the pass read with another status.
Writes ==
  /\ pc = "status" /\ UNCHANGED <<cached, child, envVars>> /\ trouble' \in 0..MaxTrouble /\ Finish
  /\ \/ tier' = tier
     \/ /\ tier = base /\ tier' \in Objects
        /\ tier'.up = base.up /\ tier'.gen = base.gen /\ tier'.spec = base.spec
        /\ tier'.status.phase = next
        /\ tier'.status.obs = base.gen \/ (next # "Ready" /\ tier'.status.obs = base.status.obs)

LEMMA WriteFacts ==
  ASSUME Typed, WriteStatus
  PROVE  Writes
<1>1. /\ pc = "status" /\ base \in Objects /\ base.status \in Statuses /\ base.gen \in 0..MaxGen
      /\ next \in {"Pending", "Failed", "Ready"}
  BY FieldTypes DEF Typed, TypeOK, WriteStatus
<1> PICK st : st = IF next = "Ready" THEN [phase |-> next, obs |-> base.gen, avail |-> pods # NoPods]
                   ELSE [base.status EXCEPT !.phase = next]
  OBVIOUS
<1>2. /\ st \in Statuses /\ st.phase = next
      /\ st.obs = base.gen \/ (next # "Ready" /\ st.obs = base.status.obs)
  <2>1. CASE next = "Ready"
    BY <1>1, <2>1 DEF Statuses
  <2>2. CASE next # "Ready"
    BY <1>1, <2>2 DEF Statuses
  <2> QED BY <2>1, <2>2
<1> PICK new : new = [base EXCEPT !.status = st]
  OBVIOUS
<1>3. /\ new \in Objects /\ new.up = base.up /\ new.gen = base.gen /\ new.spec = base.spec /\ new.status = st
  BY <1>1, <1>2 DEF Objects, Statuses
<1>4. PICK o \in Outcomes : Charge(o) /\ (tier' = tier \/ (tier = base /\ tier' = new))
  BY DEF WriteStatus
<1>5. UNCHANGED <<cached, child, envVars>> /\ Finish
  BY DEF WriteStatus
<1> QED BY <1>1, <1>2, <1>3, <1>4, <1>5, ChargeFacts DEF Writes

-------------------------------------------------------------------------------
(* Users and the cluster *)

Edits == CreateCR \/ EditSpec \/ DeleteCR

\* A new spec has a new generation; an object that goes keeps its own.
LEMMA EditFacts ==
  ASSUME Typed, Edits
  PROVE  /\ UNCHANGED <<cached, child, envVars, passVars, trouble>> /\ tier' \in Objects
         /\ \/ tier'.gen = tier.gen + 1 /\ tier'.status.obs \in {tier.status.obs, 0}
            \/ ~tier'.up /\ tier'.gen = tier.gen /\ tier'.status.obs = 0
<1>1. /\ tier \in Objects /\ tier.gen \in 0..MaxGen /\ MaxGen \in Nat /\ 0 \in 0..MaxGen
  BY FieldTypes, TierAssumption DEF Typed, TypeOK
<1>2. CASE CreateCR
  <2>1. PICK sp \in Specs :
          tier' = [Gone(tier.gen + 1) EXCEPT !.up = TRUE, !.uid = tier.gen + 1, !.spec = sp]
    BY <1>2 DEF CreateCR
  <2>2. tier.gen + 1 \in 0..MaxGen
    BY <1>1, <1>2 DEF CreateCR
  <2>3. tier' = [up |-> TRUE, uid |-> tier.gen + 1, gen |-> tier.gen + 1, spec |-> sp, status |-> NoStatus]
    BY <2>1 DEF Gone
  <2>4. NoStatus \in Statuses /\ NoStatus.obs = 0
    BY <1>1 DEF NoStatus, Statuses
  <2>5. tier' \in Objects
    BY <2>2, <2>3, <2>4 DEF Objects, Statuses
  <2>6. tier'.gen = tier.gen + 1 /\ tier'.status.obs = 0
    BY <2>3, <2>4
  <2> QED BY <1>2, <2>5, <2>6 DEF CreateCR
<1>3. CASE EditSpec
  <2>1. PICK sp \in Specs : tier' = [tier EXCEPT !.spec = sp, !.gen = @ + 1]
    BY <1>3 DEF EditSpec
  <2>2. tier.gen + 1 \in 0..MaxGen
    BY <1>1, <1>3 DEF EditSpec
  <2>3. tier' \in Objects /\ tier'.gen = tier.gen + 1 /\ tier'.status = tier.status
    BY <1>1, <2>1, <2>2 DEF Objects
  <2> QED BY <1>3, <2>3 DEF EditSpec
<1>4. CASE DeleteCR
  BY <1>1, <1>4, GoneFacts DEF DeleteCR
<1> QED BY <1>2, <1>3, <1>4 DEF Edits

Rest == Cluster \/ RotateCert \/ DeleteChild \/ \E b \in Backends : DeleteService(b) \/ BackendDown(b)

\* Nobody but a pass makes a child.
Elsewhere ==
  /\ UNCHANGED <<tier, cached, passVars>> /\ trouble' \in 0..MaxTrouble
  /\ DOMAIN child' = Kinds /\ \A k \in Kinds : child'[k] = child[k] \/ child'[k] = None
  /\ ready' \subseteq Backends /\ DOMAIN ip' = Backends /\ cert' \in 0..(MaxTrouble + 2)

LEMMA ElsewhereFacts ==
  ASSUME Typed, Rest
  PROVE  Elsewhere
<1>1. /\ DOMAIN child = Kinds /\ ready \subseteq Backends /\ DOMAIN ip = Backends
      /\ cert \in 0..(MaxTrouble + 2) /\ trouble \in 0..MaxTrouble /\ MaxTrouble \in Nat
      /\ Tampered \subseteq Kinds
  BY TierAssumption DEF Typed, TypeOK
<1>2. trouble + 1 \in 0..(MaxTrouble + 2)
  BY <1>1
<1>3. CASE CollectGarbage
  BY <1>1, <1>3 DEF CollectGarbage, Elsewhere, envVars
<1>4. CASE StartPods \/ StopPods
  BY <1>1, <1>4 DEF StartPods, StopPods, Elsewhere
<1>5. CASE AssignIP \/ IssueCert \/ \E b \in Backends : BackendUp(b)
  BY <1>1, <1>2, <1>5 DEF AssignIP, IssueCert, BackendUp, Elsewhere
<1>6. Foreign => trouble' \in 0..MaxTrouble /\ trouble + 2 \in 0..(MaxTrouble + 2)
  <2>1. Foreign => trouble < MaxTrouble /\ trouble' = trouble + 1
    BY DEF Foreign
  <2> QED BY ONLY <1>1, <2>1
<1>7. CASE RotateCert
  BY <1>1, <1>6, <1>7 DEF RotateCert, Elsewhere
<1>8. CASE DeleteChild
  <2>1. PICK k \in Kinds : child' = [child EXCEPT ![k] = None]
    BY <1>1, <1>8 DEF DeleteChild
  <2> QED BY <1>1, <1>6, <1>8, <2>1 DEF DeleteChild, Elsewhere, envVars
<1>9. CASE \E b \in Backends : DeleteService(b) \/ BackendDown(b)
  BY <1>1, <1>6, <1>9 DEF DeleteService, BackendDown, Elsewhere
<1> QED BY <1>3, <1>4, <1>5, <1>7, <1>8, <1>9 DEF Rest, Cluster

LEMMA NextClass ==
  ASSUME Next
  PROVE  \/ BeginPass \/ ResolveBackend \/ (ComputeHash \/ ConvergeChild) \/ WriteStatus
         \/ Crash \/ Refresh \/ Rest \/ Edits
BY DEF Next, PassStep, Rest, Others, Edits

LEMMA CrashFacts ==
  ASSUME Typed, Crash
  PROVE  Finish /\ UNCHANGED <<tier, cached, child, envVars>> /\ trouble' \in 0..MaxTrouble
<1>1. trouble \in 0..MaxTrouble /\ MaxTrouble \in Nat /\ trouble < MaxTrouble /\ trouble' = trouble + 1
  BY TierAssumption DEF Typed, TypeOK, Crash
<1>2. trouble' \in 0..MaxTrouble
  BY ONLY <1>1
<1> QED BY <1>2 DEF Crash

-------------------------------------------------------------------------------
(* RenderInv is inductive *)

LEMMA TierEvolves ==
  ASSUME Typed, Next
  PROVE  /\ tier' \in Objects /\ Later(tier, tier')
         /\ tier' = tier \/ Writes \/ (Edits /\ UNCHANGED <<cached, child, passVars>>)
<1>1. tier \in Objects /\ tier.gen \in Nat
  BY FieldTypes DEF Typed, TypeOK
<1>2. CASE tier' = tier
  BY <1>1, <1>2, LaterReflexive
<1>3. CASE Writes
  BY <1>1, <1>3, LaterReflexive DEF Writes, Later
<1>4. CASE Edits
  <2>1. /\ tier' \in Objects /\ UNCHANGED <<cached, child, passVars>>
        /\ tier'.gen = tier.gen + 1 \/ (~tier'.up /\ tier'.gen = tier.gen)
    BY <1>4, EditFacts
  <2>2. Later(tier, tier')
    BY <1>1, <2>1 DEF Later
  <2> QED BY <1>4, <2>1, <2>2
<1>5. CASE BeginPass \/ ResolveBackend \/ ComputeHash \/ ConvergeChild \/ Crash \/ Refresh \/ Rest
  <2>1. tier' = tier
    BY <1>5, BeginFacts, ResolveFacts, ConvergeFacts, ElsewhereFacts DEF Converges, Elsewhere, Crash, Refresh
  <2> QED BY <1>2, <2>1
<1> QED BY <1>3, <1>4, <1>5, WriteFacts, NextClass

LEMMA TypedStep ==
  ASSUME Typed, Next
  PROVE  Typed'
<1>1. /\ tier \in Objects /\ cached \in Objects /\ base \in Objects
      /\ DOMAIN child = Kinds /\ (\A k \in Kinds : IsChild(child[k]))
      /\ ready \subseteq Backends /\ DOMAIN ip = Backends /\ cert \in 0..(MaxTrouble + 2)
      /\ pc \in {"idle", "resolve", "child", "status"}
      /\ (pc = "resolve" <=> refs # {}) /\ (pc = "child" <=> todo # <<>>)
      /\ (pc = "child" => \A b \in Backends : addrs[b] # 0)
      /\ trouble \in 0..MaxTrouble /\ refs \subseteq Backends /\ DOMAIN addrs = Backends
      /\ todo \in Seq(Kinds \cup {"hash"})
      /\ (pc = "resolve" => \A b \in Backends \ refs : addrs[b] # 0)
      /\ (pc = "status" => next \in {"Pending", "Failed", "Ready"})
  BY DEF Typed, TypeOK, IsChild
<1>2. tier' \in Objects
  BY TierEvolves
<1> DEFINE Env == /\ cached' \in Objects /\ trouble' \in 0..MaxTrouble
                  /\ DOMAIN child' = Kinds /\ (\A k \in Kinds : IsChild(child'[k]))
                  /\ ready' \subseteq Backends /\ DOMAIN ip' = Backends /\ cert' \in 0..(MaxTrouble + 2)
           Pass == /\ base' \in Objects /\ pc' \in {"idle", "resolve", "child", "status"}
                   /\ (pc' = "resolve" <=> refs' # {}) /\ (pc' = "child" <=> todo' # <<>>)
                   /\ (pc' = "child" => \A b \in Backends : addrs'[b] # 0)
                   /\ refs' \subseteq Backends /\ DOMAIN addrs' = Backends
                   /\ todo' \in Seq(Kinds \cup {"hash"})
                   /\ (pc' = "resolve" => \A b \in Backends \ refs' : addrs'[b] # 0)
                   /\ (pc' = "status" => next' \in {"Pending", "Failed", "Ready"})
<1>3. SUFFICES Env /\ Pass
  BY <1>2 DEF Typed, TypeOK, IsChild
<1>4. Finish => Pass
  BY FinishFacts
<1>5. UNCHANGED passVars => Pass
  BY <1>1 DEF passVars
<1>6. CASE BeginPass
  <2>1. Env
    BY <1>1, <1>6, BeginFacts DEF envVars
  <2>2. Pass
    BY <1>1, <1>6, BeginFacts, TierAssumption, EmptySeq
  <2> QED BY <2>1, <2>2
<1>7. CASE ResolveBackend
  <2>1. Env
    BY <1>1, <1>7, ResolveFacts DEF envVars
  <2>2. Pass
    BY <1>1, <1>4, <1>7, ResolveFacts, ChildrenFacts
  <2> QED BY <2>1, <2>2
<1>8. CASE ComputeHash \/ ConvergeChild
  <2>1. Converges
    BY <1>8, ConvergeFacts
  <2>2. Env
    BY <1>1, <2>1 DEF Converges, envVars
  <2>3. Pass
    <3>1. SUFFICES ASSUME ~Finish
                   PROVE  Pass
      BY <1>4
    <3>2. todo # <<>> /\ pc = "child"
      BY <1>1, <2>1 DEF Converges
    <3>3. Tail(todo) \in Seq(Kinds \cup {"hash"}) /\ (Tail(todo) = <<>> <=> ~(Len(todo) > 1))
      BY <1>1, <3>2, TailFacts
    <3> QED BY <1>1, <2>1, <3>1, <3>2, <3>3 DEF Converges
  <2> QED BY <2>2, <2>3
<1>9. CASE WriteStatus
  <2>1. Writes
    BY <1>9, WriteFacts
  <2> QED BY <1>1, <1>4, <2>1 DEF Writes, envVars
<1>10. CASE Crash
  BY <1>1, <1>4, <1>10, CrashFacts DEF envVars
<1>11. CASE Refresh
  BY <1>1, <1>5, <1>11 DEF Refresh, envVars
<1>12. CASE Rest
  <2>1. Elsewhere
    BY <1>12, ElsewhereFacts
  <2> QED BY <1>1, <1>5, <2>1, NoneFacts DEF Elsewhere
<1>13. CASE Edits
  BY <1>1, <1>5, <1>13, EditFacts DEF envVars
<1> QED BY <1>6, <1>7, <1>8, <1>9, <1>10, <1>11, <1>12, <1>13, NextClass

\* Where the pass stands after a step.
LEMMA PassOrigin ==
  ASSUME Typed, Next
  PROVE  \/ Finish /\ cached' = cached
         \/ base' = cached /\ cached' = cached /\ tier' = tier /\ cached.up
         \/ base' = base /\ (pc' # "idle" => pc # "idle") /\ (cached' = cached \/ cached' = tier)
<1>1. CASE BeginPass
  BY <1>1, BeginFacts
<1>2. CASE ResolveBackend
  BY <1>2, ResolveFacts
<1>3. CASE ComputeHash \/ ConvergeChild
  <2>1. Converges
    BY <1>3, ConvergeFacts
  <2> QED BY <2>1 DEF Converges
<1>4. CASE WriteStatus \/ Crash
  BY <1>4, WriteFacts, CrashFacts DEF Writes
<1>5. CASE Refresh
  BY <1>5 DEF Refresh, passVars
<1>6. CASE Rest \/ Edits
  BY <1>6, ElsewhereFacts, EditFacts DEF Elsewhere, passVars
<1> QED BY <1>1, <1>2, <1>3, <1>4, <1>5, <1>6, NextClass

LEMMA LagsStep ==
  ASSUME Typed, Lags, Next
  PROVE  Lags'
<1>1. /\ tier \in Objects /\ cached \in Objects /\ base \in Objects
      /\ tier' \in Objects /\ cached' \in Objects /\ base' \in Objects
  BY TypedStep DEF Typed, TypeOK
<1>2. /\ Later(cached, tier) /\ Later(base, cached) /\ Later(base, tier) /\ (pc # "idle" => base.up)
      /\ (tier.up => tier.gen > 0) /\ (cached.up => cached.gen > 0) /\ tier.status.obs <= tier.gen
  BY DEF Lags
<1>3. Later(tier, tier') /\ Later(tier', tier') /\ Later(cached', cached')
  BY <1>1, TierEvolves, LaterReflexive
<1>4. Later(cached, tier') /\ Later(base, tier')
  BY <1>1, <1>2, <1>3, LaterTransitive
<1>5. tier.gen \in Nat /\ tier'.gen \in Nat /\ tier.status.obs \in Nat /\ base.gen \in Nat
  BY <1>1, FieldTypes
<1>6. (tier'.up => tier'.gen > 0) /\ tier'.status.obs <= tier'.gen
  <2>1. CASE tier' = tier
    BY <1>2, <2>1
  <2>2. CASE Writes
    BY <1>2, <1>5, <2>1, <2>2 DEF Writes
  <2>3. CASE Edits
    BY <1>2, <1>5, <2>3, EditFacts
  <2> QED BY <2>1, <2>2, <2>3, TierEvolves
<1>7. CASE Finish /\ cached' = cached
  <2>1. /\ pc' = "idle" /\ ~base'.up /\ base'.gen = 0
    BY <1>7, FinishFacts
  <2>2. Later(base', tier') /\ Later(base', cached')
    BY <1>1, <1>2, <1>6, <1>7, <2>1, ForgottenIsOld
  <2> QED BY <1>2, <1>4, <1>6, <1>7, <2>1, <2>2 DEF Lags, Later
<1>8. CASE base' = cached /\ cached' = cached /\ tier' = tier /\ cached.up
  BY <1>2, <1>3, <1>4, <1>6, <1>8 DEF Lags, Later
<1>9. CASE base' = base /\ (pc' # "idle" => pc # "idle") /\ (cached' = cached \/ cached' = tier)
  <2>1. Later(cached', tier') /\ Later(base', cached') /\ (cached'.up => cached'.gen > 0)
    BY <1>2, <1>3, <1>4, <1>9
  <2>2. Later(base', tier')
    BY <1>4, <1>9
  <2> QED BY <1>2, <1>6, <1>9, <2>1, <2>2 DEF Lags, Later
<1> QED BY <1>7, <1>8, <1>9, PassOrigin

\* A tier that reports Ready after a step either did so before, in the same
\* generation, or a pass that went through all children has just said so.
LEMMA ReportedBefore ==
  ASSUME Typed, Lags, Next, Reported'
  PROVE  /\ tier'.gen = tier.gen /\ tier'.spec = tier.spec
         /\ (Reported /\ tier' = tier) \/ (Writes /\ Complete /\ tier = base)
<1>1. tier.gen \in Nat /\ tier.status.obs \in Nat /\ tier.status.obs <= tier.gen
  BY FieldTypes DEF Typed, TypeOK, Lags
<1>2. tier'.up /\ tier'.status.phase = "Ready" /\ tier'.status.obs = tier'.gen
  BY DEF Reported
<1>3. CASE tier' = tier
  BY <1>2, <1>3 DEF Reported
<1>4. CASE Writes /\ tier' # tier
  <2>1. tier = base /\ tier'.gen = base.gen /\ tier'.spec = base.spec /\ next = "Ready" /\ pc = "status"
    BY <1>2, <1>4 DEF Writes
  <2> QED BY <1>4, <2>1 DEF Complete
<1>5. CASE Edits
  BY <1>1, <1>2, <1>5, EditFacts
<1> QED BY <1>3, <1>4, <1>5, TierEvolves

LEMMA ObservedWasCachedStep ==
  ASSUME Typed, Lags, ObservedWasCached, Next
  PROVE  ObservedWasCached'
<1>1. SUFFICES ASSUME Reported'
               PROVE  cached'.gen = tier'.gen /\ (pc' # "idle" => base'.gen = tier'.gen)
  BY DEF ObservedWasCached
<1>2. tier.gen \in Nat /\ base.gen \in Nat /\ cached.gen \in Nat
  BY FieldTypes DEF Typed, TypeOK
<1>3. base.gen <= cached.gen /\ cached.gen <= tier.gen
  BY DEF Lags, Later
<1>4. CASE Reported /\ tier' = tier
  <2>1. cached.gen = tier.gen /\ (pc # "idle" => base.gen = tier.gen)
    BY <1>4 DEF ObservedWasCached
  <2> QED BY <1>4, <2>1, PassOrigin, FinishFacts
<1>5. CASE Writes /\ Complete /\ tier = base
  <2>1. pc' = "idle" /\ cached' = cached /\ tier'.gen = tier.gen
    BY <1>1, <1>5, FinishFacts, ReportedBefore DEF Writes
  <2> QED BY <1>2, <1>3, <1>5, <2>1
<1> QED BY <1>1, <1>4, <1>5, ReportedBefore

LEMMA ProgressStep ==
  ASSUME Typed, Progress, Next
  PROVE  Progress'
<1> DEFINE Ok == /\ pc' \in {"resolve", "child"} \/ (pc' = "status" /\ next' = "Ready")
                      => validateDNSDist(base'.spec)
                 /\ pc' = "child" \/ (pc' = "status" /\ next' = "Ready")
                      => \A k \in Kinds : Rendered(k, child'[k].val, base'.spec) \/ ~Done(k, todo')
<1>1. SUFFICES Ok
  BY DEF Progress, Complete, Done
<1>2. Finish => Ok
  BY FinishFacts
<1>3. CASE BeginPass
  BY <1>3, BeginFacts
<1>4. CASE ResolveBackend
  <2>1. pc = "resolve" /\ (Finish \/ (base' = base /\ (pc' = "child" => todo' = Children)
                                     /\ (pc' = "status" => next' = "Pending")
                                     /\ pc' \in {"resolve", "child", "status"}))
    BY <1>4, ResolveFacts
  <2>2. validateDNSDist(base.spec)
    BY <2>1 DEF Progress
  <2> QED BY <1>2, <2>1, <2>2, ChildrenFacts DEF Done
<1>5. CASE ComputeHash \/ ConvergeChild
  <2>1. Converges
    BY <1>5, ConvergeFacts
  <2>2. SUFFICES ASSUME ~Finish
                 PROVE  Ok
    BY <1>2
  <2>3. /\ pc = "child" /\ base' = base /\ todo' = Tail(todo) /\ todo \in Seq(Kinds \cup {"hash"})
        /\ todo # <<>>
        /\ Head(todo) \in Kinds => Rendered(Head(todo), child'[Head(todo)].val, base.spec)
    BY <2>1, <2>2 DEF Converges, Typed, TypeOK
  <2>4. \A k : Done(k, Tail(todo)) => k = Head(todo) \/ Done(k, todo)
    BY <2>3, TailFacts
  <2>5. validateDNSDist(base.spec) /\ \A k \in Kinds : Rendered(k, child[k].val, base.spec) \/ ~Done(k, todo)
    BY <2>3 DEF Progress, Done
  <2>6. \A k \in Kinds : child'[k] = child[k] \/ Rendered(k, child'[k].val, base.spec)
    BY <2>1 DEF Converges
  <2>7. \A k \in Kinds : Rendered(k, child'[k].val, base.spec) \/ ~Done(k, Tail(todo))
    BY <2>3, <2>4, <2>5, <2>6
  <2> QED BY <2>3, <2>5, <2>7
<1>6. CASE WriteStatus \/ Crash
  BY <1>2, <1>6, WriteFacts, CrashFacts DEF Writes
<1>7. CASE Refresh \/ Rest \/ Edits
  <2>1. /\ UNCHANGED passVars
        /\ \A k \in Kinds : child'[k] = child[k] \/ child'[k] = None
    BY <1>7, ElsewhereFacts, EditFacts DEF Refresh, Elsewhere
  <2>2. \A k, sp : Rendered(k, None.val, sp)
    BY NoneFacts DEF Rendered
  <2>3. \A k \in Kinds : Rendered(k, child[k].val, base.spec) => Rendered(k, child'[k].val, base.spec)
    BY <2>1, <2>2
  <2> QED BY <2>1, <2>3 DEF Progress, Complete, Done, passVars
<1> QED BY <1>3, <1>4, <1>5, <1>6, <1>7, NextClass

LEMMA ReportedIsRenderedStep ==
  ASSUME Typed, Lags, ObservedWasCached, Progress, ReportedIsRendered, Next
  PROVE  ReportedIsRendered'
<1>1. SUFFICES ASSUME Reported'
               PROVE  /\ validateDNSDist(tier'.spec)
                      /\ \A k \in Kinds : Rendered(k, child'[k].val, tier'.spec)
  BY DEF ReportedIsRendered
<1>2. CASE Writes /\ Complete /\ tier = base
  <2>1. tier'.spec = base.spec /\ child' = child /\ todo = <<>>
    BY <1>1, <1>2, ReportedBefore DEF Writes, Complete, Typed, TypeOK
  <2>2. \A k \in Kinds : Rendered(k, child[k].val, base.spec)
    BY <1>2, <2>1 DEF Progress
  <2> QED BY <1>2, <2>1, <2>2 DEF Progress
<1>3. CASE Reported /\ tier' = tier
  <2>1. validateDNSDist(tier.spec) /\ \A k \in Kinds : Rendered(k, child[k].val, tier.spec)
    BY <1>3 DEF ReportedIsRendered
  <2>2. \A k \in Kinds : \/ child'[k] = child[k] \/ child'[k] = None
                         \/ Converges /\ Rendered(k, child'[k].val, base.spec)
    BY NextClass, BeginFacts, ResolveFacts, ConvergeFacts, WriteFacts, ElsewhereFacts, EditFacts
       DEF Converges, Writes, Elsewhere, Crash, Refresh
  <2>3. Converges => base.spec = tier.spec
    <3>1. Converges => base.up /\ base.gen = tier.gen /\ tier.up /\ Later(base, tier)
      BY <1>3 DEF Converges, ObservedWasCached, Lags, Reported
    <3> QED BY <3>1 DEF Later
  <2>4. \A k, sp : Rendered(k, None.val, sp)
    BY NoneFacts DEF Rendered
  <2> QED BY <1>3, <2>1, <2>2, <2>3, <2>4
<1> QED BY <1>1, <1>2, <1>3, ReportedBefore

LEMMA InitRender ==
  ASSUME Init
  PROVE  RenderInv
<1>1. MaxGen \in Nat /\ MaxTrouble \in Nat /\ 0 \in 0..MaxGen /\ 0 \in 0..MaxTrouble
      /\ 1 \in 0..(MaxTrouble + 2)
  BY TierAssumption
<1>2. /\ Gone(0) \in Objects /\ ~Gone(0).up /\ Gone(0).gen = 0 /\ Gone(0).status.obs = 0
  BY <1>1, GoneFacts
<1>3. DOMAIN child = Kinds /\ \A k \in Kinds : IsChild(child[k])
  BY NoneFacts DEF Init
<1>4. /\ pc = "idle" /\ todo = <<>> /\ refs = {} /\ DOMAIN addrs = Backends /\ trouble = 0
      /\ tier = Gone(0) /\ cached = Gone(0) /\ base = Gone(0) /\ ready = Backends
      /\ DOMAIN ip = Backends /\ cert = 1
  BY DEF Init, NoAddrs
<1>5. Typed
  BY <1>1, <1>2, <1>3, <1>4, EmptySeq DEF Typed, TypeOK, IsChild
<1>6. Lags
  BY <1>2, <1>4 DEF Lags, Later
<1> QED BY <1>2, <1>4, <1>5, <1>6 DEF RenderInv, ObservedWasCached, Reported, Progress, Complete,
                                    ReportedIsRendered

LEMMA RenderStep ==
  ASSUME RenderInv, [Next]_vars
  PROVE  RenderInv'
<1>1. CASE Next
  BY <1>1, TypedStep, LagsStep, ObservedWasCachedStep, ProgressStep, ReportedIsRenderedStep DEF RenderInv
<1>2. CASE UNCHANGED vars
  <2>1. Typed'
    BY <1>2 DEF vars, RenderInv, Typed, TypeOK
  <2>2. Lags' /\ ObservedWasCached'
    BY <1>2 DEF vars, RenderInv, Lags, Later, ObservedWasCached, Reported
  <2>3. Progress' /\ ReportedIsRendered'
    BY <1>2 DEF vars, RenderInv, Progress, Complete, ReportedIsRendered, Reported
  <2> QED BY <2>1, <2>2, <2>3 DEF RenderInv
<1> QED BY <1>1, <1>2

\* The variables keep their types, and a pass converges children only after it
\* resolved every backend (backendsReady, dnsdist_controller.go:197), for any
\* backends, specs, failures and interference.
THEOREM TierTypes == Spec => []TypeOK
<1>1. RenderInv => TypeOK
  BY DEF RenderInv, Typed
<1> QED BY <1>1, InitRender, RenderStep, PTL DEF Spec

\* A tier that says Ready for its current generation has children of that
\* generation only (refreshDNSDistStatus, dnsdist_controller.go:325), and a
\* disruption budget that leaves room to drain a node.
THEOREM Rendering == Spec => []ReadyMeansRendered
<1>1. ASSUME RenderInv
      PROVE  ReadyMeansRendered
  <2>1. SUFFICES ASSUME Reported
                 PROVE  /\ \A k \in Kinds : Exists(k) =>
                             IF k \in {"configmap", "deployment"} THEN child[k].val[1] = tier.spec.conf
                             ELSE child[k].val = Render(k, tier.spec, NoAddrs, <<>>)
                        /\ Exists("pdb") /\ Exists("deployment") =>
                             child["pdb"].val[1] \in 1..(child["deployment"].val[3] - 1)
    BY DEF ReadyMeansRendered, Reported
  <2>2. /\ validateDNSDist(tier.spec)
        /\ \A k \in Kinds : Rendered(k, child[k].val, tier.spec)
    BY <1>1, <2>1 DEF RenderInv, ReportedIsRendered
  <2>3. \A k \in Kinds : Exists(k) =>
          IF k \in {"configmap", "deployment"} THEN child[k].val[1] = tier.spec.conf
          ELSE child[k].val = Render(k, tier.spec, NoAddrs, <<>>)
    BY <2>2 DEF Rendered, Exists
  <2>4. ASSUME Exists("pdb"), Exists("deployment")
        PROVE  child["pdb"].val[1] \in 1..(child["deployment"].val[3] - 1)
    <3>1. {"pdb", "deployment"} \subseteq Kinds
      BY DEF Kinds
    <3>2. child["deployment"].val[3] = tier.spec.replicas
      BY <2>2, <2>4, <3>1 DEF Rendered, Exists
    <3>3. child["pdb"].val = DNSDistPDB(tier.spec)
      BY <2>2, <2>4, <3>1 DEF Rendered, Exists, Render
    <3>4. tier.spec \in Specs \cup {NoSpec}
      BY <1>1, FieldTypes DEF RenderInv, Typed, TypeOK
    <3>5. DNSDistPDB(tier.spec)[1] \in 1..(tier.spec.replicas - 1)
      BY <2>2, <2>4, <3>3, <3>4, BudgetFacts DEF Exists
    <3> QED BY <3>2, <3>3, <3>5
  <2> QED BY <2>3, <2>4
<1> QED BY <1>1, InitRender, RenderStep, PTL DEF Spec

===============================================================================

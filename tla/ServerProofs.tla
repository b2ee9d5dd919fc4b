----------------------------- MODULE ServerProofs -----------------------------
(***************************************************************************)
(* The PowerDNSServer's phase machine, for any specs, faults and bounds.   *)
(*                                                                         *)
(* A Ready server is never failed, because a pass that writes Failed read  *)
(* an object in an earlier phase and its write is refused if the object    *)
(* changed since.  With children that are gone before a server of the same *)
(* name is created again (Hasty = FALSE), pods never meet an empty         *)
(* database: the finalizer holds the object while a pass writes children,  *)
(* so every child belongs to the object that is there, the garbage         *)
(* collector takes nothing from a live server, and the phase in any copy   *)
(* of the object was reached by passing the gate in front of it.           *)
(***************************************************************************)
EXTENDS ServerInvariants, SequenceTheorems, TLAPS

-------------------------------------------------------------------------------
(* Objects *)

LEMMA FieldTypes ==
  ASSUME NEW o \in Objects
  PROVE  /\ o.gen \in Nat /\ o.gen \in 0..MaxGen /\ o.uid \in Nat /\ o.uid \in 0..MaxGen
         /\ o.up \in BOOLEAN /\ o.deleting \in BOOLEAN /\ o.fin \in BOOLEAN
         /\ o.spec \in Specs \cup {NoSpec} /\ o.status \in Statuses /\ MaxGen \in Nat
BY ServerAssumption DEF Objects

LEMMA NoStatusFacts == NoStatus \in Statuses /\ NoStatus.phase = ""
BY DEF NoStatus, Statuses, Phases

LEMMA GoneFacts ==
  ASSUME NEW g \in 0..MaxGen
  PROVE  /\ Gone(g) \in Objects /\ ~Gone(g).up /\ Gone(g).uid = 0 /\ Gone(g).gen = g
         /\ Gone(g).status.phase = ""
<1>1. MaxGen \in Nat /\ 0 \in 0..MaxGen
  BY ServerAssumption
<1> QED BY <1>1, NoStatusFacts DEF Gone, Objects

LEMMA StatusFacts ==
  ASSUME NEW st \in Statuses
  PROVE  /\ st.phase \in Phases
         /\ \A p \in Phases : [st EXCEPT !.phase = p] \in Statuses /\ [st EXCEPT !.phase = p].phase = p
         /\ \A k \in {"", "own", "byo"} : [st EXCEPT !.key = k] \in Statuses /\ [st EXCEPT !.key = k].phase = st.phase
         /\ \A e \in {"", "cluster", "lb", "gateway"} :
              [st EXCEPT !.endpoint = e] \in Statuses /\ [st EXCEPT !.endpoint = e].phase = st.phase
         /\ \A b \in BOOLEAN : [st EXCEPT !.ready = b] \in Statuses /\ [st EXCEPT !.ready = b].phase = st.phase
BY DEF Statuses

\* b is a with another status, in phase ph.
Restates(a, b, ph) ==
  /\ b.up = a.up /\ b.uid = a.uid /\ b.gen = a.gen /\ b.deleting = a.deleting
  /\ b.fin = a.fin /\ b.spec = a.spec /\ b.status.phase = ph

LEMMA RestateFacts ==
  ASSUME NEW o \in Objects, NEW st \in Statuses
  PROVE  [o EXCEPT !.status = st] \in Objects /\ Restates(o, [o EXCEPT !.status = st], st.phase)
BY DEF Objects, Restates

\* What one step makes of the object: it stays the same incarnation, it ends, or
\* a new one starts.
Stays(a, b) ==
  /\ b.up = a.up /\ b.uid = a.uid /\ a.gen <= b.gen /\ (a.deleting => b.deleting)
  /\ (a.fin => b.fin) /\ b.spec.byoDB = a.spec.byoDB
Ends(a, b)   == ~b.up /\ b.gen = a.gen /\ b.uid = 0 /\ b.status.phase = ""
Starts(a, b) == /\ ~a.up /\ b.up /\ b.gen = a.gen + 1 /\ b.uid = b.gen
                /\ ~b.deleting /\ ~b.fin /\ b.status.phase = ""

Evolves(a, b) == Stays(a, b) \/ Ends(a, b) \/ Starts(a, b)

LEMMA LaterReflexive ==
  ASSUME NEW o \in Objects
  PROVE  Later(o, o)
BY FieldTypes DEF Later

LEMMA LaterEvolves ==
  ASSUME NEW o \in Objects, NEW a \in Objects, NEW b \in Objects,
         Incarnation(o), Incarnation(a), Later(o, a), Evolves(a, b)
  PROVE  Later(o, b) /\ Incarnation(b)
<1>1. /\ o.gen \in Nat /\ o.uid \in Nat /\ a.gen \in Nat /\ a.uid \in Nat
      /\ b.gen \in Nat /\ b.uid \in Nat /\ a.up \in BOOLEAN /\ b.up \in BOOLEAN
      /\ o.deleting \in BOOLEAN /\ a.deleting \in BOOLEAN /\ b.deleting \in BOOLEAN
      /\ o.fin \in BOOLEAN /\ a.fin \in BOOLEAN /\ b.fin \in BOOLEAN /\ o.up \in BOOLEAN
  BY FieldTypes
<1>2. CASE Stays(a, b)
  BY <1>1, <1>2 DEF Incarnation, Later, Stays
<1>3. CASE Ends(a, b)
  <2>1. ~b.up /\ b.gen = a.gen /\ b.uid = 0
    BY <1>3 DEF Ends
  <2>2. Incarnation(b) /\ o.gen <= b.gen
    BY <1>1, <2>1 DEF Incarnation, Later
  <2> QED BY <2>1, <2>2 DEF Later
<1>4. CASE Starts(a, b)
  <2>1. o.gen < b.gen /\ o.uid < b.uid /\ b.uid > 0 /\ b.uid <= b.gen
    <3>1. o.uid <= o.gen /\ o.gen <= a.gen /\ b.gen = a.gen + 1 /\ b.uid = b.gen
      BY <1>4 DEF Incarnation, Later, Starts
    <3> QED BY <1>1, <3>1
  <2> QED BY <1>1, <2>1 DEF Incarnation, Later
<1> QED BY <1>2, <1>3, <1>4 DEF Evolves

LEMMA RestatesStays ==
  ASSUME NEW a \in Objects, NEW b, NEW p, Restates(a, b, p)
  PROVE  Stays(a, b)
BY FieldTypes DEF Restates, Stays

-------------------------------------------------------------------------------
(* How a pass begins *)

LEMMA StepLists ==
  /\ Workload \in Seq(Steps) /\ Routes \in Seq(Steps) /\ Drift \in Seq(Steps) /\ <<>> \in Seq(Steps)
  /\ Workload # <<>> /\ Routes # <<>> /\ Drift # <<>>
<1>1. Workload \in Seq(Steps) /\ Workload # <<>>
  BY DEF Workload, Steps
<1>2. Routes \in Seq(Steps) /\ Routes # <<>>
  BY DEF Routes, Steps
<1>3. <<"configmap", "hash", "deployment", "apiservice", "dnsservice", "additional">> \in Seq(Steps)
  BY DEF Steps
<1>4. <<"pdb">> \in Seq(Steps) /\ Len(<<"pdb">>) = 1
  BY DEF Steps
<1> DEFINE first == <<"configmap", "hash", "deployment", "apiservice", "dnsservice", "additional">>
           last == <<"pdb">>
<1>5. first \in Seq(Steps) /\ last \in Seq(Steps) /\ Len(last) = 1 /\ Drift = (first \o Routes) \o last
  BY <1>3, <1>4 DEF Drift
<1> HIDE DEF first, last
<1>6. (first \o Routes) \in Seq(Steps) /\ Len(first \o Routes) \in Nat
  BY <1>2, <1>5, ConcatProperties, LenProperties
<1> DEFINE both == first \o Routes
<1> HIDE DEF both
<1>7. Drift \in Seq(Steps) /\ Len(Drift) = Len(first \o Routes) + 1
  <2>1. both \in Seq(Steps) /\ last \in Seq(Steps) /\ Drift = both \o last /\ Len(last) = 1
    BY <1>5, <1>6 DEF both
  <2>2. (both \o last) \in Seq(Steps) /\ Len(both \o last) = Len(both) + Len(last)
    BY <2>1, ConcatProperties
  <2> QED BY <2>1, <2>2 DEF both
<1>8. Drift # <<>>
  BY <1>6, <1>7, EmptySeq
<1> QED BY <1>1, <1>2, <1>7, <1>8, EmptySeq

LEMMA MoveTable ==
  /\ Moves("apikey") = {<<"", "ProvisioningBackend">>}
  /\ \A p \in {"cluster", "backend", "dbgate"} : Moves(p) = {<<"ProvisioningBackend", "InitializingSchema">>}
  /\ Moves("schema") = {<<"InitializingSchema", "DeployingServer">>}
  /\ Moves("available") = {<<"DeployingServer", "ExposingDNS">>}
  /\ Moves("expose") = {<<"ExposingDNS", "Ready">>}
  /\ \A p \in {"endpoint", "replicas"} : Moves(p) = {<<"Ready", "Ready">>}
  /\ Moves("child") = {<<"DeployingServer", "ExposingDNS">>, <<"ExposingDNS", "Ready">>, <<"Ready", "Ready">>}
  /\ Moves("status") = {<<"", "Failed">>, <<"", "ProvisioningBackend">>,
                        <<"ProvisioningBackend", "InitializingSchema">>,
                        <<"InitializingSchema", "DeployingServer">>,
                        <<"DeployingServer", "ExposingDNS">>, <<"ExposingDNS", "Ready">>,
                        <<"ExposingDNS", "Failed">>}
BY DEF Moves

LEMMA BeginFacts ==
  ASSUME Typed, BeginPass
  PROVE  /\ pc = "idle" /\ cached.up /\ base' = cached
         /\ UNCHANGED <<srv, cached, child, cmCache, envVars, trouble>>
         /\ next' \in Statuses /\ pc' \in PCs \ {"idle", "dbgate"}
         /\ todo' \in Seq(Steps) /\ (pc' = "child" <=> todo' # <<>>)
         /\ pc' = "release" => cached.deleting
         /\ pc' \notin {"release", "finalizer"} =>
              /\ cached.fin /\ ~cached.deleting
              /\ <<cached.status.phase, next'.phase>> \in Moves(pc')
         /\ pc' = "status" => next'.phase \in {"Failed", "ProvisioningBackend"}
         /\ pc' = "cluster" => ~cached.spec.byoDB
<1>1. cached \in Objects /\ cached.status \in Statuses
  BY FieldTypes DEF Typed, TypeOK
<1> USE StepLists, MoveTable
<1>2. CASE BeginDelete
  BY <1>2, NoStatusFacts DEF BeginDelete, Begin, PCs
<1>3. CASE BeginAddFinalizer
  BY <1>3, NoStatusFacts DEF BeginAddFinalizer, Begin, PCs
<1>4. CASE BeginPending
  <2> DEFINE st == [cached.status EXCEPT !.phase = "ProvisioningBackend"]
             failed == [cached.status EXCEPT !.phase = "Failed"]
  <2>1. /\ st \in Statuses /\ st.phase = "ProvisioningBackend"
        /\ failed \in Statuses /\ failed.phase = "Failed"
    BY <1>1, StatusFacts DEF Phases
  <2>2. \A k \in {"own", "byo"} : [st EXCEPT !.key = k] \in Statuses
                                  /\ [st EXCEPT !.key = k].phase = "ProvisioningBackend"
    <3> HIDE DEF st
    <3> QED BY <2>1, StatusFacts
  <2>3. /\ cached.status.phase = "" /\ cached.fin /\ ~cached.deleting
        /\ \/ Begin("status", failed, <<>>)
           \/ Begin("status", [st EXCEPT !.key = "byo"], <<>>)
           \/ Begin("apikey", [st EXCEPT !.key = "own"], <<>>)
    BY <1>4 DEF BeginPending, Active
  <2> HIDE DEF st, failed
  <2> QED BY <2>1, <2>2, <2>3 DEF Begin, PCs
<1>5. CASE BeginProvisioning
  <2> DEFINE st == [cached.status EXCEPT !.phase = "InitializingSchema"]
  <2>1. st \in Statuses /\ st.phase = "InitializingSchema"
    BY <1>1, StatusFacts DEF Phases
  <2>2. /\ cached.status.phase = "ProvisioningBackend" /\ cached.fin /\ ~cached.deleting
        /\ \/ Begin("backend", st, <<>>)
           \/ ~cached.spec.byoDB /\ Begin("cluster", st, <<>>)
    BY <1>5 DEF BeginProvisioning, Active
  <2> HIDE DEF st
  <2> QED BY <2>1, <2>2 DEF Begin, PCs
<1>6. CASE BeginSchema \/ BeginDeploying \/ BeginExposing \/ BeginReady
  <2>1. /\ cached.fin /\ ~cached.deleting
        /\ \/ /\ cached.status.phase = "InitializingSchema"
              /\ Begin("schema", [cached.status EXCEPT !.phase = "DeployingServer"], <<>>)
           \/ /\ cached.status.phase = "DeployingServer"
              /\ Begin("child", [cached.status EXCEPT !.phase = "ExposingDNS"], Workload)
           \/ /\ cached.status.phase = "ExposingDNS"
              /\ Begin("child", [cached.status EXCEPT !.phase = "Ready"], Routes)
           \/ /\ cached.status.phase = "Ready" /\ Begin("child", cached.status, Drift)
    BY <1>6 DEF BeginSchema, BeginDeploying, BeginExposing, BeginReady, Active
  <2>2. \A p \in Phases : /\ [cached.status EXCEPT !.phase = p] \in Statuses
                          /\ [cached.status EXCEPT !.phase = p].phase = p
    BY ONLY <1>1, StatusFacts
  <2>3. {"DeployingServer", "ExposingDNS", "Ready"} \subseteq Phases
    BY DEF Phases
  <2>4. PICK p, st, ls :
          /\ Begin(p, st, ls) /\ st \in Statuses
          /\ \/ /\ p = "schema" /\ ls = <<>>
                /\ cached.status.phase = "InitializingSchema" /\ st.phase = "DeployingServer"
             \/ /\ p = "child" /\ ls \in {Workload, Routes, Drift}
                /\ <<cached.status.phase, st.phase>> \in Moves("child")
    <3>1. CASE cached.status.phase = "InitializingSchema"
      BY <2>1, <2>2, <2>3, <3>1
    <3>2. CASE cached.status.phase = "DeployingServer"
      BY <2>1, <2>2, <2>3, <3>2
    <3>3. CASE cached.status.phase = "ExposingDNS"
      BY <2>1, <2>2, <2>3, <3>3
    <3>4. CASE cached.status.phase = "Ready"
      BY <1>1, <2>1, <3>4
    <3> QED BY <2>1, <3>1, <3>2, <3>3, <3>4
  <2> QED BY <2>1, <2>4 DEF Begin, PCs
<1> QED BY <1>2, <1>3, <1>4, <1>5, <1>6 DEF BeginPass

-------------------------------------------------------------------------------
(* What a pass does to the children *)

\* A child someone may write: content and owner.
IsChild(v) == DOMAIN v = {"val", "owner"} /\ v.owner \in 0..MaxGen

\* v is what a pass may leave of child k: nothing, a child of the object it read,
\* or the one that was there with another content.
Fits(k, v) == /\ IsChild(v)
              /\ \/ v = None \/ v.owner = base.uid
                 \/ Exists(k) /\ v.owner = child[k].owner

\* The children after a step of a pass.
Kept == /\ DOMAIN child' = Kinds
        /\ \A k \in Kinds : child'[k] = child[k] \/ Fits(k, child'[k])
        /\ pc # "child" => child'["deployment"] = child["deployment"]
        /\ \/ child'["job"] = child["job"]
           \/ pc = "schema" /\ child'["job"].val \in {<<>>, <<"running">>}

LEMMA OwnedFits ==
  ASSUME Typed, NEW k \in Kinds, NEW v
  PROVE  Fits(k, Owned(v)) /\ Owned(v).val = v
BY FieldTypes DEF Fits, IsChild, Owned, Typed, TypeOK

LEMMA NoneFits ==
  ASSUME Typed, NEW k \in Kinds
  PROVE  Fits(k, None) /\ None.val = <<>>
<1>1. 0 \in 0..MaxGen
  BY ServerAssumption
<1> QED BY <1>1 DEF Fits, IsChild, None

LEMMA ChangedFits ==
  ASSUME Typed, NEW k \in Kinds, Exists(k), NEW v
  PROVE  Fits(k, [child[k] EXCEPT !.val = v]) /\ [child[k] EXCEPT !.val = v].val = v
<1>1. /\ DOMAIN child[k] = {"val", "owner"} /\ child[k].owner \in 0..MaxGen
  BY DEF Typed, TypeOK
<1>2. [child[k] EXCEPT !.val = v].val = v /\ [child[k] EXCEPT !.val = v].owner = child[k].owner
      /\ DOMAIN [child[k] EXCEPT !.val = v] = {"val", "owner"}
  BY <1>1
<1> QED BY <1>1, <1>2 DEF Fits, IsChild

LEMMA ConvergedFits ==
  ASSUME Typed, NEW k \in Kinds
  PROVE  Fits(k, Converged(k)) \/ Converged(k) = child[k]
<1>1. \A v : Fits(k, Owned(v))
  BY OwnedFits
<1>2. Fits(k, None)
  BY NoneFits
<1>3. Exists(k) => \A v : Fits(k, [child[k] EXCEPT !.val = v])
  BY ChangedFits
<1> PICK want : want = Render(k, base.spec, hash)
  OBVIOUS
<1>4. Converged(k) = CASE want = <<>>                          -> None
       [] child[k].val = <<>>                      -> Owned(want)
       [] k \in CreateOnly(base.status.phase)  -> child[k]
       [] k \in {"tcproute", "udproute", "httproute"} -> Owned(want)
       [] OTHER                                -> [child[k] EXCEPT !.val = want]
  BY DEF Converged
<1> QED BY <1>1, <1>2, <1>3, <1>4 DEF Exists

\* A write that happens or does not, of a child that is not the Job, and of the
\* Deployment only while a pass works on the workload.
LEMMA PutKept ==
  ASSUME Typed, NEW k \in Kinds \ {"job"}, NEW v, Fits(k, v), pc # "child" => k # "deployment",
         child' = child \/ child' = [child EXCEPT ![k] = v]
  PROVE  Kept
<1>1. CASE child' = child
  BY <1>1 DEF Kept, Typed, TypeOK
<1>2. CASE child' = [child EXCEPT ![k] = v]
  <2>1. DOMAIN child = Kinds /\ {"job", "deployment"} \subseteq Kinds
    BY DEF Typed, TypeOK, Kinds
  <2>2. DOMAIN child' = Kinds /\ child'[k] = v /\ \A j \in Kinds \ {k} : child'[j] = child[j]
    BY <1>2, <2>1
  <2>3. \A j \in Kinds : child'[j] = child[j] \/ Fits(j, child'[j])
    BY <2>2
  <2> QED BY <2>1, <2>2, <2>3 DEF Kept
<1> QED BY <1>1, <1>2

LEMMA JobKept ==
  ASSUME Typed, pc = "schema", NEW v, Fits("job", v), v.val \in {<<>>, <<"running">>},
         child' = child \/ child' = [child EXCEPT !["job"] = v]
  PROVE  Kept
<1>1. DOMAIN child = Kinds /\ {"job", "deployment"} \subseteq Kinds
  BY DEF Typed, TypeOK, Kinds
<1>2. CASE child' = child
  BY <1>1, <1>2 DEF Kept
<1>3. CASE child' = [child EXCEPT !["job"] = v]
  <2>1. DOMAIN child' = Kinds /\ child'["job"] = v /\ \A j \in Kinds \ {"job"} : child'[j] = child[j]
    BY <1>1, <1>3
  <2>2. \A j \in Kinds : child'[j] = child[j] \/ Fits(j, child'[j])
    BY <2>1
  <2> QED BY <1>1, <2>1, <2>2 DEF Kept
<1> QED BY <1>2, <1>3

LEMMA SameKept ==
  ASSUME Typed, child' = child
  PROVE  Kept
BY DEF Kept, Typed, TypeOK

LEMMA ChargeFacts ==
  ASSUME Typed, NEW o \in Outcomes, Charge(o)
  PROVE  trouble' \in 0..MaxTrouble
<1>1. MaxTrouble \in Nat /\ trouble \in 0..MaxTrouble
  BY ServerAssumption DEF Typed, TypeOK
<1>2. o = "done" \/ trouble < MaxTrouble
  BY DEF Outcomes
<1> QED BY <1>1, <1>2 DEF Charge

-------------------------------------------------------------------------------
(* The steps of a pass that leave the server object alone *)

\* What entitles a pass to write the phase it is about to write.
Gate == \/ next'.phase \notin AfterBackend
        \/ next'.phase = "InitializingSchema" /\ (base.spec.byoDB \/ dbUp)
        \/ base.status.phase = "InitializingSchema" /\ child["job"].val = <<"succeeded">>
        \/ base.status.phase \in AfterSchema

Continued ==
  /\ base' = base /\ next' \in Statuses /\ pc' \in PCs \ {"idle", "release", "finalizer", "cluster"}
  /\ todo' \in Seq(Steps) /\ (pc' = "child" <=> todo' # <<>>)
  /\ <<base.status.phase, next'.phase>> \in Moves(pc')
  /\ pc' = "status" => Gate
  /\ pc' = "dbgate" => ~base.spec.byoDB

Checked == /\ Working /\ UNCHANGED <<srv, cached, envVars>>
           /\ trouble' \in 0..MaxTrouble /\ Kept /\ (Finish \/ Continued)

\* A step that goes on to p with everything else as it was.
LEMMA GotoContinues ==
  ASSUME Typed, pc # "child", NEW p \in PCs \ {"idle", "release", "finalizer", "cluster", "child"},
         <<base.status.phase, next.phase>> \in Moves(p),
         p = "status" => \/ next.phase \notin AfterBackend
                         \/ next.phase = "InitializingSchema" /\ (base.spec.byoDB \/ dbUp)
                         \/ base.status.phase = "InitializingSchema" /\ child["job"].val = <<"succeeded">>
                         \/ base.status.phase \in AfterSchema,
         p = "dbgate" => ~base.spec.byoDB,
         Goto(p)
  PROVE  Continued
<1>1. base' = base /\ next' = next /\ todo' = todo /\ pc' = p
  BY DEF Goto
<1>2. next \in Statuses /\ todo \in Seq(Steps) /\ todo = <<>>
  BY DEF Typed, TypeOK
<1> QED BY <1>1, <1>2 DEF Continued, Gate

LEMMA AskFacts ==
  ASSUME Typed, NEW o \in Outcomes \ {"lost"}, Charge(o), child' = child
  PROVE  trouble' \in 0..MaxTrouble /\ Kept
BY ChargeFacts, SameKept

LEMMA MovedFrom ==
  ASSUME PhaseMoves, Working
  PROVE  /\ pc = "apikey" => base.status.phase = "" /\ next.phase = "ProvisioningBackend"
         /\ pc \in {"cluster", "backend", "dbgate"} =>
              base.status.phase = "ProvisioningBackend" /\ next.phase = "InitializingSchema"
         /\ pc = "schema" => base.status.phase = "InitializingSchema" /\ next.phase = "DeployingServer"
         /\ pc = "available" => base.status.phase = "DeployingServer" /\ next.phase = "ExposingDNS"
         /\ pc = "expose" => base.status.phase = "ExposingDNS" /\ next.phase = "Ready"
         /\ pc \in {"endpoint", "replicas"} => base.status.phase = "Ready" /\ next.phase = "Ready"
<1> PICK a, b : a = base.status.phase /\ b = next.phase
  OBVIOUS
<1>1. <<a, b>> \in Moves(pc)
  BY DEF PhaseMoves
<1>2. \A x, y : <<a, b>> = <<x, y>> => a = x /\ b = y
  OBVIOUS
<1>3. /\ pc = "apikey" => <<a, b>> = <<"", "ProvisioningBackend">>
      /\ pc \in {"cluster", "backend", "dbgate"} => <<a, b>> = <<"ProvisioningBackend", "InitializingSchema">>
      /\ pc = "schema" => <<a, b>> = <<"InitializingSchema", "DeployingServer">>
  BY <1>1, MoveTable
<1>4. /\ pc = "available" => <<a, b>> = <<"DeployingServer", "ExposingDNS">>
      /\ pc = "expose" => <<a, b>> = <<"ExposingDNS", "Ready">>
      /\ pc \in {"endpoint", "replicas"} => <<a, b>> = <<"Ready", "Ready">>
  BY <1>1, MoveTable
<1> QED BY <1>2, <1>3, <1>4

LEMMA EnsureAPIKeyStep ==
  ASSUME Typed, PhaseMoves, EnsureAPIKey
  PROVE  Checked
<1>1. pc = "apikey" /\ Working /\ "apikey" \in Kinds \ {"job", "deployment"}
  BY DEF EnsureAPIKey, Working, Kinds
<1>2. UNCHANGED <<srv, cached, envVars>>
  BY DEF EnsureAPIKey
<1>3. base.status.phase = "" /\ next.phase = "ProvisioningBackend"
  BY <1>1, MovedFrom
<1>4. Goto("status") => Continued
  <2>1. <<base.status.phase, next.phase>> \in Moves("status") /\ "status" \in PCs
    BY <1>3, MoveTable DEF PCs
  <2>2. next.phase \notin AfterBackend
    BY <1>3 DEF AfterBackend, AfterSchema
  <2> QED BY <1>1, <2>1, <2>2, GotoContinues
<1>5. PICK v : v = Owned(<<"key", base.uid>>)
  OBVIOUS
<1>6. Fits("apikey", v)
  BY <1>1, <1>5, OwnedFits
<1>7. PICK o \in Outcomes : /\ Charge(o) /\ (child' = child \/ child' = [child EXCEPT !["apikey"] = v])
                            /\ (Goto("status") \/ Finish)
  BY <1>5 DEF EnsureAPIKey, Ask, Put
<1>8. Kept
  BY <1>1, <1>6, <1>7, PutKept
<1> QED BY <1>1, <1>2, <1>4, <1>7, <1>8, ChargeFacts DEF Checked

LEMMA EnsureClusterStep ==
  ASSUME Typed, PhaseMoves, EnsureCluster
  PROVE  Checked
<1>1. pc = "cluster" /\ Working /\ "cluster" \in Kinds \ {"job", "deployment"}
  BY DEF EnsureCluster, Working, Kinds
<1>2. UNCHANGED <<srv, cached, envVars>>
  BY DEF EnsureCluster
<1>3. Goto("backend") => Continued
  <2>1. <<base.status.phase, next.phase>> \in Moves("backend") /\ "backend" \in PCs
    BY <1>1, MovedFrom, MoveTable DEF PCs
  <2> QED BY <1>1, <2>1, GotoContinues
<1>4. PICK v : v = Owned(CNPGCluster)
  OBVIOUS
<1>5. Fits("cluster", v)
  BY <1>1, <1>4, OwnedFits
<1>6. PICK o \in Outcomes : /\ Charge(o) /\ (child' = child \/ child' = [child EXCEPT !["cluster"] = v])
                            /\ (Goto("backend") \/ Finish)
  BY <1>4 DEF EnsureCluster, Ask, Put
<1>7. Kept
  BY <1>1, <1>5, <1>6, PutKept
<1> QED BY <1>1, <1>2, <1>3, <1>6, <1>7, ChargeFacts DEF Checked

LEMMA MaterialiseBackendStep ==
  ASSUME Typed, PhaseMoves, MaterialiseBackend
  PROVE  Checked
<1>1. pc = "backend" /\ Working /\ "backend" \in Kinds \ {"job", "deployment"}
  BY DEF MaterialiseBackend, Working, Kinds
<1>2. UNCHANGED <<srv, cached, envVars>>
  BY DEF MaterialiseBackend
<1>3. base.status.phase = "ProvisioningBackend" /\ next.phase = "InitializingSchema"
  BY <1>1, MovedFrom
<1> PICK p : p = IF base.spec.byoDB THEN "status" ELSE "dbgate"
  OBVIOUS
<1>4. Goto(p) => Continued
  <2>1. <<base.status.phase, next.phase>> \in Moves(p) /\ p \in {"status", "dbgate"}
    BY <1>3, MoveTable
  <2>2. {"status", "dbgate"} \subseteq PCs
    BY DEF PCs
  <2> QED BY <1>1, <1>3, <2>1, <2>2, GotoContinues
<1> PICK v : v = IF Exists("backend") THEN [child["backend"] EXCEPT !.val = source] ELSE Owned(source)
  OBVIOUS
<1>5. Fits("backend", v)
  BY <1>1, OwnedFits, ChangedFits
<1>6. \/ Finish /\ UNCHANGED <<child, trouble>>
      \/ \E o \in Outcomes : /\ Charge(o) /\ (child' = child \/ child' = [child EXCEPT !["backend"] = v])
                             /\ (Goto(p) \/ Finish)
  BY DEF MaterialiseBackend, Ask, Put
<1>7. CASE Finish /\ UNCHANGED <<child, trouble>>
  BY <1>1, <1>2, <1>7, SameKept DEF Checked, Typed, TypeOK
<1>8. ASSUME NEW o \in Outcomes, Charge(o), child' = child \/ child' = [child EXCEPT !["backend"] = v],
             Goto(p) \/ Finish
      PROVE  Checked
  <2>1. Kept
    BY <1>1, <1>5, <1>8, PutKept
  <2> QED BY <1>1, <1>2, <1>4, <1>8, <2>1, ChargeFacts DEF Checked
<1> QED BY <1>6, <1>7, <1>8

LEMMA CnpgClusterReadyStep ==
  ASSUME Typed, PhaseMoves, CnpgClusterReady
  PROVE  Checked
<1>1. pc = "dbgate" /\ Working
  BY DEF CnpgClusterReady, Working
<1>2. UNCHANGED <<srv, cached, envVars>> /\ child' = child
  BY DEF CnpgClusterReady
<1>3. base.status.phase = "ProvisioningBackend" /\ next.phase = "InitializingSchema"
  BY <1>1, MovedFrom
<1>4. dbUp /\ Goto("status") => Continued
  <2>1. <<base.status.phase, next.phase>> \in Moves("status") /\ "status" \in PCs
    BY <1>3, MoveTable DEF PCs
  <2> QED BY <1>1, <1>3, <2>1, GotoContinues
<1>5. PICK o \in Outcomes \ {"lost"} : Charge(o) /\ (Finish \/ (dbUp /\ Goto("status")))
  BY DEF CnpgClusterReady, Ask
<1> QED BY <1>1, <1>2, <1>4, <1>5, AskFacts DEF Checked

LEMMA InitializeSchemaStep ==
  ASSUME Typed, PhaseMoves, InitializeSchema
  PROVE  Checked
<1>1. pc = "schema" /\ Working /\ "job" \in Kinds
  BY DEF InitializeSchema, Working, Kinds
<1>2. UNCHANGED <<srv, cached, envVars>>
  BY DEF InitializeSchema
<1>3. base.status.phase = "InitializingSchema" /\ next.phase = "DeployingServer"
  BY <1>1, MovedFrom
<1>4. child["job"].val = <<"succeeded">> /\ Goto("status") => Continued
  <2>1. <<base.status.phase, next.phase>> \in Moves("status") /\ "status" \in PCs
    BY <1>3, MoveTable DEF PCs
  <2> QED BY <1>1, <1>3, <2>1, GotoContinues
<1> PICK v : v = Owned(SchemaInitJob)
  OBVIOUS
<1>5. /\ Fits("job", v) /\ v.val = <<"running">>
      /\ Fits("job", None) /\ None.val = <<>>
  BY <1>1, OwnedFits, NoneFits DEF SchemaInitJob
<1>6. PICK o \in Outcomes :
        /\ Charge(o)
        /\ \/ child' = child \/ child' = [child EXCEPT !["job"] = v]
           \/ child' = [child EXCEPT !["job"] = None]
        /\ Finish \/ (child["job"].val = <<"succeeded">> /\ Goto("status"))
  BY DEF InitializeSchema, Ask, Put
<1>7. Kept
  BY <1>1, <1>5, <1>6, JobKept
<1> QED BY <1>1, <1>2, <1>4, <1>6, <1>7, ChargeFacts DEF Checked

LEMMA CheckAvailableStep ==
  ASSUME Typed, PhaseMoves, CheckAvailable
  PROVE  Checked
<1>1. pc = "available" /\ Working
  BY DEF CheckAvailable, Working
<1>2. UNCHANGED <<srv, cached, envVars>> /\ child' = child
  BY DEF CheckAvailable
<1>3. base.status.phase = "DeployingServer" /\ next.phase = "ExposingDNS"
  BY <1>1, MovedFrom
<1>4. Goto("status") => Continued
  <2>1. <<base.status.phase, next.phase>> \in Moves("status") /\ "status" \in PCs
    BY <1>3, MoveTable DEF PCs
  <2> QED BY <1>1, <1>3, <2>1, GotoContinues DEF AfterSchema
<1>5. PICK o \in Outcomes \ {"lost"} : Charge(o) /\ (Finish \/ Goto("status"))
  BY DEF CheckAvailable, Ask
<1> QED BY <1>1, <1>2, <1>4, <1>5, AskFacts DEF Checked

LEMMA EndpointValues ==
  ASSUME NEW sp
  PROVE  LiveEndpoint(sp) \in {"", "cluster", "lb", "gateway"}
BY DEF LiveEndpoint

LEMMA ExposeDNSStep ==
  ASSUME Typed, PhaseMoves, ExposeDNS
  PROVE  Checked
<1>1. pc = "expose" /\ Working
  BY DEF ExposeDNS, Working
<1>2. UNCHANGED <<srv, cached, envVars>> /\ child' = child
  BY DEF ExposeDNS
<1>3. base.status.phase = "ExposingDNS" /\ next.phase = "Ready"
  BY <1>1, MovedFrom
<1>4. /\ next \in Statuses /\ base.status \in Statuses /\ todo = <<>> /\ todo \in Seq(Steps)
  BY <1>1, FieldTypes DEF Typed, TypeOK
<1> PICK failed : failed = [base.status EXCEPT !.phase = "Failed"]
  OBVIOUS
<1> PICK ready : ready = [next EXCEPT !.endpoint = LiveEndpoint(base.spec)]
  OBVIOUS
<1>5. /\ failed \in Statuses /\ failed.phase = "Failed"
      /\ ready \in Statuses /\ ready.phase = "Ready"
  <2>1. failed \in Statuses /\ failed.phase = "Failed"
    BY <1>4, StatusFacts DEF Phases
  <2>2. LiveEndpoint(base.spec) \in {"", "cluster", "lb", "gateway"}
    BY EndpointValues
  <2>3. ready \in Statuses /\ ready.phase = "Ready"
    BY <1>3, <1>4, <2>2, StatusFacts
  <2> QED BY <2>1, <2>3
<1>6. PICK o \in Outcomes \ {"lost"} :
        /\ Charge(o)
        /\ \/ Finish
           \/ next' \in {failed, ready} /\ pc' = "status" /\ UNCHANGED <<base, todo, hash>>
  BY DEF ExposeDNS, Ask
<1>7. ASSUME next' \in {failed, ready}, pc' = "status", UNCHANGED <<base, todo, hash>>
      PROVE  Continued
  <2>1. <<base.status.phase, next'.phase>> \in Moves("status") /\ "status" \in PCs
    BY <1>3, <1>5, <1>7, MoveTable DEF PCs
  <2> QED BY <1>3, <1>4, <1>5, <1>7, <2>1 DEF Continued, Gate, AfterSchema
<1> QED BY <1>1, <1>2, <1>6, <1>7, AskFacts DEF Checked

LEMMA AdvanceContinues ==
  ASSUME Typed, PhaseMoves, pc = "child", Advance
  PROVE  Continued
<1>1. todo \in Seq(Steps) /\ todo # <<>> /\ next \in Statuses
  BY DEF Typed, TypeOK
<1>2. Tail(todo) \in Seq(Steps) /\ Len(Tail(todo)) = Len(todo) - 1 /\ Len(todo) \in Nat
  BY <1>1, HeadTailProperties, LenProperties
<1>3. Tail(todo) # <<>> <=> Len(todo) > 1
  <2>1. Tail(todo) = <<>> <=> Len(Tail(todo)) = 0
    BY <1>2, EmptySeq
  <2>2. Len(todo) # 0
    BY <1>1, EmptySeq
  <2> QED BY <1>2, <2>1, <2>2
<1>4. todo' = Tail(todo) /\ base' = base /\ next' = next
  BY DEF Advance
<1> PICK a, b : a = base.status.phase /\ b = next.phase
  OBVIOUS
<1>5. <<a, b>> \in {<<"DeployingServer", "ExposingDNS">>, <<"ExposingDNS", "Ready">>, <<"Ready", "Ready">>}
  BY MoveTable DEF PhaseMoves, Working
<1>6. \/ a = "DeployingServer" /\ b = "ExposingDNS"
      \/ a = "ExposingDNS" /\ b = "Ready"
      \/ a = "Ready" /\ b = "Ready"
  BY ONLY <1>5
<1>7. /\ Len(todo) > 1 => pc' = "child"
      /\ ~(Len(todo) > 1) => pc' = CASE a = "DeployingServer" -> "available"
                                     [] a = "ExposingDNS"     -> "expose"
                                     [] OTHER                 -> "endpoint"
  BY DEF Advance
<1>8. /\ pc' \in {"child", "available", "expose", "endpoint"} /\ <<a, b>> \in Moves(pc')
      /\ pc' = "child" <=> Len(todo) > 1
  <2>1. CASE Len(todo) > 1
    BY <1>5, <1>7, <2>1, MoveTable
  <2>2. CASE ~(Len(todo) > 1)
    BY <1>6, <1>7, <2>2, MoveTable
  <2> QED BY <2>1, <2>2
<1> QED BY <1>1, <1>2, <1>3, <1>4, <1>8 DEF Continued, PCs

LEMMA ComputeConfigHashStep ==
  ASSUME Typed, PhaseMoves, ComputeConfigHash
  PROVE  Checked
<1>1. pc = "child" /\ Working /\ UNCHANGED <<srv, cached, envVars>> /\ child' = child
  BY DEF ComputeConfigHash, Working
<1>2. PICK o \in Outcomes \ {"lost"} : Charge(o) /\ (Advance \/ Finish)
  BY DEF ComputeConfigHash
<1> QED BY <1>1, <1>2, AskFacts, AdvanceContinues DEF Checked

LEMMA ConvergeChildStep ==
  ASSUME Typed, PhaseMoves, ConvergeChild
  PROVE  Checked
<1>1. pc = "child" /\ Working /\ UNCHANGED <<srv, cached, envVars>>
  BY DEF ConvergeChild, Working
<1> PICK k : k = Head(todo)
  OBVIOUS
<1>2. k \in Kinds \ {"job"}
  <2>1. k \in Steps
    BY <1>1, HeadTailProperties DEF Typed, TypeOK
  <2>2. k # "hash"
    BY DEF ConvergeChild
  <2> QED BY <2>1, <2>2 DEF Steps, Kinds
<1> PICK v : v = Converged(k)
  OBVIOUS
<1>3. Fits(k, v) \/ v = child[k]
  BY <1>2, ConvergedFits
<1>4. PICK o \in Outcomes : /\ Charge(o) /\ (Advance \/ Finish)
                            /\ \/ child' = child
                               \/ v # child[k] /\ child' = [child EXCEPT ![k] = v]
  BY DEF ConvergeChild, Ask, Put
<1>5. Kept
  BY <1>1, <1>2, <1>3, <1>4, PutKept, SameKept
<1> QED BY <1>1, <1>4, <1>5, ChargeFacts, AdvanceContinues DEF Checked

LEMMA UpdateConfigMapStep ==
  ASSUME Typed, PhaseMoves, UpdateConfigMap
  PROVE  Checked
<1>1. pc = "child" /\ Working /\ UNCHANGED <<srv, cached, envVars>> /\ "configmap" \in Kinds \ {"job"}
  BY DEF UpdateConfigMap, Working, Kinds
<1> PICK v : v = Converged("configmap")
  OBVIOUS
<1>2. Fits("configmap", v) \/ v = child["configmap"]
  BY <1>1, ConvergedFits
<1>3. \/ Finish /\ UNCHANGED <<child, trouble>>
      \/ \E o \in Outcomes : /\ Charge(o) /\ (Advance \/ Finish)
                             /\ \/ child' = child
                                \/ /\ v # child["configmap"]
                                   /\ child' = [child EXCEPT !["configmap"] = v]
  BY DEF UpdateConfigMap, Ask, Put
<1>4. CASE Finish /\ UNCHANGED <<child, trouble>>
  BY <1>1, <1>4, SameKept DEF Checked, Typed, TypeOK
<1>5. ASSUME NEW o \in Outcomes, Charge(o), Advance \/ Finish,
             \/ child' = child
             \/ v # child["configmap"] /\ child' = [child EXCEPT !["configmap"] = v]
      PROVE  Checked
  <2>1. Kept
    BY <1>1, <1>2, <1>5, PutKept, SameKept
  <2> QED BY <1>1, <1>5, <2>1, ChargeFacts, AdvanceContinues DEF Checked
<1> QED BY <1>3, <1>4, <1>5

Checks == \/ EnsureAPIKey \/ EnsureCluster \/ MaterialiseBackend \/ CnpgClusterReady
          \/ InitializeSchema \/ ComputeConfigHash \/ ConvergeChild \/ UpdateConfigMap
          \/ CheckAvailable \/ ExposeDNS

LEMMA CheckFacts ==
  ASSUME Typed, PhaseMoves, Checks
  PROVE  Checked
BY EnsureAPIKeyStep, EnsureClusterStep, MaterialiseBackendStep, CnpgClusterReadyStep,
   InitializeSchemaStep, ComputeConfigHashStep, ConvergeChildStep, UpdateConfigMapStep,
   CheckAvailableStep, ExposeDNSStep DEF Checks

-------------------------------------------------------------------------------
(* The steps of a pass that write the server object *)

Stores == AddFinalizer \/ Release \/ WriteStatus \/ RefreshDNSEndpoint \/ RefreshReplicaStatus

\* The object a pass at p may store in place of the one it read.
Stored(new) ==
  \/ pc = "finalizer" /\ Stays(base, new) /\ new.fin /\ new.status = base.status
  \/ pc = "release" /\ new = Gone(base.gen)
  \/ pc = "status" /\ Restates(base, new, next.phase)
  \/ pc \in {"endpoint", "replicas"} /\ Restates(base, new, base.status.phase)

Saved == /\ UNCHANGED <<cached, child, envVars>>
         /\ trouble' \in 0..MaxTrouble
         /\ srv' = srv \/ (srv = base /\ srv' \in Objects /\ Stored(srv'))
         /\ \/ Finish
            \/ /\ pc = "endpoint" /\ pc' = "replicas" /\ UNCHANGED <<todo, hash, next>>
               /\ base' = base \/ (srv = base /\ base' = srv')

LEMMA StoreFacts ==
  ASSUME Typed, Stores
  PROVE  Saved
<1>1. base \in Objects /\ base.status \in Statuses /\ next \in Statuses /\ base.gen \in 0..MaxGen
  BY FieldTypes DEF Typed, TypeOK
<1>2. CASE AddFinalizer
  <2> PICK new : new = [base EXCEPT !.fin = TRUE]
    OBVIOUS
  <2>1. /\ new \in Objects /\ Stays(base, new) /\ new.fin /\ new.status = base.status
    <3>1. new \in Objects
      BY <1>1 DEF Objects
    <3>2. /\ new.up = base.up /\ new.uid = base.uid /\ new.gen = base.gen /\ new.deleting = base.deleting
          /\ new.fin = TRUE /\ new.spec = base.spec /\ new.status = base.status
      BY <1>1 DEF Objects
    <3> QED BY <1>1, <3>1, <3>2, FieldTypes DEF Stays
  <2>2. /\ pc = "finalizer" /\ UNCHANGED <<cached, child, envVars>>
        /\ \E o \in Outcomes : Charge(o) /\ srv' = (IF srv = base /\ o # "err" THEN new ELSE srv) /\ Finish
    BY <1>2 DEF AddFinalizer, Store
  <2> QED BY <2>1, <2>2, ChargeFacts DEF Saved, Stored
<1>3. CASE Release
  <2> PICK new : new = Gone(base.gen)
    OBVIOUS
  <2>1. new \in Objects
    BY <1>1, GoneFacts
  <2>2. /\ pc = "release" /\ UNCHANGED <<cached, child, envVars>>
        /\ \E o \in Outcomes : Charge(o) /\ srv' = (IF srv = base /\ o # "err" THEN new ELSE srv) /\ Finish
    BY <1>3 DEF Release, Store
  <2> QED BY <2>1, <2>2, ChargeFacts DEF Saved, Stored
<1>4. CASE WriteStatus
  <2> PICK new : new = WithStatus(next)
    OBVIOUS
  <2>1. new \in Objects /\ Restates(base, new, next.phase)
    BY <1>1, RestateFacts DEF WithStatus
  <2>2. /\ pc = "status" /\ UNCHANGED <<cached, child, envVars>>
        /\ \E o \in Outcomes : Charge(o) /\ srv' = (IF srv = base /\ o # "err" THEN new ELSE srv) /\ Finish
    BY <1>4 DEF WriteStatus, Store
  <2> QED BY <2>1, <2>2, ChargeFacts DEF Saved, Stored
<1>5. CASE RefreshDNSEndpoint
  <2> PICK st : st = [base.status EXCEPT !.endpoint = LiveEndpoint(base.spec)]
    OBVIOUS
  <2>1. st \in Statuses /\ st.phase = base.status.phase
    <3>1. LiveEndpoint(base.spec) \in {"", "cluster", "lb", "gateway"}
      BY EndpointValues
    <3> QED BY <1>1, <3>1, StatusFacts
  <2> PICK new : new = WithStatus(st)
    OBVIOUS
  <2>2. new \in Objects /\ Restates(base, new, base.status.phase)
    BY <1>1, <2>1, RestateFacts DEF WithStatus
  <2>3. /\ pc = "endpoint" /\ UNCHANGED <<cached, child, envVars>>
        /\ \E o \in Outcomes :
             /\ Charge(o)
             /\ srv' = srv \/ (srv = base /\ srv' = new)
             /\ \/ Finish
                \/ /\ pc' = "replicas" /\ UNCHANGED <<todo, hash, next>>
                   /\ base' = base \/ (srv = base /\ srv' = new /\ base' = new)
    BY <1>5 DEF RefreshDNSEndpoint, Store, Ask, Goto
  <2>4. srv' = srv \/ (srv = base /\ srv' \in Objects /\ Stored(srv'))
    BY <2>2, <2>3 DEF Stored
  <2>5. \/ Finish
        \/ /\ pc' = "replicas" /\ UNCHANGED <<todo, hash, next>>
           /\ base' = base \/ (srv = base /\ base' = srv')
    BY <2>3
  <2>6. trouble' \in 0..MaxTrouble
    BY <2>3, ChargeFacts
  <2> QED BY <2>3, <2>4, <2>5, <2>6 DEF Saved
<1>6. CASE RefreshReplicaStatus
  <2> PICK st : st = [base.status EXCEPT !.ready = (pods # NoPods)]
    OBVIOUS
  <2>1. st \in Statuses /\ st.phase = base.status.phase
    BY <1>1, StatusFacts
  <2> PICK new : new = WithStatus(st)
    OBVIOUS
  <2>2. new \in Objects /\ Restates(base, new, base.status.phase)
    BY <1>1, <2>1, RestateFacts DEF WithStatus
  <2>3. /\ pc = "replicas" /\ UNCHANGED <<cached, child, envVars>>
        /\ \E o \in Outcomes : Charge(o) /\ (srv' = srv \/ (srv = base /\ srv' = new)) /\ Finish
    BY <1>6 DEF RefreshReplicaStatus, Store, Ask
  <2> QED BY <2>2, <2>3, ChargeFacts DEF Saved, Stored
<1> QED BY <1>2, <1>3, <1>4, <1>5, <1>6 DEF Stores

-------------------------------------------------------------------------------
(* Users and the cluster *)

Edits == CreateCR \/ EditSpec \/ DeleteCR \/ ClearPhase

\* What users do to the server object.
Edited == /\ UNCHANGED <<cached, child, passVars, lb>> /\ srv' \in Objects
          /\ trouble' \in 0..MaxTrouble
          /\ source' = <<>> \/ source' = source
          /\ dbUp' \in BOOLEAN /\ schema' \in BOOLEAN
          /\ \/ Starts(srv, srv') /\ (Hasty \/ \A k \in Kinds : ~Exists(k))
             \/ /\ Stays(srv, srv') /\ srv'.status.phase \in {srv.status.phase, ""}
                /\ UNCHANGED <<dbUp, schema>>
             \/ Ends(srv, srv') /\ ~srv.fin /\ ~srv.deleting

LEMMA EditFacts ==
  ASSUME Typed, Edits
  PROVE  Edited
<1>1. /\ srv \in Objects /\ srv.status \in Statuses /\ srv.gen \in 0..MaxGen /\ MaxGen \in Nat
      /\ trouble \in 0..MaxTrouble /\ MaxTrouble \in Nat /\ dbUp \in BOOLEAN /\ schema \in BOOLEAN
  BY FieldTypes, ServerAssumption DEF Typed, TypeOK
<1>2. CASE CreateCR
  <2>1. PICK sp \in Specs :
          srv' = [Gone(srv.gen + 1) EXCEPT !.up = TRUE, !.uid = srv.gen + 1, !.spec = sp]
    BY <1>2 DEF CreateCR
  <2>2. srv.gen + 1 \in 0..MaxGen /\ ~srv.up /\ (Hasty \/ \A k \in Kinds : ~Exists(k))
    BY <1>1, <1>2 DEF CreateCR
  <2>3. srv' = [up |-> TRUE, uid |-> srv.gen + 1, gen |-> srv.gen + 1, deleting |-> FALSE,
                fin |-> FALSE, spec |-> sp, status |-> NoStatus]
    BY <2>1 DEF Gone
  <2>4. srv' \in Objects
    BY <2>2, <2>3, NoStatusFacts DEF Objects
  <2>5. Starts(srv, srv')
    BY <2>2, <2>3, NoStatusFacts DEF Starts
  <2>6. /\ UNCHANGED <<cached, child, passVars, lb, trouble>>
        /\ source' = <<>> \/ source' = source
        /\ dbUp' \in BOOLEAN /\ schema' \in BOOLEAN
    BY <1>1, <1>2 DEF CreateCR
  <2> QED BY <1>1, <2>2, <2>4, <2>5, <2>6 DEF Edited
<1>3. CASE EditSpec
  <2>1. PICK sp \in Specs : sp.byoDB = srv.spec.byoDB /\ srv' = [srv EXCEPT !.spec = sp, !.gen = @ + 1]
    BY <1>3 DEF EditSpec
  <2>2. srv.gen + 1 \in 0..MaxGen /\ srv.gen <= srv.gen + 1
    BY <1>1, <1>3 DEF EditSpec
  <2>3. /\ srv'.up = srv.up /\ srv'.uid = srv.uid /\ srv'.gen = srv.gen + 1 /\ srv'.deleting = srv.deleting
        /\ srv'.fin = srv.fin /\ srv'.spec = sp /\ srv'.status = srv.status
    BY <1>1, <2>1 DEF Objects
  <2>4. srv' \in Objects
    BY <1>1, <2>1, <2>2 DEF Objects
  <2>5. Stays(srv, srv')
    BY <2>1, <2>2, <2>3 DEF Stays
  <2> QED BY <1>1, <1>3, <2>3, <2>4, <2>5 DEF EditSpec, Edited, envVars
<1>4. CASE DeleteCR
  <2>1. CASE srv.fin
    <3>1. srv' = [srv EXCEPT !.deleting = TRUE]
      BY <1>4, <2>1 DEF DeleteCR
    <3>2. /\ srv'.up = srv.up /\ srv'.uid = srv.uid /\ srv'.gen = srv.gen /\ srv'.deleting = TRUE
          /\ srv'.fin = srv.fin /\ srv'.spec = srv.spec /\ srv'.status = srv.status
      BY <1>1, <3>1 DEF Objects
    <3>3. srv' \in Objects
      BY <1>1, <3>1 DEF Objects
    <3>4. Stays(srv, srv')
      BY <1>1, <3>2 DEF Stays
    <3> QED BY <1>1, <1>4, <3>2, <3>3, <3>4 DEF DeleteCR, Edited, envVars
  <2>2. CASE ~srv.fin
    <3>1. srv' = Gone(srv.gen) /\ ~srv.deleting
      BY <1>4, <2>2 DEF DeleteCR
    <3>2. srv' \in Objects /\ Ends(srv, srv')
      BY <1>1, <3>1, GoneFacts DEF Ends
    <3> QED BY <1>1, <1>4, <2>2, <3>1, <3>2 DEF DeleteCR, Edited, envVars
  <2> QED BY <2>1, <2>2
<1>5. CASE ClearPhase
  <2> PICK st : st = [srv.status EXCEPT !.phase = ""]
    OBVIOUS
  <2>1. st \in Statuses /\ st.phase = ""
    BY <1>1, StatusFacts DEF Phases
  <2>2. srv' = [srv EXCEPT !.status = st]
    BY <1>5 DEF ClearPhase
  <2>3. srv' \in Objects /\ Restates(srv, srv', "")
    BY <1>1, <2>1, <2>2, RestateFacts
  <2>4. Stays(srv, srv') /\ srv'.status.phase = ""
    BY <1>1, <2>3, RestatesStays DEF Restates
  <2>5. trouble' \in 0..MaxTrouble
    <3>1. trouble < MaxTrouble /\ trouble' = trouble + 1
      BY <1>5 DEF ClearPhase
    <3> QED BY ONLY <1>1, <3>1
  <2> QED BY <1>1, <1>5, <2>3, <2>4, <2>5 DEF ClearPhase, Edited, envVars
<1> QED BY <1>2, <1>3, <1>4, <1>5 DEF Edits

Rest == RefreshConfigMap \/ Cluster \/ Tamper \/ RotateCredentials \/ LosePods

\* Nobody but a pass makes a child; the database loses nothing while no child is
\* garbage.
Elsewhere ==
  /\ UNCHANGED <<srv, cached, passVars>> /\ trouble' \in 0..MaxTrouble
  /\ DOMAIN child' = Kinds
  /\ \A k \in Kinds : \/ child'[k] = child[k] \/ child'[k] = None
                      \/ Exists(k) /\ IsChild(child'[k]) /\ child'[k].owner = child[k].owner
  /\ source' = <<>> \/ source' = source \/ \E c \in Creds \cup Rotations : source' = <<c>>
  /\ dbUp' \in BOOLEAN /\ schema' \in BOOLEAN /\ lb' \in BOOLEAN
  /\ Garbage = {} => (dbUp => dbUp') /\ (schema => schema')
  /\ child'["job"].val = <<"succeeded">> => child["job"].val = <<"succeeded">> \/ schema'

LEMMA ElsewhereFacts ==
  ASSUME Typed, Rest
  PROVE  Elsewhere
<1>1. /\ DOMAIN child = Kinds /\ "job" \in Kinds /\ trouble \in 0..MaxTrouble /\ MaxTrouble \in Nat
      /\ dbUp \in BOOLEAN /\ schema \in BOOLEAN /\ lb \in BOOLEAN
      /\ source = <<>> \/ \E c \in Creds \cup Rotations : source = <<c>>
  BY ServerAssumption DEF Typed, TypeOK, Kinds
<1>2. None.val = <<>> /\ <<"succeeded">> # <<>>
  BY DEF None
<1>3. CASE CollectGarbage
  <2>1. /\ Garbage # {} /\ UNCHANGED <<srv, cached, passVars, trouble, lb>>
        /\ child' = [k \in Kinds |-> IF k \in Garbage THEN None ELSE child[k]]
        /\ source' \in {<<>>, source} /\ dbUp' \in BOOLEAN /\ schema' \in BOOLEAN
    BY <1>1, <1>3 DEF CollectGarbage
  <2>2. DOMAIN child' = Kinds /\ \A k \in Kinds : child'[k] = None \/ child'[k] = child[k]
    BY <2>1
  <2> QED BY <1>1, <1>2, <2>1, <2>2 DEF Elsewhere
<1>4. CASE RunJob
  <2> PICK v : v = <<IF LogsIn THEN "succeeded" ELSE "failed">>
    OBVIOUS
  <2>1. /\ UNCHANGED <<srv, cached, passVars, trouble, lb, source, dbUp>>
        /\ child["job"].val = <<"running">> /\ schema' = (schema \/ LogsIn)
        /\ child' = [child EXCEPT !["job"] = [child["job"] EXCEPT !.val = v]]
    BY <1>4 DEF RunJob
  <2>2. Exists("job")
    BY <2>1 DEF Exists
  <2>3. /\ Fits("job", [child["job"] EXCEPT !.val = v])
        /\ [child["job"] EXCEPT !.val = v].val = v
        /\ [child["job"] EXCEPT !.val = v].owner = child["job"].owner
    <3>1. DOMAIN child["job"] = {"val", "owner"}
      BY <1>1 DEF Typed
    <3> QED BY <1>1, <2>2, <3>1, ChangedFits
  <2>4. DOMAIN child' = Kinds /\ \A k \in Kinds \ {"job"} : child'[k] = child[k]
    BY <1>1, <2>1
  <2>5. child'["job"] = [child["job"] EXCEPT !.val = v]
    BY <1>1, <2>1
  <2>6. IsChild(child'["job"]) /\ child'["job"].owner = child["job"].owner /\ child'["job"].val = v
    BY <2>3, <2>5 DEF Fits
  <2>7. \A k \in Kinds : \/ child'[k] = child[k]
                         \/ Exists(k) /\ IsChild(child'[k]) /\ child'[k].owner = child[k].owner
    BY <2>2, <2>4, <2>6
  <2>8. child'["job"].val = <<"succeeded">> => LogsIn
    <3>1. <<"failed">> # <<"succeeded">>
      OBVIOUS
    <3> QED BY <2>6, <3>1
  <2>9. schema' \in BOOLEAN /\ (schema => schema') /\ (LogsIn => schema')
    BY <1>1, <2>1
  <2> QED BY <1>1, <2>1, <2>4, <2>7, <2>8, <2>9 DEF Elsewhere
<1>5. CASE Tamper
  <2>1. trouble' \in 0..MaxTrouble
    <3>1. trouble < MaxTrouble /\ trouble' = trouble + 1
      BY <1>5 DEF Tamper
    <3> QED BY ONLY <1>1, <3>1
  <2>2. PICK k : /\ Exists(k)
                 /\ \/ child' = [child EXCEPT ![k] = None]
                    \/ k # "job" /\ child' = [child EXCEPT ![k] = [child[k] EXCEPT !.val = <<"edited">>]]
    BY <1>5, ServerAssumption DEF Tamper
  <2>3. DOMAIN child' = Kinds /\ \A j \in Kinds : j # k => child'[j] = child[j]
    BY <1>1, <2>2
  <2>4. k \in Kinds => \/ child'[k] = None
                       \/ k # "job" /\ child'[k] = [child[k] EXCEPT !.val = <<"edited">>]
    BY <1>1, <2>2
  <2>5. k \in Kinds => \/ child'[k] = None
                       \/ k # "job" /\ IsChild(child'[k]) /\ child'[k].owner = child[k].owner
    <3>1. ASSUME k \in Kinds
          PROVE  /\ IsChild([child[k] EXCEPT !.val = <<"edited">>])
                 /\ [child[k] EXCEPT !.val = <<"edited">>].owner = child[k].owner
      <4>1. DOMAIN child[k] = {"val", "owner"}
        BY <3>1 DEF Typed
      <4> QED BY <2>2, <3>1, <4>1, ChangedFits DEF Fits
    <3> QED BY <2>4, <3>1
  <2>6. child'["job"].val = <<"succeeded">> => child["job"].val = <<"succeeded">>
    BY <1>1, <1>2, <2>3, <2>5
  <2>7. UNCHANGED <<srv, cached, passVars, source, dbUp, schema, lb>>
    BY <1>5 DEF Tamper, envVars
  <2>8. \A j \in Kinds : \/ child'[j] = child[j] \/ child'[j] = None
                         \/ Exists(j) /\ IsChild(child'[j]) /\ child'[j].owner = child[j].owner
    BY <2>2, <2>3, <2>5
  <2> QED BY <1>1, <2>1, <2>3, <2>6, <2>7, <2>8 DEF Elsewhere
<1>6. CASE RefreshConfigMap \/ PublishCredentials \/ DatabaseUp \/ StartPods \/ StopPods \/ SetBalancer
  <2>1. /\ UNCHANGED <<srv, cached, passVars, child, trouble, schema>>
        /\ dbUp' \in BOOLEAN /\ lb' \in BOOLEAN /\ (dbUp => dbUp')
        /\ source' = source \/ \E c \in Creds \cup Rotations : source' = <<c>>
    BY <1>1, <1>6 DEF RefreshConfigMap, PublishCredentials, DatabaseUp, StartPods, StopPods, SetBalancer, envVars
  <2> QED BY <1>1, <2>1 DEF Elsewhere
<1>7. CASE RotateCredentials
  <2>1. trouble' \in 0..MaxTrouble
    <3>1. trouble < MaxTrouble /\ trouble' = trouble + 1
      BY <1>7 DEF RotateCredentials
    <3> QED BY ONLY <1>1, <3>1
  <2>2. PICK c \in Rotations :
          /\ source' = <<c>>
          /\ \/ child' = child
             \/ Exists("backend") /\ child' = [child EXCEPT !["backend"] = [child["backend"] EXCEPT !.val = <<c>>]]
    BY <1>7 DEF RotateCredentials
  <2>3. UNCHANGED <<srv, cached, passVars, dbUp, schema, lb>>
    BY <1>7 DEF RotateCredentials
  <2>4. CASE child' = child
    BY <1>1, <2>1, <2>2, <2>3, <2>4 DEF Elsewhere
  <2>5. CASE Exists("backend") /\ child' = [child EXCEPT !["backend"] = [child["backend"] EXCEPT !.val = <<c>>]]
    <3>1. "backend" \in Kinds /\ "job" # "backend"
      BY DEF Kinds
    <3>2. /\ DOMAIN child' = Kinds /\ \A j \in Kinds : j # "backend" => child'[j] = child[j]
          /\ child'["backend"] = [child["backend"] EXCEPT !.val = <<c>>]
      BY <1>1, <2>5, <3>1
    <3>3. IsChild(child'["backend"]) /\ child'["backend"].owner = child["backend"].owner
      <4>1. DOMAIN child["backend"] = {"val", "owner"}
        BY <3>1 DEF Typed
      <4> QED BY <2>5, <3>1, <3>2, <4>1, ChangedFits DEF Fits
    <3>4. child'["job"] = child["job"]
      BY <1>1, <3>1, <3>2
    <3> QED BY <1>1, <2>1, <2>2, <2>3, <2>5, <3>2, <3>3, <3>4 DEF Elsewhere
  <2> QED BY <2>2, <2>4, <2>5
<1>8. CASE LosePods
  <2>1. trouble' \in 0..MaxTrouble
    <3>1. trouble < MaxTrouble /\ trouble' = trouble + 1
      BY <1>8 DEF LosePods
    <3> QED BY ONLY <1>1, <3>1
  <2>2. UNCHANGED <<srv, cached, passVars, child, source, dbUp, schema, lb>>
    BY <1>8 DEF LosePods
  <2> QED BY <1>1, <2>1, <2>2 DEF Elsewhere
<1> QED BY <1>3, <1>4, <1>5, <1>6, <1>7, <1>8 DEF Rest, Cluster

-------------------------------------------------------------------------------
(* PhaseInv is inductive *)

LEMMA NextClass ==
  ASSUME Next
  PROVE  BeginPass \/ Checks \/ Stores \/ Crash \/ Refresh \/ Rest \/ Edits
BY DEF Next, PassStep, Checks, Stores, Rest, Others, Edits

LEMMA FinishFacts ==
  ASSUME Finish
  PROVE  /\ pc' = "idle" /\ pc' \in PCs /\ ~Working' /\ todo' = <<>> /\ todo' \in Seq(Steps)
         /\ base' \in Objects /\ ~base'.up /\ base'.uid = 0 /\ base'.gen = 0 /\ next' \in Statuses
         /\ Incarnation(base')
<1>1. 0 \in 0..MaxGen
  BY ServerAssumption
<1>2. Gone(0) \in Objects /\ ~Gone(0).up /\ Gone(0).uid = 0 /\ Gone(0).gen = 0
  BY <1>1, GoneFacts
<1>3. base' \in Objects /\ ~base'.up /\ base'.uid = 0 /\ base'.gen = 0
  BY <1>2 DEF Finish
<1>4. Incarnation(base')
  BY <1>3 DEF Incarnation
<1>5. pc' = "idle" /\ pc' \in PCs /\ ~Working'
  BY DEF Finish, PCs, Working
<1> QED BY <1>3, <1>4, <1>5, NoStatusFacts, StepLists DEF Finish

\* The object's own history, in one step.
LEMMA StoredEvolves ==
  ASSUME base \in Objects, NEW new \in Objects, Stored(new)
  PROVE  Evolves(base, new)
<1>1. base.gen \in 0..MaxGen
  BY FieldTypes
<1>2. new = Gone(base.gen) => Ends(base, new)
  BY <1>1, GoneFacts DEF Ends
<1>3. \A p : Restates(base, new, p) => Stays(base, new)
  BY RestatesStays
<1> QED BY <1>2, <1>3 DEF Stored, Evolves

LEMMA SrvEvolves ==
  ASSUME Typed, PhaseMoves, Next
  PROVE  srv' \in Objects /\ (srv' = srv \/ Evolves(srv, srv'))
<1>1. srv \in Objects /\ base \in Objects
  BY DEF Typed, TypeOK
<1>2. CASE BeginPass
  BY <1>1, <1>2, BeginFacts
<1>3. CASE Checks
  BY <1>1, <1>3, CheckFacts DEF Checked
<1>4. CASE Stores
  <2>1. srv' = srv \/ (srv = base /\ srv' \in Objects /\ Stored(srv'))
    BY <1>4, StoreFacts DEF Saved
  <2> QED BY <1>1, <2>1, StoredEvolves
<1>5. CASE Crash \/ Refresh
  BY <1>1, <1>5 DEF Crash, Refresh
<1>6. CASE Rest
  BY <1>1, <1>6, ElsewhereFacts DEF Elsewhere
<1>7. CASE Edits
  BY <1>1, <1>7, EditFacts DEF Edited, Evolves
<1> QED BY <1>2, <1>3, <1>4, <1>5, <1>6, <1>7, NextClass

LEMMA TypedStep ==
  ASSUME Typed, PhaseMoves, Next
  PROVE  Typed'
<1>1. /\ srv \in Objects /\ cached \in Objects /\ base \in Objects /\ next \in Statuses
      /\ DOMAIN child = Kinds /\ (\A k \in Kinds : IsChild(child[k]))
      /\ pc \in PCs /\ (pc = "child" <=> todo # <<>>) /\ todo \in Seq(Steps)
      /\ source = <<>> \/ \E c \in Creds \cup Rotations : source = <<c>>
      /\ dbUp \in BOOLEAN /\ schema \in BOOLEAN /\ lb \in BOOLEAN
      /\ trouble \in 0..MaxTrouble
  BY DEF Typed, TypeOK, IsChild
<1>2. srv' \in Objects
  BY SrvEvolves
<1>3. SUFFICES /\ cached' \in Objects /\ base' \in Objects /\ next' \in Statuses
               /\ DOMAIN child' = Kinds /\ (\A k \in Kinds : IsChild(child'[k]))
               /\ pc' \in PCs /\ (pc' = "child" <=> todo' # <<>>) /\ todo' \in Seq(Steps)
               /\ source' = <<>> \/ \E c \in Creds \cup Rotations : source' = <<c>>
               /\ dbUp' \in BOOLEAN /\ schema' \in BOOLEAN /\ lb' \in BOOLEAN
               /\ trouble' \in 0..MaxTrouble
  BY <1>2 DEF Typed, TypeOK, IsChild
<1>4. CASE BeginPass
  BY <1>1, <1>4, BeginFacts DEF envVars
<1>5. CASE Checks
  <2>1. Checked
    BY <1>5, CheckFacts
  <2>2. DOMAIN child' = Kinds /\ (\A k \in Kinds : IsChild(child'[k]))
    BY <1>1, <2>1 DEF Checked, Kept, Fits
  <2>3. CASE Finish
    BY <1>1, <2>1, <2>2, <2>3, FinishFacts DEF Checked, envVars
  <2>4. CASE Continued
    BY <1>1, <2>1, <2>2, <2>4 DEF Checked, Continued, envVars
  <2> QED BY <2>1, <2>3, <2>4 DEF Checked
<1>6. CASE Stores
  <2>1. Saved
    BY <1>6, StoreFacts
  <2>2. CASE Finish
    BY <1>1, <2>1, <2>2, FinishFacts DEF Saved, envVars
  <2>3. CASE ~Finish
    BY <1>1, <1>2, <2>1, <2>3 DEF Saved, envVars, PCs
  <2> QED BY <2>2, <2>3
<1>7. CASE Crash
  <2>1. Finish /\ UNCHANGED <<cached, child, source, dbUp, schema, lb>>
    BY <1>7 DEF Crash, envVars
  <2>2. trouble' \in 0..MaxTrouble
    <3>1. trouble < MaxTrouble /\ trouble' = trouble + 1 /\ MaxTrouble \in Nat
      BY <1>7, ServerAssumption DEF Crash
    <3> QED BY ONLY <1>1, <3>1
  <2> QED BY <1>1, <2>1, <2>2, FinishFacts
<1>8. CASE Refresh
  BY <1>1, <1>8 DEF Refresh, envVars, passVars
<1>9. CASE Rest
  <2>1. Elsewhere
    BY <1>9, ElsewhereFacts
  <2>2. IsChild(None)
    BY ServerAssumption DEF IsChild, None
  <2>3. DOMAIN child' = Kinds /\ (\A k \in Kinds : IsChild(child'[k]))
    BY <1>1, <2>1, <2>2 DEF Elsewhere
  <2> QED BY <1>1, <2>1, <2>3 DEF Elsewhere, passVars
<1>10. CASE Edits
  <2>1. Edited
    BY <1>10, EditFacts
  <2> QED BY <1>1, <2>1 DEF Edited, passVars
<1> QED BY <1>4, <1>5, <1>6, <1>7, <1>8, <1>9, <1>10, NextClass

LEMMA LagsStep ==
  ASSUME Typed, PhaseMoves, Lags, Next
  PROVE  Lags'
<1>1. /\ srv \in Objects /\ cached \in Objects /\ base \in Objects /\ srv' \in Objects
      /\ cached' \in Objects /\ base' \in Objects
  BY TypedStep DEF Typed, TypeOK
<1>2. /\ Incarnation(srv) /\ Incarnation(cached) /\ Incarnation(base)
      /\ Later(cached, srv) /\ Later(base, srv) /\ (pc # "idle" => base.up)
  BY DEF Lags
<1>3. \A o \in Objects : Incarnation(o) /\ Later(o, srv) => Later(o, srv') /\ Incarnation(srv')
  BY <1>1, <1>2, SrvEvolves, LaterEvolves
<1>4. Incarnation(srv') /\ Later(srv', srv') /\ Later(srv, srv')
  BY <1>1, <1>2, <1>3, LaterReflexive
<1>5. cached' = cached \/ cached' = srv
  BY NextClass, BeginFacts, CheckFacts, StoreFacts, ElsewhereFacts, EditFacts
     DEF Checked, Saved, Elsewhere, Edited, Crash, Refresh
<1>6. \/ base' = base /\ (pc' # "idle" => pc # "idle")
      \/ base' = cached /\ cached.up
      \/ srv = base /\ base' = srv' /\ pc = "endpoint" /\ Restates(base, srv', base.status.phase)
      \/ Finish
  <2>1. CASE BeginPass
    BY <2>1, BeginFacts
  <2>2. CASE Checks
    BY <2>2, CheckFacts DEF Checked, Continued, Working
  <2>3. CASE Stores
    <3>1. Saved
      BY <2>3, StoreFacts
    <3> QED BY <3>1 DEF Saved, Stored
  <2>4. CASE Crash \/ Refresh
    BY <2>4 DEF Crash, Refresh, passVars
  <2>5. CASE Rest
    BY <2>5, ElsewhereFacts DEF Elsewhere, passVars
  <2>6. CASE Edits
    BY <2>6, EditFacts DEF Edited, passVars
  <2> QED BY <2>1, <2>2, <2>3, <2>4, <2>5, <2>6, NextClass
<1>7. Incarnation(cached') /\ Later(cached', srv')
  BY <1>1, <1>2, <1>3, <1>4, <1>5
<1>8. Incarnation(base') /\ Later(base', srv') /\ (pc' # "idle" => base'.up)
  <2>1. CASE Finish
    <3>1. pc' = "idle" /\ ~base'.up /\ base'.gen = 0 /\ Incarnation(base')
      BY <2>1, FinishFacts
    <3>2. srv'.gen \in Nat
      BY <1>1, FieldTypes
    <3> QED BY <3>1, <3>2 DEF Later
  <2>2. CASE base' = base /\ (pc' # "idle" => pc # "idle")
    BY <1>1, <1>2, <1>3, <2>2
  <2>3. CASE base' = cached /\ cached.up
    BY <1>1, <1>2, <1>3, <2>3
  <2>4. CASE srv = base /\ base' = srv' /\ pc = "endpoint" /\ Restates(base, srv', base.status.phase)
    BY <1>2, <1>4, <2>4 DEF Restates
  <2> QED BY <1>6, <2>1, <2>2, <2>3, <2>4
<1> QED BY <1>4, <1>7, <1>8 DEF Lags, Incarnation, Later

LEMMA ReleaseSeenStep ==
  ASSUME Typed, PhaseMoves, Lags, ReleaseSeen, Next
  PROVE  ReleaseSeen'
<1>1. /\ srv \in Objects /\ base \in Objects
      /\ srv.uid \in Nat /\ srv.gen \in Nat /\ base.uid \in Nat /\ base.gen \in Nat
      /\ base.uid <= base.gen /\ base.gen <= srv.gen
  BY FieldTypes DEF Typed, TypeOK, Lags, Incarnation, Later
<1>2. SUFFICES ASSUME pc' = "release"
               PROVE  /\ base'.deleting
                      /\ srv'.up /\ srv'.uid = base'.uid =>
                           cached'.up /\ cached'.uid = srv'.uid /\ cached'.deleting
  BY DEF ReleaseSeen
<1>3. CASE BeginPass
  BY <1>2, <1>3, BeginFacts
<1>4. CASE Checks \/ Stores \/ Crash
  <2>1. pc' # "release"
    BY <1>4, CheckFacts, StoreFacts, FinishFacts DEF Checked, Continued, Saved, Crash
  <2> QED BY <1>2, <2>1
<1>5. CASE Refresh
  <2>1. cached' = srv /\ srv' = srv /\ base' = base /\ pc = "release"
    BY <1>2, <1>5 DEF Refresh, passVars
  <2> QED BY <2>1 DEF ReleaseSeen, Lags, Later
<1>6. CASE Rest
  <2>1. UNCHANGED <<srv, cached, base, pc>>
    BY <1>6, ElsewhereFacts DEF Elsewhere, passVars
  <2> QED BY <1>2, <2>1 DEF ReleaseSeen
<1>7. CASE Edits
  <2>1. UNCHANGED <<cached, base, pc>> /\ Edited
    BY <1>7, EditFacts DEF Edited, passVars
  <2>2. CASE Starts(srv, srv')
    <3>1. srv'.uid = srv.gen + 1
      BY <2>2 DEF Starts
    <3>2. srv'.uid # base.uid
      BY <1>1, <3>1
    <3> QED BY <1>2, <2>1, <3>2 DEF ReleaseSeen
  <2>3. CASE Stays(srv, srv')
    BY <1>2, <2>1, <2>3 DEF ReleaseSeen, Stays
  <2>4. CASE Ends(srv, srv')
    BY <1>2, <2>1, <2>4 DEF ReleaseSeen, Ends
  <2> QED BY <2>1, <2>2, <2>3, <2>4 DEF Edited
<1> QED BY <1>3, <1>4, <1>5, <1>6, <1>7, NextClass

LEMMA FinalizerHoldsStep ==
  ASSUME Typed, PhaseMoves, Lags, ReleaseSeen, FinalizerHolds, Next
  PROVE  FinalizerHolds'
<1> DEFINE Pass(p, b, s) == p \notin {"idle", "release", "finalizer"} =>
                              b.fin /\ s.up /\ s.fin /\ s.uid = b.uid
           Cache(c, s) == c.up /\ c.fin /\ ~c.deleting => s.up /\ s.fin /\ s.uid = c.uid
<1>1. Pass(pc, base, srv) /\ Cache(cached, srv)
  BY DEF FinalizerHolds, Working
<1>2. SUFFICES Pass(pc', base', srv') /\ Cache(cached', srv')
  BY DEF FinalizerHolds, Working
<1>3. CASE BeginPass
  BY <1>1, <1>3, BeginFacts
<1>4. CASE Checks
  <2>1. Working /\ UNCHANGED <<srv, cached>> /\ (pc' = "idle" \/ base' = base)
    BY <1>4, CheckFacts, FinishFacts DEF Checked, Continued
  <2> QED BY <1>1, <2>1 DEF Working
<1>5. CASE Stores
  <2>1. Saved
    BY <1>5, StoreFacts
  <2>2. CASE srv' = srv
    <3>1. cached' = cached /\ (pc' = "idle" \/ (pc = "endpoint" /\ base' = base))
      BY <2>1, <2>2, FinishFacts DEF Saved
    <3> QED BY <1>1, <2>2, <3>1
  <2>3. CASE srv = base /\ Stored(srv')
    <3>1. cached' = cached /\ (pc' = "idle" \/ (pc = "endpoint" /\ (base' = base \/ base' = srv')))
      BY <2>1, FinishFacts DEF Saved
    <3>2. CASE pc = "release"
      <4>1. base.up
        BY <3>2 DEF Lags
      <4>2. cached.deleting
        BY <2>3, <3>2, <4>1 DEF ReleaseSeen
      <4> QED BY <3>1, <3>2, <4>2
    <3>3. CASE pc # "release"
      <4>1. /\ srv'.up = srv.up /\ srv'.uid = srv.uid /\ (srv.fin => srv'.fin)
        BY <2>3, <3>3 DEF Stored, Stays, Restates
      <4> QED BY <1>1, <2>3, <3>1, <4>1
    <3> QED BY <3>2, <3>3
  <2> QED BY <2>1, <2>2, <2>3 DEF Saved
<1>6. CASE Crash
  <2>1. pc' = "idle" /\ UNCHANGED <<srv, cached>>
    BY <1>6, FinishFacts DEF Crash
  <2> QED BY <1>1, <2>1
<1>7. CASE Refresh
  BY <1>1, <1>7 DEF Refresh, passVars
<1>8. CASE Rest
  <2>1. UNCHANGED <<srv, cached, base, pc>>
    BY <1>8, ElsewhereFacts DEF Elsewhere, passVars
  <2> QED BY <1>1, <2>1
<1>9. CASE Edits
  <2>1. UNCHANGED <<cached, base, pc>> /\ Edited
    BY <1>9, EditFacts DEF Edited, passVars
  <2>2. \/ ~srv.up \/ ~srv.fin
        \/ srv'.up = srv.up /\ srv'.uid = srv.uid /\ (srv.fin => srv'.fin)
    BY <2>1 DEF Edited, Starts, Stays, Ends
  <2> QED BY <1>1, <2>1, <2>2
<1> QED BY <1>3, <1>4, <1>5, <1>6, <1>7, <1>8, <1>9, NextClass

LEMMA PhaseMovesStep ==
  ASSUME Typed, PhaseMoves, Next
  PROVE  PhaseMoves'
<1>1. SUFFICES ASSUME pc' \notin {"idle", "release", "finalizer"}
               PROVE  <<base'.status.phase, next'.phase>> \in Moves(pc')
  BY DEF PhaseMoves, Working, Moves
<1>2. CASE BeginPass
  BY <1>1, <1>2, BeginFacts
<1>3. CASE Checks
  BY <1>1, <1>3, CheckFacts, FinishFacts DEF Checked, Continued
<1>4. CASE Stores
  <2>1. Saved
    BY <1>4, StoreFacts
  <2>2. /\ pc = "endpoint" /\ pc' = "replicas" /\ next' = next
        /\ base'.status.phase = base.status.phase
    BY <1>1, <2>1, FinishFacts DEF Saved, Stored, Restates
  <2>3. base.status.phase = "Ready" /\ next.phase = "Ready"
    BY <2>2, MovedFrom DEF Working
  <2> QED BY <2>2, <2>3, MoveTable
<1>5. CASE Crash
  BY <1>1, <1>5, FinishFacts DEF Crash
<1>6. CASE Refresh
  BY <1>1, <1>6 DEF Refresh, passVars, PhaseMoves, Working
<1>7. CASE Rest
  BY <1>1, <1>7, ElsewhereFacts DEF Elsewhere, passVars, PhaseMoves, Working
<1>8. CASE Edits
  BY <1>1, <1>8, EditFacts DEF Edited, passVars, PhaseMoves, Working
<1> QED BY <1>2, <1>3, <1>4, <1>5, <1>6, <1>7, <1>8, NextClass

LEMMA InitPhase ==
  ASSUME Init
  PROVE  PhaseInv
<1>1. MaxGen \in Nat /\ MaxTrouble \in Nat /\ 0 \in 0..MaxGen /\ 0 \in 0..MaxTrouble
  BY ServerAssumption
<1>2. Gone(0) \in Objects /\ ~Gone(0).up /\ Gone(0).uid = 0 /\ Gone(0).gen = 0
  BY <1>1, GoneFacts
<1>3. DOMAIN child = Kinds /\ \A k \in Kinds : DOMAIN child[k] = {"val", "owner"} /\ child[k].owner = 0
  BY DEF Init, None
<1>4. pc = "idle" /\ todo = <<>> /\ next = NoStatus /\ srv = Gone(0) /\ cached = Gone(0) /\ base = Gone(0)
      /\ source = <<>> /\ trouble = 0 /\ dbUp \in BOOLEAN /\ schema \in BOOLEAN /\ lb \in BOOLEAN
  BY DEF Init
<1>5. Typed
  BY <1>1, <1>2, <1>3, <1>4, NoStatusFacts, StepLists DEF Typed, TypeOK, PCs
<1>6. Lags
  BY <1>1, <1>2, <1>4 DEF Lags, Incarnation, Later
<1> QED BY <1>2, <1>4, <1>5, <1>6 DEF PhaseInv, ReleaseSeen, FinalizerHolds, PhaseMoves, Working

LEMMA PhaseStep ==
  ASSUME PhaseInv, [Next]_vars
  PROVE  PhaseInv'
<1>1. CASE Next
  BY <1>1, TypedStep, LagsStep, ReleaseSeenStep, FinalizerHoldsStep, PhaseMovesStep DEF PhaseInv
<1>2. CASE UNCHANGED vars
  <2>1. Typed'
    BY <1>2 DEF vars, PhaseInv, Typed, TypeOK
  <2>2. Lags'
    BY <1>2 DEF vars, PhaseInv, Lags, Incarnation, Later
  <2>3. ReleaseSeen' /\ FinalizerHolds'
    BY <1>2 DEF vars, PhaseInv, ReleaseSeen, FinalizerHolds, Working
  <2>4. PhaseMoves'
    BY <1>2 DEF vars, PhaseInv, PhaseMoves, Working
  <2> QED BY <2>1, <2>2, <2>3, <2>4 DEF PhaseInv
<1> QED BY <1>1, <1>2

\* The variables keep their types, and a pass works on children exactly while it
\* is at "child" (ensureWorkload, reconcileRoutes, reconcileDrift), for any specs,
\* failures and interference.
THEOREM ServerTypes == Spec => []TypeOK
<1>1. PhaseInv => TypeOK
  BY DEF PhaseInv, Typed
<1> QED BY <1>1, InitPhase, PhaseStep, PTL DEF Spec

\* A Ready server is never put into Failed, by no pass however old what it read
\* (phaseReady, powerdnsserver_controller.go:640), whether or not children of an
\* earlier incarnation are still there.
THEOREM NeverFails == Spec => ReadyNeverFails
<1>1. ASSUME PhaseInv, [Next]_vars
      PROVE  [srv.up /\ srv.status.phase = "Ready" => srv'.status.phase # "Failed"]_vars
  <2>1. SUFFICES ASSUME Next, srv.up, srv.status.phase = "Ready"
                 PROVE  srv'.status.phase # "Failed"
    BY <1>1
  <2>2. Typed /\ PhaseMoves
    BY <1>1 DEF PhaseInv
  <2>3. CASE Stores
    <3>1. srv' = srv \/ (srv = base /\ Stored(srv'))
      BY <2>2, <2>3, StoreFacts DEF Saved
    <3>2. ~(srv = base /\ pc = "status")
      <4>1. SUFFICES ASSUME srv = base, pc = "status"
                     PROVE  FALSE
        OBVIOUS
      <4> PICK b : b = next.phase
        OBVIOUS
      <4>2. <<"Ready", b>> \in Moves("status")
        BY <2>1, <2>2, <4>1 DEF PhaseMoves, Working
      <4>3. \A x, y : <<"Ready", b>> = <<x, y>> => x = "Ready"
        OBVIOUS
      <4> QED BY <4>2, <4>3, MoveTable
    <3>3. base.gen \in 0..MaxGen
      BY <2>2, FieldTypes DEF Typed, TypeOK
    <3>4. Gone(base.gen).status.phase = ""
      BY <3>3, GoneFacts
    <3> QED BY <2>1, <3>1, <3>2, <3>4 DEF Stored, Restates
  <2>4. CASE Edits
    <3>1. srv'.status.phase \in {srv.status.phase, ""}
      BY <2>1, <2>2, <2>4, EditFacts DEF Edited, Starts, Ends
    <3> QED BY <2>1, <3>1
  <2>5. CASE BeginPass \/ Checks \/ Crash \/ Refresh \/ Rest
    <3>1. srv' = srv
      BY <2>2, <2>5, BeginFacts, CheckFacts, ElsewhereFacts DEF Checked, Elsewhere, Crash, Refresh
    <3> QED BY <2>1, <3>1
  <2> QED BY <2>1, <2>3, <2>4, <2>5, NextClass
<1> QED BY <1>1, InitPhase, PhaseStep, PTL DEF Spec, ReadyNeverFails

-------------------------------------------------------------------------------
(* DatabaseInv is inductive when children go before a new server comes *)

LEMMA ChildrenOf ==
  ASSUME Typed, PhaseMoves, Next
  PROVE  \/ Checks /\ Checked
         \/ Rest /\ Elsewhere
         \/ child' = child /\ UNCHANGED <<dbUp, schema>> /\ ~Starts(srv, srv')
         \/ Edits /\ Edited /\ child' = child
<1>1. CASE BeginPass
  <2>1. srv' = srv /\ child' = child /\ UNCHANGED <<dbUp, schema>>
    BY <1>1, BeginFacts DEF envVars
  <2> QED BY <2>1 DEF Starts
<1>2. CASE Checks
  BY <1>2, CheckFacts
<1>3. CASE Stores
  <2>1. Saved
    BY <1>3, StoreFacts
  <2>2. child' = child /\ UNCHANGED <<dbUp, schema>>
    BY <2>1 DEF Saved, envVars
  <2>3. base.gen \in 0..MaxGen
    BY FieldTypes DEF Typed, TypeOK
  <2>4. ~Gone(base.gen).up
    BY <2>3, GoneFacts
  <2>5. ~Starts(srv, srv')
    BY <2>1, <2>4 DEF Saved, Stored, Starts, Stays, Restates
  <2> QED BY <2>2, <2>5
<1>4. CASE Crash \/ Refresh
  <2>1. srv' = srv /\ child' = child /\ UNCHANGED <<dbUp, schema>>
    BY <1>4 DEF Crash, Refresh, envVars
  <2> QED BY <2>1 DEF Starts
<1>5. CASE Rest
  BY <1>5, ElsewhereFacts
<1>6. CASE Edits
  BY <1>6, EditFacts DEF Edited
<1> QED BY <1>1, <1>2, <1>3, <1>4, <1>5, <1>6, NextClass

\* A server of this name that comes finds no children.
LEMMA FreshStart ==
  ASSUME Hasty = FALSE, Typed, PhaseMoves, Next, ~srv.up, srv'.up
  PROVE  /\ Starts(srv, srv') /\ child' = child
         /\ \A k \in Kinds : ~Exists(k)
<1>1. Starts(srv, srv')
  BY SrvEvolves DEF Evolves, Stays, Ends
<1>2. ~(srv' = srv)
  OBVIOUS
<1>3. Edited /\ child' = child
  BY <1>1, <1>2, ChildrenOf DEF Checked, Elsewhere
<1>4. srv'.up # srv.up
  BY <1>1 DEF Starts
<1>5. \A k \in Kinds : ~Exists(k)
  BY <1>3, <1>4 DEF Edited, Stays, Ends
<1> QED BY <1>1, <1>3, <1>5

\* While the object is there the database loses nothing.
LEMMA Grows ==
  ASSUME Typed, PhaseMoves, OwnChildren, Next, srv.up, srv'.up
  PROVE  /\ srv'.uid = srv.uid /\ srv'.spec.byoDB = srv.spec.byoDB
         /\ (dbUp => dbUp') /\ (schema => schema')
<1>1. srv' = srv \/ Stays(srv, srv')
  BY SrvEvolves DEF Evolves, Ends, Starts
<1>2. Garbage = {}
  BY DEF OwnChildren, Garbage
<1>3. (dbUp => dbUp') /\ (schema => schema')
  <2>1. CASE Checked
    BY <2>1 DEF Checked, envVars
  <2>2. CASE Elsewhere
    BY <1>2, <2>2 DEF Elsewhere
  <2>3. CASE Edited
    <3>1. ~Starts(srv, srv') /\ ~Ends(srv, srv')
      BY DEF Starts, Ends
    <3>2. dbUp' = dbUp /\ schema' = schema
      BY <2>3, <3>1 DEF Edited
    <3> QED BY <3>2
  <2> QED BY <2>1, <2>2, <2>3, ChildrenOf
<1> QED BY <1>1, <1>3 DEF Stays

\* Where a child that exists comes from.
LEMMA ChildSource ==
  ASSUME Typed, PhaseMoves, FinalizerHolds, Next, NEW k \in Kinds, child'[k].val # <<>>
  PROVE  \/ Exists(k) /\ child'[k].owner = child[k].owner
         \/ /\ Working /\ child'[k].owner = srv.uid /\ UNCHANGED <<srv, dbUp, schema>>
            /\ k = "deployment" /\ ~Exists(k) => pc = "child"
            /\ k = "job" /\ ~Exists(k) => pc = "schema"
<1>1. None.val = <<>>
  BY DEF None
<1>2. CASE child' = child
  BY <1>2 DEF Exists
<1>3. CASE Checked
  <2>1. Working /\ UNCHANGED <<srv, dbUp, schema>> /\ Kept
    BY <1>3 DEF Checked, envVars
  <2>2. base.uid = srv.uid
    BY <2>1 DEF FinalizerHolds
  <2>3. \/ child'[k] = child[k] \/ child'[k].owner = base.uid
        \/ Exists(k) /\ child'[k].owner = child[k].owner
    BY <1>1, <2>1 DEF Kept, Fits
  <2>4. /\ k = "deployment" /\ ~Exists(k) => pc = "child"
        /\ k = "job" /\ ~Exists(k) => pc = "schema"
    BY <2>1 DEF Kept, Exists
  <2> QED BY <2>1, <2>2, <2>3, <2>4 DEF Exists
<1>4. CASE Elsewhere
  BY <1>1, <1>4 DEF Elsewhere, Exists
<1> QED BY <1>2, <1>3, <1>4, ChildrenOf

LEMMA OwnChildrenStep ==
  ASSUME Hasty = FALSE, Typed, PhaseMoves, FinalizerHolds, OwnChildren, Next
  PROVE  OwnChildren'
<1>1. SUFFICES ASSUME srv'.up, NEW k \in Kinds, child'[k].val # <<>>
               PROVE  child'[k].owner = srv'.uid
  BY DEF OwnChildren, Exists
<1>2. CASE ~srv.up
  BY <1>1, <1>2, FreshStart DEF Exists
<1>3. CASE srv.up
  <2>1. srv'.uid = srv.uid
    BY <1>1, <1>3, Grows
  <2> QED BY <1>1, <1>3, <2>1, ChildSource DEF OwnChildren
<1> QED BY <1>2, <1>3

LEMMA JobLeftSchemaStep ==
  ASSUME Hasty = FALSE, Typed, PhaseMoves, OwnChildren, JobLeftSchema, Next
  PROVE  JobLeftSchema'
<1>1. SUFFICES ASSUME srv'.up, child'["job"].val = <<"succeeded">>
               PROVE  schema'
  BY DEF JobLeftSchema
<1>2. <<"succeeded">> # <<>> /\ <<"succeeded">> # <<"running">> /\ "job" \in Kinds
  BY DEF Kinds
<1>3. CASE ~srv.up
  BY <1>1, <1>2, <1>3, FreshStart DEF Exists
<1>4. CASE srv.up
  <2>1. schema => schema'
    BY <1>1, <1>4, Grows
  <2>2. child["job"].val = <<"succeeded">> \/ schema'
    BY <1>1, <1>2, ChildrenOf DEF Checked, Kept, Elsewhere
  <2> QED BY <1>4, <2>1, <2>2 DEF JobLeftSchema
<1> QED BY <1>3, <1>4

\* Earned, with everything it depends on as an argument.
Covers(s, sc, db, o, ph) ==
  s.up /\ o.up /\ o.uid = s.uid =>
    (ph \in AfterSchema => sc) /\ (ph \in AfterBackend /\ ~o.spec.byoDB => db)

LEMMA CoverKept ==
  ASSUME Typed, PhaseMoves, Lags, OwnChildren, Next, NEW o \in Objects, NEW ph,
         Incarnation(o), Later(o, srv), Covers(srv, schema, dbUp, o, ph)
  PROVE  Covers(srv', schema', dbUp', o, ph)
<1>1. SUFFICES ASSUME srv'.up, o.up, o.uid = srv'.uid
               PROVE  (ph \in AfterSchema => schema') /\ (ph \in AfterBackend /\ ~o.spec.byoDB => dbUp')
  BY DEF Covers
<1>2. CASE srv.up
  BY <1>1, <1>2, Grows DEF Covers
<1>3. CASE ~srv.up
  <2>1. Starts(srv, srv')
    BY <1>1, <1>3, SrvEvolves DEF Evolves, Stays, Ends
  <2>2. srv'.uid = srv.gen + 1 /\ o.uid <= o.gen /\ o.gen <= srv.gen
    BY <2>1 DEF Starts, Incarnation, Later
  <2>3. srv.gen \in Nat /\ o.gen \in Nat /\ o.uid \in Nat
    BY FieldTypes DEF Typed, TypeOK
  <2> QED BY <1>1, <2>2, <2>3
<1> QED BY <1>2, <1>3

\* The phase the object is in after a step was earned.
LEMMA ObjectEarned ==
  ASSUME PhaseInv, OwnChildren, PhaseEarned, Next
  PROVE  Covers(srv', schema', dbUp', srv', srv'.status.phase)
<1>1. Typed /\ PhaseMoves /\ Lags
  BY DEF PhaseInv
<1>2. /\ srv \in Objects /\ base \in Objects /\ Incarnation(srv) /\ Later(srv, srv)
      /\ Incarnation(base) /\ Later(base, srv)
  BY <1>1, LaterReflexive DEF Typed, TypeOK, Lags
<1>3. /\ Covers(srv, schema, dbUp, srv, srv.status.phase)
      /\ Covers(srv, schema, dbUp, base, base.status.phase)
      /\ pc = "status" => Covers(srv, schema, dbUp, base, next.phase)
  BY DEF PhaseEarned, Earned, Covers
<1>4. CASE srv' = srv
  <2>1. Covers(srv', schema', dbUp', srv, srv.status.phase)
    BY <1>1, <1>2, <1>3, CoverKept
  <2> QED BY <1>4, <2>1
<1>5. CASE Stores /\ srv' # srv
  <2>1. srv = base /\ Stored(srv')
    BY <1>1, <1>5, StoreFacts DEF Saved
  <2>2. \A p : Covers(srv, schema, dbUp, base, p) => Covers(srv', schema', dbUp', base, p)
    BY <1>1, <1>2, CoverKept
  <2>3. CASE pc = "release"
    <3>1. base.gen \in 0..MaxGen
      BY <1>2, FieldTypes
    <3>2. ~srv'.up
      BY <2>1, <2>3, <3>1, GoneFacts DEF Stored
    <3> QED BY <3>2 DEF Covers
  <2>4. CASE pc # "release"
    <3>1. /\ srv'.up = base.up /\ srv'.uid = base.uid /\ srv'.spec.byoDB = base.spec.byoDB
          /\ \/ srv'.status.phase = base.status.phase
             \/ pc = "status" /\ srv'.status.phase = next.phase
      BY <2>1, <2>4 DEF Stored, Stays, Restates
    <3>2. Covers(srv', schema', dbUp', base, srv'.status.phase)
      BY <1>3, <2>2, <3>1
    <3> QED BY <3>1, <3>2 DEF Covers
  <2> QED BY <2>3, <2>4
<1>6. CASE Edits
  <2>1. Edited
    BY <1>1, <1>6, EditFacts
  <2>2. CASE srv'.status.phase = ""
    BY <2>2 DEF Covers, AfterBackend, AfterSchema
  <2>3. CASE Stays(srv, srv') /\ srv'.status.phase = srv.status.phase
    <3>1. Covers(srv', schema', dbUp', srv, srv.status.phase)
      BY <1>1, <1>2, <1>3, CoverKept
    <3> QED BY <2>3, <3>1 DEF Stays, Covers
  <2> QED BY <2>1, <2>2, <2>3 DEF Edited, Starts, Ends
<1>7. CASE BeginPass \/ Checks \/ Crash \/ Refresh \/ Rest
  <2>1. srv' = srv
    BY <1>1, <1>7, BeginFacts, CheckFacts, ElsewhereFacts DEF Checked, Elsewhere, Crash, Refresh
  <2> QED BY <1>4, <2>1
<1> QED BY <1>4, <1>5, <1>6, <1>7, NextClass

\* So was the phase a pass is about to write.
LEMMA NextEarned ==
  ASSUME PhaseInv, OwnChildren, PhaseEarned, JobLeftSchema, Next, pc' = "status"
  PROVE  Covers(srv', schema', dbUp', base', next'.phase)
<1>1. Typed /\ PhaseMoves /\ Lags
  BY DEF PhaseInv
<1>2. base \in Objects /\ Incarnation(base) /\ Later(base, srv)
  BY <1>1 DEF Typed, TypeOK, Lags
<1>3. CASE BeginPass
  <2>1. next'.phase \in {"Failed", "ProvisioningBackend"}
    BY <1>1, <1>3, BeginFacts
  <2> QED BY <2>1 DEF Covers, AfterBackend, AfterSchema
<1>4. CASE Checks
  <2>1. UNCHANGED <<srv, dbUp, schema>> /\ base' = base /\ Gate
    BY <1>1, <1>4, CheckFacts, FinishFacts DEF Checked, Continued, envVars
  <2>2. SUFFICES ASSUME srv.up, base.up, base.uid = srv.uid
                 PROVE  /\ next'.phase \in AfterSchema => schema
                        /\ next'.phase \in AfterBackend /\ ~base.spec.byoDB => dbUp
    BY <2>1 DEF Covers
  <2>3. /\ base.status.phase \in AfterSchema => schema
        /\ base.status.phase \in AfterBackend /\ ~base.spec.byoDB => dbUp
    BY <2>2 DEF PhaseEarned, Earned
  <2>4. child["job"].val = <<"succeeded">> => schema
    BY <2>2 DEF JobLeftSchema
  <2> QED BY <2>1, <2>3, <2>4 DEF Gate, AfterSchema, AfterBackend
<1>5. CASE Stores \/ Crash
  BY <1>1, <1>5, StoreFacts, FinishFacts DEF Saved, Crash
<1>6. CASE Refresh \/ Rest \/ Edits
  <2>1. UNCHANGED <<pc, base, next>>
    BY <1>1, <1>6, ElsewhereFacts, EditFacts DEF Refresh, Elsewhere, Edited, passVars
  <2>2. Covers(srv, schema, dbUp, base, next.phase)
    BY <2>1 DEF PhaseEarned, Earned, Covers
  <2>3. Covers(srv', schema', dbUp', base, next.phase)
    BY <1>1, <1>2, <2>2, CoverKept
  <2> QED BY <2>1, <2>3
<1> QED BY <1>3, <1>4, <1>5, <1>6, NextClass

LEMMA PhaseEarnedStep ==
  ASSUME PhaseInv, OwnChildren, PhaseEarned, JobLeftSchema, Next
  PROVE  PhaseEarned'
<1>1. Typed /\ PhaseMoves /\ Lags
  BY DEF PhaseInv
<1>2. /\ srv \in Objects /\ base \in Objects /\ cached \in Objects
      /\ Incarnation(srv) /\ Incarnation(base) /\ Incarnation(cached)
      /\ Later(srv, srv) /\ Later(base, srv) /\ Later(cached, srv)
  BY <1>1, LaterReflexive DEF Typed, TypeOK, Lags
<1>3. Covers(srv', schema', dbUp', srv', srv'.status.phase)
  BY ObjectEarned
<1>4. /\ Covers(srv', schema', dbUp', srv, srv.status.phase)
      /\ Covers(srv', schema', dbUp', base, base.status.phase)
      /\ Covers(srv', schema', dbUp', cached, cached.status.phase)
  <2>1. /\ Covers(srv, schema, dbUp, srv, srv.status.phase)
        /\ Covers(srv, schema, dbUp, base, base.status.phase)
        /\ Covers(srv, schema, dbUp, cached, cached.status.phase)
    BY DEF PhaseEarned, Earned, Covers
  <2> QED BY <1>1, <1>2, <2>1, CoverKept
<1>5. Covers(srv', schema', dbUp', cached', cached'.status.phase)
  <2>1. cached' = cached \/ cached' = srv
    BY <1>1, NextClass, BeginFacts, CheckFacts, StoreFacts, ElsewhereFacts, EditFacts
       DEF Checked, Saved, Elsewhere, Edited, Crash, Refresh
  <2> QED BY <1>4, <2>1
<1>6. /\ Covers(srv', schema', dbUp', base', base'.status.phase)
      /\ pc' \in {"cluster", "dbgate"} => ~base'.spec.byoDB
  <2>1. CASE BeginPass
    BY <1>1, <1>4, <2>1, BeginFacts
  <2>2. CASE Checks
    <3>1. Finish \/ Continued
      BY <1>1, <2>2, CheckFacts DEF Checked
    <3>2. CASE Finish
      BY <3>2, FinishFacts DEF Covers
    <3>3. CASE Continued
      BY <1>4, <3>3 DEF Continued
    <3> QED BY <3>1, <3>2, <3>3
  <2>3. CASE Stores
    <3>1. Finish \/ (pc' = "replicas" /\ (base' = base \/ base' = srv'))
      BY <1>1, <2>3, StoreFacts DEF Saved
    <3>2. CASE Finish
      BY <3>2, FinishFacts DEF Covers
    <3> QED BY <1>3, <1>4, <3>1, <3>2
  <2>4. CASE Crash
    BY <2>4, FinishFacts DEF Crash, Covers
  <2>5. CASE Refresh \/ Rest \/ Edits
    <3>1. UNCHANGED <<pc, base>>
      BY <1>1, <2>5, ElsewhereFacts, EditFacts DEF Refresh, Elsewhere, Edited, passVars
    <3> QED BY <1>4, <3>1 DEF PhaseEarned
  <2> QED BY <2>1, <2>2, <2>3, <2>4, <2>5, NextClass
<1> QED BY <1>3, <1>5, <1>6, NextEarned DEF PhaseEarned, Earned, Covers, AfterBackend, AfterSchema

LEMMA SchemaBeforeServerStep ==
  ASSUME Hasty = FALSE, PhaseInv, OwnChildren, PhaseEarned, SchemaBeforeServer, Next
  PROVE  SchemaBeforeServer'
<1>1. Typed /\ PhaseMoves /\ FinalizerHolds /\ Lags /\ "deployment" \in Kinds
  BY DEF PhaseInv, Kinds
<1>2. SUFFICES ASSUME srv'.up, child'["deployment"].val # <<>>
               PROVE  schema'
  BY DEF SchemaBeforeServer, Mine, Exists
<1>3. CASE ~srv.up
  BY <1>1, <1>2, <1>3, FreshStart DEF Exists
<1>4. CASE srv.up /\ Exists("deployment")
  <2>1. Mine("deployment")
    BY <1>1, <1>4 DEF Mine, OwnChildren
  <2> QED BY <1>1, <1>2, <1>4, <2>1, Grows DEF SchemaBeforeServer
<1>5. CASE srv.up /\ ~Exists("deployment")
  <2>1. Working /\ pc = "child" /\ schema' = schema
    BY <1>1, <1>2, <1>5, ChildSource
  <2> PICK a, b : a = base.status.phase /\ b = next.phase
    OBVIOUS
  <2>2. <<a, b>> \in {<<"DeployingServer", "ExposingDNS">>, <<"ExposingDNS", "Ready">>, <<"Ready", "Ready">>}
    BY <1>1, <2>1, MoveTable DEF PhaseMoves
  <2>3. a \in {"DeployingServer", "ExposingDNS", "Ready"}
    BY ONLY <2>2
  <2>4. base.up /\ base.uid = srv.uid
    BY <1>1, <2>1 DEF FinalizerHolds, Lags
  <2> QED BY <1>5, <2>1, <2>3, <2>4 DEF PhaseEarned, Earned, AfterSchema
<1> QED BY <1>3, <1>4, <1>5

LEMMA JobAwaitsDatabaseStep ==
  ASSUME Hasty = FALSE, PhaseInv, OwnChildren, PhaseEarned, JobAwaitsDatabase, Next
  PROVE  JobAwaitsDatabase'
<1>1. Typed /\ PhaseMoves /\ FinalizerHolds /\ Lags /\ "job" \in Kinds
  BY DEF PhaseInv, Kinds
<1>2. SUFFICES ASSUME srv'.up, child'["job"].val # <<>>, ~srv'.spec.byoDB
               PROVE  dbUp'
  BY DEF JobAwaitsDatabase, Mine, Exists
<1>3. CASE ~srv.up
  BY <1>1, <1>2, <1>3, FreshStart DEF Exists
<1>4. CASE srv.up /\ Exists("job")
  <2>1. Mine("job") /\ ~srv.spec.byoDB
    BY <1>1, <1>2, <1>4, Grows DEF Mine, OwnChildren
  <2> QED BY <1>1, <1>2, <1>4, <2>1, Grows DEF JobAwaitsDatabase
<1>5. CASE srv.up /\ ~Exists("job")
  <2>1. Working /\ pc = "schema" /\ dbUp' = dbUp /\ srv' = srv
    BY <1>1, <1>2, <1>5, ChildSource
  <2>2. base.status.phase = "InitializingSchema"
    BY <1>1, <2>1, MovedFrom
  <2>3. base.up /\ base.uid = srv.uid
    BY <1>1, <2>1 DEF FinalizerHolds, Lags
  <2>4. ~base.spec.byoDB
    BY <1>1, <1>2, <1>5, <2>1, <2>3 DEF Lags, Later
  <2> QED BY <1>5, <2>1, <2>2, <2>3, <2>4 DEF PhaseEarned, Earned, AfterBackend
<1> QED BY <1>3, <1>4, <1>5

LEMMA InitDatabase ==
  ASSUME Init
  PROVE  DatabaseInv
<1>1. ~srv.up /\ ~base.up /\ ~cached.up /\ pc = "idle"
  BY DEF Init, Gone
<1> QED BY <1>1, InitPhase DEF DatabaseInv, OwnChildren, PhaseEarned, Earned, JobLeftSchema,
                               SchemaBeforeServer, JobAwaitsDatabase, Mine

LEMMA DatabaseStep ==
  ASSUME Hasty = FALSE, DatabaseInv, [Next]_vars
  PROVE  DatabaseInv'
<1>1. CASE Next
  <2>1. Typed /\ PhaseMoves /\ FinalizerHolds
    BY DEF DatabaseInv, PhaseInv
  <2> QED BY <1>1, <2>1, PhaseStep, OwnChildrenStep, PhaseEarnedStep, JobLeftSchemaStep,
             SchemaBeforeServerStep, JobAwaitsDatabaseStep DEF DatabaseInv
<1>2. CASE UNCHANGED vars
  <2>1. PhaseInv'
    BY PhaseStep DEF DatabaseInv
  <2>2. OwnChildren' /\ JobLeftSchema' /\ SchemaBeforeServer' /\ JobAwaitsDatabase'
    BY <1>2 DEF vars, DatabaseInv, OwnChildren, JobLeftSchema, SchemaBeforeServer, JobAwaitsDatabase, Mine, Exists
  <2>3. PhaseEarned'
    BY <1>2 DEF vars, DatabaseInv, PhaseEarned, Earned
  <2> QED BY <2>1, <2>2, <2>3 DEF DatabaseInv
<1> QED BY <1>1, <1>2

\* Server pods never meet an empty database: the Deployment of a server exists
\* only after its schema was applied (phaseInitializingSchema,
\* powerdnsserver_controller.go:252), for any specs, failures, restarts and
\* interference with children, when a server of this name is created again only
\* after the children of the last one are gone.
THEOREM SchemaFirst ==
  ASSUME Hasty = FALSE
  PROVE  Spec => []SchemaBeforeServer
<1>1. Init => DatabaseInv
  BY InitDatabase
<1>2. DatabaseInv /\ [Next]_vars => DatabaseInv'
  BY DatabaseStep
<1>3. DatabaseInv => SchemaBeforeServer
  BY DEF DatabaseInv
<1> QED BY <1>1, <1>2, <1>3, PTL DEF Spec

\* The schema Job of a managed database is created only once the database accepts
\* connections (issue #11, powerdnsserver_controller.go:234), under the same
\* condition.
THEOREM DatabaseFirst ==
  ASSUME Hasty = FALSE
  PROVE  Spec => []JobAwaitsDatabase
<1>1. Init => DatabaseInv
  BY InitDatabase
<1>2. DatabaseInv /\ [Next]_vars => DatabaseInv'
  BY DatabaseStep
<1>3. DatabaseInv => JobAwaitsDatabase
  BY DEF DatabaseInv
<1> QED BY <1>1, <1>2, <1>3, PTL DEF Spec

===============================================================================

--------------------------- MODULE DNSDistController ---------------------------
(***************************************************************************)
(* The DNSDist controller (internal/controller/dnsdist_controller.go): a   *)
(* frontend tier whose configuration holds the ClusterIPs of its backends' *)
(* DNS Services.  A pass validates the spec, resolves every backend, then  *)
(* converges the children one after the other and writes status.  Nothing  *)
(* of a pass is kept: there is no phase machine and no finalizer.          *)
(*                                                                         *)
(* Backends are PowerDNSServers, seen here by whether they are Ready and   *)
(* by the address of their DNS Service.  As in ServerController a child is *)
(* a tuple (<<>>: does not exist) and the incarnation that owns it.        *)
(***************************************************************************)
EXTENDS Naturals, Sequences, FiniteSets

CONSTANTS Backends,   \* spec.backendRefs, the same for all specs
          Specs,      \* the rest of the specs users write
          Downable,   \* backends that may lose Ready
          Lasting,    \* those among them that may never get it back
          Faults,     \* failures that occur: "err", "lost", "crash"
          Tampered,   \* children that users delete
          MaxGen,     \* bound: spec versions of the tier's name
          MaxTrouble  \* bound: failures and changes by others

Kinds == {"configmap", "deployment", "dnsservice", "additional", "pdb", "tcproute", "udproute"}

\* minAvailable is 0 where the spec does not set it; bad stands for the checks
\* of validateDNSDist other than the one on minAvailable.
SpecRecords == [conf : STRING, expose : {"none", "lb", "gateway"}, replicas : Nat \ {0},
                minAvailable : Nat, tls : BOOLEAN, bad : BOOLEAN]

\* backendRefs has at least one item (dnsdist_types.go:80).
ASSUME TierAssumption ==
  /\ Backends # {}
  /\ Specs \subseteq SpecRecords /\ Lasting \subseteq Downable /\ Downable \subseteq Backends
  /\ Faults \subseteq {"err", "lost", "crash"} /\ Tampered \subseteq Kinds
  /\ MaxGen \in Nat /\ MaxTrouble \in Nat

VARIABLES
  tier,     \* the DNSDist object
  cached,   \* the informer's copy of it
  child,    \* its children
  ready,    \* backends whose phase is Ready
  ip,       \* ClusterIP of each backend's DNS Service, 0 while it has none
  cert,     \* version of the TLS Secret, 0 while it does not exist
  pods,     \* what the running dnsdist pods were started from
  pc, base, \* where the running pass is, and the object it read
  refs,     \* backends it has still to resolve
  addrs,    \* addresses it resolved
  todo,     \* children it has still to converge
  hash,     \* the config hash it computed
  next,     \* the phase it is about to write
  trouble   \* failures and changes by others so far

passVars == <<pc, base, refs, addrs, todo, hash, next>>
envVars  == <<ready, ip, cert, pods>>
vars == <<tier, cached, child, ready, ip, cert, pods, pc, base, refs, addrs, todo,
          hash, next, trouble>>

-------------------------------------------------------------------------------
NoSpec   == [conf |-> "", expose |-> "none", replicas |-> 1, minAvailable |-> 0,
             tls |-> FALSE, bad |-> FALSE]
NoStatus == [phase |-> "", obs |-> 0, avail |-> FALSE]

\* gen counts spec versions over all incarnations; uid is gen at creation.
Gone(g) == [up |-> FALSE, uid |-> 0, gen |-> g, spec |-> NoSpec, status |-> NoStatus]

NoPods == [tmpl |-> <<>>, conf |-> <<>>, cert |-> 0]
NoAddrs == [b \in Backends |-> 0]
None   == [val |-> <<>>, owner |-> 0]

\* Mutant of Children: the UDP route is forgotten.
ChildrenNoUDP == <<"configmap", "hash", "deployment", "dnsservice", "additional", "pdb",
                   "tcproute">>

Children == <<"configmap", "hash", "deployment", "dnsservice", "additional", "pdb",
              "tcproute", "udproute">>

Exists(k) == child[k].val # <<>>

\* A budget needs a pod to spare.
pdbFor(replicas, override) ==
  IF replicas <= 1 THEN <<>> ELSE <<IF override # 0 THEN override ELSE replicas - 1>>

\* Mutant of validateDNSDist: a budget of all replicas passes.
validateDNSDistAll(sp) == ~sp.bad /\ ~(sp.replicas > 1 /\ sp.minAvailable > sp.replicas)

validateDNSDist(sp) == ~sp.bad /\ ~(sp.replicas > 1 /\ sp.minAvailable >= sp.replicas)

\* What the manifests package renders; <<>>: the child is not wanted.
DNSDistConfigMap(sp, a)          == <<sp.conf, a>>
DNSDistDeployment(sp, h)         == <<sp.conf, h, sp.replicas>>
DNSDistDNSService(sp)            == <<sp.conf, sp.expose>>
DNSDistAdditionalDNSServices(sp) == IF sp.expose = "lb" THEN <<sp.conf>> ELSE <<>>
DNSDistPDB(sp)                   == pdbFor(sp.replicas, sp.minAvailable)
DNSDistRoute(sp)                 == IF sp.expose = "gateway" THEN <<sp.conf>> ELSE <<>>

Render(k, sp, a, h) ==
  CASE k = "configmap"  -> DNSDistConfigMap(sp, a)
    [] k = "deployment" -> DNSDistDeployment(sp, h)
    [] k = "dnsservice" -> DNSDistDNSService(sp)
    [] k = "additional" -> DNSDistAdditionalDNSServices(sp)
    [] k = "pdb"        -> DNSDistPDB(sp)
    [] OTHER            -> DNSDistRoute(sp)

\* ConfigHash over dnsdist.conf and the TLS Secret; a missing Secret counts by name.
Hash(sp, a) == <<sp.conf, a, sp.tls, IF sp.tls THEN cert ELSE 0>>

Outcomes == {"done"} \cup IF trouble < MaxTrouble THEN Faults \cap {"err", "lost"} ELSE {}

Charge(o) == trouble' = IF o = "done" THEN trouble ELSE trouble + 1

Finish == /\ pc' = "idle" /\ base' = Gone(0) /\ refs' = {} /\ addrs' = NoAddrs
          /\ todo' = <<>> /\ hash' = <<>> /\ next' = ""

-------------------------------------------------------------------------------
(* One pass *)

Begin(p, ph, rs) ==
  /\ pc = "idle" /\ cached.up
  /\ pc' = p /\ base' = cached /\ refs' = rs /\ addrs' = NoAddrs /\ next' = ph
  /\ todo' = <<>> /\ hash' = <<>>
  /\ UNCHANGED <<tier, cached, child, envVars, trouble>>

BeginInvalid == ~validateDNSDist(cached.spec) /\ Begin("status", "Failed", {})
BeginResolve == validateDNSDist(cached.spec) /\ Begin("resolve", "", Backends)

\* Mutant of ResolveBackend: a backend without an address passes.
ResolveReadyOnly ==
  /\ pc = "resolve"
  /\ \E b \in refs :
       /\ b \in ready
       /\ addrs' = [addrs EXCEPT ![b] = ip[b]] /\ refs' = refs \ {b}
       /\ IF refs = {b} THEN pc' = "child" /\ todo' = Children /\ UNCHANGED <<base, hash, next>>
                        ELSE UNCHANGED <<pc, base, todo, hash, next>>
  /\ UNCHANGED <<tier, cached, child, envVars, trouble>>

\* backendsReady, one backend: two reads; the first one that is not Ready or has
\* no address ends the pass with status Pending, a read that fails just ends it.
ResolveBackend ==
  /\ pc = "resolve"
  /\ \E b \in refs :
       \/ /\ b \in ready /\ ip[b] # 0
          /\ addrs' = [addrs EXCEPT ![b] = ip[b]] /\ refs' = refs \ {b}
          /\ IF refs = {b} THEN pc' = "child" /\ todo' = Children /\ UNCHANGED <<base, hash, next>>
                           ELSE UNCHANGED <<pc, base, todo, hash, next>>
          /\ UNCHANGED trouble
       \/ /\ b \notin ready \/ ip[b] = 0
          /\ pc' = "status" /\ next' = "Pending" /\ refs' = {} /\ UNCHANGED trouble
          /\ UNCHANGED <<base, addrs, todo, hash>>
       \/ "err" \in Outcomes /\ Charge("err") /\ Finish
  /\ UNCHANGED <<tier, cached, child, envVars>>

Advance ==
  /\ todo' = Tail(todo)
  /\ IF Len(todo) > 1 THEN UNCHANGED <<pc, next>> ELSE pc' = "status" /\ next' = "Ready"
  /\ UNCHANGED <<base, refs, addrs>>

ComputeHash ==
  /\ pc = "child" /\ Head(todo) = "hash"
  /\ \E o \in Outcomes \ {"lost"} :
       /\ Charge(o)
       /\ IF o = "done" THEN Advance /\ hash' = Hash(base.spec, addrs) ELSE Finish
  /\ UNCHANGED <<tier, cached, child, envVars>>

\* Mutant of Converged: no controller reference is set.
ConvergedUnowned(k) ==
  LET want == Render(k, base.spec, addrs, hash)
  IN IF want = <<>> THEN None ELSE [val |-> want, owner |-> 0]

\* What child k becomes.  upsertOwned renews the owner reference, updateService
\* leaves it as it is.
Converged(k) ==
  LET want == Render(k, base.spec, addrs, hash)
  IN CASE want = <<>> -> None
       [] k \in {"dnsservice", "additional"} /\ Exists(k) -> [child[k] EXCEPT !.val = want]
       [] OTHER -> [val |-> want, owner |-> base.uid]

ConvergeChild ==
  /\ pc = "child" /\ Head(todo) # "hash"
  /\ \E o \in Outcomes :
       /\ Charge(o)
       /\ child' = IF o = "err" THEN child
                   ELSE [child EXCEPT ![Head(todo)] = Converged(Head(todo))]
       /\ IF o = "done" THEN Advance /\ UNCHANGED hash ELSE Finish
  /\ UNCHANGED <<tier, cached, envVars>>

\* Mutant of WriteStatus: the status goes to the object as it is now.
WriteStatusLatest ==
  /\ pc = "status"
  /\ tier' = IF tier.up /\ (next = "Ready" => Exists("deployment"))
             THEN [tier EXCEPT !.status = [phase |-> next, obs |-> tier.gen, avail |-> pods # NoPods]]
             ELSE tier
  /\ Finish
  /\ UNCHANGED <<cached, child, envVars, trouble>>

\* refreshDNSDistStatus, markDNSDistNotReady and markDNSDistFailed.  The last two
\* leave observedGeneration and the replica counts as they were.
WriteStatus ==
  /\ pc = "status"
  /\ LET st == IF next = "Ready" THEN [phase |-> next, obs |-> base.gen, avail |-> pods # NoPods]
               ELSE [base.status EXCEPT !.phase = next]
         able == tier = base /\ (next = "Ready" => Exists("deployment"))
     IN \E o \in Outcomes :
          /\ Charge(o)
          /\ tier' = IF able /\ o # "err" THEN [base EXCEPT !.status = st] ELSE tier
  /\ Finish
  /\ UNCHANGED <<cached, child, envVars>>

Crash ==
  /\ pc # "idle" /\ "crash" \in Faults /\ trouble < MaxTrouble /\ trouble' = trouble + 1
  /\ Finish /\ UNCHANGED <<tier, cached, child, envVars>>

Refresh == /\ cached # tier /\ cached' = tier
           /\ UNCHANGED <<tier, child, envVars, passVars, trouble>>

-------------------------------------------------------------------------------
(* Everything else *)

Garbage == {k \in Kinds : Exists(k) /\ child[k].owner # 0
                          /\ (~tier.up \/ child[k].owner # tier.uid)}

CollectGarbage ==
  /\ UNCHANGED <<tier, cached, envVars, passVars, trouble>>
  /\ Garbage # {}
  /\ child' = [k \in Kinds |-> IF k \in Garbage THEN None ELSE child[k]]

\* The pod template: scaling does not change it.
Template == SubSeq(child["deployment"].val, 1, 2)

\* The ConfigMap and, when the template has a TLS listener, the Secret are mounted.
StartPods ==
  /\ Exists("deployment") /\ pods.tmpl # Template /\ Exists("configmap")
  /\ LET tls == Template[2][3]
     IN /\ tls => cert # 0
        /\ pods' = [tmpl |-> Template, conf |-> child["configmap"].val,
                    cert |-> IF tls THEN cert ELSE 0]
  /\ UNCHANGED <<tier, cached, child, ready, ip, cert, passVars, trouble>>

StopPods ==
  /\ ~Exists("deployment") /\ pods # NoPods /\ pods' = NoPods
  /\ UNCHANGED <<tier, cached, child, ready, ip, cert, passVars, trouble>>

\* A new Service gets an address that was not in use before.
AssignIP ==
  /\ \E b \in Backends : ip[b] = 0 /\ ip' = [ip EXCEPT ![b] = trouble + 1]
  /\ UNCHANGED <<tier, cached, child, ready, cert, pods, passVars, trouble>>

BackendUp(b) ==
  /\ b \notin ready /\ ready' = ready \cup {b}
  /\ UNCHANGED <<tier, cached, child, ip, cert, pods, passVars, trouble>>

IssueCert ==
  /\ cert = 0 /\ cert' = trouble + 1
  /\ UNCHANGED <<tier, cached, child, ready, ip, pods, passVars, trouble>>

Foreign == trouble < MaxTrouble /\ trouble' = trouble + 1

DeleteService(b) ==
  /\ Foreign /\ ip[b] # 0 /\ ip' = [ip EXCEPT ![b] = 0]
  /\ UNCHANGED <<tier, cached, child, ready, cert, pods, passVars>>

BackendDown(b) ==
  /\ Foreign /\ b \in ready \cap Downable /\ ready' = ready \ {b}
  /\ UNCHANGED <<tier, cached, child, ip, cert, pods, passVars>>

\* The TLS Secret is replaced, or deleted and issued again.
RotateCert ==
  /\ Foreign /\ cert # 0 /\ cert' \in {0, trouble + 2}
  /\ UNCHANGED <<tier, cached, child, ready, ip, pods, passVars>>

DeleteChild ==
  /\ Foreign /\ \E k \in Tampered : Exists(k) /\ child' = [child EXCEPT ![k] = None]
  /\ UNCHANGED <<tier, cached, envVars, passVars>>

CreateCR ==
  /\ ~tier.up /\ tier.gen < MaxGen
  /\ \E sp \in Specs :
       tier' = [Gone(tier.gen + 1) EXCEPT !.up = TRUE, !.uid = tier.gen + 1, !.spec = sp]
  /\ UNCHANGED <<cached, child, envVars, passVars, trouble>>

EditSpec ==
  /\ tier.up /\ tier.gen < MaxGen
  /\ \E sp \in Specs \ {tier.spec} : tier' = [tier EXCEPT !.spec = sp, !.gen = @ + 1]
  /\ UNCHANGED <<cached, child, envVars, passVars, trouble>>

DeleteCR ==
  /\ tier.up /\ tier' = Gone(tier.gen)
  /\ UNCHANGED <<cached, child, envVars, passVars, trouble>>

-------------------------------------------------------------------------------
\* The tier is created where its backends and its certificate already are; what
\* is missing from that is one change by others away.
Init ==
  /\ tier = Gone(0) /\ cached = Gone(0) /\ child = [k \in Kinds |-> None]
  /\ ready = Backends /\ ip = [b \in Backends |-> 1] /\ cert = 1 /\ pods = NoPods
  /\ pc = "idle" /\ base = Gone(0) /\ refs = {} /\ addrs = NoAddrs /\ todo = <<>>
  /\ hash = <<>> /\ next = "" /\ trouble = 0

BeginPass == BeginInvalid \/ BeginResolve

PassStep == ResolveBackend \/ ComputeHash \/ ConvergeChild \/ WriteStatus

Cluster == \/ CollectGarbage \/ StartPods \/ StopPods \/ AssignIP \/ IssueCert
           \/ \E b \in Backends : BackendUp(b)

Others == \/ CreateCR \/ EditSpec \/ DeleteCR \/ RotateCert \/ DeleteChild
          \/ \E b \in Backends : DeleteService(b) \/ BackendDown(b)

Next == BeginPass \/ PassStep \/ Crash \/ Refresh \/ Cluster \/ Others

\* As for the server: the worker goes on, with its pass or with the next one.  A
\* backend outside Lasting that is down comes back.
Fairness ==
  /\ WF_vars(BeginPass \/ PassStep) /\ WF_vars(Refresh)
  /\ WF_vars(CollectGarbage) /\ WF_vars(StartPods)
  /\ WF_vars(AssignIP) /\ WF_vars(IssueCert)
  /\ \A b \in Backends \ Lasting : WF_vars(BackendUp(b))

Spec == Init /\ [][Next]_vars /\ Fairness

-------------------------------------------------------------------------------
(* Properties *)

Objects == [up : BOOLEAN, uid : 0..MaxGen, gen : 0..MaxGen, spec : Specs \cup {NoSpec},
            status : [phase : {"", "Pending", "Failed", "Ready"}, obs : 0..MaxGen, avail : BOOLEAN]]

\* The variables keep their types; a pass converges children only after it
\* resolved every backend (backendsReady, dnsdist_controller.go:197).
TypeOK ==
  /\ tier \in Objects /\ cached \in Objects /\ base \in Objects
  /\ DOMAIN child = Kinds /\ \A k \in Kinds : child[k].owner \in 0..MaxGen
  /\ ready \subseteq Backends /\ DOMAIN ip = Backends /\ cert \in 0..(MaxTrouble + 2)
  /\ pc \in {"idle", "resolve", "child", "status"}
  /\ pc = "resolve" <=> refs # {}
  /\ pc = "child" <=> todo # <<>>
  /\ pc = "child" => \A b \in Backends : addrs[b] # 0
  /\ trouble \in 0..MaxTrouble

\* A tier that says Ready for its current generation has children of that
\* generation only, no pass on an older object having undone one
\* (refreshDNSDistStatus, dnsdist_controller.go:325); and its disruption budget
\* leaves room to drain a node (dnsdist_types.go:15, docs/configuration.md:372).
ReadyMeansRendered ==
  tier.up /\ tier.status.phase = "Ready" /\ tier.status.obs = tier.gen =>
    /\ \A k \in Kinds : Exists(k) =>
         IF k \in {"configmap", "deployment"} THEN child[k].val[1] = tier.spec.conf
         ELSE child[k].val = Render(k, tier.spec, NoAddrs, <<>>)
    /\ Exists("pdb") /\ Exists("deployment") =>
         child["pdb"].val[1] \in 1..(child["deployment"].val[3] - 1)

Wanted == tier.up /\ validateDNSDist(tier.spec) /\ ready = Backends

\* The pods send queries to the current addresses of all backends, with the
\* current configuration and certificate.
Current == /\ pods.conf = <<tier.spec.conf, ip>>
           /\ tier.spec.tls => pods.cert = cert

\* While all backends are Ready the tier ends up complete, owned, current and
\* reported Ready, after edits, corrections of a rejected spec, recreated
\* Services, rotated certificates, deleted children and a deleted and recreated
\* tier (Reconcile, dnsdist_controller.go:47).
EventuallyCurrent ==
  <>[](Wanted => /\ Current /\ tier.status = [phase |-> "Ready", obs |-> tier.gen, avail |-> TRUE]
                 /\ \A k \in Kinds : LET want == Render(k, tier.spec, ip, Hash(tier.spec, ip))
                                     IN child[k].val = want /\ (want # <<>> => child[k].owner = tier.uid))

\* A tier that was deleted leaves nothing behind, children written by a pass that
\* had not seen the deletion included (dnsdist_controller.go:52).
NothingLeft == <>[](~tier.up => \A k \in Kinds : ~Exists(k))

\* A backend whose Service was recreated is reached under its new address, with no
\* manual intervention (dnsdist.go:67).
AddressesFollow ==
  <>[](tier.up /\ validateDNSDist(tier.spec) /\ pods # NoPods =>
         \A b \in ready : ip[b] # 0 => pods.conf[2][b] = ip[b])

===============================================================================

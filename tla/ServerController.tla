--------------------------- MODULE ServerController ---------------------------
(***************************************************************************)
(* The PowerDNSServer controller                                           *)
(* (internal/controller/powerdnsserver_controller.go): a phase machine     *)
(* kept in status.phase, from Pending over the backend, the schema, the    *)
(* workload and its exposure to the Ready loop that corrects drift.        *)
(*                                                                         *)
(* A pass reads the server object from the informer cache and then reads   *)
(* and writes the server's children one at a time; each of these steps may *)
(* fail, and the operator may stop between any two.  Around it the model   *)
(* has what the children are for: CloudNativePG brings up the database and *)
(* publishes credentials, the schema Job runs, pods start from the         *)
(* Deployment, the load balancer gets an address, the garbage collector    *)
(* removes children whose owner is gone, and users change any of it.       *)
(*                                                                         *)
(* A child is its content (a tuple, <<>> when it does not exist) and the   *)
(* incarnation of the server its owner reference names.                    *)
(***************************************************************************)
EXTENDS Naturals, Sequences

CONSTANTS Specs,      \* specs users write
          Creds,      \* Postgres credentials of a new database
          Rotations,  \* credentials they are replaced by
          Faults,     \* failures of API calls and of the operator that occur
          MaxGen,     \* bound: spec versions of the server's name
          Tampered,   \* children that users delete
          Altered,    \* children that users edit in place
          MaxTrouble, \* bound: failures and changes by others
          Lag,        \* the ConfigMap informer may lag behind
          Hasty       \* a server may be recreated before its children are gone

\* What the controller's control flow and the properties tell apart in a spec:
\* conf is all that is rendered into pdns.conf, pods and Services; extras is the
\* version of the optional HTTPRoute, PodMonitor and NetworkPolicy ("": off);
\* budget the disruption budget ("": a single replica); bad why validateSpec
\* rejects it, if it does.
SpecRecords == [conf : STRING, expose : {"none", "lb", "gateway"}, extras : STRING,
                budget : STRING, byoKey : BOOLEAN, byoDB : BOOLEAN,
                bad : {"", "parents", "other"}]

\* The children.
Kinds == {"apikey", "cluster", "backend", "job", "configmap", "deployment",
          "apiservice", "dnsservice", "additional", "pdb", "monitor", "netpol",
          "tcproute", "udproute", "httproute"}

ASSUME ServerAssumption ==
  /\ Specs \subseteq SpecRecords
  /\ \A sp \in Specs : sp.bad = "parents" => sp.expose = "gateway"
  /\ Faults \subseteq {"err", "lost", "crash"}
  /\ Tampered \subseteq Kinds /\ Altered \subseteq Kinds \ {"job"}
  /\ MaxGen \in Nat /\ MaxTrouble \in Nat
  /\ Lag \in BOOLEAN /\ Hasty \in BOOLEAN

VARIABLES
  srv,      \* the PowerDNSServer object
  cached,   \* the informer's copy of it
  child,    \* the children
  cmCache,  \* the informer's copy of the ConfigMap child, when Lag
  source,   \* the credentials Postgres accepts, as its own Secret holds them
  dbUp,     \* Postgres accepts connections
  schema,   \* the PowerDNS schema is in the database
  pods,     \* what the running pods were started from
  lb,       \* the DNS load balancer has an address
  pc,       \* where the running pass is; "idle" between passes
  base,     \* the server object as the pass knows it
  todo,     \* the children the pass has still to converge
  hash,     \* the config hash it computed
  next,     \* the status it is about to write
  trouble   \* failures and changes by others so far

passVars == <<pc, base, todo, hash, next>>
envVars  == <<source, dbUp, schema, pods, lb>>
vars == <<srv, cached, child, cmCache, source, dbUp, schema, pods, lb,
          pc, base, todo, hash, next, trouble>>

-------------------------------------------------------------------------------
(* The server object *)

Phases == {"", "ProvisioningBackend", "InitializingSchema", "DeployingServer",
           "ExposingDNS", "Ready", "Failed"}

\* The status fields that mirror or steer something: phase, the Secret the API
\* key was published from, dnsEndpoint, and Ready (all replicas available).
NoStatus == [phase |-> "", key |-> "", endpoint |-> "", ready |-> FALSE]

NoSpec == [conf |-> "", expose |-> "none", extras |-> "", budget |-> "",
           byoKey |-> FALSE, byoDB |-> FALSE, bad |-> ""]

\* gen counts spec versions over all incarnations; uid is gen at creation.
Gone(g) == [up |-> FALSE, uid |-> 0, gen |-> g, deleting |-> FALSE, fin |-> FALSE,
            spec |-> NoSpec, status |-> NoStatus]

(* The children *)

None == [val |-> <<>>, owner |-> 0]

Exists(k) == child[k].val # <<>>

(* What the manifests package renders from a spec and, for the Deployment, a *)
(* config hash; <<>>: the child is not wanted.  Rejected extraSettings are     *)
(* left out of conf, so bad does not show here.                                *)

ConfigMap(sp)             == <<sp.conf>>
SchemaInitJob             == <<"running">>
Deployment(sp, h)         == <<sp.conf>> \o h
APIService(sp)            == <<sp.conf>>
DNSService(sp)            == <<sp.conf, sp.expose>>
AdditionalDNSServices(sp) == IF sp.expose = "lb" THEN <<sp.conf>> ELSE <<>>
DNSRoute(sp)              == IF sp.expose = "gateway" THEN <<sp.conf>> ELSE <<>>
HTTPRoute(sp)             == IF sp.extras # "" THEN <<sp.extras>> ELSE <<>>
PodMonitor(sp)            == IF sp.extras # "" THEN <<sp.extras>> ELSE <<>>
NetworkPolicy(sp)         == IF sp.extras # "" THEN <<sp.extras>> ELSE <<>>
PodDisruptionBudget(sp)   == IF sp.budget # "" THEN <<sp.budget>> ELSE <<>>
CNPGCluster               == <<"cluster">>

Render(k, sp, h) ==
  CASE k = "configmap"                -> ConfigMap(sp)
    [] k = "deployment"               -> Deployment(sp, h)
    [] k = "apiservice"               -> APIService(sp)
    [] k = "dnsservice"               -> DNSService(sp)
    [] k = "additional"               -> AdditionalDNSServices(sp)
    [] k \in {"tcproute", "udproute"} -> DNSRoute(sp)
    [] k = "httproute"                -> HTTPRoute(sp)
    [] k = "monitor"                  -> PodMonitor(sp)
    [] k = "netpol"                   -> NetworkPolicy(sp)
    [] k = "pdb"                      -> PodDisruptionBudget(sp)

\* The order in which ensureWorkload, reconcileRoutes and reconcileDrift work.
Routes   == <<"tcproute", "udproute", "httproute">>
Workload == <<"configmap", "hash", "deployment", "apiservice", "dnsservice",
              "additional", "pdb", "monitor", "netpol">>
Drift    == <<"configmap", "hash", "deployment", "apiservice", "dnsservice",
              "additional">> \o Routes \o <<"pdb">>

\* Children for which a pass in this phase only checks that they exist
\* (ensureOwned, ensureUnstructured); the others it also brings up to date.
CreateOnly(phase) ==
  {"pdb", "monitor"} \cup
  IF phase = "DeployingServer" THEN {"deployment", "apiservice", "dnsservice"} ELSE {}

\* Kinds whose deletion error the code ignores.
Unchecked == {"pdb", "monitor", "netpol"}

-------------------------------------------------------------------------------
(* API calls *)

Outcomes == {"done"} \cup IF trouble < MaxTrouble THEN Faults \cap {"err", "lost"} ELSE {}

Charge(o) == trouble' = IF o = "done" THEN trouble ELSE trouble + 1

Finish == /\ pc' = "idle" /\ base' = Gone(0) /\ todo' = <<>> /\ hash' = <<>>
          /\ next' = NoStatus

Goto(p) == pc' = p /\ UNCHANGED <<base, todo, hash, next>>

\* The pass sets child k to v, then continues at Goto(p) or gives up.  A write
\* that finds nothing to do cannot fail half-way, only as a read.
Put(k, v, then) ==
  \E o \in Outcomes :
    /\ Charge(o)
    /\ child' = IF o = "err" THEN child ELSE [child EXCEPT ![k] = v]
    /\ IF o = "done" THEN then ELSE Finish

\* A call that changes no child, with the same failures.
Ask(then) == \E o \in Outcomes \ {"lost"} :
               Charge(o) /\ IF o = "done" THEN then ELSE Finish

\* Mutant of Owned: no controller reference is set.
OwnedByNobody(v) == [val |-> v, owner |-> 0]

Owned(v) == [val |-> v, owner |-> base.uid]

\* The object write that ends or continues a pass: accepted when the object is
\* still the one the pass read.
Store(new, then) ==
  \E o \in Outcomes :
    /\ Charge(o)
    /\ srv' = IF srv = base /\ o # "err" THEN new ELSE srv
    /\ IF srv = base /\ o = "done" THEN then ELSE Finish

WithStatus(st) == [base EXCEPT !.status = st]

-------------------------------------------------------------------------------
(* One pass *)

Begin(p, st, steps) ==
  /\ pc = "idle" /\ cached.up
  /\ pc' = p /\ base' = cached /\ next' = st /\ todo' = steps /\ hash' = <<>>
  /\ UNCHANGED <<srv, cached, child, cmCache, envVars, trouble>>

Active(phase) == ~cached.deleting /\ cached.fin /\ cached.status.phase = phase

BeginDelete       == cached.deleting /\ Begin("release", NoStatus, <<>>)
BeginAddFinalizer == ~cached.deleting /\ ~cached.fin /\ Begin("finalizer", NoStatus, <<>>)

BeginPending ==
  /\ Active("")
  /\ LET st == [cached.status EXCEPT !.phase = "ProvisioningBackend"]
     IN \/ /\ cached.spec.bad # ""
           /\ Begin("status", [cached.status EXCEPT !.phase = "Failed"], <<>>)
        \/ /\ cached.spec.bad = "" /\ cached.spec.byoKey
           /\ Begin("status", [st EXCEPT !.key = "byo"], <<>>)
        \/ /\ cached.spec.bad = "" /\ ~cached.spec.byoKey
           /\ Begin("apikey", [st EXCEPT !.key = "own"], <<>>)

BeginProvisioning ==
  /\ Active("ProvisioningBackend")
  /\ Begin(IF cached.spec.byoDB THEN "backend" ELSE "cluster",
           [cached.status EXCEPT !.phase = "InitializingSchema"], <<>>)

BeginSchema ==
  /\ Active("InitializingSchema")
  /\ Begin("schema", [cached.status EXCEPT !.phase = "DeployingServer"], <<>>)

BeginDeploying ==
  /\ Active("DeployingServer")
  /\ Begin("child", [cached.status EXCEPT !.phase = "ExposingDNS"], Workload)

BeginExposing ==
  /\ Active("ExposingDNS")
  /\ Begin("child", [cached.status EXCEPT !.phase = "Ready"], Routes)

\* Mutant of BeginReady: the Ready loop validates the spec as phasePending does.
BeginReadyValidates ==
  /\ Active("Ready")
  /\ \/ /\ cached.spec.bad # ""
        /\ Begin("status", [cached.status EXCEPT !.phase = "Failed"], <<>>)
     \/ cached.spec.bad = "" /\ Begin("child", cached.status, Drift)

\* Mutant of BeginReady: the Ready loop leaves the children as they are.
BeginReadyIdle == Active("Ready") /\ Begin("child", cached.status, <<"pdb">>)

BeginReady == Active("Ready") /\ Begin("child", cached.status, Drift)

AddFinalizer ==
  /\ pc = "finalizer"
  /\ Store([base EXCEPT !.fin = TRUE], Finish)
  /\ UNCHANGED <<cached, child, cmCache, envVars>>

\* The object goes away with its finalizer.
Release ==
  /\ pc = "release"
  /\ Store(Gone(base.gen), Finish)
  /\ UNCHANGED <<cached, child, cmCache, envVars>>

\* setPhase and setFailed.
WriteStatus ==
  /\ pc = "status"
  /\ Store(WithStatus(next), Finish)
  /\ UNCHANGED <<cached, child, cmCache, envVars>>

EnsureAPIKey ==
  /\ pc = "apikey"
  /\ IF Exists("apikey") THEN Ask(Goto("status")) /\ UNCHANGED child
                         ELSE Put("apikey", Owned(<<"key", base.uid>>), Goto("status"))
  /\ UNCHANGED <<srv, cached, cmCache, envVars>>

EnsureCluster ==
  /\ pc = "cluster"
  /\ IF Exists("cluster") THEN Ask(Goto("backend")) /\ UNCHANGED child
                          ELSE Put("cluster", Owned(CNPGCluster), Goto("backend"))
  /\ UNCHANGED <<srv, cached, cmCache, envVars>>

\* materialiseCNPGBackendSecret and materialiseBYOBackendSecret: copy the source
\* Secret, if it is there and complete, into the backend Secret.
MaterialiseBackend ==
  /\ pc = "backend"
  /\ LET then == Goto(IF base.spec.byoDB THEN "status" ELSE "dbgate")
     IN \/ source = <<>> /\ Finish /\ UNCHANGED <<child, trouble>>
        \/ /\ source # <<>> /\ child["backend"].val = source
           /\ Ask(then) /\ UNCHANGED child
        \/ /\ source # <<>> /\ child["backend"].val # source
           /\ Put("backend", IF Exists("backend") THEN [child["backend"] EXCEPT !.val = source]
                             ELSE Owned(source), then)
  /\ UNCHANGED <<srv, cached, cmCache, envVars>>

\* Mutant of CnpgClusterReady: the Cluster only has to exist.
CnpgClusterExists ==
  /\ pc = "dbgate"
  /\ Ask(IF Exists("cluster") THEN Goto("status") ELSE Finish)
  /\ UNCHANGED <<srv, cached, child, cmCache, envVars>>

CnpgClusterReady ==
  /\ pc = "dbgate"
  /\ Ask(IF Exists("cluster") /\ dbUp THEN Goto("status") ELSE Finish)
  /\ UNCHANGED <<srv, cached, child, cmCache, envVars>>

\* Mutant of InitializeSchema: the Job only has to exist.
InitializeSchemaNoWait ==
  /\ pc = "schema"
  /\ IF Exists("job") THEN Ask(Goto("status")) /\ UNCHANGED child
     ELSE Put("job", Owned(SchemaInitJob), Finish)
  /\ UNCHANGED <<srv, cached, cmCache, envVars>>

\* Mutant of InitializeSchema: a failed Job is waited for.
InitializeSchemaNoRetry ==
  /\ pc = "schema"
  /\ CASE ~Exists("job")                     -> Put("job", Owned(SchemaInitJob), Finish)
       [] child["job"].val = <<"succeeded">> -> Ask(Goto("status")) /\ UNCHANGED child
       [] OTHER                              -> Ask(Finish) /\ UNCHANGED child
  /\ UNCHANGED <<srv, cached, cmCache, envVars>>

\* A missing Job is created, a failed one deleted; either way the next pass
\* looks again.
InitializeSchema ==
  /\ pc = "schema"
  /\ CASE ~Exists("job")                     -> Put("job", Owned(SchemaInitJob), Finish)
       [] child["job"].val = <<"failed">>    -> Put("job", None, Finish)
       [] child["job"].val = <<"succeeded">> -> Ask(Goto("status")) /\ UNCHANGED child
       [] OTHER                              -> Ask(Finish) /\ UNCHANGED child
  /\ UNCHANGED <<srv, cached, cmCache, envVars>>

\* Mutant of Advance: one child too many.
AdvanceTooFar ==
  /\ todo' = Tail(todo)
  /\ pc' = IF Len(todo) >= 1 THEN "child" ELSE "endpoint"
  /\ UNCHANGED <<base, next>>

\* The rest of the pass after the child it is at.
Advance ==
  /\ todo' = Tail(todo)
  /\ pc' = IF Len(todo) > 1 THEN "child"
           ELSE CASE base.status.phase = "DeployingServer" -> "available"
                  [] base.status.phase = "ExposingDNS"     -> "expose"
                  [] OTHER                                 -> "endpoint"
  /\ UNCHANGED <<base, next>>

\* Mutant of ComputeConfigHash: the Secrets are left out.
ComputeConfigHashNoSecrets ==
  /\ pc = "child" /\ Head(todo) = "hash"
  /\ Ask(hash' = <<base.spec.conf>> /\ Advance)
  /\ UNCHANGED <<srv, cached, child, cmCache, envVars>>

ComputeConfigHash ==
  /\ pc = "child" /\ Head(todo) = "hash"
  /\ \E o \in Outcomes \ {"lost"} :
       /\ Charge(o)
       /\ IF o = "done"
          THEN /\ hash' = <<base.spec.conf,
                            IF base.spec.byoKey THEN <<"byo">> ELSE child["apikey"].val,
                            child["backend"].val>>
               /\ Advance
          ELSE Finish
  /\ UNCHANGED <<srv, cached, child, cmCache, envVars>>

\* What child k becomes.  The mutation function of the routes renews the owner
\* reference; the in-place updates leave it as it is.
Converged(k) ==
  LET want == Render(k, base.spec, hash)
      have == child[k]
  IN CASE want = <<>>                          -> None
       [] have.val = <<>>                      -> Owned(want)
       [] k \in CreateOnly(base.status.phase)  -> have
       [] k \in {"tcproute", "udproute", "httproute"} -> Owned(want)
       [] OTHER                                -> [have EXCEPT !.val = want]

\* ensureOwned, updateDeployment, updateService, CreateOrUpdate, deleteIfExists.
ConvergeChild ==
  /\ pc = "child"
  /\ LET k == Head(todo)
         keep == Advance /\ UNCHANGED hash
     IN /\ k \notin {"hash", "configmap"}
        /\ IF Converged(k) = child[k]
           THEN Ask(keep) /\ UNCHANGED child
           ELSE \/ Put(k, Converged(k), keep)
                \/ /\ k \in Unchecked /\ Converged(k) = None
                   /\ "err" \in Outcomes /\ Charge("err") /\ keep /\ UNCHANGED child
  /\ UNCHANGED <<srv, cached, cmCache, envVars>>

\* updateConfigMap compares with the informer's copy and writes only when that
\* differs; the write is refused when the copy is out of date.
UpdateConfigMap ==
  /\ pc = "child" /\ Head(todo) = "configmap"
  /\ LET seen == IF Lag THEN cmCache ELSE child["configmap"]
         want == Converged("configmap")
         keep == Advance /\ UNCHANGED hash
     IN \/ seen.val = want.val /\ Ask(keep) /\ UNCHANGED child
        \/ /\ seen.val # want.val /\ seen = child["configmap"]
           /\ Put("configmap", want, keep)
        \/ /\ seen.val # want.val /\ seen # child["configmap"]
           /\ Finish /\ UNCHANGED <<child, trouble>>
  /\ UNCHANGED <<srv, cached, cmCache, envVars>>

NoPods == [tmpl |-> <<>>, conf |-> <<>>, key |-> <<>>, cred |-> <<>>]

\* phaseDeployingServer waits for one available replica, of any template.
CheckAvailable ==
  /\ pc = "available"
  /\ Ask(IF Exists("deployment") /\ pods # NoPods THEN Goto("status") ELSE Finish)
  /\ UNCHANGED <<srv, cached, child, cmCache, envVars>>

\* The address clients reach DNS under, "" while there is none.
LiveEndpoint(sp) ==
  CASE sp.expose = "none"    -> "cluster"
    [] sp.expose = "gateway" -> "gateway"
    [] OTHER                 -> IF lb THEN "lb" ELSE ""

ExposeDNS ==
  /\ pc = "expose"
  /\ LET sp == base.spec
         serve == Exists("dnsservice") /\ LiveEndpoint(sp) # ""
     IN Ask(CASE sp.bad = "parents" ->
                   /\ next' = [base.status EXCEPT !.phase = "Failed"]
                   /\ pc' = "status" /\ UNCHANGED <<base, todo, hash>>
              [] sp.expose = "gateway" \/ serve ->
                   /\ next' = [next EXCEPT !.endpoint = LiveEndpoint(sp)]
                   /\ pc' = "status" /\ UNCHANGED <<base, todo, hash>>
              [] OTHER -> Finish)
  /\ UNCHANGED <<srv, cached, child, cmCache, envVars>>

RefreshDNSEndpoint ==
  /\ pc = "endpoint"
  /\ LET st == [base.status EXCEPT !.endpoint = LiveEndpoint(base.spec)]
     IN IF st = base.status \/ (base.spec.expose # "gateway" /\ ~Exists("dnsservice"))
        THEN Ask(Goto("replicas")) /\ UNCHANGED srv
        ELSE Store(WithStatus(st), /\ pc' = "replicas" /\ base' = WithStatus(st)
                                   /\ UNCHANGED <<todo, hash, next>>)
  /\ UNCHANGED <<cached, child, cmCache, envVars>>

RefreshReplicaStatus ==
  /\ pc = "replicas"
  /\ LET st == [base.status EXCEPT !.ready = (pods # NoPods)]
     IN IF st = base.status \/ ~Exists("deployment")
        THEN Ask(Finish) /\ UNCHANGED srv
        ELSE Store(WithStatus(st), Finish)
  /\ UNCHANGED <<cached, child, cmCache, envVars>>

\* The operator stops; its successor starts with no memory of the pass.
Crash ==
  /\ pc # "idle" /\ "crash" \in Faults /\ trouble < MaxTrouble
  /\ trouble' = trouble + 1 /\ Finish
  /\ UNCHANGED <<srv, cached, child, cmCache, envVars>>

Refresh == /\ cached # srv /\ cached' = srv
           /\ UNCHANGED <<srv, child, cmCache, envVars, passVars, trouble>>

RefreshConfigMap ==
  /\ Lag /\ cmCache # child["configmap"] /\ cmCache' = child["configmap"]
  /\ UNCHANGED <<srv, cached, child, envVars, passVars, trouble>>

-------------------------------------------------------------------------------
(* Everything else *)

\* The garbage collector removes the children whose owner is gone, in one step.
\* The database, its credentials and its data go with the Cluster.
Garbage == {k \in Kinds : Exists(k) /\ child[k].owner # 0
                          /\ (~srv.up \/ child[k].owner # srv.uid)}

CollectGarbage ==
  /\ Garbage # {}
  /\ child' = [k \in Kinds |-> IF k \in Garbage THEN None ELSE child[k]]
  /\ IF "cluster" \in Garbage THEN source' = <<>> /\ dbUp' = FALSE /\ schema' = FALSE
                              ELSE UNCHANGED <<source, dbUp, schema>>
  /\ UNCHANGED <<srv, cached, cmCache, pods, lb, passVars, trouble>>

\* CloudNativePG, or whoever runs the user's own database.
HasDatabase == Exists("cluster") \/ (srv.up /\ srv.spec.byoDB)

PublishCredentials ==
  /\ HasDatabase /\ source = <<>>
  /\ \E c \in Creds : source' = <<c>>
  /\ UNCHANGED <<srv, cached, child, cmCache, dbUp, schema, pods, lb, passVars, trouble>>

DatabaseUp ==
  /\ HasDatabase /\ ~dbUp /\ dbUp' = TRUE
  /\ UNCHANGED <<srv, cached, child, cmCache, source, schema, pods, lb, passVars, trouble>>

\* The credentials the operator published are the ones Postgres accepts.
LogsIn == dbUp /\ Exists("backend") /\ child["backend"].val = source

\* The Job applies the schema, or uses up its retries without a database.
RunJob ==
  /\ child["job"].val = <<"running">> /\ Exists("backend")
  /\ child' = [child EXCEPT !["job"].val = <<IF LogsIn THEN "succeeded" ELSE "failed">>]
  /\ schema' = (schema \/ LogsIn)
  /\ UNCHANGED <<srv, cached, cmCache, source, dbUp, pods, lb, passVars, trouble>>

\* Pods start from the Deployment when the ConfigMap and both Secrets its
\* template names exist; a rollout replaces the pods of an older template.
StartPods ==
  /\ Exists("deployment") /\ pods.tmpl # child["deployment"].val
  /\ Exists("configmap") /\ Exists("apikey") /\ LogsIn
  /\ pods' = [tmpl |-> child["deployment"].val, conf |-> child["configmap"].val,
              key |-> child["apikey"].val, cred |-> child["backend"].val]
  /\ UNCHANGED <<srv, cached, child, cmCache, source, dbUp, schema, lb, passVars, trouble>>

StopPods ==
  /\ ~Exists("deployment") /\ pods # NoPods /\ pods' = NoPods
  /\ UNCHANGED <<srv, cached, child, cmCache, source, dbUp, schema, lb, passVars, trouble>>

\* The load balancer follows the DNS Service's type.
SetBalancer ==
  LET wanted == Exists("dnsservice") /\ child["dnsservice"].val[Len(child["dnsservice"].val)] = "lb"
  IN /\ lb # wanted /\ lb' = wanted
     /\ UNCHANGED <<srv, cached, child, cmCache, source, dbUp, schema, pods, passVars, trouble>>

\* A server that brings no database starts without one.
CreateCR ==
  /\ ~srv.up /\ srv.gen < MaxGen
  /\ Hasty \/ \A k \in Kinds : ~Exists(k)
  /\ \E sp \in Specs :
       /\ srv' = [Gone(srv.gen + 1) EXCEPT !.up = TRUE, !.uid = srv.gen + 1, !.spec = sp]
       /\ IF sp.byoDB \/ Exists("cluster") THEN UNCHANGED <<source, dbUp, schema>>
          ELSE source' = <<>> /\ dbUp' = FALSE /\ schema' = FALSE
  /\ UNCHANGED <<cached, child, cmCache, pods, lb, passVars, trouble>>

\* An edit does not move the server to another database.
EditSpec ==
  /\ srv.up /\ srv.gen < MaxGen
  /\ \E sp \in Specs \ {srv.spec} : /\ sp.byoDB = srv.spec.byoDB
                                   /\ srv' = [srv EXCEPT !.spec = sp, !.gen = @ + 1]
  /\ UNCHANGED <<cached, child, cmCache, envVars, passVars, trouble>>

DeleteCR ==
  /\ srv.up /\ ~srv.deleting
  /\ srv' = IF srv.fin THEN [srv EXCEPT !.deleting = TRUE] ELSE Gone(srv.gen)
  /\ UNCHANGED <<cached, child, cmCache, envVars, passVars, trouble>>

\* The documented way out of Failed: clear status.phase.
ClearPhase ==
  /\ srv.up /\ srv.status.phase = "Failed" /\ trouble < MaxTrouble
  /\ srv' = [srv EXCEPT !.status.phase = ""]
  /\ trouble' = trouble + 1
  /\ UNCHANGED <<cached, child, cmCache, envVars, passVars>>

\* Someone deletes a child or edits it; a finished Job expires.
Tamper ==
  /\ trouble < MaxTrouble /\ trouble' = trouble + 1
  /\ \/ \E k \in Tampered :
          /\ Exists(k) /\ (k = "job" => child[k].val # <<"running">>)
          /\ child' = [child EXCEPT ![k] = None]
     \/ \E k \in Altered \ {"backend"} :
          Exists(k) /\ child' = [child EXCEPT ![k].val = <<"edited">>]
  /\ UNCHANGED <<srv, cached, cmCache, envVars, passVars>>

\* The database gets other credentials; where users edit the backend Secret, they
\* write them there too.
RotateCredentials ==
  /\ trouble < MaxTrouble /\ trouble' = trouble + 1 /\ source # <<>>
  /\ \E c \in Rotations :
       /\ <<c>> # source /\ source' = <<c>>
       /\ child' = IF "backend" \in Altered /\ Exists("backend")
                   THEN [child EXCEPT !["backend"].val = <<c>>] ELSE child
  /\ UNCHANGED <<srv, cached, cmCache, dbUp, schema, pods, lb, passVars>>

LosePods ==
  /\ trouble < MaxTrouble /\ trouble' = trouble + 1
  /\ pods # NoPods /\ pods' = NoPods
  /\ UNCHANGED <<srv, cached, child, cmCache, source, dbUp, schema, lb, passVars>>

-------------------------------------------------------------------------------
Init ==
  /\ srv = Gone(0) /\ cached = Gone(0)
  /\ child = [k \in Kinds |-> None] /\ cmCache = None
  /\ source = <<>> /\ dbUp = FALSE /\ schema = FALSE /\ pods = NoPods /\ lb = FALSE
  /\ pc = "idle" /\ base = Gone(0) /\ todo = <<>> /\ hash = <<>> /\ next = NoStatus
  /\ trouble = 0

BeginPass == \/ BeginDelete \/ BeginAddFinalizer \/ BeginPending \/ BeginProvisioning
             \/ BeginSchema \/ BeginDeploying \/ BeginExposing \/ BeginReady

PassStep == \/ AddFinalizer \/ Release \/ WriteStatus \/ EnsureAPIKey \/ EnsureCluster
            \/ MaterialiseBackend \/ CnpgClusterReady \/ InitializeSchema
            \/ ComputeConfigHash \/ ConvergeChild \/ UpdateConfigMap \/ CheckAvailable
            \/ ExposeDNS \/ RefreshDNSEndpoint \/ RefreshReplicaStatus

Cluster == \/ CollectGarbage \/ PublishCredentials \/ DatabaseUp \/ RunJob
           \/ StartPods \/ StopPods \/ SetBalancer

Others == \/ CreateCR \/ EditSpec \/ DeleteCR \/ ClearPhase \/ Tamper
          \/ RotateCredentials \/ LosePods

Next == BeginPass \/ PassStep \/ Crash \/ Refresh \/ RefreshConfigMap \/ Cluster \/ Others

\* Reconcile is called again while the object exists and is not Failed: every
\* pass ends in a requeue, a retry or the 30 s Ready loop.  The cluster's own
\* controllers make progress; nothing is assumed of users and failures.
Fairness ==
  /\ WF_vars(BeginPass) /\ WF_vars(PassStep) /\ WF_vars(Refresh) /\ WF_vars(RefreshConfigMap)
  /\ WF_vars(CollectGarbage) /\ WF_vars(PublishCredentials) /\ WF_vars(DatabaseUp)
  /\ WF_vars(RunJob) /\ WF_vars(StartPods) /\ WF_vars(StopPods) /\ WF_vars(SetBalancer)

Spec == Init /\ [][Next]_vars /\ Fairness

-------------------------------------------------------------------------------
(* Properties *)

PCs == {"idle", "release", "finalizer", "status", "apikey", "cluster", "backend",
        "dbgate", "schema", "child", "available", "expose", "endpoint", "replicas"}

Statuses == [phase : Phases, key : {"", "own", "byo"},
             endpoint : {"", "cluster", "lb", "gateway"}, ready : BOOLEAN]

Objects == [up : BOOLEAN, uid : 0..MaxGen, gen : 0..MaxGen, deleting : BOOLEAN,
            fin : BOOLEAN, spec : Specs \cup {NoSpec}, status : Statuses]

\* The variables keep their types; a pass works on children exactly while it is
\* at "child" (ensureWorkload, reconcileRoutes and reconcileDrift).
TypeOK ==
  /\ srv \in Objects /\ cached \in Objects /\ base \in Objects /\ next \in Statuses
  /\ DOMAIN child = Kinds /\ \A k \in Kinds : child[k].owner \in 0..MaxGen
  /\ pc \in PCs /\ (pc = "child" <=> todo # <<>>)
  /\ source = <<>> \/ \E c \in Creds \cup Rotations : source = <<c>>
  /\ dbUp \in BOOLEAN /\ schema \in BOOLEAN /\ lb \in BOOLEAN
  /\ trouble \in 0..MaxTrouble

Mine(k) == srv.up /\ Exists(k) /\ child[k].owner = srv.uid

\* Server pods never meet an empty database: the Deployment of a server exists
\* only after its schema was applied, whatever passes, restarts and stale reads of
\* the server object came before (phaseInitializingSchema,
\* powerdnsserver_controller.go:252).  The Job is read as it is: a lagging copy of
\* a Job of an earlier server of the same name is not modelled.
SchemaBeforeServer == Mine("deployment") => schema

\* The schema Job of a managed database is created only once the database accepts
\* connections, so it does not use up its retries (issue #11,
\* powerdnsserver_controller.go:234).
JobAwaitsDatabase == Mine("job") /\ ~srv.spec.byoDB => dbUp

\* A server that is Ready is never put into the terminal Failed phase, by no pass
\* however old what it read (phaseReady, powerdnsserver_controller.go:640).
ReadyNeverFails ==
  [][srv.up /\ srv.status.phase = "Ready" => srv'.status.phase # "Failed"]_vars

Wanted == srv.up /\ ~srv.deleting /\ srv.status.phase # "Failed"

\* The pods run the current configuration and Secrets.
Current == /\ pods.conf = <<srv.spec.conf>> /\ pods.key = child["apikey"].val
           /\ pods.cred = child["backend"].val

\* The children the Ready loop keeps converged, all owned by this server.  Which
\* hash the Deployment carries shows in the pods it starts.
Converging == {"configmap", "deployment", "apiservice", "dnsservice", "additional",
               "tcproute", "udproute", "httproute"}

Matches ==
  /\ Exists("deployment") /\ Head(child["deployment"].val) = srv.spec.conf
  /\ \A k \in Converging \ {"deployment"} : child[k].val = Render(k, srv.spec, <<>>)
  /\ \A k \in Converging : Exists(k) => child[k].owner = srv.uid

\* A server that is not Failed becomes and stays Ready, with its address and
\* availability in status, whatever was lost or failed on the way
\* (the phase machine, powerdnsserver_controller.go:60).
EventuallyServing ==
  <>[](Wanted => /\ srv.status.phase = "Ready" /\ srv.status.ready
                 /\ srv.status.endpoint = LiveEndpoint(srv.spec))

\* An edit of the spec, of the Deployment, of the API-key Secret, or of the backend
\* Secret together with the database's password, ends in the children the spec asks
\* for and in pods started from exactly that configuration and those Secrets
\* (reconcileDrift and computeConfigHash, powerdnsserver_controller.go:668 and
\* 559).  Three changes are not delivered and have runs of their own: an edit that
\* is taken back while the ConfigMap informer lags (MCServerFlip), a Secret that is
\* deleted (MCServerKey), a password nobody writes to the backend Secret
\* (MCServerRotate).
EventuallyDelivered ==
  <>[](srv.up /\ ~srv.deleting /\ srv.status.phase = "Ready" => Current /\ Matches)

\* A deleted server goes, and nothing it created outlives it for ever, children
\* made by a pass that had not yet seen the deletion included (reconcileDelete and
\* SetControllerReference, powerdnsserver_controller.go:759 and 919).  The CNPG
\* Cluster goes too: ensureUnstructured sets the owner reference (line 936), as
\* docs/architecture.md:24 says, although its comment (line 931) denies it and
\* docs/configuration.md:271 has the database survive (DatabaseSurvives).
DeletionCompletes ==
  <>[](~srv.deleting /\ (~srv.up => \A k \in Kinds : ~Exists(k)))

\* A deleted API-key Secret comes back (docs/operations.md:60).
KeyRegenerated == <>[](srv.up /\ srv.status.phase = "Ready" => Exists("apikey"))

\* Rotated Postgres credentials reach the backend Secret (docs/operations.md:68).
CredentialsRepublished ==
  <>[](srv.up /\ srv.status.phase = "Ready" => child["backend"].val = source)

\* A Failed server whose spec was corrected is reconciled again
\* (docs/architecture.md:40).
FailedUntilEdited ==
  <>[](srv.up /\ ~srv.deleting /\ srv.spec.bad = "" => srv.status.phase # "Failed")

\* The Ready loop brings every owned manifest to the spec, the disruption budget
\* and the network policy included (docs/architecture.md:42).
ReadyLoopCoversAll ==
  <>[](srv.up /\ ~srv.deleting /\ srv.status.phase = "Ready" =>
         \A k \in {"pdb", "netpol"} : child[k].val = Render(k, srv.spec, <<>>))

\* A server that asks for a load balancer gets one: its DNS Service becomes the
\* LoadBalancer the spec asks for (docs/configuration.md:54).
ExposureFollowsSpec ==
  <>[](Wanted /\ srv.spec.expose = "lb" => child["dnsservice"].val = Render("dnsservice", srv.spec, <<>>))

\* The database outlives the server object (docs/configuration.md:271).
DatabaseSurvives == [][Exists("cluster") => Exists("cluster")']_vars

===============================================================================

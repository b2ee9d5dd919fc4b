--------------------------- MODULE ServerInvariants ---------------------------
(***************************************************************************)
(* Why a server's pods never meet an empty database, and why a Ready       *)
(* server is never failed: what is true of the server object, its copies   *)
(* and its children in every reachable state.                              *)
(***************************************************************************)
EXTENDS ServerController

\* The children a pass converges one after the other.
Steps == {"configmap", "hash", "deployment", "apiservice", "dnsservice", "additional",
          "pdb", "monitor", "netpol", "tcproute", "udproute", "httproute"}

\* TypeOK, and of a child that it is a content and an owner.
Typed ==
  /\ TypeOK /\ todo \in Seq(Steps)
  /\ \A k \in Kinds : DOMAIN child[k] = {"val", "owner"}

\* b is a or a later version of it: what holds within one incarnation.
Later(a, b) ==
  /\ a.gen <= b.gen
  /\ a.up /\ b.up => a.uid <= b.uid
  /\ a.up /\ b.up /\ a.uid = b.uid =>
       (a.deleting => b.deleting) /\ (a.fin => b.fin) /\ a.spec.byoDB = b.spec.byoDB

\* An incarnation is named after the spec version it starts with.
Incarnation(o) == o.uid <= o.gen /\ (o.up => o.uid > 0)

\* The cache is no newer than the object, what a pass read no newer than that.
Lags ==
  /\ Incarnation(srv) /\ Incarnation(cached) /\ Incarnation(base)
  /\ Later(cached, srv) /\ Later(base, srv) /\ (pc # "idle" => base.up)

\* A pass that releases the object read it deleting; the cache knows as well.
ReleaseSeen ==
  pc = "release" =>
    base.deleting /\ (srv.up /\ srv.uid = base.uid => cached.up /\ cached.uid = srv.uid /\ cached.deleting)

\* The passes that may write children.
Working == pc \notin {"idle", "release", "finalizer"}

\* The finalizer keeps the object in place while such a pass runs, and for as
\* long as the cache could start one.
FinalizerHolds ==
  /\ Working => base.fin /\ srv.up /\ srv.fin /\ srv.uid = base.uid
  /\ cached.up /\ cached.fin /\ ~cached.deleting => srv.up /\ srv.fin /\ srv.uid = cached.uid

\* What a pass at p may be moving the phase from and to.
Moves(p) ==
  CASE p = "apikey"                           -> {<<"", "ProvisioningBackend">>}
    [] p \in {"cluster", "backend", "dbgate"} -> {<<"ProvisioningBackend", "InitializingSchema">>}
    [] p = "schema"                           -> {<<"InitializingSchema", "DeployingServer">>}
    [] p = "available"                        -> {<<"DeployingServer", "ExposingDNS">>}
    [] p = "expose"                           -> {<<"ExposingDNS", "Ready">>}
    [] p \in {"endpoint", "replicas"}         -> {<<"Ready", "Ready">>}
    [] p = "child" -> {<<"DeployingServer", "ExposingDNS">>, <<"ExposingDNS", "Ready">>,
                       <<"Ready", "Ready">>}
    [] OTHER       -> {<<"", "Failed">>, <<"", "ProvisioningBackend">>,
                       <<"ProvisioningBackend", "InitializingSchema">>,
                       <<"InitializingSchema", "DeployingServer">>,
                       <<"DeployingServer", "ExposingDNS">>, <<"ExposingDNS", "Ready">>,
                       <<"ExposingDNS", "Failed">>}

PhaseMoves == Working => <<base.status.phase, next.phase>> \in Moves(pc)

\* What ReadyNeverFails rests on.
PhaseInv == Typed /\ Lags /\ ReleaseSeen /\ FinalizerHolds /\ PhaseMoves

\* While the object is there, its children are its own: no earlier incarnation
\* left one behind (unless Hasty).
OwnChildren == srv.up => \A k \in Kinds : Exists(k) => child[k].owner = srv.uid

AfterSchema  == {"DeployingServer", "ExposingDNS", "Ready"}
AfterBackend == AfterSchema \cup {"InitializingSchema"}

\* Object o, if it is of the current incarnation, is in phase ph only with the
\* database and the schema that phase presupposes.
Earned(o, ph) ==
  srv.up /\ o.up /\ o.uid = srv.uid =>
    (ph \in AfterSchema => schema) /\ (ph \in AfterBackend /\ ~o.spec.byoDB => dbUp)

\* The phase says how far the server got, in every copy of the object.
PhaseEarned ==
  /\ Earned(srv, srv.status.phase) /\ Earned(cached, cached.status.phase)
  /\ Earned(base, base.status.phase) /\ (pc = "status" => Earned(base, next.phase))
  /\ pc \in {"cluster", "dbgate"} => ~base.spec.byoDB

\* A Job that succeeded left the schema.
JobLeftSchema == srv.up /\ child["job"].val = <<"succeeded">> => schema

\* What SchemaBeforeServer and JobAwaitsDatabase rest on.
DatabaseInv ==
  /\ PhaseInv /\ OwnChildren /\ PhaseEarned /\ JobLeftSchema
  /\ SchemaBeforeServer /\ JobAwaitsDatabase

===============================================================================

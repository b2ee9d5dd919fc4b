------------------------------- MODULE Handover -------------------------------
(***************************************************************************)
(* A rollout of the operator itself (cmd/operator/main.go).                *)
(*                                                                         *)
(* main starts a manager without leader election, and the operator's       *)
(* Deployment keeps the default rolling update: the new process is started *)
(* before the old one gets its SIGTERM.  In between, both run all          *)
(* controllers, each on an informer cache of its own; the API server and   *)
(* PowerDNS are all they share.  This is the Zone controller twice.        *)
(***************************************************************************)
EXTENDS ZoneController

CONSTANT MaxOverlap  \* bound: passes the old process begins beside the new one

ASSUME HandoverAssumption == MaxOverlap \in Nat

VARIABLES
  procs,   \* the processes that are running
  overlap, \* passes the old process has begun since the new one started
  fresh,   \* history: Zones whose running pass the new process began alone
  checked, \* history: Zones whose status such a pass has written
  ocached, opc, ocur, obase, okeys, oactive, otodo   \* the old process's

oldVars      == <<ocached, opc, ocur, obase, okeys, oactive, otodo>>
checkVars    == <<fresh, checked>>
handoverVars == <<vars, oldVars, procs, overlap, checkVars>>

\* The Zone controller of the old process; ZoneController's own variables are
\* those of the new one.
Old == INSTANCE ZoneController WITH
         cached <- ocached, pc <- opc, cur <- ocur, base <- obase, keys <- okeys,
         active <- oactive, todo <- otodo

newOnly == <<cached, passVars>>

\* A Zone that the old process has reconciled, with the key ids ks.
Reconciliation(s, ks) ==
  LET o == WithSpec([Gone(0) EXCEPT !.fin = TRUE], s)
  IN [o EXCEPT !.status = Reconciled(o, ks)]

\* The rollout finds every Zone at rest: Ready, served, cached by the old process.
\* Zones that are deleted later may be created again.
HandoverInit ==
  /\ \E f \in [Zones -> {s \in Specs : ~InvalidSpec(s)}] :
       LET ks(z) == IF f[z].dnssec THEN {1} ELSE {}
       IN /\ zone = [z \in Zones |-> Reconciliation(f[z], ks(z))]
          /\ store = [n \in Names |->
                        IF \E z \in Zones : Name(z) = n
                        THEN LET z == CHOOSE y \in Zones : Name(y) = n
                             IN [up |-> TRUE, meta |-> f[z].meta, keys |-> ks(z), active |-> ks(z),
                                 soa |-> IF f[z].meta \in SecondaryMetas THEN "default" ELSE "seeded",
                                 rect |-> f[z].dnssec]
                        ELSE Absent]
          /\ lodged = [n \in Names |-> store[n].active]
  /\ server \in {v \in ServerViews : v.phase = "Ready" /\ v.key}
  /\ inflight = {} /\ minted = 1 /\ faults = 0 /\ foreign = 0 /\ disturbed = {} /\ left = {}
  /\ pc = "idle" /\ cur \in Zones /\ base = Gone(0) /\ keys = {} /\ active = {} /\ todo = NoStatus
  /\ cached = [z \in Zones |-> Gone(0)] /\ procs = {"old"} /\ overlap = 0
  /\ fresh = {} /\ checked = {}
  /\ ocached = zone /\ opc = pc /\ ocur = cur /\ obase = base /\ okeys = keys
  /\ oactive = active /\ otodo = todo

\* mgr.Start: workers start once the informers have listed all objects.
StartNew ==
  /\ procs = {"old"} /\ procs' = {"old", "new"}
  /\ cached' = zone
  /\ UNCHANGED <<zone, server, passVars, storeVars, faults, histVars, oldVars, overlap, checkVars>>

\* SetupSignalHandler: SIGTERM cancels the context, the running pass fails at
\* its next call.  What the process had cached is gone with it.
StopOld ==
  /\ procs = {"old", "new"} /\ procs' = {"new"}
  /\ Old!Finish /\ ocached' = [z \in Zones |-> Gone(0)]
  /\ UNCHANGED <<vars, overlap, checkVars>>

\* A status that is accepted from a pass the new process began alone counts.
NewSteps ==
  /\ "new" \in procs /\ PassStep
  /\ fresh' = IF pc' = "idle" THEN {} ELSE fresh
  /\ checked' = IF pc = "status" /\ Unmodified THEN checked \cup fresh ELSE checked
  /\ UNCHANGED <<oldVars, procs, overlap>>

NewBegins(z) ==
  /\ "new" \in procs /\ BeginPass(z)
  /\ fresh' = IF procs = {"new"} THEN {z} ELSE {}
  /\ UNCHANGED <<oldVars, procs, overlap, checked>>

OldSteps == "old" \in procs /\ Old!PassStep /\ UNCHANGED <<newOnly, procs, overlap, checkVars>>

OldBegins(z) ==
  /\ "old" \in procs /\ Old!BeginPass(z)
  /\ overlap' = IF "new" \in procs THEN overlap + 1 ELSE overlap
  /\ overlap' <= MaxOverlap
  /\ UNCHANGED <<newOnly, procs, checkVars>>

NewRefresh == "new" \in procs /\ Refresh /\ UNCHANGED <<oldVars, procs, overlap, checkVars>>

OldRefresh ==
  "old" \in procs /\ Old!Refresh /\ UNCHANGED <<newOnly, procs, overlap, checkVars>>

\* Users, and everyone else ZoneController knows of.
Others == Environment /\ UNCHANGED <<cached, oldVars, procs, overlap, checkVars>>

HandoverNext ==
  \/ StartNew \/ StopOld \/ NewSteps \/ OldSteps \/ NewRefresh \/ OldRefresh \/ Others
  \/ \E z \in Zones : NewBegins(z) \/ OldBegins(z)

HandoverSpec == HandoverInit /\ [][HandoverNext]_handoverVars

-------------------------------------------------------------------------------
(* Properties *)

\* A status computed from an older spec never replaces one computed from a newer
\* spec, although the two processes report from caches that lag independently
\* (Status().Update, zone_controller.go:155).
StatusNeverRegresses ==
  [][\A z \in Zones : zone'[z].up /\ zone[z].up => zone'[z].status.obs >= zone[z].status.obs]_handoverVars

\* The overlap can leave a Zone Ready that is not served: the old process updates
\* or deletes the zone from an older spec after the new one reported, or the new
\* one undoes from its younger cache what the old one reported.  None of this
\* outlasts the first status the new process writes from a pass it began alone:
\* reconcileZone compares PowerDNS with the spec on every pass, also on one for a
\* generation that was observed before (zone_controller.go:100-141).
TruthReturns ==
  \A z \in checked :
    ReadyNow(z) /\ (zone[z].deleting => zone[z].orphan) /\ Name(z) \notin disturbed => Served(z)

===============================================================================

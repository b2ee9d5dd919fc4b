---------------------------- MODULE ServiceConverge ----------------------------
(***************************************************************************)
(* updateService (internal/controller/converge.go): bring one Service to   *)
(* the rendered one without fighting the API server, which assigns node    *)
(* ports, and load balancer controllers, which add annotations.            *)
(***************************************************************************)
EXTENDS Naturals

CONSTANTS OwnKeys,     \* annotations a spec may set
          ForeignKeys, \* annotations the load balancer's controller sets
          Values,      \* values of the former
          Tries,       \* attempts of retry.RetryOnConflict
          MaxEdits,    \* bound: spec edits
          MaxDeletes   \* bound: deletions of the Service by others

ASSUME ServiceAssumption ==
  /\ OwnKeys \cap ForeignKeys = {} /\ "" \notin Values
  /\ Tries \in Nat \ {0} /\ MaxEdits \in Nat /\ MaxDeletes \in Nat

Keys == OwnKeys \cup ForeignKeys

VARIABLES
  svc,     \* the Service
  seen,    \* the informer's copy of it
  want,    \* what the spec renders to: type and annotations
  pc,      \* "idle" or "try"
  base,    \* the rendered Service of the running call
  copy,    \* the Service as the last Get of this attempt showed it
  tries,   \* attempts left
  ports,   \* node ports assigned so far; the API server hands out new ones
  edits, deletes

vars == <<svc, seen, want, pc, base, copy, tries, ports, edits, deletes>>

Nowhere == [up |-> FALSE, type |-> "ClusterIP", port |-> 0, ann |-> [k \in Keys |-> ""]]

Rendered == [type : {"ClusterIP", "LoadBalancer"}, ann : [OwnKeys -> Values \cup {""}]]

\* Mutant of Updated: the ports are replaced, assigned node ports included.
UpdatedDropsPorts(live, d) ==
  [live EXCEPT !.type = d.type, !.port = 0,
               !.ann = [k \in Keys |-> IF k \in OwnKeys /\ d.ann[k] # "" THEN d.ann[k]
                                       ELSE live.ann[k]]]

\* Mutant of Updated: the annotations are replaced wholesale.
UpdatedReplaces(live, d) ==
  [live EXCEPT !.type = d.type,
               !.port = IF d.type = "LoadBalancer" THEN live.port ELSE 0,
               !.ann = [k \in Keys |-> IF k \in OwnKeys THEN d.ann[k] ELSE ""]]

\* The live object with the rendered type, and with the rendered annotations put
\* over the ones it has; "" stands for an annotation that is not there.
Updated(live, d) ==
  [live EXCEPT !.type = d.type,
               !.port = IF d.type = "LoadBalancer" THEN live.port ELSE 0,
               !.ann = [k \in Keys |-> IF k \in OwnKeys /\ d.ann[k] # "" THEN d.ann[k]
                                       ELSE live.ann[k]]]

Created(d) == Updated([Nowhere EXCEPT !.up = TRUE], d)

\* The API server assigns a node port to a LoadBalancer that has none.
Admitted(s) == IF s.type = "LoadBalancer" /\ s.port = 0 THEN [s EXCEPT !.port = ports + 1] ELSE s

Store(s) == svc' = Admitted(s) /\ ports' = IF Admitted(s) = s THEN ports ELSE ports + 1

Finish == /\ pc' = "idle" /\ tries' = 0 /\ copy' = Nowhere
          /\ base' = [type |-> "ClusterIP", ann |-> [k \in OwnKeys |-> ""]]

Begin ==
  /\ pc = "idle"
  /\ pc' = "try" /\ base' = want /\ copy' = seen /\ tries' = Tries
  /\ UNCHANGED <<svc, seen, want, ports, edits, deletes>>

\* No Service in the cache: create it; the call fails if there is one after all.
Create ==
  /\ pc = "try" /\ ~copy.up
  /\ IF svc.up THEN UNCHANGED <<svc, ports>> ELSE Store(Created(base))
  /\ Finish /\ UNCHANGED <<seen, want, edits, deletes>>

\* Mutant of Skip: a Service that exists is left as it is.
SkipExisting ==
  /\ pc = "try" /\ copy.up
  /\ Finish /\ UNCHANGED <<svc, seen, want, ports, edits, deletes>>

Skip ==
  /\ pc = "try" /\ copy.up /\ Updated(copy, base) = copy
  /\ Finish /\ UNCHANGED <<svc, seen, want, ports, edits, deletes>>

Update ==
  /\ pc = "try" /\ copy.up /\ Updated(copy, base) # copy /\ copy = svc
  /\ Store(Updated(copy, base))
  /\ Finish /\ UNCHANGED <<seen, want, edits, deletes>>

\* A conflict is retried from a new Get; a deleted Service is another error.
Conflict ==
  /\ pc = "try" /\ copy.up /\ Updated(copy, base) # copy /\ copy # svc
  /\ IF svc.up /\ tries > 1
     THEN tries' = tries - 1 /\ copy' = seen /\ UNCHANGED <<pc, base>>
     ELSE Finish
  /\ UNCHANGED <<svc, seen, want, ports, edits, deletes>>

Refresh == /\ seen # svc /\ seen' = svc
           /\ UNCHANGED <<svc, want, pc, base, copy, tries, ports, edits, deletes>>

\* The load balancer's controller marks a LoadBalancer it serves.
Annotate ==
  /\ svc.up /\ svc.type = "LoadBalancer"
  /\ \E k \in ForeignKeys : svc.ann[k] = "" /\ svc' = [svc EXCEPT !.ann[k] = "set"]
  /\ UNCHANGED <<seen, want, pc, base, copy, tries, ports, edits, deletes>>

EditSpec ==
  /\ edits < MaxEdits /\ edits' = edits + 1 /\ want' \in Rendered
  /\ UNCHANGED <<svc, seen, pc, base, copy, tries, ports, deletes>>

DeleteService ==
  /\ svc.up /\ deletes < MaxDeletes /\ deletes' = deletes + 1 /\ svc' = Nowhere
  /\ UNCHANGED <<seen, want, pc, base, copy, tries, ports, edits>>

Init ==
  /\ svc = Nowhere /\ seen = Nowhere /\ want \in Rendered /\ pc = "idle"
  /\ base = [type |-> "ClusterIP", ann |-> [k \in OwnKeys |-> ""]]
  /\ copy = Nowhere /\ tries = 0 /\ ports = 0 /\ edits = 0 /\ deletes = 0

Attempt == Create \/ Skip \/ Update \/ Conflict

Next == Begin \/ Attempt \/ Refresh \/ Annotate \/ EditSpec \/ DeleteService

\* updateService is called on every pass; the other controller keeps at it.
Spec == /\ Init /\ [][Next]_vars
        /\ WF_vars(Begin) /\ WF_vars(Attempt) /\ WF_vars(Refresh) /\ WF_vars(Annotate)

-------------------------------------------------------------------------------
\* A write by updateService takes nothing from the Service that others put there:
\* the annotations of other controllers and the node port of a Service that stays
\* a LoadBalancer survive it, even one decided on an old copy (converge.go:24).
ForeignStateKept ==
  [][svc.up /\ svc'.up =>
       /\ \A k \in ForeignKeys : svc.ann[k] # "" => svc'.ann[k] = svc.ann[k]
       /\ svc.type = "LoadBalancer" /\ svc'.type = "LoadBalancer" => svc'.port = svc.port]_vars

\* Once the spec stops changing the Service stops changing: the operator and the
\* other controllers do not undo each other for ever (converge.go:26).
Quiescent == <>[][svc' = svc]_vars

\* The Service ends up with the rendered type and every rendered annotation, stale
\* copies, conflicts and deletions notwithstanding (converge.go:32).
EventuallyConverged ==
  <>[](svc.up /\ svc.type = want.type
       /\ \A k \in OwnKeys : want.ann[k] # "" => svc.ann[k] = want.ann[k])

===============================================================================

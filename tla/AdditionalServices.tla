-------------------------- MODULE AdditionalServices --------------------------
(***************************************************************************)
(* The additional LoadBalancer Services of a PowerDNSServer and of a       *)
(* DNSDist in one namespace: reconcileAdditionalDNSServices                *)
(* (powerdnsserver_controller.go) and reconcileDNSDistAdditionalServices   *)
(* (dnsdist_controller.go).  Each controller writes the Services its spec  *)
(* lists, then lists Services by label and deletes the ones it did not     *)
(* just write.  The two run concurrently, each on the spec it read, and    *)
(* read Services from a cache that lags.                                   *)
(***************************************************************************)
EXTENDS Naturals, FiniteSets

CONSTANTS Suffixes,    \* spec.dns.loadBalancer.additionalServices[].nameSuffix
          MaxEdits     \* bound: spec edits and failed calls

ASSUME AdditionalAssumption == MaxEdits \in Nat

Owners == {"server", "dnsdist"}

VARIABLES
  shared,    \* the two resources have the same metadata.name
  want,      \* the suffixes each spec lists
  services,  \* the Services that exist, as <<owner, suffix>>
  seen,      \* the informer's copy of them
  pc,        \* where each controller is
  base,      \* the suffixes its pass read from the spec
  todo,      \* suffixes it has still to write, or Services it has still to delete
  edits

vars == <<shared, want, services, seen, pc, base, todo, edits>>

\* The Services of o with the suffixes of S.
Listed(o, S) == {<<o, x>> : x \in S}

\* Mutant of Selected: no collection compares the app name.
SelectedByInstance(o) == IF shared THEN seen ELSE {s \in seen : s[1] = o}

\* The Services the garbage collection of o lists.  Both select on managed-by,
\* instance (metadata.name) and role; only DNSDist also selects on the app name.
Selected(o) ==
  IF o = "server" /\ shared THEN seen ELSE {s \in seen : s[1] = o}

Begin(o) ==
  /\ pc[o] = "idle"
  /\ base' = [base EXCEPT ![o] = want[o]]
  /\ todo' = [todo EXCEPT ![o] = Listed(o, want[o])]
  /\ pc' = [pc EXCEPT ![o] = "write"]
  /\ UNCHANGED <<shared, want, services, seen, edits>>

\* updateService creates a Service it does not see and leaves one it sees as it
\* is; the create of a Service that exists after all is refused (see End).
Write(o) ==
  /\ pc[o] = "write"
  /\ \E s \in todo[o] :
       /\ \/ s \in seen /\ UNCHANGED services
          \/ s \notin seen \cup services /\ services' = services \cup {s}
       /\ todo' = [todo EXCEPT ![o] = @ \ {s}]
  /\ UNCHANGED <<shared, want, seen, pc, base, edits>>

\* Mutant of List: the Services just written are not kept.
ListKeepsNothing(o) ==
  /\ pc[o] = "write" /\ todo[o] = {}
  /\ todo' = [todo EXCEPT ![o] = Selected(o)]
  /\ pc' = [pc EXCEPT ![o] = "gc"]
  /\ UNCHANGED <<shared, want, services, seen, base, edits>>

\* Mutant of List: there is no garbage collection.
ListNothing(o) ==
  /\ pc[o] = "write" /\ todo[o] = {}
  /\ pc' = [pc EXCEPT ![o] = "gc"]
  /\ UNCHANGED <<shared, want, services, seen, base, todo, edits>>

List(o) ==
  /\ pc[o] = "write" /\ todo[o] = {}
  /\ todo' = [todo EXCEPT ![o] = Selected(o) \ Listed(o, base[o])]
  /\ pc' = [pc EXCEPT ![o] = "gc"]
  /\ UNCHANGED <<shared, want, services, seen, base, edits>>

\* A Service that is already gone is skipped.
Delete(o) ==
  /\ pc[o] = "gc"
  /\ \E s \in todo[o] : /\ services' = services \ {s}
                        /\ todo' = [todo EXCEPT ![o] = @ \ {s}]
  /\ UNCHANGED <<shared, want, seen, pc, base, edits>>

\* A pass also ends when a create is refused or another call fails; the next one
\* starts over.
End(o) ==
  /\ pc[o] # "idle" /\ pc' = [pc EXCEPT ![o] = "idle"]
  /\ \/ pc[o] = "gc" /\ todo[o] = {} /\ UNCHANGED edits
     \/ pc[o] = "write" /\ todo[o] \cap (services \ seen) # {} /\ UNCHANGED edits
     \/ edits < MaxEdits /\ edits' = edits + 1
  /\ todo' = [todo EXCEPT ![o] = {}] /\ base' = [base EXCEPT ![o] = {}]
  /\ UNCHANGED <<shared, want, services, seen>>

Refresh ==
  /\ seen' = services
  /\ UNCHANGED <<shared, want, services, pc, base, todo, edits>>

EditSpec ==
  /\ edits < MaxEdits /\ edits' = edits + 1
  /\ \E o \in Owners, S \in SUBSET Suffixes : want' = [want EXCEPT ![o] = S]
  /\ UNCHANGED <<shared, services, seen, pc, base, todo>>

Init ==
  /\ shared \in BOOLEAN
  /\ want \in [Owners -> SUBSET Suffixes] /\ services = {} /\ seen = {}
  /\ pc = [o \in Owners |-> "idle"] /\ base = [o \in Owners |-> {}]
  /\ todo = [o \in Owners |-> {}] /\ edits = 0

Step(o) == Begin(o) \/ Write(o) \/ List(o) \/ Delete(o) \/ End(o)

Next == EditSpec \/ Refresh \/ \E o \in Owners : Step(o)

\* Both controllers requeue every 30 s and run to the end of a pass; the informer
\* catches up.
Spec ==
  Init /\ [][Next]_vars /\ WF_vars(Refresh) /\ \A o \in Owners : WF_vars(Step(o))

-------------------------------------------------------------------------------
\* The variables keep their types; a pass only ever deletes what it did not write
\* itself (powerdnsserver_controller.go:426).
TypeOK ==
  /\ shared \in BOOLEAN
  /\ want \in [Owners -> SUBSET Suffixes] /\ base \in [Owners -> SUBSET Suffixes]
  /\ services \subseteq Owners \X Suffixes /\ seen \subseteq Owners \X Suffixes
  /\ pc \in [Owners -> {"idle", "write", "gc"}]
  /\ \A o \in Owners : pc[o] = "gc" => todo[o] \cap Listed(o, base[o]) = {}
  /\ edits \in 0..MaxEdits

\* s disappears only in the garbage collection of its own resource, and only when
\* the spec that pass read does not list it.
Released(s) == s \in services \ services' => pc[s[1]] = "gc" /\ s[2] \notin base[s[1]]

\* Garbage collection of one resource never removes a Service of the other: the
\* app name label is there so that the two "can't clobber each other when
\* metadata.name is shared" (dnsdist_controller.go:237).  The code does not keep
\* this: the server's selector lacks the label (powerdnsserver_controller.go:417).
OthersSpared == [][\A s \in Owners \X Suffixes : Released(s)]_vars

\* The half of that promise the code keeps with a shared name too: because the
\* tier's collection compares the app name, the Services of the server go only by
\* the server's own collection (dnsdist_controller.go:262).
ServerSpared == [][\A x \in Suffixes : Released(<<"server", x>>)]_vars

\* Once the specs stop changing, exactly the Services they list exist and keep
\* existing, though each pass reads a cache from before the last writes and
\* deletes (powerdnsserver_controller.go:395, dnsdist_controller.go:239).  With a
\* shared name this holds of the server's Services only; those of the tier are
\* deleted by the server, and all the code guarantees is that each comes back.
EventuallyExact ==
  /\ <>[](\A o \in Owners : o = "server" \/ ~shared =>
             services \cap ({o} \X Suffixes) = Listed(o, want[o]))
  /\ \A x \in Suffixes :
       <>[](x \in want["dnsdist"]) => []<>(<<"dnsdist", x>> \in services)

===============================================================================

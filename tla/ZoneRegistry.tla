----------------------------- MODULE ZoneRegistry -----------------------------
(***************************************************************************)
(* What the operator promises about the zones of a PowerDNS server, with   *)
(* no passes, caches, calls or faults: a zone is created and removed only  *)
(* under a claim, and the claim ends only when the zone is gone.  Nothing  *)
(* is promised of a name that somebody else has touched, or that was left  *)
(* behind on purpose, until its zone is gone again.                        *)
(***************************************************************************)
CONSTANT Names

VARIABLES
  held,     \* names of the zones PowerDNS has
  owned,    \* names claimed by a Zone resource
  excused   \* names of which nothing is promised

registry == <<held, owned, excused>>

Init == held = {} /\ owned = {} /\ excused = {}

Claim(n) == owned' = owned \cup {n} /\ UNCHANGED <<held, excused>>

Create(n) == n \in owned /\ held' = held \cup {n} /\ UNCHANGED <<owned, excused>>

Remove(n) == n \in owned \cup excused /\ held' = held \ {n} /\ UNCHANGED <<owned, excused>>

\* A claim ends.  Another Zone resource may still claim the name.
Release(n) ==
  /\ n \notin held
  /\ owned' \in {owned, owned \ {n}} /\ excused' \in {excused, excused \ {n}}
  /\ UNCHANGED held

\* A claim ends and the zone stays (deletionPolicy Orphan, a server that is lost).
Leave(n) ==
  /\ owned' \in {owned, owned \ {n}} /\ excused' = excused \cup {n}
  /\ UNCHANGED held

\* Others, or a request that lands late, change the zone.
Intervene(n) ==
  /\ held' \in {held, held \cup {n}, held \ {n}} /\ excused' = excused \cup {n}
  /\ UNCHANGED owned

Next ==
  \E n \in Names :
    Claim(n) \/ Create(n) \/ Remove(n) \/ Release(n) \/ Leave(n) \/ Intervene(n)

Spec == Init /\ [][Next]_registry

===============================================================================

------------------------------- MODULE MCServer -------------------------------
(* Instances of ServerController for TLC. *)
EXTENDS ServerInvariants

Plain == [conf |-> "c1", expose |-> "none", extras |-> "", budget |-> "",
          byoKey |-> FALSE, byoDB |-> FALSE, bad |-> ""]

\* A server and an edit that changes everything the Ready loop converges.
Balanced == [Plain EXCEPT !.conf = "c2", !.expose = "lb"]
TwoConfs == {Plain, Balanced}

\* A server behind a load balancer and, on a database of its own, one behind a
\* gateway, which may change its configuration and its optional children.
Gateway == [Plain EXCEPT !.expose = "gateway", !.extras = "x1", !.budget = "b1", !.byoDB = TRUE]
Exposed == {Balanced, Gateway, [Gateway EXCEPT !.conf = "c2", !.extras = "", !.budget = ""]}

\* Specs that validateSpec rejects beside one it accepts.
NoParents == [Plain EXCEPT !.expose = "gateway", !.bad = "parents"]
Rejected  == {Plain, NoParents, [Plain EXCEPT !.bad = "other"]}
Corrected == {Plain, [Plain EXCEPT !.bad = "other"]}

OwnKey      == {[Plain EXCEPT !.byoKey = TRUE]}
Budgets     == {[Plain EXCEPT !.budget = "b1"], [Plain EXCEPT !.budget = "b2"]}
OneOwnDB    == {[Plain EXCEPT !.byoDB = TRUE]}
OneSpec     == {Plain}
Flip        == {Plain, [Plain EXCEPT !.conf = "c2"]}

===============================================================================

------------------------------- MODULE MCDNSDist -------------------------------
(* Instances of DNSDistController for TLC. *)
EXTENDS DNSDistInvariants

Plain  == [conf |-> "c1", expose |-> "none", replicas |-> 1, minAvailable |-> 0,
           tls |-> FALSE, bad |-> FALSE]

\* Both scale, one with the default budget; the last asks for no room at all.
Secure == [Plain EXCEPT !.conf = "c2", !.expose = "lb", !.replicas = 3, !.minAvailable = 1,
                        !.tls = TRUE]
Routed == [Plain EXCEPT !.expose = "gateway", !.replicas = 2]
NoRoom == [Plain EXCEPT !.replicas = 2, !.minAvailable = 2]

AllSpecs == {Secure, Routed, NoRoom}
JustPlain == {Plain}

===============================================================================

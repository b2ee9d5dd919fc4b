--------------------------- MODULE DNSDistInvariants --------------------------
(***************************************************************************)
(* Why a dnsdist tier that says Ready has the children of its current      *)
(* spec: what is true of the tier, its copies and its children in every    *)
(* reachable state.                                                        *)
(***************************************************************************)
EXTENDS DNSDistController

\* TypeOK, and what it leaves open of the pass and of a child.
Typed ==
  /\ TypeOK /\ refs \subseteq Backends /\ DOMAIN addrs = Backends
  /\ todo \in Seq(Kinds \cup {"hash"})
  /\ \A k \in Kinds : DOMAIN child[k] = {"val", "owner"}
  /\ pc = "resolve" => \A b \in Backends \ refs : addrs[b] # 0
  /\ pc = "status" => next \in {"Pending", "Failed", "Ready"}

\* b is a or a later version of it: a spec has its own generation, and an object
\* that goes keeps the last one.
Later(a, b) ==
  /\ a.gen <= b.gen
  /\ b.up => (a.gen = b.gen => a.up /\ a.spec = b.spec)

\* What a pass read is no newer than the cache, the cache no newer than the tier.
Lags ==
  /\ Later(cached, tier) /\ Later(base, cached) /\ Later(base, tier) /\ (pc # "idle" => base.up)
  /\ (tier.up => tier.gen > 0) /\ (cached.up => cached.gen > 0)
  /\ tier.status.obs <= tier.gen

\* The tier reports its current generation as Ready.
Reported == tier.up /\ tier.status.phase = "Ready" /\ tier.status.obs = tier.gen

\* Then the cache has seen that generation, and no pass works on an older one.
ObservedWasCached == Reported => cached.gen = tier.gen /\ (pc # "idle" => base.gen = tier.gen)

\* Content v of child k, if there is one, is of spec sp.
Rendered(k, v, sp) ==
  v # <<>> => CASE k = "configmap"  -> v[1] = sp.conf
                [] k = "deployment" -> v[1] = sp.conf /\ v[3] = sp.replicas
                [] OTHER            -> v = Render(k, sp, NoAddrs, <<>>)

\* The pass reports Ready once it has done all children.
Complete == pc = "status" /\ next = "Ready"

\* A pass works on a valid spec, and the children it is done with are of that spec.
Progress ==
  /\ pc \in {"resolve", "child"} \/ Complete => validateDNSDist(base.spec)
  /\ pc = "child" \/ Complete =>
       \A k \in Kinds : \/ Rendered(k, child[k].val, base.spec)
                        \/ \E i \in 1..Len(todo) : todo[i] = k

ReportedIsRendered ==
  Reported => /\ validateDNSDist(tier.spec)
              /\ \A k \in Kinds : Rendered(k, child[k].val, tier.spec)

\* What ReadyMeansRendered rests on.
RenderInv == Typed /\ Lags /\ ObservedWasCached /\ Progress /\ ReportedIsRendered

===============================================================================

--------------------------- MODULE AdditionalProofs ---------------------------
(***************************************************************************)
(* For any suffixes and any edits: a pass never collects what it has just  *)
(* written, and the Services of the server go only by its own collection,  *)
(* whether or not the dnsdist tier has the server's name.                  *)
(***************************************************************************)
EXTENDS AdditionalServices, TLAPS

\* TypeOK, and of the Services a pass has still to write or to delete that they
\* are Services.
Typed == TypeOK /\ todo \in [Owners -> SUBSET (Owners \X Suffixes)]

LEMMA ListedTyped ==
  ASSUME NEW o \in Owners, NEW S \in SUBSET Suffixes
  PROVE  Listed(o, S) \in SUBSET (Owners \X Suffixes)
BY DEF Listed

LEMMA InitTyped == Init => Typed
BY AdditionalAssumption DEF Init, Typed, TypeOK, Owners

LEMMA TypedStep ==
  ASSUME Typed, [Next]_vars
  PROVE  Typed'
<1> USE AdditionalAssumption
<1>1. CASE EditSpec
  BY <1>1 DEF EditSpec, Typed, TypeOK
<1>2. ASSUME NEW o \in Owners, Begin(o)
      PROVE  Typed'
  <2>1. Listed(o, want[o]) \in SUBSET (Owners \X Suffixes)
    BY ListedTyped DEF Typed, TypeOK
  <2> QED BY <1>2, <2>1 DEF Begin, Typed, TypeOK
<1>3. ASSUME NEW o \in Owners, Write(o)
      PROVE  Typed'
  BY <1>3 DEF Write, Typed, TypeOK
<1>4. ASSUME NEW o \in Owners, List(o)
      PROVE  Typed'
  <2>1. PICK doomed : doomed = Selected(o) \ Listed(o, base[o])
    OBVIOUS
  <2>2. doomed \subseteq Owners \X Suffixes /\ doomed \cap Listed(o, base[o]) = {}
    BY <2>1 DEF Selected, Typed, TypeOK
  <2>3. /\ todo' = [todo EXCEPT ![o] = doomed] /\ pc' = [pc EXCEPT ![o] = "gc"]
        /\ UNCHANGED <<shared, want, services, seen, base, edits>>
    BY <1>4, <2>1 DEF List
  <2> QED BY <2>2, <2>3 DEF Typed, TypeOK
<1>5. ASSUME NEW o \in Owners, Delete(o)
      PROVE  Typed'
  BY <1>5 DEF Delete, Typed, TypeOK
<1>6. ASSUME NEW o \in Owners, End(o)
      PROVE  Typed'
  BY <1>6 DEF End, Typed, TypeOK
<1>7. CASE Refresh \/ UNCHANGED vars
  BY <1>7 DEF Refresh, vars, Typed, TypeOK
<1> QED BY <1>1, <1>2, <1>3, <1>4, <1>5, <1>6, <1>7 DEF Next, Step

\* The variables keep their types, and no pass is ever about to delete a Service
\* it wrote itself, shared name or not (powerdnsserver_controller.go:426).
THEOREM WrittenKept == Spec => []TypeOK
<1>1. Typed => TypeOK
  BY DEF Typed
<1>2. Typed /\ [Next]_vars => Typed'
  BY TypedStep
<1> QED BY <1>1, <1>2, InitTyped, PTL DEF Spec

-------------------------------------------------------------------------------
\* The tier's collection holds no Service of the server: what it lists carries the
\* app name dnsdist.  With a shared name the server's may hold anything but what
\* the spec it read lists, which Typed says.
TierHoldsOwn == Typed /\ (pc["dnsdist"] = "gc" => \A s \in todo["dnsdist"] : s[1] = "dnsdist")

LEMMA InitTier == Init => TierHoldsOwn
BY InitTyped DEF Init, TierHoldsOwn, Owners

LEMMA TierStep ==
  ASSUME TierHoldsOwn, [Next]_vars
  PROVE  TierHoldsOwn'
<1> DEFINE t == "dnsdist"
<1>1. Typed'
  BY TypedStep DEF TierHoldsOwn
<1>2. t \in Owners /\ pc \in [Owners -> {"idle", "write", "gc"}]
      /\ todo \in [Owners -> SUBSET (Owners \X Suffixes)]
  BY DEF TierHoldsOwn, Typed, TypeOK, Owners
<1>3. CASE List(t)
  <2>1. todo'[t] \subseteq Selected(t)
    BY <1>2, <1>3 DEF List
  <2> QED BY <1>1, <2>1 DEF Selected, TierHoldsOwn
<1>4. CASE Delete(t)
  BY <1>1, <1>2, <1>4 DEF Delete, TierHoldsOwn
<1>5. CASE Begin(t) \/ Write(t) \/ End(t)
  <2>1. pc'[t] # "gc"
    BY <1>2, <1>5 DEF Begin, Write, End
  <2> QED BY <1>1, <2>1 DEF TierHoldsOwn
<1>6. CASE Step("server")
  <2>1. pc'[t] = pc[t] /\ todo'[t] = todo[t]
    BY <1>2, <1>6 DEF Step, Begin, Write, List, Delete, End
  <2> QED BY <1>1, <2>1 DEF TierHoldsOwn
<1>7. CASE EditSpec \/ Refresh \/ UNCHANGED vars
  BY <1>1, <1>7 DEF EditSpec, Refresh, vars, TierHoldsOwn
<1> QED BY <1>3, <1>4, <1>5, <1>6, <1>7 DEF Next, Step, Owners

LEMMA SparedStep ==
  ASSUME TierHoldsOwn, [Next]_vars, NEW x \in Suffixes
  PROVE  Released(<<"server", x>>)
<1> DEFINE s == <<"server", x>>
<1> SUFFICES ASSUME s \in services, s \notin services'
             PROVE  pc["server"] = "gc" /\ x \notin base["server"]
  BY DEF Released
<1>1. PICK o \in Owners : Delete(o)
  BY DEF Next, Step, EditSpec, Refresh, Begin, Write, List, End, vars
<1>2. pc[o] = "gc" /\ s \in todo[o]
  BY <1>1 DEF Delete
<1>3. o = "server"
  BY <1>2 DEF TierHoldsOwn, Owners
<1>4. s \notin Listed("server", base["server"])
  BY <1>2, <1>3 DEF TierHoldsOwn, Typed, TypeOK, Owners
<1> QED BY <1>2, <1>3, <1>4 DEF Listed

\* Whether or not the tier has the server's name, no Service of the server is
\* removed except by the server's own collection, when the spec it read does not
\* list it: the half that holds of "can't clobber each other when metadata.name is
\* shared" (dnsdist_controller.go:235-238).
THEOREM Spared == Spec => ServerSpared
<1>1. TierHoldsOwn /\ [Next]_vars => TierHoldsOwn'
  BY TierStep
<1>2. TierHoldsOwn /\ [Next]_vars => [\A x \in Suffixes : Released(<<"server", x>>)]_vars
  BY SparedStep
<1> QED BY <1>1, <1>2, InitTier, PTL DEF Spec, ServerSpared

===============================================================================

------------------------------ MODULE PdnsClient ------------------------------
(***************************************************************************)
(* One call of the operator's PowerDNS HTTP client (internal/pdnsclient).  *)
(*                                                                         *)
(* The client has a 10 s timeout and no idempotency token, so a call that  *)
(* returns an error may nevertheless take effect on the server.  A call    *)
(* has one of four outcomes:                                               *)
(*                                                                         *)
(*   "done"  the server executed it and the client saw the answer;         *)
(*   "err"   nothing was executed and the client saw an error (connection  *)
(*           refused, a 5xx answer, a request that never arrived);         *)
(*   "lost"  it was executed but the client timed out waiting;             *)
(*   "late"  the client timed out first and the server executes the call   *)
(*           at some later time (the "zombie write" of client.go:31).      *)
(*                                                                         *)
(* The last three are faults.  A behaviour has at most MaxFaults of them,  *)
(* of the kinds in Faults; "crash" in Faults lets the operator process     *)
(* stop between two calls.                                                 *)
(***************************************************************************)
EXTENDS Naturals

CONSTANTS Faults,     \* the kinds of fault that may happen
          MaxFaults   \* how many of them a behaviour contains at most

FaultKinds == {"err", "lost", "late", "crash"}

ASSUME FaultAssumption == Faults \subseteq FaultKinds /\ MaxFaults \in Nat

\* What a caller distinguishes: success, ErrNotFound (a 404), ErrAlreadyExists
\* (a 409 or a leaked duplicate-key 500), and every other error.
Answers == {"ok", "notfound", "exists", "failed"}

\* The outcomes a write may have when f faults have already happened.
Outcomes(f) ==
  {"done"} \cup (IF f < MaxFaults THEN Faults \cap {"err", "lost", "late"} ELSE {})

\* A read has no effect that could be lost or late: it works or it fails.
ReadOutcomes(f) ==
  {"done"} \cup (IF f < MaxFaults THEN Faults \cap {"err"} ELSE {})

\* The call takes effect before the caller continues.
TakesEffect(o) == o \in {"done", "lost"}

\* What the caller may see, given the answer the server would have given.  Any
\* call may fail with a conflict (client.go:141), not only the ones that create.
Seen(o, reply) ==
  CASE o = "done" -> {reply}
    [] o = "err"  -> {"failed", "exists"}
    [] OTHER      -> {"failed"}

\* Faults used up after a call with outcome o.
Charge(f, o) == IF o = "done" THEN f ELSE f + 1

===============================================================================

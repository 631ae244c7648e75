---------------------------- MODULE FencedEffects ----------------------------
(***************************************************************************)
(* What the runtime boundary promises of physical effects, whoever asks    *)
(* and whatever crashes: a request claims a scope that no other request    *)
(* ever claims, acts at most once, and gets at most one outcome.  Once a   *)
(* known outcome is recorded it no longer acts.  For the scopes whose      *)
(* effect can be told exactly, a recorded failure means that it did not    *)
(* act, and an observed effect that it did.  UNKNOWN may be recorded of    *)
(* any requests at once, and the act may still follow.                     *)
(***************************************************************************)
EXTENDS Naturals

CONSTANTS
  Ids,  \* requests
  Exact \* the scopes whose effect is the request's own

VARIABLES
  claim,  \* per request: no scope, or the one it claimed
  acts,   \* how often it acted
  outcome \* what was recorded of it

vars == <<claim, acts, outcome>>

Init ==
  /\ claim = [i \in Ids |-> {}]
  /\ acts = [i \in Ids |-> 0]
  /\ outcome = [i \in Ids |-> "none"]

\* A scope of any kind, claimed by none so far.
Claim(i) ==
  /\ claim[i] = {}
  /\ \E scope \in claim'[i] :
       /\ \A o \in Ids : scope \notin claim[o]
       /\ claim' = [claim EXCEPT ![i] = {scope}]
  /\ UNCHANGED <<acts, outcome>>

Act(i) ==
  /\ claim[i] # {} /\ acts[i] = 0 /\ outcome[i] \in {"none", "unknown"}
  /\ acts' = [acts EXCEPT ![i] = 1]
  /\ UNCHANGED <<claim, outcome>>

Record(some, result) ==
  /\ \A i \in some :
       /\ claim[i] # {} /\ outcome[i] = "none"
       /\ claim[i] \subseteq Exact =>
            /\ result = "failed" => acts[i] = 0
            /\ result = "observed" => acts[i] = 1
  /\ outcome' = [i \in Ids |-> IF i \in some THEN result ELSE outcome[i]]
  /\ UNCHANGED <<claim, acts>>

Next ==
  \/ \E i \in Ids : Claim(i) \/ Act(i)
  \/ \E some \in SUBSET Ids, result \in {"observed", "failed", "unknown"} :
       Record(some, result)

Spec == Init /\ [][Next]_vars
=============================================================================

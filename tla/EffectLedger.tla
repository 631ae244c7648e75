---------------------------- MODULE EffectLedger ----------------------------
(***************************************************************************)
(* The durable side of the runtime boundary: the SQLite effect ledger of   *)
(* src/runtime_boundary/ledger.py.  Every operation below but the backfill *)
(* is one ledger method, that is one BEGIN IMMEDIATE ... COMMIT            *)
(* transaction, and so one atomic step whoever calls it.  The backfill     *)
(* reads the requests once and updates their fences one by one, each in a  *)
(* transaction of its own; BackfillFences says why one step stands for it. *)
(*                                                                         *)
(* A request row and its fence row are inserted by the same transaction    *)
(* (accept) and never deleted, and owner_request_id is UNIQUE, so both     *)
(* tables are functions of the request id.  effect_boundary_reached and    *)
(* physical_attempt_count are always written together; attempts stands for *)
(* both.  The rows of the pre-migration table effect_requests are not      *)
(* modelled: nothing inserts into it any more.  Nor are the resolutions    *)
(* NO_EFFECT_PROVEN and REMAINS_UNKNOWN of record_reconciliation: the      *)
(* executor's socket refuses them and no service calls them.               *)
(***************************************************************************)
EXTENDS Naturals

CONSTANTS
  Ids,        \* request ids (every client uses its request id as idempotency key)
  Producers,  \* effect producers, one of which holds the authority
  NoBody      \* the body of a request id that has no row

VARIABLES
  authority,   \* runtime_authority.producer_id with its generation
  reqState,    \* typed_effect_requests.state, "ABSENT" when there is no row
  reqBody,     \* the canonical request whose digest the row keeps
  fence,       \* effect_scope_fences.state of the fence the request owns
  attempts,    \* effect_scope_fences.physical_attempt_count
  conclusions, \* effect_reconciliations: reconciliation ids already appended
  retirements  \* effect_scope_retirements: scopes (by owner) already retired

ledgerVars ==
  <<authority, reqState, reqBody, fence, attempts, conclusions, retirements>>

RequestStates ==
  {"ABSENT", "ACCEPTED", "EXECUTION_STARTED", "EFFECT_OBSERVED",
   "EFFECT_FAILED", "OUTCOME_UNKNOWN"}

\* The fence states that block the admission of every other scope.
UnresolvedFence ==
  {"ACCEPTED", "EXECUTION_STARTED", "EFFECT_BOUNDARY_REACHED",
   "OUTCOME_UNKNOWN", "EFFECT_OBSERVED_AWAITING_VERIFICATION"}

\* The fence states an appended conclusion leads to.
ConcludedFence ==
  {"RECONCILED_EFFECT_OBSERVED", "RETIRED_TARGET_OUTCOME_UNKNOWN"}

FenceStates ==
  UnresolvedFence \cup ConcludedFence
    \cup {"ABSENT", "EFFECT_OBSERVED", "EFFECT_FAILED"}

LedgerInit ==
  /\ authority \in Producers
  /\ reqState = [i \in Ids |-> "ABSENT"]
  /\ reqBody = [i \in Ids |-> NoBody]
  /\ fence = [i \in Ids |-> "ABSENT"]
  /\ attempts = [i \in Ids |-> 0]
  /\ conclusions = {}
  /\ retirements = {}

\* Two requests fence the same physical effect.  For a restart the PID is not
\* compared: the logical generation scope excludes it.  A runtime intent has
\* generation 0 and is fenced by its container alone.
SameScope(a, b) ==
  /\ a.intent = b.intent
  /\ a.target.cont = b.target.cont
  /\ a.target.gen = b.target.gen

\* unresolved_count() = 0, the test an authority switch makes.  It joins the
\* request rows with the fences, unlike the test of Accept, which reads the
\* fences alone.
Unresolved(i) ==
  /\ \/ reqState[i] \in {"ACCEPTED", "EXECUTION_STARTED", "OUTCOME_UNKNOWN"}
     \/ /\ reqState[i] = "EFFECT_OBSERVED"
        /\ fence[i] = "EFFECT_OBSERVED_AWAITING_VERIFICATION"
  /\ fence[i] \notin ConcludedFence

NoneUnresolved == \A i \in Ids : ~Unresolved(i)

\* accept() finds the very same request waiting in ACCEPTED and resumes it.
AcceptReplays(i, body) == reqState[i] = "ACCEPTED" /\ reqBody[i] = body

\* Mutants: a claimed scope, or an unresolved fence of another, is overlooked.
AcceptInserts_ScopeUnchecked(i, body) ==
  /\ reqState[i] = "ABSENT"
  /\ body.producer = authority
  /\ \A o \in Ids : fence[o] \notin UnresolvedFence

AcceptInserts_UnresolvedUnchecked(i, body) ==
  /\ reqState[i] = "ABSENT"
  /\ body.producer = authority
  /\ \A o \in Ids : reqState[o] # "ABSENT" => ~SameScope(reqBody[o], body)

\* accept() may insert a new request row and its fence.
AcceptInserts(i, body) ==
  /\ reqState[i] = "ABSENT"
  /\ body.producer = authority
  /\ \A o \in Ids : reqState[o] # "ABSENT" => ~SameScope(reqBody[o], body)
  /\ \A o \in Ids : fence[o] \notin UnresolvedFence

Accept(i, body) ==
  /\ AcceptInserts(i, body)
  /\ reqState' = [reqState EXCEPT ![i] = "ACCEPTED"]
  /\ reqBody' = [reqBody EXCEPT ![i] = body]
  /\ fence' = [fence EXCEPT ![i] = "ACCEPTED"]
  /\ UNCHANGED <<authority, attempts, conclusions, retirements>>

\* Mutants: the fence does not follow the request; the state is not compared.
Transition_RequestOnly(i, expected, state, scopeState) ==
  IF reqState[i] = expected
  THEN /\ reqState' = [reqState EXCEPT ![i] = state]
       /\ UNCHANGED <<authority, reqBody, fence, attempts, conclusions, retirements>>
  ELSE UNCHANGED ledgerVars

Transition_Unconditional(i, expected, state, scopeState) ==
  /\ reqState' = [reqState EXCEPT ![i] = state]
  /\ fence' = [fence EXCEPT ![i] = scopeState]
  /\ UNCHANGED <<authority, reqBody, attempts, conclusions, retirements>>

\* transition(): a compare-and-set on the request row.  When it succeeds the
\* fence is overwritten whatever state it is in.
Transition(i, expected, state, scopeState) ==
  IF reqState[i] = expected
  THEN /\ reqState' = [reqState EXCEPT ![i] = state]
       /\ fence' = [fence EXCEPT ![i] = scopeState]
       /\ UNCHANGED <<authority, reqBody, attempts, conclusions, retirements>>
  ELSE UNCHANGED ledgerVars

\* mark_effect_boundary() reserves the one physical attempt of the fence.
CanMarkBoundary(i) == fence[i] = "EXECUTION_STARTED" /\ attempts[i] = 0

\* Mutant: the boundary is marked but the attempt is not counted.
MarkEffectBoundary_Uncounted(i) ==
  /\ CanMarkBoundary(i)
  /\ fence' = [fence EXCEPT ![i] = "EFFECT_BOUNDARY_REACHED"]
  /\ UNCHANGED <<authority, reqState, reqBody, attempts, conclusions, retirements>>

MarkEffectBoundary(i) ==
  /\ CanMarkBoundary(i)
  /\ fence' = [fence EXCEPT ![i] = "EFFECT_BOUNDARY_REACHED"]
  /\ attempts' = [attempts EXCEPT ![i] = 1]
  /\ UNCHANGED <<authority, reqState, reqBody, conclusions, retirements>>

\* record_reconciliation(EFFECT_OBSERVED).  A reconciliation id that was used
\* is a replay or a conflict: it appends nothing and leaves the fence alone.
RecordEffectObserved(i, conclusion) ==
  /\ conclusion \notin conclusions
  /\ fence[i] \in UnresolvedFence
  /\ fence' = [fence EXCEPT ![i] = "RECONCILED_EFFECT_OBSERVED"]
  /\ attempts' = [attempts EXCEPT ![i] = 1]
  /\ conclusions' = conclusions \cup {conclusion}
  /\ UNCHANGED <<authority, reqState, reqBody, retirements>>

\* record_target_retirement(): one retirement per scope.
RecordTargetRetirement(i) ==
  /\ i \notin retirements
  /\ fence[i] \in {"EFFECT_BOUNDARY_REACHED", "EXECUTION_STARTED",
                   "OUTCOME_UNKNOWN", "EFFECT_OBSERVED_AWAITING_VERIFICATION"}
  /\ attempts[i] = 1
  /\ fence' = [fence EXCEPT ![i] = "RETIRED_TARGET_OUTCOME_UNKNOWN"]
  /\ retirements' = retirements \cup {i}
  /\ UNCHANGED <<authority, reqState, reqBody, attempts, conclusions>>

\* Mutant: unresolved effects do not hold the authority back.
SwitchAuthority_Unresolved(p) ==
  /\ p # authority
  /\ authority' = p
  /\ UNCHANGED <<reqState, reqBody, fence, attempts, conclusions, retirements>>

\* switch_authority().
SwitchAuthority(p) ==
  /\ p # authority
  /\ NoneUnresolved
  /\ authority' = p
  /\ UNCHANGED <<reqState, reqBody, fence, attempts, conclusions, retirements>>

\* Mutant: every opening counts the consumed attempt again.
BackfillFences_CountsAgain ==
  LET consumed(i) == reqState[i] \notin {"ABSENT", "ACCEPTED"}
  IN /\ attempts' = [i \in Ids |-> IF consumed(i) THEN attempts[i] + 1 ELSE attempts[i]]
     /\ fence' = [i \in Ids |-> IF consumed(i) /\ fence[i] = "ACCEPTED"
                                THEN "OUTCOME_UNKNOWN" ELSE fence[i]]
     /\ UNCHANGED <<authority, reqState, reqBody, conclusions, retirements>>

\* _backfill_effect_scope_fences(), part of the migration every
\* EffectLedger(...) runs when it opens the file: whatever has left ACCEPTED is
\* taken to have consumed its one physical attempt.  A row that has left ACCEPTED
\* never returns to it, and the count of a row is read only while its fence is
\* unresolved, which at most one that is not counted yet is at a time: the code's
\* row by row updates are this step at the moment that row is updated.
BackfillFences ==
  LET consumed(i) == reqState[i] \notin {"ABSENT", "ACCEPTED"}
  IN /\ attempts' = [i \in Ids |-> IF consumed(i) THEN 1 ELSE attempts[i]]
     /\ fence' = [i \in Ids |-> IF consumed(i) /\ fence[i] = "ACCEPTED"
                                THEN "OUTCOME_UNKNOWN" ELSE fence[i]]
     /\ UNCHANGED <<authority, reqState, reqBody, conclusions, retirements>>

\* Mutant: only the fences of the lost requests are marked.
ReconcileStarted_FencesOnly ==
  /\ fence' =
       [i \in Ids |->
          IF /\ reqState[i] \in {"EXECUTION_STARTED", "OUTCOME_UNKNOWN"}
             /\ fence[i] \in {"ACCEPTED", "EXECUTION_STARTED", "EFFECT_BOUNDARY_REACHED"}
          THEN "OUTCOME_UNKNOWN" ELSE fence[i]]
  /\ UNCHANGED <<authority, reqState, reqBody, attempts, conclusions, retirements>>

\* reconcile_started(), run by every EffectLedger(...) that opens the file.
ReconcileStarted ==
  LET lost(i) == reqState[i] = "EXECUTION_STARTED"
      unknown(i) == lost(i) \/ reqState[i] = "OUTCOME_UNKNOWN"
  IN /\ reqState' =
          [i \in Ids |-> IF lost(i) THEN "OUTCOME_UNKNOWN" ELSE reqState[i]]
     /\ fence' =
          [i \in Ids |->
             IF unknown(i) /\ fence[i] \in {"ACCEPTED", "EXECUTION_STARTED",
                                            "EFFECT_BOUNDARY_REACHED"}
             THEN "OUTCOME_UNKNOWN" ELSE fence[i]]
     /\ UNCHANGED <<authority, reqBody, attempts, conclusions, retirements>>
=============================================================================

------------------------ MODULE EffectExecutorProofs ------------------------
(***************************************************************************)
(* Proofs about EffectExecutor, for any number of requests, producers,     *)
(* PIDs, process starts and FFmpeg children, with and without storage      *)
(* faults, stale snapshots and SIGKILL.                                    *)
(*                                                                         *)
(* One attempt per scope rests on two facts that must be carried together: *)
(* distinct rows never share a scope (only accept inserts, and it looks),  *)
(* and a reserved attempt is never given back, so that a worker which has  *)
(* not acted yet owns the only reservation of its id.                      *)
(***************************************************************************)
EXTENDS EffectExecutor, TLAPS

\* A request row and its fence row exist together.
RowsTogether ==
  \A i \in Ids :
    /\ reqState[i] = "ABSENT" <=> reqBody[i] = NoBody
    /\ reqState[i] = "ABSENT" => fence[i] = "ABSENT" /\ attempts[i] = 0

\* No scope has two rows: what accept() looks up before it inserts.
ScopesDistinct ==
  \A i, j \in Ids :
    /\ reqState[i] # "ABSENT" /\ reqState[j] # "ABSENT"
    /\ SameScope(reqBody[i], reqBody[j])
    => i = j

\* The invariant of the ledger alone ...
LedgerInv == LedgerTypeOK /\ RowsTogether /\ ScopesDistinct

\* A busy handler holds a request id and a request.
HandlerInv ==
  \A e \in Executors :
    hd[e].pc # "idle" => hd[e].id \in Ids /\ hd[e].req \in Requests

\* A worker that has not invoked its effect owns the reserved attempt.
AttemptInv ==
  \A i \in Ids :
    /\ dispatches[i] <= 1
    /\ dispatches[i] > 0 => attempts[i] = 1
    /\ wk[i] \in {"begin", "armed"} => dispatches[i] = 0 /\ attempts[i] = 1

\* ... and of the executors on it: the inductive invariant.
IInv == LedgerInv /\ VolatileTypeOK /\ HandlerInv /\ AttemptInv

\* What every ledger operation does to the reservations: none is given back.
AttemptsKept == \A i \in Ids : attempts[i] = 1 => attempts'[i] = 1

-----------------------------------------------------------------------------
(* The ledger's operations keep its own invariant.                         *)

\* accept() inserts a row and its fence together, and only for a scope no other
\* row has claimed.
LEMMA AcceptKeeps ==
  ASSUME LedgerInv, NEW i \in Ids, NEW body \in Requests, Accept(i, body),
         NoBody \notin Requests
  PROVE  LedgerInv' /\ AttemptsKept
<1> USE DEF LedgerInv, LedgerTypeOK, Accept, AcceptInserts
<1>1. LedgerTypeOK'
  BY DEF RequestStates, FenceStates, UnresolvedFence, ConcludedFence
<1>2. RowsTogether'
  BY DEF RowsTogether
<1>3. ScopesDistinct'
  <2> SUFFICES ASSUME NEW j \in Ids, NEW k \in Ids,
                      reqState'[j] # "ABSENT", reqState'[k] # "ABSENT",
                      SameScope(reqBody'[j], reqBody'[k])
               PROVE  j = k
    BY DEF ScopesDistinct, SameScope
  <2>1. CASE j = i \/ k = i
    BY <2>1 DEF SameScope
  <2>2. CASE j # i /\ k # i
    BY <2>2 DEF ScopesDistinct
  <2> QED BY <2>1, <2>2
<1>4. AttemptsKept
  BY DEF AttemptsKept
<1> QED BY <1>1, <1>2, <1>3, <1>4

\* The compare-and-set of transition() moves a row and its fence between states
\* of an existing row; bodies, and so scopes, and reservations stay.
LEMMA TransitionKeeps ==
  ASSUME LedgerInv, NEW i \in Ids, NEW expected, NEW state, NEW scopeState,
         expected # "ABSENT", state \in RequestStates \ {"ABSENT"},
         scopeState \in FenceStates, Transition(i, expected, state, scopeState)
  PROVE  LedgerInv' /\ AttemptsKept
<1> USE DEF LedgerInv
<1>1. CASE reqState[i] = expected
  <2> USE <1>1 DEF Transition
  <2>1. LedgerTypeOK'
    BY DEF LedgerTypeOK
  <2>2. RowsTogether'
    BY DEF RowsTogether, LedgerTypeOK
  <2>3. ScopesDistinct'
    BY DEF ScopesDistinct, LedgerTypeOK, SameScope
  <2> QED BY <2>1, <2>2, <2>3 DEF AttemptsKept
<1>2. CASE reqState[i] # expected
  BY <1>2 DEF Transition, ledgerVars, LedgerTypeOK, RowsTogether,
              ScopesDistinct, SameScope, AttemptsKept
<1> QED BY <1>1, <1>2

\* A step that leaves the ledger alone.
LEMMA UnchangedKeeps ==
  ASSUME LedgerInv, UNCHANGED ledgerVars
  PROVE  LedgerInv' /\ AttemptsKept
BY DEF LedgerInv, ledgerVars, LedgerTypeOK, RowsTogether, ScopesDistinct,
       SameScope, AttemptsKept

\* mark_effect_boundary() reserves an attempt and moves no request row.
LEMMA MarkKeeps ==
  ASSUME LedgerInv, NEW i \in Ids, MarkEffectBoundary(i)
  PROVE  LedgerInv' /\ AttemptsKept
<1> USE DEF LedgerInv, MarkEffectBoundary, CanMarkBoundary
<1>1. LedgerTypeOK'
  BY DEF LedgerTypeOK, FenceStates, UnresolvedFence
<1>2. RowsTogether'
  BY DEF RowsTogether, LedgerTypeOK
<1>3. ScopesDistinct'
  BY DEF ScopesDistinct, SameScope
<1>4. AttemptsKept
  BY DEF AttemptsKept, LedgerTypeOK
<1> QED BY <1>1, <1>2, <1>3, <1>4

\* A reconciliation with EFFECT_OBSERVED counts the attempt as consumed.
LEMMA ObservedKeeps ==
  ASSUME LedgerInv, NEW i \in Ids, NEW c \in Ids \X Nat \X (Pids \cup {0}),
         RecordEffectObserved(i, c)
  PROVE  LedgerInv' /\ AttemptsKept
<1> USE DEF LedgerInv, RecordEffectObserved
<1>1. LedgerTypeOK'
  BY DEF LedgerTypeOK, FenceStates, ConcludedFence
<1>2. RowsTogether'
  BY DEF RowsTogether, LedgerTypeOK, UnresolvedFence
<1>3. ScopesDistinct'
  BY DEF ScopesDistinct, SameScope
<1>4. AttemptsKept
  BY DEF AttemptsKept, LedgerTypeOK
<1> QED BY <1>1, <1>2, <1>3, <1>4

\* A target retirement concludes a fence and keeps its attempt.
LEMMA RetirementKeeps ==
  ASSUME LedgerInv, NEW i \in Ids, RecordTargetRetirement(i)
  PROVE  LedgerInv' /\ AttemptsKept
<1> USE DEF LedgerInv, RecordTargetRetirement
<1>1. LedgerTypeOK'
  BY DEF LedgerTypeOK, FenceStates, ConcludedFence
<1>2. RowsTogether'
  BY DEF RowsTogether, LedgerTypeOK
<1>3. ScopesDistinct'
  BY DEF ScopesDistinct, SameScope
<1> QED BY <1>1, <1>2, <1>3 DEF AttemptsKept

\* A handoff changes the authority alone.
LEMMA SwitchKeeps ==
  ASSUME LedgerInv, NEW p \in Producers, SwitchAuthority(p)
  PROVE  LedgerInv' /\ AttemptsKept
BY DEF LedgerInv, SwitchAuthority, LedgerTypeOK, RowsTogether, ScopesDistinct,
       SameScope, AttemptsKept

\* The migration of an opened ledger only ever sets attempts to one.
LEMMA BackfillKeeps ==
  ASSUME LedgerInv, BackfillFences
  PROVE  LedgerInv' /\ AttemptsKept
<1> USE DEF LedgerInv, BackfillFences
<1>1. LedgerTypeOK'
  BY DEF LedgerTypeOK, FenceStates, UnresolvedFence
<1>2. RowsTogether'
  BY DEF RowsTogether
<1>3. ScopesDistinct'
  BY DEF ScopesDistinct, SameScope
<1>4. AttemptsKept
  BY DEF AttemptsKept
<1> QED BY <1>1, <1>2, <1>3, <1>4

\* Reopening the ledger turns lost requests into OUTCOME_UNKNOWN and gives no
\* attempt back.
LEMMA ReconcileStartedKeeps ==
  ASSUME LedgerInv, ReconcileStarted
  PROVE  LedgerInv' /\ AttemptsKept
<1> USE DEF LedgerInv, ReconcileStarted
<1>1. LedgerTypeOK'
  BY DEF LedgerTypeOK, FenceStates, UnresolvedFence, RequestStates
<1>2. RowsTogether'
  BY DEF RowsTogether
<1>3. ScopesDistinct'
  BY DEF ScopesDistinct, SameScope
<1> QED BY <1>1, <1>2, <1>3 DEF AttemptsKept

-----------------------------------------------------------------------------
(* The invariant holds initially and is kept by every action.              *)

\* The empty ledger and the stopped processes satisfy the invariant.
LEMMA InitIInv == Init => IInv
<1> SUFFICES ASSUME Init PROVE IInv
  OBVIOUS
<1> USE DEF Init, LedgerInit
<1>1. LedgerInv
  BY DEF LedgerInv, LedgerTypeOK, RowsTogether, ScopesDistinct, RequestStates,
         FenceStates
<1>2. VolatileTypeOK
  BY DEF VolatileTypeOK, Idle, NoSnap, Targets, HandlerSteps, WorkerSteps
<1>3. HandlerInv /\ AttemptInv
  BY DEF HandlerInv, AttemptInv, Idle
<1> QED BY <1>1, <1>2, <1>3 DEF IInv

\* An action that invokes nothing and starts no worker keeps AttemptInv.
LEMMA QuietKeepsAttempts ==
  ASSUME IInv, LedgerTypeOK', AttemptsKept, UNCHANGED dispatches,
         \A i \in Ids : wk'[i] \in {"begin", "armed"} => wk[i] \in {"begin", "armed"}
  PROVE  AttemptInv'
BY DEF IInv, LedgerInv, LedgerTypeOK, AttemptInv, AttemptsKept

\* A handler that finishes or goes to its next step keeps what it knows.
LEMMA HandlerKeeps ==
  ASSUME IInv, NEW e \in Executors, NEW pc \in HandlerSteps,
         hd[e].pc # "idle", Goto(e, pc) \/ Finish(e)
  PROVE  /\ HandlerInv'
         /\ hd' \in [Executors -> [pc : HandlerSteps, id : Ids \cup {NoBody},
                                   req : Requests \cup {NoBody}]]
<1> USE DEF IInv, HandlerInv, VolatileTypeOK
<1>1. CASE Goto(e, pc)
  BY <1>1 DEF Goto
<1>2. CASE Finish(e)
  BY <1>2 DEF Finish, Idle, HandlerSteps
<1> QED BY <1>1, <1>2

\* Process starts, ledger openings and crashes: workers are lost, reservations
\* are not.
LEMMA ProcessStep ==
  ASSUME IInv, NEW e \in Executors,
         StartProcess(e) \/ OpenLedger(e) \/ Crash(e)
  PROVE  IInv'
<1> USE DEF IInv
<1>1. CASE StartProcess(e)
  <2> USE <1>1 DEF StartProcess
  <2>1. LedgerInv' /\ AttemptsKept
    BY BackfillKeeps
  <2>2. VolatileTypeOK' /\ HandlerInv'
    BY DEF VolatileTypeOK, HandlerInv
  <2>3. AttemptInv'
    BY <2>1, QuietKeepsAttempts DEF LedgerInv
  <2> QED BY <2>1, <2>2, <2>3
<1>2. CASE OpenLedger(e)
  <2> USE <1>2 DEF OpenLedger
  <2>1. LedgerInv' /\ AttemptsKept
    BY ReconcileStartedKeeps
  <2>2. VolatileTypeOK' /\ HandlerInv'
    BY DEF VolatileTypeOK, HandlerInv
  <2>3. AttemptInv'
    BY <2>1, QuietKeepsAttempts DEF LedgerInv
  <2> QED BY <2>1, <2>2, <2>3
<1>3. CASE Crash(e)
  <2> USE <1>3 DEF Crash
  <2>1. LedgerInv' /\ AttemptsKept
    BY UnchangedKeeps
  <2>2. VolatileTypeOK' /\ HandlerInv'
    BY DEF VolatileTypeOK, HandlerInv, Idle, HandlerSteps, WorkerSteps
  <2>3. \A i \in Ids : wk'[i] \in {"begin", "armed"} => wk[i] \in {"begin", "armed"}
    BY DEF VolatileTypeOK
  <2>4. AttemptInv'
    BY <2>1, <2>3, QuietKeepsAttempts DEF LedgerInv
  <2> QED BY <2>1, <2>2, <2>4
<1> QED BY <1>1, <1>2, <1>3

\* The child, the snapshot, the clients and the operators.
LEMMA EnvironmentStep ==
  ASSUME IInv,
         \/ SpawnChild \/ ChildExits \/ PublishSnapshot
         \/ \E e \in Executors, i \in Ids, intent \in Intents, p \in Producers :
              Receive(e, i, intent, p)
         \/ \E i \in Ids : ReconcileObserved(i) \/ ReconcileRetired(i)
         \/ \E p \in Producers : HandOffAuthority(p)
  PROVE  IInv'
<1> USE DEF IInv
<1>1. CASE SpawnChild \/ ChildExits \/ PublishSnapshot
  <2> USE DEF SpawnChild, ChildExits, PublishSnapshot
  <2>1. LedgerInv' /\ AttemptsKept
    BY <1>1, UnchangedKeeps
  <2>2. UNCHANGED <<proc, inst, hd, wk, dispatches>>
    BY <1>1
  <2>3. child' \in [state : {"absent", "running", "delayed"}, gen : Nat,
                   pid : Pids \cup {0}]
    BY <1>1 DEF VolatileTypeOK
  <2>4. snap' \in Targets
    <3>1. CASE SpawnChild \/ ChildExits
      BY <3>1 DEF VolatileTypeOK
    <3>2. CASE PublishSnapshot
      BY <3>2 DEF VolatileTypeOK, Targets, NoSnap, Executors
    <3> QED BY <1>1, <3>1, <3>2
  <2>5. VolatileTypeOK' /\ HandlerInv'
    BY <2>2, <2>3, <2>4 DEF VolatileTypeOK, HandlerInv
  <2>6. AttemptInv'
    BY <2>1, <2>2, QuietKeepsAttempts DEF LedgerInv
  <2> QED BY <2>1, <2>5, <2>6
<1>2. CASE \E e \in Executors, i \in Ids, intent \in Intents, p \in Producers :
             Receive(e, i, intent, p)
  <2> PICK e \in Executors, i \in Ids, intent \in Intents, p \in Producers :
        Receive(e, i, intent, p)
    BY <1>2
  <2> DEFINE body == CurrentRequest(e, intent, p)
  <2>1. body \in Requests
    BY DEF CurrentRequest, Requests, Targets, VolatileTypeOK
  <2>2. hd' = [hd EXCEPT ![e] = [pc |-> "accept", id |-> i, req |-> body]]
    BY DEF Receive
  <2>3. UNCHANGED <<ledgerVars, proc, inst, wk, child, snap, dispatches>>
    BY DEF Receive
  <2>4. LedgerInv' /\ AttemptsKept
    BY <2>3, UnchangedKeeps
  <2> HIDE DEF body
  <2>5. VolatileTypeOK' /\ HandlerInv'
    BY <2>1, <2>2, <2>3 DEF VolatileTypeOK, HandlerInv, HandlerSteps
  <2>6. AttemptInv'
    BY <2>3, <2>4, QuietKeepsAttempts DEF LedgerInv
  <2> QED BY <2>4, <2>5, <2>6
<1>3. CASE \/ \E i \in Ids : ReconcileObserved(i) \/ ReconcileRetired(i)
           \/ \E p \in Producers : HandOffAuthority(p)
  <2>1. LedgerInv' /\ AttemptsKept
    <3>1. ASSUME NEW i \in Ids, ReconcileObserved(i)
          PROVE  LedgerInv' /\ AttemptsKept
      <4>1. <<i, snap.gen, snap.pid>> \in Ids \X Nat \X (Pids \cup {0})
        BY DEF VolatileTypeOK, Targets
      <4> QED BY <3>1, <4>1, ObservedKeeps DEF ReconcileObserved
    <3>2. ASSUME NEW i \in Ids, ReconcileRetired(i)
          PROVE  LedgerInv' /\ AttemptsKept
      BY <3>2, RetirementKeeps DEF ReconcileRetired
    <3>3. ASSUME NEW p \in Producers, HandOffAuthority(p)
          PROVE  LedgerInv' /\ AttemptsKept
      BY <3>3, SwitchKeeps DEF HandOffAuthority
    <3> QED BY <1>3, <3>1, <3>2, <3>3
  <2>2. UNCHANGED volatileVars
    BY <1>3 DEF ReconcileObserved, ReconcileRetired, HandOffAuthority
  <2>3. VolatileTypeOK' /\ HandlerInv'
    BY <2>2 DEF volatileVars, VolatileTypeOK, HandlerInv
  <2>4. AttemptInv'
    BY <2>1, <2>2, QuietKeepsAttempts DEF volatileVars, LedgerInv
  <2> QED BY <2>1, <2>3, <2>4
<1> QED BY <1>1, <1>2, <1>3

\* The handler's own steps.  Only HandleBoundary hands work to a worker, and
\* only with the attempt it has just reserved.
LEMMA HandleBoundaryStep ==
  ASSUME IInv, NEW e \in Executors, HandleBoundary(e)
  PROVE  IInv'
<1> DEFINE i == hd[e].id
<1>1. hd[e].pc = "boundary" /\ i \in Ids
  BY DEF HandleBoundary, At, IInv, HandlerInv
<1>2. UNCHANGED <<proc, inst, child, snap, dispatches>>
  BY DEF HandleBoundary
<1>3. HandlerInv' /\ hd' \in [Executors ->
        [pc : HandlerSteps, id : Ids \cup {NoBody}, req : Requests \cup {NoBody}]]
  <2>1. \E pc \in HandlerSteps : Goto(e, pc) \/ Finish(e)
    BY DEF HandleBoundary, HandlerSteps
  <2> QED BY <1>1, <2>1, HandlerKeeps
<1>4. LedgerInv' /\ AttemptsKept /\ wk' \in [Ids -> WorkerSteps] /\ AttemptInv'
  <2>1. CASE MarkEffectBoundary(i)
    <3>1. LedgerInv' /\ AttemptsKept
      BY <1>1, <2>1, MarkKeeps DEF IInv
    <3>2. wk' = wk \/ wk' = [wk EXCEPT ![i] = "begin"]
      BY DEF HandleBoundary
    <3>3. wk' \in [Ids -> WorkerSteps]
      BY <3>2 DEF IInv, VolatileTypeOK, WorkerSteps
    <3>4. attempts[i] = 0 /\ attempts'[i] = 1 /\ dispatches[i] = 0
      BY <1>1, <2>1 DEF MarkEffectBoundary, CanMarkBoundary, IInv, LedgerInv,
                        LedgerTypeOK, VolatileTypeOK, AttemptInv
    <3>5. AttemptInv'
      BY <1>1, <1>2, <3>1, <3>2, <3>4
         DEF AttemptInv, AttemptsKept, IInv, LedgerInv, LedgerTypeOK, VolatileTypeOK
    <3> QED BY <3>1, <3>3, <3>5
  <2>2. CASE /\ Transition(i, "EXECUTION_STARTED", "OUTCOME_UNKNOWN", "OUTCOME_UNKNOWN")
             /\ UNCHANGED wk
    <3>1. LedgerInv' /\ AttemptsKept
      BY <1>1, <2>2, TransitionKeeps
         DEF IInv, RequestStates, FenceStates, UnresolvedFence
    <3> QED BY <1>2, <2>2, <3>1, QuietKeepsAttempts
            DEF IInv, LedgerInv, VolatileTypeOK
  <2> QED BY <2>1, <2>2 DEF HandleBoundary
<1> QED BY <1>2, <1>3, <1>4 DEF IInv, VolatileTypeOK

\* The handler's other steps, faults included, start no worker.
LEMMA HandlerLedgerStep ==
  ASSUME IInv, NEW e \in Executors,
         \/ HandleAccept(e) \/ HandleStart(e) \/ HandleRevalidate(e)
         \/ HandleNoThread(e) \/ HandlerFault(e)
  PROVE  IInv'
<1> DEFINE i == hd[e].id
<1>1. hd[e].pc # "idle" /\ i \in Ids /\ hd[e].req \in Requests
  BY DEF HandleAccept, HandleStart, HandleRevalidate, HandleNoThread,
         HandlerFault, At, IInv, HandlerInv
<1>2. UNCHANGED <<proc, inst, wk, child, snap, dispatches>>
  BY DEF HandleAccept, HandleStart, HandleRevalidate, HandleNoThread, HandlerFault
<1>3. HandlerInv' /\ hd' \in [Executors ->
        [pc : HandlerSteps, id : Ids \cup {NoBody}, req : Requests \cup {NoBody}]]
  <2>1. \E pc \in HandlerSteps : Goto(e, pc) \/ Finish(e)
    BY DEF HandleAccept, HandleStart, HandleRevalidate, HandleNoThread,
           HandlerFault, HandlerSteps
  <2> QED BY <1>1, <2>1, HandlerKeeps
<1>4. LedgerInv' /\ AttemptsKept
  <2>1. CASE UNCHANGED ledgerVars
    BY <2>1, UnchangedKeeps DEF IInv
  <2>2. CASE Accept(i, hd[e].req)
    BY <1>1, <2>2, AcceptKeeps, NoBodyAssumption DEF IInv
  <2>3. CASE Transition(i, "ACCEPTED", "EXECUTION_STARTED", "EXECUTION_STARTED")
    BY <1>1, <2>3, TransitionKeeps
       DEF IInv, RequestStates, FenceStates, UnresolvedFence
  <2>4. CASE Transition(i, "EXECUTION_STARTED", "EFFECT_FAILED", "EFFECT_FAILED")
    BY <1>1, <2>4, TransitionKeeps DEF IInv, RequestStates, FenceStates
  <2>5. CASE Transition(i, "EXECUTION_STARTED", "OUTCOME_UNKNOWN", "OUTCOME_UNKNOWN")
    BY <1>1, <2>5, TransitionKeeps
       DEF IInv, RequestStates, FenceStates, UnresolvedFence
  <2> QED BY <2>1, <2>2, <2>3, <2>4, <2>5
          DEF HandleAccept, HandleStart, HandleRevalidate, HandleNoThread, HandlerFault
<1>5. AttemptInv'
  BY <1>2, <1>4, QuietKeepsAttempts DEF LedgerInv
<1> QED BY <1>2, <1>3, <1>4, <1>5 DEF IInv, VolatileTypeOK

\* A step of the effect itself: invoking it needs a worker that has not acted.
LEMMA EffectStepKeeps ==
  ASSUME IInv, NEW i \in Ids, NEW pc \in WorkerSteps,
         \/ Settle(i, pc) /\ (pc \in {"begin", "armed"} => wk[i] \in {"begin", "armed"})
         \/ Invoke(i, pc) /\ pc \notin {"begin", "armed"} /\ wk[i] \in {"begin", "armed"}
  PROVE  IInv'
<1>1. EffectStep(i, pc)
  BY DEF Settle, Invoke
<1>2. LedgerInv' /\ AttemptsKept
  BY <1>1, UnchangedKeeps DEF EffectStep, IInv
<1>3. wk' = [wk EXCEPT ![i] = pc] /\ UNCHANGED <<proc, inst, hd, child, snap>>
  BY <1>1 DEF EffectStep
<1>4. \/ UNCHANGED dispatches
      \/ dispatches' = [dispatches EXCEPT ![i] = @ + 1]
  BY DEF Settle, Invoke
<1>5. VolatileTypeOK' /\ HandlerInv'
  BY <1>3, <1>4 DEF IInv, VolatileTypeOK, HandlerInv
<1>6. AttemptInv'
  <2>1. CASE Settle(i, pc)
    <3>1. \A j \in Ids : wk'[j] \in {"begin", "armed"} => wk[j] \in {"begin", "armed"}
      <4>1. pc \in {"begin", "armed"} => wk[i] \in {"begin", "armed"}
        BY <2>1, <1>3 DEF Invoke
      <4> QED BY <1>3, <4>1 DEF IInv, VolatileTypeOK
    <3> QED BY <1>2, <2>1, <3>1, QuietKeepsAttempts DEF Settle, LedgerInv
  <2>2. CASE /\ Invoke(i, pc)
             /\ pc \notin {"begin", "armed"} /\ wk[i] \in {"begin", "armed"}
    <3>1. dispatches[i] = 0 /\ attempts[i] = 1
      BY <2>2 DEF IInv, AttemptInv
    <3>2. dispatches' = [dispatches EXCEPT ![i] = @ + 1]
      BY <2>2 DEF Invoke
    <3> QED BY <1>2, <1>3, <2>2, <3>1, <3>2
            DEF IInv, AttemptInv, AttemptsKept, VolatileTypeOK
  <2> QED BY <2>1, <2>2
<1> QED BY <1>2, <1>5, <1>6 DEF IInv

\* The steps of the three effects: each invokes at most once, out of begin or armed.
LEMMA WorkerEffectStep ==
  ASSUME IInv, NEW i \in Ids,
         \/ ArmRestart(i) \/ SendTerm(i) \/ ObserveExit(i) \/ ExitTimeout(i)
         \/ BeginReconcile(i) \/ AwaitChild(i) \/ RunRollout(i) \/ RolloutReturns(i)
  PROVE  IInv'
<1>1. \/ Settle(i, "armed") /\ wk[i] = "begin"
      \/ \E pc \in WorkerSteps \ {"begin", "armed"} : Settle(i, pc)
      \/ \E pc \in WorkerSteps \ {"begin", "armed"} :
           Invoke(i, pc) /\ wk[i] \in {"begin", "armed"}
  BY DEF ArmRestart, SendTerm, ObserveExit, ExitTimeout, BeginReconcile,
         AwaitChild, RunRollout, RolloutReturns, Working, WorkerSteps
<1>2. "armed" \in WorkerSteps
  BY DEF WorkerSteps
<1> QED BY <1>1, <1>2, EffectStepKeeps

\* Storing a result, or losing it, ends the worker.
LEMMA PersistStep ==
  ASSUME IInv, NEW i \in Ids, PersistResult(i)
  PROVE  IInv'
<1> DEFINE e == ExecutorOf(reqBody[i].intent)
<1>1. LedgerInv' /\ AttemptsKept
  <2>1. CASE UNCHANGED ledgerVars
    BY <2>1, UnchangedKeeps DEF IInv
  <2>2. CASE Transition(i, "EXECUTION_STARTED", ResultState(i), ResultFence(i))
    <3>1. wk[i] \in {"observed", "failed", "unknown"}
      BY DEF PersistResult
    <3>2. ResultState(i) \in {"EFFECT_OBSERVED", "EFFECT_FAILED", "OUTCOME_UNKNOWN"}
      BY <3>1 DEF ResultState
    <3>3. ResultFence(i) \in FenceStates
      BY <3>2 DEF ResultFence, FenceStates, UnresolvedFence
    <3> QED BY <2>2, <3>2, <3>3, TransitionKeeps DEF IInv, RequestStates
  <2> QED BY <2>1, <2>2 DEF PersistResult
<1>2. wk' = [wk EXCEPT ![i] = "none"] /\ UNCHANGED <<proc, inst, child, snap, dispatches>>
  BY DEF PersistResult
<1>3. HandlerInv' /\ hd' \in [Executors ->
        [pc : HandlerSteps, id : Ids \cup {NoBody}, req : Requests \cup {NoBody}]]
  <2>1. CASE Finish("adapter")
    BY <2>1 DEF Finish, Idle, HandlerInv, IInv, VolatileTypeOK, HandlerSteps, Executors
  <2>2. CASE UNCHANGED hd
    BY <2>2 DEF IInv, HandlerInv, VolatileTypeOK
  <2> QED BY <2>1, <2>2 DEF PersistResult
<1>4. \A j \in Ids : wk'[j] \in {"begin", "armed"} => wk[j] \in {"begin", "armed"}
  BY <1>2 DEF IInv, VolatileTypeOK
<1>5. AttemptInv'
  BY <1>1, <1>2, <1>4, QuietKeepsAttempts DEF LedgerInv
<1> QED BY <1>1, <1>2, <1>3, <1>5 DEF IInv, VolatileTypeOK, WorkerSteps

\* Every step keeps the inductive invariant.
LEMMA NextIInv == IInv /\ [Next]_vars => IInv'
<1> SUFFICES ASSUME IInv, [Next]_vars PROVE IInv'
  OBVIOUS
<1>1. CASE UNCHANGED vars
  <2>1. UNCHANGED ledgerVars /\ UNCHANGED volatileVars
    BY <1>1 DEF vars
  <2>2. LedgerInv' /\ AttemptsKept
    BY <2>1, UnchangedKeeps DEF IInv
  <2>3. VolatileTypeOK' /\ HandlerInv'
    BY <2>1 DEF volatileVars, IInv, VolatileTypeOK, HandlerInv
  <2>4. AttemptInv'
    BY <2>1, <2>2, QuietKeepsAttempts DEF volatileVars, LedgerInv
  <2> QED BY <2>2, <2>3, <2>4 DEF IInv
<1>2. ASSUME NEW e \in Executors, StartProcess(e) \/ OpenLedger(e) \/ Crash(e)
      PROVE  IInv'
  BY <1>2, ProcessStep
<1>3. ASSUME NEW e \in Executors, HandlerStep(e) \/ HandlerFault(e)
      PROVE  IInv'
  BY <1>3, HandleBoundaryStep, HandlerLedgerStep DEF HandlerStep
<1>4. ASSUME NEW i \in Ids, WorkerStep(i)
      PROVE  IInv'
  BY <1>4, WorkerEffectStep, PersistStep DEF WorkerStep
<1>5. CASE \/ SpawnChild \/ ChildExits \/ PublishSnapshot
           \/ \E e \in Executors, i \in Ids, intent \in Intents, p \in Producers :
                Receive(e, i, intent, p)
           \/ \E i \in Ids : ReconcileObserved(i) \/ ReconcileRetired(i)
           \/ \E p \in Producers : HandOffAuthority(p)
  BY <1>5, EnvironmentStep
<1> QED BY <1>1, <1>2, <1>3, <1>4, <1>5 DEF Next

\* The inductive invariant, always.
LEMMA InvariantHolds == Spec => []IInv
<1> QED BY InitIInv, NextIInv, PTL DEF Spec

-----------------------------------------------------------------------------
(* What follows from it.                                                   *)

\* Every variable keeps the type the code gives it, for every instance.
THEOREM TypesHold == Spec => []TypeOK
<1>1. IInv => TypeOK
  BY DEF IInv, LedgerInv, TypeOK
<1> QED BY InvariantHolds, <1>1, PTL

\* What was invoked is durably counted: mark_effect_boundary commits before the
\* effect, and no reopening, reconciliation or retirement gives it back.
THEOREM FenceComesFirst == Spec => []FenceBeforeEffect
<1>1. IInv => FenceBeforeEffect
  BY DEF IInv, AttemptInv, FenceBeforeEffect
<1> QED BY InvariantHolds, <1>1, PTL

\* No fenced scope is ever acted on twice, however many clients, crashes,
\* replays, lost results, reconciliations and handoffs there are.
THEOREM OneAttempt == Spec => []OneAttemptPerScope
<1>1. IInv => OneAttemptPerScope
  <2> SUFFICES ASSUME IInv, NEW i \in Ids, NEW j \in Ids
               PROVE  /\ dispatches[i] <= 1
                      /\ /\ dispatches[i] = 1 /\ dispatches[j] = 1
                         /\ SameScope(reqBody[i], reqBody[j])
                         => i = j
    BY DEF OneAttemptPerScope
  <2>1. dispatches[i] <= 1
    BY DEF IInv, AttemptInv
  <2>2. ASSUME dispatches[i] = 1, dispatches[j] = 1, SameScope(reqBody[i], reqBody[j])
        PROVE  i = j
    <3>1. attempts[i] = 1 /\ attempts[j] = 1
      BY <2>2 DEF IInv, AttemptInv
    <3>2. reqState[i] # "ABSENT" /\ reqState[j] # "ABSENT"
      BY <3>1 DEF IInv, LedgerInv, RowsTogether
    <3> QED BY <2>2, <3>2 DEF IInv, LedgerInv, ScopesDistinct
  <2> QED BY <2>1, <2>2
<1> QED BY InvariantHolds, <1>1, PTL

\* One step: a recorded outcome is not rewritten.
LEMMA StepWritesOnce ==
  ASSUME IInv, [Next]_vars
  PROVE  \A i \in Ids :
           reqState[i] \in {"EFFECT_OBSERVED", "EFFECT_FAILED", "OUTCOME_UNKNOWN"}
             => reqState'[i] = reqState[i]
<1> DEFINE Kept == \A i \in Ids :
             reqState[i] \in {"EFFECT_OBSERVED", "EFFECT_FAILED", "OUTCOME_UNKNOWN"}
               => reqState'[i] = reqState[i]
<1> USE DEF IInv, LedgerInv, LedgerTypeOK
<1>1. ASSUME NEW i \in Ids, NEW expected \in {"ACCEPTED", "EXECUTION_STARTED"},
             NEW state, NEW scopeState, Transition(i, expected, state, scopeState)
      PROVE  Kept
  BY <1>1 DEF Transition, ledgerVars
<1>2. ASSUME NEW e \in Executors, HandlerStep(e) \/ HandlerFault(e)
      PROVE  Kept
  <2> DEFINE i == hd[e].id
  <2>1. i \in Ids
    BY <1>2 DEF HandlerStep, HandleAccept, HandleStart, HandleRevalidate,
                HandleBoundary, HandleNoThread, HandlerFault, At, HandlerInv
  <2>2. CASE UNCHANGED reqState
    BY <2>2
  <2>3. CASE Accept(i, hd[e].req)
    BY <2>1, <2>3 DEF Accept, AcceptInserts
  <2>4. CASE \E expected \in {"ACCEPTED", "EXECUTION_STARTED"}, state \in RequestStates,
                scopeState \in FenceStates : Transition(i, expected, state, scopeState)
    BY <2>1, <2>4, <1>1
  <2>5. CASE HandlerFault(e)
    BY <2>1, <2>2, <2>5, <1>1 DEF HandlerFault, ledgerVars
  <2>6. CASE HandleAccept(e)
    BY <2>2, <2>3, <2>6 DEF HandleAccept, ledgerVars
  <2>7. CASE HandleStart(e) \/ HandleRevalidate(e) \/ HandleNoThread(e)
    BY <2>1, <2>2, <2>7, <1>1
       DEF HandleStart, HandleRevalidate, HandleNoThread, ledgerVars
  <2>8. CASE HandleBoundary(e)
    BY <2>1, <2>2, <2>8, <1>1 DEF HandleBoundary, MarkEffectBoundary
  <2> QED BY <1>2, <2>5, <2>6, <2>7, <2>8 DEF HandlerStep
<1>3. ASSUME NEW i \in Ids, PersistResult(i)
      PROVE  Kept
  BY <1>3, <1>1 DEF PersistResult, ledgerVars
<1>4. CASE \E e \in Executors : OpenLedger(e)
  BY <1>4 DEF OpenLedger, ReconcileStarted
<1>5. CASE UNCHANGED reqState
  BY <1>5
<1>6. ASSUME NEW i \in Ids, WorkerStep(i)
      PROVE  Kept
  BY <1>3, <1>5, <1>6
     DEF WorkerStep, ArmRestart, SendTerm, ObserveExit, ExitTimeout, BeginReconcile,
         AwaitChild, RunRollout, RolloutReturns, Settle, Invoke, EffectStep, ledgerVars
<1>7. CASE \/ \E e \in Executors : StartProcess(e) \/ Crash(e)
           \/ \E e \in Executors, i \in Ids, intent \in Intents, p \in Producers :
                Receive(e, i, intent, p)
           \/ \E i \in Ids : ReconcileObserved(i) \/ ReconcileRetired(i)
           \/ \E p \in Producers : HandOffAuthority(p)
           \/ SpawnChild \/ ChildExits \/ PublishSnapshot
           \/ UNCHANGED vars
  <2>1. UNCHANGED reqState
    BY <1>7 DEF StartProcess, BackfillFences, Crash, Receive, ReconcileObserved,
         RecordEffectObserved, ReconcileRetired, RecordTargetRetirement,
         HandOffAuthority, SwitchAuthority, SpawnChild, ChildExits, PublishSnapshot,
         vars, ledgerVars
  <2> QED BY <2>1, <1>5
<1> QED BY <1>2, <1>4, <1>6, <1>7 DEF Next

\* The outcome of a request is written once: a late worker, a replay, a reopened
\* ledger and a fault handler all compare the state before they write.
THEOREM OutcomesAreFinal == Spec => OutcomeWriteOnce
<1>1. IInv /\ [Next]_vars =>
        [\A i \in Ids :
           reqState[i] \in {"EFFECT_OBSERVED", "EFFECT_FAILED", "OUTCOME_UNKNOWN"}
             => reqState'[i] = reqState[i]]_vars
  BY StepWritesOnce
<1> QED BY InvariantHolds, <1>1, PTL DEF Spec, OutcomeWriteOnce
=============================================================================

--------------------------- MODULE EffectExecutor ---------------------------
(***************************************************************************)
(* The two effect executors of the runtime boundary and what they act on.  *)
(*                                                                         *)
(*   engine   the stream engine (runtime_boundary_entrypoint.py) restarts  *)
(*            or reconciles its FFmpeg child, in a worker thread;          *)
(*   adapter  the recovery sidecar (runtime_recovery_escalation.py) rolls  *)
(*            the whole runtime out again, inside its connection handler.  *)
(*                                                                         *)
(* Each is an EffectExecutorServer (server.py): one serial handler thread  *)
(* per process.  Both open the same SQLite ledger, so the two handlers,    *)
(* the workers, the FFmpeg child and the producer of the target snapshot   *)
(* interleave on it.  Either process may crash between any two steps.      *)
(*                                                                         *)
(* Time is abstract: a timeout may fire in any state its wait can be in.   *)
(* The n-th FFmpeg child is generation n, both natively (run id, restart   *)
(* count and PID) and in the exported target; the n-th engine container is *)
(* executor instance n.  A replaced Pod is a replaced container.           *)
(***************************************************************************)
EXTENDS EffectLedger

CONSTANTS
  Pids,           \* host PIDs an FFmpeg child may get; they are reused
  MaxInst,        \* bound: process starts of each executor
  MaxGen,         \* bound: FFmpeg children
  StaleSnapshots, \* may the snapshot producer miss the gap between two children?
  StorageFaults,  \* may a ledger call fail?
  ForceKill       \* FR_FFMPEG_FORCE_KILL_ENABLED

ASSUME ExecutorAssumption ==
  /\ MaxInst \in [{"engine", "adapter"} -> Nat]
  /\ MaxGen \in Nat
  /\ 0 \notin Pids
  /\ {StaleSnapshots, StorageFaults, ForceKill} \subseteq BOOLEAN
  /\ NoBody \notin Ids

VARIABLES
  proc,      \* is the executor's process down, opening the ledger, or serving?
  inst,      \* executor_instance_id: how often the process was started
  hd,        \* the connection handler: its step, request id and request
  wk,        \* the worker (or the inline call) performing the effect of an id
  child,     \* the engine's FFmpeg child
  snap,      \* the exported target snapshot; gen 0: no child; cont 0: unavailable
  dispatches \* per id, how often its physical effect was invoked

volatileVars == <<proc, inst, hd, wk, child, snap, dispatches>>
vars == <<ledgerVars, volatileVars>>

Executors == {"engine", "adapter"}

RESTART   == "RESTART_FFMPEG"
RECONCILE == "RECONCILE_FFMPEG"
ESCALATE  == "ESCALATE_RUNTIME_RECOVERY"
Intents   == {RESTART, RECONCILE, ESCALATE}

\* allowed_intents of each executor.
AllowedIntents(e) == IF e = "engine" THEN {RESTART, RECONCILE} ELSE {ESCALATE}

ExecutorOf(intent) == IF intent = ESCALATE THEN "adapter" ELSE "engine"

Targets == [cont : Nat, gen : Nat, pid : Pids \cup {0}]

Requests ==
  [intent : Intents, producer : Producers, inst : Nat, native : Nat,
   target : Targets]

ASSUME NoBodyAssumption == NoBody \notin Requests

Idle == [pc |-> "idle", id |-> NoBody, req |-> NoBody]

NoSnap == [cont |-> 0, gen |-> 0, pid |-> 0]

Init ==
  /\ LedgerInit
  /\ proc = [e \in Executors |-> "down"]
  /\ inst = [e \in Executors |-> 0]
  /\ hd = [e \in Executors |-> Idle]
  /\ wk = [i \in Ids |-> "none"]
  /\ child = [state |-> "absent", gen |-> 0, pid |-> 0]
  /\ snap = NoSnap
  /\ dispatches = [i \in Ids |-> 0]

-----------------------------------------------------------------------------
(* Processes: start, crash, and what runs beside the executors.            *)

\* EffectLedger.__init__ in a starting process: the migration first ...
StartProcess(e) ==
  /\ proc[e] = "down" /\ inst[e] < MaxInst[e]
  /\ proc' = [proc EXCEPT ![e] = "migrated"]
  /\ inst' = [inst EXCEPT ![e] = @ + 1]
  /\ BackfillFences
  /\ UNCHANGED <<hd, wk, child, snap, dispatches>>

\* ... then reconcile_started, and the server starts serving.
OpenLedger(e) ==
  /\ proc[e] = "migrated"
  /\ proc' = [proc EXCEPT ![e] = "up"]
  /\ ReconcileStarted
  /\ UNCHANGED <<inst, hd, wk, child, snap, dispatches>>

\* The process dies: handler and workers are gone, and with the engine's
\* container its child.  Only the ledger and the snapshot file survive.
Crash(e) ==
  /\ proc[e] # "down" /\ inst[e] < MaxInst[e]
  /\ proc' = [proc EXCEPT ![e] = "down"]
  /\ hd' = [hd EXCEPT ![e] = Idle]
  /\ wk' = [i \in Ids |->
              IF reqBody[i] # NoBody /\ ExecutorOf(reqBody[i].intent) = e
              THEN "none" ELSE wk[i]]
  /\ child' = IF e = "engine" THEN [child EXCEPT !.state = "absent"] ELSE child
  /\ UNCHANGED <<ledgerVars, inst, snap, dispatches>>

\* Mutant: no restart delay, so that the producer may miss the absence.
SpawnChild_NoDelay ==
  /\ proc["engine"] = "up"
  /\ child.state # "running" /\ child.gen < MaxGen
  /\ \E p \in Pids :
       child' = [state |-> "running", gen |-> child.gen + 1, pid |-> p]
  /\ UNCHANGED <<ledgerVars, proc, inst, hd, wk, snap, dispatches>>

\* The engine starts the next FFmpeg child, after the restart delay or woken
\* from it.
SpawnChild ==
  /\ proc["engine"] = "up"
  /\ child.state # "running" /\ child.gen < MaxGen
  /\ StaleSnapshots \/ snap.gen = 0
  /\ \E p \in Pids :
       child' = [state |-> "running", gen |-> child.gen + 1, pid |-> p]
  /\ UNCHANGED <<ledgerVars, proc, inst, hd, wk, snap, dispatches>>

\* The child exits, by a signal or by itself; the engine waits the delay.
ChildExits ==
  /\ child.state = "running"
  /\ child' = [child EXCEPT !.state = "delayed"]
  /\ UNCHANGED <<ledgerVars, proc, inst, hd, wk, snap, dispatches>>

\* The snapshot producer outside the Pod replaces the snapshot: with the child
\* it sees, without one (the container is not ready), or with nothing usable.
PublishSnapshot ==
  LET runtime == [cont |-> inst["engine"], gen |-> 0, pid |-> 0]
      target == [cont |-> inst["engine"], gen |-> child.gen, pid |-> child.pid]
  IN /\ \/ snap' = NoSnap
        \/ proc["engine"] # "down" /\ snap' = runtime
        \/ child.state = "running" /\ snap' = target
     /\ UNCHANGED <<ledgerVars, proc, inst, hd, wk, child, dispatches>>

-----------------------------------------------------------------------------
(* The connection handler: _handle_connection.                             *)

\* The request a client builds from the current observation: only that one
\* passes the identity check, so no other reaches the ledger.
CurrentRequest(e, intent, p) ==
  [intent |-> intent, producer |-> p, inst |-> inst[e],
   native |-> IF intent = RESTART THEN child.gen ELSE 0,
   target |-> IF intent = RESTART THEN snap
              ELSE [cont |-> snap.cont, gen |-> 0, pid |-> 0]]

\* _identity_mismatch = "" against current_target(): target and runtime come
\* from the snapshot, the native generation from the child itself.
IdentityMatches(e, body) ==
  /\ snap.cont # 0
  /\ body.target.cont = snap.cont
  /\ body.inst = inst[e]
  /\ body.intent = RESTART =>
       /\ snap.gen # 0 /\ child.state = "running"
       /\ body.target = snap
       /\ body.native = child.gen

\* A client sends a request under id i, perhaps one it has sent before.
Receive(e, i, intent, p) ==
  LET body == CurrentRequest(e, intent, p)
  IN /\ proc[e] = "up" /\ hd[e] = Idle
     /\ intent \in AllowedIntents(e)
     /\ IdentityMatches(e, body)
     /\ hd' = [hd EXCEPT ![e] = [pc |-> "accept", id |-> i, req |-> body]]
     /\ UNCHANGED <<ledgerVars, proc, inst, wk, child, snap, dispatches>>

At(e, pc) == proc[e] = "up" /\ hd[e].pc = pc

Goto(e, pc) == hd' = [hd EXCEPT ![e].pc = pc]

Finish(e) == hd' = [hd EXCEPT ![e] = Idle]

HandleAccept(e) ==
  LET i == hd[e].id
      body == hd[e].req
  IN /\ At(e, "accept")
     /\ \/ AcceptReplays(i, body) /\ Goto(e, "start") /\ UNCHANGED ledgerVars
        \/ Accept(i, body) /\ Goto(e, "start")
        \/ /\ ~AcceptReplays(i, body) /\ ~AcceptInserts(i, body)
           /\ Finish(e) /\ UNCHANGED ledgerVars
     /\ UNCHANGED <<proc, inst, wk, child, snap, dispatches>>

HandleStart(e) ==
  LET i == hd[e].id
  IN /\ At(e, "start")
     /\ IF reqState[i] = "ACCEPTED" THEN Goto(e, "revalidate") ELSE Finish(e)
     /\ Transition(i, "ACCEPTED", "EXECUTION_STARTED", "EXECUTION_STARTED")
     /\ UNCHANGED <<proc, inst, wk, child, snap, dispatches>>

\* The identity is read again after EXECUTION_STARTED; drift ends the request.
HandleRevalidate(e) ==
  LET i == hd[e].id
  IN /\ At(e, "revalidate")
     /\ \/ /\ IdentityMatches(e, hd[e].req)
           /\ Goto(e, "boundary") /\ UNCHANGED ledgerVars
        \/ /\ ~IdentityMatches(e, hd[e].req)
           /\ Transition(i, "EXECUTION_STARTED", "EFFECT_FAILED", "EFFECT_FAILED")
           /\ Finish(e)
     /\ UNCHANGED <<proc, inst, wk, child, snap, dispatches>>

\* With the attempt reserved the engine leaves the effect to a worker thread and
\* the adapter performs it inline.
HandleBoundary(e) ==
  LET i == hd[e].id
  IN /\ At(e, "boundary")
     /\ \/ /\ MarkEffectBoundary(i)
           /\ \/ e = "engine" /\ Finish(e) /\ wk' = [wk EXCEPT ![i] = "begin"]
              \/ e = "engine" /\ Goto(e, "nothread") /\ UNCHANGED wk
              \/ e = "adapter" /\ Goto(e, "perform")
                   /\ wk' = [wk EXCEPT ![i] = "begin"]
        \/ /\ ~CanMarkBoundary(i)
           /\ Transition(i, "EXECUTION_STARTED", "OUTCOME_UNKNOWN", "OUTCOME_UNKNOWN")
           /\ Finish(e) /\ UNCHANGED wk
     /\ UNCHANGED <<proc, inst, child, snap, dispatches>>

\* Mutant: the request is answered, its row forgotten.
HandleNoThread_Forgets(e) ==
  /\ At(e, "nothread")
  /\ Finish(e)
  /\ UNCHANGED <<ledgerVars, proc, inst, wk, child, snap, dispatches>>

\* The worker thread could not be started.
HandleNoThread(e) ==
  LET i == hd[e].id
  IN /\ At(e, "nothread")
     /\ Transition(i, "EXECUTION_STARTED", "OUTCOME_UNKNOWN", "OUTCOME_UNKNOWN")
     /\ Finish(e)
     /\ UNCHANGED <<proc, inst, wk, child, snap, dispatches>>

\* A ledger call raises: the handler tries to record OUTCOME_UNKNOWN for the
\* request id (_safe_transition), which may fail as well, and serves the next.
HandlerFault(e) ==
  LET i == hd[e].id
  IN /\ StorageFaults
     /\ proc[e] = "up"
     /\ hd[e].pc \in {"accept", "start", "revalidate", "boundary", "nothread"}
     /\ \/ UNCHANGED ledgerVars
        \/ Transition(i, "EXECUTION_STARTED", "OUTCOME_UNKNOWN", "OUTCOME_UNKNOWN")
     /\ Finish(e)
     /\ UNCHANGED <<proc, inst, wk, child, snap, dispatches>>

HandlerStep(e) ==
  \/ HandleAccept(e)
  \/ HandleStart(e)
  \/ HandleRevalidate(e)
  \/ HandleBoundary(e)
  \/ HandleNoThread(e)

\* operator_authority_handoff, served by the engine's handler.
HandOffAuthority(p) ==
  /\ proc["engine"] = "up" /\ hd["engine"] = Idle
  /\ SwitchAuthority(p)
  /\ UNCHANGED volatileVars

\* _reconcile, served by the engine's handler: a healthy successor is running.
\* The reconciliation id is the client's hash of the scope and the successor.
ReconcileObserved(i) ==
  /\ proc["engine"] = "up" /\ hd["engine"] = Idle
  /\ child.state = "running" /\ snap.gen # 0
  /\ reqState[i] # "ABSENT" /\ reqBody[i].intent = RESTART
  /\ snap.cont = reqBody[i].target.cont
  /\ snap.gen # reqBody[i].target.gen /\ snap.pid # reqBody[i].target.pid
  /\ RecordEffectObserved(i, <<i, snap.gen, snap.pid>>)
  /\ UNCHANGED volatileVars

\* _reconcile with TARGET_RETIRED: the container of the target is gone.
ReconcileRetired(i) ==
  /\ proc["engine"] = "up" /\ hd["engine"] = Idle
  /\ child.state = "running" /\ snap.gen # 0
  /\ reqState[i] # "ABSENT" /\ reqBody[i].intent = RESTART
  /\ snap.cont # reqBody[i].target.cont
  /\ RecordTargetRetirement(i)
  /\ UNCHANGED volatileVars

-----------------------------------------------------------------------------
(* The effect: perform_fast_recovery_effect, reconcile_ffmpeg and the       *)
(* adapter's perform_effect.                                               *)

Working(i, pc, intent) ==
  /\ reqBody[i] # NoBody /\ reqBody[i].intent = intent
  /\ wk[i] = pc
  /\ proc[ExecutorOf(intent)] = "up"

\* The child the request names is running.
NamedChildRuns(i) == child.state = "running" /\ child.gen = reqBody[i].native

EffectStep(i, pc) ==
  /\ wk' = [wk EXCEPT ![i] = pc]
  /\ UNCHANGED <<ledgerVars, proc, inst, hd, child, snap>>

\* Dispatch: the physical effect is invoked here and nowhere else.
Invoke(i, pc) ==
  /\ EffectStep(i, pc)
  /\ dispatches' = [dispatches EXCEPT ![i] = @ + 1]

Settle(i, pc) == EffectStep(i, pc) /\ UNCHANGED dispatches

\* The child is checked and a pidfd opened (which may fail) ...
ArmRestart(i) ==
  /\ Working(i, "begin", RESTART)
  /\ \/ NamedChildRuns(i) /\ (Settle(i, "armed") \/ Settle(i, "unknown"))
     \/ ~NamedChildRuns(i) /\ Settle(i, "failed")

\* ... then SIGTERM is sent through it.  A child that exited in between is
\* still a zombie (the call succeeds) or already reaped (it raises).
SendTerm(i) ==
  /\ Working(i, "armed", RESTART)
  /\ \/ Invoke(i, "signalled")
     \/ ~NamedChildRuns(i) /\ Settle(i, "unknown")

ObserveExit(i) ==
  /\ Working(i, "signalled", RESTART) \/ Working(i, "killed", RESTART)
  /\ ~NamedChildRuns(i)
  /\ Settle(i, "observed")

\* The wait for the exit times out.  SIGKILL is part of the same attempt.
ExitTimeout(i) ==
  \/ Working(i, "signalled", RESTART) /\ Settle(i, "unknown")
  \/ /\ ForceKill /\ Working(i, "signalled", RESTART) /\ NamedChildRuns(i)
     /\ Settle(i, "killed")
  \/ Working(i, "killed", RESTART) /\ Settle(i, "unknown")

\* reconcile_ffmpeg: nothing to do, nothing it can do, or the delay is cut.
BeginReconcile(i) ==
  /\ Working(i, "begin", RECONCILE)
  /\ \/ child.state = "running" /\ Settle(i, "observed")
     \/ child.state = "delayed" /\ Invoke(i, "woken")
     \/ child.state = "absent" /\ Settle(i, "failed")

AwaitChild(i) ==
  /\ Working(i, "woken", RECONCILE)
  /\ \/ child.state = "running" /\ Settle(i, "observed")
     \/ Settle(i, "unknown")

\* kubectl rollout restart, and what the call returns.
RunRollout(i) == Working(i, "begin", ESCALATE) /\ Invoke(i, "rolling")

RolloutReturns(i) ==
  /\ Working(i, "rolling", ESCALATE)
  /\ \E pc \in {"observed", "failed", "unknown"} : Settle(i, pc)

\* Mutant: an exit that was not observed is taken for a failure.
ResultState_UnknownFails(i) ==
  CASE wk[i] = "observed"              -> "EFFECT_OBSERVED"
    [] wk[i] \in {"failed", "unknown"} -> "EFFECT_FAILED"

\* The result of the effect: the request state and the fence state to store.
ResultState(i) ==
  CASE wk[i] = "observed" -> "EFFECT_OBSERVED"
    [] wk[i] = "failed"   -> "EFFECT_FAILED"
    [] wk[i] = "unknown"  -> "OUTCOME_UNKNOWN"

ResultFence(i) ==
  IF wk[i] = "observed" /\ reqBody[i].intent = RESTART
  THEN "EFFECT_OBSERVED_AWAITING_VERIFICATION" ELSE ResultState(i)

\* _complete_effect, or the end of the inline handler, stores the result; a
\* storage fault loses it.
PersistResult(i) ==
  LET e == ExecutorOf(reqBody[i].intent)
  IN /\ wk[i] \in {"observed", "failed", "unknown"}
     /\ reqBody[i] # NoBody /\ proc[e] = "up"
     /\ \/ Transition(i, "EXECUTION_STARTED", ResultState(i), ResultFence(i))
        \/ StorageFaults /\ UNCHANGED ledgerVars
     /\ wk' = [wk EXCEPT ![i] = "none"]
     /\ IF e = "adapter" THEN Finish(e) ELSE UNCHANGED hd
     /\ UNCHANGED <<proc, inst, child, snap, dispatches>>

WorkerStep(i) ==
  \/ ArmRestart(i)
  \/ SendTerm(i)
  \/ ObserveExit(i)
  \/ ExitTimeout(i)
  \/ BeginReconcile(i)
  \/ AwaitChild(i)
  \/ RunRollout(i)
  \/ RolloutReturns(i)
  \/ PersistResult(i)

-----------------------------------------------------------------------------
Next ==
  \/ \E e \in Executors :
       \/ StartProcess(e) \/ OpenLedger(e) \/ Crash(e)
       \/ HandlerStep(e) \/ HandlerFault(e)
       \/ \E i \in Ids, intent \in Intents, p \in Producers :
            Receive(e, i, intent, p)
  \/ \E i \in Ids : WorkerStep(i) \/ ReconcileObserved(i) \/ ReconcileRetired(i)
  \/ \E p \in Producers : HandOffAuthority(p)
  \/ SpawnChild \/ ChildExits \/ PublishSnapshot

Spec == Init /\ [][Next]_vars

-----------------------------------------------------------------------------
(* Properties.                                                             *)

HandlerSteps ==
  {"idle", "accept", "start", "revalidate", "boundary", "nothread", "perform"}

WorkerSteps ==
  {"none", "begin", "armed", "signalled", "killed", "woken", "rolling",
   "observed", "failed", "unknown"}

LedgerTypeOK ==
  /\ authority \in Producers
  /\ reqState \in [Ids -> RequestStates]
  /\ reqBody \in [Ids -> Requests \cup {NoBody}]
  /\ fence \in [Ids -> FenceStates]
  /\ attempts \in [Ids -> {0, 1}]
  /\ conclusions \subseteq Ids \X Nat \X (Pids \cup {0})
  /\ retirements \subseteq Ids

VolatileTypeOK ==
  /\ proc \in [Executors -> {"down", "migrated", "up"}]
  /\ inst \in [Executors -> Nat]
  /\ hd \in [Executors -> [pc : HandlerSteps, id : Ids \cup {NoBody},
                           req : Requests \cup {NoBody}]]
  /\ wk \in [Ids -> WorkerSteps]
  /\ child \in [state : {"absent", "running", "delayed"}, gen : Nat,
               pid : Pids \cup {0}]
  /\ snap \in Targets
  /\ dispatches \in [Ids -> Nat]

\* The ledger's tables and the variables of the processes have the values the
\* code gives them.
TypeOK == LedgerTypeOK /\ VolatileTypeOK

\* A fenced scope (an FFmpeg generation, or a container for the runtime wide
\* intents) gets at most one physical attempt, whatever crashes, replays,
\* reopenings, lost results, reconciliations and authority handoffs happen:
\* mark_effect_boundary reserves "the sole physical attempt" of the fence and
\* accept lets no second request claim the scope.
OneAttemptPerScope ==
  \A i, j \in Ids :
    /\ dispatches[i] <= 1
    /\ dispatches[i] = 1 /\ dispatches[j] = 1 /\ SameScope(reqBody[i], reqBody[j])
         => i = j

\* The attempt is durable before the effect is invoked and is never given back:
\* what was invoked is counted by the ledger, also after a crash.
FenceBeforeEffect ==
  \A i \in Ids : dispatches[i] > 0 => attempts[i] = 1

\* At most one fence is between acceptance and a result: the two executors,
\* which know nothing of each other, never have an effect admitted each.
OneActiveFence ==
  \A i, j \in Ids :
    /\ fence[i] \in {"ACCEPTED", "EXECUTION_STARTED", "EFFECT_BOUNDARY_REACHED"}
    /\ fence[j] \in {"ACCEPTED", "EXECUTION_STARTED", "EFFECT_BOUNDARY_REACHED"}
    => i = j

\* unresolved_count(), which joins the request rows with the fences and guards
\* the authority handoff, and the scan of the fences, which guards admission
\* and answers unresolved_scopes(), agree in every state.
UnresolvedViewsAgree ==
  NoneUnresolved <=> \A i \in Ids : fence[i] \notin UnresolvedFence

\* While an effect is admitted and not concluded, the authority stays with the
\* producer that requested it.
UnresolvedOwnerKeepsAuthority ==
  \A i \in Ids :
    fence[i] \in {"ACCEPTED", "EXECUTION_STARTED", "EFFECT_BOUNDARY_REACHED"}
      => reqBody[i].producer = authority

\* A recorded outcome tells the truth about the signal: a restart recorded as
\* failed was never dispatched (physical_effect_count 0), one recorded as
\* observed was.
OutcomeHonest ==
  \A i \in Ids : reqBody[i] # NoBody /\ reqBody[i].intent = RESTART =>
    /\ reqState[i] = "EFFECT_FAILED" => dispatches[i] = 0
    /\ reqState[i] = "EFFECT_OBSERVED" => dispatches[i] = 1

\* An outcome, once recorded for a request, is never rewritten: neither by a
\* worker that finishes after the ledger was reopened, nor by a replay, nor by
\* a fault handler.
OutcomeWriteOnce ==
  [][\A i \in Ids :
       reqState[i] \in {"EFFECT_OBSERVED", "EFFECT_FAILED", "OUTCOME_UNKNOWN"}
         => reqState'[i] = reqState[i]]_vars

\* No FFmpeg child is signalled by two requests.
OneSignalPerChild ==
  \A i, j \in Ids :
    /\ dispatches[i] > 0 /\ reqBody[i].intent = RESTART
    /\ dispatches[j] > 0 /\ reqBody[j].intent = RESTART
    /\ reqBody[i].native = reqBody[j].native
    => i = j

\* The rows as requests of FencedEffects.  Only a restart can tell what it did: it
\* fences one FFmpeg child, signalled through a pidfd.
Fenced == INSTANCE FencedEffects WITH
  Exact <- {RESTART} \X Nat \X Nat,
  claim <- [i \in Ids |->
              IF reqState[i] = "ABSENT" THEN {}
              ELSE {<<reqBody[i].intent, reqBody[i].target.cont, reqBody[i].target.gen>>}],
  acts <- dispatches,
  outcome <- [i \in Ids |->
                IF reqState[i] = "EFFECT_OBSERVED" THEN "observed"
                ELSE IF reqState[i] = "EFFECT_FAILED" THEN "failed"
                ELSE IF reqState[i] = "OUTCOME_UNKNOWN" THEN "unknown" ELSE "none"]

\* Two executors, their workers and a shared ledger, crashing and replayed to,
\* keep the promise of FencedEffects: one claim per scope, one act, one outcome, and
\* no act behind a known outcome.
KeepsPromise == Fenced!Spec

\* A conclusion appended to the ledger settles its fence for good.
ConcludedStaysConcluded ==
  [][\A i \in Ids : fence[i] \in ConcludedFence => fence'[i] = fence[i]]_vars

-----------------------------------------------------------------------------
(* Fairness: the handler and worker threads run while their process is up, *)
(* and the kubelet restarts a process that is down.                        *)

Fairness ==
  /\ \A e \in Executors :
       /\ WF_vars(HandlerStep(e))
       /\ WF_vars(StartProcess(e)) /\ WF_vars(OpenLedger(e))
  /\ \A i \in Ids : WF_vars(WorkerStep(i))

FairSpec == Spec /\ Fairness

\* Beyond what the code promises: a client that keeps asking for a restart, and
\* one that keeps reconciling, against a child that keeps coming back.
EagerSpec ==
  /\ FairSpec
  /\ WF_vars(SpawnChild)
  /\ SF_vars(child.state = "running" /\ PublishSnapshot /\ snap'.gen # 0)
  /\ \A i \in Ids :
       /\ SF_vars(\E p \in Producers : Receive("engine", i, RESTART, p))
       /\ SF_vars(ReconcileObserved(i)) /\ SF_vars(ReconcileRetired(i))

\* An effect that started gets an outcome, if only OUTCOME_UNKNOWN: by its
\* worker, or by the next process that opens the ledger.
InFlightSettles ==
  \A i \in Ids :
    reqState[i] = "EXECUTION_STARTED" ~> reqState[i] # "EXECUTION_STARTED"

\* Who brings an effect to its outcome: the handler that admitted it, or a worker at
\* a step that its intent has.
Handled(i) ==
  LET h == hd[ExecutorOf(reqBody[i].intent)]
  IN h.id = i /\ h.pc \in {"revalidate", "boundary", "nothread"}

WorkOf(intent) ==
  {"begin", "observed", "failed", "unknown"}
    \cup (IF intent = RESTART THEN {"armed", "signalled", "killed"}
          ELSE IF intent = RECONCILE THEN {"woken"} ELSE {"rolling"})

\* No effect is orphaned: while its process lives, an effect that started is in the
\* hands of one thread of it.  A row left behind in EXECUTION_STARTED would block
\* every other scope and the authority handoff until the process happens to restart.
InFlightIsHeld ==
  \A i \in Ids :
    reqState[i] = "EXECUTION_STARTED" /\ proc[ExecutorOf(reqBody[i].intent)] = "up"
      => \/ Handled(i) /\ wk[i] = "none"
         \/ ~Handled(i) /\ wk[i] \in WorkOf(reqBody[i].intent)

\* A restart accepted before its process died is decided once the process is
\* back: executed, failed or reconciled.  (The bound on children is excluded: a
\* model without a next child could not serve the client.)
AcceptedIsDecided ==
  \A i \in Ids :
    fence[i] = "ACCEPTED" /\ reqBody[i].intent = RESTART
      ~> \/ fence[i] # "ACCEPTED"
         \/ child.gen = MaxGen /\ child.state # "running"
=============================================================================

-------------------- MODULE EffectExecutorProgressProofs --------------------
(***************************************************************************)
(* Proofs about what brings an effect to its outcome, for every value of   *)
(* the constants but with a ledger that does not fail: an effect that      *)
(* started is in the hands of exactly one thread, and every step of that   *)
(* thread brings it nearer to an outcome.                                  *)
(*                                                                         *)
(* These are the two halves of InFlightSettles that do not mention         *)
(* fairness.  With storage faults they are false: a handler that fails to  *)
(* store leaves its row behind, to the next process that opens the ledger. *)
(***************************************************************************)
EXTENDS EffectExecutorFenceProofs

Owner(i) == ExecutorOf(reqBody[i].intent)

InFlight(i) == reqState[i] = "EXECUTION_STARTED"

\* A live process holds its effects, in a worker that takes the steps of its intent,
\* was not started in vain and, in the adapter, is the handler itself.
HeldInv ==
  /\ \A i \in Ids : InFlight(i) /\ proc[Owner(i)] = "up" => Handled(i) \/ wk[i] # "none"
  /\ \A i \in Ids : wk[i] # "none" => wk[i] \in WorkOf(reqBody[i].intent)
  /\ \A e \in Executors : hd[e].pc = "nothread" => wk[hd[e].id] = "none"
  /\ \A i \in Ids : wk[i] # "none" /\ reqBody[i].intent = ESCALATE =>
       hd["adapter"].pc = "perform" /\ hd["adapter"].id = i

-----------------------------------------------------------------------------
(* Who owns what.                                                          *)

\* A handler past accept() works on a row of its own executor, and no other handler
\* does.
LEMMA HolderOwns ==
  ASSUME IInv, FInv, NEW e \in Executors, hd[e].pc \in PastAccept
  PROVE  /\ hd[e].id \in Ids /\ Owner(hd[e].id) = e
         /\ reqState[hd[e].id] # "ABSENT"
<1>1. /\ hd[e].id \in Ids /\ hd[e].req # NoBody
      /\ reqBody[hd[e].id] = hd[e].req /\ hd[e].req.intent \in AllowedIntents(e)
  BY Facts DEF FInv, HolderInv, Holds, PastAccept
<1> QED
  BY <1>1 DEF Owner, ExecutorOf, AllowedIntents, Executors, RESTART, RECONCILE, ESCALATE,
     IInv, LedgerInv, RowsTogether

\* Rows keep their request.
LEMMA BodiesKept ==
  ASSUME IInv, FInv, [Next]_vars, NEW i \in Ids, reqState[i] # "ABSENT"
  PROVE  reqBody'[i] = reqBody[i]
<1> USE DEF ledgerVars, volatileVars
<1>1. ASSUME NEW e \in Executors, HandlerStep(e) \/ HandlerFault(e)
      PROVE  \/ UNCHANGED reqBody
             \/ \E j \in Ids : /\ reqState[j] = "ABSENT"
                               /\ reqBody' = [reqBody EXCEPT ![j] = hd[e].req]
  <2>1. hd[e].pc = "accept" => hd[e].id \in Ids
    BY DEF IInv, HandlerInv
  <2> QED
    BY <1>1, <2>1 DEF HandlerStep, HandlerFault, HandleAccept, HandleStart, HandleRevalidate,
       HandleBoundary, HandleNoThread, Accept, AcceptInserts, Transition, MarkEffectBoundary, At
<1>2. ASSUME NEW j \in Ids, WorkerStep(j)
      PROVE  UNCHANGED reqBody
  BY <1>2 DEF WorkerStep, ArmRestart, SendTerm, ObserveExit, ExitTimeout, BeginReconcile,
     AwaitChild, RunRollout, RolloutReturns, PersistResult, Transition, Invoke, Settle, EffectStep
<1>3. ASSUME ~(\E e \in Executors : HandlerStep(e) \/ HandlerFault(e)),
             ~(\E j \in Ids : WorkerStep(j))
      PROVE  UNCHANGED reqBody
  BY <1>3 DEF Next, vars, StartProcess, BackfillFences, OpenLedger, ReconcileStarted, Crash,
     Receive, ReconcileObserved, RecordEffectObserved, ReconcileRetired, RecordTargetRetirement,
     HandOffAuthority, SwitchAuthority, SpawnChild, ChildExits, PublishSnapshot
<1> QED
  BY <1>1, <1>2, <1>3 DEF IInv, LedgerInv, LedgerTypeOK

-----------------------------------------------------------------------------
(* Every step keeps the hold.                                              *)

\* What does not move rows, processes, handlers and workers keeps the hold.
LEMMA HeldStays ==
  ASSUME HeldInv, UNCHANGED <<reqState, reqBody, proc, hd, wk>>
  PROVE  HeldInv'
BY DEF HeldInv, InFlight, Owner, Handled

\* A process that starts is not up yet, one that opens the ledger finds nothing in
\* flight afterwards, and one that dies takes its own handler and workers along.
LEMMA ProcessHeld ==
  ASSUME IInv, FInv, HeldInv, NEW e \in Executors,
         StartProcess(e) \/ OpenLedger(e) \/ Crash(e)
  PROVE  HeldInv'
<1> USE DEF ledgerVars, volatileVars
<1>0. DOMAIN proc = Executors /\ DOMAIN hd = Executors
  BY DEF IInv, VolatileTypeOK
<1>1. CASE StartProcess(e)
  <2>1. /\ UNCHANGED <<reqState, reqBody, hd, wk>>
        /\ proc' = [proc EXCEPT ![e] = "migrated"]
    BY <1>1 DEF StartProcess, BackfillFences
  <2> QED
    BY <1>0, <2>1 DEF HeldInv, InFlight, Owner, Handled
<1>2. CASE OpenLedger(e)
  <2>1. /\ UNCHANGED <<reqBody, hd, wk>>
        /\ \A i \in Ids : ~InFlight(i)'
    BY <1>2 DEF OpenLedger, ReconcileStarted, InFlight
  <2> QED
    BY <2>1 DEF HeldInv
<1>3. CASE Crash(e)
  <2>1. /\ UNCHANGED <<reqState, reqBody>>
        /\ proc' = [proc EXCEPT ![e] = "down"] /\ hd' = [hd EXCEPT ![e] = Idle]
        /\ \A i \in Ids :
             wk'[i] = IF reqBody[i] # NoBody /\ Owner(i) = e THEN "none" ELSE wk[i]
    BY <1>3 DEF Crash, Owner
  <2>2. \A i \in Ids : InFlight(i) \/ wk[i] # "none" => reqBody[i] # NoBody
    BY DEF InFlight, IInv, LedgerInv, RowsTogether, FInv, WorkInv
  <2>3. \A x \in Executors : hd'[x].pc = "nothread" => x # e /\ hd'[x] = hd[x]
    BY <1>0, <2>1 DEF Idle
  <2>4. \A x \in Executors : hd[x].pc = "nothread" => hd[x].id \in Ids
    BY DEF IInv, HandlerInv
  <2>5. \A i \in Ids : InFlight(i) /\ proc'[Owner(i)] = "up" =>
          /\ Owner(i) # e /\ proc[Owner(i)] = "up"
          /\ hd'[Owner(i)] = hd[Owner(i)] /\ wk'[i] = wk[i]
    BY <1>0, <2>1 DEF Owner, ExecutorOf, Executors
  <2>6. \A i \in Ids : InFlight(i)' /\ proc'[Owner(i)'] = "up" => Handled(i)' \/ wk'[i] # "none"
    BY <2>1, <2>5 DEF HeldInv, InFlight, Owner, Handled
  <2>7. \A i \in Ids : wk'[i] # "none" /\ reqBody'[i].intent = ESCALATE =>
          hd'["adapter"].pc = "perform" /\ hd'["adapter"].id = i
    BY <1>0, <2>1, <2>2 DEF HeldInv, Owner, ExecutorOf, Executors
  <2> QED
    BY <2>1, <2>3, <2>4, <2>6, <2>7 DEF HeldInv
<1> QED
  BY <1>1, <1>2, <1>3

\* An idle handler holds nothing yet.
LEMMA ReceiveHeld ==
  ASSUME IInv, HeldInv, NEW e \in Executors, NEW i \in Ids, NEW intent \in Intents,
         NEW p \in Producers, Receive(e, i, intent, p)
  PROVE  HeldInv'
<1>1. /\ UNCHANGED <<reqState, reqBody, proc, wk>>
      /\ hd[e].pc = "idle" /\ hd'[e].pc = "accept"
      /\ \A x \in Executors : x # e => hd'[x] = hd[x]
  BY DEF Receive, Idle, ledgerVars, IInv, VolatileTypeOK
<1> QED
  BY <1>1 DEF HeldInv, InFlight, Owner, Handled, ExecutorOf, Executors

\* A handler step that leaves the workers alone: the rows of other handlers stay, and
\* the one at hand is handled, or not in flight, afterwards.
LEMMA HandlerMovesHeld ==
  ASSUME IInv, FInv, HeldInv, NEW e \in Executors,
         hd[e].pc # "idle", hd[e].pc # "perform",
         UNCHANGED <<proc, wk>>,
         \A i \in Ids : reqState[i] # "ABSENT" => reqBody'[i] = reqBody[i],
         \A x \in Executors : x # e => hd'[x] = hd[x],
         hd'[e].id = hd[e].id \/ hd'[e].pc = "idle",
         hd'[e].pc # "perform",
         hd'[e].pc = "nothread" => wk[hd[e].id] = "none",
         \A i \in Ids : InFlight(i)' /\ (i # hd[e].id \/ hd[e].pc = "accept") => InFlight(i),
         \A i \in Ids : InFlight(i)' /\ i = hd[e].id /\ hd[e].pc # "accept" =>
           /\ Owner(i)' = e /\ hd'[e].id = i
           /\ hd'[e].pc \in {"revalidate", "boundary", "nothread"}
  PROVE  HeldInv'
<1>1. \A i \in Ids : InFlight(i) \/ wk[i] # "none" => reqState[i] # "ABSENT"
  BY DEF InFlight, FInv, WorkInv
<1>2. ASSUME NEW i \in Ids, InFlight(i)', proc'[Owner(i)'] = "up"
      PROVE  Handled(i)' \/ wk'[i] # "none"
  <2>1. CASE i = hd[e].id /\ hd[e].pc # "accept"
    BY <1>2, <2>1 DEF Handled, Owner
  <2>2. CASE i # hd[e].id \/ hd[e].pc = "accept"
    <3>1. InFlight(i) /\ reqBody'[i] = reqBody[i]
      BY <1>1, <1>2, <2>2
    <3>2. Handled(i) \/ wk[i] # "none"
      BY <1>2, <3>1 DEF HeldInv, Owner
    <3>3. CASE Handled(i)
      <4>1. hd[Owner(i)].id = i /\ hd[Owner(i)].pc \in {"revalidate", "boundary", "nothread"}
        BY <3>3 DEF Handled, Owner
      <4>2. Owner(i) # e /\ Owner(i) \in Executors
        BY <2>2, <4>1 DEF Owner, ExecutorOf, Executors
      <4> QED
        BY <3>1, <4>1, <4>2 DEF Handled, Owner
    <3> QED
      BY <3>2, <3>3
  <2> QED
    BY <2>1, <2>2
<1>3. \A i \in Ids : wk'[i] # "none" => wk'[i] \in WorkOf(reqBody'[i].intent)
  BY <1>1 DEF HeldInv
<1>4. \A x \in Executors : hd'[x].pc = "nothread" => wk'[hd'[x].id] = "none"
  BY DEF HeldInv
<1>5. \A i \in Ids : wk'[i] # "none" /\ reqBody'[i].intent = ESCALATE =>
        hd'["adapter"].pc = "perform" /\ hd'["adapter"].id = i
  BY <1>1 DEF HeldInv, Executors
<1> QED
  BY <1>2, <1>3, <1>4, <1>5 DEF HeldInv

\* The handler moves on with the row it holds, gives it to a worker, or stores its
\* outcome.
LEMMA HandlerHeld ==
  ASSUME IInv, FInv, HeldInv, NEW e \in Executors, HandlerStep(e)
  PROVE  HeldInv'
<1>a. PICK i \in Ids : i = hd[e].id
  BY DEF HandlerStep, HandleAccept, HandleStart, HandleRevalidate, HandleBoundary,
     HandleNoThread, At, IInv, HandlerInv
<1>0. /\ proc[e] = "up" /\ hd[e].pc \in {"accept", "start", "revalidate", "boundary", "nothread"}
      /\ UNCHANGED proc
      /\ \A x \in Executors : x # e => hd'[x] = hd[x]
  <2>1. /\ proc[e] = "up"
        /\ hd[e].pc \in {"accept", "start", "revalidate", "boundary", "nothread"}
        /\ UNCHANGED proc /\ (Finish(e) \/ \E pc : Goto(e, pc))
    BY DEF HandlerStep, HandleAccept, HandleStart, HandleRevalidate, HandleBoundary,
       HandleNoThread, At
  <2> QED
    BY <2>1, HandlerMoves DEF IInv
<1>1. \A j \in Ids : reqState[j] # "ABSENT" => reqBody'[j] = reqBody[j]
  BY BodiesKept DEF Next
<1>2. CASE HandleAccept(e)
  <2>1. /\ hd[e].pc = "accept" /\ UNCHANGED wk
        /\ (Finish(e) \/ Goto(e, "start"))
        /\ UNCHANGED reqState \/ Accept(i, hd[e].req)
    BY <1>2, <1>a DEF HandleAccept, At, ledgerVars
  <2>2. \A j \in Ids : InFlight(j)' => InFlight(j)
    BY <2>1 DEF InFlight, Accept, IInv, LedgerInv, LedgerTypeOK
  <2>3. /\ hd'[e].id = i \/ hd'[e].pc = "idle"
        /\ hd'[e].pc \in {"start", "idle"}
    BY <1>a, <2>1, HandlerMoves DEF IInv
  <2> QED
    BY <1>a, <1>0, <1>1, <2>1, <2>2, <2>3, HandlerMovesHeld
<1>3. ASSUME hd[e].pc \in PastAccept, UNCHANGED <<wk, reqBody>>,
             \/ \E pc \in {"revalidate", "boundary", "nothread"} : Goto(e, pc)
             \/ Finish(e) /\ reqState'[i] # "EXECUTION_STARTED",
             hd'[e].pc = "nothread" => wk[i] = "none",
             \A j \in Ids : reqState'[j] = "EXECUTION_STARTED" /\ j # i => InFlight(j)
      PROVE  HeldInv'
  <2>1. Owner(i) = e /\ Owner(i)' = e
    BY <1>a, <1>3, HolderOwns DEF Owner
  <2>2. /\ \/ hd'[e].pc = "idle" /\ ~InFlight(i)'
           \/ hd'[e].id = i /\ hd'[e].pc \in {"revalidate", "boundary", "nothread"}
        /\ hd'[e].pc # "perform"
    BY <1>a, <1>3, HandlerMoves DEF IInv, InFlight
  <2>3. \A j \in Ids : InFlight(j)' /\ j # i => InFlight(j)
    BY <1>3 DEF InFlight
  <2> QED
    BY <1>a, <1>0, <1>1, <1>3, <2>1, <2>2, <2>3, HandlerMovesHeld DEF PastAccept
<1>4. \A from, to, scopeTo : Transition(i, from, to, scopeTo) =>
        /\ UNCHANGED reqBody
        /\ \A j \in Ids : j # i => reqState'[j] = reqState[j]
        /\ reqState[i] = from => reqState'[i] = to
        /\ reqState[i] # from => reqState'[i] = reqState[i]
  BY DEF Transition, ledgerVars, IInv, LedgerInv, LedgerTypeOK
<1>5. CASE HandleStart(e)
  <2>1. hd[e].pc = "start" /\ reqState[i] = "ACCEPTED"
    BY <1>a, <1>5 DEF HandleStart, At, FInv, HolderInv, Holds, PairInv, ConcludedFence
  <2>2. /\ UNCHANGED wk /\ Goto(e, "revalidate")
        /\ Transition(i, "ACCEPTED", "EXECUTION_STARTED", "EXECUTION_STARTED")
    BY <1>a, <1>5, <2>1 DEF HandleStart
  <2>3. hd'[e].pc = "revalidate"
    BY <2>2, HandlerMoves DEF IInv
  <2> QED
    BY <1>3, <1>4, <2>1, <2>2, <2>3 DEF PastAccept, InFlight
<1>6. CASE HandleRevalidate(e)
  <2>1. /\ hd[e].pc = "revalidate" /\ UNCHANGED wk
        /\ \/ Goto(e, "boundary") /\ UNCHANGED <<reqState, reqBody>>
           \/ /\ Finish(e)
              /\ Transition(i, "EXECUTION_STARTED", "EFFECT_FAILED", "EFFECT_FAILED")
    BY <1>a, <1>6 DEF HandleRevalidate, At, ledgerVars
  <2>2. hd'[e].pc # "nothread"
    BY <2>1, HandlerMoves DEF IInv
  <2>3. CASE Goto(e, "boundary") /\ UNCHANGED <<reqState, reqBody>>
    BY <1>3, <2>1, <2>2, <2>3 DEF PastAccept, InFlight
  <2>4. CASE /\ Finish(e)
             /\ Transition(i, "EXECUTION_STARTED", "EFFECT_FAILED", "EFFECT_FAILED")
    <3>1. reqState'[i] # "EXECUTION_STARTED"
      BY <1>4, <2>4
    <3> QED
      BY <1>3, <1>4, <2>1, <2>2, <2>4, <3>1 DEF PastAccept, InFlight
  <2> QED
    BY <2>1, <2>3, <2>4
<1>7. CASE HandleNoThread(e)
  <2>1. /\ hd[e].pc = "nothread" /\ UNCHANGED wk /\ Finish(e)
        /\ Transition(i, "EXECUTION_STARTED", "OUTCOME_UNKNOWN", "OUTCOME_UNKNOWN")
    BY <1>a, <1>7 DEF HandleNoThread, At
  <2>2. hd'[e].pc # "nothread"
    BY <2>1, HandlerMoves DEF IInv
  <2>3. reqState'[i] # "EXECUTION_STARTED"
    BY <1>4, <2>1
  <2> QED
    BY <1>3, <1>4, <2>1, <2>2, <2>3 DEF PastAccept, InFlight
<1>8. CASE HandleBoundary(e)
  <2>1. /\ hd[e].pc = "boundary" /\ wk[i] = "none" /\ Owner(i) = e
        /\ reqState[i] # "ABSENT"
    BY <1>a, <1>8, HolderOwns DEF HandleBoundary, At, PastAccept, FInv, HolderInv, Holds
  <2>2. CASE e = "engine" /\ MarkEffectBoundary(i) /\ Goto(e, "nothread") /\ UNCHANGED wk
    BY <1>3, <2>1, <2>2 DEF MarkEffectBoundary, PastAccept, InFlight
  <2>3. CASE /\ Transition(i, "EXECUTION_STARTED", "OUTCOME_UNKNOWN", "OUTCOME_UNKNOWN")
             /\ Finish(e) /\ UNCHANGED wk
    <3>1. reqState'[i] # "EXECUTION_STARTED"
      BY <1>4, <2>3
    <3>2. hd'[e].pc # "nothread"
      BY <2>3, HandlerMoves DEF IInv
    <3> QED
      BY <1>3, <1>4, <2>1, <2>3, <3>1, <3>2 DEF PastAccept, InFlight
  <2>4. CASE /\ MarkEffectBoundary(i) /\ wk' = [wk EXCEPT ![i] = "begin"]
             /\ \/ e = "engine" /\ Finish(e)
                \/ e = "adapter" /\ Goto(e, "perform")
    <3>1. /\ UNCHANGED <<reqState, reqBody, proc>>
          /\ wk'[i] = "begin" /\ \A j \in Ids : j # i => wk'[j] = wk[j]
      BY <1>0, <2>4 DEF MarkEffectBoundary, IInv, VolatileTypeOK
    <3>2. /\ hd'[e].pc # "nothread"
          /\ e = "adapter" => hd'[e].pc = "perform" /\ hd'[e].id = i
      BY <1>a, <2>4, HandlerMoves DEF IInv
    <3>3. ASSUME NEW j \in Ids, InFlight(j)', proc'[Owner(j)'] = "up", j # i
          PROVE  Handled(j)' \/ wk'[j] # "none"
      <4>1. Handled(j) \/ wk[j] # "none"
        BY <3>1, <3>3 DEF HeldInv, InFlight, Owner
      <4>2. hd[Owner(j)].id = j => Owner(j) # e
        BY <1>a, <3>3
      <4>3. Owner(j) \in Executors
        BY DEF Owner, ExecutorOf, Executors
      <4> QED
        BY <1>0, <3>1, <3>3, <4>1, <4>2, <4>3 DEF Handled, Owner
    <3>4. ASSUME NEW x \in Executors, hd'[x].pc = "nothread"
          PROVE  wk'[hd'[x].id] = "none"
      <4>1. x # e /\ hd'[x] = hd[x] /\ hd[x].pc = "nothread"
        BY <1>0, <3>2, <3>4
      <4>2. hd[x].id \in Ids /\ hd[x].id # i
        BY <1>a, <2>1, <4>1, HoldersApart, HolderOwns DEF FInv, PastAccept
      <4> QED
        BY <3>1, <4>1, <4>2 DEF HeldInv
    <3>5. ASSUME NEW j \in Ids, wk'[j] # "none", reqBody'[j].intent = ESCALATE
          PROVE  hd'["adapter"].pc = "perform" /\ hd'["adapter"].id = j
      <4>1. CASE j = i
        BY <2>1, <3>1, <3>2, <3>5, <4>1 DEF Owner, ExecutorOf
      <4>2. CASE j # i
        <5>1. hd["adapter"].pc = "perform"
          BY <3>1, <3>5, <4>2 DEF HeldInv
        <5>2. e # "adapter"
          BY <2>1, <5>1
        <5> QED
          BY <1>0, <3>1, <3>5, <4>2, <5>2 DEF HeldInv, Executors
      <4> QED
        BY <4>1, <4>2
    <3> QED
      BY <3>1, <3>3, <3>4, <3>5 DEF HeldInv, WorkOf
  <2> QED
    BY <1>a, <1>8, <2>2, <2>3, <2>4 DEF HandleBoundary
<1> QED
  BY <1>2, <1>5, <1>6, <1>7, <1>8 DEF HandlerStep

\* What a worker may do before it stores its result.
LEMMA WorkerMoves ==
  ASSUME IInv, FInv, NEW i \in Ids, WorkerStep(i), ~PersistResult(i)
  PROVE  /\ proc[Owner(i)] = "up" /\ wk[i] # "none" /\ reqState[i] # "ABSENT"
         /\ \E pc \in WorkOf(reqBody[i].intent) : wk' = [wk EXCEPT ![i] = pc]
         /\ UNCHANGED <<ledgerVars, proc, hd>>
<1> USE DEF Invoke, Settle, EffectStep, Working, WorkOf, Owner, RESTART, RECONCILE, ESCALATE
<1>0. wk[i] # "none" => reqState[i] # "ABSENT"
  BY DEF FInv, WorkInv
<1>1. CASE ArmRestart(i) \/ SendTerm(i) \/ ObserveExit(i) \/ ExitTimeout(i)
  BY <1>0, <1>1 DEF ArmRestart, SendTerm, ObserveExit, ExitTimeout
<1>2. CASE BeginReconcile(i) \/ AwaitChild(i)
  BY <1>0, <1>2 DEF BeginReconcile, AwaitChild
<1>3. CASE RunRollout(i) \/ RolloutReturns(i)
  BY <1>0, <1>3 DEF RunRollout, RolloutReturns
<1> QED
  BY <1>1, <1>2, <1>3 DEF WorkerStep

\* A worker keeps its effect until the result is stored; the adapter then is done
\* with that very row.
LEMMA WorkerHeld ==
  ASSUME ~StorageFaults, IInv, FInv, HeldInv, NEW i \in Ids, WorkerStep(i)
  PROVE  HeldInv'
<1>0. wk \in [Ids -> WorkerSteps]
  BY DEF IInv, VolatileTypeOK
<1>1. CASE ~PersistResult(i)
  <2>1. PICK pc \in WorkOf(reqBody[i].intent) :
          /\ wk' = [wk EXCEPT ![i] = pc] /\ wk[i] # "none"
          /\ UNCHANGED <<reqState, reqBody, proc, hd>>
    BY <1>1, WorkerMoves DEF ledgerVars
  <2>2. /\ pc # "none" /\ wk'[i] = pc
        /\ \A j \in Ids : j # i => wk'[j] = wk[j]
        /\ \A j \in Ids : wk'[j] # "none" <=> wk[j] # "none"
    BY <1>0, <2>1 DEF WorkOf
  <2>3. \A e \in Executors : hd[e].pc = "nothread" => hd[e].id \in Ids
    BY DEF IInv, HandlerInv
  <2> QED
    BY <2>1, <2>2, <2>3 DEF HeldInv, InFlight, Handled, Owner
<1>2. CASE PersistResult(i)
  <2>1. /\ wk[i] # "none" /\ wk'[i] = "none"
        /\ \A j \in Ids : j # i => wk'[j] = wk[j]
        /\ UNCHANGED <<reqBody, proc>>
        /\ reqState'[i] # "EXECUTION_STARTED"
        /\ \A j \in Ids : j # i => reqState'[j] = reqState[j]
    BY <1>0, <1>2 DEF PersistResult, Transition, ledgerVars, ResultState, IInv, LedgerInv,
       LedgerTypeOK
  <2>2. CASE Owner(i) = "adapter"
    <3>1. reqBody[i].intent = ESCALATE
      BY <2>2 DEF Owner, ExecutorOf
    <3>2. hd["adapter"].pc = "perform" /\ hd["adapter"].id = i
      BY <2>1, <3>1 DEF HeldInv
    <3>3. /\ hd'["adapter"].pc = "idle" /\ hd'["engine"] = hd["engine"]
      BY <1>2, <2>2, HandlerMoves DEF PersistResult, Owner, Executors, IInv
    <3>4. \A j \in Ids : j # i /\ wk[j] # "none" => reqBody[j].intent # ESCALATE
      BY <3>2 DEF HeldInv
    <3>5. \A e \in Executors : hd'[e].pc = "nothread" =>
            hd[e].pc = "nothread" /\ hd'[e].id = hd[e].id /\ hd[e].id \in Ids
      BY <3>3 DEF Executors, IInv, HandlerInv
    <3>6. \A j \in Ids : InFlight(j)' /\ proc'[Owner(j)'] = "up" => Handled(j)' \/ wk'[j] # "none"
      BY <2>1, <3>2, <3>3 DEF HeldInv, InFlight, Handled, Owner, ExecutorOf, Executors
    <3> QED
      BY <2>1, <3>4, <3>5, <3>6 DEF HeldInv
  <2>3. CASE Owner(i) # "adapter"
    <3>1. UNCHANGED hd
      BY <1>2, <2>3 DEF PersistResult, Owner
    <3>2. \A e \in Executors : hd[e].pc = "nothread" => hd[e].id \in Ids
      BY DEF IInv, HandlerInv
    <3> QED
      BY <2>1, <3>1, <3>2 DEF HeldInv, InFlight, Handled, Owner
  <2> QED
    BY <2>2, <2>3
<1> QED
  BY <1>1, <1>2

LEMMA NextHeld ==
  ASSUME ~StorageFaults, IInv, FInv, HeldInv, [Next]_vars
  PROVE  HeldInv'
<1>1. ASSUME NEW e \in Executors, HandlerFault(e)
      PROVE  FALSE
  BY <1>1 DEF HandlerFault
<1>2. CASE \/ \E i \in Ids : ReconcileObserved(i) \/ ReconcileRetired(i)
           \/ \E p \in Producers : HandOffAuthority(p)
           \/ SpawnChild \/ ChildExits \/ PublishSnapshot
           \/ UNCHANGED vars
  <2>1. UNCHANGED <<reqState, reqBody, proc, hd, wk>>
    BY <1>2 DEF ReconcileObserved, RecordEffectObserved, ReconcileRetired,
       RecordTargetRetirement, HandOffAuthority, SwitchAuthority, SpawnChild,
       ChildExits, PublishSnapshot, vars, ledgerVars, volatileVars
  <2> QED
    BY <2>1, HeldStays
<1> QED
  BY <1>1, <1>2, ProcessHeld, ReceiveHeld, HandlerHeld, WorkerHeld DEF Next

\* A row is either with the handler or with a worker, never with both.
LEMMA HeldOnce ==
  ASSUME FInv, HeldInv
  PROVE  InFlightIsHeld
<1> SUFFICES ASSUME NEW i \in Ids, InFlight(i), proc[Owner(i)] = "up"
             PROVE  \/ Handled(i) /\ wk[i] = "none"
                    \/ ~Handled(i) /\ wk[i] \in WorkOf(reqBody[i].intent)
  BY DEF InFlightIsHeld, InFlight, Owner
<1>1. Owner(i) \in Executors
  BY DEF Owner, ExecutorOf, Executors
<1>2. Handled(i) => wk[i] = "none"
  BY <1>1 DEF Handled, Owner, FInv, HolderInv, Holds, HeldInv
<1> QED
  BY <1>2 DEF HeldInv

\* With a ledger that does not fail, an effect that started is in the hands of
\* exactly one thread for as long as its process lives.
THEOREM EffectsAreHeld ==
  ASSUME ~StorageFaults
  PROVE  Spec => []InFlightIsHeld
<1>1. Init => HeldInv
  BY DEF Init, LedgerInit, HeldInv, InFlight, Idle, Executors
<1>2. IInv /\ FInv /\ HeldInv /\ [Next]_vars => HeldInv'
  BY NextHeld
<1>3. FInv /\ HeldInv => InFlightIsHeld
  BY HeldOnce
<1> QED
  BY <1>1, <1>2, <1>3, FencesHold, PTL DEF Spec

-----------------------------------------------------------------------------
(* How far an effect is from its outcome.                                  *)

WorkerDistance(pc) ==
  CASE pc = "begin" -> 4
    [] pc = "armed" -> 3
    [] pc = "signalled" -> 2
    [] pc \in {"killed", "woken", "rolling"} -> 1
    [] OTHER -> 0

HandlerDistance(pc) ==
  CASE pc = "revalidate" -> 7
    [] pc = "boundary" -> 6
    [] OTHER -> 5

\* The steps that are left, the restart of a dead process included.
Distance(i) ==
  IF proc[Owner(i)] = "down" THEN 9
  ELSE IF proc[Owner(i)] = "migrated" THEN 8
  ELSE IF Handled(i) THEN HandlerDistance(hd[Owner(i)].pc)
  ELSE WorkerDistance(wk[i])

\* A step of the thread, or the restart of the process, that an effect waits for.
HolderStep(i) ==
  \/ StartProcess(Owner(i)) \/ OpenLedger(Owner(i))
  \/ Handled(i) /\ HandlerStep(Owner(i))
  \/ WorkerStep(i)

\* While an effect is in flight, each step of its holder brings it nearer to its
\* outcome, and only the death of the process takes it further away.
Progress ==
  \A i \in Ids : InFlight(i) /\ InFlight(i)' =>
    /\ HolderStep(i) => Distance(i)' < Distance(i)
    /\ Distance(i)' > Distance(i) => Crash(Owner(i))

\* A step that moves neither the process nor the holder keeps the distance.
LEMMA DistanceStays ==
  ASSUME NEW i \in Ids, reqBody'[i] = reqBody[i], wk'[i] = wk[i],
         proc'[Owner(i)] = proc[Owner(i)], Handled(i)' <=> Handled(i),
         Handled(i) => hd'[Owner(i)].pc = hd[Owner(i)].pc
  PROVE  Distance(i)' = Distance(i)
<1>1. Owner(i)' = Owner(i)
  BY DEF Owner
<1> QED
  BY <1>1 DEF Distance

\* A started row of a live process: its distance is that of its holder.
LEMMA DistanceUp ==
  ASSUME InFlightIsHeld, NEW i \in Ids, InFlight(i), proc[Owner(i)] = "up"
  PROVE  /\ Handled(i) => /\ wk[i] = "none"
                          /\ Distance(i) = HandlerDistance(hd[Owner(i)].pc)
         /\ ~Handled(i) => wk[i] # "none" /\ Distance(i) = WorkerDistance(wk[i])
BY DEF InFlightIsHeld, InFlight, Owner, Distance, WorkOf

\* The handler that holds a started row passes it on.
LEMMA HandlerNearer ==
  ASSUME IInv, FInv, InFlightIsHeld, InFlightIsHeld', NEW i \in Ids, InFlight(i), InFlight(i)',
         Handled(i), HandlerStep(Owner(i))
  PROVE  Distance(i)' < Distance(i)
<1> DEFINE e == Owner(i)
<1>0. /\ e \in Executors /\ e' = e /\ hd[e].id = i /\ proc[e] = "up" /\ UNCHANGED <<proc, reqBody>>
      /\ hd[e].pc \in {"revalidate", "boundary", "nothread"}
  <2>1. hd[e].id = i /\ hd[e].pc \in {"revalidate", "boundary", "nothread"} /\ e \in Executors
    BY DEF Handled, Owner, ExecutorOf, Executors
  <2>2. HandleRevalidate(e) \/ HandleBoundary(e) \/ HandleNoThread(e)
    BY <2>1 DEF HandlerStep, HandleAccept, HandleStart, At
  <2>3. proc[e] = "up" /\ UNCHANGED <<proc, reqBody>>
    BY <2>2 DEF HandleRevalidate, HandleBoundary, HandleNoThread, At, Transition,
       MarkEffectBoundary, ledgerVars
  <2> QED
    BY <2>1, <2>3 DEF Owner
<1>1. Distance(i) = HandlerDistance(hd[e].pc)
  BY <1>0, DistanceUp
<1>2. CASE HandleRevalidate(e)
  <2>1. Goto(e, "boundary") /\ hd[e].pc = "revalidate"
    BY <1>0, <1>2 DEF HandleRevalidate, At, Transition, InFlight, IInv, LedgerInv, LedgerTypeOK
  <2>2. hd'[e].pc = "boundary" /\ hd'[e].id = i
    BY <1>0, <2>1, HandlerMoves DEF IInv
  <2>3. Handled(i)'
    BY <1>0, <2>2 DEF Handled, Owner
  <2> QED
    BY <1>0, <1>1, <2>1, <2>2, <2>3 DEF Distance, HandlerDistance
<1>3. CASE HandleBoundary(e)
  <2>1. /\ hd[e].pc = "boundary"
        /\ \/ Goto(e, "nothread")
           \/ wk' = [wk EXCEPT ![i] = "begin"]
    BY <1>0, <1>3 DEF HandleBoundary, At, Transition, InFlight, IInv, LedgerInv, LedgerTypeOK
  <2>2. CASE Goto(e, "nothread")
    <3>1. hd'[e].pc = "nothread" /\ hd'[e].id = i
      BY <1>0, <2>2, HandlerMoves DEF IInv
    <3>2. Handled(i)'
      BY <1>0, <3>1 DEF Handled, Owner
    <3> QED
      BY <1>0, <1>1, <2>1, <3>1, <3>2 DEF Distance, HandlerDistance
  <2>3. CASE wk' = [wk EXCEPT ![i] = "begin"]
    <3>1. wk'[i] = "begin"
      BY <2>3 DEF IInv, VolatileTypeOK
    <3>2. ~Handled(i)'
      BY <1>0, <3>1 DEF InFlightIsHeld, InFlight, Owner, Handled
    <3> QED
      BY <1>0, <1>1, <2>1, <3>1, <3>2 DEF Distance, HandlerDistance, WorkerDistance
  <2> QED
    BY <2>1, <2>2, <2>3
<1>4. ~HandleNoThread(e)
  BY <1>0 DEF HandleNoThread, Transition, InFlight, IInv, LedgerInv, LedgerTypeOK
<1> QED
  BY <1>0, <1>2, <1>3, <1>4 DEF HandlerStep, HandleAccept, HandleStart, At

\* The worker of a started row takes the next step of its effect.
LEMMA WorkerNearer ==
  ASSUME ~StorageFaults, IInv, FInv, InFlightIsHeld, NEW i \in Ids, InFlight(i), InFlight(i)', WorkerStep(i)
  PROVE  Distance(i)' < Distance(i)
<1>1. ~PersistResult(i)
  BY DEF PersistResult, Transition, ResultState, InFlight, IInv, LedgerInv, LedgerTypeOK
<1>2. /\ proc[Owner(i)] = "up" /\ wk[i] # "none" /\ UNCHANGED <<reqBody, proc, hd>>
      /\ \E pc \in WorkOf(reqBody[i].intent) : wk' = [wk EXCEPT ![i] = pc]
  BY <1>1, WorkerMoves DEF ledgerVars
<1>3. ~Handled(i) /\ ~Handled(i)' /\ Owner(i)' = Owner(i)
  BY <1>2, DistanceUp DEF Handled, Owner
<1>4. WorkerDistance(wk'[i]) < WorkerDistance(wk[i])
  <2> USE DEF Settle, Invoke, EffectStep, Working, WorkerDistance, IInv, VolatileTypeOK
  <2>1. CASE ArmRestart(i) \/ SendTerm(i) \/ ObserveExit(i)
    BY <2>1 DEF ArmRestart, SendTerm, ObserveExit
  <2>2. CASE ExitTimeout(i)
    BY <2>2 DEF ExitTimeout
  <2>3. CASE BeginReconcile(i) \/ AwaitChild(i)
    BY <2>3 DEF BeginReconcile, AwaitChild
  <2>4. CASE RunRollout(i) \/ RolloutReturns(i)
    BY <2>4 DEF RunRollout, RolloutReturns
  <2> QED
    BY <1>1, <2>1, <2>2, <2>3, <2>4 DEF WorkerStep
<1>5. Distance(i) = WorkerDistance(wk[i]) /\ Distance(i)' = WorkerDistance(wk'[i])
  BY <1>2, <1>3 DEF Distance
<1> QED
  BY <1>4, <1>5

\* Every step of the holder brings the effect nearer to its outcome.
LEMMA HolderNearer ==
  ASSUME ~StorageFaults, IInv, FInv, InFlightIsHeld, InFlightIsHeld', NEW i \in Ids,
         InFlight(i), InFlight(i)', HolderStep(i)
  PROVE  Distance(i)' < Distance(i)
<1>0. Owner(i) \in Executors
  BY DEF Owner, ExecutorOf, Executors
<1>1. CASE StartProcess(Owner(i))
  <2>1. Distance(i) = 9
    BY <1>1 DEF StartProcess, Distance
  <2>2. proc'[Owner(i)] = "migrated" /\ UNCHANGED reqBody
    BY <1>0, <1>1 DEF StartProcess, BackfillFences, IInv, VolatileTypeOK
  <2>3. Distance(i)' = 8
    BY <2>2 DEF Distance, Owner
  <2> QED
    BY <2>1, <2>3
<1>2. ~OpenLedger(Owner(i))
  BY DEF OpenLedger, ReconcileStarted, InFlight
<1> QED
  BY <1>1, <1>2, HandlerNearer, WorkerNearer DEF HolderStep

\* A handler at work on another row leaves this one where it is.
LEMMA OtherHandler ==
  ASSUME IInv, FInv, InFlightIsHeld, InFlightIsHeld', NEW i \in Ids, InFlight(i), InFlight(i)',
         NEW e \in Executors, HandlerStep(e), ~(e = Owner(i) /\ Handled(i))
  PROVE  Distance(i)' = Distance(i)
<1>0. /\ Owner(i) \in Executors /\ UNCHANGED proc /\ proc[e] = "up"
      /\ hd[e].pc \in {"accept", "start", "revalidate", "boundary", "nothread"}
      /\ Finish(e) \/ \E pc : Goto(e, pc)
  BY DEF HandlerStep, HandleAccept, HandleStart, HandleRevalidate, HandleBoundary,
     HandleNoThread, At, Owner, ExecutorOf, Executors
<1>1. reqBody'[i] = reqBody[i]
  BY BodiesKept DEF Next, InFlight
<1>2. wk'[i] = wk[i]
  <2>1. \/ UNCHANGED wk
        \/ hd[e].pc = "boundary" /\ wk' = [wk EXCEPT ![hd[e].id] = "begin"]
    BY DEF HandlerStep, HandleAccept, HandleStart, HandleRevalidate, HandleBoundary,
       HandleNoThread, At
  <2>2. hd[e].pc = "boundary" => hd[e].id \in Ids /\ Owner(hd[e].id) = e
    BY HolderOwns DEF PastAccept
  <2>3. hd[e].pc = "boundary" => hd[e].id # i
    BY <2>2 DEF Handled, Owner
  <2> QED
    BY <2>1, <2>2, <2>3 DEF IInv, VolatileTypeOK
<1>3. CASE e # Owner(i)
  <2>1. hd'[Owner(i)] = hd[Owner(i)]
    BY <1>0, <1>3, HandlerMoves DEF IInv
  <2> QED
    BY <1>0, <1>1, <1>2, <2>1, DistanceStays DEF Handled, Owner
<1>4. CASE e = Owner(i)
  <2>1. ~Handled(i) /\ wk[i] # "none"
    BY <1>0, <1>4, DistanceUp
  <2>2. Owner(i)' = Owner(i) /\ proc'[Owner(i)] = "up"
    BY <1>0, <1>1, <1>4 DEF Owner
  <2>3. ~Handled(i)'
    BY <1>2, <2>1, <2>2 DEF InFlightIsHeld, InFlight, Owner
  <2> QED
    BY <1>0, <1>1, <1>2, <2>1, <2>3, DistanceStays
<1> QED
  BY <1>3, <1>4

\* Nothing but the holder or a crash of its process moves an effect in flight.
LEMMA OthersStay ==
  ASSUME ~StorageFaults, IInv, FInv, HeldInv, InFlightIsHeld, InFlightIsHeld', [Next]_vars,
         NEW i \in Ids, InFlight(i), InFlight(i)', ~HolderStep(i), ~Crash(Owner(i))
  PROVE  Distance(i)' = Distance(i)
<1> USE DEF ledgerVars, volatileVars
<1>0. /\ Owner(i) \in Executors /\ reqBody[i] # NoBody
      /\ DOMAIN proc = Executors /\ DOMAIN hd = Executors /\ DOMAIN wk = Ids
  BY DEF Owner, ExecutorOf, Executors, InFlight, IInv, LedgerInv, RowsTogether, VolatileTypeOK
<1>1. ASSUME NEW e \in Executors, StartProcess(e) \/ OpenLedger(e) \/ Crash(e)
      PROVE  Distance(i)' = Distance(i)
  <2>1. e # Owner(i)
    BY <1>1 DEF HolderStep
  <2>2. /\ UNCHANGED reqBody /\ wk'[i] = wk[i]
        /\ proc'[Owner(i)] = proc[Owner(i)] /\ hd'[Owner(i)] = hd[Owner(i)]
    BY <1>0, <1>1, <2>1 DEF StartProcess, BackfillFences, OpenLedger, ReconcileStarted, Crash, Owner
  <2> QED
    BY <2>2, DistanceStays DEF Handled, Owner
<1>2. ASSUME NEW e \in Executors, HandlerStep(e)
      PROVE  Distance(i)' = Distance(i)
  BY <1>2, OtherHandler DEF HolderStep
<1>3. ASSUME NEW e \in Executors, NEW j \in Ids, NEW intent \in Intents, NEW p \in Producers,
             Receive(e, j, intent, p)
      PROVE  Distance(i)' = Distance(i)
  <2>1. /\ UNCHANGED <<reqBody, proc, wk>>
        /\ hd[e].pc = "idle" /\ hd'[e].pc = "accept"
        /\ \A x \in Executors : x # e => hd'[x] = hd[x]
    BY <1>0, <1>3 DEF Receive, Idle
  <2>2. hd'[Owner(i)] = hd[Owner(i)] \/ (~Handled(i) /\ ~Handled(i)')
    BY <1>0, <2>1 DEF Handled, Owner
  <2> QED
    BY <2>1, <2>2, DistanceStays DEF Handled, Owner
<1>4. ASSUME NEW j \in Ids, WorkerStep(j)
      PROVE  Distance(i)' = Distance(i)
  <2>1. j # i
    BY <1>4 DEF HolderStep
  <2>2. CASE ~PersistResult(j)
    <3>1. UNCHANGED <<reqBody, proc, hd>> /\ wk'[i] = wk[i]
      BY <1>0, <1>4, <2>1, <2>2, WorkerMoves
    <3> QED
      BY <3>1, DistanceStays DEF Handled, Owner
  <2>3. CASE PersistResult(j)
    <3>1. /\ UNCHANGED <<reqBody, proc>> /\ wk'[i] = wk[i] /\ wk[j] # "none"
          /\ IF Owner(j) = "adapter" THEN Finish("adapter") ELSE UNCHANGED hd
      BY <1>0, <2>1, <2>3 DEF PersistResult, Transition, Owner
    <3>2. CASE Owner(j) = "adapter"
      <4>1. hd["adapter"].pc = "perform"
        BY <3>1, <3>2 DEF HeldInv, Owner, ExecutorOf
      <4>2. hd'["adapter"].pc = "idle" /\ hd'["engine"] = hd["engine"]
        BY <3>1, <3>2, HandlerMoves DEF IInv, Executors
      <4>3. hd'[Owner(i)] = hd[Owner(i)] \/ (~Handled(i) /\ ~Handled(i)')
        BY <1>0, <3>1, <4>1, <4>2 DEF Handled, Owner, Executors
      <4> QED
        BY <3>1, <4>3, DistanceStays DEF Handled, Owner
    <3>3. CASE Owner(j) # "adapter"
      BY <3>1, <3>3, DistanceStays DEF Handled, Owner
    <3> QED
      BY <3>2, <3>3
  <2> QED
    BY <2>2, <2>3
<1>5. CASE \/ \E j \in Ids : ReconcileObserved(j) \/ ReconcileRetired(j)
           \/ \E p \in Producers : HandOffAuthority(p)
           \/ SpawnChild \/ ChildExits \/ PublishSnapshot
           \/ UNCHANGED vars
  <2>1. UNCHANGED <<reqBody, proc, hd, wk>>
    BY <1>5 DEF ReconcileObserved, RecordEffectObserved, ReconcileRetired,
       RecordTargetRetirement, HandOffAuthority, SwitchAuthority, SpawnChild,
       ChildExits, PublishSnapshot, vars
  <2> QED
    BY <2>1, DistanceStays DEF Handled, Owner
<1>6. ~(\E e \in Executors : HandlerFault(e))
  BY DEF HandlerFault
<1> QED
  BY <1>1, <1>2, <1>3, <1>4, <1>5, <1>6 DEF Next

\* With a ledger that does not fail, an effect in flight comes nearer to its outcome with
\* every step of the thread that holds it, and only the death of its process sets it back.
\* As MaxInst bounds the deaths, only the scheduling of the holder, which is what the
\* fairness of FairSpec states, is missing from InFlightSettles.
THEOREM HoldersProgress ==
  ASSUME ~StorageFaults
  PROVE  Spec => [][Progress]_vars
<1>1. Init => HeldInv
  BY DEF Init, LedgerInit, HeldInv, InFlight, Idle, Executors
<1>2. IInv /\ FInv /\ HeldInv /\ [Next]_vars => HeldInv'
  BY NextHeld
<1>3. /\ IInv /\ FInv /\ HeldInv /\ InFlightIsHeld /\ InFlightIsHeld' /\ [Next]_vars
      => Progress
  <2> SUFFICES ASSUME IInv, FInv, HeldInv, InFlightIsHeld, InFlightIsHeld', [Next]_vars,
                      NEW i \in Ids, InFlight(i), InFlight(i)'
               PROVE  /\ HolderStep(i) => Distance(i)' < Distance(i)
                      /\ Distance(i)' > Distance(i) => Crash(Owner(i))
    BY DEF Progress
  <2>1. HolderStep(i) => Distance(i)' < Distance(i)
    BY HolderNearer
  <2>2. ~HolderStep(i) /\ ~Crash(Owner(i)) => Distance(i)' = Distance(i)
    BY OthersStay
  <2>3. Distance(i) \in Nat /\ Distance(i)' \in Nat
    BY DEF Distance, HandlerDistance, WorkerDistance
  <2> QED
    BY <2>1, <2>2, <2>3
<1> QED
  BY <1>1, <1>2, <1>3, FencesHold, EffectsAreHeld, PTL DEF Spec
=============================================================================

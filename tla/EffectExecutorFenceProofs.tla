--------------------- MODULE EffectExecutorFenceProofs ---------------------
(***************************************************************************)
(* Proofs about the fences of EffectExecutor, for every value of its       *)
(* constants: one effect is admitted at a time, the two views of what is   *)
(* unresolved agree, the authority stays with the owner of an admitted     *)
(* effect, outcomes are honest, and the executors implement FencedEffects. *)
(*                                                                         *)
(* accept() looks at every fence before it inserts a row, but not when it  *)
(* resumes one.  That a resumed row still owns the active fence needs that *)
(* a concluded request cannot be sent again: a conclusion names a later    *)
(* child than the one the request names, and the snapshot the identity     *)
(* check compares with never goes back to an earlier child (GensInv).      *)
(***************************************************************************)
EXTENDS EffectExecutorProofs

ActiveFence == {"ACCEPTED", "EXECUTION_STARTED", "EFFECT_BOUNDARY_REACHED"}

\* The state of a request row and of its fence go together.
PairInv ==
  \A i \in Ids :
    \/ reqState[i] = "ABSENT" /\ fence[i] = "ABSENT"
    \/ /\ reqState[i] = "ACCEPTED"
       /\ fence[i] \in {"ACCEPTED", "RECONCILED_EFFECT_OBSERVED"}
    \/ /\ reqState[i] = "EXECUTION_STARTED"
       /\ fence[i] \in {"EXECUTION_STARTED", "EFFECT_BOUNDARY_REACHED"} \cup ConcludedFence
    \/ reqState[i] = "OUTCOME_UNKNOWN" /\ fence[i] \in {"OUTCOME_UNKNOWN"} \cup ConcludedFence
    \/ /\ reqState[i] = "EFFECT_OBSERVED"
       /\ fence[i] \in {"EFFECT_OBSERVED", "EFFECT_OBSERVED_AWAITING_VERIFICATION"}
                         \cup ConcludedFence
    \/ reqState[i] = "EFFECT_FAILED" /\ fence[i] = "EFFECT_FAILED"

\* A worker exists only for a request without a known outcome, and knows whether
\* it has signalled.
WorkInv ==
  \A i \in Ids :
    /\ reqState[i] \in {"ABSENT", "ACCEPTED"} => wk[i] = "none" /\ dispatches[i] = 0
    /\ wk[i] # "none" => reqState[i] \in {"EXECUTION_STARTED", "OUTCOME_UNKNOWN"}
    /\ reqState[i] # "ABSENT" /\ reqBody[i].intent = RESTART =>
         /\ wk[i] \in {"begin", "armed", "failed"} => dispatches[i] = 0
         /\ wk[i] \in {"signalled", "killed", "observed"} => dispatches[i] = 1
         /\ reqState[i] = "EFFECT_FAILED" => dispatches[i] = 0
         /\ reqState[i] = "EFFECT_OBSERVED" => dispatches[i] = 1

PastAccept == {"start", "revalidate", "boundary", "nothread", "perform"}

\* Past accept() the handler holds the row it works on, and no worker does before
\* the boundary; a row it will resume owns the active fence.
Holds(e) ==
  /\ hd[e].pc # "idle" => hd[e].req.intent \in AllowedIntents(e)
  /\ hd[e].pc \in PastAccept => reqBody[hd[e].id] = hd[e].req
  /\ hd[e].pc \in {"start", "revalidate", "boundary"} =>
       wk[hd[e].id] = "none" /\ dispatches[hd[e].id] = 0
  /\ hd[e].pc = "start" => fence[hd[e].id] = "ACCEPTED"
  /\ hd[e].pc = "accept" /\ AcceptReplays(hd[e].id, hd[e].req) =>
       fence[hd[e].id] = "ACCEPTED"

HolderInv == \A e \in Executors : Holds(e)

\* No request names a child later than the snapshot's, and a concluded request
\* names an earlier one.
GensInv ==
  /\ snap.gen <= child.gen
  /\ \A e \in Executors : hd[e].pc # "idle" =>
       /\ hd[e].req.target.gen <= child.gen
       /\ snap.gen # 0 => hd[e].req.target.gen <= snap.gen
  /\ \A i \in Ids : reqState[i] # "ABSENT" =>
       /\ reqBody[i].target.gen <= child.gen
       /\ snap.gen # 0 => reqBody[i].target.gen <= snap.gen
       /\ reqState[i] = "ACCEPTED" /\ fence[i] # "ACCEPTED" =>
            /\ reqBody[i].intent = RESTART
            /\ reqBody[i].target.gen < child.gen
            /\ snap.gen # 0 => reqBody[i].target.gen < snap.gen

FInv ==
  /\ PairInv /\ WorkInv /\ HolderInv /\ GensInv
  /\ OneActiveFence /\ UnresolvedOwnerKeepsAuthority

-----------------------------------------------------------------------------
(* What every step rests on.                                               *)

\* Rows and busy handlers have requests, which name a child.
LEMMA Facts ==
  ASSUME IInv
  PROVE  /\ \A i \in Ids : reqState[i] # "ABSENT" =>
              reqBody[i] \in Requests /\ reqBody[i] # NoBody /\ reqBody[i].target.gen \in Nat
         /\ \A e \in Executors : hd[e].pc # "idle" =>
              /\ hd[e].id \in Ids /\ hd[e].req \in Requests /\ hd[e].req # NoBody
              /\ hd[e].req.target.gen \in Nat
         /\ snap.gen \in Nat /\ child.gen \in Nat
<1>1. \A r \in Requests : r # NoBody /\ r.target.gen \in Nat
  BY NoBodyAssumption DEF Requests, Targets
<1>2. \A i \in Ids : reqState[i] # "ABSENT" => reqBody[i] \in Requests
  BY DEF IInv, LedgerInv, LedgerTypeOK, RowsTogether
<1>3. \A e \in Executors : hd[e].pc # "idle" => hd[e].id \in Ids /\ hd[e].req \in Requests
  BY DEF IInv, HandlerInv
<1>4. snap.gen \in Nat /\ child.gen \in Nat
  BY DEF IInv, VolatileTypeOK, Targets
<1> QED BY <1>1, <1>2, <1>3, <1>4

\* The handler of an executor that does not move keeps what it holds.
LEMMA HolderStays ==
  ASSUME NEW e \in Executors, Holds(e), hd'[e] = hd[e],
         hd[e].pc \in PastAccept => reqBody'[hd[e].id] = reqBody[hd[e].id],
         hd[e].pc \in {"start", "revalidate", "boundary"} =>
           wk'[hd[e].id] = wk[hd[e].id] /\ dispatches'[hd[e].id] = dispatches[hd[e].id],
         hd[e].pc = "start" => fence'[hd[e].id] = fence[hd[e].id],
         hd[e].pc = "accept" /\ AcceptReplays(hd[e].id, hd[e].req)' =>
           \/ fence'[hd[e].id] = "ACCEPTED"
           \/ /\ AcceptReplays(hd[e].id, hd[e].req)
              /\ fence'[hd[e].id] = fence[hd[e].id]
  PROVE  Holds(e)'
BY DEF Holds, AcceptReplays, PastAccept

\* Two executors never hold the same row, because they serve different intents.
LEMMA HoldersApart ==
  ASSUME HolderInv, NEW e \in Executors, NEW x \in Executors, e # x,
         \/ hd[e].pc \in PastAccept
         \/ hd[e].pc = "accept" /\ reqBody[hd[e].id] = hd[e].req,
         \/ hd[x].pc \in PastAccept
         \/ hd[x].pc = "accept" /\ reqBody[hd[x].id] = hd[x].req
  PROVE  hd[e].id # hd[x].id
<1>1. hd[e].req.intent \in AllowedIntents(e) /\ hd[x].req.intent \in AllowedIntents(x)
  BY DEF HolderInv, Holds, PastAccept
<1>2. reqBody[hd[e].id] = hd[e].req /\ reqBody[hd[x].id] = hd[x].req
  BY DEF HolderInv, Holds
<1> QED
  BY <1>1, <1>2 DEF Executors, AllowedIntents, RESTART, RECONCILE, ESCALATE

\* Where the handlers are after a step of one of them.
LEMMA HandlerMoves ==
  ASSUME VolatileTypeOK, NEW e \in Executors, NEW pc
  PROVE  /\ Goto(e, pc) \/ Finish(e) =>
              \A x \in Executors : x # e => hd'[x] = hd[x]
         /\ Goto(e, pc) =>
              hd'[e].pc = pc /\ hd'[e].id = hd[e].id /\ hd'[e].req = hd[e].req
         /\ Finish(e) => hd'[e].pc = "idle"
BY DEF VolatileTypeOK, Goto, Finish, Idle

\* A step that moves no child and no snapshot, and no row but from a handler's
\* request, keeps the order of the children that requests name.
LEMMA GensStay ==
  ASSUME IInv, GensInv, UNCHANGED <<snap, child>>,
         \A x \in Executors : hd'[x].pc # "idle" =>
           hd[x].pc # "idle" /\ hd'[x].req = hd[x].req,
         \A i \in Ids : reqState'[i] # "ABSENT" =>
           \/ /\ reqState[i] # "ABSENT" /\ reqBody'[i] = reqBody[i]
              /\ reqState'[i] = "ACCEPTED" /\ fence'[i] # "ACCEPTED" =>
                   reqState[i] = "ACCEPTED" /\ fence[i] # "ACCEPTED"
           \/ /\ fence'[i] = "ACCEPTED"
              /\ \E x \in Executors : hd[x].pc # "idle" /\ reqBody'[i] = hd[x].req
  PROVE  GensInv'
BY DEF GensInv

\* A step that moves no row to or from ACCEPTED, no request and no worker keeps
\* what a handler holds that does not move.
LEMMA HolderUntouched ==
  ASSUME IInv, PairInv, NEW e \in Executors, Holds(e), hd'[e] = hd[e],
         UNCHANGED <<reqBody, wk, dispatches>>,
         \A i \in Ids : /\ reqState'[i] = "ACCEPTED" => reqState[i] = "ACCEPTED"
                        /\ reqState[i] = "ACCEPTED" => fence'[i] = fence[i]
  PROVE  Holds(e)'
<1>1. hd[e].pc # "idle" => hd[e].id \in Ids
  BY DEF IInv, HandlerInv
<1>2. \A i \in Ids : fence[i] = "ACCEPTED" => reqState[i] = "ACCEPTED"
  BY DEF PairInv, ConcludedFence
<1> QED BY <1>1, <1>2, HolderStays DEF Holds, PastAccept, AcceptReplays

-----------------------------------------------------------------------------
(* Processes, the child and the snapshot.                                  *)

\* The migration of a starting process finds no fence ACCEPTED beside a row that is
\* not.
LEMMA StartProcessKeeps ==
  ASSUME IInv, FInv, NEW e \in Executors, StartProcess(e)
  PROVE  FInv'
<1> USE DEF ledgerVars, volatileVars, Executors, IInv, LedgerInv, LedgerTypeOK,
           VolatileTypeOK, RowsTogether, FInv
<1>1. PairInv'
  BY DEF StartProcess, BackfillFences, PairInv, ConcludedFence
<1>2. WorkInv'
  BY DEF StartProcess, BackfillFences, WorkInv, RESTART
<1>3. HolderInv'
  <2>1. /\ UNCHANGED <<hd, reqBody, wk, dispatches>>
        /\ \A i \in Ids : /\ reqState'[i] = "ACCEPTED" => reqState[i] = "ACCEPTED"
                          /\ reqState[i] = "ACCEPTED" => fence'[i] = fence[i]
    BY DEF StartProcess, BackfillFences
  <2> QED BY <2>1, HolderUntouched DEF HolderInv
<1>4. GensInv'
  BY GensStay, HandlerMoves DEF StartProcess, BackfillFences
<1>5. OneActiveFence'
  BY DEF StartProcess, BackfillFences, OneActiveFence, PairInv
<1>6. UnresolvedOwnerKeepsAuthority'
  BY DEF StartProcess, BackfillFences, UnresolvedOwnerKeepsAuthority, PairInv
<1> QED BY <1>1, <1>2, <1>3, <1>4, <1>5, <1>6

\* Reopening the ledger turns started rows and their fences into OUTCOME_UNKNOWN.
LEMMA OpenLedgerKeeps ==
  ASSUME IInv, FInv, NEW e \in Executors, OpenLedger(e)
  PROVE  FInv'
<1> USE DEF ledgerVars, volatileVars, Executors, IInv, LedgerInv, LedgerTypeOK,
           VolatileTypeOK, RowsTogether, FInv
<1>1. PairInv'
  BY DEF OpenLedger, ReconcileStarted, PairInv, ConcludedFence
<1>2. WorkInv'
  BY DEF OpenLedger, ReconcileStarted, WorkInv, RESTART
<1>3. HolderInv'
  <2>1. /\ UNCHANGED <<hd, reqBody, wk, dispatches>>
        /\ \A i \in Ids : /\ reqState'[i] = "ACCEPTED" => reqState[i] = "ACCEPTED"
                          /\ reqState[i] = "ACCEPTED" => fence'[i] = fence[i]
    BY DEF OpenLedger, ReconcileStarted
  <2> QED BY <2>1, HolderUntouched DEF HolderInv
<1>4. GensInv'
  BY GensStay, HandlerMoves DEF OpenLedger, ReconcileStarted
<1>5. OneActiveFence'
  BY DEF OpenLedger, ReconcileStarted, OneActiveFence, PairInv
<1>6. UnresolvedOwnerKeepsAuthority'
  BY DEF OpenLedger, ReconcileStarted, UnresolvedOwnerKeepsAuthority, PairInv
<1> QED BY <1>1, <1>2, <1>3, <1>4, <1>5, <1>6

\* A crash loses handler and workers and leaves the ledger.
LEMMA CrashKeeps ==
  ASSUME IInv, FInv, NEW e \in Executors, Crash(e)
  PROVE  FInv'
<1> USE DEF ledgerVars, volatileVars, Executors, IInv, LedgerInv, LedgerTypeOK,
           VolatileTypeOK, RowsTogether, FInv
<1>1. PairInv'
  BY DEF Crash, Idle, PairInv, ConcludedFence
<1>2. WorkInv'
  BY DEF Crash, Idle, WorkInv, RESTART
<1>3. HolderInv'
  <2> SUFFICES ASSUME NEW x \in Executors PROVE Holds(x)'
    BY DEF HolderInv
  <2>1. Holds(x) /\ (hd[x].pc # "idle" => hd[x].id \in Ids)
    BY DEF HolderInv, HandlerInv
  <2>2. CASE x = e
    BY <2>2 DEF Crash, Idle, Holds, PastAccept
  <2>3. CASE x # e
    <3>1. hd'[x] = hd[x]
      BY <2>3, HandlerMoves DEF Crash
    <3> QED BY <2>1, <2>3, <3>1, HolderStays, HoldersApart DEF Holds, PairInv,
       AcceptReplays, PastAccept, Crash, Idle
  <2> QED BY <2>2, <2>3
<1>4. GensInv'
  <2>1. UNCHANGED <<ledgerVars, snap>> /\ child'.gen = child.gen
    BY DEF Crash
  <2>2. \A x \in Executors : hd'[x] = hd[x] \/ hd'[x].pc = "idle"
    BY DEF Crash, Idle
  <2> QED BY <2>1, <2>2 DEF GensInv
<1>5. OneActiveFence'
  BY DEF Crash, Idle, OneActiveFence, PairInv
<1>6. UnresolvedOwnerKeepsAuthority'
  BY DEF Crash, Idle, UnresolvedOwnerKeepsAuthority, PairInv
<1> QED BY <1>1, <1>2, <1>3, <1>4, <1>5, <1>6

\* A new child is later than every child a request names.
LEMMA SpawnChildKeeps ==
  ASSUME IInv, FInv, SpawnChild
  PROVE  FInv'
<1> USE DEF ledgerVars, volatileVars, Executors, IInv, LedgerInv, LedgerTypeOK,
           VolatileTypeOK, RowsTogether, FInv
<1>1. PairInv'
  BY DEF SpawnChild, PairInv, ConcludedFence
<1>2. WorkInv'
  BY DEF SpawnChild, WorkInv, RESTART
<1>3. HolderInv'
  <2> SUFFICES ASSUME NEW x \in Executors PROVE Holds(x)'
    BY DEF HolderInv
  <2>1. Holds(x) /\ (hd[x].pc # "idle" => hd[x].id \in Ids)
    BY DEF HolderInv, HandlerInv
  <2> QED BY <2>1, HolderStays DEF Holds, PairInv, AcceptReplays, PastAccept,
     SpawnChild
<1>4. GensInv'
  BY Facts DEF SpawnChild, GensInv, NoSnap
<1>5. OneActiveFence'
  BY DEF SpawnChild, OneActiveFence, PairInv
<1>6. UnresolvedOwnerKeepsAuthority'
  BY DEF SpawnChild, UnresolvedOwnerKeepsAuthority, PairInv
<1> QED BY <1>1, <1>2, <1>3, <1>4, <1>5, <1>6

\* An exit moves no generation.
LEMMA ChildExitsKeeps ==
  ASSUME IInv, FInv, ChildExits
  PROVE  FInv'
<1> USE DEF ledgerVars, volatileVars, Executors, IInv, LedgerInv, LedgerTypeOK,
           VolatileTypeOK, RowsTogether, FInv
<1>1. PairInv'
  BY DEF ChildExits, PairInv, ConcludedFence
<1>2. WorkInv'
  BY DEF ChildExits, WorkInv, RESTART
<1>3. HolderInv'
  <2> SUFFICES ASSUME NEW x \in Executors PROVE Holds(x)'
    BY DEF HolderInv
  <2>1. Holds(x) /\ (hd[x].pc # "idle" => hd[x].id \in Ids)
    BY DEF HolderInv, HandlerInv
  <2> QED BY <2>1, HolderStays DEF Holds, PairInv, AcceptReplays, PastAccept,
     ChildExits
<1>4. GensInv'
  BY Facts DEF ChildExits, GensInv, NoSnap
<1>5. OneActiveFence'
  BY DEF ChildExits, OneActiveFence, PairInv
<1>6. UnresolvedOwnerKeepsAuthority'
  BY DEF ChildExits, UnresolvedOwnerKeepsAuthority, PairInv
<1> QED BY <1>1, <1>2, <1>3, <1>4, <1>5, <1>6

\* A snapshot shows the running child, the latest, or none.
LEMMA PublishSnapshotKeeps ==
  ASSUME IInv, FInv, PublishSnapshot
  PROVE  FInv'
<1> USE DEF ledgerVars, volatileVars, Executors, IInv, LedgerInv, LedgerTypeOK,
           VolatileTypeOK, RowsTogether, FInv
<1>1. PairInv'
  BY DEF PublishSnapshot, PairInv, ConcludedFence
<1>2. WorkInv'
  BY DEF PublishSnapshot, WorkInv, RESTART
<1>3. HolderInv'
  <2> SUFFICES ASSUME NEW x \in Executors PROVE Holds(x)'
    BY DEF HolderInv
  <2>1. Holds(x) /\ (hd[x].pc # "idle" => hd[x].id \in Ids)
    BY DEF HolderInv, HandlerInv
  <2> QED BY <2>1, HolderStays DEF Holds, PairInv, AcceptReplays, PastAccept,
     PublishSnapshot
<1>4. GensInv'
  BY Facts DEF PublishSnapshot, GensInv, NoSnap
<1>5. OneActiveFence'
  BY DEF PublishSnapshot, OneActiveFence, PairInv
<1>6. UnresolvedOwnerKeepsAuthority'
  BY DEF PublishSnapshot, UnresolvedOwnerKeepsAuthority, PairInv
<1> QED BY <1>1, <1>2, <1>3, <1>4, <1>5, <1>6

-----------------------------------------------------------------------------
(* The handler.                                                            *)

\* A request that passes the identity check names the child of the snapshot, which
\* no concluded request does.
LEMMA ReceiveKeeps ==
  ASSUME IInv, FInv, NEW e \in Executors, NEW i \in Ids, NEW intent \in Intents, NEW p \in Producers, Receive(e, i, intent, p)
  PROVE  FInv'
<1> USE DEF ledgerVars, volatileVars, Executors, IInv, LedgerInv, LedgerTypeOK,
           VolatileTypeOK, RowsTogether, FInv
<1>1. PairInv'
  BY DEF Receive, CurrentRequest, PairInv, ConcludedFence
<1>2. WorkInv'
  BY DEF Receive, CurrentRequest, WorkInv, RESTART
<1>3. HolderInv'
  <2> DEFINE body == CurrentRequest(e, intent, p)
  <2>1. /\ hd' = [hd EXCEPT ![e] = [pc |-> "accept", id |-> i, req |-> body]]
        /\ intent \in AllowedIntents(e) /\ IdentityMatches(e, body)
        /\ body.intent = intent
    BY DEF Receive, CurrentRequest
  <2>2. UNCHANGED <<ledgerVars, wk, dispatches>>
    BY DEF Receive
  <2>3. AcceptReplays(i, body) => fence[i] = "ACCEPTED"
    <3>1. SUFFICES ASSUME reqState[i] = "ACCEPTED", reqBody[i] = body, fence[i] # "ACCEPTED"
                   PROVE  FALSE
      BY DEF AcceptReplays
    <3>2. body.intent = RESTART /\ (snap.gen # 0 => body.target.gen < snap.gen)
      BY <3>1 DEF GensInv
    <3>3. snap.gen # 0 /\ body.target = snap
      BY <2>1, <3>2 DEF IdentityMatches
    <3> QED BY <3>2, <3>3, Facts
  <2> HIDE DEF body
  <2>4. Holds(e)'
    BY <2>1, <2>2, <2>3 DEF Holds, AcceptReplays, PastAccept
  <2>5. ASSUME NEW x \in Executors, x # e PROVE Holds(x)'
    BY <2>1, <2>2, <2>5 DEF HolderInv, Holds, AcceptReplays
  <2> QED BY <2>4, <2>5 DEF HolderInv
<1>4. GensInv'
  <2> DEFINE body == CurrentRequest(e, intent, p)
  <2>1. hd' = [hd EXCEPT ![e] = [pc |-> "accept", id |-> i, req |-> body]]
    BY DEF Receive
  <2>2. UNCHANGED <<ledgerVars, snap, child>>
    BY DEF Receive
  <2>3. body.target.gen \in {snap.gen, 0}
    BY DEF CurrentRequest
  <2> HIDE DEF body
  <2>4. snap.gen <= child.gen
    BY DEF GensInv
  <2>5. ASSUME NEW x \in Executors, hd'[x].pc # "idle"
        PROVE  /\ hd'[x].req.target.gen <= child.gen
               /\ snap.gen # 0 => hd'[x].req.target.gen <= snap.gen
    <3>1. CASE x = e
      BY <2>1, <2>3, <2>4, <3>1, Facts
    <3>2. CASE x # e
      BY <2>1, <2>5, <3>2 DEF GensInv
    <3> QED BY <3>1, <3>2
  <2> QED BY <2>2, <2>5 DEF GensInv
<1>5. OneActiveFence'
  BY DEF Receive, CurrentRequest, OneActiveFence, PairInv
<1>6. UnresolvedOwnerKeepsAuthority'
  BY DEF Receive, CurrentRequest, UnresolvedOwnerKeepsAuthority, PairInv
<1> QED BY <1>1, <1>2, <1>3, <1>4, <1>5, <1>6

\* accept() inserts a row when no fence is unresolved, or resumes a row that owns
\* the active fence.
LEMMA HandleAcceptKeeps ==
  ASSUME IInv, FInv, NEW e \in Executors, HandleAccept(e)
  PROVE  FInv'
<1> USE DEF ledgerVars, volatileVars, Executors, IInv, LedgerInv, LedgerTypeOK,
           VolatileTypeOK, RowsTogether, FInv
<1>1. hd[e].pc = "accept" /\ hd[e].id \in Ids /\ Holds(e)
  BY DEF HandleAccept, At, HandlerInv, HolderInv
<1>2. \/ /\ AcceptReplays(hd[e].id, hd[e].req) /\ Goto(e, "start") /\ UNCHANGED ledgerVars
      \/ Accept(hd[e].id, hd[e].req) /\ Goto(e, "start")
      \/ Finish(e) /\ UNCHANGED ledgerVars
  BY DEF HandleAccept
<1>3. PairInv'
  BY <1>1, <1>2 DEF HandleAccept, At, Accept, AcceptInserts, PairInv, ConcludedFence
<1>4. WorkInv'
  BY <1>1, <1>2 DEF HandleAccept, At, Accept, AcceptInserts, WorkInv, RESTART
<1>5. HolderInv'
  <2> SUFFICES ASSUME NEW x \in Executors PROVE Holds(x)'
    BY DEF HolderInv
  <2>1. Holds(x) /\ (hd[x].pc # "idle" => hd[x].id \in Ids)
    BY DEF HolderInv, HandlerInv
  <2>2. CASE x = e
    <3>1. hd'[e].pc = "idle" => Holds(e)'
      BY DEF Holds, PastAccept
    <3>2. ASSUME Goto(e, "start"), AcceptReplays(hd[e].id, hd[e].req), UNCHANGED ledgerVars
          PROVE  Holds(e)'
      BY <1>1, <3>2, HandlerMoves DEF Holds, PastAccept, AcceptReplays, HandleAccept, WorkInv
    <3>3. ASSUME Goto(e, "start"), Accept(hd[e].id, hd[e].req)
          PROVE  Holds(e)'
      BY <1>1, <3>3, HandlerMoves
         DEF Holds, PastAccept, Accept, AcceptInserts, HandleAccept, WorkInv
    <3> QED BY <1>2, <2>2, <3>1, <3>2, <3>3, HandlerMoves
  <2>3. CASE x # e
    <3>1. hd'[x] = hd[x]
      BY <2>3, HandlerMoves DEF HandleAccept
    <3>2. UNCHANGED <<wk, dispatches>>
      BY DEF HandleAccept
    <3>3. CASE UNCHANGED ledgerVars
      BY <2>1, <3>1, <3>2, <3>3 DEF Holds, AcceptReplays, PastAccept
    <3>4. CASE Accept(hd[e].id, hd[e].req)
      <4>1. hd[x].pc \in PastAccept => hd[x].id # hd[e].id
        BY <1>1, <2>1, <3>4, Facts DEF Holds, PastAccept, Accept, AcceptInserts
      <4> QED BY <1>1, <2>1, <3>1, <3>2, <3>4, <4>1
              DEF Holds, AcceptReplays, PastAccept, Accept
    <3> QED BY <1>2, <3>3, <3>4
  <2> QED BY <2>2, <2>3
<1>6. GensInv'
  BY <1>1, <1>2, GensStay, HandlerMoves DEF HandleAccept, At, Accept, AcceptInserts
<1>7. OneActiveFence'
  BY <1>1, <1>2 DEF Accept, AcceptInserts, OneActiveFence, UnresolvedFence
<1>8. UnresolvedOwnerKeepsAuthority'
  BY <1>1, <1>2 DEF HandleAccept, At, Accept, AcceptInserts,
     UnresolvedOwnerKeepsAuthority, PairInv
<1> QED BY <1>3, <1>4, <1>5, <1>6, <1>7, <1>8

\* The resumed or inserted row still owns the active fence when it starts.
LEMMA HandleStartKeeps ==
  ASSUME IInv, FInv, NEW e \in Executors, HandleStart(e)
  PROVE  FInv'
<1> USE DEF ledgerVars, volatileVars, Executors, IInv, LedgerInv, LedgerTypeOK,
           VolatileTypeOK, RowsTogether, FInv
<1>1. /\ hd[e].pc = "start" /\ hd[e].id \in Ids /\ Holds(e)
      /\ fence[hd[e].id] = "ACCEPTED" /\ reqState[hd[e].id] = "ACCEPTED"
  <2>1. hd[e].pc = "start" /\ hd[e].id \in Ids /\ Holds(e)
    BY DEF HandleStart, At, HandlerInv, HolderInv
  <2>2. fence[hd[e].id] = "ACCEPTED"
    BY <2>1 DEF Holds
  <2> QED BY <2>1, <2>2 DEF PairInv, ConcludedFence
<1>2. /\ Goto(e, "revalidate")
      /\ Transition(hd[e].id, "ACCEPTED", "EXECUTION_STARTED", "EXECUTION_STARTED")
      /\ UNCHANGED <<proc, inst, wk, child, snap, dispatches>>
  BY <1>1 DEF HandleStart
<1>3. PairInv'
  BY <1>1, <1>2 DEF Transition, PairInv, ConcludedFence
<1>4. WorkInv'
  BY <1>1, <1>2 DEF Transition, WorkInv, RESTART
<1>5. HolderInv'
  <2> SUFFICES ASSUME NEW x \in Executors PROVE Holds(x)'
    BY DEF HolderInv
  <2>1. Holds(x) /\ (hd[x].pc # "idle" => hd[x].id \in Ids)
    BY DEF HolderInv, HandlerInv
  <2>2. CASE x = e
    BY <1>1, <1>2, <2>2, HandlerMoves DEF Holds, PastAccept, Transition
  <2>3. CASE x # e
    <3>1. hd'[x] = hd[x]
      BY <1>2, <2>3, HandlerMoves
    <3> QED BY <2>1, <2>3, <3>1, <1>1, <1>2, HolderStays, HoldersApart DEF Holds,
       PairInv, AcceptReplays, PastAccept, Transition
  <2> QED BY <2>2, <2>3
<1>6. GensInv'
  BY <1>1, <1>2, GensStay, HandlerMoves DEF Transition
<1>7. OneActiveFence'
  BY <1>1, <1>2 DEF Transition, OneActiveFence, PairInv
<1>8. UnresolvedOwnerKeepsAuthority'
  BY <1>1, <1>2 DEF Transition, UnresolvedOwnerKeepsAuthority, PairInv
<1> QED BY <1>3, <1>4, <1>5, <1>6, <1>7, <1>8

\* A drifted identity fails a request that nobody works on.
LEMMA HandleRevalidateKeeps ==
  ASSUME IInv, FInv, NEW e \in Executors, HandleRevalidate(e)
  PROVE  FInv'
<1> USE DEF ledgerVars, volatileVars, Executors, IInv, LedgerInv, LedgerTypeOK,
           VolatileTypeOK, RowsTogether, FInv
<1>1. hd[e].pc = "revalidate" /\ hd[e].id \in Ids /\ Holds(e)
  BY DEF HandleRevalidate, At, HandlerInv, HolderInv
<1>2. /\ \/ Goto(e, "boundary") /\ UNCHANGED ledgerVars
         \/ /\ Transition(hd[e].id, "EXECUTION_STARTED", "EFFECT_FAILED", "EFFECT_FAILED")
            /\ Finish(e)
      /\ UNCHANGED <<proc, inst, wk, child, snap, dispatches>>
  BY DEF HandleRevalidate
<1>3. PairInv'
  BY <1>1, <1>2 DEF HandleRevalidate, Transition, PairInv, ConcludedFence
<1>4. WorkInv'
  BY <1>1, <1>2 DEF Transition, Holds, WorkInv, RESTART
<1>5. HolderInv'
  <2> SUFFICES ASSUME NEW x \in Executors PROVE Holds(x)'
    BY DEF HolderInv
  <2>1. Holds(x) /\ (hd[x].pc # "idle" => hd[x].id \in Ids)
    BY DEF HolderInv, HandlerInv
  <2>2. CASE x = e
    BY <1>1, <1>2, <2>2, HandlerMoves DEF Holds, PastAccept
  <2>3. CASE x # e
    <3>1. hd'[x] = hd[x]
      BY <2>3, HandlerMoves DEF HandleRevalidate
    <3> QED BY <2>1, <2>3, <3>1, <1>1, <1>2, HolderStays, HoldersApart DEF Holds,
       PairInv, AcceptReplays, PastAccept, HandleRevalidate, Transition
  <2> QED BY <2>2, <2>3
<1>6. GensInv'
  BY <1>1, <1>2, GensStay, HandlerMoves DEF HandleRevalidate, Transition
<1>7. OneActiveFence'
  BY <1>1, <1>2 DEF HandleRevalidate, Transition, OneActiveFence, PairInv
<1>8. UnresolvedOwnerKeepsAuthority'
  BY <1>1, <1>2 DEF HandleRevalidate, Transition, UnresolvedOwnerKeepsAuthority,
     PairInv
<1> QED BY <1>3, <1>4, <1>5, <1>6, <1>7, <1>8

\* The boundary is marked, and the worker started, for a row that is started and
\* that nobody works on.
LEMMA HandleBoundaryKeeps ==
  ASSUME IInv, FInv, NEW e \in Executors, HandleBoundary(e)
  PROVE  FInv'
<1> USE DEF ledgerVars, volatileVars, Executors, IInv, LedgerInv, LedgerTypeOK,
           VolatileTypeOK, RowsTogether, FInv
<1>1. hd[e].pc = "boundary" /\ hd[e].id \in Ids /\ Holds(e)
  BY DEF HandleBoundary, At, HandlerInv, HolderInv
<1>2. /\ \/ /\ MarkEffectBoundary(hd[e].id)
            /\ Finish(e) \/ Goto(e, "nothread") \/ Goto(e, "perform")
            /\ wk' = [wk EXCEPT ![hd[e].id] = "begin"] \/ UNCHANGED wk
         \/ /\ Transition(hd[e].id, "EXECUTION_STARTED", "OUTCOME_UNKNOWN", "OUTCOME_UNKNOWN")
            /\ Finish(e) /\ UNCHANGED wk
      /\ UNCHANGED <<proc, inst, child, snap, dispatches>>
  BY DEF HandleBoundary
<1>3. PairInv'
  BY <1>1, <1>2 DEF HandleBoundary, Transition, MarkEffectBoundary, CanMarkBoundary,
     PairInv, ConcludedFence
<1>4. WorkInv'
  <2>1. CASE MarkEffectBoundary(hd[e].id)
    <3>1. reqState[hd[e].id] = "EXECUTION_STARTED" /\ dispatches[hd[e].id] = 0
      BY <1>1, <2>1 DEF MarkEffectBoundary, CanMarkBoundary, PairInv, ConcludedFence, Holds
    <3> QED BY <1>1, <1>2, <2>1, <3>1 DEF MarkEffectBoundary, WorkInv, RESTART, HandleBoundary
  <2>2. CASE /\ Transition(hd[e].id, "EXECUTION_STARTED", "OUTCOME_UNKNOWN", "OUTCOME_UNKNOWN")
             /\ UNCHANGED wk
    BY <1>1, <1>2, <2>2 DEF Transition, WorkInv, RESTART
  <2> QED BY <1>2, <2>1, <2>2
<1>5. HolderInv'
  <2> SUFFICES ASSUME NEW x \in Executors PROVE Holds(x)'
    BY DEF HolderInv
  <2>1. Holds(x) /\ (hd[x].pc # "idle" => hd[x].id \in Ids)
    BY DEF HolderInv, HandlerInv
  <2>2. CASE x = e
    BY <1>1, <1>2, <2>2, HandlerMoves
       DEF Holds, PastAccept, MarkEffectBoundary, Transition
  <2>3. CASE x # e
    <3>1. hd'[x] = hd[x]
      BY <2>3, HandlerMoves DEF HandleBoundary
    <3> QED BY <2>1, <2>3, <3>1, <1>1, <1>2, HolderStays, HoldersApart DEF Holds,
       PairInv, AcceptReplays, PastAccept, HandleBoundary, Transition,
       MarkEffectBoundary, CanMarkBoundary
  <2> QED BY <2>2, <2>3
<1>6. GensInv'
  BY <1>1, <1>2, GensStay, HandlerMoves DEF HandleBoundary, Transition,
     MarkEffectBoundary, CanMarkBoundary
<1>7. OneActiveFence'
  BY <1>1, <1>2 DEF HandleBoundary, Transition, MarkEffectBoundary, CanMarkBoundary,
     OneActiveFence, PairInv
<1>8. UnresolvedOwnerKeepsAuthority'
  BY <1>1, <1>2 DEF HandleBoundary, Transition, MarkEffectBoundary, CanMarkBoundary,
     UnresolvedOwnerKeepsAuthority, PairInv
<1> QED BY <1>3, <1>4, <1>5, <1>6, <1>7, <1>8

\* A fault, and a worker that cannot be started, leave OUTCOME_UNKNOWN or nothing.
LEMMA HandlerFaultKeeps ==
  ASSUME IInv, FInv, NEW e \in Executors, HandlerFault(e) \/ HandleNoThread(e)
  PROVE  FInv'
<1> USE DEF ledgerVars, volatileVars, Executors, IInv, LedgerInv, LedgerTypeOK,
           VolatileTypeOK, RowsTogether, FInv
<1>1. hd[e].id \in Ids /\ hd[e].pc # "idle"
  BY DEF HandleNoThread, HandlerFault, At, HandlerInv
<1>2. /\ Finish(e)
      /\ \/ UNCHANGED ledgerVars
         \/ Transition(hd[e].id, "EXECUTION_STARTED", "OUTCOME_UNKNOWN", "OUTCOME_UNKNOWN")
      /\ UNCHANGED <<proc, inst, wk, child, snap, dispatches>>
  BY DEF HandleNoThread, HandlerFault
<1>3. PairInv'
  BY <1>1, <1>2 DEF Transition, PairInv, ConcludedFence
<1>4. WorkInv'
  BY <1>1, <1>2 DEF Transition, WorkInv, RESTART
<1>5. HolderInv'
  <2> SUFFICES ASSUME NEW x \in Executors PROVE Holds(x)'
    BY DEF HolderInv
  <2>1. Holds(x) /\ (hd[x].pc # "idle" => hd[x].id \in Ids)
    BY DEF HolderInv, HandlerInv
  <2>2. CASE x = e
    BY <1>2, <2>2, HandlerMoves DEF Holds, PastAccept
  <2>3. CASE x # e
    <3>1. hd'[x] = hd[x]
      BY <1>2, <2>3, HandlerMoves
    <3>2. UNCHANGED <<reqBody, wk, dispatches>>
      BY <1>2 DEF Transition
    <3>3. \A i \in Ids : /\ reqState'[i] = "ACCEPTED" => reqState[i] = "ACCEPTED"
                         /\ reqState[i] = "ACCEPTED" => fence'[i] = fence[i]
      BY <1>1, <1>2 DEF Transition
    <3> QED BY <2>1, <3>1, <3>2, <3>3, HolderUntouched
  <2> QED BY <2>2, <2>3
<1>6. GensInv'
  BY <1>1, <1>2, GensStay, HandlerMoves DEF Transition
<1>7. OneActiveFence'
  BY <1>1, <1>2 DEF Transition, OneActiveFence, PairInv
<1>8. UnresolvedOwnerKeepsAuthority'
  BY <1>1, <1>2 DEF Transition, UnresolvedOwnerKeepsAuthority, PairInv
<1> QED BY <1>3, <1>4, <1>5, <1>6, <1>7, <1>8

-----------------------------------------------------------------------------
(* The effect and its conclusion.                                          *)

\* A worker's step that is followed by the step `pc`.
LEMMA EffectKeeps ==
  ASSUME IInv, FInv, NEW i \in Ids, NEW pc \in WorkerSteps, wk[i] # "none", pc # "none",
         \/ Settle(i, pc) /\ (reqBody[i].intent = RESTART =>
              /\ pc \in {"begin", "armed", "failed"} => dispatches[i] = 0
              /\ pc \in {"signalled", "killed", "observed"} => dispatches[i] = 1)
         \/ Invoke(i, pc) /\ (reqBody[i].intent = RESTART =>
              pc = "signalled" /\ dispatches[i] = 0)
  PROVE  FInv'
<1> USE DEF ledgerVars, Executors, IInv, LedgerInv, LedgerTypeOK, VolatileTypeOK,
           RowsTogether, FInv
<1>1. /\ wk' = [wk EXCEPT ![i] = pc] /\ UNCHANGED <<ledgerVars, proc, inst, hd, child, snap>>
      /\ UNCHANGED dispatches \/ dispatches' = [dispatches EXCEPT ![i] = @ + 1]
  BY DEF Settle, Invoke, EffectStep
<1>2. PairInv' /\ OneActiveFence' /\ UnresolvedOwnerKeepsAuthority'
  BY <1>1 DEF PairInv, OneActiveFence, UnresolvedOwnerKeepsAuthority
<1>3. GensInv'
  BY <1>1 DEF GensInv
<1>4. HolderInv'
  <2> SUFFICES ASSUME NEW x \in Executors PROVE Holds(x)'
    BY DEF HolderInv
  <2>1. Holds(x) /\ (hd[x].pc # "idle" => hd[x].id \in Ids)
    BY DEF HolderInv, HandlerInv
  <2> QED BY <1>1, <2>1 DEF Holds, PastAccept, AcceptReplays
<1>5. WorkInv'
  <2> SUFFICES ASSUME NEW j \in Ids
               PROVE  /\ reqState[j] \in {"ABSENT", "ACCEPTED"} =>
                           wk'[j] = "none" /\ dispatches'[j] = 0
                      /\ wk'[j] # "none" => reqState[j] \in {"EXECUTION_STARTED", "OUTCOME_UNKNOWN"}
                      /\ reqState[j] # "ABSENT" /\ reqBody[j].intent = RESTART =>
                           /\ wk'[j] \in {"begin", "armed", "failed"} => dispatches'[j] = 0
                           /\ wk'[j] \in {"signalled", "killed", "observed"} => dispatches'[j] = 1
                           /\ reqState[j] = "EFFECT_FAILED" => dispatches'[j] = 0
                           /\ reqState[j] = "EFFECT_OBSERVED" => dispatches'[j] = 1
    BY <1>1 DEF WorkInv
  <2>1. CASE j # i
    BY <1>1, <2>1 DEF WorkInv
  <2>2. CASE j = i
    <3>1. reqState[i] \in {"EXECUTION_STARTED", "OUTCOME_UNKNOWN"}
      BY DEF WorkInv
    <3>2. wk'[i] = pc
      BY <1>1
    <3>3. reqBody[i].intent = RESTART =>
            /\ pc \in {"begin", "armed", "failed"} => dispatches'[i] = 0
            /\ pc \in {"signalled", "killed", "observed"} => dispatches'[i] = 1
      BY DEF Settle, Invoke
    <3> QED BY <2>2, <3>1, <3>2, <3>3
  <2> QED BY <2>1, <2>2
<1> QED BY <1>2, <1>3, <1>4, <1>5

\* The steps of the three effects.
LEMMA WorkerKeeps ==
  ASSUME IInv, FInv, NEW i \in Ids,
         \/ ArmRestart(i) \/ SendTerm(i) \/ ObserveExit(i) \/ ExitTimeout(i)
         \/ BeginReconcile(i) \/ AwaitChild(i) \/ RunRollout(i) \/ RolloutReturns(i)
  PROVE  FInv'
<1>1. wk[i] # "none" /\ reqState[i] # "ABSENT"
  BY DEF ArmRestart, SendTerm, ObserveExit, ExitTimeout, BeginReconcile,
         AwaitChild, RunRollout, RolloutReturns, Working, FInv, WorkInv
<1>2. reqBody[i].intent = RESTART =>
        /\ wk[i] \in {"begin", "armed"} => dispatches[i] = 0
        /\ wk[i] \in {"signalled", "killed"} => dispatches[i] = 1
  BY <1>1 DEF FInv, WorkInv
<1>3. \E pc \in WorkerSteps \ {"none"} :
        \/ Settle(i, pc) /\ (reqBody[i].intent = RESTART =>
             /\ pc \in {"begin", "armed", "failed"} => dispatches[i] = 0
             /\ pc \in {"signalled", "killed", "observed"} => dispatches[i] = 1)
        \/ Invoke(i, pc) /\ (reqBody[i].intent = RESTART =>
             pc = "signalled" /\ dispatches[i] = 0)
  BY <1>2 DEF ArmRestart, SendTerm, ObserveExit, ExitTimeout, BeginReconcile,
              AwaitChild, RunRollout, RolloutReturns, Working, WorkerSteps,
              RESTART, RECONCILE, ESCALATE
<1> QED BY <1>1, <1>3, EffectKeeps

\* The result is stored for a started row only, and tells what the worker did.
LEMMA PersistResultKeeps ==
  ASSUME IInv, FInv, NEW i \in Ids, PersistResult(i)
  PROVE  FInv'
<1> USE DEF ledgerVars, volatileVars, Executors, IInv, LedgerInv, LedgerTypeOK,
           VolatileTypeOK, RowsTogether, FInv
<1>1. /\ wk[i] \in {"observed", "failed", "unknown"}
      /\ reqState[i] \in {"EXECUTION_STARTED", "OUTCOME_UNKNOWN"}
  BY DEF PersistResult, WorkInv
<1>2. \/ UNCHANGED ledgerVars
      \/ /\ Transition(i, "EXECUTION_STARTED", ResultState(i), ResultFence(i))
         /\ \/ /\ wk[i] = "observed" /\ ResultState(i) = "EFFECT_OBSERVED"
               /\ ResultFence(i) \in {"EFFECT_OBSERVED", "EFFECT_OBSERVED_AWAITING_VERIFICATION"}
            \/ /\ wk[i] = "failed" /\ ResultState(i) = "EFFECT_FAILED"
               /\ ResultFence(i) = "EFFECT_FAILED"
            \/ /\ ResultState(i) = "OUTCOME_UNKNOWN" /\ ResultFence(i) = "OUTCOME_UNKNOWN"
  BY <1>1 DEF PersistResult, ResultState, ResultFence
<1>3. /\ wk' = [wk EXCEPT ![i] = "none"] /\ UNCHANGED <<proc, inst, child, snap, dispatches>>
      /\ \/ hd' = [hd EXCEPT !["adapter"] = Idle] \/ UNCHANGED hd
  BY DEF PersistResult, Finish
<1>4. PairInv'
  BY <1>1, <1>2, <1>3 DEF Transition, PairInv, ConcludedFence
<1>5. WorkInv'
  BY <1>1, <1>2, <1>3 DEF Transition, WorkInv, RESTART
<1>6. HolderInv'
  <2> SUFFICES ASSUME NEW x \in Executors PROVE Holds(x)'
    BY DEF HolderInv
  <2>1. Holds(x) /\ (hd[x].pc # "idle" => hd[x].id \in Ids)
    BY DEF HolderInv, HandlerInv
  <2>2. CASE hd'[x] = Idle
    BY <2>2 DEF Holds, Idle, PastAccept
  <2>3. CASE hd'[x] = hd[x]
    BY <1>1, <1>2, <1>3, <2>1, <2>3, HolderStays
       DEF Holds, PairInv, AcceptReplays, PastAccept, Transition
  <2> QED BY <1>3, <2>2, <2>3
<1>7. GensInv'
  BY <1>1, <1>2, <1>3, GensStay DEF Transition, Idle
<1>8. OneActiveFence'
  BY <1>1, <1>2, <1>3 DEF Transition, OneActiveFence, PairInv
<1>9. UnresolvedOwnerKeepsAuthority'
  BY <1>1, <1>2, <1>3 DEF Transition, UnresolvedOwnerKeepsAuthority, PairInv
<1> QED BY <1>4, <1>5, <1>6, <1>7, <1>8, <1>9

\* A conclusion names a later child than the request, and no handler holds the
\* row: the engine's is idle and the adapter serves no restart.
LEMMA ReconcileObservedKeeps ==
  ASSUME IInv, FInv, NEW i \in Ids, ReconcileObserved(i)
  PROVE  FInv'
<1> USE DEF ledgerVars, volatileVars, Executors, IInv, LedgerInv, LedgerTypeOK,
           VolatileTypeOK, RowsTogether, FInv
<1>1. /\ hd["engine"].pc = "idle" /\ reqState[i] # "ABSENT"
      /\ reqBody[i].intent = RESTART /\ snap.gen # 0
      /\ snap.gen # reqBody[i].target.gen
      /\ UNCHANGED volatileVars
  BY DEF ReconcileObserved, Idle
<1>2. PairInv'
  BY <1>1 DEF ReconcileObserved, RecordEffectObserved, PairInv, UnresolvedFence, ConcludedFence
<1>3. WorkInv'
  BY DEF ReconcileObserved, RecordEffectObserved, WorkInv, RESTART
<1>4. HolderInv'
  <2> SUFFICES ASSUME NEW x \in Executors PROVE Holds(x)'
    BY DEF HolderInv
  <2>1. Holds(x) /\ hd'[x] = hd[x] /\ (hd[x].pc # "idle" => hd[x].id \in Ids)
    BY <1>1 DEF HolderInv, HandlerInv
  <2>2. hd[x].pc # "idle" => hd[x].req.intent # RESTART
    BY <1>1, <2>1 DEF Holds, AllowedIntents, RESTART, ESCALATE
  <2> QED BY <1>1, <2>1, <2>2, HolderStays
          DEF Holds, AcceptReplays, PastAccept, ReconcileObserved, RecordEffectObserved
<1>5. GensInv'
  <2>1. reqBody[i].target.gen < snap.gen /\ snap.gen <= child.gen
    <3>1. reqBody[i].target.gen <= snap.gen /\ snap.gen <= child.gen
      BY <1>1 DEF GensInv
    <3>2. reqBody[i].target.gen \in Nat /\ snap.gen \in Nat
      BY <1>1, Facts
    <3> QED BY <1>1, <3>1, <3>2
  <2>2. \A j \in Ids : j # i => fence'[j] = fence[j]
    BY DEF ReconcileObserved, RecordEffectObserved
  <2>3. UNCHANGED <<reqState, reqBody, volatileVars>>
    BY DEF ReconcileObserved, RecordEffectObserved
  <2> QED BY <1>1, <2>1, <2>2, <2>3, Facts DEF GensInv
<1>6. OneActiveFence'
  BY DEF ReconcileObserved, RecordEffectObserved, OneActiveFence, PairInv
<1>7. UnresolvedOwnerKeepsAuthority'
  BY DEF ReconcileObserved, RecordEffectObserved, UnresolvedOwnerKeepsAuthority,
     PairInv
<1> QED BY <1>2, <1>3, <1>4, <1>5, <1>6, <1>7

\* A retirement concludes a fence that is not ACCEPTED.
LEMMA ReconcileRetiredKeeps ==
  ASSUME IInv, FInv, NEW i \in Ids, ReconcileRetired(i)
  PROVE  FInv'
<1> USE DEF ledgerVars, volatileVars, Executors, IInv, LedgerInv, LedgerTypeOK,
           VolatileTypeOK, RowsTogether, FInv
<1>1. PairInv'
  BY DEF ReconcileRetired, RecordTargetRetirement, PairInv, ConcludedFence
<1>2. WorkInv'
  BY DEF ReconcileRetired, RecordTargetRetirement, WorkInv, RESTART
<1>3. HolderInv'
  <2> SUFFICES ASSUME NEW x \in Executors PROVE Holds(x)'
    BY DEF HolderInv
  <2>1. Holds(x) /\ (hd[x].pc # "idle" => hd[x].id \in Ids)
    BY DEF HolderInv, HandlerInv
  <2> QED BY <2>1, HolderStays DEF Holds, PairInv, AcceptReplays, PastAccept,
     ReconcileRetired, RecordTargetRetirement
<1>4. GensInv'
  BY GensStay, HandlerMoves DEF ReconcileRetired, RecordTargetRetirement
<1>5. OneActiveFence'
  BY DEF ReconcileRetired, RecordTargetRetirement, OneActiveFence, PairInv
<1>6. UnresolvedOwnerKeepsAuthority'
  BY DEF ReconcileRetired, RecordTargetRetirement, UnresolvedOwnerKeepsAuthority,
     PairInv
<1> QED BY <1>1, <1>2, <1>3, <1>4, <1>5, <1>6

\* The authority moves only when no fence is unresolved.
LEMMA HandOffAuthorityKeeps ==
  ASSUME IInv, FInv, NEW p \in Producers, HandOffAuthority(p)
  PROVE  FInv'
<1> USE DEF ledgerVars, volatileVars, Executors, IInv, LedgerInv, LedgerTypeOK,
           VolatileTypeOK, RowsTogether, FInv
<1>1. PairInv'
  BY DEF HandOffAuthority, SwitchAuthority, PairInv, ConcludedFence
<1>2. WorkInv'
  BY DEF HandOffAuthority, SwitchAuthority, WorkInv, RESTART
<1>3. HolderInv'
  <2> SUFFICES ASSUME NEW x \in Executors PROVE Holds(x)'
    BY DEF HolderInv
  <2>1. Holds(x) /\ (hd[x].pc # "idle" => hd[x].id \in Ids)
    BY DEF HolderInv, HandlerInv
  <2> QED BY <2>1, HolderStays DEF Holds, PairInv, AcceptReplays, PastAccept,
     HandOffAuthority, SwitchAuthority
<1>4. GensInv'
  BY GensStay, HandlerMoves DEF HandOffAuthority, SwitchAuthority
<1>5. OneActiveFence'
  BY DEF HandOffAuthority, SwitchAuthority, OneActiveFence, PairInv
<1>6. UnresolvedOwnerKeepsAuthority'
  <2>1. \A i \in Ids : ~Unresolved(i)
    BY DEF HandOffAuthority, SwitchAuthority, NoneUnresolved
  <2>2. \A i \in Ids : fence[i] \notin UnresolvedFence
    BY <2>1 DEF Unresolved, PairInv, ConcludedFence, UnresolvedFence
  <2> QED BY <2>2 DEF HandOffAuthority, SwitchAuthority, UnresolvedOwnerKeepsAuthority,
                      UnresolvedFence
<1> QED BY <1>1, <1>2, <1>3, <1>4, <1>5, <1>6

-----------------------------------------------------------------------------
(* Every step, and always.                                                 *)

\* No request, no worker, no child.
LEMMA InitFInv == Init => FInv
<1> SUFFICES ASSUME Init PROVE FInv
  OBVIOUS
<1> USE DEF Init, LedgerInit
<1>1. PairInv
  BY DEF PairInv
<1>2. WorkInv
  BY DEF WorkInv
<1>3. HolderInv
  BY DEF HolderInv, Holds, Idle, PastAccept
<1>4. GensInv
  BY DEF GensInv, NoSnap, Idle
<1>5. OneActiveFence /\ UnresolvedOwnerKeepsAuthority
  BY DEF OneActiveFence, UnresolvedOwnerKeepsAuthority
<1> QED BY <1>1, <1>2, <1>3, <1>4, <1>5 DEF FInv

\* Every step keeps the invariant of the fences.
LEMMA NextFInv == IInv /\ FInv /\ [Next]_vars => FInv'
<1> SUFFICES ASSUME IInv, FInv, [Next]_vars PROVE FInv'
  OBVIOUS
<1>1. CASE UNCHANGED vars
  <2> USE <1>1 DEF vars, ledgerVars, volatileVars, FInv
  <2>1. PairInv' /\ WorkInv' /\ GensInv'
    BY DEF PairInv, WorkInv, GensInv
  <2>2. HolderInv'
    BY DEF HolderInv, Holds, AcceptReplays
  <2>3. OneActiveFence' /\ UnresolvedOwnerKeepsAuthority'
    BY DEF OneActiveFence, UnresolvedOwnerKeepsAuthority
  <2> QED BY <2>1, <2>2, <2>3
<1>2. ASSUME NEW e \in Executors, StartProcess(e) \/ OpenLedger(e) \/ Crash(e)
      PROVE  FInv'
  BY <1>2, StartProcessKeeps, OpenLedgerKeeps, CrashKeeps
<1>3. ASSUME NEW e \in Executors, HandlerStep(e) \/ HandlerFault(e)
      PROVE  FInv'
  BY <1>3, HandleAcceptKeeps, HandleStartKeeps, HandleRevalidateKeeps,
     HandleBoundaryKeeps, HandlerFaultKeeps DEF HandlerStep
<1>4. ASSUME NEW e \in Executors, NEW i \in Ids, NEW intent \in Intents,
             NEW p \in Producers, Receive(e, i, intent, p)
      PROVE  FInv'
  BY <1>4, ReceiveKeeps
<1>5. ASSUME NEW i \in Ids, WorkerStep(i) \/ ReconcileObserved(i) \/ ReconcileRetired(i)
      PROVE  FInv'
  BY <1>5, WorkerKeeps, PersistResultKeeps, ReconcileObservedKeeps,
     ReconcileRetiredKeeps DEF WorkerStep
<1>6. ASSUME NEW p \in Producers, HandOffAuthority(p)
      PROVE  FInv'
  BY <1>6, HandOffAuthorityKeeps
<1>7. CASE SpawnChild \/ ChildExits \/ PublishSnapshot
  BY <1>7, SpawnChildKeeps, ChildExitsKeeps, PublishSnapshotKeeps
<1> QED BY <1>1, <1>2, <1>3, <1>4, <1>5, <1>6, <1>7 DEF Next

\* Both invariants, always.
LEMMA FencesHold == Spec => [](IInv /\ FInv)
<1> QED BY InitIInv, NextIInv, InitFInv, NextFInv, PTL DEF Spec

-----------------------------------------------------------------------------
(* What follows from it.                                                   *)

\* At most one fence is admitted and not concluded, though accept() looks at the
\* other fences only when it inserts a row and two executors share the ledger.
THEOREM OneFenceActive == Spec => []OneActiveFence
<1>1. FInv => OneActiveFence
  BY DEF FInv
<1> QED BY FencesHold, <1>1, PTL

\* unresolved_count(), which joins the tables, and the scan of the fences agree.
THEOREM ViewsAgree == Spec => []UnresolvedViewsAgree
<1>1. PairInv => UnresolvedViewsAgree
  <2> SUFFICES ASSUME PairInv
               PROVE  \A i \in Ids : Unresolved(i) <=> fence[i] \in UnresolvedFence
    BY DEF UnresolvedViewsAgree, NoneUnresolved
  <2> QED BY DEF PairInv, Unresolved, UnresolvedFence, ConcludedFence
<1> QED BY FencesHold, <1>1, PTL DEF FInv

\* switch_authority() never takes the authority from the producer of an admitted
\* effect, and accept() admits none of another producer.
THEOREM OwnerKeepsAuthority == Spec => []UnresolvedOwnerKeepsAuthority
<1>1. FInv => UnresolvedOwnerKeepsAuthority
  BY DEF FInv
<1> QED BY FencesHold, <1>1, PTL

\* The outcome stored for a restart tells whether FFmpeg was signalled.
THEOREM OutcomesAreHonest == Spec => []OutcomeHonest
<1>1. IInv /\ WorkInv => OutcomeHonest
  BY DEF IInv, LedgerInv, RowsTogether, WorkInv, OutcomeHonest
<1> QED BY FencesHold, <1>1, PTL DEF FInv

-----------------------------------------------------------------------------
(* The executors implement FencedEffects.                                  *)

\* A step that moves no row across an outcome, and no act, is none of the promise.
LEMMA StepStutters ==
  ASSUME UNCHANGED dispatches,
         \A i \in Ids :
           /\ reqState[i] = "ABSENT" <=> reqState'[i] = "ABSENT"
           /\ reqState[i] # "ABSENT" => reqBody'[i] = reqBody[i]
           /\ reqState'[i] = reqState[i] \/
                /\ reqState[i] \in {"ACCEPTED", "EXECUTION_STARTED"}
                /\ reqState'[i] \in {"ACCEPTED", "EXECUTION_STARTED"}
  PROVE  UNCHANGED Fenced!vars
BY DEF Fenced!vars

\* A step that gives some rows an outcome records it.
LEMMA StepRecords ==
  ASSUME NEW some \in SUBSET Ids,
         NEW result \in {"observed", "failed", "unknown"},
         UNCHANGED <<reqBody, dispatches>>,
         \A i \in Ids \ some : reqState'[i] = reqState[i],
         \A i \in some :
           /\ reqState[i] \in {"ACCEPTED", "EXECUTION_STARTED"}
           /\ \/ reqState'[i] = "EFFECT_OBSERVED" /\ result = "observed"
              \/ reqState'[i] = "EFFECT_FAILED" /\ result = "failed"
              \/ reqState'[i] = "OUTCOME_UNKNOWN" /\ result = "unknown"
           /\ reqBody[i].intent = RESTART =>
                /\ result = "failed" => dispatches[i] = 0
                /\ result = "observed" => dispatches[i] = 1
  PROVE  Fenced!Next
<1>1. ASSUME NEW i \in some,
             {<<reqBody[i].intent, reqBody[i].target.cont, reqBody[i].target.gen>>}
               \subseteq {RESTART} \X Nat \X Nat
      PROVE  reqBody[i].intent = RESTART
  BY <1>1
<1>2. Fenced!Record(some, result)
  BY <1>1 DEF Fenced!Record
<1> QED BY <1>2 DEF Fenced!Next

\* A request row is inserted: its scope is claimed.
LEMMA AcceptClaims ==
  ASSUME IInv, NEW i \in Ids, NEW body \in Requests, Accept(i, body), UNCHANGED dispatches
  PROVE  Fenced!Next
<1> DEFINE scope == <<body.intent, body.target.cont, body.target.gen>>
<1>1. /\ reqState[i] = "ABSENT"
      /\ reqState' = [reqState EXCEPT ![i] = "ACCEPTED"]
      /\ reqBody' = [reqBody EXCEPT ![i] = body]
      /\ \A o \in Ids : reqState[o] # "ABSENT" =>
           <<reqBody[o].intent, reqBody[o].target.cont, reqBody[o].target.gen>> # scope
  BY DEF Accept, AcceptInserts, SameScope
<1>2. reqState'[i] = "ACCEPTED" /\ reqBody'[i] = body
  BY <1>1 DEF IInv, LedgerInv, LedgerTypeOK
<1>3. \A o \in Ids : o # i => reqState'[o] = reqState[o] /\ reqBody'[o] = reqBody[o]
  BY <1>1 DEF IInv, LedgerInv, LedgerTypeOK
<1> DEFINE claimed == [o \in Ids |->
      IF reqState[o] = "ABSENT" THEN {}
      ELSE {<<reqBody[o].intent, reqBody[o].target.cont, reqBody[o].target.gen>>}]
<1>4. claimed' = [claimed EXCEPT ![i] = {scope}] /\ claimed[i] = {}
  BY <1>1, <1>2, <1>3
<1>5. \A o \in Ids : scope \notin claimed[o]
  BY <1>1
<1>6. claimed'[i] = {scope}
  BY <1>4
<1>7. UNCHANGED [o \in Ids |->
        IF reqState[o] = "EFFECT_OBSERVED" THEN "observed"
        ELSE IF reqState[o] = "EFFECT_FAILED" THEN "failed"
        ELSE IF reqState[o] = "OUTCOME_UNKNOWN" THEN "unknown" ELSE "none"]
  BY <1>1, <1>2, <1>3
<1> HIDE DEF claimed
<1>8. Fenced!Claim(i)
  BY <1>4, <1>5, <1>6, <1>7 DEF Fenced!Claim, claimed
<1> QED BY <1>8 DEF Fenced!Next

\* A compare-and-set moves a row on or records its outcome, which is honest
\* because the row is honest afterwards.
LEMMA TransitionRecords ==
  ASSUME IInv, WorkInv', NEW i \in Ids, UNCHANGED dispatches,
         \/ UNCHANGED ledgerVars
         \/ Transition(i, "ACCEPTED", "EXECUTION_STARTED", "EXECUTION_STARTED")
         \/ \E state \in {"EFFECT_OBSERVED", "EFFECT_FAILED", "OUTCOME_UNKNOWN"},
               scopeState \in FenceStates :
              Transition(i, "EXECUTION_STARTED", state, scopeState)
  PROVE  [Fenced!Next]_(Fenced!vars)
<1> USE DEF ledgerVars, IInv, LedgerInv, LedgerTypeOK
<1>1. CASE UNCHANGED ledgerVars
  BY <1>1, StepStutters
<1>2. CASE Transition(i, "ACCEPTED", "EXECUTION_STARTED", "EXECUTION_STARTED")
  BY <1>2, StepStutters DEF Transition
<1>3. ASSUME NEW state \in {"EFFECT_OBSERVED", "EFFECT_FAILED", "OUTCOME_UNKNOWN"},
             NEW scopeState \in FenceStates,
             Transition(i, "EXECUTION_STARTED", state, scopeState),
             reqState[i] = "EXECUTION_STARTED"
      PROVE  Fenced!Next
  <2>1. /\ reqState' = [reqState EXCEPT ![i] = state] /\ reqBody' = reqBody
        /\ reqState'[i] = state
    BY <1>3 DEF Transition
  <2>2. reqBody[i].intent = RESTART =>
          /\ state = "EFFECT_FAILED" => dispatches[i] = 0
          /\ state = "EFFECT_OBSERVED" => dispatches[i] = 1
    BY <2>1 DEF WorkInv
  <2> DEFINE result == IF state = "EFFECT_OBSERVED" THEN "observed"
                       ELSE IF state = "EFFECT_FAILED" THEN "failed" ELSE "unknown"
  <2>3. result \in {"observed", "failed", "unknown"}
    OBVIOUS
  <2>4. /\ \/ state = "EFFECT_OBSERVED" /\ result = "observed"
           \/ state = "EFFECT_FAILED" /\ result = "failed"
           \/ state = "OUTCOME_UNKNOWN" /\ result = "unknown"
        /\ result = "failed" => state = "EFFECT_FAILED"
        /\ result = "observed" => state = "EFFECT_OBSERVED"
    BY <1>3
  <2> DEFINE some == {i}
  <2>5. some \in SUBSET Ids /\ \A o \in Ids \ some : reqState'[o] = reqState[o]
    BY <2>1
  <2>6. \A o \in some :
          /\ reqState[o] \in {"ACCEPTED", "EXECUTION_STARTED"}
          /\ \/ reqState'[o] = "EFFECT_OBSERVED" /\ result = "observed"
             \/ reqState'[o] = "EFFECT_FAILED" /\ result = "failed"
             \/ reqState'[o] = "OUTCOME_UNKNOWN" /\ result = "unknown"
          /\ reqBody[o].intent = RESTART =>
               /\ result = "failed" => dispatches[o] = 0
               /\ result = "observed" => dispatches[o] = 1
    BY <1>3, <2>1, <2>2, <2>4
  <2>7. UNCHANGED <<reqBody, dispatches>>
    BY <2>1
  <2> HIDE DEF result, some
  <2> QED BY <2>3, <2>5, <2>6, <2>7, StepRecords
<1>4. CASE \E state \in {"EFFECT_OBSERVED", "EFFECT_FAILED", "OUTCOME_UNKNOWN"},
               scopeState \in FenceStates :
              Transition(i, "EXECUTION_STARTED", state, scopeState)
  BY <1>1, <1>3, <1>4 DEF Transition
<1> QED BY <1>1, <1>2, <1>4

\* The effect is invoked for a row with a reserved attempt and no known outcome.
LEMMA InvokeActs ==
  ASSUME IInv, FInv, NEW i \in Ids, NEW pc, wk[i] \in {"begin", "armed"}, Invoke(i, pc)
  PROVE  Fenced!Next
<1>1. /\ dispatches[i] = 0 /\ dispatches' = [dispatches EXCEPT ![i] = 1]
      /\ UNCHANGED <<reqState, reqBody>>
  <2>1. dispatches[i] = 0
    BY DEF IInv, AttemptInv
  <2>2. /\ dispatches' = [dispatches EXCEPT ![i] = dispatches[i] + 1]
        /\ UNCHANGED <<reqState, reqBody>>
    BY DEF Invoke, EffectStep, ledgerVars
  <2>3. dispatches[i] + 1 = 1
    BY <2>1
  <2> QED BY <2>1, <2>2, <2>3
<1>2. reqState[i] \in {"EXECUTION_STARTED", "OUTCOME_UNKNOWN"}
  BY DEF FInv, WorkInv
<1>3. Fenced!Act(i)
  BY <1>1, <1>2 DEF Fenced!Act
<1> QED BY <1>3 DEF Fenced!Next

\* Every step of the executors is a step of the promise, or none.
LEMMA StepKeepsPromise ==
  ASSUME IInv, FInv, FInv', [Next]_vars
  PROVE  [Fenced!Next]_(Fenced!vars)
<1> USE DEF ledgerVars, volatileVars
<1>1. CASE UNCHANGED <<reqState, reqBody, dispatches>>
  BY <1>1, StepStutters
<1>2. ASSUME NEW e \in Executors, StartProcess(e) \/ Crash(e)
      PROVE  UNCHANGED <<reqState, reqBody, dispatches>>
  BY <1>2 DEF StartProcess, BackfillFences, Crash
<1>3. ASSUME NEW e \in Executors, OpenLedger(e)
      PROVE  [Fenced!Next]_(Fenced!vars)
  <2> DEFINE lost == {i \in Ids : reqState[i] = "EXECUTION_STARTED"}
  <2>1. /\ UNCHANGED <<reqBody, dispatches>>
        /\ \A i \in Ids \ lost : reqState'[i] = reqState[i]
        /\ \A i \in lost : /\ reqState[i] = "EXECUTION_STARTED"
                           /\ reqState'[i] = "OUTCOME_UNKNOWN"
    BY <1>3 DEF OpenLedger, ReconcileStarted
  <2>2. lost \in SUBSET Ids
    OBVIOUS
  <2> HIDE DEF lost
  <2> QED BY <2>1, <2>2, StepRecords
<1>4. ASSUME NEW e \in Executors, HandlerStep(e) \/ HandlerFault(e)
      PROVE  [Fenced!Next]_(Fenced!vars)
  <2> DEFINE i == hd[e].id
  <2>1. i \in Ids /\ hd[e].req \in Requests /\ UNCHANGED dispatches
    BY <1>4 DEF HandlerStep, HandleAccept, HandleStart, HandleRevalidate,
       HandleBoundary, HandleNoThread, HandlerFault, At, IInv, HandlerInv
  <2>2. CASE UNCHANGED <<reqState, reqBody>>
    BY <2>1, <2>2, <1>1
  <2>3. CASE Accept(i, hd[e].req)
    BY <2>1, <2>3, AcceptClaims
  <2>4. CASE \/ Transition(i, "ACCEPTED", "EXECUTION_STARTED", "EXECUTION_STARTED")
             \/ Transition(i, "EXECUTION_STARTED", "EFFECT_FAILED", "EFFECT_FAILED")
             \/ Transition(i, "EXECUTION_STARTED", "OUTCOME_UNKNOWN", "OUTCOME_UNKNOWN")
    BY <2>1, <2>4, TransitionRecords DEF FInv, FenceStates, UnresolvedFence
  <2> QED BY <1>4, <2>2, <2>3, <2>4
          DEF HandlerStep, HandleAccept, HandleStart, HandleRevalidate,
              HandleBoundary, HandleNoThread, HandlerFault, MarkEffectBoundary
<1>5. ASSUME NEW i \in Ids, PersistResult(i)
      PROVE  [Fenced!Next]_(Fenced!vars)
  <2>1. \/ UNCHANGED ledgerVars
        \/ \E state \in {"EFFECT_OBSERVED", "EFFECT_FAILED", "OUTCOME_UNKNOWN"},
               scopeState \in FenceStates :
              Transition(i, "EXECUTION_STARTED", state, scopeState)
    BY <1>5 DEF PersistResult, ResultState, ResultFence, FenceStates, UnresolvedFence
  <2>2. UNCHANGED dispatches
    BY <1>5 DEF PersistResult
  <2> QED BY <2>1, <2>2, TransitionRecords DEF FInv
<1>6. ASSUME NEW i \in Ids, NEW pc, Settle(i, pc)
      PROVE  UNCHANGED <<reqState, reqBody, dispatches>>
  BY <1>6 DEF Settle, EffectStep
<1>7. ASSUME NEW i \in Ids, WorkerStep(i)
      PROVE  [Fenced!Next]_(Fenced!vars)
  BY <1>1, <1>5, <1>6, <1>7, InvokeActs
     DEF WorkerStep, ArmRestart, SendTerm, ObserveExit, ExitTimeout, BeginReconcile,
         AwaitChild, RunRollout, RolloutReturns, Working
<1>8. CASE \/ \E e \in Executors, i \in Ids, intent \in Intents, p \in Producers :
                Receive(e, i, intent, p)
           \/ \E i \in Ids : ReconcileObserved(i) \/ ReconcileRetired(i)
           \/ \E p \in Producers : HandOffAuthority(p)
           \/ SpawnChild \/ ChildExits \/ PublishSnapshot
           \/ UNCHANGED vars
  <2>1. UNCHANGED <<reqState, reqBody, dispatches>>
    BY <1>8 DEF Receive, ReconcileObserved, RecordEffectObserved, ReconcileRetired,
       RecordTargetRetirement, HandOffAuthority, SwitchAuthority, SpawnChild,
       ChildExits, PublishSnapshot, vars
  <2> QED BY <2>1, <1>1
<1> QED BY <1>1, <1>2, <1>3, <1>4, <1>7, <1>8 DEF Next

\* Two executors on one ledger, crashing, replayed to and failing to store, keep
\* the promise of FencedEffects: one claim per scope, one act, one honest outcome,
\* no act behind a known outcome.
THEOREM ExecutorsKeepPromise == Spec => KeepsPromise
<1>1. Init => Fenced!Init
  BY DEF Init, LedgerInit, Fenced!Init
<1>2. IInv /\ FInv /\ (IInv /\ FInv)' /\ [Next]_vars => [Fenced!Next]_(Fenced!vars)
  BY StepKeepsPromise
<1> QED BY <1>1, <1>2, FencesHold, PTL DEF Spec, KeepsPromise, Fenced!Spec

-----------------------------------------------------------------------------
(* One signal per child, when the snapshot producer sees every gap between  *)
(* two children.                                                            *)

\* The restart requests that rows and busy handlers hold.
RestartBodies ==
  {r \in {reqBody[i] : i \in Ids} \cup {hd[e].req : e \in Executors} :
     r # NoBody /\ r.intent = RESTART}

\* While a child runs, a snapshot with a child shows that one; a restart request
\* names one child under both its identities, and a child has one container.
ChildInv ==
  /\ child.state = "running" =>
       /\ proc["engine"] = "up"
       /\ snap.gen # 0 => snap.gen = child.gen /\ snap.cont = inst["engine"]
  /\ \A r \in RestartBodies :
       /\ r.native = r.target.gen /\ r.target.gen <= child.gen
       /\ child.state = "running" /\ r.target.gen = child.gen => r.target.cont = inst["engine"]
  /\ \A r, s \in RestartBodies : r.target.gen = s.target.gen => r.target.cont = s.target.cont

\* A step that only moves requests adds none.
LEMMA BodiesStay ==
  ASSUME \A i \in Ids :
           reqBody'[i] = reqBody[i] \/ \E e \in Executors : reqBody'[i] = hd[e].req,
         \A e \in Executors : hd'[e].req = hd[e].req \/ hd'[e].req = NoBody
  PROVE  RestartBodies' \subseteq RestartBodies
BY DEF RestartBodies

\* Handlers and workers move requests and change neither child nor snapshot.
LEMMA ExecutorsMoveBodies ==
  ASSUME IInv,
         \/ \E e \in Executors : HandlerStep(e) \/ HandlerFault(e)
         \/ \E i \in Ids : WorkerStep(i) \/ ReconcileObserved(i) \/ ReconcileRetired(i)
         \/ \E p \in Producers : HandOffAuthority(p)
  PROVE  RestartBodies' \subseteq RestartBodies /\ UNCHANGED <<proc, inst, child, snap>>
<1> USE DEF ledgerVars, volatileVars
<1>0. /\ reqBody \in [Ids -> Requests \cup {NoBody}]
      /\ DOMAIN hd = Executors /\ \A e \in Executors : hd[e] = [hd[e] EXCEPT !.pc = hd[e].pc]
      /\ \A e \in Executors : \A pc : [hd[e] EXCEPT !.pc = pc].req = hd[e].req
  BY DEF IInv, LedgerInv, LedgerTypeOK, VolatileTypeOK
<1>1. ASSUME NEW e \in Executors, NEW pc, Goto(e, pc) \/ Finish(e) \/ UNCHANGED hd
      PROVE  \A x \in Executors : hd'[x].req = hd[x].req \/ hd'[x].req = NoBody
  <2>1. CASE Goto(e, pc)
    <3>1. hd' = [hd EXCEPT ![e] = [hd[e] EXCEPT !.pc = pc]]
      BY <2>1 DEF Goto
    <3> QED BY <1>0, <3>1
  <2>2. CASE Finish(e)
    <3>1. hd' = [hd EXCEPT ![e] = Idle] /\ Idle.req = NoBody
      BY <2>2 DEF Finish, Idle
    <3> QED BY <1>0, <3>1
  <2> QED BY <1>1, <2>1, <2>2
<1>2. ASSUME NEW e \in Executors, HandlerStep(e) \/ HandlerFault(e)
      PROVE  /\ \A i \in Ids : reqBody'[i] = reqBody[i] \/ reqBody'[i] = hd[e].req
             /\ \A x \in Executors : hd'[x].req = hd[x].req \/ hd'[x].req = NoBody
             /\ UNCHANGED <<proc, inst, child, snap>>
  <2>1. \/ UNCHANGED reqBody
        \/ reqBody' = [reqBody EXCEPT ![hd[e].id] = hd[e].req]
    BY <1>2 DEF HandlerStep, HandlerFault, HandleAccept, HandleStart, HandleRevalidate,
       HandleBoundary, HandleNoThread, Accept, Transition, MarkEffectBoundary
  <2>2. Finish(e) \/ \E pc : Goto(e, pc)
    BY <1>2 DEF HandlerStep, HandlerFault, HandleAccept, HandleStart, HandleRevalidate,
       HandleBoundary, HandleNoThread
  <2>3. UNCHANGED <<proc, inst, child, snap>>
    BY <1>2 DEF HandlerStep, HandlerFault, HandleAccept, HandleStart, HandleRevalidate,
       HandleBoundary, HandleNoThread
  <2> QED BY <1>0, <1>1, <2>1, <2>2, <2>3
<1>3. ASSUME NEW i \in Ids, WorkerStep(i)
      PROVE  /\ UNCHANGED <<reqBody, proc, inst, child, snap>>
             /\ \A x \in Executors : hd'[x].req = hd[x].req \/ hd'[x].req = NoBody
  <2>1. CASE PersistResult(i)
    <3>1. UNCHANGED <<reqBody, proc, inst, child, snap>>
      BY <2>1 DEF PersistResult, Transition
    <3>2. \E e \in Executors : Finish(e) \/ UNCHANGED hd
      BY <2>1 DEF PersistResult, ExecutorOf, Executors
    <3> QED BY <1>1, <3>1, <3>2
  <2>2. ASSUME ~PersistResult(i)
        PROVE  UNCHANGED <<reqBody, hd, proc, inst, child, snap>>
    BY <1>3, <2>2 DEF WorkerStep, ArmRestart, SendTerm, ObserveExit, ExitTimeout, BeginReconcile,
       AwaitChild, RunRollout, RolloutReturns, Invoke, Settle, EffectStep
  <2> QED BY <2>1, <2>2
<1>4. ASSUME \/ \E i \in Ids : ReconcileObserved(i) \/ ReconcileRetired(i)
             \/ \E p \in Producers : HandOffAuthority(p)
      PROVE  UNCHANGED <<reqBody, hd, proc, inst, child, snap>>
  BY <1>4 DEF ReconcileObserved, RecordEffectObserved, ReconcileRetired,
     RecordTargetRetirement, HandOffAuthority, SwitchAuthority
<1> QED BY <1>2, <1>3, <1>4, BodiesStay

LEMMA NextChildInv ==
  ASSUME ~StaleSnapshots, IInv, ChildInv, [Next]_vars
  PROVE  ChildInv'
<1> USE DEF ledgerVars, volatileVars
<1>0. /\ child.gen \in Nat /\ snap.gen \in Nat /\ DOMAIN proc = Executors
      /\ DOMAIN inst = Executors /\ "engine" \in Executors
      /\ \A r \in RestartBodies : r.target.gen \in Nat
  BY DEF IInv, VolatileTypeOK, Targets, Executors, RestartBodies, LedgerInv, LedgerTypeOK, Requests
<1>1. ASSUME RestartBodies' \subseteq RestartBodies, UNCHANGED <<proc, inst, child, snap>>
      PROVE  ChildInv'
  BY <1>1 DEF ChildInv
<1>2. ASSUME NEW e \in Executors, StartProcess(e) \/ OpenLedger(e)
      PROVE  ChildInv'
  <2>1. RestartBodies' = RestartBodies /\ UNCHANGED <<child, snap>>
    BY <1>2 DEF StartProcess, BackfillFences, OpenLedger, ReconcileStarted, RestartBodies
  <2>2. proc[e] # "up" /\ (e # "engine" => proc'["engine"] = proc["engine"] /\ inst'["engine"] = inst["engine"])
    BY <1>0, <1>2 DEF StartProcess, OpenLedger
  <2> QED BY <2>1, <2>2 DEF ChildInv
<1>3. ASSUME NEW e \in Executors, Crash(e)
      PROVE  ChildInv'
  <2>1. RestartBodies' \subseteq RestartBodies /\ UNCHANGED <<snap, inst>>
    <3>1. UNCHANGED reqBody /\ \A x \in Executors : hd'[x].req = hd[x].req \/ hd'[x].req = NoBody
      BY <1>3 DEF Crash, Idle, IInv, VolatileTypeOK
    <3> QED BY <1>3, <3>1, BodiesStay DEF Crash
  <2>2. /\ child'.gen = child.gen
        /\ \/ child'.state = "absent"
           \/ UNCHANGED child /\ proc'["engine"] = proc["engine"]
    BY <1>0, <1>3 DEF Crash, IInv, VolatileTypeOK
  <2> QED BY <2>1, <2>2 DEF ChildInv
<1>4. CASE SpawnChild
  <2>1. RestartBodies' = RestartBodies /\ UNCHANGED <<snap, inst, proc>>
    BY <1>4 DEF SpawnChild, RestartBodies
  <2>2. snap.gen = 0 /\ proc["engine"] = "up" /\ child'.gen = child.gen + 1
    BY <1>4 DEF SpawnChild
  <2>3. \A r \in RestartBodies : r.target.gen < child'.gen
    BY <1>0, <2>2 DEF ChildInv
  <2> QED BY <1>0, <2>1, <2>2, <2>3 DEF ChildInv
<1>5. CASE ChildExits
  <2>1. RestartBodies' = RestartBodies /\ UNCHANGED <<snap, inst, proc>>
    BY <1>5 DEF ChildExits, RestartBodies
  <2>2. child'.state = "delayed" /\ child'.gen = child.gen
    BY <1>5 DEF ChildExits, IInv, VolatileTypeOK
  <2> QED BY <2>1, <2>2 DEF ChildInv
<1>6. CASE PublishSnapshot
  <2>1. RestartBodies' = RestartBodies /\ UNCHANGED <<child, inst, proc>>
    BY <1>6 DEF PublishSnapshot, RestartBodies
  <2>2. \/ snap'.gen = 0
        \/ snap'.gen = child.gen /\ snap'.cont = inst["engine"]
    BY <1>6 DEF PublishSnapshot, NoSnap
  <2> QED BY <2>1, <2>2 DEF ChildInv
<1>7. ASSUME NEW e \in Executors, NEW i \in Ids, NEW intent \in Intents,
             NEW p \in Producers, Receive(e, i, intent, p)
      PROVE  ChildInv'
  <2> DEFINE body == CurrentRequest(e, intent, p)
  <2>1. /\ UNCHANGED <<reqBody, proc, inst, child, snap>> /\ IdentityMatches(e, body)
        /\ \A x \in Executors : hd'[x].req = hd[x].req \/ hd'[x].req = body
    BY <1>7 DEF Receive, IInv, VolatileTypeOK
  <2>2. RestartBodies' \subseteq RestartBodies \cup {r \in {body} : r.intent = RESTART}
    BY <2>1 DEF RestartBodies
  <2>3. body.intent = RESTART =>
          /\ child.state = "running" /\ body.native = child.gen
          /\ body.target.gen = child.gen /\ body.target.cont = inst["engine"]
    BY <2>1 DEF IdentityMatches, ChildInv
  <2> HIDE DEF body
  <2> QED BY <1>0, <2>1, <2>2, <2>3 DEF ChildInv
<1>8. CASE UNCHANGED vars
  BY <1>1, <1>8 DEF vars, RestartBodies
<1> QED BY <1>1, <1>2, <1>3, <1>4, <1>5, <1>6, <1>7, <1>8, ExecutorsMoveBodies DEF Next

\* No FFmpeg child is signalled by two requests, when the producer sees every gap
\* between two children (the restart delay is long enough): the fence then names
\* the child that is signalled, and a fence has one attempt.
THEOREM OneSignal ==
  ASSUME ~StaleSnapshots
  PROVE  Spec => []OneSignalPerChild
<1>1. Init => ChildInv
  BY DEF Init, LedgerInit, ChildInv, RestartBodies, Idle, NoSnap
<1>2. IInv /\ ChildInv /\ [Next]_vars => ChildInv'
  BY NextChildInv
<1>3. IInv /\ ChildInv => OneSignalPerChild
  <2> SUFFICES ASSUME IInv, ChildInv, NEW i \in Ids, NEW j \in Ids,
                      dispatches[i] > 0, reqBody[i].intent = RESTART,
                      dispatches[j] > 0, reqBody[j].intent = RESTART,
                      reqBody[i].native = reqBody[j].native
               PROVE  i = j
    BY DEF OneSignalPerChild
  <2>1. /\ attempts[i] = 1 /\ reqState[i] # "ABSENT" /\ reqBody[i] # NoBody
        /\ attempts[j] = 1 /\ reqState[j] # "ABSENT" /\ reqBody[j] # NoBody
    BY DEF IInv, AttemptInv, LedgerInv, RowsTogether, LedgerTypeOK, VolatileTypeOK
  <2>2. reqBody[i] \in RestartBodies /\ reqBody[j] \in RestartBodies
    BY <2>1 DEF RestartBodies
  <2>3. SameScope(reqBody[i], reqBody[j])
    BY <2>2 DEF ChildInv, SameScope
  <2> QED BY <2>1, <2>3 DEF IInv, LedgerInv, ScopesDistinct
<1> QED BY <1>1, <1>2, <1>3, InvariantHolds, PTL DEF Spec
=============================================================================

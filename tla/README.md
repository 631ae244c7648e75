# A formal model of the stream_v3 runtime boundary, delivery route and notifications

stream_v3 is a home-hosted live stream. An encoder host runs the stream engine
(an FFmpeg child in a Kubernetes Pod) and pushes to a relay in the cloud, which
forwards to YouTube and Twitch. When the relay route fails, a controller on the
encoder host starts a second sender that pushes to YouTube directly. Several
watchers observe the stream and ask for recovery effects; every physical effect
passes one durable ledger. Another ledger carries the notifications to the
operator. This directory holds TLA+ models of the parts that
decide and act, TLC configurations that check them on small instances, and
TLAPS proofs for every value of their constants.

## 1. The system's parts

| part | state | operations | interacts with |
| --- | --- | --- | --- |
| Effect ledger (`src/runtime_boundary/ledger.py`) | SQLite: authority, typed requests, scope fences, reconciliations, retirements | open (migrate, backfill, reconcile started), accept, transition, mark boundary, reconcile, retire, switch authority | opened by two processes at once |
| Effect executors (`server.py`, `runtime_boundary_entrypoint.py`, `runtime_recovery_escalation.py`) | one handler thread, worker threads, the FFmpeg child | a request's way from acceptance to a stored outcome; restart, reconcile, rollout; operator handoff | ledger, FFmpeg, Kubernetes, exported target snapshot |
| Fallback controller (`ops/selfheal/fallback_controller.py`, `route_assessment.py`) | last sample, two windows, transport witness, progress deadline, cause bookmark on disk | poll, decide, scale the backup | relay facts, Kubernetes, maintenance lock and guard |
| Maintenance session (`maintenance_state.py`, `manual_maintenance.py`, `maintenance_host.py`) | session file: phase, effects with results, stability window; archive | on, off, begin, advance, confirm, resume, verify, complete, reconcile; the helpers' unit, replica and path changes | fallback controller, helpers on two hosts, recovery timer |
| Notification outbox (`monitoring-v4/.../outbox_parts`, `notifications/dispatcher.py`) | delivery epochs, intents, one fenced lease, delivery attempts | append; acquire, renew, release; quarantine, list, begin, finish | several dispatchers, a webhook |
| Delivery route (`runtime_boundary_entrypoint.py`, `relay_lease_client.py`, `ops/relay`) | engine: route, sender, lease client, switch; relay: lease, input, forwarding, halt, status file | launch, renew, switch; accept, tick, stop, supervise | engine, guard, MediaMTX, supervisor, operator's grant |
| Forward keeper (`ops/selfheal/forward_keeper.py`) | samples per destination, renewal phase and date on disk | heal, renew, reconcile the forward list | MediaMTX, Twitch |
| CRA agent (`recovery-control`) | claims, limits, policy versions | evaluate, claim, query outcomes | executor socket, central |
| Watchers (`src/watchers`) | thresholds, probe history | ask for effects | executor socket |
| Control loop, stream engine pipeline, Twitch sessions, clock contract, publisher exports, overlay, DJ, deployment | see `PROJECT.json` | | |

What is hard about them, and what makes each correct:

* **Ledger and executors.** Two processes on one file, a serial handler beside
  worker threads, crashes between any two steps, clients that retry, an
  identity read from an exported file. Correct: at most one physical attempt
  per fenced scope; the attempt durable before it is made; one admitted effect
  at a time; outcomes written once and honest; every started effect settles.
* **Fallback controller.** Four kinds of evidence that alternate, gaps,
  restarts that forget the windows, a decision that another process may
  invalidate before it is carried out. Correct: starts and stops are earned and
  bounded, no start inside a maintenance session, causes opened before a start
  and closed only after settled health.
* **Maintenance session.** Every effect is saved PENDING, requested, observed
  and saved APPLIED; the command may die in between, and the helper that carries
  the effect out is a process of its own that may be late or stop half way.
  Correct: no effect twice, recovery down while the source is away, the return
  earned by an unbroken window, nothing late once the session is closed,
  everything left as it was found.
* **Outbox.** Dispatchers that die or stall over their lease while they send,
  results that arrive late, a list that was read before the lease was lost, an
  answer that never comes. Correct: no second send after an unknown result, every
  attempt due when it begins, no message forgotten.
* **Delivery route.** Two publishers for one channel must not overlap, yet the
  engine, the network and the relay may each stop at any step: leases that are
  late, lost or replayed, a guard that hangs between its checks and its request, an
  engine that dies in one route and comes back in the other. Correct: a switch
  leaves no relay that publishes, any other overlap and any forwarding without
  cover is bounded, and the stream comes back.
* **Forward keeper.** A repair that takes two cycles beside a renewal that takes
  minutes, samples kept across an unreachable API, a patch applied before the state
  that records it.

## 2. The modules

| module | models | checked by | proofs |
| --- | --- | --- | --- |
| `EffectLedger` | one operator per ledger transaction; the tables are functions of the request id | through `EffectExecutor` | |
| `FencedEffects` | abstract: what the boundary promises of effects | through `EffectExecutor` | |
| `EffectExecutor` | the engine and the adapter on the ledger, with the FFmpeg child and the target snapshot; implements the promise | `MCEffectExecutor` | `EffectExecutorProofs`, `EffectExecutorFenceProofs`, `EffectExecutorProgressProofs` |
| `Standby` | abstract: what the controller promises of the backup sender | through `FallbackController` | |
| `FallbackController` | the controller, with the lock and the begin and end of a maintenance session; implements the standby | `MCFallbackController` | `FallbackControllerProofs`, `FallbackBoundsProofs` |
| `MaintenanceLadder` | abstract: what a session promises of the stream | through `ManualMaintenance` | |
| `ManualMaintenance` | the maintenance command, the store, the helpers and the recovery units; implements the ladder | `MCManualMaintenance` | `ManualMaintenanceProofs` |
| `Mailbox` | abstract: what the outbox promises of a message | through `NotificationOutbox` | |
| `NotificationOutbox` | the outbox and its dispatchers; implements the mailbox | `MCNotificationOutbox` | `NotificationOutboxProofs` |
| `RelayLease` | the delivery route: engine, lease client, switch, guard, supervisor, MediaMTX | `MCRelayLease` | `RelayLeaseProofs` |

### EffectLedger, EffectExecutor and FencedEffects

`EffectExecutor` extends `EffectLedger`. Each ledger method but the backfill is one
`BEGIN IMMEDIATE` transaction and so one atomic operator; the actions of the
executor call them and add what the processes do around them.
`_backfill_effect_scope_fences` reads the request rows once and then updates their
fences in autocommit, so that the other process may act between two updates and a
crash may leave some of them undone. `BackfillFences` does it in one step. Nothing is
lost: a row that has left ACCEPTED never returns to it, a backfill changes only the
count of such a row, and `mark_effect_boundary` and the retirement read the count only
while the fence is unresolved. At most one unresolved fence is not counted yet at a
time (`accept` admits nothing beside an unresolved one, and every conclusion counts the
attempt), so at most one update of a backfill can be observed, and the step stands for
that one; a crash before it is a crash before `StartProcess`.
`_handle_connection` is cut where another actor can observe or interfere:
`Receive` (validation and first identity check), `HandleAccept`, `HandleStart`,
`HandleRevalidate` (second identity check), `HandleBoundary` (the attempt is
reserved and the worker started), `HandlerFault` (an exception out of any of
them). A worker's effect is cut at the signal: `ArmRestart`, `SendTerm`,
`ObserveExit`, `ExitTimeout`, `PersistResult`; the sidecar performs its rollout
inside its handler. `dispatches` counts invocations and is a history variable
(no action reads it). Time is abstract: a timeout may fire in any state its wait
can be in. A replaced Pod is a replaced container; the n-th child is generation n.
Opening a ledger file takes two steps (the migration with its backfill, then
`reconcile_started`), which the other process may separate.

`StorageFaults` stands for every exception that ends a request early without its
outcome being stored: out of a ledger call, or out of the second reading of the
identity. `InFlightIsHeld` is stated for executions without one: `server.py` answers
such an exception and leaves the row in EXECUTION_STARTED until the ledger is
reopened.

`FencedEffects` says what all this is for: a request claims a scope that no other
ever claims, acts at most once and gets one outcome, and behind a known outcome it
does not act any more; for the scopes whose effect can be told exactly (one FFmpeg
child, signalled through a pidfd) a recorded failure did not act and an observed
effect did. Under the mapping of `Fenced` the rows of the ledger are the claims,
`dispatches` the acts and the request states the outcomes; `KeepsPromise` says that
`EffectExecutor` implements it.

Not modelled here: the delivery route switch (see `RelayLease`); the legacy request table, which
nothing fills any more; rows that predate the fences (the backfill inserts those); two resolutions no service uses; the read-only queries;
peer authentication; the audit hooks, which change no decision.

### Standby and FallbackController

Time counts polling intervals. One `Poll` is the body of the loop in `main` up
to the decision: it classifies the observation (`Observations` lists what
`observe()` and the comparisons of `Controller.healthy` can produce), folds in
the transport witness, arms and renews the progress deadline, computes both
windows, decides, and saves the cause bookmark. The dispatch is separate steps,
because another process interleaves: `TryLock`, `RecheckGuard`, `Scale`,
`Dispatched`. The maintenance command (`CliLocks`, `CliChecks`, `CliBegins`,
`CliCompletes`, `CliEnds`) is its lock, its snapshot without a backup sender,
and the two writes that change the guard. `Crash` and `Restart` are systemd's
`Restart=always`; `Reboot` takes the host down, and the maintenance command and
the beginning of the settling window with it. `hist` remembers, for the
properties only, when a poll last gave a reason against the decision, and `moved`
when the backup's replica count last changed; no action reads either.

`Standby` says what the operator is promised of the backup sender: it is started
only for an open cause, after the route made no verified progress for a full
window, and stopped only after it progressed for longer than the other; neither
happens within its window of the last change, so the backup never flaps; nothing
moves in a maintenance session, which opens only while the backup is away; and a
cause is closed only by settled health. `KeepsStandby` says that `FallbackController`
implements it: a poll is evidence that comes in, a `kubectl scale` that takes effect,
reported as failed or not, is `Start` or `Stop`, a command opens and closes the
session, a tick of the clock passes, and everything else stutters.

Not modelled: the UTC diagnostics and the status file (no decision reads them), the
time before the maintenance store is installed (the controller then takes no lock,
and there is no session), and a `kubectl scale` that the API server commits after the
client was killed and the lock released.

### MaintenanceLadder and ManualMaintenance

`MaintenanceLadder` is the promise to a viewer: the slate is armed before the
source stops, the source is back before the slate is disarmed, a session that
has turned around never climbs again, and it closes with both as they were.
`ManualMaintenance` implements it (`WalksTheLadder`): `open` is a phase other than
NORMAL, `returning` one of the return phases, `armed` and `dark` are the relay's
path fields and the replica count themselves, not what the session believes.

One command runs at a time (`cli` holds its place). `on` and `off` are the
low-level commands one after the other, each starting from the state on disk, so
a command may stop after any step (`Leave`), or be killed where it waits
(`Kill`); what it wrote stays. An effect is cut at its writes: `Intend` saves
PENDING, `Send` starts the helper, `Confirm` compares a snapshot and saves
APPLIED, `GiveUp` is the `except BaseException` that saves OUTCOME_UNKNOWN. A
`wait_content` is one step that is enabled when its samples would pass. The
helper works on `request` by itself: `Refuse`, `Patch`, `ScaleMain` are one write
to an API with a test; `Quiesce` and `RestoreUnits` are one `systemctl` command
per step, and `Lose` may end them in between. `Recovery` is the timer, its oneshot
service and an effect the service submits. The verification window is
`stability` (what is on disk) beside `steady`, which measures for the properties
how long the connection has really lasted.

`maintenance_host.py` runs each command with a 25 second limit and the session's
own calls have 60 seconds, but killing `ssh` or `sudo` does not kill the helper.
A helper acts on the recovery timer that its request carries (`Carried`), which is the
one its own session found. With `Lingering` false a helper has ended before the next
session begins and before a unit of the verification's time passes; with it true, a helper whose
command and lock are gone may enable the recovery timer in the next session, and
`RecoveryQuiet` and `NothingLate` fail. No text of the repository rules this out
explicitly, so it is recorded as a hazard and not as a finding. The theorems on the
recovery units and on lateness are for `Lingering` false; the others (types, sent
once, the return, the ladder, the honest phase) hold for both values.

Not modelled: replaced hosts or workloads and a restarted relay (they hold every
command for good), the entry deadline (it only refuses a confirmation), status
and lab adapter, and the contents of the slate.

### Mailbox and NotificationOutbox

`Mailbox` is the promise of one message: the receiver takes it at most once,
"delivered" is said only of a message that was taken, "refused" and another attempt
only of one that was not, and once the outbox lost track of a message it says
"unknown" for ever. `NotificationOutbox` implements it (`KeepsMailbox`).

Each repository call is one transaction and one action: `ActivateEpoch`,
`CloseEpoch` and `Append` (`intents.py`), `Acquire`, `Renew` and `Release`
(`leases.py`), `Quarantine`, `List`, `Begin` and `Finish` (`delivery.py`). `pc` walks
a dispatcher through `dispatch_once`, so that another may take the lease over
between any two calls; `Send` is the provider's request with every answer it can
come to, and `Break` the `finally` clause. `StorageError`, `Crash` and a lease that
runs out under its owner are the faults. Of an intent's attempts only the latest is
kept, because every earlier one has failed retryably (any other state blocks the
next).

Time is relative and so needs no bound: the lease and the retry count down, an
attempt's age stops at the timeout. A call compares with a clock that was read
before its transaction; `late` is the age of that reading. A dispatcher decides by
the reading of its `Acquire` what is overdue and what is ripe; `Begin` compares the
expiry with the reading its own `Renew` used, so this check cannot fail and is left
out. The limit of 20 and the order of the list are abstracted to a set. The
`not_before_ts` of a message is left out: it only lists a message later, so the
model has every behaviour of the code, and says nothing of that delay (the due time in
`AttemptsEarned` is the retry's).

Two things are assumed. The repository is the SQLite one, whose transactions are
`BEGIN IMMEDIATE` and exclude one another; every dispatcher the repository constructs
runs on it. `PostgresMonitoringRepository` composes the same calls, but its
`transaction()` runs at the server's default isolation, READ COMMITTED. There the
statements of one call may see different states: a dispatcher that stalls past its
lease between the two SELECTs of `begin_delivery_attempt`, the one of the blocking
attempt and the one of `MAX(attempt_no)`, could insert an attempt after one that was
delivered meanwhile. `AtMostOnce` and `KeepsMailbox` are not claimed for it. And of the provider: when it reports a
failure (a 4xx or 5xx answer) it has not taken the message. The code relies on this
when it retries a 5xx or 429. The records E-02, E-03 and E-05 of
`monitoring-v4/docs/failure-mode-mitigation-record.md` support it only in part: they
treat a timeout as uncertain and a 5xx as retryable, and say that the semantics of
the real providers are not verified.

### RelayLease

This is the route of the code in the repository. `docs/v3/oci-relay-and-twitch.md`
says of it that production superseded it on 2026-10-20 with a self-healing fan-out;
the engine still contains it and starts on its direct side.

The engine starts on the direct route (FALLBACK). `EnterRelay` or `LeaveRelay`,
`StopReceipt`, `RestartSender`, `ChangeRoute` and `SwitchFails` are the steps of
`SWITCH_STREAM_ROUTE` in its worker; `LaunchDirect`, `LaunchRelayed` and
`LaunchFails` the launch of the next sender; `Post`, `Acknowledged` and `TickFails`
a tick of the lease client. The guard's `tick` is cut at `Look`, `Recheck` and
`Forward`, because time may pass between the checks and the API call that enables
forwarding; `Accept` is a lease that arrives between two ticks, `Stops` the stop for
any of its reasons, `Beat` the status file. The supervisor reads that file: `Due`
and `Kill`.

A lease is known by its guard, its sender and what is left of it. Sequence numbers
and the high-water mark are modelled by leases that are spent: all leases under way
have the same next number, so the one that is admitted makes the rest replays.
`posted` holds what was signed, and since any of them may be accepted at any moment
or never, it covers delays, losses and reordering. The identity check and the
sequence check each exclude a replay by themselves. The guard's check of its own
instance (`l.inst = inst` in `Accept`) is modelled, and no property depends on it:
without it a lease for an earlier guard would still be held to its sender and its
expiry, which `LeaseAgrees` and `OverlapBounded` rest on. The operator's grant caps every
expiry, so its end is the end of every lease, and the continuous mode is not
distinguished. Identities are random and are recycled once nothing compares them
(`Fresh`), so that no number of senders, guards, renewals or crashes is bounded.

No step of the engine, the network or the guard has a deadline. Only the supervisor
is prompt: `Pass` lets no time go by while something is `Due`. Its own death is
outside the model (the host's service manager), and its stop, up to about three
seconds, counts as none: in seconds the bounds are those of `OverlapBounded` and
`ReactionBounded` plus that stop. A jump of the clock is one of the reasons for a stop
(`RELAY_CLOCK_CHANGED`); a skew between the two hosts is not modelled. Also left
out: the checks of the forward destinations (a stop), and the timeout of the
client's join in `close()`.

What the model shows beside the properties: an engine that dies in PRIMARY comes
back on the direct route without a stop receipt, so the overlap is bounded by a
lease and a start and not excluded; and after the relay stopped itself, the direct
route is reached through a restart of the engine only.

## 3. The runs

| run | question | result |
| --- | --- | --- |
| `Executor_engine` | one attempt, durable fence, agreement of the two unresolved views, bound authority, honest outcomes, types | holds |
| `Executor_shared` | two processes on one ledger: the promise of `FencedEffects`, one active fence, outcomes written once; one signal per child when the snapshot producer sees every gap | holds |
| `Executor_live` | with a ledger that does not fail, every started effect is in the hands of one thread of its live process; it settles (fairness) | holds |
| `Executor_stale` | one signal per child with a producer that may miss a gap | violated: finding 1 |
| `Executor_late` | a concluded scope stays concluded | violated: finding 2 |
| `Executor_accepted` | an accepted request is decided after a restart | violated: finding 3 |
| `Fallback` | starts and stops earned and bounded, cause closures, no start inside a session, the abstract standby, types | holds |
| `Maintenance_session` | effects sent once, recovery down while the source is away, the return earned, nothing late, all left as found, a phase that tells the truth about the stream, the ladder | holds |
| `Outbox` | at most one delivery, attempts due when they begin, the mailbox; what is in flight settles and what is eligible concludes (fairness) | holds |
| `Relay` | no relay beside a switched sender, bounded overlap and reaction, agreement of the leases; back on the direct route (fairness) | holds |
| `Maintenance_archive` | whatever interrupted a command, a session can be begun | violated: finding 4 |
| `Maintenance_refused` | a session can be closed again (fairness, no faults) | violated: finding 5 |

**Bounds.** Executors: two request ids (a second claimant and a first are what
every conflict needs), two PIDs so that one is reused, two children, one crash
of the engine (two starts) and, in `Executor_live`, one of the sidecar (in
`Executor_shared` it starts once, at any moment beside the engine); two
producers where the authority matters. Ids, producers and PIDs are symmetric and
only the safety runs use the symmetry. Fallback: the timers keep the order of
the source (`START_AFTER` at most `AFTER`, a gap longer than `MAX_SAMPLE_GAP`
exists, `STABLE` longer than any gap) scaled to a few intervals; the clock
reaches the deadline, a window and a poll, one restart and one session, which
may be open already when the controller starts. Maintenance: two sessions, so
that the second meets what the first left; three faults, so that an effect can
be lost, its command killed and the host rebooted in one session; a window of
two units with samples that may be one unit apart. Outbox: two dispatchers and
two messages, because every race is one of the lease or of one message between
two; two attempts, so that one is a retry; one fault beside any staleness of a
clock; one epoch, which may close under a call; time is not bounded. Relay: two
senders and two guards (a successor beside its predecessor), a lease of two
units so that it outlasts a heartbeat; time, crashes, switches and renewals are
not bounded. The runs of executors, fallback and maintenance stop at these
bounds, and a session that is held for good is a legal end, so deadlock is not
checked there; the outbox and the relay never stop.

**Fairness.** `FairSpec` is weak fairness of each process's handler steps, of
its restart, and of each worker: operating system threads run, and the kubelet
restarts containers. It does not make clients ask, children appear or snapshots
arrive. `EagerSpec` adds exactly that, and is used only to show that finding 3
is not a lack of trying. `SmoothSpec` is the same for finding 5: no fault, an
operator who goes on, reconciles and returns (strong fairness of the command,
which a refused step may disable), helpers that run, samples in time. The outbox
assumes that time passes and that some dispatcher goes on when one can: nothing
in the repository schedules `dispatch_once`, so this is an assumption on the
deployment, and it promises no single dispatcher a turn. The route assumes the
engine's threads (client, worker, main loop, restart of the container) and that
a sender whose pipe is closed or whose relay is over exits; `LaunchDirect` needs
strong fairness because other launches interrupt it. Guard, network and operator
are promised nothing. The fallback properties on time are safety properties
(bounds on a clock), so they need no fairness.

**Mutants.** Every property of a passing run has a mutant of a mapped definition
that breaks it: a dropped guard (scope, unresolved fence, guard under the lock),
a swapped or missing write (fence beside request, attempt count), a window that
is not reset, a deadline renewed by any sample, a reconciliation that frees or
presumes what it does not observe, a command that starts over an unknown effect,
a stopped timer taken for a disabled one, a lease renewed from the wrong clock,
a permission that forgets the fence token, a route that survives its process, a
receipt that is not awaited, a row forgotten when no worker starts, a status file whose age is not looked at.

## 4. Findings

1. *Stale snapshot* (`runtime_boundary_entrypoint.py:155`). The identity check
   joins an exported snapshot with the live native generation and compares only
   the Pod. If the producer misses the restart delay, one child can be
   signalled under two identities, hence two scopes.
2. *Late worker* (`ledger.py:666`). `transition` compares the request row and
   overwrites the fence; a scope that was reconciled becomes unresolved again,
   and its reconciliation id is used up.
3. *Accepted before a restart* (`server.py:696`). The accepted request is pinned
   to the dead executor instance; it can be neither resumed nor reconciled and
   `accept` refuses all other scopes.

4. *Archive before session* (`manual_maintenance.py:290`). `begin` archives the
   previous session and then saves the new one; interrupted in between, the
   archive exists, the phase is NORMAL, and every later `begin` is refused.
5. *Refused is unknown* (`manual_maintenance.py:253`). A helper's refusal before
   it acted is recorded OUTCOME_UNKNOWN. `reconcile` waits for the target state,
   which nobody requests again, and `off` waits for `reconcile`. The recovery
   timer firing between the intent and the helper's check is enough. Holding an effect
whose outcome is unknown is deliberate; what the run shows is that no command of the
program leaves that state, since the target state has to be brought about by hand on
the host before `reconcile` can accept it.

## 5. The proofs

Checked by TLAPS for every value of the constants that satisfies the named
assumptions, which say no more than this:

* `ExecutorAssumption`, `NoBodyAssumption`: numbers are numbers, 0 is no PID, and
  `NoBody` is neither an id nor a request.
* `FallbackAssumption`: numbers are numbers, the stop window and the deadline are
  positive, the start window does not exceed the deadline, polls have a longest gap
  and a maintenance session lasts longer than it.
* `MaintenanceAssumption`: numbers are numbers, the window is positive.
* `OutboxAssumption`: the lease outlasts an attempt's timeout (the constructor
  refuses anything else), limits and times are numbers.
* `RelayAssumption`: lease and heartbeat are positive and a relay has at least a
  heartbeat to start.

* `EffectExecutorProofs`: types, `FenceBeforeEffect`, `OneAttemptPerScope`,
  `OutcomeWriteOnce`. The properties are not inductive: that an id has not been
  dispatched twice needs that a worker which has not acted owns the reservation
  (`AttemptInv`), that reservations are never given back by any ledger operation
  (`AttemptsKept`, one lemma per operation), and that rows have distinct scopes
  (`ScopesDistinct`, kept because only `accept` inserts). One lemma per group of
  actions then shows the conjunction `IInv` inductive.
* `EffectExecutorFenceProofs`: `OneActiveFence`, `UnresolvedViewsAgree`,
  `UnresolvedOwnerKeepsAuthority`, `OutcomeHonest`, the refinement `KeepsPromise`
  and `OneSignalPerChild`. `PairInv` relates the request rows to the fences,
  `HolderInv` says that the handler past its acceptance still holds its row and that
  nobody acted on it, `WorkInv` that a worker knows whether it has signalled and that
  what is recorded is what happened. The hard case is a request that is resumed after
  others were concluded: `GensInv` shows that a request whose fence was
  concluded while it waited names an earlier child than the snapshot, which never goes
  back, so that the second identity check cannot pass for it.
  `StepKeepsPromise` maps every action to one step of `FencedEffects` or a stutter.
  `ChildInv` (two restarts have different scopes only if they name different
  children) carries `OneSignalPerChild`; it needs a producer that sees every gap
  (`~StaleSnapshots`), which the restart delay makes likely and nothing enforces, and
  finding 1 is what happens without.
* `EffectExecutorProgressProofs`: `InFlightIsHeld`, and `HoldersProgress`, which is
  what remains of `InFlightSettles` without fairness. `HeldInv` says that a started
  row of a live process is with the handler or has a worker, that a worker is at a
  step which its intent has (another would be stuck for good), that the handler which
  is about to give up found no worker, and that a rollout is performed by the handler
  which holds its row, so that the end of one effect never drops another. `Distance`
  counts the steps an effect is away from its outcome, the restart of a dead process
  included; `Progress` says that every step of the holder (`HolderStep`) lowers it and
  that only a crash of its process raises it: no other thread, client, child, snapshot
  or reconciliation can. Both assume a ledger that does not fail (`~StorageFaults`):
  with faults a handler may leave its row behind, and the theorems are false.
* `FallbackControllerProofs`: types, `NoBackupDuringMaintenance`, `StartEarned`,
  `StopEarned`, `StartHasCause`, `CauseClosureEarned`. `LockInv` is the lock
  protocol (a command past its checks has seen no backup, a controller past the
  guard no session, never both in the lock). `WindowInv` relates each window to
  the history: the healthy window began after the last poll that was no verified
  progress, the failure window and the deadline not before the last that was
  verified progress or inhibited, and a process without a sample whose deadline
  already runs has opened a cause. `Assessed` says what each assessment implies
  about the evidence. `ImplementsStandby` is the refinement `KeepsStandby`. A decision
  is carried out steps after its poll, perhaps by a `kubectl` that reports a failure
  and has changed the count all the same, and the windows restart with the process;
  `MovedInv` says why each change is nevertheless a full window away from the last:
  while the backup is away it was last changed no later than the last verified
  progress or inhibition, while it runs no later than the last poll without, and what is being
  carried out was decided at this instant from this replica count.
  `StartHasCause`, which the run checks as a guard of `Standby`, is an invariant of
  its own in the proof.
* `FallbackBoundsProofs`: `BoundedStart` and `BoundedStop`. They need an account of
  how the windows move between polls: `StartBound` says how far the evidence against
  the route can reach back before the controller has decided, counted from the last
  verified progress or the start of the process, and `StopBound` how long health can
  have lasted before the healthy window has it.
* `ManualMaintenanceProofs`: types, `SentOnce`, `ReturnEarned`, that the
  session implements `MaintenanceLadder`, and `PhaseHonest`. A late request is what makes these hard:
  `PlantInv` says that a request on its way to the relay or the sender is always of
  the one effect that is recorded unresolved and not yet applied; `OrderInv` that
  at most one effect is unresolved and that this holds the phase; `CliInv` that
  what a command found under the lock still holds at each of its steps;
  `SentInv` that what was not intended was not sent; `WindowInv` that the window is
  no longer than the connection lasted. One lemma per conjunct, one step per
  action; `LadderStep` maps each action to a rung or a stutter.
  `PhaseHonest` is then proved through the abstraction: `LadderRungs` is an invariant of
  the ladder itself (dark only behind an armed slate, nothing armed while closed), and
  `SlateInv` adds what the saved phase says of the sender and the path.

  For `Lingering` false, `QuietInv` adds the progress of the two unit requests: quiesce is
  applied before the slate is armed, the units come back only once the session
  restores, nothing is on its way while a session is opened, and the request for
  quiesce has ended before a window can grow. `RecoveryQuiet`, `LeavesAsFound` and
  `NothingLate` follow.
* `NotificationOutboxProofs`: types, `AtMostOnce`, `AttemptsEarned` and the refinement
  `KeepsMailbox`. `InHand` says what a dispatcher at each of its calls knows of the
  attempt in its hand although the lease may be another's; `Lone` that an attempt in
  flight is in at most one dispatcher's hand; `TakenAgrees` that the message was
  taken only if the latest attempt may say so; `ListFresh` and `RipeStays` that a
  message which was ripe when it was listed still is if the fence token is current.
* `RelayLeaseProofs`: types, `SwitchFenced`, `OverlapBounded`, `ReactionBounded`,
  `LeaseAgrees`. Every bound on time is a bound on a sum of time spent and time left: the time a
  relay has been beside the direct route and the time its lease has left
  (`Overlap`), the time without cover and the time until the status file is too old
  (`Reaction`). `BoundHere` and `Agreed` relate a lease to the sender, the guard and
  the input it was signed for, `Fenced` the steps of a switch to the relay that
  still runs.

Only model-checked: the liveness properties `InFlightSettles`, `StaleSettles`,
`Concludes` and `DirectAgain`, because fairness and ENABLED are out of the prover's
reach. The findings are counterexamples that TLC shows. Every other property of a
passing run is a theorem. `InFlightSettles` is proved up to its fairness
(`HoldersProgress`); that weak fairness of the holder's steps then brings the distance
down is an induction under fairness, which TLC checks on its instance.

## 6. The plan

Done, in this order:

1. Ledger and executors: the one place every effect passes.
2. Fallback controller with an abstract session.
3. Maintenance session with its helpers, as an implementation of the abstract
   ladder.
4. Notification outbox: dispatchers, leases with fence tokens, attempts, as an
   implementation of an abstract at-most-once mailbox.
5. `FencedEffects`, the abstract specification of the executors.
6. Relay lease with the delivery route switch, the guard and its supervisor.
7. Proofs of every safety property, action property and refinement of 1 to 6.
8. `Standby`, the abstract specification of the fallback controller, with its
   refinement; `PhaseHonest` of the session; `InFlightIsHeld` and the distance of an
   effect to its outcome.

Open:

9. Forward keeper: the two-cycle repair beside the daily renewal. Two things to
   look at: a crash between the patch of MediaMTX and the write of its state renews
   the same day again, and samples are kept across a renewal and an unreachable API.
10. That the session of `ManualMaintenance` implements the inhibition which
   `FallbackController` assumes of it, so that the two compose.
11. CRA agent: claims and limits, with an answer that never comes. Twitch sessions.
12. The watchers' budgets, as far as their thresholds can be abstracted.
13. Distances of the same kind for `StaleSettles` and `DirectAgain`.

## 7. Not modelled

Media, rendering, audio, DJ, overlay, deployment files and host scripts (I/O without
protocol state); the clock contract (interval arithmetic); exports that only read;
the YouTube copy process (a process around an external library, whose export is an
input of the fallback controller). What a modelled part leaves out is said in its
section above and in `PROJECT.json`.

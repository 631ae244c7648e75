------------------------- MODULE ManualMaintenance -------------------------
(***************************************************************************)
(* The manual maintenance session (ops/selfheal/manual_maintenance.py), the*)
(* host helper that carries out its effects (maintenance_host.py) and the  *)
(* durable store (maintenance_state.py).                                   *)
(*                                                                         *)
(* One command runs at a time, under the exclusive lock.  on and off are   *)
(* the low-level commands one after the other under one lock; each of them *)
(* starts from the state on disk, so a command is modelled by the step it  *)
(* is at and may stop after, or before, any of them.                       *)
(*                                                                         *)
(* An effect is recorded PENDING, requested from a helper on the host it   *)
(* concerns, confirmed by a snapshot and recorded APPLIED; anything that   *)
(* goes wrong records it OUTCOME_UNKNOWN.  The helper is a process of its  *)
(* own: it outlives a command that was killed or gave up, and its lock.    *)
(* Each of its commands is cut off after 25 seconds, so that it normally   *)
(* has ended before the next session or a unit of the verification's time; *)
(* Lingering drops this.                                                   *)
(*                                                                         *)
(* Left out: hosts or workloads that are replaced, a relay that restarts   *)
(* (both hold every command for good), and the entry window, which only    *)
(* refuses a confirmation.                                                 *)
(***************************************************************************)
EXTENDS Integers

CONSTANTS
  STABLE_SECONDS, \* live output that earns the return
  MAX_GAP,        \* largest distance of two samples that may be compared
  Lingering,      \* helpers may live on into the next session, and through a tick
  MaxSessions,    \* bound on sessions
  MaxFaults       \* bound on kills, give-ups, lost requests and reboots

ASSUME MaintenanceAssumption ==
  /\ STABLE_SECONDS \in Nat \ {0} /\ MAX_GAP \in Nat
  /\ Lingering \in BOOLEAN /\ MaxSessions \in Nat /\ MaxFaults \in Nat

VARIABLES
  phase,     \* the session on disk: its phase,
  effects,   \*   the result recorded for each effect,
  before,    \*   the recovery timer as it was found,
  stability, \*   and the live output seen while VERIFYING
  sessions,  \* how many were opened
  archived,  \* the archive of the current session exists
  cli,       \* the running command: its place, and the step it is at
  request,   \* the helper's work on the request for each effect
  sent,      \* how many requests the current session sent for each effect
  main,      \* .spec.replicas of the main sender
  path,      \* the relay's path fields: as found, or armed with the slate
  timer,     \* the recovery timer: enabled, active
  service,   \* the recovery service is running
  busy,      \* the effect ledger has an unresolved effect
  steady,    \* for how long the live connection has been unbroken
  faults

saved == <<phase, effects, before, stability, sessions, archived>>
plant == <<main, path, timer, service, busy>>
vars == <<saved, cli, request, sent, plant, steady, faults>>

Effects == {"quiesce", "arm_slate", "source_stop",
            "source_resume", "restore_path", "restore_units"}

OnDell == Effects \ {"arm_slate", "restore_path"}

Over == {"none", "done", "refused", "lost"}

Returning == {"RESUMING", "VERIFYING", "RESTORING"}
Entering == {"PREPARING", "AWAITING_SLATE_CONFIRMATION", "MAINTENANCE"}

\* Where a command starts, and the other steps it takes.
Steps == {"quiesce", "confirm", "resume", "verify", "complete"}

Places ==
  Effects \cup Steps \cup {"none", "archive", "open", "await_live", "await_slate",
                          "live_again", "live_restored", "close"}

Idle == [pc |-> "idle", at |-> "none"]
At(step) == cli = [pc |-> "run", at |-> step]
Goto(step) == cli' = [pc |-> "run", at |-> step]

NoStability == [known |-> FALSE, age |-> 0, length |-> 0]

Init ==
  /\ phase = "NORMAL" /\ effects = [e \in Effects |-> "none"]
  /\ stability = NoStability /\ sessions = 0 /\ archived = FALSE
  /\ cli = Idle
  /\ request = [e \in Effects |-> "none"] /\ sent = [e \in Effects |-> 0]
  /\ main = 1 /\ path = "found"
  /\ timer \in [enabled : BOOLEAN, active : BOOLEAN] /\ before = timer
  /\ service = FALSE /\ busy = FALSE /\ steady = 0 /\ faults = 0

-----------------------------------------------------------------------------
(* What the command sees.                                                  *)

\* no_unknown.
NoUnknown == \A e \in Effects : effects[e] \in {"none", "APPLIED"}

\* Mutant: a stopped timer is quiet although it is enabled.
Quiet_Stopped == ~timer.active /\ ~service

Quiet == ~timer.enabled /\ ~timer.active /\ ~service

\* A snapshot that passes bound; a recovery service that is just running is waited
\* for, which fails after a while.
Bound ==
  /\ ~service /\ ~busy
  /\ phase \notin {"NORMAL", "RESTORING"} /\ effects["quiesce"] = "APPLIED" => Quiet

\* applied.
Applied(e) ==
  \/ e = "quiesce" /\ Quiet
  \/ e = "arm_slate" /\ path = "armed"
  \/ e = "source_stop" /\ main = 0
  \/ e = "source_resume" /\ main = 1
  \/ e = "restore_path" /\ path = "found"
  \/ e = "restore_units" /\ timer = before

\* wait_content: samples that show the content and its progress.
Live == Bound /\ main = 1
Slate == Bound /\ main = 0 /\ path = "armed"

-----------------------------------------------------------------------------
(* Entering.                                                               *)

Lingers == \E e \in Effects : request[e] \notin Over

\* begin: the preflight, the archive of the session before, the new session.
Begin ==
  /\ cli = Idle /\ phase = "NORMAL" /\ sessions < MaxSessions
  /\ Live /\ path = "found" /\ (Lingering \/ ~Lingers)
  /\ Goto("archive")
  /\ UNCHANGED <<saved, request, sent, plant, steady, faults>>

Archive ==
  /\ At("archive") /\ ~archived
  /\ archived' = (sessions > 0)
  /\ Goto("open")
  /\ UNCHANGED <<phase, effects, before, stability, sessions, request, sent, plant,
                 steady, faults>>

OpenSession ==
  /\ At("open")
  /\ phase' = "PREPARING" /\ effects' = [e \in Effects |-> "none"]
  /\ before' = timer /\ stability' = NoStability
  /\ sessions' = sessions + 1 /\ archived' = FALSE
  /\ sent' = [e \in Effects |-> 0]
  /\ Goto("quiesce")
  /\ UNCHANGED <<request, plant, steady, faults>>

Stages(step) ==
  \/ step = "quiesce" /\ phase = "PREPARING"
  \/ step = "confirm" /\ phase \in {"AWAITING_SLATE_CONFIRMATION", "MAINTENANCE"}
  \/ step = "resume" /\ phase \in Entering \cup {"RESUMING"}
  \/ step \in {"verify", "complete"} /\ phase \in {"VERIFYING", "RESTORING"}

\* Mutant: an effect whose outcome is unknown stops no command.
Start_Unknown(step) ==
  /\ cli = Idle /\ Stages(step)
  /\ Goto(step)
  /\ UNCHANGED <<saved, request, sent, plant, steady, faults>>

\* advance, confirm-slate, resume, verify and complete on a session on disk, also
\* as on and off enter them.
Start(step) ==
  /\ cli = Idle /\ NoUnknown /\ Stages(step)
  /\ Goto(step)
  /\ UNCHANGED <<saved, request, sent, plant, steady, faults>>

\* The output is confirmed live once more before the source is stopped.
AwaitLive ==
  /\ At("await_live") /\ (effects["source_stop"] = "none" => Live)
  /\ Goto("source_stop")
  /\ UNCHANGED <<saved, request, sent, plant, steady, faults>>

SetPhase(new) ==
  /\ phase' = new
  /\ UNCHANGED <<effects, before, sessions, archived, request, sent, plant, faults>>

AwaitSlate ==
  /\ At("await_slate") /\ Slate
  /\ SetPhase("AWAITING_SLATE_CONFIRMATION") /\ Goto("confirm")
  /\ UNCHANGED <<stability, steady>>

\* confirm_slate, after the operator said yes.
ConfirmSlate ==
  /\ At("confirm") /\ Slate
  /\ SetPhase("MAINTENANCE") /\ cli' = Idle
  /\ UNCHANGED <<stability, steady>>

-----------------------------------------------------------------------------
(* Returning.                                                              *)

Resume ==
  /\ At("resume")
  /\ SetPhase("RESUMING") /\ Goto("source_resume")
  /\ UNCHANGED <<stability, steady>>

LiveAgain ==
  /\ At("live_again") /\ Live
  /\ Goto("restore_path")
  /\ UNCHANGED <<saved, request, sent, plant, steady, faults>>

LiveRestored ==
  /\ At("live_restored") /\ path = "found" /\ Live
  /\ SetPhase("VERIFYING") /\ Goto("verify")
  /\ stability' = NoStability /\ steady' = 0

\* verification_sample: live output, on the connection of the sample before and
\* not long after it.
GoodSample ==
  /\ Live /\ path = "found"
  /\ stability.known => stability.age <= MAX_GAP

NextStability == [known |-> TRUE, age |-> 0, length |-> stability.length]

\* Samples of two connections compare no better than samples too far apart.
Disconnected ==
  IF stability.known THEN [stability EXCEPT !.age = MAX_GAP + 1] ELSE stability

\* Mutant: a sample on another connection goes on counting.
BadSample_Kept ==
  /\ At("verify") \/ At("complete")
  /\ Bound /\ path = "found"
  /\ stability' = [stability EXCEPT !.age = 0] /\ steady' = 0
  /\ cli' = (IF At("verify") THEN cli ELSE Idle)
  /\ UNCHANGED <<phase, effects, before, sessions, archived, request, sent, plant,
                 faults>>

\* One that shows no progress, or cannot be compared, starts the window again.
BadSample ==
  /\ At("verify") \/ At("complete")
  /\ Bound /\ path = "found"
  /\ stability' = NoStability /\ steady' = 0
  /\ cli' = (IF At("verify") THEN cli ELSE Idle)
  /\ UNCHANGED <<phase, effects, before, sessions, archived, request, sent, plant,
                 faults>>

\* verify.
Verify ==
  /\ At("verify") /\ GoodSample
  /\ stability' = NextStability
  /\ IF stability.length >= STABLE_SECONDS THEN Goto("complete") ELSE UNCHANGED cli
  /\ UNCHANGED <<phase, effects, before, sessions, archived, request, sent, plant,
                 steady, faults>>

\* complete, after the operator said yes: one more sample decides.
Complete ==
  /\ At("complete") /\ GoodSample
  /\ stability' = NextStability
  /\ IF stability.length >= STABLE_SECONDS
     THEN phase' = "RESTORING" /\ Goto("restore_units")
     ELSE UNCHANGED phase /\ cli' = Idle
  /\ UNCHANGED <<effects, before, sessions, archived, request, sent, plant, steady,
                 faults>>

CloseSession ==
  /\ At("close")
  /\ SetPhase("NORMAL") /\ cli' = Idle
  /\ UNCHANGED <<stability, steady>>

-----------------------------------------------------------------------------
(* An effect of the command.                                               *)

After == [e \in Effects |->
  IF e = "quiesce" THEN "arm_slate"
  ELSE IF e = "arm_slate" THEN "await_live"
  ELSE IF e = "source_stop" THEN "await_slate"
  ELSE IF e = "source_resume" THEN "live_again"
  ELSE IF e = "restore_path" THEN "live_restored" ELSE "close"]

\* The return only undoes what it finds done.
Needed(e) ==
  (e = "source_resume" => main = 0) /\ (e = "restore_path" => path = "armed")

Record(e, result) ==
  /\ effects' = [effects EXCEPT ![e] = result]
  /\ UNCHANGED <<phase, before, stability, sessions, archived, plant, steady>>

SkipEffect(e) ==
  /\ At(e) /\ (e \in {"source_resume", "restore_path"} => Bound)
  /\ effects[e] = "APPLIED" \/ ~Needed(e)
  /\ Goto(After[e])
  /\ UNCHANGED <<saved, request, sent, plant, steady, faults>>

\* The intent is on disk before the request is sent ...
Intend(e) ==
  /\ At(e) /\ effects[e] = "none" /\ NoUnknown
  /\ Bound /\ Needed(e)
  /\ Record(e, "PENDING")
  /\ cli' = [pc |-> "intended", at |-> e]
  /\ UNCHANGED <<request, sent, faults>>

Send(e) ==
  /\ cli = [pc |-> "intended", at |-> e]
  /\ request' = [request EXCEPT ![e] = "sent"]
  /\ sent' = [sent EXCEPT ![e] = @ + 1]
  /\ cli' = [pc |-> "sent", at |-> e]
  /\ UNCHANGED <<saved, plant, steady, faults>>

\* ... and a snapshot after the reply confirms it.
Confirm(e) ==
  /\ cli = [pc |-> "sent", at |-> e] /\ request[e] = "done"
  /\ Bound /\ Applied(e)
  /\ Record(e, "APPLIED")
  /\ Goto(After[e])
  /\ UNCHANGED <<request, sent, faults>>

\* Any exception, be it a refusal, a failed confirmation, a timeout or Ctrl-C.
GiveUp(e) ==
  /\ cli.pc \in {"intended", "sent"} /\ cli.at = e
  /\ IF cli.pc = "sent" /\ (request[e] = "refused" \/ (request[e] = "done" /\ ~Bound))
     THEN UNCHANGED faults ELSE faults < MaxFaults /\ faults' = faults + 1
  /\ Record(e, "OUTCOME_UNKNOWN")
  /\ cli' = Idle
  /\ UNCHANGED <<request, sent>>

\* Mutants: reconcile frees what it does not observe, or believes everything.
Reconcile_Frees ==
  /\ cli = Idle /\ ~NoUnknown /\ Bound
  /\ effects' = [e \in Effects |->
       IF effects[e] # "none" /\ Applied(e) THEN "APPLIED" ELSE "none"]
  /\ UNCHANGED <<phase, before, stability, sessions, archived, cli, request, sent,
                 plant, steady, faults>>

Reconcile_Presumes ==
  /\ cli = Idle /\ ~NoUnknown /\ Bound
  /\ effects' = [e \in Effects |-> IF effects[e] = "none" THEN "none" ELSE "APPLIED"]
  /\ UNCHANGED <<phase, before, stability, sessions, archived, cli, request, sent,
                 plant, steady, faults>>

\* reconcile: everything that is not APPLIED is observed, nothing is sent.
Reconcile ==
  /\ cli = Idle /\ ~NoUnknown /\ Bound
  /\ \A e \in Effects : effects[e] \in {"PENDING", "OUTCOME_UNKNOWN"} => Applied(e)
  /\ effects' = [e \in Effects |-> IF effects[e] = "none" THEN "none" ELSE "APPLIED"]
  /\ UNCHANGED <<phase, before, stability, sessions, archived, cli, request, sent,
                 plant, steady, faults>>

\* A check fails, a wait times out, the operator says no, or that was the command.
Leave ==
  /\ cli.pc = "run"
  /\ cli' = Idle
  /\ UNCHANGED <<saved, request, sent, plant, steady, faults>>

\* The command dies while it waits for the helper.
Kill ==
  /\ cli.pc \in {"intended", "sent"} /\ faults < MaxFaults
  /\ cli' = Idle /\ faults' = faults + 1
  /\ UNCHANGED <<saved, request, sent, plant, steady>>

-----------------------------------------------------------------------------
(* The helper.                                                             *)

\* The recovery timer as the request has it: as its session found it.  A helper
\* of an earlier session has what that one found.
Carried ==
  {before} \cup {t \in [enabled : BOOLEAN, active : BOOLEAN] : Lingering /\ sessions > 1}

\* handle: what it checks on its host before it acts on a request with these units.
Accepts(e, units) ==
  /\ e \in OnDell => ~busy
  /\ e = "quiesce" => timer = units /\ ~service
  /\ e = "arm_slate" => path = "found"
  /\ e = "source_stop" => main = 1
  /\ e = "source_resume" => main = 0
  /\ e = "restore_path" => path = "armed"

Helped(e, progress) ==
  /\ request' = [request EXCEPT ![e] = progress]
  /\ UNCHANGED <<saved, cli, sent, steady, faults>>

Refuse(e) ==
  /\ request[e] = "sent" /\ \E units \in Carried : ~Accepts(e, units)
  /\ Helped(e, "refused")
  /\ UNCHANGED plant

Patch(e) ==
  /\ e \in {"arm_slate", "restore_path"} /\ request[e] = "sent" /\ Accepts(e, before)
  /\ path' = IF e = "arm_slate" THEN "armed" ELSE "found"
  /\ Helped(e, "done")
  /\ UNCHANGED <<main, timer, service, busy>>

ScaleMain(e) ==
  /\ e \in {"source_stop", "source_resume"} /\ request[e] = "sent" /\ Accepts(e, before)
  /\ main' = IF e = "source_stop" THEN 0 ELSE 1
  /\ Helped(e, "done")
  /\ UNCHANGED <<path, timer, service, busy>>

\* Three commands: disable and stop the timer, stop the service.
Quiesce ==
  \/ /\ request["quiesce"] = "sent" /\ \E units \in Carried : Accepts("quiesce", units)
     /\ timer' = [enabled |-> FALSE, active |-> timer.active]
     /\ Helped("quiesce", "disabled")
     /\ UNCHANGED <<main, path, service, busy>>
  \/ /\ request["quiesce"] = "disabled"
     /\ timer' = [enabled |-> timer.enabled, active |-> FALSE]
     /\ Helped("quiesce", "stopped")
     /\ UNCHANGED <<main, path, service, busy>>
  \/ /\ request["quiesce"] = "stopped"
     /\ service' = FALSE
     /\ Helped("quiesce", "done")
     /\ UNCHANGED <<main, path, timer, busy>>

\* Two commands at most.
RestoreUnits ==
  \/ /\ request["restore_units"] = "sent"
     /\ \E units \in Carried :
          /\ Accepts("restore_units", units)
          /\ timer' = [enabled |-> units.enabled, active |-> timer.active]
          /\ Helped("restore_units", IF units.active THEN "enabled" ELSE "done")
     /\ UNCHANGED <<main, path, service, busy>>
  \/ /\ request["restore_units"] = "enabled"
     /\ timer' = [enabled |-> timer.enabled, active |-> TRUE]
     /\ Helped("restore_units", "done")
     /\ UNCHANGED <<main, path, service, busy>>

HelperStep ==
  \/ Quiesce \/ RestoreUnits
  \/ \E e \in Effects : Refuse(e) \/ Patch(e) \/ ScaleMain(e)

\* The request never arrives, or the helper fails on the way.
Lose(e) ==
  /\ request[e] \notin Over /\ faults < MaxFaults
  /\ request' = [request EXCEPT ![e] = "lost"] /\ faults' = faults + 1
  /\ UNCHANGED <<saved, cli, sent, plant, steady>>

-----------------------------------------------------------------------------
(* The hosts.                                                              *)

\* The recovery timer runs its oneshot service, which may submit an effect.
Recovery ==
  /\ \/ timer.active /\ ~service /\ service' = TRUE /\ UNCHANGED busy
     \/ service /\ service' = FALSE /\ UNCHANGED busy
     \/ service /\ ~busy /\ busy' = TRUE /\ UNCHANGED service
     \/ busy /\ busy' = FALSE /\ UNCHANGED service
  /\ UNCHANGED <<saved, cli, request, sent, main, path, timer, steady, faults>>

\* The sender's host reboots, with the command and its helpers: disabled units
\* stay down, the replica count stays.
DellReboots ==
  /\ faults < MaxFaults /\ faults' = faults + 1
  /\ cli' = Idle
  /\ request' = [e \in Effects |->
       IF e \in OnDell /\ request[e] \notin Over THEN "lost" ELSE request[e]]
  /\ timer' = [enabled |-> timer.enabled, active |-> timer.enabled] /\ service' = FALSE
  /\ stability' = Disconnected /\ steady' = 0
  /\ UNCHANGED <<phase, effects, before, sessions, archived, sent, main, path, busy>>

\* The live connection breaks and comes back.
Reconnects ==
  /\ phase \in {"VERIFYING", "RESTORING"}
  /\ stability' = Disconnected /\ steady' = 0
  /\ UNCHANGED <<phase, effects, before, sessions, archived, cli, request, sent, plant,
                 faults>>

UpTo(n, bound) == IF n < bound THEN n + 1 ELSE n

\* Time, of which only that of the verification is measured.
Tick ==
  /\ phase \in {"VERIFYING", "RESTORING"} /\ (Lingering \/ ~Lingers)
  /\ stability' = IF ~stability.known THEN stability
       ELSE [known |-> TRUE, age |-> UpTo(stability.age, MAX_GAP + 1),
             length |-> UpTo(stability.length, STABLE_SECONDS)]
  /\ steady' = UpTo(steady, STABLE_SECONDS)
  /\ UNCHANGED <<phase, effects, before, sessions, archived, cli, request, sent, plant,
                 faults>>

-----------------------------------------------------------------------------
CliStep ==
  \/ Begin \/ Archive \/ OpenSession \/ \E step \in Steps : Start(step)
  \/ AwaitLive \/ AwaitSlate \/ ConfirmSlate
  \/ Resume \/ LiveAgain \/ LiveRestored
  \/ BadSample \/ Verify \/ Complete \/ CloseSession
  \/ \E e \in Effects : SkipEffect(e) \/ Intend(e) \/ Send(e) \/ Confirm(e) \/ GiveUp(e)
  \/ Reconcile \/ Leave \/ Kill

Next ==
  \/ CliStep \/ HelperStep \/ \E e \in Effects : Lose(e)
  \/ Recovery \/ DellReboots \/ Reconnects \/ Tick

Spec == Init /\ [][Next]_vars

\* Nothing goes wrong: no fault, nothing is interrupted, every sample is good and in
\* time, and the operator goes on to the return and reconciles what is unknown.
SmoothCli ==
  \/ Begin \/ Archive \/ OpenSession \/ \E step \in Steps \ {"confirm"} : Start(step)
  \/ AwaitLive \/ AwaitSlate \/ ConfirmSlate \/ Resume \/ LiveAgain \/ LiveRestored
  \/ Verify \/ Complete \/ CloseSession \/ Reconcile
  \/ \E e \in Effects : SkipEffect(e) \/ Intend(e) \/ Send(e) \/ Confirm(e) \/ GiveUp(e)

\* The recovery timer does not fire before the last effect was resolved.
SmoothRecovery == Recovery /\ (service' => service \/ ~busy)

SmoothTick == Tick /\ (stability.known => stability.age < MAX_GAP)

SmoothSpec ==
  /\ Init /\ [][SmoothCli \/ HelperStep \/ SmoothRecovery \/ SmoothTick]_vars
  /\ SF_vars(SmoothCli) /\ WF_vars(HelperStep) /\ WF_vars(SmoothTick)
  /\ WF_vars(SmoothRecovery /\ service /\ ~service')
  /\ WF_vars(SmoothRecovery /\ busy /\ ~busy')

-----------------------------------------------------------------------------
(* Properties.                                                             *)

\* The variables have the values the code gives them, and the phases that end a
\* stage are saved only with every effect applied.
TypeOK ==
  /\ phase \in {"NORMAL"} \cup Entering \cup Returning
  /\ phase \in {"NORMAL", "AWAITING_SLATE_CONFIRMATION", "MAINTENANCE", "VERIFYING"}
       => NoUnknown
  /\ effects \in [Effects -> {"none", "PENDING", "APPLIED", "OUTCOME_UNKNOWN"}]
  /\ timer \in [enabled : BOOLEAN, active : BOOLEAN]
  /\ before \in [enabled : BOOLEAN, active : BOOLEAN]
  /\ stability \in [known : BOOLEAN, age : Nat, length : Nat]
  /\ stability.age <= MAX_GAP + 1 /\ stability.length <= STABLE_SECONDS
  /\ sessions \in Nat /\ archived \in BOOLEAN
  /\ cli \in [pc : {"idle", "run", "intended", "sent"}, at : Places]
  /\ request \in [Effects -> Over \cup {"sent", "disabled", "stopped", "enabled"}]
  /\ sent \in [Effects -> Nat] /\ steady \in 0 .. STABLE_SECONDS /\ faults \in Nat
  /\ main \in {0, 1} /\ path \in {"found", "armed"}
  /\ service \in BOOLEAN /\ busy \in BOOLEAN

\* While the source is away the recovery timer and service are down and no recovery
\* effect is unresolved: nothing else acts on the sender, although the quiescence was
\* requested long before, by a helper that may have died half way.
RecoveryQuiet == main = 0 => Quiet /\ ~busy

\* "Mutating calls receive one dispatch", through kills, reboots, reconciliations and
\* commands run again.
SentOnce == \A e \in Effects : sent[e] <= 1

\* The return is earned: when it is confirmed, the live connection was unbroken and
\* every sample good for the stability window, however many commands took part.
ReturnEarned ==
  [][phase # "RESTORING" /\ phase' = "RESTORING" => steady >= STABLE_SECONDS]_vars

\* Once a session is closed nothing it asked for still happens, and the sender, the
\* relay and the timer are as it found them.
NothingLate ==
  [][phase = "NORMAL" => UNCHANGED <<main, path, timer.enabled>>]_vars

LeavesAsFound ==
  phase = "NORMAL" => main = 1 /\ path = "found" /\ timer.enabled = before.enabled

\* The phase on disk tells the operator the truth about the stream, also while a
\* helper that nobody waits for any more still acts: on the slate the source is
\* stopped and the path armed, verified or closed it runs on the restored path; and in
\* no phase is the source away where no slate covers it.
PhaseHonest ==
  /\ phase \in {"AWAITING_SLATE_CONFIRMATION", "MAINTENANCE"} =>
       main = 0 /\ path = "armed"
  /\ phase \in {"VERIFYING", "RESTORING", "NORMAL"} => main = 1 /\ path = "found"
  /\ main = 0 => path = "armed"

\* A session can be closed again: "cancel through off after reconciling any unknown
\* outcome".
Closes == phase # "NORMAL" ~> phase = "NORMAL"

\* Whatever interrupted a command, the next session can be begun.
BeginPossible == phase = "NORMAL" /\ cli = Idle => ~archived

\* The session walks the ladder.
Ladder == INSTANCE MaintenanceLadder
            WITH open <- phase # "NORMAL", returning <- phase \in Returning,
                 armed <- path = "armed", dark <- main = 0

WalksTheLadder == Ladder!Spec
=============================================================================

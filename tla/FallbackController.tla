------------------------- MODULE FallbackController -------------------------
(***************************************************************************)
(* The direct YouTube fallback: the controller that scales the backup      *)
(* sender (ops/selfheal/fallback_controller.py, route_assessment.py) and   *)
(* the manual maintenance session that inhibits it (maintenance_state.py,  *)
(* manual_maintenance.py).                                                 *)
(*                                                                         *)
(* The controller polls.  A poll observes the relay route, reads the       *)
(* replica count of the backup, assesses the health of the route, decides  *)
(* and saves the causality bookmark: the first step below.  A decision is  *)
(* then carried out under a shared file lock, a step at a time, since an   *)
(* operator may open or close a maintenance session in between under the   *)
(* same lock, exclusively.  The controller may die between any two steps   *)
(* and comes back with its windows forgotten.                              *)
(*                                                                         *)
(* Time is local boottime in whole units of the polling interval and only  *)
(* passes while the controller sleeps or is down: Gaps are the distances   *)
(* between two polls, a slow observation or kubectl included.  It goes on   *)
(* over a reboot of the host, since no time is compared with one of another*)
(* boot.  The UTC diagnostics and the status file, which no decision reads,*)
(* are left out.                                                           *)
(***************************************************************************)
EXTENDS Integers

CONSTANTS
  START_AFTER,    \* continuous media failure before a start
  STOP_AFTER,     \* continuous health before a stop
  AFTER,          \* ProgressDeadline.AFTER
  MAX_SAMPLE_GAP, \* distance over which two samples may be compared
  SETTLE,         \* health that closes a cause
  STABLE,         \* STABLE_SECONDS of the maintenance session
  Gaps,           \* possible distances between two polls
  MaxGap,         \* the largest of them
  MaxTime,        \* bound on the clock
  MaxRestarts,    \* bound on restarts of the controller
  MaxCommands     \* bound on maintenance commands

ASSUME FallbackAssumption ==
  /\ {START_AFTER, STOP_AFTER, AFTER, MAX_SAMPLE_GAP, SETTLE, STABLE, MaxTime,
      MaxRestarts, MaxCommands} \subseteq Nat
  /\ Gaps \subseteq Nat \ {0} /\ MaxGap \in Nat /\ \A g \in Gaps : g <= MaxGap
  /\ 0 < STOP_AFTER /\ 0 < AFTER /\ START_AFTER <= AFTER
  /\ STABLE > MaxGap \* a session lasts longer than a poll

VARIABLES
  now,      \* boottime
  pc,       \* where the controller is
  restarts, \* how often it was restarted
  c,        \* Controller: the last sample, whether a poll missed one, the windows
  witness,  \* TransportWitness.previous: when the last usable export was read
  deadline, \* ProgressDeadline
  book,     \* CauseBook, on disk
  action,   \* what the last poll decided
  backup,   \* .spec.replicas of the backup sender
  cli,      \* the maintenance command: none, holding the lock, or past its checks
  commands, \* how many were run
  session,  \* the maintenance session, on disk
  hist,     \* history of the polls, read by the properties only
  moved     \* and when the backup was last changed

vars == <<now, pc, restarts, c, witness, deadline, book, action, backup, cli,
          commands, session, hist, moved>>

None == -1  \* Python's None, for a time and for an unreadable replica count

Times == Nat \cup {None}

Since(t) == IF t = None THEN now ELSE t

NewController ==
  [last |-> None, bound |-> FALSE, gap |-> FALSE,
   healthySince |-> None, unhealthySince |-> None]

NewDeadline == [started |-> None, progress |-> None]

NoCause == [open |-> FALSE, clearSince |-> None, started |-> FALSE]

Init ==
  /\ now = 0 /\ pc = "idle" /\ restarts = 0
  /\ c = NewController /\ witness = None /\ deadline = NewDeadline
  /\ book = NoCause /\ action = "none"
  /\ session \in [open : BOOLEAN, since : {0}] \* begun before the controller, or not
  /\ backup \in {0, 1} /\ (session.open => backup = 0)
  /\ cli = "none" /\ commands = 0
  /\ hist = [quiet |-> 0, broken |-> 0, blocked |-> 0, retained |-> 0, unsettled |-> 0]
  /\ moved = 0

-----------------------------------------------------------------------------
(* The assessment of one poll.                                             *)

\* What observe() may return: nothing; a stopped unit, which carries no
\* identity; an input that is not live; and a live sample that matches the last
\* one and advances, or does not advance in every counter, or that does not
\* compare (the first, another identity, a regressed counter, a stale copy).
Observations ==
  {"missing", "stopped", "offline", "other"}
    \cup (IF c.last # None /\ c.bound THEN {"advances", "stalls"} ELSE {})

Comparable == now - c.last <= MAX_SAMPLE_GAP

\* Controller.healthy: route_progress and the domain.
RouteProgress(obs) == obs = "advances" /\ Comparable

Domain(obs) ==
  IF RouteProgress(obs) THEN (IF c.gap THEN "INITIALIZING" ELSE "HEALTHY")
  ELSE IF obs \in {"stopped", "offline"} \/ (obs = "stalls" /\ Comparable)
  THEN "MEDIA_FAILURE"
  ELSE IF obs = "other" /\ c.last = None THEN "INITIALIZING"
  ELSE "OBSERVATION_LOST"

\* What the local transport export may show: a malformed one, or a new one; the
\* one read before, or no file; and, shortly after the one before, a new one of a
\* stalled or recovering sender.  (Without a witness, no file is like a malformed
\* one, and long after it a stalled sender is like any other.)
Exports ==
  {"invalid", "other"}
    \cup (IF witness # None THEN {"same"} ELSE {})
    \cup (IF witness # None /\ now - witness <= MAX_SAMPLE_GAP THEN {"stalled"} ELSE {})

\* TransportWitness.sample is STOPPED only against an export read shortly before.
Stopped(export) ==
  export = "stalled" /\ witness # None /\ now - witness <= MAX_SAMPLE_GAP

NextWitness(export) ==
  IF export = "same" THEN witness ELSE IF export = "invalid" THEN None ELSE now

\* Mutant: the local stall outweighs the progress of the route.
Combined_StallWins(obs, export) ==
  IF Stopped(export) THEN "MEDIA_FAILURE" ELSE Domain(obs)

\* combine_transport: a local stall is a failure unless the route progresses.
Combined(obs, export) ==
  IF Stopped(export) /\ ~RouteProgress(obs) THEN "MEDIA_FAILURE" ELSE Domain(obs)

\* Mutants: the deadline is never armed, or any sample renews it.
NextDeadline_Unarmed(obs, inhibited) ==
  [started  |-> IF inhibited THEN now ELSE deadline.started,
   progress |-> IF RouteProgress(obs) /\ ~inhibited THEN now
                ELSE IF inhibited THEN None ELSE deadline.progress]

NextDeadline_AnySample(obs, inhibited) ==
  [started  |-> IF inhibited THEN now ELSE Since(deadline.started),
   progress |-> IF obs # "missing" /\ ~inhibited THEN now
                ELSE IF inhibited \/ deadline.started = None THEN None
                ELSE deadline.progress]

\* ProgressDeadline.observe.
NextDeadline(obs, inhibited) ==
  [started  |-> IF inhibited THEN now ELSE Since(deadline.started),
   progress |-> IF RouteProgress(obs) /\ ~inhibited THEN now
                ELSE IF inhibited \/ deadline.started = None THEN None
                ELSE deadline.progress]

Expired(d) ==
  now - (IF d.progress # None THEN d.progress ELSE d.started) >= AFTER

\* Mutant: maintenance and lost observations do not end the healthy window.
HealthySince_Kept(domain, inhibited) ==
  IF domain = "HEALTHY" THEN Since(c.healthySince)
  ELSE IF domain = "MEDIA_FAILURE" THEN None ELSE c.healthySince

\* decide: the two windows ...
HealthySince(domain, inhibited) ==
  IF domain = "HEALTHY" /\ ~inhibited THEN Since(c.healthySince) ELSE None

\* Mutant: the failure window survives other assessments and maintenance.
UnhealthySince_Kept(domain, inhibited) ==
  IF domain = "MEDIA_FAILURE" THEN Since(c.unhealthySince) ELSE c.unhealthySince

UnhealthySince(domain, inhibited) ==
  IF domain = "MEDIA_FAILURE" /\ ~inhibited THEN Since(c.unhealthySince) ELSE None

\* ... and the decision, from the replica count read before.
Starts(domain, inhibited, expired, read) ==
  /\ ~inhibited /\ read = 0
  /\ \/ /\ domain = "MEDIA_FAILURE"
        /\ now - UnhealthySince(domain, inhibited) >= START_AFTER
     \/ domain \in {"OBSERVATION_LOST", "INITIALIZING"} /\ expired

Stops(domain, inhibited, read) ==
  /\ ~inhibited /\ read = 1 /\ domain = "HEALTHY"
  /\ now - HealthySince(domain, inhibited) >= STOP_AFTER

\* Mutants: an unread replica count settles; lost observations are no problem.
NextBook_ReadIgnored(domain, read) ==
  LET clear == Since(book.clearSince)
  IN IF domain \notin {"HEALTHY", "INITIALIZING"} \/ read = 1
     THEN [open |-> TRUE, clearSince |-> None, started |-> book.started]
     ELSE IF ~(domain = "HEALTHY" /\ read # 1 /\ book.open)
     THEN [book EXCEPT !.clearSince = None]
     ELSE IF now - clear >= SETTLE THEN NoCause
     ELSE [book EXCEPT !.clearSince = clear]

NextBook_MediaOnly(domain, read) ==
  IF domain = "MEDIA_FAILURE" \/ read = 1
  THEN [open |-> TRUE, clearSince |-> None, started |-> book.started] ELSE book

\* CauseBook.update.
NextBook(domain, read) ==
  LET clear == Since(book.clearSince)
  IN IF domain \notin {"HEALTHY", "INITIALIZING"} \/ read = 1
     THEN [open |-> TRUE, clearSince |-> None, started |-> book.started]
     ELSE IF ~(domain = "HEALTHY" /\ read = 0 /\ book.open)
     THEN [book EXCEPT !.clearSince = None]
     ELSE IF now - clear >= SETTLE THEN NoCause
     ELSE [book EXCEPT !.clearSince = clear]

-----------------------------------------------------------------------------
(* The controller.                                                         *)

Goto(where) == pc' = where

\* What the properties remember: the last poll that verified progress or was
\* inhibited; that was not verified health in continuation of the poll before;
\* that had a reason not to start the backup, or decided to; that had a reason not
\* to stop it, or decided to; and that was not verified health with it away.
NextHist(obs, inhibited, read, decision) ==
  LET good == RouteProgress(obs) /\ ~inhibited
      at(cond, before) == IF cond THEN now ELSE before
  IN [quiet     |-> at(RouteProgress(obs) \/ inhibited, hist.quiet),
      broken    |-> at(~good, hist.broken),
      blocked   |-> at(RouteProgress(obs) \/ inhibited \/ read # 0
                         \/ decision = "START" \/ deadline.started = None,
                       hist.blocked),
      retained  |-> at(~good \/ read # 1 \/ decision = "STOP", hist.retained),
      unsettled |-> at(~RouteProgress(obs) \/ read # 0, hist.unsettled)]

Poll(obs, export, read) ==
  LET inhibited == session.open
      domain == Combined(obs, export)
      d == NextDeadline(obs, inhibited)
      decision ==
        IF Starts(domain, inhibited, Expired(d), read) THEN "START"
        ELSE IF Stops(domain, inhibited, read) THEN "STOP" ELSE "none"
  IN /\ pc = "idle"
     /\ c' = [last |-> IF obs = "missing" THEN c.last ELSE now,
              bound |-> IF obs = "missing" THEN c.bound ELSE obs # "stopped",
              gap |-> obs = "missing",
              healthySince |-> HealthySince(domain, inhibited),
              unhealthySince |-> UnhealthySince(domain, inhibited)]
     /\ witness' = NextWitness(export)
     /\ deadline' = d
     /\ book' = NextBook(domain, read)
     /\ action' = decision
     /\ Goto(IF decision = "none" THEN "asleep" ELSE "decided")
     /\ hist' = NextHist(obs, inhibited, read, decision)
     /\ UNCHANGED <<now, restarts, backup, cli, commands, session, moved>>

\* scale_if_allowed: a shared lock that does not wait ...
TryLock ==
  /\ pc = "decided"
  /\ IF cli = "none" THEN Goto("locked") ELSE Goto("refused")
  /\ UNCHANGED <<now, restarts, c, witness, deadline, book, action, backup, cli,
                 commands, session, hist, moved>>

\* Mutant: the guard is not read again under the lock.
RecheckGuard_Skipped ==
  /\ pc = "locked"
  /\ Goto("scaling")
  /\ UNCHANGED <<now, restarts, c, witness, deadline, book, action, backup, cli,
                 commands, session, hist, moved>>

\* ... the guard again, under the lock ...
RecheckGuard ==
  /\ pc = "locked"
  /\ IF session.open THEN Goto("refused") ELSE Goto("scaling")
  /\ UNCHANGED <<now, restarts, c, witness, deadline, book, action, backup, cli,
                 commands, session, hist, moved>>

\* ... and kubectl scale, which may fail although the API server has applied it.
Scale ==
  /\ pc = "scaling"
  /\ \E applied \in BOOLEAN :
       /\ backup' = IF ~applied THEN backup ELSE IF action = "START" THEN 1 ELSE 0
       /\ Goto("refused") \/ (applied /\ Goto("succeeded"))
  /\ moved' = IF backup' = backup THEN moved ELSE now
  /\ UNCHANGED <<now, restarts, c, witness, deadline, book, action, cli,
                 commands, session, hist>>

\* CauseBook.dispatched.
Dispatched ==
  /\ pc \in {"refused", "succeeded"}
  /\ book' = [book EXCEPT !.started =
                @ \/ (book.open /\ action = "START" /\ pc = "succeeded")]
  /\ action' = "none"
  /\ Goto("asleep")
  /\ UNCHANGED <<now, restarts, c, witness, deadline, backup, cli, commands,
                 session, hist, moved>>

Wake(g) ==
  /\ pc = "asleep" /\ now + g <= MaxTime
  /\ now' = now + g
  /\ Goto("idle")
  /\ UNCHANGED <<restarts, c, witness, deadline, book, action, backup, cli,
                 commands, session, hist, moved>>

\* The process dies, which releases its lock; kubectl dies with its cgroup.  Of
\* what the controller knows only the bookmark is left.
Crash ==
  /\ pc # "down" /\ restarts < MaxRestarts
  /\ c' = NewController /\ witness' = None /\ deadline' = NewDeadline
  /\ action' = "none"
  /\ Goto("down")
  /\ UNCHANGED <<now, restarts, book, backup, cli, commands, session, hist, moved>>

\* The host goes down, and the maintenance command with it.  The beginning of the
\* settling window is bound to the boot (clear_boot) and counts no longer.
Reboot ==
  /\ restarts < MaxRestarts
  /\ c' = NewController /\ witness' = None /\ deadline' = NewDeadline
  /\ book' = [book EXCEPT !.clearSince = None]
  /\ action' = "none" /\ cli' = "none"
  /\ Goto("down")
  /\ UNCHANGED <<now, restarts, backup, commands, session, hist, moved>>

\* systemd starts it again.
Restart(g) ==
  /\ pc = "down" /\ now + g <= MaxTime
  /\ now' = now + g /\ restarts' = restarts + 1
  /\ Goto("idle")
  /\ UNCHANGED <<c, witness, deadline, book, action, backup, cli, commands,
                 session, hist, moved>>

-----------------------------------------------------------------------------
(* The maintenance command, one at a time under the exclusive lock.        *)

CliLocks ==
  /\ cli = "none" /\ pc \notin {"locked", "scaling"} /\ commands < MaxCommands
  /\ cli' = "locked" /\ commands' = commands + 1
  /\ UNCHANGED <<now, pc, restarts, c, witness, deadline, book, action, backup,
                 session, hist, moved>>

\* Every command starts from a snapshot that shows no backup sender.
CliChecks ==
  /\ cli = "locked" /\ backup = 0
  /\ cli' = "checked"
  /\ UNCHANGED <<now, pc, restarts, c, witness, deadline, book, action, backup,
                 commands, session, hist, moved>>

\* begin saves PREPARING.
CliBegins ==
  /\ cli = "checked" /\ ~session.open
  /\ session' = [open |-> TRUE, since |-> now]
  /\ UNCHANGED <<now, pc, restarts, c, witness, deadline, book, action, backup,
                 cli, commands, hist, moved>>

\* complete saves NORMAL, after STABLE of verified live output.
CliCompletes ==
  /\ cli = "checked" /\ session.open /\ now - session.since >= STABLE
  /\ session' = [open |-> FALSE, since |-> now]
  /\ UNCHANGED <<now, pc, restarts, c, witness, deadline, book, action, backup,
                 cli, commands, hist, moved>>

\* The command ends, fails or is killed: in every case the lock is free again.
CliEnds ==
  /\ cli # "none"
  /\ cli' = "none"
  /\ UNCHANGED <<now, pc, restarts, c, witness, deadline, book, action, backup,
                 commands, session, hist, moved>>

-----------------------------------------------------------------------------
Next ==
  \/ \E obs \in Observations, export \in Exports, read \in {None, backup} :
       Poll(obs, export, read)
  \/ TryLock \/ RecheckGuard \/ Scale \/ Dispatched
  \/ \E g \in Gaps : Wake(g) \/ Restart(g)
  \/ Crash \/ Reboot
  \/ CliLocks \/ CliChecks \/ CliBegins \/ CliCompletes \/ CliEnds

Spec == Init /\ [][Next]_vars

-----------------------------------------------------------------------------
(* Properties.                                                             *)

\* The variables have the values the code gives them, and the deadline it
\* subtracts from the time is armed.
TypeOK ==
  /\ now \in Nat /\ restarts \in Nat /\ commands \in Nat
  /\ pc \in {"down", "idle", "decided", "locked", "scaling", "refused",
             "succeeded", "asleep"}
  /\ c \in [last : Times, bound : BOOLEAN, gap : BOOLEAN,
            healthySince : Times, unhealthySince : Times]
  /\ witness \in Times
  /\ deadline \in [started : Times, progress : Times]
  /\ book \in [open : BOOLEAN, clearSince : Times, started : BOOLEAN]
  /\ pc \notin {"down", "idle"} => deadline.started # None
  /\ action \in {"none", "START", "STOP"}
  /\ backup \in {0, 1}
  /\ cli \in {"none", "locked", "checked"}
  /\ session \in [open : BOOLEAN, since : Nat]
  /\ hist \in [quiet : Nat, broken : Nat, blocked : Nat, retained : Nat,
               unsettled : Nat]
  /\ moved \in Nat

Acting == pc \in {"decided", "locked", "scaling"}

\* "Manual maintenance inhibition: never start": no backup sender is scaled up
\* while a session is open, although the poll reads the guard long before kubectl
\* runs and the session is opened by another process in between.
NoBackupDuringMaintenance == session.open => backup = 0

\* A start is earned: neither progress of the complete route nor maintenance was
\* seen for the failure window, whatever mixture of failures, lost samples,
\* restarts and local stalls led to it.
StartEarned == Acting /\ action = "START" => now - hist.quiet >= START_AFTER

\* A stop is earned: every poll for longer than the stability window verified
\* progress outside of maintenance, in one life of the process.
StopEarned == Acting /\ action = "STOP" => now - hist.broken > STOP_AFTER

Polled == pc \notin {"idle", "down"}

\* The start is bounded: when progress stays unconfirmed, whatever the mixture of
\* assessments, a poll no later than the deadline plus the failure window (and a
\* poll) decides START, and decides it again when it was refused or failed.  A
\* failure that alternates with lost observations does not put it off further.
BoundedStart ==
  Polled => now - hist.blocked < AFTER + START_AFTER + MaxGap

\* The retirement is bounded: a route that keeps progressing retires the backup,
\* also when the local transport export claims a stall ("verified complete-route
\* progress takes precedence").
BoundedStop ==
  Polled => now - hist.retained < STOP_AFTER + 2 * MAX_SAMPLE_GAP

\* Every start is attributed: when START is dispatched, a cause is open.
StartHasCause == Acting /\ action = "START" => book.open

\* A cause is closed only after polls that all verified progress with the backup
\* away, for the settling window and in one life of the process, although the
\* beginning of that window is kept on disk over restarts.
CauseClosureEarned ==
  [][book.open /\ ~book'.open => now - hist.unsettled > SETTLE]_vars

\* The backup as the standby of the abstract specification.
S == INSTANCE Standby WITH
  Patience <- START_AFTER, Trust <- STOP_AFTER, Settle <- SETTLE,
  open <- session.open, cause <- book.open,
  quiet <- hist.quiet, broken <- hist.broken, unsettled <- hist.unsettled

\* The controller keeps the promise of Standby: it is carried out under a lock that is
\* taken, and by a kubectl that is run, after the decision, by a process that may have
\* died and forgotten its windows; still every change of the backup is earned when it
\* happens, and no two changes follow each other within a window.
KeepsStandby == S!Spec
=============================================================================

---------------------- MODULE FallbackControllerProofs ----------------------
(***************************************************************************)
(* Proofs about FallbackController, for every value of its constants.      *)
(*                                                                         *)
(* TypesHold comes first.  The safety properties then follow from IInv:    *)
(* LockInv, the protocol of the file lock, the guard and the snapshot of a *)
(* maintenance command; WindowInv, which relates every window the          *)
(* controller keeps to the polls the history remembers; and the properties *)
(* of a decision, which hold from the poll that made it until it is        *)
(* carried out, because no time passes in between.  Last comes the         *)
(* refinement of Standby.                                                  *)
(***************************************************************************)
EXTENDS FallbackController, TLAPS

\* The command holds its lock alone, and past its checks saw no backup; past the
\* guard the controller saw no session.
LockInv ==
  /\ cli # "none" => pc \notin {"locked", "scaling"}
  /\ pc = "scaling" => ~session.open
  /\ cli = "checked" => backup = 0
  /\ NoBackupDuringMaintenance

\* No window is older than the polls that would have ended it; a controller
\* without a sample whose deadline runs has opened a cause.
WindowInv ==
  /\ \A t \in {hist.quiet, hist.broken, hist.unsettled} : t <= now
  /\ pc = "idle" /\ c.last # None => hist.broken < now /\ hist.unsettled < now
  /\ pc = "down" => c.last = None
  /\ c.healthySince # None => hist.broken < c.healthySince
  /\ c.unhealthySince # None => hist.quiet <= c.unhealthySince
  /\ book.clearSince # None => hist.unsettled < book.clearSince
  /\ deadline.progress # None => hist.quiet <= deadline.progress
  /\ deadline.progress = None /\ deadline.started # None
       => hist.quiet <= deadline.started
  /\ c.last = None /\ deadline.started # None => book.open

\* The inductive invariant.
IInv == TypeOK /\ LockInv /\ WindowInv /\ StartEarned /\ StopEarned /\ StartHasCause

-----------------------------------------------------------------------------
(* The assessment.                                                         *)

\* What an assessment implies about the evidence it rests on: health is verified
\* progress, and a media failure never contradicts it.
LEMMA Assessed ==
  ASSUME TypeOK,
         NEW obs \in Observations, NEW export \in Exports
  PROVE  /\ Combined(obs, export) \in
              {"HEALTHY", "MEDIA_FAILURE", "OBSERVATION_LOST", "INITIALIZING"}
         /\ RouteProgress(obs) => c.last # None
         /\ Combined(obs, export) = "HEALTHY" => RouteProgress(obs)
         /\ Combined(obs, export) = "MEDIA_FAILURE" => ~RouteProgress(obs)
         /\ Combined(obs, export) = "INITIALIZING" /\ ~RouteProgress(obs)
              => c.last = None /\ obs # "missing"
         /\ obs = "missing" =>
              Combined(obs, export) \in {"MEDIA_FAILURE", "OBSERVATION_LOST"}
<1>1. /\ obs \in {"missing", "stopped", "offline", "other", "advances", "stalls"}
      /\ obs \in {"advances", "stalls"} => c.last # None
  BY DEF Observations
<1>2. /\ Domain(obs) \in
           {"HEALTHY", "MEDIA_FAILURE", "OBSERVATION_LOST", "INITIALIZING"}
      /\ Domain(obs) = "HEALTHY" => RouteProgress(obs)
      /\ Domain(obs) = "MEDIA_FAILURE" => ~RouteProgress(obs)
      /\ Domain(obs) = "INITIALIZING" /\ ~RouteProgress(obs)
           => c.last = None /\ obs # "missing"
      /\ obs = "missing" => Domain(obs) = "OBSERVATION_LOST"
  <2>1. CASE obs = "missing"
    BY <2>1 DEF Domain, RouteProgress
  <2>2. CASE obs \in {"stopped", "offline"}
    BY <2>2 DEF Domain, RouteProgress
  <2>3. CASE obs = "other"
    BY <2>3 DEF Domain, RouteProgress
  <2>4. CASE obs = "stalls"
    <3>1. CASE Comparable
      BY <2>4, <3>1 DEF Domain, RouteProgress
    <3>2. CASE ~Comparable
      BY <2>4, <3>2 DEF Domain, RouteProgress
    <3> QED
      BY <3>1, <3>2
  <2>5. CASE obs = "advances"
    <3>1. CASE ~Comparable
      BY <2>5, <3>1 DEF Domain, RouteProgress
    <3>2. CASE Comparable
      BY <2>5, <3>2, c.gap \in BOOLEAN DEF Domain, RouteProgress, TypeOK
    <3> QED
      BY <3>1, <3>2
  <2> QED
    BY <1>1, <2>1, <2>2, <2>3, <2>4, <2>5
<1> QED
  BY <1>1, <1>2 DEF Combined, RouteProgress

\* Since() yields a time that has come.
LEMMA SinceIsTime ==
  ASSUME TypeOK, NEW t \in Times
  PROVE  /\ Since(t) \in Nat
         /\ t # None => Since(t) = t
         /\ t = None => Since(t) = now
  BY DEF Since, TypeOK, Times, None

-----------------------------------------------------------------------------
(* Types.                                                                  *)

\* Every poll leaves well-typed windows, bookmark and history behind and arms
\* the deadline.
LEMMA PollTypes ==
  ASSUME TypeOK,
         NEW obs \in Observations, NEW export \in Exports,
         NEW read \in {None, backup}, Poll(obs, export, read)
  PROVE  TypeOK'
<1> DEFINE domain == Combined(obs, export)
           inhibited == session.open
           d == NextDeadline(obs, inhibited)
<1>1. /\ Since(c.healthySince) \in Nat /\ Since(c.unhealthySince) \in Nat
      /\ Since(deadline.started) \in Nat /\ Since(book.clearSince) \in Nat
      /\ now \in Nat /\ now \in Times /\ None \in Times
      /\ \A t \in Nat : t \in Times /\ t # None
  BY SinceIsTime DEF TypeOK, Times, None
<1>2. c' \in [last : Times, bound : BOOLEAN, gap : BOOLEAN,
              healthySince : Times, unhealthySince : Times]
  BY <1>1 DEF Poll, HealthySince, UnhealthySince, TypeOK
<1>3. witness' \in Times
  BY <1>1 DEF Poll, NextWitness, TypeOK
<1>4. deadline' \in [started : Times, progress : Times] /\ deadline'.started # None
  BY <1>1 DEF Poll, NextDeadline, TypeOK
<1>5. book' \in [open : BOOLEAN, clearSince : Times, started : BOOLEAN]
  <2>1. book' = NextBook(domain, read)
    BY DEF Poll
  <2> QED
    BY <2>1, <1>1 DEF NextBook, NoCause, TypeOK
<1>6. hist' \in [quiet : Nat, broken : Nat, blocked : Nat, retained : Nat,
                 unsettled : Nat]
  BY <1>1 DEF Poll, NextHist, TypeOK
<1>7. /\ action' \in {"none", "START", "STOP"}
      /\ pc' \in {"asleep", "decided"}
  BY DEF Poll, Goto
<1>8. UNCHANGED <<now, restarts, backup, cli, commands, session, moved>>
  BY DEF Poll
<1> QED
  BY <1>2, <1>3, <1>4, <1>5, <1>6, <1>7, <1>8 DEF TypeOK

\* Every step keeps the types.
LEMMA StepTypes ==
  ASSUME TypeOK, [Next]_vars
  PROVE  TypeOK'
<1>1. ASSUME NEW obs \in Observations, NEW export \in Exports,
             NEW read \in {None, backup}, Poll(obs, export, read)
      PROVE  TypeOK'
  BY <1>1, PollTypes
<1>2. CASE TryLock
  BY <1>2 DEF TryLock, Goto, TypeOK
<1>3. CASE RecheckGuard
  BY <1>3 DEF RecheckGuard, Goto, TypeOK
<1>4. CASE Scale
  BY <1>4 DEF Scale, Goto, TypeOK
<1>5. CASE Dispatched
  BY <1>5 DEF Dispatched, Goto, TypeOK
<1>6. ASSUME NEW g \in Gaps, Wake(g) \/ Restart(g)
      PROVE  TypeOK'
  <2>1. g \in Nat
    BY FallbackAssumption
  <2>2. CASE Wake(g)
    BY <2>1, <2>2 DEF Wake, Goto, TypeOK
  <2>3. CASE Restart(g)
    BY <2>1, <2>3 DEF Restart, Goto, TypeOK
  <2> QED
    BY <1>6, <2>2, <2>3
<1>7. CASE Crash \/ Reboot
  <2>1. CASE Crash
    BY <2>1 DEF Crash, Goto, NewController, NewDeadline, Times, TypeOK
  <2>2. CASE Reboot
    BY <2>2 DEF Reboot, Goto, NewController, NewDeadline, Times, TypeOK
  <2> QED
    BY <1>7, <2>1, <2>2
<1>8. CASE CliLocks
  BY <1>8 DEF CliLocks, TypeOK
<1>9. CASE CliChecks
  BY <1>9 DEF CliChecks, TypeOK
<1>10. CASE CliBegins
  BY <1>10 DEF CliBegins, TypeOK
<1>11. CASE CliCompletes
  BY <1>11 DEF CliCompletes, TypeOK
<1>12. CASE CliEnds
  BY <1>12 DEF CliEnds, TypeOK
<1>13. CASE UNCHANGED vars
  BY <1>13 DEF vars, TypeOK
<1> QED
  BY <1>1, <1>2, <1>3, <1>4, <1>5, <1>6, <1>7, <1>8, <1>9, <1>10, <1>11, <1>12,
     <1>13 DEF Next

\* The variables always have the values the code gives them; in particular the
\* deadline is armed before a poll subtracts it.
THEOREM TypesHold == Spec => []TypeOK
<1>1. Init => TypeOK
  BY DEF Init, NewController, NewDeadline, NoCause, Times, None, TypeOK
<1> QED
  BY <1>1, StepTypes, PTL DEF Spec

-----------------------------------------------------------------------------
(* The lock protocol.                                                      *)

\* Every step keeps the lock protocol, and with it the inhibition.
LEMMA StepLock ==
  ASSUME TypeOK, LockInv, [Next]_vars
  PROVE  LockInv'
<1> USE DEF LockInv, NoBackupDuringMaintenance
<1>1. ASSUME NEW obs \in Observations, NEW export \in Exports,
             NEW read \in {None, backup}, Poll(obs, export, read)
      PROVE  LockInv'
  <2>1. pc' \in {"asleep", "decided"} /\ UNCHANGED <<backup, cli, session>>
    BY <1>1 DEF Poll, Goto
  <2> QED
    BY <2>1
<1>2. CASE TryLock
  BY <1>2 DEF TryLock, Goto
<1>3. CASE RecheckGuard
  BY <1>3 DEF RecheckGuard, Goto
<1>4. CASE Scale
  BY <1>4 DEF Scale, Goto
<1>5. CASE Dispatched
  BY <1>5 DEF Dispatched, Goto
<1>6. ASSUME NEW g \in Gaps, Wake(g) \/ Restart(g)
      PROVE  LockInv'
  BY <1>6 DEF Wake, Restart, Goto
<1>7. CASE Crash \/ Reboot
  BY <1>7 DEF Crash, Reboot, Goto
<1>8. CASE CliLocks
  BY <1>8 DEF CliLocks
<1>9. CASE CliChecks
  BY <1>9 DEF CliChecks
<1>10. CASE CliBegins
  BY <1>10 DEF CliBegins
<1>11. CASE CliCompletes
  BY <1>11 DEF CliCompletes
<1>12. CASE CliEnds
  BY <1>12 DEF CliEnds
<1>13. CASE UNCHANGED vars
  BY <1>13 DEF vars
<1> QED
  BY <1>1, <1>2, <1>3, <1>4, <1>5, <1>6, <1>7, <1>8, <1>9, <1>10, <1>11, <1>12,
     <1>13 DEF Next

\* No backup sender is scaled up while a maintenance session is open.
THEOREM MaintenanceInhibits == Spec => []NoBackupDuringMaintenance
<1>1. Init => LockInv
  BY DEF Init, LockInv, NoBackupDuringMaintenance
<1>2. LockInv => NoBackupDuringMaintenance
  BY DEF LockInv
<1> QED
  BY <1>1, <1>2, StepLock, TypesHold, PTL DEF Spec

-----------------------------------------------------------------------------
(* The windows.                                                            *)

\* Verified progress needs an earlier sample, and when such a sample is at hand
\* the polls that were no progress lie before this one.
LEMMA ProgressIsLater ==
  ASSUME TypeOK, WindowInv, pc = "idle",
         NEW obs \in Observations, RouteProgress(obs)
  PROVE  hist.broken < now /\ hist.unsettled < now
<1>1. c.last # None
  BY DEF RouteProgress, Observations
<1> QED
  BY <1>1 DEF WindowInv

\* A poll leaves each window no longer than the history allows.
LEMMA PollWindows ==
  ASSUME TypeOK, TypeOK', WindowInv,
         NEW obs \in Observations, NEW export \in Exports,
         NEW read \in {None, backup}, Poll(obs, export, read)
  PROVE  WindowInv'
<1> DEFINE domain == Combined(obs, export)
           inhibited == session.open
           progress == RouteProgress(obs)
<1>1. /\ pc = "idle" /\ pc' \in {"asleep", "decided"} /\ now' = now
      /\ c'.last = IF obs = "missing" THEN c.last ELSE now
      /\ c'.healthySince = HealthySince(domain, inhibited)
      /\ c'.unhealthySince = UnhealthySince(domain, inhibited)
      /\ deadline' = NextDeadline(obs, inhibited)
      /\ book' = NextBook(domain, read)
  BY DEF Poll, Goto
<1>2. /\ hist'.quiet = IF progress \/ inhibited THEN now ELSE hist.quiet
      /\ hist'.broken = IF ~(progress /\ ~inhibited) THEN now ELSE hist.broken
      /\ hist'.unsettled = IF ~progress \/ read # 0 THEN now ELSE hist.unsettled
  BY DEF Poll, NextHist
<1>3. /\ now \in Nat /\ now # None
      /\ c.healthySince \in Times /\ c.unhealthySince \in Times
      /\ deadline.started \in Times /\ deadline.progress \in Times
      /\ book.clearSince \in Times
      /\ hist.quiet \in Nat /\ hist.broken \in Nat /\ hist.unsettled \in Nat
      /\ hist.quiet <= now /\ hist.broken <= now /\ hist.unsettled <= now
  BY DEF TypeOK, WindowInv, None
<1>4. /\ domain = "HEALTHY" => progress
      /\ domain = "MEDIA_FAILURE" => ~progress
      /\ progress => hist.broken < now /\ hist.unsettled < now
  BY <1>1, Assessed, ProgressIsLater
<1>5. \A t \in {hist'.quiet, hist'.broken, hist'.unsettled} : t <= now'
  BY <1>1, <1>2, <1>3
<1>6. c'.healthySince # None => hist'.broken < c'.healthySince
  BY <1>1, <1>2, <1>3, <1>4 DEF HealthySince, Since, WindowInv
<1>7. c'.unhealthySince # None => hist'.quiet <= c'.unhealthySince
  BY <1>1, <1>2, <1>3, <1>4 DEF UnhealthySince, Since, WindowInv
<1>8. book'.clearSince # None => hist'.unsettled < book'.clearSince
  <2>1. SUFFICES ASSUME book'.clearSince # None
                 PROVE  hist'.unsettled < book'.clearSince
    OBVIOUS
  <2>2. /\ domain = "HEALTHY" /\ read = 0
        /\ book'.clearSince = Since(book.clearSince)
    BY <1>1, <2>1, book \in [open : BOOLEAN, clearSince : Times, started : BOOLEAN]
       DEF NextBook, NoCause, TypeOK
  <2> QED
    BY <1>2, <1>3, <1>4, <2>2 DEF Since, WindowInv
<1>9. /\ deadline'.progress # None => hist'.quiet <= deadline'.progress
      /\ deadline'.progress = None /\ deadline'.started # None
           => hist'.quiet <= deadline'.started
  BY <1>1, <1>2, <1>3 DEF NextDeadline, Since, WindowInv
<1>10. c'.last = None => book'.open
  <2>1. c'.last = None => domain \in {"MEDIA_FAILURE", "OBSERVATION_LOST"}
    BY <1>1, <1>3, Assessed
  <2> QED
    BY <1>1, <2>1 DEF NextBook
<1> QED
  BY <1>1, <1>5, <1>6, <1>7, <1>8, <1>9, <1>10 DEF WindowInv

\* What a poll decides is earned, and a start has its cause.
LEMMA PollDecides ==
  ASSUME TypeOK, TypeOK', WindowInv, WindowInv',
         NEW obs \in Observations, NEW export \in Exports,
         NEW read \in {None, backup}, Poll(obs, export, read)
  PROVE  StartEarned' /\ StopEarned' /\ StartHasCause'
<1> DEFINE domain == Combined(obs, export)
           inhibited == session.open
           progress == RouteProgress(obs)
           d == NextDeadline(obs, inhibited)
<1>1. /\ pc = "idle" /\ now' = now
      /\ c'.healthySince = HealthySince(domain, inhibited)
      /\ c'.unhealthySince = UnhealthySince(domain, inhibited)
      /\ deadline' = d
      /\ book' = NextBook(domain, read)
      /\ action' = "START" => Starts(domain, inhibited, Expired(d), read)
      /\ action' = "STOP" => Stops(domain, inhibited, read)
  BY DEF Poll
<1>2. /\ now \in Nat
      /\ hist'.quiet \in Nat /\ hist'.broken \in Nat
      /\ deadline'.started \in Nat /\ deadline'.progress \in Times
      /\ deadline'.started # None
      /\ c'.healthySince \in Times /\ c'.unhealthySince \in Times
  <2>1. pc' \notin {"down", "idle"}
    BY DEF Poll, Goto
  <2> QED
    BY <2>1 DEF TypeOK, Times, None
<1>3. /\ START_AFTER \in Nat /\ AFTER \in Nat /\ STOP_AFTER \in Nat
      /\ 0 < AFTER /\ START_AFTER <= AFTER
  BY FallbackAssumption
<1>4. Expired(d) => now - hist'.quiet >= START_AFTER
  <2>1. CASE d.progress # None
    BY <1>1, <1>2, <1>3, <2>1 DEF Expired, WindowInv, Times, None
  <2>2. CASE d.progress = None
    BY <1>1, <1>2, <1>3, <2>2 DEF Expired, WindowInv, None
  <2> QED
    BY <2>1, <2>2
<1>5. StartEarned'
  <2>1. SUFFICES ASSUME action' = "START"
                 PROVE  now - hist'.quiet >= START_AFTER
    BY <1>1 DEF StartEarned
  <2>2. Starts(domain, inhibited, Expired(d), read)
    BY <1>1, <2>1
  <2>3. CASE domain = "MEDIA_FAILURE" /\ ~inhibited
    <3>1. c'.unhealthySince # None /\ now - c'.unhealthySince >= START_AFTER
      BY <1>1, <2>2, <2>3 DEF Starts, UnhealthySince, Since, None, TypeOK
    <3> QED
      BY <1>2, <1>3, <3>1 DEF WindowInv, Times, None
  <2> QED
    BY <1>4, <2>2, <2>3 DEF Starts
<1>6. StopEarned'
  <2>1. SUFFICES ASSUME action' = "STOP"
                 PROVE  now - hist'.broken > STOP_AFTER
    BY <1>1 DEF StopEarned
  <2>2. c'.healthySince # None /\ now - c'.healthySince >= STOP_AFTER
    BY <1>1, <2>1 DEF Stops, HealthySince, Since, None, TypeOK
  <2> QED
    BY <1>2, <1>3, <2>2 DEF WindowInv, Times, None
<1>7. StartHasCause'
  <2>1. SUFFICES ASSUME Starts(domain, inhibited, Expired(d), read)
                 PROVE  book'.open
    BY <1>1 DEF StartHasCause
  <2>2. CASE domain \in {"MEDIA_FAILURE", "OBSERVATION_LOST"}
    BY <1>1, <2>2 DEF NextBook
  <2>3. CASE domain = "INITIALIZING"
    <3>1. Expired(d) /\ ~inhibited /\ read = 0
      BY <2>1, <2>3 DEF Starts
    <3>2. ~progress
      BY <1>2, <1>3, <3>1 DEF Expired, NextDeadline, None
    <3>3. c.last = None
      BY <2>3, <3>2, Assessed
    <3>4. deadline.started # None
      BY <1>2, <1>3, <3>1, <3>2 DEF Expired, NextDeadline, Since, None
    <3>5. book.open
      BY <3>3, <3>4 DEF WindowInv
    <3> QED
      BY <1>1, <2>3, <3>1, <3>5 DEF NextBook, TypeOK
  <2> QED
    BY <2>1, <2>2, <2>3 DEF Starts
<1> QED
  BY <1>5, <1>6, <1>7

\* The steps between two polls take no time and leave the windows alone.
LEMMA QuietKeeps ==
  ASSUME IInv, UNCHANGED <<now, hist, c, deadline>>,
         book'.clearSince = book.clearSince, book'.open = book.open,
         pc' \notin {"idle", "down"} \/ pc' = pc,
         Acting' => Acting /\ action' = action
  PROVE  WindowInv' /\ StartEarned' /\ StopEarned' /\ StartHasCause'
<1>1. WindowInv'
  BY DEF IInv, WindowInv
<1>2. StartEarned' /\ StopEarned' /\ StartHasCause'
  BY DEF IInv, StartEarned, StopEarned, StartHasCause
<1> QED
  BY <1>1, <1>2

\* Time passes only while nothing is being carried out.
LEMMA TimePasses ==
  ASSUME IInv, TypeOK', NEW g \in Gaps, Wake(g) \/ Restart(g)
  PROVE  WindowInv' /\ StartEarned' /\ StopEarned' /\ StartHasCause'
<1>1. g \in Nat /\ g > 0 /\ now' = now + g /\ pc' = "idle" /\ pc \in {"asleep", "down"}
  BY FallbackAssumption DEF Wake, Restart, Goto
<1>2. UNCHANGED <<c, deadline, book, hist>>
  BY DEF Wake, Restart
<1>3. now \in Nat /\ hist.quiet \in Nat /\ hist.broken \in Nat /\ hist.unsettled \in Nat
  BY DEF IInv, TypeOK
<1>4. hist.quiet <= now /\ hist.broken <= now /\ hist.unsettled <= now
  BY DEF IInv, WindowInv
<1>5. WindowInv'
  BY <1>1, <1>2, <1>3, <1>4 DEF IInv, WindowInv
<1>6. ~Acting'
  BY <1>1 DEF Acting
<1> QED
  BY <1>5, <1>6 DEF StartEarned, StopEarned, StartHasCause

\* Every step keeps the inductive invariant.
LEMMA StepKeeps ==
  ASSUME IInv, [Next]_vars
  PROVE  IInv'
<1>1. TypeOK' /\ LockInv'
  BY StepTypes, StepLock DEF IInv
<1> SUFFICES WindowInv' /\ StartEarned' /\ StopEarned' /\ StartHasCause'
  BY <1>1 DEF IInv
<1>2. ASSUME NEW obs \in Observations, NEW export \in Exports,
             NEW read \in {None, backup}, Poll(obs, export, read)
      PROVE  WindowInv' /\ StartEarned' /\ StopEarned' /\ StartHasCause'
  BY <1>1, <1>2, PollWindows, PollDecides DEF IInv
<1>3. CASE TryLock \/ RecheckGuard \/ Scale
  BY <1>3, QuietKeeps DEF TryLock, RecheckGuard, Scale, Goto, Acting
<1>4. CASE Dispatched
  <2>1. book'.clearSince = book.clearSince /\ book'.open = book.open
    BY <1>4 DEF Dispatched, IInv, TypeOK
  <2>2. pc' = "asleep" /\ UNCHANGED <<now, hist, c, deadline>>
    BY <1>4 DEF Dispatched, Goto
  <2> QED
    BY <2>1, <2>2, QuietKeeps DEF Acting
<1>5. ASSUME NEW g \in Gaps, Wake(g) \/ Restart(g)
      PROVE  WindowInv' /\ StartEarned' /\ StopEarned' /\ StartHasCause'
  BY <1>1, <1>5, TimePasses
<1>6. CASE Crash \/ Reboot
  <2>1. /\ pc' = "down" /\ UNCHANGED <<now, hist>>
        /\ c' = NewController /\ deadline' = NewDeadline
        /\ book'.clearSince \in {book.clearSince, None}
    BY <1>6 DEF Crash, Reboot, Goto, IInv, TypeOK
  <2>2. WindowInv'
    BY <2>1 DEF IInv, WindowInv, NewController, NewDeadline
  <2> QED
    BY <2>1, <2>2 DEF StartEarned, StopEarned, StartHasCause, Acting
<1>7. CASE CliLocks \/ CliChecks \/ CliBegins \/ CliCompletes \/ CliEnds
  BY <1>7, QuietKeeps
     DEF CliLocks, CliChecks, CliBegins, CliCompletes, CliEnds, Acting
<1>8. CASE UNCHANGED vars
  BY <1>8, QuietKeeps DEF vars, Acting
<1> QED
  BY <1>2, <1>3, <1>4, <1>5, <1>6, <1>7, <1>8 DEF Next

\* The invariant holds from the start: nothing is decided and no window is open.
LEMMA InitKeeps == Init => IInv
<1>1. Init => TypeOK
  BY DEF Init, NewController, NewDeadline, NoCause, Times, None, TypeOK
<1>2. Init => LockInv
  BY DEF Init, LockInv, NoBackupDuringMaintenance
<1>3. Init => WindowInv
  BY DEF Init, NewController, NewDeadline, NoCause, WindowInv
<1>4. Init => StartEarned /\ StopEarned /\ StartHasCause
  BY DEF Init, StartEarned, StopEarned, StartHasCause, Acting
<1> QED
  BY <1>1, <1>2, <1>3, <1>4 DEF IInv

\* The inductive invariant, always.
THEOREM Invariance == Spec => []IInv
  BY InitKeeps, StepKeeps, PTL DEF Spec

\* A start is decided only after the failure window without verified progress of
\* the route and without maintenance.
THEOREM StartsAreEarned == Spec => []StartEarned
<1>1. IInv => StartEarned
  BY DEF IInv
<1> QED
  BY <1>1, Invariance, PTL

\* A stop is decided only after the stability window of verified progress.
THEOREM StopsAreEarned == Spec => []StopEarned
<1>1. IInv => StopEarned
  BY DEF IInv
<1> QED
  BY <1>1, Invariance, PTL

\* Every start that is dispatched has an open cause.
THEOREM StartsHaveCauses == Spec => []StartHasCause
<1>1. IInv => StartHasCause
  BY DEF IInv
<1> QED
  BY <1>1, Invariance, PTL

\* Only a poll closes a cause, and only after settled, verified progress.
LEMMA ClosesSettled ==
  ASSUME IInv, [Next]_vars, book.open, ~book'.open
  PROVE  now - hist.unsettled > SETTLE
<1>1. ASSUME NEW obs \in Observations, NEW export \in Exports,
             NEW read \in {None, backup}, Poll(obs, export, read)
      PROVE  now - hist.unsettled > SETTLE
  <2> DEFINE domain == Combined(obs, export)
  <2>1. book' = NextBook(domain, read) /\ pc = "idle"
    BY <1>1 DEF Poll
  <2>2. domain = "HEALTHY" /\ now - Since(book.clearSince) >= SETTLE
    BY <2>1 DEF NextBook, IInv, TypeOK
  <2>3. hist.unsettled < now
    BY <1>1, <2>1, <2>2, Assessed, ProgressIsLater DEF IInv
  <2>4. hist.unsettled < Since(book.clearSince)
    BY <2>3 DEF Since, IInv, WindowInv
  <2> QED
    BY <2>2, <2>4, SinceIsTime, FallbackAssumption DEF IInv, TypeOK
<1>2. CASE Dispatched \/ Reboot
  BY <1>2 DEF Dispatched, Reboot, IInv, TypeOK
<1>3. CASE \/ TryLock \/ RecheckGuard \/ Scale \/ Crash
           \/ CliLocks \/ CliChecks \/ CliBegins \/ CliCompletes \/ CliEnds
           \/ UNCHANGED vars
  BY <1>3 DEF TryLock, RecheckGuard, Scale, Crash, CliLocks, CliChecks, CliBegins,
              CliCompletes, CliEnds, vars
<1>4. ASSUME NEW g \in Gaps, Wake(g) \/ Restart(g)
      PROVE  FALSE
  BY <1>4 DEF Wake, Restart
<1> QED
  BY <1>1, <1>2, <1>3, <1>4 DEF Next

\* A cause is closed only after the settling window of verified progress with the
\* backup away, in one life of the process.
THEOREM ClosuresAreEarned == Spec => CauseClosureEarned
<1>1. IInv /\ [Next]_vars => [book.open /\ ~book'.open
                               => now - hist.unsettled > SETTLE]_vars
  BY ClosesSettled
<1> QED
  BY <1>1, Invariance, PTL DEF Spec, CauseClosureEarned

-----------------------------------------------------------------------------
(* The controller implements Standby.                                      *)
(*                                                                         *)
(* A decision is carried out some steps after the poll that made it, by a  *)
(* process that may have died in between, and a kubectl that failed may    *)
(* have moved the backup.  MovedInv says why each change is nevertheless   *)
(* earned when it happens.                                                 *)

\* The last change of the backup ended the window of the opposite change; what is
\* being carried out was decided from this replica count, now, and against evidence
\* of now for the opposite.
MovedInv ==
  /\ moved <= now
  /\ backup = 0 => moved <= hist.quiet
  /\ backup = 1 => moved <= hist.broken
  /\ Acting =>
       \/ action = "START" /\ backup = 0 /\ hist.broken = now
       \/ action = "STOP" /\ backup = 1 /\ hist.quiet = now

\* A poll that decides START saw no verified progress, one that decides STOP did,
\* each with the replica count it changes.
LEMMA PollMoved ==
  ASSUME IInv, TypeOK', MovedInv,
         NEW obs \in Observations, NEW export \in Exports,
         NEW read \in {None, backup}, Poll(obs, export, read)
  PROVE  MovedInv'
<1> DEFINE domain == Combined(obs, export)
           inhibited == session.open
           progress == RouteProgress(obs)
           d == NextDeadline(obs, inhibited)
<1>1. /\ now' = now /\ moved' = moved /\ backup' = backup
      /\ action' \in {"none", "START", "STOP"}
      /\ action' = "START" => Starts(domain, inhibited, Expired(d), read)
      /\ action' = "STOP" => Stops(domain, inhibited, read)
      /\ Acting' => action' # "none"
  BY DEF Poll, Goto, Acting
<1>2. /\ hist'.quiet = IF progress \/ inhibited THEN now ELSE hist.quiet
      /\ hist'.broken = IF ~(progress /\ ~inhibited) THEN now ELSE hist.broken
  BY DEF Poll, NextHist
<1>3. /\ now \in Nat /\ moved \in Nat /\ moved <= now /\ backup \in {0, 1}
  BY DEF IInv, TypeOK, MovedInv
<1>4. ASSUME action' = "START"
      PROVE  backup = 0 /\ hist'.broken = now
  <2>1. ~inhibited /\ read = 0
    BY <1>1, <1>4 DEF Starts
  <2>2. ~progress
    <3>1. CASE domain = "MEDIA_FAILURE"
      BY <3>1, Assessed DEF IInv
    <3>2. CASE Expired(d)
      BY <1>3, <2>1, <3>2, FallbackAssumption DEF Expired, NextDeadline, None
    <3> QED
      BY <1>1, <1>4, <3>1, <3>2 DEF Starts
  <2> QED
    BY <1>2, <2>1, <2>2 DEF None
<1>5. ASSUME action' = "STOP"
      PROVE  backup = 1 /\ hist'.quiet = now
  <2>1. read = 1 /\ domain = "HEALTHY"
    BY <1>1, <1>5 DEF Stops
  <2> QED
    BY <1>2, <2>1, Assessed DEF IInv, None
<1>6. /\ backup = 0 => moved <= hist'.quiet
      /\ backup = 1 => moved <= hist'.broken
  BY <1>2, <1>3 DEF MovedInv
<1> QED
  BY <1>1, <1>3, <1>4, <1>5, <1>6 DEF MovedInv

\* Every step keeps MovedInv: kubectl sets the count a decision asks for, and time
\* passes only when nothing is being carried out.
LEMMA StepMoved ==
  ASSUME IInv, MovedInv, [Next]_vars
  PROVE  MovedInv'
<1>1. ASSUME NEW obs \in Observations, NEW export \in Exports,
             NEW read \in {None, backup}, Poll(obs, export, read)
      PROVE  MovedInv'
  BY <1>1, PollMoved, StepTypes DEF IInv
<1>2. CASE Scale
  <2>1. /\ Acting /\ ~Acting' /\ UNCHANGED <<now, hist, action>>
        /\ backup' \in {backup, IF action = "START" THEN 1 ELSE 0}
        /\ moved' = IF backup' = backup THEN moved ELSE now
    BY <1>2 DEF Scale, Goto, Acting
  <2>2. now \in Nat /\ moved \in Nat
    BY DEF IInv, TypeOK
  <2>3. CASE action = "START"
    BY <2>1, <2>2, <2>3 DEF MovedInv
  <2>4. CASE action # "START"
    BY <2>1, <2>2, <2>4 DEF MovedInv
  <2> QED
    BY <2>3, <2>4
<1>3. ASSUME UNCHANGED <<now, hist, backup, moved>>,
             Acting' => Acting /\ action' = action
      PROVE  MovedInv'
  BY <1>3 DEF MovedInv
<1>4. CASE TryLock \/ RecheckGuard \/ Dispatched
  BY <1>3, <1>4 DEF TryLock, RecheckGuard, Dispatched, Goto, Acting
<1>5. CASE Crash \/ Reboot
  BY <1>3, <1>5 DEF Crash, Reboot, Goto, Acting
<1>6. CASE CliLocks \/ CliChecks \/ CliBegins \/ CliCompletes \/ CliEnds
  BY <1>3, <1>6 DEF CliLocks, CliChecks, CliBegins, CliCompletes, CliEnds, Acting
<1>7. CASE UNCHANGED vars
  BY <1>3, <1>7 DEF vars, Acting
<1>8. ASSUME NEW g \in Gaps, Wake(g) \/ Restart(g)
      PROVE  MovedInv'
  <2>1. g \in Nat /\ now \in Nat /\ moved \in Nat
    BY FallbackAssumption DEF IInv, TypeOK
  <2>2. now' = now + g /\ ~Acting' /\ UNCHANGED <<backup, moved, hist>>
    BY <1>8 DEF Wake, Restart, Goto, Acting
  <2> QED
    BY <2>1, <2>2 DEF MovedInv
<1> QED
  BY <1>1, <1>2, <1>4, <1>5, <1>6, <1>7, <1>8 DEF Next

-----------------------------------------------------------------------------
(* The refinement.                                                         *)

\* What no step of Standby sees.
LEMMA Unseen ==
  ASSUME UNCHANGED <<now, backup, moved, session, hist>>, book'.open = book.open
  PROVE  UNCHANGED S!vars
BY DEF S!vars

\* A poll is Observe: it closes a cause only after SETTLE.
LEMMA PollObserves ==
  ASSUME IInv, TypeOK',
         NEW obs \in Observations, NEW export \in Exports,
         NEW read \in {None, backup}, Poll(obs, export, read)
  PROVE  S!Observe
<1>1. /\ hist'.quiet \in {hist.quiet, now}
      /\ hist'.broken \in {hist.broken, now}
      /\ hist'.unsettled \in {hist.unsettled, now}
      /\ UNCHANGED <<now, backup, moved, session>>
  BY DEF Poll, NextHist
<1>2. book'.open \in BOOLEAN
  BY DEF TypeOK
<1>3. book.open /\ ~book'.open => now - hist.unsettled > SETTLE
  BY ClosesSettled DEF Next
<1> QED
  BY <1>1, <1>2, <1>3 DEF S!Observe

\* A change of the replicas is Start or Stop.
LEMMA ScaleMoves ==
  ASSUME IInv, MovedInv, Scale
  PROVE  S!Start \/ S!Stop \/ UNCHANGED S!vars
<1>1. /\ Acting /\ pc = "scaling" /\ UNCHANGED <<now, hist, book, session>>
      /\ backup' \in {backup, IF action = "START" THEN 1 ELSE 0}
      /\ moved' = IF backup' = backup THEN moved ELSE now
  BY DEF Scale, Acting
<1>2. /\ now \in Nat /\ moved \in Nat /\ hist.quiet \in Nat /\ hist.broken \in Nat
      /\ START_AFTER \in Nat /\ STOP_AFTER \in Nat
  BY FallbackAssumption DEF IInv, TypeOK
<1>3. ~session.open
  BY <1>1 DEF IInv, LockInv
<1>4. CASE backup' = backup
  BY <1>1, <1>4, Unseen
<1>5. CASE backup' # backup /\ action = "START"
  <2>1. backup = 0 /\ backup' = 1 /\ moved' = now /\ moved <= hist.quiet
    BY <1>1, <1>5 DEF MovedInv
  <2>2. book.open /\ now - hist.quiet >= START_AFTER
    BY <1>1, <1>5 DEF IInv, StartEarned, StartHasCause
  <2>3. now - moved >= START_AFTER
    BY <1>2, <2>1, <2>2
  <2> QED
    BY <1>1, <1>3, <2>1, <2>2, <2>3 DEF S!Start
<1>6. CASE backup' # backup /\ action # "START"
  <2>1. /\ action = "STOP" /\ backup = 1 /\ backup' = 0 /\ moved' = now
        /\ moved <= hist.broken
    BY <1>1, <1>6 DEF MovedInv
  <2>2. now - hist.broken > STOP_AFTER
    BY <1>1, <2>1 DEF IInv, StopEarned
  <2>3. now - moved > STOP_AFTER
    BY <1>2, <2>1, <2>2
  <2> QED
    BY <1>1, <1>3, <2>1, <2>2, <2>3 DEF S!Stop
<1> QED
  BY <1>4, <1>5, <1>6

\* Every step of the controller, of the maintenance command and of the host is a
\* step of Standby, or none that it sees.
LEMMA StepsToStandby ==
  ASSUME IInv, MovedInv, [Next]_vars
  PROVE  [S!Next]_(S!vars)
<1>1. ASSUME NEW obs \in Observations, NEW export \in Exports,
             NEW read \in {None, backup}, Poll(obs, export, read)
      PROVE  S!Next
  BY <1>1, PollObserves, StepTypes DEF IInv, S!Next
<1>2. CASE Scale
  BY <1>2, ScaleMoves DEF S!Next
<1>3. CASE Dispatched \/ Reboot
  <2>1. book'.open = book.open /\ UNCHANGED <<now, backup, moved, session, hist>>
    BY <1>3 DEF Dispatched, Reboot, IInv, TypeOK
  <2> QED
    BY <2>1, Unseen
<1>4. CASE TryLock \/ RecheckGuard \/ Crash \/ CliLocks \/ CliChecks \/ CliEnds
  BY <1>4, Unseen
     DEF TryLock, RecheckGuard, Crash, CliLocks, CliChecks, CliEnds
<1>5. CASE CliBegins
  <2>1. backup = 0
    BY <1>5 DEF CliBegins, IInv, LockInv
  <2> QED
    BY <1>5, <2>1 DEF CliBegins, S!Open, S!Next
<1>6. CASE CliCompletes
  BY <1>6 DEF CliCompletes, S!Close, S!Next
<1>7. ASSUME NEW g \in Gaps, Wake(g) \/ Restart(g)
      PROVE  S!Next
  <2>1. now' > now
    BY <1>7, FallbackAssumption DEF Wake, Restart, IInv, TypeOK
  <2> QED
    BY <1>7, <2>1 DEF Wake, Restart, S!Pass, S!Next
<1>8. CASE UNCHANGED vars
  BY <1>8, Unseen DEF vars
<1> QED
  BY <1>1, <1>2, <1>3, <1>4, <1>5, <1>6, <1>7, <1>8 DEF Next

\* The controller implements Standby: although a decision is carried out late, by
\* more than one step, beside a command that opens and closes sessions and over
\* deaths of every process, each change of the backup is earned at the instant it
\* happens, belongs to an open cause, respects maintenance and keeps its distance
\* from the change before.
THEOREM ImplementsStandby == Spec => KeepsStandby
<1>1. Init => MovedInv
  BY DEF Init, MovedInv, Acting
<1>2. IInv /\ MovedInv /\ [Next]_vars => MovedInv'
  BY StepMoved
<1>3. Init => S!Init
  BY DEF Init, NoCause, S!Init
<1>4. IInv /\ MovedInv /\ [Next]_vars => [S!Next]_(S!vars)
  BY StepsToStandby
<1> QED
  BY <1>1, <1>2, <1>3, <1>4, Invariance, PTL DEF Spec, KeepsStandby, S!Spec
=============================================================================

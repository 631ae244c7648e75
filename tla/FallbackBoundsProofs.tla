------------------------ MODULE FallbackBoundsProofs ------------------------
(***************************************************************************)
(* Proofs about the bounds of FallbackController, for every value of its   *)
(* constants: how long an unconfirmed route can go without a start, and a  *)
(* recovered one with the backup.                                          *)
(*                                                                         *)
(* Both bounds hold because the windows cannot be restarted for long.  For *)
(* the start, StartBound: before the failure window begins, the deadline   *)
(* counts from no later than the last reason against a start, so that the  *)
(* window begins at most a poll after it.  For the retirement, StopBound:  *)
(* once polls only verify progress, the health window begins at the second *)
(* of them, or the third when a poll before was missed.                    *)
(***************************************************************************)
EXTENDS FallbackControllerProofs

\* Where the progress deadline counts from.
Reference(d) == IF d.progress # None THEN d.progress ELSE d.started

\* What a running deadline and the failure window say of the last reason against a
\* start.
StartBound ==
  /\ hist.blocked <= now
  /\ pc = "down" => deadline.started = None
  /\ c.unhealthySince # None => c.unhealthySince <= now
  /\ deadline.started # None =>
       /\ Reference(deadline) <= hist.blocked
       /\ c.unhealthySince = None =>
            now - hist.blocked < AFTER + (IF pc = "idle" THEN MaxGap ELSE 0)
       /\ c.unhealthySince # None =>
            c.unhealthySince - hist.blocked < AFTER + MaxGap
  /\ Polled /\ c.unhealthySince # None /\ hist.blocked # now =>
       now - c.unhealthySince < START_AFTER

\* What the last sample and the health window say of the last reason against the
\* retirement.
StopBound ==
  /\ hist.retained <= now
  /\ c.last # None => c.last <= now
  /\ c.healthySince # None => c.healthySince <= now
  /\ c.last # None /\ c.gap => c.last <= hist.retained
  /\ c.last # None /\ c.healthySince = None =>
       c.last - hist.retained <= MAX_SAMPLE_GAP
  /\ c.healthySince # None =>
       c.healthySince - hist.retained <= 2 * MAX_SAMPLE_GAP
  /\ Polled /\ c.healthySince = None => now - hist.retained <= MAX_SAMPLE_GAP
  /\ Polled /\ c.healthySince # None /\ hist.retained # now =>
       now - c.healthySince < STOP_AFTER

-----------------------------------------------------------------------------
(* The start.                                                              *)

\* A poll that has no reason against a start and does not decide it is within the
\* deadline, or within the failure window.
LEMMA PollStartBound ==
  ASSUME TypeOK, TypeOK', StartBound,
         NEW obs \in Observations, NEW export \in Exports,
         NEW read \in {None, backup}, Poll(obs, export, read)
  PROVE  StartBound'
<1> DEFINE domain == Combined(obs, export)
           inhibited == session.open
           progress == RouteProgress(obs)
           d == NextDeadline(obs, inhibited)
           blocked == \/ progress \/ inhibited \/ read # 0 \/ action' = "START"
                      \/ deadline.started = None
<1>1. /\ pc = "idle" /\ pc' \in {"asleep", "decided"} /\ now' = now
      /\ c'.unhealthySince = UnhealthySince(domain, inhibited)
      /\ deadline' = d
      /\ hist'.blocked = IF blocked THEN now ELSE hist.blocked
      /\ action' # "START" => ~Starts(domain, inhibited, Expired(d), read)
  BY DEF Poll, Goto, NextHist
<1>2. /\ now \in Nat /\ now # None /\ hist.blocked \in Nat /\ hist.blocked <= now
      /\ c.unhealthySince \in Times /\ c'.unhealthySince \in Times
      /\ deadline.started \in Times /\ deadline.progress \in Times
      /\ START_AFTER \in Nat /\ AFTER \in Nat /\ MaxGap \in Nat /\ 0 < AFTER
  BY FallbackAssumption DEF TypeOK, StartBound, None
<1>3. /\ c'.unhealthySince # None => domain = "MEDIA_FAILURE" /\ ~inhibited
      /\ c'.unhealthySince # None =>
           c'.unhealthySince = (IF c.unhealthySince = None THEN now
                                ELSE c.unhealthySince)
      /\ c'.unhealthySince = None => domain # "MEDIA_FAILURE" \/ inhibited
  BY <1>1, <1>2 DEF UnhealthySince, Since, Times, None
<1>4. c'.unhealthySince # None => c'.unhealthySince <= now
  BY <1>2, <1>3 DEF StartBound
<1>5. /\ d.started # None /\ d.started \in Nat
      /\ blocked => Reference(d) <= now
      /\ ~blocked => d = deadline
  BY <1>1, <1>2 DEF NextDeadline, Since, Reference, StartBound, TypeOK, Times, None
<1>6. CASE blocked
  BY <1>1, <1>2, <1>4, <1>5, <1>6 DEF StartBound, Polled, Times, None
<1>7. CASE ~blocked
  <2>1. /\ hist'.blocked = hist.blocked /\ d = deadline
        /\ deadline.started # None /\ Reference(deadline) <= hist.blocked
    BY <1>1, <1>5, <1>7 DEF StartBound
  <2>2. domain \in {"MEDIA_FAILURE", "OBSERVATION_LOST", "INITIALIZING"}
    BY <1>7, Assessed
  <2>3. CASE domain = "MEDIA_FAILURE"
    <3>1. c'.unhealthySince # None /\ now - c'.unhealthySince < START_AFTER
      BY <1>1, <1>2, <1>3, <1>7, <2>3 DEF Starts, UnhealthySince, Times, None
    <3>2. c'.unhealthySince - hist.blocked < AFTER + MaxGap
      BY <1>1, <1>2, <1>3, <2>1, <3>1 DEF StartBound
    <3> QED
      BY <1>1, <1>2, <1>4, <2>1, <3>1, <3>2 DEF StartBound, Polled
  <2>4. CASE domain # "MEDIA_FAILURE"
    <3>1. c'.unhealthySince = None
      BY <1>3, <2>4
    <3>2. now - Reference(deadline) < AFTER
      BY <1>1, <1>2, <1>7, <2>1, <2>2, <2>4 DEF Starts, Expired, Reference, Times, None
    <3>3. now - hist.blocked < AFTER
      BY <1>2, <2>1, <3>2 DEF Reference, Times, None
    <3> QED
      BY <1>1, <1>2, <2>1, <3>1, <3>3 DEF StartBound, Polled
  <2> QED
    BY <2>3, <2>4
<1> QED
  BY <1>6, <1>7

-----------------------------------------------------------------------------
(* The retirement.                                                         *)

\* A poll that only verifies progress and does not decide the retirement is within
\* the health window, or the first after a poll was missed.
LEMMA PollStopBound ==
  ASSUME TypeOK, TypeOK', StopBound,
         NEW obs \in Observations, NEW export \in Exports,
         NEW read \in {None, backup}, Poll(obs, export, read)
  PROVE  StopBound'
<1> DEFINE domain == Combined(obs, export)
           inhibited == session.open
           progress == RouteProgress(obs)
           retained == ~(progress /\ ~inhibited) \/ read # 1 \/ action' = "STOP"
<1>1. /\ pc = "idle" /\ pc' \in {"asleep", "decided"} /\ now' = now
      /\ c'.last = IF obs = "missing" THEN c.last ELSE now
      /\ c'.gap = (obs = "missing")
      /\ c'.healthySince = HealthySince(domain, inhibited)
      /\ hist'.retained = IF retained THEN now ELSE hist.retained
  BY DEF Poll, Goto, NextHist
<1>2. /\ now \in Nat /\ now # None /\ hist.retained \in Nat /\ hist.retained <= now
      /\ c.last \in Times /\ c.healthySince \in Times /\ c'.healthySince \in Times
      /\ MAX_SAMPLE_GAP \in Nat /\ STOP_AFTER \in Nat
  BY FallbackAssumption DEF TypeOK, StopBound, None
<1>3. /\ c'.healthySince # None => domain = "HEALTHY" /\ ~inhibited
      /\ c'.healthySince # None =>
           c'.healthySince = (IF c.healthySince = None THEN now ELSE c.healthySince)
      /\ c'.healthySince = None => domain # "HEALTHY" \/ inhibited
  BY <1>1, <1>2 DEF HealthySince, Since, Times, None
<1>4. /\ c'.healthySince # None => c'.healthySince <= now
      /\ c'.last # None => c'.last <= now
  BY <1>1, <1>2, <1>3 DEF StopBound
<1>5. CASE retained
  BY <1>1, <1>2, <1>4, <1>5 DEF StopBound, Polled, Times, None
<1>6. CASE ~retained
  <2>1. /\ progress /\ ~inhibited /\ read = 1 /\ action' # "STOP"
        /\ obs = "advances" /\ hist'.retained = hist.retained
        /\ c'.last = now /\ c'.gap = FALSE
        /\ c.last # None /\ now - c.last <= MAX_SAMPLE_GAP
    BY <1>1, <1>6, Assessed DEF RouteProgress, Comparable
  <2>2. domain = IF c.gap THEN "INITIALIZING" ELSE "HEALTHY"
    BY <2>1 DEF Combined, Domain
  <2>3. CASE c.gap
    <3>1. c'.healthySince = None /\ c.last <= hist.retained
      BY <1>3, <2>1, <2>2, <2>3 DEF StopBound
    <3>2. now - hist.retained <= MAX_SAMPLE_GAP
      BY <1>2, <2>1, <3>1 DEF Times, None
    <3> QED
      BY <1>1, <1>2, <2>1, <3>1, <3>2 DEF StopBound, Polled
  <2>4. CASE ~c.gap
    <3>1. domain = "HEALTHY" /\ c'.healthySince # None
      BY <1>3, <2>1, <2>2, <2>4
    <3>2. c'.healthySince - hist.retained <= 2 * MAX_SAMPLE_GAP
      BY <1>2, <1>3, <2>1, <3>1 DEF StopBound, Times, None
    <3>3. ~Stops(domain, inhibited, read)
      <4>1. ~Starts(domain, inhibited, Expired(NextDeadline(obs, inhibited)), read)
        BY <2>1, <3>1 DEF Starts
      <4> QED
        BY <2>1, <4>1 DEF Poll
    <3>4. now - c'.healthySince < STOP_AFTER
      BY <1>1, <1>2, <2>1, <3>1, <3>3 DEF Stops, Times, None
    <3> QED
      BY <1>1, <1>2, <1>4, <2>1, <3>1, <3>2, <3>4 DEF StopBound, Polled
  <2> QED
    BY <2>3, <2>4
<1> QED
  BY <1>5, <1>6

-----------------------------------------------------------------------------
(* Every step.                                                             *)

\* Each step but a poll leaves the clock, the windows and the history alone, or
\* lets at most MaxGap pass, or forgets the windows with the process.
LEMMA StepBounds ==
  ASSUME TypeOK, StartBound, StopBound, [Next]_vars
  PROVE  StartBound' /\ StopBound'
<1>1. ASSUME NEW obs \in Observations, NEW export \in Exports,
             NEW read \in {None, backup}, Poll(obs, export, read)
      PROVE  StartBound' /\ StopBound'
  BY <1>1, StepTypes, PollStartBound, PollStopBound
<1>2. ASSUME UNCHANGED <<now, c, deadline, hist>>,
             pc' # "idle" \/ pc = "idle", pc' # "down" \/ pc = "down",
             pc \in {"idle", "down"} => pc' = pc
      PROVE  StartBound' /\ StopBound'
  BY <1>2 DEF StartBound, StopBound, Polled, Reference
<1>3. CASE TryLock \/ RecheckGuard \/ Scale \/ Dispatched
  BY <1>2, <1>3 DEF TryLock, RecheckGuard, Scale, Dispatched, Goto
<1>4. CASE CliLocks \/ CliChecks \/ CliBegins \/ CliCompletes \/ CliEnds
  BY <1>2, <1>4 DEF CliLocks, CliChecks, CliBegins, CliCompletes, CliEnds
<1>5. CASE UNCHANGED vars
  BY <1>2, <1>5 DEF vars
<1>6. ASSUME NEW g \in Gaps, Wake(g) \/ Restart(g)
      PROVE  StartBound' /\ StopBound'
  <2>1. /\ g \in Nat /\ g <= MaxGap /\ MaxGap \in Nat /\ AFTER \in Nat
        /\ MAX_SAMPLE_GAP \in Nat
    BY FallbackAssumption
  <2>2. /\ now' = now + g /\ pc' = "idle" /\ pc \in {"asleep", "down"}
        /\ UNCHANGED <<c, deadline, hist>>
    BY <1>6 DEF Wake, Restart, Goto
  <2>3. /\ now \in Nat /\ hist.blocked \in Nat /\ hist.retained \in Nat
        /\ c.last \in Times /\ c.healthySince \in Times
        /\ c.unhealthySince \in Times
    BY DEF TypeOK
  <2>4. StartBound'
    BY <2>1, <2>2, <2>3 DEF StartBound, Polled, Reference, Times, None
  <2>5. StopBound'
    BY <2>1, <2>2, <2>3 DEF StopBound, Polled, Times, None
  <2> QED
    BY <2>4, <2>5
<1>7. CASE Crash \/ Reboot
  <2>1. /\ now' = now /\ hist' = hist /\ pc' = "down"
        /\ c'.last = None /\ c'.healthySince = None /\ c'.unhealthySince = None
        /\ deadline'.started = None
    BY <1>7 DEF Crash, Reboot, Goto, NewController, NewDeadline
  <2> QED
    BY <2>1 DEF StartBound, StopBound, Polled
<1> QED
  BY <1>1, <1>3, <1>4, <1>5, <1>6, <1>7 DEF Next

\* The bounds' invariants, always.
LEMMA BoundsInvariance == Spec => [](TypeOK /\ StartBound /\ StopBound)
<1>1. Init => TypeOK /\ StartBound /\ StopBound
  <2>1. Init => TypeOK
    BY DEF Init, NewController, NewDeadline, NoCause, Times, None, TypeOK
  <2> QED
    BY <2>1, FallbackAssumption
       DEF Init, NewController, NewDeadline, StartBound, StopBound, Polled, None
<1>2. TypeOK /\ StartBound /\ StopBound /\ [Next]_vars
        => (TypeOK /\ StartBound /\ StopBound)'
  BY StepTypes, StepBounds
<1> QED
  BY <1>1, <1>2, PTL DEF Spec

\* When progress of the route stays unconfirmed, in whatever mixture of failures,
\* lost observations and restarts, a start is decided no later than the deadline,
\* the failure window and a poll after the last reason against it.
THEOREM StartsAreBounded == Spec => []BoundedStart
<1>1. TypeOK /\ StartBound => BoundedStart
  <2>1. SUFFICES ASSUME TypeOK, StartBound, Polled
                 PROVE  now - hist.blocked < AFTER + START_AFTER + MaxGap
    BY DEF BoundedStart
  <2>2. /\ AFTER \in Nat /\ START_AFTER \in Nat /\ MaxGap \in Nat /\ 0 < AFTER
        /\ now \in Nat /\ hist.blocked \in Nat /\ c.unhealthySince \in Times
        /\ deadline.started # None /\ pc # "idle"
    BY <2>1, FallbackAssumption DEF TypeOK, Polled
  <2>3. CASE c.unhealthySince = None
    BY <2>1, <2>2, <2>3 DEF StartBound
  <2>4. CASE c.unhealthySince # None
    BY <2>1, <2>2, <2>4 DEF StartBound, Times, None
  <2> QED
    BY <2>3, <2>4
<1> QED
  BY <1>1, BoundsInvariance, PTL

\* When the route keeps progressing, the backup is retired no later than the
\* stability window and two sample distances after the last reason to keep it,
\* whatever the local transport export claims.
THEOREM StopsAreBounded == Spec => []BoundedStop
<1>1. TypeOK /\ StopBound => BoundedStop
  <2>1. SUFFICES ASSUME TypeOK, StopBound, Polled
                 PROVE  now - hist.retained < STOP_AFTER + 2 * MAX_SAMPLE_GAP
    BY DEF BoundedStop
  <2>2. /\ MAX_SAMPLE_GAP \in Nat /\ STOP_AFTER \in Nat /\ 0 < STOP_AFTER
        /\ now \in Nat /\ hist.retained \in Nat /\ c.healthySince \in Times
    BY <2>1, FallbackAssumption DEF TypeOK
  <2>3. CASE c.healthySince = None
    BY <2>1, <2>2, <2>3 DEF StopBound
  <2>4. CASE c.healthySince # None
    BY <2>1, <2>2, <2>4 DEF StopBound, Times, None
  <2> QED
    BY <2>3, <2>4
<1> QED
  BY <1>1, BoundsInvariance, PTL
=============================================================================

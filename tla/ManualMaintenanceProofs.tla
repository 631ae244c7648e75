---------------------- MODULE ManualMaintenanceProofs ----------------------
(***************************************************************************)
(* Proofs about the maintenance session: for every stability window, gap,  *)
(* number of sessions and of faults, and with helpers that linger or not, a*)
(* session sends each effect at most once, earns its return, and implements*)
(* the ladder (MaintenanceLadder).                                         *)
(*                                                                         *)
(* IInv is needed because each of these depends on what a request that is  *)
(* still on its way may do: it is always of the one effect that is recorded*)
(* unresolved, which holds the session where it is.                        *)
(***************************************************************************)
EXTENDS ManualMaintenance, TLAPS

Unknown(e) == effects[e] \in {"PENDING", "OUTCOME_UNKNOWN"}

Media == {"arm_slate", "source_stop", "source_resume", "restore_path"}
EnteringEffects == {"quiesce", "arm_slate", "source_stop"}

\* Where a step of a command can be taken.
PhaseOf(step) ==
  IF step \in {"archive", "open"} THEN {"NORMAL"}
  ELSE IF step \in {"quiesce", "arm_slate", "await_live", "source_stop", "await_slate"}
  THEN {"PREPARING"}
  ELSE IF step = "confirm" THEN {"AWAITING_SLATE_CONFIRMATION", "MAINTENANCE"}
  ELSE IF step = "resume" THEN Entering \cup {"RESUMING"}
  ELSE IF step \in {"source_resume", "live_again", "restore_path", "live_restored"}
  THEN {"RESUMING"}
  ELSE IF step \in {"verify", "complete"} THEN {"VERIFYING", "RESTORING"}
  ELSE {"RESTORING"}

\* The source is up, and no request can take it down.
SourceUp ==
  main = 1 /\ (effects["source_stop"] = "none" \/ effects["source_resume"] = "APPLIED")

PathBack ==
  path = "found" /\ (effects["arm_slate"] = "none" \/ effects["restore_path"] = "APPLIED")

\* A command that runs has no unknown effect but the one it is at.
CliInv ==
  /\ cli.pc = "idle" => cli = Idle
  /\ cli.pc = "run" => NoUnknown
  /\ cli.pc \in {"intended", "sent"} =>
       /\ cli.at \in Effects /\ effects[cli.at] = "PENDING"
       /\ \A e \in Effects \ {cli.at} : ~Unknown(e)
  /\ cli.pc = "intended" /\ cli.at \in Media =>
       ~Applied(cli.at) /\ request[cli.at] \in Over
  /\ cli.pc # "idle" => phase \in PhaseOf(cli.at)
  /\ cli.at \in {"await_live", "source_stop", "await_slate"} =>
       effects["arm_slate"] = "APPLIED"
  /\ cli.at \in {"restore_path", "live_restored"} => SourceUp

\* The phases, and the order of the effects.
OrderInv ==
  /\ \A e, f \in Effects : Unknown(e) /\ Unknown(f) => e = f
  /\ phase \in Entering => \A e \in Effects \ EnteringEffects : effects[e] = "none"
  /\ phase \in Returning => \A e \in EnteringEffects : ~Unknown(e)
  /\ phase \in {"NORMAL", "VERIFYING", "RESTORING"} =>
       SourceUp /\ PathBack /\ \A e \in Media : ~Unknown(e)
  /\ effects["source_stop"] # "none" => effects["arm_slate"] = "APPLIED"
  /\ effects["source_resume"] # "none" => effects["source_stop"] = "APPLIED"
  /\ effects["restore_path"] # "none" => effects["arm_slate"] = "APPLIED" /\ SourceUp

\* What the plant shows of the effects: a request on its way is of an unknown effect
\* that is not applied yet.
PlantInv ==
  /\ \A e \in Media : request[e] \notin Over =>
       Unknown(e) /\ ~Applied(e) /\ request[e] = "sent"
  /\ effects["arm_slate"] = "none" => path = "found"
  /\ effects["arm_slate"] = "APPLIED" /\ effects["restore_path"] = "none" => path = "armed"
  /\ effects["restore_path"] = "APPLIED" => path = "found"
  /\ effects["source_stop"] = "none" => main = 1
  /\ effects["source_stop"] = "APPLIED" /\ effects["source_resume"] = "none" => main = 0
  /\ effects["source_resume"] = "APPLIED" => main = 1

\* The window is no longer than the connection has lasted.
WindowInv ==
  /\ ~stability.known => stability.length = 0
  /\ stability.known /\ stability.age <= MAX_GAP => stability.length <= steady

\* What was not intended was not sent.
SentInv ==
  \A e \in Effects :
    /\ sent[e] <= 1
    /\ effects[e] = "none" \/ cli = [pc |-> "intended", at |-> e] => sent[e] = 0

IInv == TypeOK /\ CliInv /\ OrderInv /\ PlantInv /\ WindowInv /\ SentInv

-----------------------------------------------------------------------------
(* What each step keeps.                                                   *)

\* OpenSession: the new session has the types of an old one.
LEMMA OpenTypes == TypeOK /\ OpenSession => TypeOK'
<1>. SUFFICES ASSUME TypeOK, OpenSession PROVE TypeOK'
  OBVIOUS
<1>1. /\ effects' \in [Effects -> {"none", "PENDING", "APPLIED", "OUTCOME_UNKNOWN"}]
      /\ sent' \in [Effects -> Nat] /\ sessions' \in Nat
  BY DEF TypeOK, OpenSession
<1>2. /\ timer' \in [enabled : BOOLEAN, active : BOOLEAN]
      /\ before' \in [enabled : BOOLEAN, active : BOOLEAN]
  BY DEF TypeOK, OpenSession, plant
<1>3. /\ stability' \in [known : BOOLEAN, age : Nat, length : Nat]
      /\ stability'.age = 0 /\ stability'.length = 0
  BY DEF OpenSession, NoStability
<1>4. cli' \in [pc : {"idle", "run", "intended", "sent"}, at : Places]
  BY DEF OpenSession, Goto, Places, Effects
<1>5. /\ main' \in {0, 1} /\ path' \in {"found", "armed"}
      /\ request' \in [Effects -> Over \cup {"sent", "disabled", "stopped", "enabled"}]
      /\ steady' \in 0 .. STABLE_SECONDS /\ faults' \in Nat
  BY DEF TypeOK, OpenSession, plant
<1>6. service' \in BOOLEAN /\ busy' \in BOOLEAN /\ archived' \in BOOLEAN
  BY Zenon DEF TypeOK, OpenSession, plant
<1>7. phase' = "PREPARING"
  BY DEF OpenSession
<1>. QED
  BY <1>1, <1>2, <1>3, <1>4, <1>5, <1>6, <1>7, MaintenanceAssumption DEF TypeOK,
     Entering

\* Quiesce (the helper's systemctl disable and stop): its types.
LEMMA QuiesceTypes == TypeOK /\ Quiesce => TypeOK'
<1>. SUFFICES ASSUME TypeOK, Quiesce PROVE TypeOK'
  OBVIOUS
<1>1. \E a, b \in BOOLEAN : timer' = [enabled |-> a, active |-> b]
  <2>1. /\ timer.enabled \in BOOLEAN /\ timer.active \in BOOLEAN
        /\ timer = [enabled |-> timer.enabled, active |-> timer.active]
    BY DEF TypeOK
  <2>. QED
    BY <2>1, Zenon DEF Quiesce
<1>2. service' \in BOOLEAN
  BY Zenon DEF TypeOK, Quiesce
<1>3. request' \in [Effects -> Over \cup {"sent", "disabled", "stopped", "enabled"}]
  BY DEF TypeOK, Quiesce, Helped, Over
<1>4. UNCHANGED <<saved, cli, sent, steady, faults, main, path, busy>>
  BY DEF Quiesce, Helped
<1>. QED
  BY <1>1, <1>2, <1>3, <1>4 DEF TypeOK, saved, NoUnknown

\* RestoreUnits (the helper's systemctl enable and start): its types.
LEMMA RestoreTypes == TypeOK /\ RestoreUnits => TypeOK'
<1>. SUFFICES ASSUME TypeOK, RestoreUnits PROVE TypeOK'
  OBVIOUS
<1>1. \E a, b \in BOOLEAN : timer' = [enabled |-> a, active |-> b]
  <2>1. /\ timer.enabled \in BOOLEAN /\ timer.active \in BOOLEAN
        /\ \A units \in Carried : units.enabled \in BOOLEAN
    BY DEF TypeOK, Carried
  <2>. QED
    BY <2>1, Zenon DEF RestoreUnits
<1>2. request' \in [Effects -> Over \cup {"sent", "disabled", "stopped", "enabled"}]
  BY DEF TypeOK, RestoreUnits, Helped, Over
<1>3. UNCHANGED <<saved, cli, sent, steady, faults, main, path, service, busy>>
  BY DEF RestoreUnits, Helped
<1>. QED
  BY <1>1, <1>2, <1>3 DEF TypeOK, saved, NoUnknown

\* Recovery (the timer's service and its effects): its types.
LEMMA RecoveryTypes == TypeOK /\ Recovery => TypeOK'
<1>. SUFFICES ASSUME TypeOK, Recovery PROVE TypeOK'
  OBVIOUS
<1>1. service' \in BOOLEAN /\ busy' \in BOOLEAN
  BY Zenon DEF TypeOK, Recovery
<1>. QED
  BY <1>1 DEF TypeOK, Recovery, saved, NoUnknown

\* DellReboots (the units come up as enabled): its types.
LEMMA RebootTypes == TypeOK /\ DellReboots => TypeOK'
<1>. SUFFICES ASSUME TypeOK, DellReboots PROVE TypeOK'
  OBVIOUS
<1>1. timer' \in [enabled : BOOLEAN, active : BOOLEAN]
  BY DEF TypeOK, DellReboots
<1>2. request' \in [Effects -> Over \cup {"sent", "disabled", "stopped", "enabled"}]
  BY DEF TypeOK, DellReboots, Over
<1>3. /\ stability' \in [known : BOOLEAN, age : Nat, length : Nat]
      /\ stability'.age <= MAX_GAP + 1 /\ stability'.length = stability.length
  BY MaintenanceAssumption DEF TypeOK, DellReboots, Disconnected
<1>4. cli' \in [pc : {"idle", "run", "intended", "sent"}, at : Places]
  BY DEF DellReboots, Idle, Places
<1>5. /\ service' = FALSE /\ steady' = 0 /\ faults' = faults + 1
      /\ UNCHANGED <<phase, effects, before, sessions, archived, sent, main, path, busy>>
  BY DEF DellReboots
<1>6. steady' \in 0 .. STABLE_SECONDS /\ faults' \in Nat
  BY <1>5, MaintenanceAssumption DEF TypeOK
<1>. QED
  BY <1>1, <1>2, <1>3, <1>4, <1>5, <1>6 DEF TypeOK, NoUnknown

\* Every step of a command, a helper or a host keeps the type invariant.
LEMMA TypeStep == IInv /\ [Next]_vars => TypeOK'
<1>. SUFFICES ASSUME IInv, [Next]_vars PROVE TypeOK'
  OBVIOUS
<1>. TypeOK /\ CliInv /\ OrderInv /\ PlantInv /\ WindowInv /\ SentInv
  BY DEF IInv
<1>. USE MaintenanceAssumption DEF TypeOK, Returning, Entering, NoUnknown, Effects,
   Over, Places, Steps
<1>1. CASE UNCHANGED vars
  BY <1>1 DEF vars, saved, plant
<1>2. CASE Begin
  BY <1>2 DEF Begin, Idle, plant, Goto, saved
<1>3. CASE Archive
  BY <1>3 DEF Archive, plant, At, Goto
<1>4. CASE OpenSession
  BY <1>4, OpenTypes
<1>5. ASSUME NEW step \in Steps, Start(step) PROVE TypeOK'
  BY <1>5 DEF Start, Idle, plant, Goto, saved
<1>6. CASE AwaitLive
  BY <1>6 DEF AwaitLive, plant, At, Goto, saved
<1>7. CASE AwaitSlate
  BY <1>7 DEF CliInv, SourceUp, Media, Idle, Unknown, PhaseOf, AwaitSlate, SetPhase,
     plant, At, Goto
<1>8. CASE ConfirmSlate
  BY <1>8 DEF CliInv, SourceUp, Media, Idle, Unknown, PhaseOf, ConfirmSlate, SetPhase,
     plant, At
<1>9. CASE Resume
  BY <1>9 DEF Resume, SetPhase, plant, At, Goto
<1>10. CASE LiveAgain
  BY <1>10 DEF LiveAgain, plant, At, Goto, saved
<1>11. CASE LiveRestored
  BY <1>11 DEF CliInv, SourceUp, Media, Idle, Unknown, PhaseOf, LiveRestored,
     NoStability, SetPhase, plant, At, Goto
<1>12. CASE BadSample
  BY <1>12 DEF BadSample, NoStability, plant, Idle, At
<1>13. CASE Verify
  BY <1>13 DEF Verify, plant, Goto, NextStability, At
<1>14. CASE Complete
  BY <1>14 DEF Complete, plant, Idle, Goto, NextStability, At
<1>15. CASE CloseSession
  BY <1>15 DEF CliInv, SourceUp, Media, Idle, Unknown, PhaseOf, CloseSession, SetPhase,
     plant, At
<1>16. ASSUME NEW e \in Effects, SkipEffect(e) PROVE TypeOK'
  BY <1>16 DEF SkipEffect, plant, At, Goto, saved, After
<1>17. ASSUME NEW e \in Effects, Intend(e) PROVE TypeOK'
  BY <1>17 DEF CliInv, SourceUp, Media, Idle, Unknown, PhaseOf, Intend, Record, plant,
     At
<1>18. ASSUME NEW e \in Effects, Send(e) PROVE TypeOK'
  BY <1>18 DEF Send, plant, saved
<1>19. ASSUME NEW e \in Effects, Confirm(e) PROVE TypeOK'
  BY <1>19 DEF Confirm, Record, plant, Goto, After
<1>20. ASSUME NEW e \in Effects, GiveUp(e) PROVE TypeOK'
  BY <1>20 DEF CliInv, SourceUp, Media, Idle, Unknown, PhaseOf, GiveUp, Record, plant
<1>21. CASE Reconcile
  BY <1>21 DEF Reconcile, plant
<1>22. CASE Leave
  BY <1>22 DEF Leave, Idle, plant, saved
<1>23. CASE Kill
  BY <1>23 DEF Kill, plant, Idle, saved
<1>24. CASE Quiesce
  BY <1>24, QuiesceTypes
<1>25. CASE RestoreUnits
  BY <1>25, RestoreTypes
<1>26. ASSUME NEW e \in Effects, Refuse(e) PROVE TypeOK'
  BY <1>26 DEF Refuse, Helped, saved, plant
<1>27. ASSUME NEW e \in Effects, Patch(e) PROVE TypeOK'
  BY <1>27 DEF Patch, Helped, saved
<1>28. ASSUME NEW e \in Effects, ScaleMain(e) PROVE TypeOK'
  BY <1>28 DEF ScaleMain, Helped, saved
<1>29. ASSUME NEW e \in Effects, Lose(e) PROVE TypeOK'
  BY <1>29 DEF Lose, plant, saved
<1>30. CASE Recovery
  BY <1>30, RecoveryTypes
<1>31. CASE DellReboots
  BY <1>31, RebootTypes
<1>32. CASE Reconnects
  BY <1>32 DEF Reconnects, plant, Disconnected
<1>33. CASE Tick
  BY <1>33 DEF Tick, plant, UpTo
<1>. QED
  BY <1>1, <1>2, <1>3, <1>4, <1>5, <1>6, <1>7, <1>8, <1>9, <1>10, <1>11, <1>12, <1>13,
      <1>14, <1>15, <1>16, <1>17, <1>18, <1>19, <1>20, <1>21, <1>22, <1>23, <1>24,
     <1>25, <1>26, <1>27, <1>28, <1>29, <1>30, <1>31, <1>32, <1>33 DEF Next, CliStep,
         HelperStep

\* A step keeps what is known where a command is: what the command found when it took
\* its lock (Start) still holds when it acts on it.
LEMMA CliStepKept == IInv /\ [Next]_vars => CliInv'
<1>. SUFFICES ASSUME IInv, [Next]_vars PROVE CliInv'
  OBVIOUS
<1>. TypeOK /\ CliInv /\ OrderInv /\ PlantInv /\ WindowInv /\ SentInv
  BY DEF IInv
<1>. USE DEF CliInv, Over, SourceUp, Media, Idle, NoUnknown, Effects, Unknown, Applied,
   Quiet, PhaseOf, Entering
<1>1. CASE UNCHANGED <<cli, effects, phase, request, main, path>>
  BY <1>1
<1>2. CASE Begin
  BY <1>2 DEF TypeOK, Begin, plant, Goto, saved
<1>3. CASE Archive
  BY <1>3 DEF Archive, plant, At, Goto
<1>4. CASE OpenSession
  BY <1>4 DEF OpenSession, NoStability, plant, Goto, At
<1>5. ASSUME NEW step \in Steps, Start(step) PROVE CliInv'
  BY <1>5 DEF Start, Stages, plant, Goto, saved
<1>6. CASE AwaitLive
  BY <1>6 DEF AwaitLive, plant, At, Goto, saved
<1>7. CASE AwaitSlate
  BY <1>7 DEF AwaitSlate, SetPhase, plant, At, Goto
<1>8. CASE ConfirmSlate
  BY <1>8 DEF ConfirmSlate, SetPhase, plant
<1>9. CASE Resume
  BY <1>9 DEF Resume, SetPhase, plant, At, Goto
<1>10. CASE LiveAgain
  BY <1>10 DEF PlantInv, LiveAgain, plant, Live, Bound, At, Goto, saved
<1>11. CASE LiveRestored
  BY <1>11 DEF LiveRestored, NoStability, SetPhase, plant, At, Goto
<1>12. CASE BadSample
  BY <1>12 DEF BadSample, plant
<1>13. CASE Verify
  BY <1>13 DEF Verify, plant, Goto, NextStability, At
<1>14. CASE Complete
  BY <1>14 DEF Complete, plant, Goto, NextStability, At
<1>15. CASE CloseSession
  BY <1>15 DEF CloseSession, SetPhase, plant
<1>16. ASSUME NEW e \in Effects, SkipEffect(e) PROVE CliInv'
  BY <1>16 DEF SkipEffect, Bound, Needed, plant, At, Goto, saved, After
<1>17. ASSUME NEW e \in Effects, Intend(e) PROVE CliInv'
  BY <1>17 DEF TypeOK, Returning, Places, Steps, PlantInv, Intend, Bound, Needed,
     Record, plant, At
<1>18. ASSUME NEW e \in Effects, Send(e) PROVE CliInv'
  BY <1>18 DEF Send, plant, saved
<1>19. ASSUME NEW e \in Effects, Confirm(e) PROVE CliInv'
  BY <1>19 DEF TypeOK, Confirm, Record, plant, Goto, After
<1>20. ASSUME NEW e \in Effects, GiveUp(e) PROVE CliInv'
  BY <1>20 DEF GiveUp, Record, plant
<1>21. CASE Reconcile
  BY <1>21 DEF Reconcile, plant
<1>22. CASE Leave
  BY <1>22 DEF Leave, plant, saved
<1>23. CASE Kill
  BY <1>23 DEF Kill, plant, saved
<1>24. CASE Quiesce
  BY <1>24 DEF TypeOK, Quiesce, Helped, saved
<1>25. CASE RestoreUnits
  BY <1>25 DEF TypeOK, RestoreUnits, Helped, saved
<1>26. ASSUME NEW e \in Effects, Refuse(e) PROVE CliInv'
  BY <1>26 DEF Refuse, Helped, saved, plant
<1>27. ASSUME NEW e \in Effects, Patch(e) PROVE CliInv'
  BY <1>27 DEF Patch, Helped, saved
<1>28. ASSUME NEW e \in Effects, ScaleMain(e) PROVE CliInv'
  BY <1>28 DEF OrderInv, EnteringEffects, PathBack, PlantInv, ScaleMain, Helped, saved
<1>29. ASSUME NEW e \in Effects, Lose(e) PROVE CliInv'
  BY <1>29 DEF Lose, plant, saved
<1>30. CASE DellReboots
  BY <1>30 DEF DellReboots
<1>. QED
  BY <1>1, <1>2, <1>3, <1>4, <1>5, <1>6, <1>7, <1>8, <1>9, <1>10, <1>11, <1>12, <1>13,
      <1>14, <1>15, <1>16, <1>17, <1>18, <1>19, <1>20, <1>21, <1>22, <1>23, <1>24,
     <1>25, <1>26, <1>27, <1>28, <1>29, <1>30 DEF Next, CliStep, HelperStep, vars,
         saved, plant, Recovery, Reconnects, Tick

\* A step keeps the order of the effects.
LEMMA OrderStep == IInv /\ [Next]_vars => OrderInv'
<1>. SUFFICES ASSUME IInv, [Next]_vars PROVE OrderInv'
  OBVIOUS
<1>. TypeOK /\ CliInv /\ OrderInv /\ PlantInv /\ WindowInv /\ SentInv
  BY DEF IInv
<1>. USE DEF OrderInv, Returning, EnteringEffects, PathBack, Media, Entering, SourceUp,
   Unknown, Effects
<1>1. CASE UNCHANGED <<effects, phase, main, path>>
  BY <1>1
<1>2. CASE OpenSession
  BY <1>2 DEF OpenSession, plant
<1>3. CASE AwaitSlate
  BY <1>3 DEF CliInv, Idle, NoUnknown, PhaseOf, AwaitSlate, SetPhase, plant, At, Goto
<1>4. CASE ConfirmSlate
  BY <1>4 DEF CliInv, Idle, NoUnknown, PhaseOf, ConfirmSlate, SetPhase, plant, At
<1>5. CASE Resume
  BY <1>5 DEF CliInv, Idle, NoUnknown, PhaseOf, Resume, SetPhase, plant, At, Goto
<1>6. CASE LiveRestored
  BY <1>6 DEF CliInv, Idle, NoUnknown, PhaseOf, PlantInv, LiveRestored, NoStability,
     SetPhase, plant, At, Goto
<1>7. CASE Complete
  BY <1>7 DEF CliInv, Idle, NoUnknown, PhaseOf, Complete, plant, Goto, NextStability, At
<1>8. CASE CloseSession
  BY <1>8 DEF CliInv, Idle, NoUnknown, PhaseOf, CloseSession, SetPhase, plant, At
<1>9. ASSUME NEW e \in Effects, Intend(e) PROVE OrderInv'
  BY <1>9 DEF TypeOK, NoUnknown, Over, Places, Steps, CliInv, Idle, Applied, Quiet,
     PhaseOf, PlantInv, Intend, Bound, Needed, Record, plant, At
<1>10. ASSUME NEW e \in Effects, Confirm(e) PROVE OrderInv'
  BY <1>10 DEF CliInv, NoUnknown, PhaseOf, Confirm, Record, plant
<1>11. ASSUME NEW e \in Effects, GiveUp(e) PROVE OrderInv'
  BY <1>11 DEF CliInv, NoUnknown, PhaseOf, GiveUp, Record, plant
<1>12. CASE Reconcile
  BY <1>12 DEF Reconcile, plant, NoUnknown
<1>13. ASSUME NEW e \in Effects, Patch(e) PROVE OrderInv'
  BY <1>13 DEF PlantInv, Over, Applied, Patch, Helped, saved
<1>14. ASSUME NEW e \in Effects, ScaleMain(e) PROVE OrderInv'
  BY <1>14 DEF PlantInv, Over, Applied, ScaleMain, Helped, saved
<1>. QED
  BY <1>1, <1>2, <1>3, <1>4, <1>5, <1>6, <1>7, <1>8, <1>9, <1>10, <1>11, <1>12, <1>13,
     <1>14 DEF Next, CliStep, HelperStep, vars, saved, plant, Begin, Archive, Start,
         AwaitLive, LiveAgain, BadSample, Verify, SkipEffect, Send, Leave, Kill,
         Quiesce, Helped, RestoreUnits, Refuse, Lose, Recovery, DellReboots, Reconnects,
         Tick

\* A step keeps the agreement of the recorded effects with the relay and the sender:
\* a request that is late is still the one of the effect that is not resolved (effect).
LEMMA PlantStep == IInv /\ [Next]_vars => PlantInv'
<1>. SUFFICES ASSUME IInv, [Next]_vars PROVE PlantInv'
  OBVIOUS
<1>. TypeOK /\ CliInv /\ OrderInv /\ PlantInv /\ WindowInv /\ SentInv
  BY DEF IInv
<1>. USE DEF PlantInv, Over, Media, Unknown, Applied, Quiet
<1>1. CASE UNCHANGED <<effects, request, main, path>>
  BY <1>1
<1>2. CASE OpenSession
  BY <1>2 DEF CliInv, SourceUp, Idle, NoUnknown, Effects, PhaseOf, Entering, OrderInv,
     Returning, EnteringEffects, PathBack, OpenSession, NoStability, plant, Goto, At
<1>3. ASSUME NEW e \in Effects, Intend(e) PROVE PlantInv'
  BY <1>3 DEF Intend, Record, plant, NoUnknown
<1>4. ASSUME NEW e \in Effects, Send(e) PROVE PlantInv'
  BY <1>4 DEF CliInv, SourceUp, NoUnknown, PhaseOf, Send, plant, saved
<1>5. ASSUME NEW e \in Effects, Confirm(e) PROVE PlantInv'
  BY <1>5 DEF Confirm, Record, plant
<1>6. ASSUME NEW e \in Effects, GiveUp(e) PROVE PlantInv'
  BY <1>6 DEF GiveUp, Record, plant
<1>7. CASE Reconcile
  BY <1>7 DEF TypeOK, Returning, Entering, NoUnknown, Effects, Places, Steps, Reconcile,
     plant, Idle
<1>8. CASE Quiesce
  BY <1>8 DEF TypeOK, Returning, Entering, NoUnknown, Effects, Places, Steps, Quiesce,
     Helped, saved
<1>9. CASE RestoreUnits
  BY <1>9 DEF TypeOK, Returning, Entering, NoUnknown, Effects, Places, Steps,
     RestoreUnits, Helped, saved
<1>10. ASSUME NEW e \in Effects, Refuse(e) PROVE PlantInv'
  BY <1>10 DEF Refuse, Helped, saved, plant
<1>11. ASSUME NEW e \in Effects, Patch(e) PROVE PlantInv'
  BY <1>11 DEF TypeOK, NoUnknown, OrderInv, EnteringEffects, PathBack, SourceUp, Patch,
     Helped, saved
<1>12. ASSUME NEW e \in Effects, ScaleMain(e) PROVE PlantInv'
  BY <1>12 DEF TypeOK, NoUnknown, OrderInv, EnteringEffects, PathBack, SourceUp,
     ScaleMain, Helped, saved
<1>13. ASSUME NEW e \in Effects, Lose(e) PROVE PlantInv'
  BY <1>13 DEF Lose, plant, saved
<1>14. CASE DellReboots
  BY <1>14 DEF DellReboots, Effects, Idle, Disconnected
<1>. QED
  BY <1>1, <1>2, <1>3, <1>4, <1>5, <1>6, <1>7, <1>8, <1>9, <1>10, <1>11, <1>12, <1>13,
     <1>14 DEF Next, CliStep, HelperStep, vars, saved, plant, Begin, Archive, Start,
         AwaitLive, AwaitSlate, SetPhase, ConfirmSlate, Resume, LiveAgain, LiveRestored,
         BadSample, Verify, Complete, CloseSession, SkipEffect, Leave, Kill, Recovery,
         Reconnects, Tick

\* A step keeps the window within the life of the connection (verification_sample).
LEMMA WindowStep == IInv /\ [Next]_vars => WindowInv'
<1>. SUFFICES ASSUME IInv, [Next]_vars PROVE WindowInv'
  OBVIOUS
<1>. TypeOK /\ CliInv /\ OrderInv /\ PlantInv /\ WindowInv /\ SentInv
  BY DEF IInv
<1>. USE MaintenanceAssumption DEF WindowInv
<1>1. CASE UNCHANGED <<stability, steady>>
  BY <1>1
<1>2. CASE OpenSession
  BY <1>2 DEF OpenSession, NoStability, plant, Goto, At
<1>3. CASE LiveRestored
  BY <1>3 DEF LiveRestored, NoStability, SetPhase, plant, At, Goto
<1>4. CASE BadSample
  BY <1>4 DEF BadSample, NoStability, plant, Idle, At
<1>5. CASE Verify
  BY <1>5 DEF TypeOK, Returning, Entering, NoUnknown, Effects, Over, Places, Steps,
     Verify, plant, GoodSample, Live, Bound, Quiet, Goto, NextStability, At
<1>6. CASE Complete
  BY <1>6 DEF TypeOK, Returning, Entering, NoUnknown, Effects, Over, Places, Steps,
     Complete, plant, GoodSample, Live, Bound, Quiet, Idle, Goto, NextStability, At
<1>7. CASE DellReboots
  BY <1>7 DEF DellReboots, Idle, Disconnected
<1>8. CASE Reconnects
  BY <1>8 DEF Reconnects, plant, Disconnected
<1>9. CASE Tick
  BY <1>9 DEF TypeOK, NoUnknown, Tick, plant, UpTo
<1>. QED
  BY <1>1, <1>2, <1>3, <1>4, <1>5, <1>6, <1>7, <1>8, <1>9 DEF Next, CliStep, HelperStep,
     vars, saved, plant, Begin, Archive, Start, AwaitLive, AwaitSlate, SetPhase,
     ConfirmSlate, Resume, LiveAgain, CloseSession, SkipEffect, Intend, Record, Send,
     Confirm, GiveUp, Reconcile, Leave, Kill, Quiesce, Helped, RestoreUnits, Refuse,
     Patch, ScaleMain, Lose, Recovery

\* A step sends only what was just intended, and what was never sent before (effect).
LEMMA SentStep == IInv /\ [Next]_vars => SentInv'
<1>. SUFFICES ASSUME IInv, [Next]_vars PROVE SentInv'
  OBVIOUS
<1>. TypeOK /\ CliInv /\ OrderInv /\ PlantInv /\ WindowInv /\ SentInv
  BY DEF IInv
<1>. USE DEF SentInv, Effects
<1>1. CASE UNCHANGED <<sent, effects, cli>>
  BY <1>1
<1>2. CASE Begin
  BY <1>2 DEF Begin, Idle, plant, Goto, saved
<1>3. CASE Archive
  BY <1>3 DEF Archive, plant, At, Goto
<1>4. CASE OpenSession
  BY <1>4 DEF OpenSession, plant
<1>5. ASSUME NEW step \in Steps, Start(step) PROVE SentInv'
  BY <1>5 DEF Start, Idle, NoUnknown, plant, Goto, saved
<1>6. CASE AwaitLive
  BY <1>6 DEF AwaitLive, plant, At, Goto, saved
<1>7. CASE AwaitSlate
  BY <1>7 DEF AwaitSlate, SetPhase, plant, At, Goto
<1>8. CASE ConfirmSlate
  BY <1>8 DEF ConfirmSlate, SetPhase, plant, Idle, At
<1>9. CASE Resume
  BY <1>9 DEF Resume, SetPhase, plant, At, Goto
<1>10. CASE LiveAgain
  BY <1>10 DEF LiveAgain, plant, At, Goto, saved
<1>11. CASE LiveRestored
  BY <1>11 DEF LiveRestored, NoStability, SetPhase, plant, At, Goto
<1>12. CASE BadSample
  BY <1>12 DEF BadSample, NoStability, plant, Idle, At
<1>13. CASE Verify
  BY <1>13 DEF Verify, plant, Goto, NextStability, At
<1>14. CASE Complete
  BY <1>14 DEF Complete, plant, Idle, Goto, NextStability, At
<1>15. CASE CloseSession
  BY <1>15 DEF CloseSession, SetPhase, plant, Idle, At
<1>16. ASSUME NEW e \in Effects, SkipEffect(e) PROVE SentInv'
  BY <1>16 DEF SkipEffect, plant, At, Goto, saved, After
<1>17. ASSUME NEW e \in Effects, Intend(e) PROVE SentInv'
  BY <1>17 DEF Intend, Record, plant, NoUnknown
<1>18. ASSUME NEW e \in Effects, Send(e) PROVE SentInv'
  BY <1>18 DEF CliInv, SourceUp, Media, NoUnknown, Unknown, PhaseOf, Send, plant, saved
<1>19. ASSUME NEW e \in Effects, Confirm(e) PROVE SentInv'
  BY <1>19 DEF Confirm, Record, plant, Goto, After
<1>20. ASSUME NEW e \in Effects, GiveUp(e) PROVE SentInv'
  BY <1>20 DEF GiveUp, Record, plant, Idle
<1>21. CASE Reconcile
  BY <1>21 DEF Reconcile, plant, NoUnknown
<1>22. CASE Leave
  BY <1>22 DEF Leave, Idle, plant, saved
<1>23. CASE Kill
  BY <1>23 DEF Kill, plant, Idle, saved
<1>24. CASE DellReboots
  BY <1>24 DEF DellReboots, Idle, Disconnected
<1>. QED
  BY <1>1, <1>2, <1>3, <1>4, <1>5, <1>6, <1>7, <1>8, <1>9, <1>10, <1>11, <1>12, <1>13,
     <1>14, <1>15, <1>16, <1>17, <1>18, <1>19, <1>20, <1>21, <1>22, <1>23, <1>24 DEF
         Next, CliStep, HelperStep, vars, saved, plant, Quiesce, Helped, RestoreUnits,
         Refuse, Patch, ScaleMain, Lose, Recovery, Reconnects, Tick

-----------------------------------------------------------------------------
(* The theorems.                                                           *)

\* Before the first session nothing is intended, sent or stopped.
LEMMA InitIInv == Init => IInv
<1>. SUFFICES ASSUME Init PROVE IInv
  OBVIOUS
<1>1. TypeOK
  <2>1. cli \in [pc : {"idle", "run", "intended", "sent"}, at : Places]
    BY DEF Init, Idle, Places
  <2>2. stability \in [known : BOOLEAN, age : Nat, length : Nat]
    BY DEF Init, NoStability
  <2>3. /\ timer \in [enabled : BOOLEAN, active : BOOLEAN]
        /\ before \in [enabled : BOOLEAN, active : BOOLEAN]
    BY DEF Init
  <2>4. archived \in BOOLEAN /\ service \in BOOLEAN /\ busy \in BOOLEAN
    BY Zenon DEF Init
  <2>5. /\ effects \in [Effects -> {"none", "PENDING", "APPLIED", "OUTCOME_UNKNOWN"}]
        /\ request \in [Effects -> Over \cup {"sent", "disabled", "stopped", "enabled"}]
        /\ sent \in [Effects -> Nat] /\ NoUnknown
    BY DEF Init, Over, NoUnknown
  <2>6. /\ phase = "NORMAL" /\ sessions \in Nat /\ steady \in 0 .. STABLE_SECONDS
        /\ faults \in Nat /\ main \in {0, 1} /\ path \in {"found", "armed"}
        /\ stability.age = 0 /\ stability.length = 0
    BY MaintenanceAssumption DEF Init, NoStability
  <2>. QED
    BY <2>1, <2>2, <2>3, <2>4, <2>5, <2>6, MaintenanceAssumption DEF TypeOK
<1>2. CliInv /\ OrderInv /\ PlantInv
  BY DEF Init, CliInv, OrderInv, PlantInv, Unknown, Idle, Entering, Returning, SourceUp,
     PathBack, Media, Over, Effects
<1>3. WindowInv /\ SentInv
  BY DEF Init, WindowInv, SentInv, NoStability, Idle
<1>. QED
  BY <1>1, <1>2, <1>3 DEF IInv

\* The agreement of the recorded effects, the running command, its requests and the
\* plant holds through every kill, reboot, lost request and command run again.
THEOREM Invariance == Spec => []IInv
<1>1. IInv /\ [Next]_vars => IInv'
  BY TypeStep, CliStepKept, OrderStep, PlantStep, WindowStep, SentStep DEF IInv
<1>. QED
  BY <1>1, InitIInv, PTL DEF Spec

\* The values are the code's, and a phase that ends a stage (AWAITING_SLATE_CONFIRMATION,
\* MAINTENANCE, VERIFYING, NORMAL) is on disk only with every effect applied.
THEOREM TypesHold == Spec => []TypeOK
<1>1. IInv => TypeOK
  BY DEF IInv
<1>. QED
  BY <1>1, Invariance, PTL

\* A session sends each of its effects at most once (effect, Store.save): the intent is
\* on disk first, and nothing, reconcile included, takes it back.
THEOREM SendsOnce == Spec => []SentOnce
<1>1. IInv => SentOnce
  BY DEF IInv, SentInv, SentOnce
<1>. QED
  BY <1>1, Invariance, PTL

\* The return is confirmed (complete) only when the connection has been unbroken for the
\* whole stability window.
THEOREM ReturnsAreEarned == Spec => ReturnEarned
<1>1. IInv /\ [Next]_vars =>
        [phase # "RESTORING" /\ phase' = "RESTORING" => steady >= STABLE_SECONDS]_vars
  <2>. SUFFICES ASSUME IInv, Next, phase # "RESTORING", phase' = "RESTORING"
                PROVE steady >= STABLE_SECONDS
    BY DEF vars, saved
  <2>1. Complete /\ stability.length >= STABLE_SECONDS
    BY SMTT(20) DEF Next, CliStep, HelperStep, saved, Begin, Archive, OpenSession,
       Start, AwaitLive, AwaitSlate, ConfirmSlate, SetPhase, Resume, LiveAgain,
       LiveRestored, BadSample, Verify, Complete, CloseSession, SkipEffect, Intend,
       Send, Confirm, GiveUp, Record, Reconcile, Leave, Kill, Quiesce, RestoreUnits,
       Refuse, Patch, ScaleMain, Helped, Lose, Recovery, DellReboots, Reconnects, Tick
  <2>. QED
    BY <2>1, MaintenanceAssumption DEF IInv, TypeOK, WindowInv, Complete, GoodSample
<1>. QED
  BY <1>1, Invariance, PTL DEF Spec, ReturnEarned

\* A step of the session is a step of the ladder, or none: a request acts on its host
\* (handle) only where the ladder allows its rung.
LEMMA LadderStep == IInv /\ [Next]_vars => [Ladder!Next]_(Ladder!vars)
<1>. SUFFICES ASSUME IInv, [Next]_vars PROVE [Ladder!Next]_(Ladder!vars)
  OBVIOUS
<1>. USE DEF Ladder!vars, Returning
<1>0. CASE UNCHANGED <<phase, path, main>>
  BY <1>0
<1>1. CASE OpenSession
  BY <1>1 DEF OpenSession, plant, Ladder!Next, Ladder!Open, IInv, CliInv, PhaseOf, At
<1>2. CASE AwaitSlate \/ ConfirmSlate
  BY <1>2 DEF AwaitSlate, ConfirmSlate, SetPhase, plant, IInv, CliInv, PhaseOf, At
<1>3. CASE Resume
  BY <1>3 DEF Resume, SetPhase, plant, IInv, CliInv, PhaseOf, At, Entering, Ladder!Next,
     Ladder!TurnAround
<1>4. CASE LiveRestored
  BY <1>4 DEF LiveRestored, SetPhase, plant, IInv, CliInv, PhaseOf, At
<1>5. CASE Complete
  BY <1>5 DEF Complete, plant, IInv, CliInv, PhaseOf, At
<1>6. CASE CloseSession
  BY <1>6 DEF CloseSession, SetPhase, plant, IInv, CliInv, PhaseOf, At, OrderInv,
     SourceUp, PathBack, Ladder!Next, Ladder!Close
<1>7. ASSUME NEW e \in Effects, Patch(e) PROVE [Ladder!Next]_(Ladder!vars)
  BY <1>7, SMTT(20) DEF Patch, Helped, saved, IInv, PlantInv, OrderInv, Media, Over,
     Unknown, Applied, SourceUp, PathBack, EnteringEffects, Effects, TypeOK, Entering,
     Accepts, Ladder!Next, Ladder!Arm, Ladder!Disarm
<1>8. ASSUME NEW e \in Effects, ScaleMain(e) PROVE [Ladder!Next]_(Ladder!vars)
  BY <1>8, SMTT(20) DEF ScaleMain, Helped, saved, IInv, PlantInv, OrderInv, Media, Over,
     Unknown, Applied, SourceUp, PathBack, EnteringEffects, Effects, TypeOK, Entering,
     Accepts, Ladder!Next, Ladder!Darken, Ladder!Lighten
<1>. QED
  BY <1>0, <1>1, <1>2, <1>3, <1>4, <1>5, <1>6, <1>7, <1>8, SMTT(20) DEF vars, saved,
     plant, Next, CliStep, HelperStep, Begin, Archive, Start, AwaitLive, LiveAgain,
     BadSample, SetPhase, Verify, SkipEffect, Intend, Send, Confirm, GiveUp, Record,
     Reconcile, Leave, Kill, Quiesce, RestoreUnits, Refuse, Helped, Lose, Recovery,
     DellReboots, Reconnects, Tick

\* The session implements the ladder: it never skips a rung, never climbs again once it
\* has turned around, and closes with the source up and the path as it was.
THEOREM LadderWalked == Spec => WalksTheLadder
<1>1. Init => Ladder!Init
  BY DEF Init, Ladder!Init, Returning
<1>. QED
  BY <1>1, LadderStep, Invariance, PTL DEF Spec, WalksTheLadder, Ladder!Spec

\* What the ladder promises by itself: nothing is dark that is not armed, nothing
\* armed or turned around that is not open.
Rungs ==
  /\ main = 0 => path = "armed"
  /\ path = "armed" \/ phase \in Returning => phase # "NORMAL"

\* The abstract ladder keeps its rungs, whatever implements it.
LEMMA LadderRungs == WalksTheLadder => []Rungs
<1>1. Ladder!Init => Rungs
  BY DEF Ladder!Init, Rungs
<1>2. Rungs /\ [Ladder!Next]_(Ladder!vars) => Rungs'
  BY DEF Rungs, Ladder!Next, Ladder!vars, Ladder!Open, Ladder!Arm, Ladder!Darken,
     Ladder!TurnAround, Ladder!Lighten, Ladder!Disarm, Ladder!Close
<1>. QED
  BY <1>1, <1>2, PTL DEF WalksTheLadder, Ladder!Spec

\* Behind the wait for the slate (wait_content) the source was stopped by this session,
\* not only seen away.
SlateInv ==
  /\ cli.at = "await_slate" => effects["source_stop"] = "APPLIED"
  /\ phase \in {"AWAITING_SLATE_CONFIRMATION", "MAINTENANCE"} =>
       effects["source_stop"] = "APPLIED"

\* A step keeps SlateInv: an applied effect stays applied until the next session.
LEMMA SlateStep == IInv /\ SlateInv /\ [Next]_vars => SlateInv'
<1>. SUFFICES ASSUME IInv, SlateInv, [Next]_vars PROVE SlateInv'
  OBVIOUS
<1>. TypeOK /\ CliInv
  BY DEF IInv
<1>. USE DEF SlateInv, Effects
<1>1. CASE /\ UNCHANGED <<effects, phase>>
           /\ cli' = cli \/ cli'.at # "await_slate"
  BY <1>1
<1>2. CASE OpenSession
  BY <1>2 DEF OpenSession, Goto
<1>3. CASE AwaitSlate \/ ConfirmSlate
  BY <1>3 DEF AwaitSlate, ConfirmSlate, SetPhase, CliInv, PhaseOf, At, Goto, Idle
<1>4. CASE Resume \/ LiveRestored \/ CloseSession
  BY <1>4 DEF Resume, LiveRestored, CloseSession, SetPhase, Goto, Idle
<1>5. CASE Complete
  BY <1>5 DEF Complete, Goto, Idle, At
<1>6. ASSUME NEW e \in Effects, SkipEffect(e) PROVE SlateInv'
  BY <1>6 DEF SkipEffect, Needed, After, Goto, saved
<1>7. ASSUME NEW e \in Effects, Confirm(e) PROVE SlateInv'
  BY <1>7 DEF Confirm, Record, After, Goto, TypeOK
<1>8. ASSUME NEW e \in Effects, Intend(e) PROVE SlateInv'
  BY <1>8 DEF Intend, Record, TypeOK
<1>9. ASSUME NEW e \in Effects, GiveUp(e) PROVE SlateInv'
  BY <1>9 DEF GiveUp, Record, Idle, CliInv, TypeOK
<1>10. CASE Reconcile
  BY <1>10 DEF Reconcile
<1>. QED
  BY <1>1, <1>2, <1>3, <1>4, <1>5, <1>6, <1>7, <1>8, <1>9, <1>10, SMTT(20)
     DEF Next, CliStep, HelperStep, vars, saved, plant, Idle, Goto, Begin, Archive, Start,
         Steps, AwaitLive, LiveAgain, BadSample, Verify, Send, Leave, Kill, Quiesce,
         RestoreUnits, Refuse, Patch, ScaleMain, Helped, Lose, Recovery, DellReboots,
         Reconnects, Tick

\* What the phase on disk says of the stream is so, with helpers that linger or not: the
\* slate is on while the session waits for it or is in maintenance, the source is back
\* once the return is verified, and the stream is covered in between.
THEOREM PhasesAreHonest == Spec => []PhaseHonest
<1>1. Init => SlateInv
  BY DEF Init, SlateInv, Idle
<1>2. IInv /\ SlateInv /\ Rungs => PhaseHonest
  BY DEF IInv, SlateInv, Rungs, PhaseHonest, OrderInv, PlantInv, SourceUp, PathBack,
     Entering, EnteringEffects, Effects
<1>. QED
  BY <1>1, <1>2, SlateStep, LadderRungs, LadderWalked, Invariance, PTL DEF Spec

-----------------------------------------------------------------------------
(* The units: what needs that helpers do not linger.                       *)

\* quiesce precedes the slate and the stop, restore_units ends the return.
UnitOrder ==
  /\ effects["arm_slate"] # "none" => effects["quiesce"] = "APPLIED"
  /\ cli.at \in {"arm_slate", "await_live", "source_stop", "await_slate"} =>
       effects["quiesce"] = "APPLIED"
  /\ effects["restore_units"] # "none" => phase \in {"RESTORING", "NORMAL"}
  /\ cli.at = "close" => effects["restore_units"] = "APPLIED"

\* Where a request for the units can still be on its way: none is while a session is
\* opened, and that for quiesce has ended before the window began to grow.
UnitRequests ==
  /\ cli.at \in {"archive", "open"} => \A e \in Effects : request[e] \in Over
  /\ request["restore_units"] \notin Over => phase \in {"RESTORING", "NORMAL"}
  /\ request["quiesce"] \notin Over =>
       \/ phase \in Entering \cup {"RESUMING"}
       \/ phase = "VERIFYING" /\ stability.length = 0

\* The units are down from the intent to stop the source to the return, and as they
\* were found once restored.
UnitInv ==
  /\ effects["source_stop"] # "none" /\ phase \notin {"NORMAL", "RESTORING"} =>
       Quiet /\ ~busy
  /\ effects["restore_units"] = "APPLIED" => timer.enabled = before.enabled
  /\ phase = "NORMAL" => timer.enabled = before.enabled

QuietInv == UnitOrder /\ UnitRequests /\ UnitInv

\* A step keeps the order of the unit effects (effect, in enter_session and the return).
LEMMA UnitOrderStep == IInv /\ QuietInv /\ [Next]_vars => UnitOrder'
<1>. SUFFICES ASSUME IInv, QuietInv, [Next]_vars PROVE UnitOrder'
  OBVIOUS
<1>. TypeOK /\ CliInv /\ OrderInv /\ UnitOrder
  BY DEF IInv, QuietInv
<1>. USE DEF UnitOrder, Effects
<1>1. CASE UNCHANGED <<cli, effects, phase>>
  BY <1>1
<1>2. CASE UNCHANGED <<effects, phase>> /\ cli'.at \in Steps \cup {"none", "archive", "open"}
  BY <1>2 DEF Steps
<1>3. CASE OpenSession
  BY <1>3 DEF OpenSession, Goto
<1>4. CASE AwaitLive \/ AwaitSlate \/ LiveAgain
  BY <1>4 DEF AwaitLive, AwaitSlate, LiveAgain, SetPhase, At, Goto, saved, CliInv, PhaseOf,
     NoUnknown, OrderInv, Entering, EnteringEffects
<1>5. CASE ConfirmSlate \/ Resume \/ LiveRestored \/ CloseSession
  BY <1>5 DEF ConfirmSlate, Resume, LiveRestored, CloseSession, SetPhase, At, Goto, Idle,
     CliInv, PhaseOf, OrderInv, Entering, EnteringEffects
<1>6. CASE BadSample \/ Verify \/ Complete
  BY <1>6 DEF BadSample, Verify, Complete, At, Goto, Idle
<1>7. ASSUME NEW e \in Effects, SkipEffect(e) PROVE UnitOrder'
  BY <1>7 DEF SkipEffect, At, Goto, saved, After, Needed
<1>8. ASSUME NEW e \in Effects, Intend(e) PROVE UnitOrder'
  BY <1>8 DEF Intend, Record, At, CliInv, PhaseOf, TypeOK
<1>9. ASSUME NEW e \in Effects, Send(e) PROVE UnitOrder'
  BY <1>9 DEF Send, saved
<1>10. ASSUME NEW e \in Effects, Confirm(e) PROVE UnitOrder'
  BY <1>10 DEF Confirm, Record, Goto, After, CliInv, PhaseOf, TypeOK
<1>11. ASSUME NEW e \in Effects, GiveUp(e) PROVE UnitOrder'
  BY <1>11 DEF GiveUp, Record, Idle, CliInv, PhaseOf, TypeOK
<1>12. CASE Reconcile
  BY <1>12 DEF Reconcile
<1>. QED
  BY <1>1, <1>2, <1>3, <1>4, <1>5, <1>6, <1>7, <1>8, <1>9, <1>10, <1>11, <1>12, SMTT(20)
     DEF Next, CliStep, HelperStep, vars, saved, Begin, Archive, Start, Goto, Idle, Leave,
         Kill, Quiesce, Helped, RestoreUnits, Refuse, Patch, ScaleMain, Lose, Recovery,
         DellReboots, Reconnects, Tick, Steps

\* A step keeps what can be on its way (begin's preflight, the helper's 25 seconds).
LEMMA UnitRequestsStep ==
  ASSUME ~Lingering, IInv, QuietInv, [Next]_vars
  PROVE  UnitRequests'
<1>. TypeOK /\ CliInv /\ UnitOrder /\ UnitRequests
  BY DEF IInv, QuietInv
<1>. USE DEF UnitRequests, Effects, Over
<1>1. CASE UNCHANGED <<cli, request, phase, stability>>
  BY <1>1
<1>2. CASE Begin
  BY <1>2 DEF Begin, Lingers, Goto, saved
<1>3. CASE /\ UNCHANGED <<request, phase, stability>>
           /\ cli'.at \notin {"archive", "open"} \/ At("archive")
  BY <1>3 DEF At
<1>4. CASE OpenSession
  BY <1>4 DEF OpenSession, At, Goto
<1>5. CASE AwaitSlate \/ ConfirmSlate \/ Resume \/ LiveRestored \/ CloseSession
  BY <1>5 DEF AwaitSlate, ConfirmSlate, Resume, LiveRestored, CloseSession, SetPhase, At,
     Goto, Idle, CliInv, PhaseOf, NoStability, Entering
<1>6. CASE BadSample \/ Verify
  BY <1>6 DEF BadSample, Verify, At, Goto, Idle, NoStability, NextStability
<1>7. CASE Complete
  BY <1>7, MaintenanceAssumption DEF Complete, At, Goto, Idle, NextStability, TypeOK,
     CliInv, PhaseOf, Entering
<1>8. ASSUME NEW e \in Effects, Send(e) PROVE UnitRequests'
  BY <1>8 DEF Send, saved, CliInv, PhaseOf, Entering
<1>9. ASSUME NEW e \in Effects, Lose(e) \/ Refuse(e) \/ Patch(e) \/ ScaleMain(e)
      PROVE  UnitRequests'
  BY <1>9 DEF Lose, Refuse, Patch, ScaleMain, Helped, saved, TypeOK
<1>10. CASE Quiesce \/ RestoreUnits
  BY <1>10 DEF Quiesce, RestoreUnits, Helped, saved, TypeOK
<1>11. CASE DellReboots
  BY <1>11 DEF DellReboots, Idle, Disconnected, TypeOK
<1>12. CASE Reconnects
  BY <1>12 DEF Reconnects, Disconnected, Entering
<1>13. CASE Tick
  BY <1>13 DEF Tick, Lingers, Entering
<1>. QED
  BY <1>1, <1>2, <1>3, <1>4, <1>5, <1>6, <1>7, <1>8, <1>9, <1>10, <1>11, <1>12, <1>13,
     SMTT(20)
     DEF Next, CliStep, HelperStep, vars, saved, Archive, Start, Goto, Idle, Leave, At,
         Kill, Recovery, AwaitLive, LiveAgain, SkipEffect, After, Intend, Record, Confirm,
         GiveUp, Reconcile, Steps, Places

\* A step keeps the units as the session has them.
LEMMA UnitStep ==
  ASSUME ~Lingering, IInv, QuietInv, [Next]_vars
  PROVE  UnitInv'
<1>. TypeOK /\ CliInv /\ OrderInv /\ UnitOrder /\ UnitRequests /\ UnitInv
  BY DEF IInv, QuietInv
<1>. USE DEF UnitInv, Quiet, Effects
<1>1. CASE UNCHANGED <<effects, phase, timer, before, service, busy>>
  BY <1>1
<1>2. CASE OpenSession
  BY <1>2 DEF OpenSession, plant
<1>3. CASE AwaitSlate \/ ConfirmSlate \/ Resume \/ LiveRestored
  BY <1>3 DEF AwaitSlate, ConfirmSlate, Resume, LiveRestored, SetPhase, plant, At, CliInv,
     PhaseOf, Entering
<1>4. CASE Complete
  BY <1>4 DEF Complete, plant, At, CliInv, PhaseOf
<1>5. CASE CloseSession
  BY <1>5 DEF CloseSession, SetPhase, plant, At, UnitOrder
<1>6. ASSUME NEW e \in Effects, Intend(e) PROVE UnitInv'
  BY <1>6 DEF Intend, Record, plant, At, Bound, UnitOrder, CliInv, PhaseOf, TypeOK
<1>7. ASSUME NEW e \in Effects, Confirm(e) PROVE UnitInv'
  BY <1>7 DEF Confirm, Record, plant, Applied, CliInv, TypeOK
<1>8. ASSUME NEW e \in Effects, GiveUp(e) PROVE UnitInv'
  BY <1>8 DEF GiveUp, Record, plant, CliInv, TypeOK
<1>9. CASE Reconcile
  BY <1>9 DEF Reconcile, plant, Applied, TypeOK
<1>10. CASE Quiesce
  <2>1. /\ timer'.enabled = FALSE \/ timer'.enabled = timer.enabled
        /\ timer'.active = FALSE \/ timer'.active = timer.active
        /\ service' = FALSE \/ service' = service
        /\ UNCHANGED <<effects, phase, before, busy>>
    BY <1>10 DEF Quiesce, Helped, saved
  <2>2. request["quiesce"] \notin Over
    BY <1>10 DEF Quiesce, Over
  <2>3. phase \notin {"NORMAL", "RESTORING"}
    BY <2>2 DEF UnitRequests, Entering
  <2>. QED
    BY <2>1, <2>3 DEF UnitOrder
<1>11. CASE RestoreUnits
  <2>1. /\ timer'.enabled = before.enabled \/ timer'.enabled = timer.enabled
        /\ UNCHANGED <<effects, phase, before, service, busy>>
    BY <1>11 DEF RestoreUnits, Carried, Helped, saved
  <2>2. request["restore_units"] \notin Over
    BY <1>11 DEF RestoreUnits, Over
  <2>3. phase \in {"NORMAL", "RESTORING"}
    BY <2>2 DEF UnitRequests
  <2>. QED
    BY <2>1, <2>3
<1>12. CASE Recovery
  BY <1>12 DEF Recovery, saved
<1>13. CASE DellReboots
  BY <1>13 DEF DellReboots
<1>. QED
  BY <1>1, <1>2, <1>3, <1>4, <1>5, <1>6, <1>7, <1>8, <1>9, <1>10, <1>11, <1>12, <1>13,
     SMTT(20)
     DEF Next, CliStep, HelperStep, vars, saved, plant, Begin, Archive, Start, AwaitLive,
         LiveAgain, BadSample, Verify, SkipEffect, Send, Leave, Kill, Refuse, Patch,
         ScaleMain, Helped, Lose, Reconnects, Tick

LEMMA UnitsHold ==
  ASSUME ~Lingering
  PROVE  Spec => [](IInv /\ QuietInv)
<1>1. Init => QuietInv
  BY DEF Init, QuietInv, UnitOrder, UnitRequests, UnitInv, Idle, Effects, Over
<1>2. IInv /\ QuietInv /\ [Next]_vars => QuietInv'
  BY UnitOrderStep, UnitRequestsStep, UnitStep DEF QuietInv
<1>. QED
  BY <1>1, <1>2, Invariance, PTL DEF Spec

\* While the source is away the recovery timer and its service are down and nothing is
\* unresolved, however long ago, and by whichever command, quiesce was requested.
THEOREM RecoveryStaysQuiet ==
  ASSUME ~Lingering
  PROVE  Spec => []RecoveryQuiet
<1>1. IInv /\ QuietInv => RecoveryQuiet
  BY DEF IInv, QuietInv, UnitInv, RecoveryQuiet, TypeOK, PlantInv, OrderInv, SourceUp
<1>. QED
  BY <1>1, UnitsHold, PTL

\* A closed session leaves the sender, the relay's path and the timer as it found them.
THEOREM SessionsLeaveAsFound ==
  ASSUME ~Lingering
  PROVE  Spec => []LeavesAsFound
<1>1. IInv /\ QuietInv => LeavesAsFound
  BY DEF IInv, QuietInv, UnitInv, LeavesAsFound, OrderInv, SourceUp, PathBack
<1>. QED
  BY <1>1, UnitsHold, PTL

\* Once a session is closed no helper of it still changes the sender, the path or
\* whether the timer is enabled.
THEOREM NothingComesLate ==
  ASSUME ~Lingering
  PROVE  Spec => NothingLate
<1>1. IInv /\ QuietInv /\ [Next]_vars =>
        [phase = "NORMAL" => UNCHANGED <<main, path, timer.enabled>>]_vars
  <2>. SUFFICES ASSUME IInv, QuietInv, [Next]_vars, phase = "NORMAL"
                PROVE  UNCHANGED <<main, path, timer.enabled>>
    OBVIOUS
  <2>1. \A e \in Media : request[e] \in Over
    BY DEF IInv, OrderInv, PlantInv
  <2>2. /\ request["quiesce"] \in Over /\ timer.enabled = before.enabled
    BY DEF QuietInv, UnitRequests, UnitInv, Entering
  <2>3. ~Quiesce /\ \A e \in Effects : ~Patch(e) /\ ~ScaleMain(e)
    BY <2>1, <2>2 DEF Quiesce, Patch, ScaleMain, Over, Media
  <2>4. CASE RestoreUnits
    BY <2>2, <2>4 DEF RestoreUnits, Carried
  <2>5. CASE DellReboots
    BY <2>5 DEF DellReboots
  <2>. QED
    BY <2>3, <2>4, <2>5, SMTT(20)
       DEF Next, CliStep, HelperStep, vars, saved, plant, Begin, Archive, OpenSession, Start,
           AwaitLive, AwaitSlate, ConfirmSlate, SetPhase, Resume, LiveAgain, LiveRestored,
           BadSample, Verify, Complete, CloseSession, SkipEffect, Intend, Send, Confirm,
           GiveUp, Record, Reconcile, Leave, Kill, Refuse, Helped, Lose, Recovery,
           Reconnects, Tick
<1>. QED
  BY <1>1, UnitsHold, PTL DEF Spec, NothingLate
=============================================================================

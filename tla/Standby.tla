------------------------------ MODULE Standby ------------------------------
(***************************************************************************)
(* What the fallback controller promises of the backup sender, whatever it *)
(* observes, however often it dies, and whenever an operator opens a       *)
(* maintenance session: a start and a stop are each earned by evidence     *)
(* that held for long enough, a start belongs to a cause, nothing is       *)
(* started in a session, and the backup never flaps.                       *)
(***************************************************************************)
EXTENDS Integers

CONSTANTS
  Patience, \* how long the route must not progress before a start
  Trust,    \* how long it must progress before a stop
  Settle    \* how long it must progress alone before a cause is closed

VARIABLES
  now,
  backup,   \* the replicas of the backup sender
  moved,    \* when they were last changed
  open,     \* a maintenance session is open
  cause,    \* a cause is open
  quiet,    \* when the route was last seen to progress, or was inhibited
  broken,   \* when it was last not seen to progress, or was inhibited
  unsettled \* when it was last not seen to progress alone

vars == <<now, backup, moved, open, cause, quiet, broken, unsettled>>

Init ==
  /\ now = 0 /\ moved = 0 /\ quiet = 0 /\ broken = 0 /\ unsettled = 0
  /\ backup \in {0, 1} /\ open \in BOOLEAN /\ cause = FALSE
  /\ open => backup = 0

\* Evidence comes in, and opens a cause or closes it.
Observe ==
  /\ quiet' \in {quiet, now} /\ broken' \in {broken, now}
  /\ unsettled' \in {unsettled, now}
  /\ cause' \in BOOLEAN
  /\ cause /\ ~cause' => now - unsettled > Settle
  /\ UNCHANGED <<now, backup, moved, open>>

Start ==
  /\ backup = 0 /\ ~open /\ cause
  /\ now - quiet >= Patience /\ now - moved >= Patience
  /\ backup' = 1 /\ moved' = now
  /\ UNCHANGED <<now, open, cause, quiet, broken, unsettled>>

Stop ==
  /\ backup = 1 /\ ~open
  /\ now - broken > Trust /\ now - moved > Trust
  /\ backup' = 0 /\ moved' = now
  /\ UNCHANGED <<now, open, cause, quiet, broken, unsettled>>

Open ==
  /\ ~open /\ backup = 0
  /\ open' = TRUE
  /\ UNCHANGED <<now, backup, moved, cause, quiet, broken, unsettled>>

Close ==
  /\ open
  /\ open' = FALSE
  /\ UNCHANGED <<now, backup, moved, cause, quiet, broken, unsettled>>

Pass ==
  /\ now' > now
  /\ UNCHANGED <<backup, moved, open, cause, quiet, broken, unsettled>>

Next == Observe \/ Start \/ Stop \/ Open \/ Close \/ Pass

Spec == Init /\ [][Next]_vars
=============================================================================

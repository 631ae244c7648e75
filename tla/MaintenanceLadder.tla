------------------------- MODULE MaintenanceLadder -------------------------
(***************************************************************************)
(* What a maintenance session promises of the stream, whatever commands    *)
(* the operator runs, wherever they are killed, and however late their     *)
(* requests arrive: it walks up a ladder (open the session, arm the slate, *)
(* stop the source) and down again (start the source, restore the path,    *)
(* close the session), never skips a rung, and once it has turned around   *)
(* never climbs again.                                                     *)
(***************************************************************************)
VARIABLES
  open,      \* fallback is inhibited
  returning, \* the session has turned around
  armed,     \* the relay repeats the slate when the source is away
  dark       \* the source is stopped

vars == <<open, returning, armed, dark>>

Init == ~open /\ ~returning /\ ~armed /\ ~dark

Open == ~open /\ open' = TRUE /\ UNCHANGED <<returning, armed, dark>>

Arm ==
  /\ open /\ ~returning /\ ~armed
  /\ armed' = TRUE
  /\ UNCHANGED <<open, returning, dark>>

Darken ==
  /\ open /\ ~returning /\ armed /\ ~dark
  /\ dark' = TRUE
  /\ UNCHANGED <<open, returning, armed>>

TurnAround ==
  /\ open /\ ~returning
  /\ returning' = TRUE
  /\ UNCHANGED <<open, armed, dark>>

Lighten ==
  /\ returning /\ dark
  /\ dark' = FALSE
  /\ UNCHANGED <<open, returning, armed>>

Disarm ==
  /\ returning /\ armed /\ ~dark
  /\ armed' = FALSE
  /\ UNCHANGED <<open, returning, dark>>

Close ==
  /\ open /\ returning /\ ~armed /\ ~dark
  /\ open' = FALSE /\ returning' = FALSE
  /\ UNCHANGED <<armed, dark>>

Next == Open \/ Arm \/ Darken \/ TurnAround \/ Lighten \/ Disarm \/ Close

Spec == Init /\ [][Next]_vars
=============================================================================

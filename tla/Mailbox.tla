------------------------------ MODULE Mailbox ------------------------------
(***************************************************************************)
(* What the notification outbox promises of every message, whoever sends   *)
(* it, dies over it or comes too late: the receiver takes it at most once, *)
(* "delivered" is said only of a message that was taken, "refused" and     *)
(* another attempt only of one that was not, and once the outbox lost      *)
(* track of a message it says so for ever and never sends it again.        *)
(***************************************************************************)
EXTENDS Integers

CONSTANT Intents

VARIABLES
  status, \* what the outbox says of a message
  taken   \* how often the receiver took it

vars == <<status, taken>>

Init ==
  /\ status = [i \in Intents |-> "absent"]
  /\ taken = [i \in Intents |-> 0]

Become(i, s) == status' = [status EXCEPT ![i] = s] /\ UNCHANGED taken

\* A message for the outbox to send, or one only kept as a record.
Post(i) == status[i] = "absent" /\ Become(i, "waiting")
Shelve(i) == status[i] = "absent" /\ Become(i, "shelved")

Pick(i) == status[i] = "waiting" /\ Become(i, "sending")

\* A request that was sent may also arrive after the outbox lost track of it.
Take(i) ==
  /\ status[i] \in {"sending", "unknown"} /\ taken[i] = 0
  /\ taken' = [taken EXCEPT ![i] = 1]
  /\ UNCHANGED status

Deliver(i) == status[i] = "sending" /\ taken[i] = 1 /\ Become(i, "delivered")
Refuse(i) == status[i] = "sending" /\ taken[i] = 0 /\ Become(i, "refused")
PutBack(i) == status[i] = "sending" /\ taken[i] = 0 /\ Become(i, "waiting")

\* One cleanup may lose track of several messages at once.
LoseTracks ==
  \E L \in SUBSET Intents :
    /\ \A i \in L : status[i] = "sending"
    /\ status' = [i \in Intents |-> IF i \in L THEN "unknown" ELSE status[i]]
    /\ UNCHANGED taken

Next ==
  \/ LoseTracks
  \/ \E i \in Intents :
       \/ Post(i) \/ Shelve(i) \/ Pick(i) \/ Take(i)
       \/ Deliver(i) \/ Refuse(i) \/ PutBack(i)

Spec == Init /\ [][Next]_vars
=============================================================================

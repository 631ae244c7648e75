---------------------- MODULE NotificationOutboxProofs ----------------------
(***************************************************************************)
(* Proofs about NotificationOutbox, for every number of intents,           *)
(* dispatchers, attempts, epochs and faults, every lease and timeout, and  *)
(* every staleness of the clocks.                                          *)
(***************************************************************************)
EXTENDS NotificationOutbox, TLAPS

-----------------------------------------------------------------------------
(* The inductive invariant.  A promise about taken cannot be kept by looking *)
(* at the attempts alone: what a dispatcher that lost its lease still holds  *)
(* in hand must agree with them, and what it listed must still be due as     *)
(* long as its token is the newest.                                          *)

Unsettled == {"in_flight", "uncertain"}

\* A dispatcher between begin and finish has the latest attempt of its intent
\* in hand, in flight or already quarantined.
InHand ==
  \A d \in Dispatchers :
    /\ pc[d] \in {"renewed", "begun", "answered"} => cur[d] \in Intents
    /\ pc[d] \in {"begun", "answered"} =>
         tries[cur[d]] = no[d] /\ state[cur[d]] \in Unsettled

\* No two dispatchers have the same intent in hand.
Lone ==
  \A d, e \in Dispatchers :
    /\ pc[d] \in {"begun", "answered"} /\ pc[e] \in {"begun", "answered"}
    /\ cur[d] = cur[e]
    => d = e

\* What the provider has taken, by the state of the latest attempt and by what
\* the dispatcher that holds it knows.
TakenAgrees ==
  /\ \A i \in Intents :
       /\ state[i] = "succeeded" => taken[i] = 1
       /\ state[i] \in Unsettled => taken[i] \in {0, 1}
       /\ state[i] \notin Unsettled \cup {"succeeded"} => taken[i] = 0
  /\ \A d \in Dispatchers :
       /\ pc[d] = "begun" => taken[cur[d]] = 0
       /\ pc[d] = "answered" /\ answer[d] = "succeeded" => taken[cur[d]] = 1
       /\ pc[d] = "answered" /\ answer[d] \in {"retryable_failed", "permanent_failed"} =>
            taken[cur[d]] = 0

\* Only a failed attempt waits.
WaitsOnlyFailed ==
  \A i \in Intents : state[i] # "retryable_failed" => wait[i] = 0

\* An attempt recorded as ripe is still failed and ripe unless a later one began.
RipeStays ==
  \A d \in Dispatchers, i \in Intents, m \in Nat :
    <<i, m>> \in ripe[d] =>
      /\ m <= tries[i]
      /\ m = tries[i] => state[i] = "retryable_failed" /\ wait[i] = 0

Ready(i) ==
  /\ epochOf[i] # 0 /\ tries[i] < MaxAttempts /\ wait[i] = 0
  /\ state[i] \in {"none", "retryable_failed"}

\* What was listed with the newest token, or is about to begin, is still due.
ListFresh ==
  \A d \in Dispatchers : fence = d =>
      /\ \A i \in queue[d] : Ready(i)
      /\ pc[d] = "renewed" => Ready(cur[d])

\* Nothing is in hand outside an attempt, nothing listed before the loop, and
\* what is in hand is listed no longer.
QueueApart ==
  \A d \in Dispatchers :
    /\ pc[d] \in {"idle", "acquired", "swept"} => queue[d] = {}
    /\ pc[d] \in {"idle", "acquired", "swept", "loop"} => cur[d] = None
    /\ cur[d] \notin queue[d]

IInv ==
  /\ TypeOK /\ InHand /\ Lone /\ TakenAgrees /\ WaitsOnlyFailed /\ RipeStays
  /\ ListFresh /\ QueueApart

-----------------------------------------------------------------------------
(* Preservation *)

\* IInv is inductive: an action by action account, by conjunct.
THEOREM Inductive == IInv /\ [Next]_vars => IInv'
<1> SUFFICES ASSUME IInv, [Next]_vars PROVE IInv'
  OBVIOUS
<1> USE OutboxAssumption
<1> USE DEF vars, lease, dispatch, attempt, States, Blocking, Answers, Unsettled
<1>1. CASE UNCHANGED vars
  <2>1. TypeOK'
    BY <1>1 DEF IInv, TypeOK
  <2>2. InHand'
    BY <1>1 DEF IInv, InHand, TypeOK
  <2>3. Lone'
    BY <1>1 DEF IInv, Lone, TypeOK
  <2>4. TakenAgrees'
    BY <1>1 DEF IInv, TakenAgrees, TypeOK
  <2>5. WaitsOnlyFailed'
    BY <1>1 DEF IInv, WaitsOnlyFailed, TypeOK
  <2>6. RipeStays'
    BY <1>1 DEF IInv, RipeStays, TypeOK
  <2>7. ListFresh'
    BY <1>1 DEF IInv, ListFresh, Ready, TypeOK
  <2>8. QueueApart'
    BY <1>1 DEF IInv, QueueApart, TypeOK
  <2> QED
    BY <2>1, <2>2, <2>3, <2>4, <2>5, <2>6, <2>7, <2>8 DEF IInv
<1>2. CASE ActivateEpoch
  <2>1. TypeOK'
    BY <1>2 DEF IInv, ActivateEpoch, TypeOK
  <2>2. InHand'
    BY <1>2 DEF IInv, ActivateEpoch, InHand, TypeOK
  <2>3. Lone'
    BY <1>2 DEF IInv, ActivateEpoch, Lone, TypeOK
  <2>4. TakenAgrees'
    BY <1>2 DEF IInv, ActivateEpoch, TakenAgrees, TypeOK
  <2>5. WaitsOnlyFailed'
    BY <1>2 DEF IInv, ActivateEpoch, WaitsOnlyFailed, TypeOK
  <2>6. RipeStays'
    BY <1>2 DEF IInv, ActivateEpoch, RipeStays, TypeOK
  <2>7. ListFresh'
    BY <1>2 DEF IInv, ActivateEpoch, ListFresh, Ready, TypeOK
  <2>8. QueueApart'
    BY <1>2 DEF IInv, ActivateEpoch, QueueApart
  <2> QED
    BY <2>1, <2>2, <2>3, <2>4, <2>5, <2>6, <2>7, <2>8 DEF IInv
<1>3. CASE CloseEpoch
  <2>1. TypeOK'
    BY <1>3 DEF IInv, CloseEpoch, TypeOK
  <2>2. InHand'
    BY <1>3 DEF IInv, CloseEpoch, InHand, TypeOK
  <2>3. Lone'
    BY <1>3 DEF IInv, CloseEpoch, Lone, TypeOK
  <2>4. TakenAgrees'
    BY <1>3 DEF IInv, CloseEpoch, TakenAgrees, TypeOK
  <2>5. WaitsOnlyFailed'
    BY <1>3 DEF IInv, CloseEpoch, WaitsOnlyFailed, TypeOK
  <2>6. RipeStays'
    BY <1>3 DEF IInv, CloseEpoch, RipeStays, TypeOK
  <2>7. ListFresh'
    BY <1>3 DEF IInv, CloseEpoch, ListFresh, Ready, TypeOK
  <2>8. QueueApart'
    BY <1>3 DEF IInv, CloseEpoch, QueueApart, TypeOK
  <2> QED
    BY <2>1, <2>2, <2>3, <2>4, <2>5, <2>6, <2>7, <2>8 DEF IInv
<1>4. CASE Tick
  <2>1. TypeOK'
    BY <1>4 DEF IInv, Tick, Down, TypeOK
  <2>2. InHand'
    BY <1>4 DEF IInv, Tick, Down, InHand, TypeOK
  <2>3. Lone'
    BY <1>4 DEF IInv, Tick, Down, Lone, TypeOK
  <2>4. TakenAgrees'
    BY <1>4 DEF IInv, Tick, Down, TakenAgrees, TypeOK
  <2>5. WaitsOnlyFailed'
    BY <1>4 DEF IInv, Tick, Down, WaitsOnlyFailed, TypeOK
  <2>6. RipeStays'
    BY <1>4 DEF IInv, Tick, Down, RipeStays, TypeOK
  <2>7. ListFresh'
    BY <1>4 DEF IInv, Tick, Down, ListFresh, Ready, TypeOK, InHand
  <2>8. QueueApart'
    BY <1>4 DEF IInv, Tick, Down, QueueApart, TypeOK
  <2> QED
    BY <2>1, <2>2, <2>3, <2>4, <2>5, <2>6, <2>7, <2>8 DEF IInv
<1>5. ASSUME NEW i \in Intents, NEW e \in 0..MaxEpochs, Append(i, e) PROVE IInv'
  <2>1. TypeOK'
    BY <1>5 DEF IInv, Append, TypeOK
  <2>2. InHand'
    BY <1>5 DEF IInv, Append, InHand, TypeOK
  <2>3. Lone'
    BY <1>5 DEF IInv, Append, Lone, TypeOK
  <2>4. TakenAgrees'
    BY <1>5 DEF IInv, Append, TakenAgrees, TypeOK
  <2>5. WaitsOnlyFailed'
    BY <1>5 DEF IInv, Append, WaitsOnlyFailed, TypeOK
  <2>6. RipeStays'
    BY <1>5 DEF IInv, Append, RipeStays, TypeOK
  <2>7. ListFresh'
    BY <1>5 DEF IInv, Append, ListFresh, Ready, TypeOK
  <2>8. QueueApart'
    BY <1>5 DEF IInv, Append, QueueApart, TypeOK
  <2> QED
    BY <2>1, <2>2, <2>3, <2>4, <2>5, <2>6, <2>7, <2>8 DEF IInv
<1>6. ASSUME NEW d \in Dispatchers, Acquire(d) PROVE IInv'
  <2>1. TypeOK'
    BY <1>6 DEF IInv, Acquire, TypeOK
  <2>2. InHand'
    BY <1>6 DEF IInv, Acquire, InHand, TypeOK
  <2>3. Lone'
    BY <1>6 DEF IInv, Acquire, Lone, TypeOK
  <2>4. TakenAgrees'
    BY <1>6 DEF IInv, Acquire, TakenAgrees, TypeOK
  <2>5. WaitsOnlyFailed'
    BY <1>6 DEF IInv, Acquire, WaitsOnlyFailed, TypeOK
  <2>6. RipeStays'
    BY <1>6 DEF IInv, Acquire, RipeStays, TypeOK
  <2>7. ListFresh'
    BY <1>6 DEF IInv, Acquire, ListFresh, Ready, TypeOK, QueueApart
  <2>8. QueueApart'
    BY <1>6 DEF IInv, Acquire, QueueApart, TypeOK
  <2> QED
    BY <2>1, <2>2, <2>3, <2>4, <2>5, <2>6, <2>7, <2>8 DEF IInv
<1>7. ASSUME NEW d \in Dispatchers, Quarantine(d) PROVE IInv'
  <2>1. TypeOK'
    BY <1>7 DEF IInv, Quarantine, Swept, TypeOK
  <2>2. InHand'
    BY <1>7 DEF IInv, Quarantine, Swept, InHand, TypeOK
  <2>3. Lone'
    BY <1>7 DEF IInv, Quarantine, Swept, Lone, TypeOK
  <2>4. TakenAgrees'
    BY <1>7 DEF IInv, Quarantine, Swept, TakenAgrees, TypeOK
  <2>5. WaitsOnlyFailed'
    BY <1>7 DEF IInv, Quarantine, Swept, WaitsOnlyFailed, TypeOK
  <2>6. RipeStays'
    BY <1>7 DEF IInv, Quarantine, Swept, RipeStays, TypeOK
  <2>7. ListFresh'
    BY <1>7 DEF IInv, Quarantine, Swept, ListFresh, Ready, TypeOK, InHand
  <2>8. QueueApart'
    BY <1>7 DEF IInv, Quarantine, Swept, QueueApart, TypeOK
  <2> QED
    BY <2>1, <2>2, <2>3, <2>4, <2>5, <2>6, <2>7, <2>8 DEF IInv
<1>8. ASSUME NEW d \in Dispatchers, List(d) PROVE IInv'
  <2>1. TypeOK'
    BY <1>8 DEF IInv, List, Due, Eligible, TypeOK
  <2>2. InHand'
    BY <1>8 DEF IInv, List, Due, Eligible, InHand, TypeOK
  <2>3. Lone'
    BY <1>8 DEF IInv, List, Due, Eligible, Lone, TypeOK
  <2>4. TakenAgrees'
    BY <1>8 DEF IInv, List, Due, Eligible, TakenAgrees, TypeOK
  <2>5. WaitsOnlyFailed'
    BY <1>8 DEF IInv, List, Due, Eligible, WaitsOnlyFailed, TypeOK
  <2>6. RipeStays'
    BY <1>8 DEF IInv, List, Due, Eligible, RipeStays, TypeOK
  <2>7. ListFresh'
    BY <1>8 DEF IInv, List, Due, Eligible, ListFresh, Ready, TypeOK,
       RipeStays, WaitsOnlyFailed, InHand
  <2>8. QueueApart'
    BY <1>8 DEF IInv, List, Due, Eligible, QueueApart, TypeOK
  <2> QED
    BY <2>1, <2>2, <2>3, <2>4, <2>5, <2>6, <2>7, <2>8 DEF IInv
<1>9. ASSUME NEW d \in Dispatchers, Release(d) PROVE IInv'
  <2>1. TypeOK'
    BY <1>9 DEF IInv, Release, TypeOK
  <2>2. InHand'
    BY <1>9 DEF IInv, Release, InHand, TypeOK
  <2>3. Lone'
    BY <1>9 DEF IInv, Release, Lone, TypeOK
  <2>4. TakenAgrees'
    BY <1>9 DEF IInv, Release, TakenAgrees, TypeOK
  <2>5. WaitsOnlyFailed'
    BY <1>9 DEF IInv, Release, WaitsOnlyFailed, TypeOK
  <2>6. RipeStays'
    BY <1>9 DEF IInv, Release, RipeStays, TypeOK
  <2>7. ListFresh'
    BY <1>9 DEF IInv, Release, ListFresh, Ready, TypeOK
  <2>8. QueueApart'
    BY <1>9 DEF IInv, Release, QueueApart, TypeOK
  <2> QED
    BY <2>1, <2>2, <2>3, <2>4, <2>5, <2>6, <2>7, <2>8 DEF IInv
<1>10. ASSUME NEW d \in Dispatchers, NEW i \in Intents, NEW late \in Lates,
              Renew(d, i, late)
       PROVE  IInv'
  <2>1. TypeOK'
    BY <1>10 DEF IInv, Renew, Break, Held, Remaining, TypeOK
  <2>2. InHand'
    BY <1>10 DEF IInv, Renew, Break, Held, Remaining, InHand, TypeOK
  <2>3. Lone'
    BY <1>10 DEF IInv, Renew, Break, Held, Remaining, Lone, TypeOK
  <2>4. TakenAgrees'
    BY <1>10 DEF IInv, Renew, Break, Held, Remaining, TakenAgrees, TypeOK
  <2>5. WaitsOnlyFailed'
    BY <1>10 DEF IInv, Renew, Break, Held, Remaining, WaitsOnlyFailed, TypeOK
  <2>6. RipeStays'
    BY <1>10 DEF IInv, Renew, Break, Held, Remaining, RipeStays, TypeOK
  <2>7. ListFresh'
    BY <1>10 DEF IInv, Renew, Break, Held, Remaining, ListFresh, Ready, TypeOK
  <2>8. QueueApart'
    BY <1>10 DEF IInv, Renew, Break, Held, Remaining, QueueApart, TypeOK
  <2> QED
    BY <2>1, <2>2, <2>3, <2>4, <2>5, <2>6, <2>7, <2>8 DEF IInv
<1>11. ASSUME NEW d \in Dispatchers, NEW old \in 0..AttemptTimeout, Begin(d, old)
       PROVE  IInv'
  <2>1. TypeOK'
    <3>1. CASE Permitted(d, cur[d])
      <4>1. cur[d] \in Intents
        BY <1>11 DEF IInv, InHand, Begin
      <4>2. state' \in [Intents -> States] /\ tries' \in [Intents -> Nat]
        BY <1>11, <3>1, <4>1 DEF IInv, Begin, Permitted, Break, TypeOK
      <4>3. age' \in [Intents -> 0..AttemptTimeout] /\ wait' \in [Intents -> Nat]
        BY <1>11, <3>1, <4>1 DEF IInv, Begin, Permitted, Break, TypeOK
      <4>4. no' \in [Dispatchers -> Nat]
        BY <1>11, <3>1, <4>1 DEF IInv, Begin, Permitted, Break, TypeOK
      <4> QED
        BY <1>11, <3>1, <4>2, <4>3, <4>4 DEF IInv, Begin, Permitted, Break, TypeOK
    <3>2. CASE ~Permitted(d, cur[d])
      <4>1. Break(d) /\ UNCHANGED attempt
        BY <1>11, <3>2 DEF Begin
      <4>2. /\ pc' = [pc EXCEPT ![d] = "loop"]
            /\ queue' = [queue EXCEPT ![d] = {}]
            /\ cur' = [cur EXCEPT ![d] = None] /\ no' = [no EXCEPT ![d] = 0]
        BY <4>1 DEF Break
      <4>3. UNCHANGED <<epoch, epochs, lease, epochOf, attempt, overdue, ripe, answer,
                        taken, faults>>
        BY <1>11, <4>1 DEF Begin
      <4> QED
        BY <4>2, <4>3 DEF IInv, TypeOK, lease, attempt
    <3> QED
      BY <3>1, <3>2
  <2>2. InHand'
    BY <1>11 DEF IInv, Begin, Break, Permitted, Eligible, InHand, TypeOK
  <2>3. Lone'
    <3>1. CASE Permitted(d, cur[d])
      BY <1>11, <3>1 DEF IInv, Begin, Break, Permitted, Eligible, Lone,
         TypeOK, InHand
    <3>2. CASE ~Permitted(d, cur[d])
      BY <1>11, <3>2 DEF IInv, Begin, Break, Permitted, Eligible, Lone,
         TypeOK, InHand
    <3> QED
      BY <1>11, <3>1, <3>2 DEF IInv, Begin, Break, Permitted, Eligible,
         Lone, TypeOK, InHand
  <2>4. TakenAgrees'
    <3>1. CASE Permitted(d, cur[d])
      BY <1>11, <3>1 DEF IInv, Begin, Break, Permitted, Eligible,
         TakenAgrees, TypeOK, InHand, Lone
    <3>2. CASE ~Permitted(d, cur[d])
      BY <1>11, <3>2 DEF IInv, Begin, Break, Permitted, Eligible,
         TakenAgrees, TypeOK, InHand, Lone
    <3> QED
      BY <1>11, <3>1, <3>2 DEF IInv, Begin, Break, Permitted, Eligible,
         TakenAgrees, TypeOK, InHand, Lone
  <2>5. WaitsOnlyFailed'
    BY <1>11 DEF IInv, Begin, Break, Permitted, Eligible, WaitsOnlyFailed, TypeOK
  <2>6. RipeStays'
    <3>1. CASE Permitted(d, cur[d])
      BY <1>11, <3>1 DEF IInv, Begin, Break, Permitted, Eligible,
         RipeStays, TypeOK, InHand, QueueApart
    <3>2. CASE ~Permitted(d, cur[d])
      BY <1>11, <3>2 DEF IInv, Begin, Break, Permitted, Eligible,
         RipeStays, TypeOK, InHand, QueueApart
    <3> QED
      BY <1>11, <3>1, <3>2 DEF IInv, Begin, Break, Permitted, Eligible,
         RipeStays, TypeOK, InHand, QueueApart
  <2>7. ListFresh'
    <3>1. CASE Permitted(d, cur[d])
      BY <1>11, <3>1 DEF IInv, Begin, Break, Permitted, Eligible,
         ListFresh, Ready, TypeOK, InHand, QueueApart, WaitsOnlyFailed
    <3>2. CASE ~Permitted(d, cur[d])
      BY <1>11, <3>2 DEF IInv, Begin, Break, Permitted, Eligible,
         ListFresh, Ready, TypeOK, InHand, QueueApart, WaitsOnlyFailed
    <3> QED
      BY <1>11, <3>1, <3>2 DEF IInv, Begin, Break, Permitted, Eligible,
         ListFresh, Ready, TypeOK, InHand, QueueApart, WaitsOnlyFailed
  <2>8. QueueApart'
    BY <1>11 DEF IInv, Begin, Break, Permitted, Eligible, QueueApart, TypeOK
  <2> QED
    BY <2>1, <2>2, <2>3, <2>4, <2>5, <2>6, <2>7, <2>8 DEF IInv
<1>12. ASSUME NEW d \in Dispatchers, NEW a \in Answers, Send(d, a) PROVE IInv'
  <2>1. TypeOK'
    <3>1. CASE taken'[cur[d]] = taken[cur[d]]
      BY <1>12, <3>1 DEF IInv, Send, Took, TypeOK, InHand
    <3>2. CASE taken'[cur[d]] = taken[cur[d]] + 1
      BY <1>12, <3>2 DEF IInv, Send, Took, TypeOK, InHand
    <3> QED
      BY <1>12, <3>1, <3>2 DEF IInv, Send, Took, TypeOK, InHand
  <2>2. InHand'
    BY <1>12 DEF IInv, Send, Took, InHand, TypeOK
  <2>3. Lone'
    BY <1>12 DEF IInv, Send, Took, Lone, TypeOK
  <2>4. TakenAgrees'
    <3>1. CASE taken'[cur[d]] = taken[cur[d]]
      BY <1>12, <3>1 DEF IInv, Send, Took, TakenAgrees, TypeOK, InHand, Lone
    <3>2. CASE taken'[cur[d]] = taken[cur[d]] + 1
      BY <1>12, <3>2 DEF IInv, Send, Took, TakenAgrees, TypeOK, InHand, Lone
    <3> QED
      BY <1>12, <3>1, <3>2 DEF IInv, Send, Took, TakenAgrees, TypeOK, InHand, Lone
  <2>5. WaitsOnlyFailed'
    BY <1>12 DEF IInv, Send, Took, WaitsOnlyFailed, TypeOK
  <2>6. RipeStays'
    BY <1>12 DEF IInv, Send, Took, RipeStays, TypeOK
  <2>7. ListFresh'
    BY <1>12 DEF IInv, Send, Took, ListFresh, Ready, TypeOK
  <2>8. QueueApart'
    BY <1>12 DEF IInv, Send, Took, QueueApart, TypeOK
  <2> QED
    BY <2>1, <2>2, <2>3, <2>4, <2>5, <2>6, <2>7, <2>8 DEF IInv
<1>13. ASSUME NEW d \in Dispatchers, NEW late \in Lates,
              NEW delay \in RetryDelays, Finish(d, late, delay)
       PROVE  IInv'
  <2>1. TypeOK'
    <3>1. CASE Open(cur[d], no[d])
      BY <1>13, <3>1 DEF IInv, Finish, Held, Open, TypeOK, InHand
    <3>2. CASE ~Open(cur[d], no[d])
      BY <1>13, <3>2 DEF IInv, Finish, Held, Open, TypeOK, InHand
    <3> QED
      BY <1>13, <3>1, <3>2 DEF IInv, Finish, Held, Open, TypeOK, InHand
  <2>2. InHand'
    <3>1. CASE Open(cur[d], no[d])
      BY <1>13, <3>1 DEF IInv, Finish, Held, Open, InHand, TypeOK, Lone
    <3>2. CASE ~Open(cur[d], no[d])
      BY <1>13, <3>2 DEF IInv, Finish, Held, Open, InHand, TypeOK, Lone
    <3> QED
      BY <1>13, <3>1, <3>2 DEF IInv, Finish, Held, Open, InHand, TypeOK, Lone
  <2>3. Lone'
    BY <1>13 DEF IInv, Finish, Held, Open, Lone, TypeOK
  <2>4. TakenAgrees'
    BY <1>13 DEF IInv, Finish, Held, Open, TakenAgrees, TypeOK
  <2>5. WaitsOnlyFailed'
    BY <1>13 DEF IInv, Finish, Held, Open, WaitsOnlyFailed, TypeOK
  <2>6. RipeStays'
    BY <1>13 DEF IInv, Finish, Held, Open, RipeStays, TypeOK
  <2>7. ListFresh'
    <3>1. CASE Open(cur[d], no[d])
      BY <1>13, <3>1 DEF IInv, Finish, Held, Open, ListFresh, Ready,
         TypeOK, InHand, QueueApart, WaitsOnlyFailed
    <3>2. CASE ~Open(cur[d], no[d])
      BY <1>13, <3>2 DEF IInv, Finish, Held, Open, ListFresh, Ready,
         TypeOK, InHand, QueueApart, WaitsOnlyFailed
    <3> QED
      BY <1>13, <3>1, <3>2 DEF IInv, Finish, Held, Open, ListFresh, Ready,
         TypeOK, InHand, QueueApart, WaitsOnlyFailed
  <2>8. QueueApart'
    BY <1>13 DEF IInv, Finish, Held, Open, QueueApart, TypeOK
  <2> QED
    BY <2>1, <2>2, <2>3, <2>4, <2>5, <2>6, <2>7, <2>8 DEF IInv
<1>14. ASSUME NEW d \in Dispatchers, StorageError(d) PROVE IInv'
  <2>1. TypeOK'
    BY <1>14 DEF IInv, StorageError, Break, TypeOK
  <2>2. InHand'
    BY <1>14 DEF IInv, StorageError, Break, InHand, TypeOK
  <2>3. Lone'
    BY <1>14 DEF IInv, StorageError, Break, Lone, TypeOK
  <2>4. TakenAgrees'
    BY <1>14 DEF IInv, StorageError, Break, TakenAgrees, TypeOK
  <2>5. WaitsOnlyFailed'
    BY <1>14 DEF IInv, StorageError, Break, WaitsOnlyFailed, TypeOK
  <2>6. RipeStays'
    BY <1>14 DEF IInv, StorageError, Break, RipeStays, TypeOK
  <2>7. ListFresh'
    BY <1>14 DEF IInv, StorageError, Break, ListFresh, Ready, TypeOK
  <2>8. QueueApart'
    BY <1>14 DEF IInv, StorageError, Break, QueueApart, TypeOK
  <2> QED
    BY <2>1, <2>2, <2>3, <2>4, <2>5, <2>6, <2>7, <2>8 DEF IInv
<1>15. ASSUME NEW d \in Dispatchers, Crash(d) PROVE IInv'
  <2>1. TypeOK'
    BY <1>15 DEF IInv, Crash, TypeOK
  <2>2. InHand'
    BY <1>15 DEF IInv, Crash, InHand, TypeOK
  <2>3. Lone'
    BY <1>15 DEF IInv, Crash, Lone, TypeOK
  <2>4. TakenAgrees'
    <3>1. CASE UNCHANGED taken
      BY <1>15, <3>1 DEF IInv, Crash, TakenAgrees, TypeOK, InHand, Lone
    <3>2. CASE taken' # taken
      BY <1>15, <3>2 DEF IInv, Crash, TakenAgrees, TypeOK, InHand, Lone
    <3> QED
      BY <1>15, <3>1, <3>2 DEF IInv, Crash, TakenAgrees, TypeOK, InHand, Lone
  <2>5. WaitsOnlyFailed'
    BY <1>15 DEF IInv, Crash, WaitsOnlyFailed, TypeOK
  <2>6. RipeStays'
    BY <1>15 DEF IInv, Crash, RipeStays, TypeOK
  <2>7. ListFresh'
    BY <1>15 DEF IInv, Crash, ListFresh, Ready, TypeOK
  <2>8. QueueApart'
    BY <1>15 DEF IInv, Crash, QueueApart, TypeOK
  <2> QED
    BY <2>1, <2>2, <2>3, <2>4, <2>5, <2>6, <2>7, <2>8 DEF IInv
<1> QED
  BY <1>1, <1>2, <1>3, <1>4, <1>5, <1>6, <1>7, <1>8, <1>9, <1>10, <1>11, <1>12,
     <1>13, <1>14, <1>15 DEF Next, CallStep

\* The invariant holds in every reachable state.
THEOREM Invariance == Spec => []IInv
<1>1. Init => IInv
  BY OutboxAssumption
     DEF Init, IInv, TypeOK, InHand, Lone, TakenAgrees, WaitsOnlyFailed, RipeStays,
         ListFresh, QueueApart, States, Answers, Unsettled, Blocking
<1> QED
  BY <1>1, Inductive, PTL DEF Spec

\* Every variable keeps its type, for every value of the constants.
THEOREM TypesHold == Spec => []TypeOK
BY Invariance, PTL DEF IInv

\* No message is taken twice, whoever stalls, dies or comes too late.
THEOREM TakenAtMostOnce == Spec => []AtMostOnce
<1>1. IInv => AtMostOnce
  <2> SUFFICES ASSUME IInv, NEW i \in Intents PROVE taken[i] <= 1
    BY DEF AtMostOnce
  <2>1. taken[i] \in {0, 1}
    BY DEF IInv, TakenAgrees, Unsettled
  <2> QED
    BY <2>1
<1> QED
  BY <1>1, Invariance, PTL

-----------------------------------------------------------------------------
(* Attempts *)

\* Only Begin counts an attempt, and what it begins was listed with the token
\* that is still the newest, hence is due still.
THEOREM AttemptsAreEarned == Spec => AttemptsEarned
<1> DEFINE Earned(i) == tries'[i] # tries[i] =>
       /\ tries[i] < MaxAttempts /\ tries'[i] = tries[i] + 1
       /\ state[i] \in {"none", "retryable_failed"} /\ wait[i] = 0
       /\ Eligible(i)
<1>1. ASSUME IInv, [Next]_vars, NEW i \in Intents PROVE Earned(i)
  <2> USE <1>1
  <2>1. ASSUME NEW d \in Dispatchers, NEW old \in 0..AttemptTimeout, Begin(d, old)
        PROVE  Earned(i)
    <3>1. CASE Permitted(d, cur[d])
      <4>1. cur[d] \in Intents /\ Ready(cur[d])
        BY <2>1, <3>1 DEF IInv, InHand, ListFresh, Begin, Permitted
      <4>2. tries' = [tries EXCEPT ![cur[d]] = tries[cur[d]] + 1]
        BY <2>1, <3>1 DEF Begin, Permitted, Break
      <4> QED
        BY <3>1, <4>1, <4>2 DEF Ready, Permitted, IInv, TypeOK
    <3>2. CASE ~Permitted(d, cur[d])
      BY <2>1, <3>2 DEF Begin, attempt
    <3> QED
      BY <3>1, <3>2
  <2>2. CASE UNCHANGED tries
    BY <2>2
  <2>3. [Next]_vars => \/ UNCHANGED tries
                       \/ \E d \in Dispatchers, old \in 0..AttemptTimeout : Begin(d, old)
    BY DEF Next, CallStep, ActivateEpoch, CloseEpoch, Tick, Append, Acquire,
       Quarantine,
           List, Release, Renew, Send, Finish, StorageError, Crash, vars, attempt
  <2> QED
    BY <2>1, <2>2, <2>3
<1>2. IInv /\ [Next]_vars => [\A i \in Intents : Earned(i)]_vars
  BY <1>1
<1> QED
  BY <1>2, Invariance, PTL DEF AttemptsEarned, Spec

-----------------------------------------------------------------------------
(* The mailbox *)

\* The initial states are initial states of Mailbox.
LEMMA MailboxInit == Init => M!Init
BY DEF Init, M!Init, status, StatusOf

\* A step that leaves attempts and the provider alone leaves the mailbox alone.
LEMMA MailboxRests ==
  ASSUME UNCHANGED <<state, epochOf, taken>>
  PROVE  UNCHANGED M!vars
BY DEF M!vars, status, StatusOf

\* A step that gives one attempt a state gives one message a status.
LEMMA MailboxMoves ==
  ASSUME TypeOK, NEW i \in Intents, NEW s \in States,
         state' = [state EXCEPT ![i] = s], UNCHANGED <<epochOf, taken>>
  PROVE  /\ s = "in_flight" => M!Become(i, "sending")
         /\ s = "succeeded" => M!Become(i, "delivered")
         /\ s = "permanent_failed" => M!Become(i, "refused")
         /\ s = "retryable_failed" => M!Become(i, "waiting")
         /\ s = "uncertain" => M!Become(i, "unknown")
BY DEF status, StatusOf, TypeOK, M!Become

\* Every step is a step of Mailbox, or none.
LEMMA MailboxStep == IInv /\ [Next]_vars => [M!Next]_M!vars
<1> SUFFICES ASSUME IInv, [Next]_vars PROVE [M!Next]_M!vars
  OBVIOUS
<1> USE OutboxAssumption DEF IInv
<1>1. CASE UNCHANGED <<state, epochOf, taken>>
  BY <1>1, MailboxRests
<1>2. ASSUME NEW i \in Intents, NEW e \in 0..MaxEpochs, Append(i, e)
      PROVE  M!Next
  <2>1. status' = [status EXCEPT ![i] = IF e = 0 THEN "shelved" ELSE "waiting"]
    BY <1>2 DEF Append, status, StatusOf, TypeOK
  <2>2. status[i] = "absent" /\ UNCHANGED taken
    BY <1>2 DEF Append, status, StatusOf
  <2>3. M!Post(i) \/ M!Shelve(i)
    BY <2>1, <2>2 DEF M!Post, M!Shelve, M!Become
  <2> QED
    BY <2>3 DEF M!Next
<1>3. ASSUME NEW d \in Dispatchers, Quarantine(d)
      PROVE  M!Next
  <2> DEFINE L == {i \in Intents : state[i] # state'[i]}
  <2>1. /\ \A i \in L : state[i] = "in_flight" /\ state'[i] = "uncertain"
        /\ \A i \in Intents \ L : state'[i] = state[i]
        /\ UNCHANGED <<epochOf, taken>>
    BY <1>3 DEF Quarantine, Swept, TypeOK
  <2>2. L \in SUBSET Intents /\ \A i \in L : status[i] = "sending"
    BY <2>1 DEF status, StatusOf
  <2>3. status' = [i \in Intents |-> IF i \in L THEN "unknown" ELSE status[i]]
    BY <2>1 DEF status, StatusOf
  <2>4. M!LoseTracks
    BY <2>1, <2>2, <2>3 DEF M!LoseTracks
  <2> QED
    BY <2>4 DEF M!Next
<1>4. ASSUME NEW d \in Dispatchers, NEW old \in 0..AttemptTimeout, Begin(d, old)
      PROVE  [M!Next]_M!vars
  <2>1. CASE Permitted(d, cur[d])
    <3>1. cur[d] \in Intents /\ Ready(cur[d])
      BY <1>4, <2>1 DEF InHand, ListFresh, Begin, Permitted
    <3>2. /\ state' = [state EXCEPT ![cur[d]] = "in_flight"]
          /\ UNCHANGED <<epochOf, taken>>
      BY <1>4, <2>1 DEF Begin, Permitted, Break
    <3>3. M!Become(cur[d], "sending")
      BY <3>1, <3>2, MailboxMoves DEF States, Blocking
    <3>4. status[cur[d]] = "waiting"
      BY <3>1 DEF Ready, status, StatusOf
    <3> QED
      BY <3>1, <3>3, <3>4 DEF M!Next, M!Pick
  <2>2. CASE ~Permitted(d, cur[d])
    BY <1>4, <2>2, MailboxRests DEF Begin, attempt
  <2> QED
    BY <2>1, <2>2
<1>5. ASSUME NEW d \in Dispatchers, pc[d] = "begun",
             taken' = [taken EXCEPT ![cur[d]] = taken[cur[d]] + 1],
             UNCHANGED <<state, epochOf>>
      PROVE  M!Next
  <2>1. cur[d] \in Intents /\ state[cur[d]] \in Unsettled /\ taken[cur[d]] = 0
    BY <1>5 DEF InHand, TakenAgrees
  <2>2. status[cur[d]] \in {"sending", "unknown"}
    BY <2>1 DEF status, StatusOf, Unsettled
  <2>3. UNCHANGED status
    BY <1>5 DEF status, StatusOf
  <2>4. taken' = [taken EXCEPT ![cur[d]] = 1]
    BY <1>5, <2>1
  <2> QED
    BY <2>1, <2>2, <2>3, <2>4 DEF M!Next, M!Take
<1>6. ASSUME NEW d \in Dispatchers, NEW a \in Answers, Send(d, a)
      PROVE  [M!Next]_M!vars
  <2>1. PICK t \in {taken[cur[d]], taken[cur[d]] + 1} :
          taken' = [taken EXCEPT ![cur[d]] = t]
    BY <1>6 DEF Send
  <2>2. taken' = taken \/ taken' = [taken EXCEPT ![cur[d]] = taken[cur[d]] + 1]
    BY <2>1 DEF TypeOK
  <2>3. pc[d] = "begun" /\ UNCHANGED <<state, epochOf>>
    BY <1>6 DEF Send, attempt
  <2> QED
    BY <2>2, <2>3, <1>5, <1>1
<1>7. ASSUME NEW d \in Dispatchers, Crash(d)
      PROVE  [M!Next]_M!vars
  <2>1. UNCHANGED <<state, epochOf>>
    BY <1>7 DEF Crash, attempt
  <2> QED
    BY <2>1, <1>7, <1>5, <1>1 DEF Crash
<1>8. ASSUME NEW d \in Dispatchers, NEW late \in Lates, NEW delay \in RetryDelays,
             Finish(d, late, delay)
      PROVE  [M!Next]_M!vars
  <2> DEFINE i == cur[d]
             outcome == IF Held(d, late) THEN answer[d] ELSE "uncertain"
  <2>1. CASE Open(i, no[d])
    <3>1. i \in Intents /\ state[i] = "in_flight"
      BY <1>8, <2>1 DEF InHand, Finish, Open
    <3>2. state' = [state EXCEPT ![i] = outcome] /\ UNCHANGED <<epochOf, taken>>
      BY <1>8, <2>1 DEF Finish
    <3>3. outcome \in Answers /\ outcome \in States
      BY DEF TypeOK, Answers, States, Blocking
    <3>4. /\ outcome = "succeeded" => M!Become(i, "delivered")
          /\ outcome = "permanent_failed" => M!Become(i, "refused")
          /\ outcome = "retryable_failed" => M!Become(i, "waiting")
          /\ outcome = "uncertain" => M!Become(i, "unknown")
      BY <3>1, <3>2, <3>3, MailboxMoves
    <3>5. status[i] = "sending"
      BY <3>1 DEF status, StatusOf
    <3>6. pc[d] = "answered"
      BY <1>8 DEF Finish
    <3>7. CASE outcome = "succeeded"
      <4>1. taken[i] = 1
        BY <3>6, <3>7 DEF TakenAgrees
      <4>2. M!Deliver(i)
        BY <3>4, <3>5, <3>7, <4>1 DEF M!Deliver
      <4> QED
        BY <3>1, <4>2 DEF M!Next
    <3>8. CASE outcome \in {"retryable_failed", "permanent_failed"}
      <4>1. taken[i] = 0
        BY <3>6, <3>8 DEF TakenAgrees
      <4>2. M!PutBack(i) \/ M!Refuse(i)
        BY <3>4, <3>5, <3>8, <4>1 DEF M!PutBack, M!Refuse
      <4> QED
        BY <3>1, <4>2 DEF M!Next
    <3>9. CASE outcome = "uncertain"
      <4>1. status' = [status EXCEPT ![i] = "unknown"] /\ UNCHANGED taken
        BY <3>4, <3>9 DEF M!Become
      <4>2. status' = [j \in Intents |-> IF j \in {i} THEN "unknown" ELSE status[j]]
        BY <3>1, <4>1 DEF status
      <4>3. {i} \in SUBSET Intents /\ \A j \in {i} : status[j] = "sending"
        BY <3>1, <3>5
      <4>4. M!LoseTracks
        BY <4>1, <4>2, <4>3 DEF M!LoseTracks
      <4> QED
        BY <4>4 DEF M!Next
    <3> QED
      BY <3>3, <3>7, <3>8, <3>9 DEF Answers
  <2>2. CASE ~Open(i, no[d])
    BY <1>8, <2>2, MailboxRests DEF Finish
  <2> QED
    BY <2>1, <2>2
<1>9. \/ UNCHANGED <<state, epochOf, taken>>
      \/ \E i \in Intents, e \in 0..MaxEpochs : Append(i, e)
      \/ \E d \in Dispatchers :
           \/ Quarantine(d) \/ Crash(d)
           \/ \E old \in 0..AttemptTimeout : Begin(d, old)
           \/ \E a \in Answers : Send(d, a)
           \/ \E late \in Lates, delay \in RetryDelays : Finish(d, late, delay)
  BY DEF Next, CallStep, ActivateEpoch, CloseEpoch, Tick, Acquire, List,
     Release, Renew,
         StorageError, vars, attempt
<1> QED
  BY <1>1, <1>2, <1>3, <1>4, <1>6, <1>7, <1>8, <1>9

\* The outbox implements Mailbox.
THEOREM MailboxKept == Spec => KeepsMailbox
BY MailboxInit, MailboxStep, Invariance, PTL DEF Spec, KeepsMailbox, M!Spec
=============================================================================

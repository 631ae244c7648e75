------------------------- MODULE NotificationOutbox -------------------------
(***************************************************************************)
(* The notification outbox of monitoring-v4: intents appended under a      *)
(* delivery epoch (storage/outbox_parts/intents.py), the fenced lease of   *)
(* the dispatchers (leases.py), their delivery attempts (delivery.py), and *)
(* the dispatcher that sends one after another (notifications/             *)
(* dispatcher.py).                                                         *)
(*                                                                         *)
(* Every repository call is one transaction and one action; a dispatcher   *)
(* may stall, fail or die between any two of them while another takes the  *)
(* lease over.  Clocks are seconds compared with a reading that may be     *)
(* stale by the time the transaction runs: `late` is its age, in Lates.    *)
(* Time is relative, so that nothing bounds a behaviour's length: leases   *)
(* and retries count down to 0, and the age of an attempt stops at the     *)
(* timeout, after which nothing tells ages apart.                          *)
(***************************************************************************)
EXTENDS Integers

CONSTANTS
  Intents,
  Dispatchers,
  None,           \* no dispatcher, or no intent
  MaxAttempts,    \* dispatcher.max_attempts
  LeaseTtl,       \* dispatcher.lease_ttl_sec
  AttemptTimeout, \* dispatcher.attempt_timeout_sec
  RetryDelays,    \* possible waits: back-off or Retry-After, less the reading's age
  Lates,          \* possible ages of a clock reading
  MaxEpochs,      \* bound on delivery epochs
  MaxFaults       \* bound on crashes, storage errors and stalls

ASSUME OutboxAssumption ==
  /\ None \notin Intents \cup Dispatchers
  /\ {MaxAttempts, AttemptTimeout, LeaseTtl} \subseteq Nat \ {0}
  /\ LeaseTtl > AttemptTimeout \* the constructor refuses anything else
  /\ RetryDelays \subseteq Nat /\ Lates \subseteq Nat
  /\ MaxEpochs \in Nat /\ MaxFaults \in Nat

VARIABLES
  epoch,   \* the active delivery epoch, 0: none
  epochs,  \* how many were opened
  owner,   \* leases.owner, None once that instance is gone for ever
  left,    \* time until leases.expires_ts
  fence,   \* the dispatcher whose call holds the newest fence token
  epochOf, \* the epoch of an intent, 0: shadow
  state,   \* of an intent's latest attempt, "none" before the first
  tries,   \* its attempt_no: how many attempts there were
  age,     \* time since its started_ts, up to the timeout
  wait,    \* time until its next_retry_ts
  pc,      \* where the dispatcher's dispatch_once is
  overdue, \* attempts as old as the timeout when the call began
  ripe,    \* failed attempts whose retry time had come when the call began
  queue,   \* intents listed and not yet handled
  cur,     \* the intent in hand
  no,      \* attempt_no of the attempt in hand
  answer,  \* the outcome its provider call came to
  taken,   \* history: how often the provider took the message
  faults   \* crashes, storage errors and stalls so far

dispatch == <<pc, overdue, ripe, queue, cur, no, answer>>
lease == <<owner, left, fence>>
attempt == <<state, tries, age, wait>>
vars == <<epoch, epochs, lease, epochOf, attempt, dispatch, taken, faults>>

Answers == {"succeeded", "retryable_failed", "permanent_failed", "uncertain"}
Blocking == {"in_flight", "succeeded", "permanent_failed", "uncertain"}
States == {"absent", "none", "retryable_failed"} \cup Blocking

Init ==
  /\ epoch = 0 /\ epochs = 0
  /\ owner = None /\ left = 0 /\ fence = None
  /\ epochOf = [i \in Intents |-> 0] /\ state = [i \in Intents |-> "absent"]
  /\ tries = [i \in Intents |-> 0]
  /\ age = [i \in Intents |-> 0] /\ wait = [i \in Intents |-> 0]
  /\ pc = [d \in Dispatchers |-> "idle"]
  /\ overdue = [d \in Dispatchers |-> {}] /\ ripe = [d \in Dispatchers |-> {}]
  /\ queue = [d \in Dispatchers |-> {}]
  /\ cur = [d \in Dispatchers |-> None] /\ no = [d \in Dispatchers |-> 0]
  /\ answer = [d \in Dispatchers |-> "uncertain"]
  /\ taken = [i \in Intents |-> 0]
  /\ faults = 0

-----------------------------------------------------------------------------
(* Epochs and intents *)

\* At most one epoch is active: a unique index refuses the second.
ActivateEpoch ==
  /\ epoch = 0 /\ epochs < MaxEpochs
  /\ epoch' = epochs + 1 /\ epochs' = epochs + 1
  /\ UNCHANGED <<lease, epochOf, attempt, dispatch, taken, faults>>

CloseEpoch ==
  /\ epoch # 0
  /\ epoch' = 0
  /\ UNCHANGED <<epochs, lease, epochOf, attempt, dispatch, taken, faults>>

\* A shadow intent, or one for the epoch its producer was configured with,
\* which must still be the active one.  A repeated append is ignored.
Append(i, e) ==
  /\ state[i] = "absent"
  /\ e = 0 \/ e = epoch
  /\ state' = [state EXCEPT ![i] = "none"] /\ epochOf' = [epochOf EXCEPT ![i] = e]
  /\ UNCHANGED <<epoch, epochs, lease, tries, age, wait, dispatch, taken, faults>>

-----------------------------------------------------------------------------
(* The lease *)

\* The fence token is the newest one, the owner this instance, and the lease
\* had not expired when the clock was read.
Held(d, late) == fence = d /\ owner = d /\ left + late > 0

Remaining_Added(late) == LeaseTtl + late
Remaining(late) == IF late < LeaseTtl THEN LeaseTtl - late ELSE 0

\* A free lease, or the caller's own.  Each acquisition has a token of its own.
Acquire(d) ==
  /\ pc[d] = "idle"
  /\ left = 0 \/ owner = d
  /\ owner' = d /\ left' = LeaseTtl /\ fence' = d
  /\ pc' = [pc EXCEPT ![d] = "acquired"]
  /\ overdue' = [overdue EXCEPT ![d] =
       {<<i, tries[i]>> : i \in {j \in Intents :
          state[j] = "in_flight" /\ age[j] = AttemptTimeout}}]
  /\ ripe' = [ripe EXCEPT ![d] =
       {<<i, tries[i]>> : i \in {j \in Intents :
          state[j] = "retryable_failed" /\ wait[j] = 0}}]
  /\ UNCHANGED <<epoch, epochs, epochOf, attempt, queue, cur, no, answer, taken,
                 faults>>

\* The finally clause: the rest of the queue is dropped, the lease released.
Break(d) ==
  /\ pc' = [pc EXCEPT ![d] = "loop"]
  /\ queue' = [queue EXCEPT ![d] = {}]
  /\ cur' = [cur EXCEPT ![d] = None] /\ no' = [no EXCEPT ![d] = 0]

Renew(d, i, late) ==
  /\ pc[d] = "loop" /\ i \in queue[d]
  /\ \/ /\ Held(d, late)
        /\ left' = Remaining(late)
        /\ pc' = [pc EXCEPT ![d] = "renewed"]
        /\ queue' = [queue EXCEPT ![d] = @ \ {i}]
        /\ cur' = [cur EXCEPT ![d] = i]
        /\ UNCHANGED no
     \/ /\ ~Held(d, late)
        /\ Break(d)
        /\ UNCHANGED left
  /\ UNCHANGED <<epoch, epochs, owner, fence, epochOf, attempt, overdue, ripe, answer,
                 taken, faults>>

\* Without the newest token nothing is released: the lease is another's.
Release(d) ==
  /\ pc[d] = "loop" /\ queue[d] = {}
  /\ left' = IF fence = d /\ owner = d THEN 0 ELSE left
  /\ pc' = [pc EXCEPT ![d] = "idle"]
  /\ UNCHANGED <<epoch, epochs, owner, fence, epochOf, attempt, overdue, ripe, queue, cur,
                 no, answer, taken, faults>>

-----------------------------------------------------------------------------
(* Delivery attempts.  All attempts of an intent but the latest have failed  *)
(* retryably, since any other state blocks the next: the latest is kept.     *)

Eligible(i) == epochOf[i] # 0 /\ epochOf[i] = epoch

Swept_Retried(d, i) ==
  IF state[i] = "in_flight" /\ <<i, tries[i]>> \in overdue[d]
  THEN "retryable_failed" ELSE state[i]

Swept_OnlyEligible(d, i) ==
  IF Eligible(i) /\ state[i] = "in_flight" /\ <<i, tries[i]>> \in overdue[d]
  THEN "uncertain" ELSE state[i]

\* An attempt its writer left in flight for the timeout, of any epoch.
Swept(d, i) ==
  IF state[i] = "in_flight" /\ <<i, tries[i]>> \in overdue[d]
  THEN "uncertain" ELSE state[i]

\* The cleanup asks for no fence.
Quarantine(d) ==
  /\ pc[d] = "acquired"
  /\ state' = [i \in Intents |-> Swept(d, i)]
  /\ age' = [i \in Intents |-> IF state'[i] = "in_flight" THEN age[i] ELSE 0]
  /\ overdue' = [overdue EXCEPT ![d] = {}]
  /\ pc' = [pc EXCEPT ![d] = "swept"]
  /\ UNCHANGED <<epoch, epochs, lease, epochOf, tries, wait, ripe, queue, cur, no,
                 answer, taken, faults>>

Due_OneTooFew(d, i) ==
  /\ Eligible(i) /\ tries[i] + 1 < MaxAttempts
  /\ \/ state[i] = "none"
     \/ state[i] = "retryable_failed" /\ <<i, tries[i]>> \in ripe[d]

\* not_before_ts is left out: it only keeps a message from the list for longer.
Due(d, i) ==
  /\ Eligible(i) /\ tries[i] < MaxAttempts
  /\ \/ state[i] = "none"
     \/ state[i] = "retryable_failed" /\ <<i, tries[i]>> \in ripe[d]

List(d) ==
  /\ pc[d] = "swept"
  /\ queue' = [queue EXCEPT ![d] = {i \in Intents : Due(d, i)}]
  /\ ripe' = [ripe EXCEPT ![d] = {}]
  /\ pc' = [pc EXCEPT ![d] = "loop"]
  /\ UNCHANGED <<epoch, epochs, lease, epochOf, attempt, overdue, cur, no,
                 answer, taken, faults>>

Permitted_Unfenced(d, i) == Eligible(i) /\ state[i] \notin Blocking

\* The lease now expires a whole LeaseTtl after the reading it is compared
\* with, the renewal's own, so while owner and token stand it has not.
Permitted(d, i) ==
  fence = d /\ owner = d /\ Eligible(i) /\ state[i] \notin Blocking

\* The attempt's started_ts is that reading too: its age when the row appears
\* is however long the dispatcher stood between the two transactions.
Begin(d, old) ==
  LET i == cur[d] IN
  /\ pc[d] = "renewed"
  /\ \/ /\ Permitted(d, i)
        /\ state' = [state EXCEPT ![i] = "in_flight"]
        /\ tries' = [tries EXCEPT ![i] = @ + 1]
        /\ age' = [age EXCEPT ![i] = old] /\ wait' = [wait EXCEPT ![i] = 0]
        /\ no' = [no EXCEPT ![d] = tries[i] + 1]
        /\ pc' = [pc EXCEPT ![d] = "begun"]
        /\ UNCHANGED <<queue, cur>>
     \/ /\ ~Permitted(d, i)
        /\ Break(d)
        /\ UNCHANGED attempt
  /\ UNCHANGED <<epoch, epochs, lease, epochOf, overdue, ripe, answer, taken,
                 faults>>

Took_TimeoutRefuses(i, a, t) ==
  \/ a \in {"succeeded", "uncertain", "retryable_failed"} /\ t = taken[i] + 1
  \/ a # "succeeded" /\ t = taken[i]

\* How often the message of i was taken if the answer is a: a request without a
\* usable answer (deadline, exception, invalid response) leaves it open, while a
\* provider that reports a failure has not taken it.
Took(i, a, t) ==
  \/ a \in {"succeeded", "uncertain"} /\ t = taken[i] + 1
  \/ a # "succeeded" /\ t = taken[i]

Send(d, a) ==
  /\ pc[d] = "begun"
  /\ \E t \in {taken[cur[d]], taken[cur[d]] + 1} :
       Took(cur[d], a, t) /\ taken' = [taken EXCEPT ![cur[d]] = t]
  /\ answer' = [answer EXCEPT ![d] = a]
  /\ pc' = [pc EXCEPT ![d] = "answered"]
  /\ UNCHANGED <<epoch, epochs, lease, epochOf, attempt, overdue, ripe, queue,
                 cur, no, faults>>

\* The attempt is in flight still.
Open(i, n) == state[i] = "in_flight" /\ tries[i] = n

\* A result without the lease makes the attempt uncertain; one whose attempt
\* was quarantined meanwhile changes nothing.
Finish(d, late, delay) ==
  LET i == cur[d]
      outcome == IF Held(d, late) THEN answer[d] ELSE "uncertain"
  IN
  /\ pc[d] = "answered"
  /\ IF Open(i, no[d])
     THEN /\ state' = [state EXCEPT ![i] = outcome]
          /\ age' = [age EXCEPT ![i] = 0]
          /\ wait' = [wait EXCEPT ![i] =
               IF outcome = "retryable_failed" THEN delay ELSE 0]
     ELSE UNCHANGED <<state, age, wait>>
  /\ pc' = [pc EXCEPT ![d] = "loop"]
  /\ cur' = [cur EXCEPT ![d] = None] /\ no' = [no EXCEPT ![d] = 0]
  /\ answer' = [answer EXCEPT ![d] = "uncertain"]
  /\ UNCHANGED <<epoch, epochs, lease, epochOf, tries, overdue, ripe, queue, taken,
                 faults>>

-----------------------------------------------------------------------------
(* Faults and time *)

\* A repository call raises: the finally clause runs, or was what failed.
StorageError(d) ==
  /\ pc[d] \notin {"idle", "begun"} /\ faults < MaxFaults
  /\ faults' = faults + 1
  /\ IF pc[d] = "loop" /\ queue[d] = {}
     THEN pc' = [pc EXCEPT ![d] = "idle"] /\ UNCHANGED <<queue, cur, no>>
     ELSE Break(d)
  /\ overdue' = [overdue EXCEPT ![d] = {}] /\ ripe' = [ripe EXCEPT ![d] = {}]
  /\ answer' = [answer EXCEPT ![d] = "uncertain"]
  /\ UNCHANGED <<epoch, epochs, lease, epochOf, attempt, taken>>

\* The process dies, maybe with its request on the way; its successor has an
\* instance id of its own.
Crash(d) ==
  /\ faults < MaxFaults
  /\ faults' = faults + 1
  /\ owner' = IF owner = d THEN None ELSE owner
  /\ pc' = [pc EXCEPT ![d] = "idle"]
  /\ overdue' = [overdue EXCEPT ![d] = {}] /\ ripe' = [ripe EXCEPT ![d] = {}]
  /\ queue' = [queue EXCEPT ![d] = {}]
  /\ cur' = [cur EXCEPT ![d] = None] /\ no' = [no EXCEPT ![d] = 0]
  /\ answer' = [answer EXCEPT ![d] = "uncertain"]
  /\ \/ UNCHANGED taken
     \/ pc[d] = "begun" /\ taken' = [taken EXCEPT ![cur[d]] = @ + 1]
  /\ UNCHANGED <<epoch, epochs, left, fence, epochOf, attempt>>

Down(t) == IF t = 0 THEN 0 ELSE t - 1

\* A dispatcher is expected to renew or release in time: a lease that runs
\* out under its owner's call counts as a fault.
Tick ==
  /\ faults' = IF left = 1 /\ \E d \in Dispatchers : owner = d /\ fence = d /\ pc[d] # "idle"
               THEN faults + 1 ELSE faults
  /\ faults' <= MaxFaults
  /\ left' = Down(left)
  /\ age' = [i \in Intents |-> IF state[i] = "in_flight" /\ age[i] < AttemptTimeout
                               THEN age[i] + 1 ELSE age[i]]
  /\ wait' = [i \in Intents |-> Down(wait[i])]
  /\ UNCHANGED <<epoch, epochs, owner, fence, epochOf, state, tries, dispatch,
                 taken>>

-----------------------------------------------------------------------------
CallStep(d) ==
  \/ Quarantine(d) \/ List(d) \/ Release(d)
  \/ \E i \in Intents, late \in Lates : Renew(d, i, late)
  \/ \E old \in 0..AttemptTimeout : Begin(d, old)
  \/ \E a \in Answers : Send(d, a)
  \/ \E late \in Lates, delay \in RetryDelays : Finish(d, late, delay)

Next ==
  \/ ActivateEpoch \/ CloseEpoch \/ Tick
  \/ \E i \in Intents, e \in 0..MaxEpochs : Append(i, e)
  \/ \E d \in Dispatchers : Acquire(d) \/ CallStep(d) \/ StorageError(d) \/ Crash(d)

Spec == Init /\ [][Next]_vars

\* Some dispatcher is at work whenever there is work it can do, and time passes.
\* No dispatcher is promised a turn of its own: one that stalls may stay away.
Fairness ==
  /\ WF_vars(Tick)
  /\ WF_vars(\E d \in Dispatchers : Acquire(d) \/ CallStep(d))

FairSpec == Spec /\ Fairness

-----------------------------------------------------------------------------
(* Properties *)

TypeOK ==
  /\ epoch \in 0..MaxEpochs /\ epochs \in 0..MaxEpochs
  /\ owner \in Dispatchers \cup {None} /\ fence \in Dispatchers \cup {None}
  /\ left \in 0..LeaseTtl
  /\ epochOf \in [Intents -> 0..MaxEpochs] /\ state \in [Intents -> States]
  /\ tries \in [Intents -> Nat] /\ wait \in [Intents -> Nat]
  /\ age \in [Intents -> 0..AttemptTimeout]
  /\ pc \in [Dispatchers ->
       {"idle", "acquired", "swept", "loop", "renewed", "begun", "answered"}]
  /\ overdue \in [Dispatchers -> SUBSET (Intents \X Nat)]
  /\ ripe \in [Dispatchers -> SUBSET (Intents \X Nat)]
  /\ queue \in [Dispatchers -> SUBSET Intents]
  /\ cur \in [Dispatchers -> Intents \cup {None}] /\ no \in [Dispatchers -> Nat]
  /\ answer \in [Dispatchers -> Answers]
  /\ taken \in [Intents -> Nat]
  /\ faults \in 0..MaxFaults

\* However dispatchers crash, stall over their lease or report late, the
\* provider takes a message at most once: an attempt whose outcome is in doubt
\* is never repeated (delivery.py, the blocking states and the quarantine).
AtMostOnce == \A i \in Intents : taken[i] <= 1

\* An attempt begins only when it is due at that moment, though the queue was
\* read before: attempts are left, the wait is over, the epoch is the active
\* one, and no attempt is open (dispatcher.py lists once, then sends for long).
AttemptsEarned ==
  [][\A i \in Intents : tries'[i] # tries[i] =>
       /\ tries[i] < MaxAttempts /\ tries'[i] = tries[i] + 1
       /\ state[i] \in {"none", "retryable_failed"} /\ wait[i] = 0
       /\ Eligible(i)]_vars

\* What the outbox says of a message, in the words of Mailbox.
StatusOf(i) ==
  IF state[i] = "none" /\ epochOf[i] = 0 THEN "shelved"
  ELSE IF state[i] \in {"none", "retryable_failed"} THEN "waiting"
  ELSE IF state[i] = "in_flight" THEN "sending"
  ELSE IF state[i] = "succeeded" THEN "delivered"
  ELSE IF state[i] = "permanent_failed" THEN "refused"
  ELSE IF state[i] = "uncertain" THEN "unknown"
  ELSE "absent"

status == [i \in Intents |-> StatusOf(i)]

M == INSTANCE Mailbox

\* The outbox keeps the promises of Mailbox: "delivered" only of a message that
\* was taken, a retry or "refused" only of one that was not, "unknown" for ever.
KeepsMailbox == M!Spec

\* An attempt its writer never finished does not stay in flight: a later call
\* quarantines it (quarantine_stale_delivery_attempts).
StaleSettles ==
  \A i \in Intents : state[i] = "in_flight" ~> state[i] # "in_flight"

Concluded(i) ==
  \/ state[i] \in {"succeeded", "permanent_failed", "uncertain"}
  \/ state[i] = "retryable_failed" /\ tries[i] = MaxAttempts

\* An intent of an epoch that stays active is concluded: delivered, refused,
\* given up after max_attempts, or left in doubt for an operator.
Concludes ==
  \A i \in Intents : Eligible(i) ~> (Concluded(i) \/ ~Eligible(i))
=============================================================================

----------------------------- MODULE RelayLease -----------------------------
(***************************************************************************)
(* The delivery route: the stream engine publishes either directly         *)
(* (FALLBACK) or through a relay on another host (PRIMARY), which forwards *)
(* what the engine's sender pushes to it while it holds a lease            *)
(* (src/stream_core/runtime_boundary_entrypoint.py, engine/                *)
(* relay_lease_client.py, ops/relay/relay_guard.py, relay_lease.py and     *)
(* relay_supervisor.py).                                                   *)
(*                                                                         *)
(* Nothing bounds how long the engine, the network or the guard take for a *)
(* step: a guard that is slow, stuck in an API call or stopped is one that *)
(* does not take its next step.  Only the supervisor, which polls a file   *)
(* ten times a second, acts before time passes.  All times are what is     *)
(* left of them, on the relay's clock; Pass lets one unit go by.           *)
(*                                                                         *)
(* The operator's grant caps every expiry, so its end is the end of every  *)
(* lease.  Of the input the guard may find that it is stale or fresh; of   *)
(* the API and the outputs, that they fail; of the clock, that it jumped.  *)
(***************************************************************************)
EXTENDS Integers

CONSTANTS
  LEASE,     \* how long a lease lasts
  HEARTBEAT, \* age of the guard's status at which the supervisor kills it
  START,     \* how long the supervisor waits for the first status
  Senders,   \* identities of sender processes
  Relays     \* identities of guard processes

ASSUME RelayAssumption ==
  /\ LEASE \in Nat \ {0} /\ HEARTBEAT \in Nat \ {0} /\ START \in Nat
  /\ HEARTBEAT <= START
  /\ Senders \subseteq Nat \ {0} /\ Relays \subseteq Nat \ {0}

VARIABLES
  engine,   \* the engine's process is up
  bound,    \* relay_instance of its delivery configuration
  granted,  \* the operator's grant lasts
  route,    \* _delivery_route
  switched, \* _delivery_route_generation > 1
  sender,   \* where the FFmpeg sender pushes to
  sid,      \* its identity, sender_instance of a lease (of a relayed one only)
  client,   \* _relay_lease_client
  asked,    \* its request: none, sent, or admitted by the guard
  switch,   \* where a SWITCH_STREAM_ROUTE is
  posted,   \* the leases that were signed and are neither spent nor expired
  inst,     \* the guard's instance; Nobody when the supervisor has ended it
  guard,    \* where its main loop is
  halted,   \* Guard.halted
  media,    \* MediaMTX runs
  enabled,  \* it is configured to forward
  input,    \* the sender whose connection publishes to it
  seen,     \* Guard.input_id
  holder,   \* sender_instance of Guard.lease
  left,     \* what is left of it
  pulse,    \* what is left until the status file is too old
  fileLeft, \* lease_elapsed_deadline in the status file
  fileHalt, \* halted in the status file
  beside,   \* history: how long this guard's relay published beside a direct sender
  bare      \* history: how long it publishes without cover

engineVars == <<engine, bound, granted, route, switched>>
senderVars == <<sender, sid>>
clientVars == <<client, asked, switch>>
guardVars == <<guard, halted, media, enabled>>
leaseVars == <<holder, left>>
fileVars == <<pulse, fileLeft, fileHalt>>
hist == <<beside, bare>>
vars == <<engineVars, senderVars, clientVars, posted, inst, guardVars, input, seen,
          leaseVars, fileVars, hist>>

Nobody == 0
None == -1 \* Python's None: no lease in the status file

Publishing == media /\ enabled
Direct == sender = "direct"

\* What the guard holds against its forwarding, when it looks.
Covered == left > 0 /\ input # Nobody /\ input = seen

\* A random identity is one that nothing compares any more.
Fresh(ids, used) == {i \in ids \ used : \A j \in ids \ used : i <= j}

Working == guard # "gone" /\ ~halted

FreshSenders ==
  Fresh(Senders, IF Working
                 THEN {input, seen, holder} \cup {l.sid : l \in posted} ELSE {})
FreshRelays == Fresh(Relays, {inst, bound} \cup {l.inst : l \in posted})

Init ==
  /\ engine = FALSE /\ bound = Nobody /\ granted = FALSE
  /\ route = "FALLBACK" /\ switched = FALSE
  /\ sender = "none" /\ sid = Nobody
  /\ client = "none" /\ asked = "no" /\ switch = "none"
  /\ posted = {}
  /\ inst = Nobody /\ guard = "gone" /\ halted = TRUE /\ media = FALSE
  /\ enabled = FALSE /\ input = Nobody /\ seen = Nobody
  /\ holder = Nobody /\ left = 0
  /\ pulse = 0 /\ fileLeft = None /\ fileHalt = FALSE
  /\ beside = 0 /\ bare = 0

-----------------------------------------------------------------------------
(* The engine.                                                             *)

\* Mutant: the route survives the process.
StartEngine_KeepsRoute ==
  /\ ~engine
  /\ engine' = TRUE /\ switched' = FALSE
  /\ \/ UNCHANGED <<bound, granted>>
     \/ inst # Nobody /\ bound' = inst /\ granted' = TRUE
  /\ UNCHANGED <<route, senderVars, clientVars, posted, inst, guardVars, input, seen,
                 leaseVars, fileVars, hist>>

\* The process starts, on the direct route; the operator may have bound its
\* configuration to the present guard, with a new grant.
StartEngine ==
  /\ ~engine
  /\ engine' = TRUE /\ route' = "FALLBACK" /\ switched' = FALSE
  /\ \/ UNCHANGED <<bound, granted>>
     \/ inst # Nobody /\ bound' = inst /\ granted' = TRUE
  /\ UNCHANGED <<senderVars, clientVars, posted, inst, guardVars, input, seen,
                 leaseVars, fileVars, hist>>

\* What the end of the engine's process leaves of it.
Ends ==
  /\ engine' = FALSE /\ sender' = "none" /\ sid' = Nobody
  /\ client' = "none" /\ asked' = "no" /\ switch' = "none"
  /\ UNCHANGED <<bound, granted, route, switched, posted, inst, guardVars, input,
                 seen, leaseVars, fileVars, hist>>

EngineDies == engine /\ Ends

\* launch_delivery_ffmpeg, in the engine's loop when no sender runs, under the
\* lock that a switch holds.
Launching == engine /\ sender = "none" /\ switch = "none" /\ client # "starting"

\* A blocked client, or a pipeline that has nothing to send, ends the engine; any
\* other client makes room for a sender of the present route.
LaunchFails == Launching /\ Ends

LaunchRelayed ==
  /\ Launching /\ client # "blocked" /\ route = "PRIMARY"
  /\ sender' = "dialing" /\ sid' \in FreshSenders
  /\ client' = "starting" /\ asked' = "no"
  /\ UNCHANGED <<engineVars, switch, posted, inst, guardVars, input, seen,
                 leaseVars, fileVars, hist>>

LaunchDirect ==
  /\ Launching /\ client # "blocked" /\ route = "FALLBACK"
  /\ sender' = "direct" /\ sid' = Nobody
  /\ client' = "none" /\ asked' = "no"
  /\ UNCHANGED <<engineVars, switch, posted, inst, guardVars, input, seen,
                 leaseVars, fileVars, hist>>

Launch == LaunchFails \/ LaunchRelayed \/ LaunchDirect

\* The sender exits: its pipe was closed, a signal, its peer, or an error.
SenderExits ==
  /\ sender # "none"
  /\ sender' = "none"
  /\ UNCHANGED <<engineVars, sid, clientVars, posted, inst, guardVars, input, seen,
                 leaseVars, fileVars, hist>>

-----------------------------------------------------------------------------
(* RelayLeaseClient.                                                       *)

Ticking == client \in {"starting", "renewing"}

\* tick: the guard answers, the sender runs, the source progresses: a lease of the
\* next sequence number is signed and sent.
Post ==
  /\ Ticking /\ asked = "no" /\ sender \in {"dialing", "relay"} /\ granted
  /\ inst = bound /\ Working
  /\ posted' = posted \cup {[inst |-> bound, sid |-> sid, left |-> LEASE]}
  /\ asked' = "sent"
  /\ UNCHANGED <<engineVars, senderVars, client, switch, inst, guardVars, input,
                 seen, leaseVars, fileVars, hist>>

\* Mutant: the answer is not compared with the request.
Acknowledged_Unmatched ==
  /\ Ticking /\ asked # "no"
  /\ client' = "renewing" /\ asked' = "no"
  /\ UNCHANGED <<engineVars, senderVars, switch, posted, inst, guardVars, input,
                 seen, leaseVars, fileVars, hist>>

\* The answer is the guard's status with this sequence number.
Acknowledged ==
  /\ Ticking /\ asked = "admitted"
  /\ client' = "renewing" /\ asked' = "no"
  /\ UNCHANGED <<engineVars, senderVars, switch, posted, inst, guardVars, input,
                 seen, leaseVars, fileVars, hist>>

\* Anything else - no answer in time, a refusal, a stale source, the end of the
\* grant: the first tick fails the launch and ends the engine, a later one blocks
\* the client and closes the sender's pipe.
TickFails ==
  \/ client = "starting" /\ Ends
  \/ /\ client = "renewing"
     /\ client' = "blocked" /\ asked' = "no"
     /\ UNCHANGED <<engineVars, senderVars, switch, posted, inst, guardVars, input,
                    seen, leaseVars, fileVars, hist>>

ClientStep == Post \/ Acknowledged \/ TickFails

-----------------------------------------------------------------------------
(* Guard.                                                                  *)

\* Guard.stop: MediaMTX is down when it returns, and stays so.
Halt ==
  /\ halted' = TRUE /\ enabled' = FALSE /\ media' = FALSE /\ input' = Nobody
  /\ guard' = "ticked"

\* accept and admit, between two ticks: for this instance, in time, and from the
\* sender that the lease before named.  Every lease under way has the sequence
\* number after the high-water mark, since a client asks for the mark and awaits
\* the answer before the next: the one that is admitted makes the rest replays.
Accept(l) ==
  /\ guard \in {"idle", "ticked"} /\ ~halted
  /\ l.inst = inst /\ holder \in {Nobody, l.sid}
  /\ holder' = l.sid /\ left' = l.left
  /\ posted' = {m \in posted : m.inst # inst}
  /\ asked' = IF asked = "sent" /\ l.sid = sid THEN "admitted" ELSE asked
  /\ UNCHANGED <<engineVars, senderVars, client, switch, inst, guardVars, input,
                 seen, fileVars, hist>>

\* Mutant: the guard keeps forwarding when its input has gone.
MustStop_InputGone ==
  \/ ~media
  \/ holder # Nobody /\ left = 0
  \/ input # Nobody /\ seen # Nobody /\ input # seen

\* The checks at the beginning of a tick that stop the guard for certain.
MustStop ==
  \/ ~media
  \/ holder # Nobody /\ left = 0
  \/ input # Nobody /\ seen # Nobody /\ input # seen
  \/ enabled /\ input = Nobody

\* tick passes them, and finds a fresh input to forward or nothing to do.
Look ==
  /\ guard = "idle" /\ ~halted /\ ~MustStop
  /\ seen' = IF input # Nobody THEN input ELSE seen
  /\ bare' = IF Publishing /\ ~Covered THEN bare ELSE 0
  /\ \/ guard' = "ticked"
     \/ ~enabled /\ holder # Nobody /\ input # Nobody /\ guard' = "looked"
  /\ UNCHANGED <<engineVars, senderVars, clientVars, posted, inst, halted, media,
                 enabled, input, leaseVars, fileVars, beside>>

\* The lease again, right before the request to forward ...
Recheck ==
  /\ guard = "looked" /\ left > 0
  /\ guard' = "checked"
  /\ UNCHANGED <<engineVars, senderVars, clientVars, posted, inst, halted, media,
                 enabled, input, seen, leaseVars, fileVars, hist>>

\* ... which MediaMTX carries out when it comes.
Forward ==
  /\ guard = "checked" /\ media
  /\ enabled' = TRUE /\ guard' = "ticked"
  /\ UNCHANGED <<engineVars, senderVars, clientVars, posted, inst, halted, media,
                 input, seen, leaseVars, fileVars, hist>>

\* The guard stops: for MustStop, for any other of its checks, or for an error.
Stops ==
  /\ Working
  /\ Halt
  /\ UNCHANGED <<engineVars, senderVars, clientVars, posted, inst, seen, leaseVars,
                 fileVars, hist>>

\* The process is gone with what it remembered.
Gone == guard' = "gone" /\ seen' = Nobody /\ holder' = Nobody /\ left' = 0

\* watchdog_status, after every tick; a halted guard then exits.
Beat ==
  /\ guard = "ticked"
  /\ pulse' = HEARTBEAT /\ fileHalt' = halted
  /\ fileLeft' = IF holder = Nobody THEN None ELSE left
  /\ \/ halted /\ Gone
     \/ ~halted /\ guard' = "idle" /\ UNCHANGED <<seen, leaseVars>>
  /\ UNCHANGED <<engineVars, senderVars, clientVars, posted, inst, halted, media,
                 enabled, input, hist>>

\* The process dies and leaves MediaMTX behind.
GuardDies ==
  /\ guard # "gone"
  /\ Gone
  /\ UNCHANGED <<engineVars, senderVars, clientVars, posted, inst, halted, media,
                 enabled, input, fileVars, hist>>

GuardStep == Look \/ Recheck \/ Forward \/ Stops \/ Beat

-----------------------------------------------------------------------------
(* SWITCH_STREAM_ROUTE, in a worker thread of the engine, under the lock.  *)

\* To the direct route: the client is closed.  There must be one.
LeaveRelay ==
  /\ engine /\ switch = "none" /\ client # "starting" /\ sender # "none"
  /\ route = "PRIMARY" /\ client # "none"
  /\ client' = IF client = "blocked" THEN "blocked" ELSE "closed"
  /\ asked' = "no" /\ switch' = "stopping"
  /\ UNCHANGED <<engineVars, senderVars, posted, inst, guardVars, input, seen,
                 leaseVars, fileVars, hist>>

\* Mutant: the switch asks the relay to stop and does not wait for the receipt.
StopReceipt_NotAwaited ==
  /\ switch = "stopping"
  /\ client' = "none" /\ switch' = "ready"
  /\ UNCHANGED <<engineVars, senderVars, asked, posted, inst, guardVars, input, seen,
                 leaseVars, fileVars, hist>>

\* stop_receipt: the bound guard has halted and seen MediaMTX exit.
StopReceipt ==
  /\ switch = "stopping"
  /\ inst = bound /\ inst # Nobody /\ guard \in {"idle", "ticked"}
  /\ Halt
  /\ client' = "none" /\ switch' = "ready"
  /\ UNCHANGED <<engineVars, senderVars, asked, posted, inst, seen, leaseVars,
                 fileVars, hist>>

\* To the relay.
EnterRelay ==
  /\ engine /\ switch = "none" /\ client # "starting" /\ sender # "none"
  /\ route = "FALLBACK"
  /\ switch' = "ready"
  /\ UNCHANGED <<engineVars, senderVars, client, asked, posted, inst, guardVars,
                 input, seen, leaseVars, fileVars, hist>>

\* The sender is told to exit, if the grant has not ended by now.
RestartSender ==
  /\ switch = "ready" /\ granted /\ sender # "none"
  /\ switch' = "ending"
  /\ UNCHANGED <<engineVars, senderVars, client, asked, posted, inst, guardVars,
                 input, seen, leaseVars, fileVars, hist>>

ChangeRoute ==
  /\ switch = "ending" /\ sender = "none"
  /\ route' = IF route = "PRIMARY" THEN "FALLBACK" ELSE "PRIMARY"
  /\ switched' = TRUE /\ switch' = "none"
  /\ UNCHANGED <<engine, bound, granted, senderVars, client, asked, posted, inst,
                 guardVars, input, seen, leaseVars, fileVars, hist>>

\* It is rejected or its outcome unknown: no receipt, the grant has ended, the
\* sender is not the one it was, or its exit was not observed in time.
SwitchFails ==
  /\ switch # "none"
  /\ switch' = "none"
  /\ UNCHANGED <<engineVars, senderVars, client, asked, posted, inst, guardVars,
                 input, seen, leaseVars, fileVars, hist>>

SwitchStep == StopReceipt \/ RestartSender \/ ChangeRoute \/ SwitchFails

-----------------------------------------------------------------------------
(* The network, the supervisor and time.                                   *)

\* A sender connects once.  MediaMTX lets it replace another one.
Connect ==
  /\ sender = "dialing" /\ media
  /\ sender' = "relay" /\ input' = sid
  /\ UNCHANGED <<engineVars, sid, clientVars, posted, inst, guardVars, seen,
                 leaseVars, fileVars, hist>>

\* A connection ends, however long after its sender did.
Disconnect ==
  /\ input # Nobody
  /\ input' = Nobody
  /\ UNCHANGED <<engineVars, senderVars, clientVars, posted, inst, guardVars, seen,
                 leaseVars, fileVars, hist>>

MediaDies ==
  /\ media
  /\ media' = FALSE /\ input' = Nobody
  /\ UNCHANGED <<engineVars, senderVars, clientVars, posted, inst, guard, halted,
                 enabled, seen, leaseVars, fileVars, hist>>

StartRelay ==
  /\ inst = Nobody
  /\ inst' \in FreshRelays
  /\ guard' = "idle" /\ halted' = FALSE /\ media' = TRUE /\ pulse' = START
  /\ UNCHANGED <<engineVars, senderVars, clientVars, posted, enabled, input, seen,
                 leaseVars, fileLeft, fileHalt, hist>>

\* Mutant: the supervisor does not look at the age of the file.
Due_AnyAge == fileHalt \/ fileLeft = 0

\* supervise: what the status file says, or does not say.
Due == fileHalt \/ pulse = 0 \/ fileLeft = 0

\* It ends the guard's process group when it is due, or when it is told to.
Kill ==
  /\ inst # Nobody
  /\ inst' = Nobody /\ guard' = "gone" /\ halted' = TRUE /\ media' = FALSE
  /\ enabled' = FALSE /\ input' = Nobody /\ seen' = Nobody
  /\ holder' = Nobody /\ left' = 0
  /\ pulse' = 0 /\ fileLeft' = None /\ fileHalt' = FALSE
  /\ beside' = 0 /\ bare' = 0
  /\ UNCHANGED <<engineVars, senderVars, clientVars, posted>>

\* Leases are capped by the grant.
GrantEnds ==
  /\ granted
  /\ granted' = FALSE
  /\ posted' = {}
  /\ IF inst = bound
     THEN left' = 0 /\ fileLeft' = IF fileLeft = None THEN None ELSE 0
     ELSE UNCHANGED <<left, fileLeft>>
  /\ UNCHANGED <<engine, bound, route, switched, senderVars, clientVars, inst,
                 guardVars, input, seen, holder, pulse, fileHalt, hist>>

\* Mutant: times run below zero.
Aged_Unfloored(t) == t - 1

Aged(t) == IF t > 0 THEN t - 1 ELSE t

\* One unit of time.  Before it passes the supervisor has done what was due.
Pass ==
  /\ inst # Nobody => ~Due
  /\ left' = Aged(left) /\ pulse' = Aged(pulse) /\ fileLeft' = Aged(fileLeft)
  /\ posted' = {[inst |-> l.inst, sid |-> l.sid, left |-> l.left - 1] :
                  l \in {m \in posted : m.left > 1}}
  /\ beside' = IF Direct /\ Publishing THEN beside + 1 ELSE beside
  /\ bare' = IF Publishing /\ ~Covered THEN bare + 1 ELSE 0
  /\ UNCHANGED <<engineVars, senderVars, clientVars, inst, guardVars, input, seen,
                 holder, fileHalt>>

-----------------------------------------------------------------------------
Next ==
  \/ StartEngine \/ EngineDies \/ Launch \/ SenderExits
  \/ ClientStep
  \/ (\E l \in posted : Accept(l)) \/ GuardStep \/ GuardDies
  \/ LeaveRelay \/ EnterRelay \/ SwitchStep
  \/ Connect \/ Disconnect \/ MediaDies \/ StartRelay \/ Kill \/ GrantEnds
  \/ Pass

Spec == Init /\ [][Next]_vars

-----------------------------------------------------------------------------
(* Properties.                                                             *)

TypeOK ==
  /\ engine \in BOOLEAN /\ granted \in BOOLEAN /\ switched \in BOOLEAN
  /\ bound \in Relays \cup {Nobody} /\ inst \in Relays \cup {Nobody}
  /\ route \in {"PRIMARY", "FALLBACK"}
  /\ sender \in {"none", "direct", "dialing", "relay"}
  /\ {sid, input, seen, holder} \subseteq Senders \cup {Nobody}
  /\ client \in {"none", "starting", "renewing", "closed", "blocked"}
  /\ asked \in {"no", "sent", "admitted"}
  /\ switch \in {"none", "stopping", "ready", "ending"}
  /\ posted \subseteq [inst : Relays, sid : Senders, left : 1 .. LEASE]
  /\ guard \in {"idle", "looked", "checked", "ticked", "gone"}
  /\ halted \in BOOLEAN /\ media \in BOOLEAN /\ enabled \in BOOLEAN
  /\ left \in 0 .. LEASE /\ fileLeft \in None .. LEASE
  /\ pulse \in 0 .. START /\ fileHalt \in BOOLEAN
  /\ beside \in Nat /\ bare \in Nat

\* "FALLBACK is an explicit, fenced route transition": a direct sender that came
\* by a switch never publishes beside the relay.
SwitchFenced == Direct /\ switched => ~Publishing

\* An engine that died in PRIMARY comes back on the direct route without a
\* receipt; both then publish for no longer than a lease and a start take, beside
\* the seconds of the supervisor's own stop.
OverlapBounded == beside < LEASE + START

\* "Lease expiry, stale input, and output faults have bounded stop paths": the
\* relay forwards without a valid lease, without input or another input than the
\* one it was enabled for, for no longer than two rounds of a guard may take.
ReactionBounded == bare <= START + HEARTBEAT

\* The client that goes on renewing is the one whose lease the relay holds.
LeaseAgrees ==
  client = "renewing" /\ inst = bound /\ guard # "gone" => holder = sid

RelayOver == inst # bound \/ inst = Nobody \/ halted \/ guard = "gone"

Fairness ==
  /\ WF_vars(ClientStep) /\ WF_vars(SwitchStep)
  /\ WF_vars(StartEngine) /\ WF_vars(Launch) /\ SF_vars(LaunchDirect)
  /\ WF_vars((client = "blocked" \/ RelayOver) /\ sender # "direct" /\ SenderExits)

FairSpec == Spec /\ Fairness

\* A relay that is over does not strand the stream: the engine publishes directly
\* again, also when a switch had stopped the relay and then failed.
DirectAgain == route = "PRIMARY" /\ RelayOver ~> Direct
=============================================================================

-------------------------- MODULE RelayLeaseProofs --------------------------
(***************************************************************************)
(* Proofs about RelayLease, for every length of a lease, of a heartbeat    *)
(* and of a start, and for any identities of senders and guards.           *)
(***************************************************************************)
EXTENDS RelayLease, TLAPS

-----------------------------------------------------------------------------
(* The inductive invariant.  Two times run against each other: what is     *)
(* left (of a lease, of the file's lease, of the pulse) and what was spent *)
(* (beside, bare).  The sums of the two are what stays bounded, and they   *)
(* are stated only where the code still relies on what is left.            *)

\* There is no relay where no guard was started, and a guard that is gone holds
\* no lease.
Inhabited ==
  /\ inst = Nobody => guard = "gone" /\ ~media /\ ~enabled /\ beside = 0 /\ bare = 0
  /\ guard = "gone" => holder = Nobody /\ left = 0

HaltedIsOff == halted => ~media /\ ~enabled

\* A sender, a client and a switch belong to a process; a direct sender to the
\* direct route; a renewing client has an identity.
EngineAgrees ==
  /\ ~engine => sender = "none" /\ client = "none" /\ switch = "none"
  /\ Direct => route = "FALLBACK"
  /\ Ticking => sid # Nobody

\* Only the guard that the configuration names has leases, or forwards.
BoundHere ==
  /\ \A l \in posted : l.inst = inst => bound = inst
  /\ inst # Nobody /\ (holder # Nobody \/ enabled) => bound = inst

\* A guard that forwards, or is about to, holds a lease and knows its input.
Held ==
  /\ guard # "gone" /\ (enabled \/ guard \in {"looked", "checked"}) =>
       holder # Nobody /\ seen # Nobody
  /\ guard \in {"looked", "checked"} => ~halted /\ ~enabled
  /\ beside # 0 \/ bare # 0 => enabled \/ halted

\* Once a switch to the direct route has its receipt, the bound relay is over.
Fenced ==
  \/ switched /\ route = "FALLBACK"
  \/ switch \in {"ready", "ending"} /\ route = "PRIMARY"
  => (inst = bound /\ inst # Nobody => halted)

\* The lease held is the client's from the moment the guard admits it.
Agreed ==
  /\ LeaseAgrees
  /\ Ticking /\ asked = "admitted" /\ inst = bound /\ guard # "gone" => holder = sid

\* While the relay publishes beside a direct sender nobody renews its lease: the
\* time spent and the time left of it never exceed one lease.
Overlap ==
  /\ beside > 0 /\ guard # "gone" => holder # Nobody
  /\ beside > 0 /\ Working /\ sender \in {"dialing", "relay"} => sid # holder
  /\ left > 0 => left + beside <= LEASE
  /\ \A l \in posted : l.inst = inst /\ l.sid = holder => l.left + beside <= LEASE
  /\ fileLeft > 0 => fileLeft + beside <= LEASE
  /\ fileLeft = None /\ Publishing => beside + pulse < LEASE + START
  /\ OverlapBounded

\* A guard that forwards without cover has one pulse to its next look, and one
\* more if it was between two looks.
Reaction ==
  /\ Publishing => bare + pulse <= START + HEARTBEAT
  /\ Publishing /\ guard \in {"looked", "checked", "ticked"} => bare + pulse <= START
  /\ ReactionBounded

IInv ==
  /\ TypeOK /\ Inhabited /\ HaltedIsOff /\ EngineAgrees /\ BoundHere /\ Held
  /\ Fenced /\ Agreed /\ Overlap /\ Reaction

-----------------------------------------------------------------------------
(* Preservation *)

\* IInv is inductive: an action by action account, by conjunct.
THEOREM Inductive == IInv /\ [Next]_vars => IInv'
<1> SUFFICES ASSUME IInv, [Next]_vars PROVE IInv'
  OBVIOUS
<1> USE RelayAssumption
<1> USE DEF vars, engineVars, senderVars, clientVars, guardVars, leaseVars, fileVars,
        hist, Nobody, None
<1>1. CASE UNCHANGED vars
  <2>1. TypeOK'
    BY <1>1 DEF IInv, TypeOK
  <2>2. Inhabited'
    BY <1>1 DEF IInv, Inhabited, TypeOK
  <2>3. HaltedIsOff'
    BY <1>1 DEF IInv, HaltedIsOff, TypeOK
  <2>4. EngineAgrees'
    BY <1>1 DEF IInv, EngineAgrees, Direct, Ticking, TypeOK
  <2>5. BoundHere'
    BY <1>1 DEF IInv, BoundHere, TypeOK
  <2>6. Held'
    BY <1>1 DEF IInv, Held, TypeOK
  <2>7. Fenced'
    BY <1>1 DEF IInv, Fenced, TypeOK
  <2>8. Agreed'
    BY <1>1 DEF IInv, Agreed, LeaseAgrees, Ticking, TypeOK
  <2>9. Overlap'
    BY <1>1 DEF IInv, Overlap, OverlapBounded, Publishing, Working, TypeOK
  <2>10. Reaction'
    BY <1>1 DEF IInv, Reaction, Publishing, ReactionBounded, TypeOK
  <2> QED
    BY <2>1, <2>2, <2>3, <2>4, <2>5, <2>6, <2>7, <2>8, <2>9, <2>10 DEF IInv
<1>2. CASE StartEngine
  <2>1. TypeOK'
    <3>1. engine' \in BOOLEAN /\ granted' \in BOOLEAN /\ switched' \in BOOLEAN
      BY <1>2, Zenon DEF IInv, StartEngine, TypeOK
    <3>2. halted' \in BOOLEAN /\ media' \in BOOLEAN /\ enabled' \in BOOLEAN
          /\ fileHalt' \in BOOLEAN
      BY <1>2, Zenon DEF IInv, StartEngine, TypeOK
    <3> QED
      BY <1>2, <3>1, <3>2 DEF IInv, StartEngine, TypeOK
  <2>2. Inhabited'
    BY <1>2 DEF IInv, StartEngine, Inhabited, TypeOK
  <2>3. HaltedIsOff'
    BY <1>2 DEF IInv, StartEngine, HaltedIsOff, TypeOK
  <2>4. EngineAgrees'
    BY <1>2 DEF IInv, StartEngine, EngineAgrees, Direct, Ticking, TypeOK
  <2>5. BoundHere'
    BY <1>2 DEF IInv, StartEngine, BoundHere, TypeOK
  <2>6. Held'
    BY <1>2 DEF IInv, StartEngine, Held, TypeOK
  <2>7. Fenced'
    BY <1>2 DEF IInv, StartEngine, Fenced, TypeOK, EngineAgrees, Direct, Ticking
  <2>8. Agreed'
    BY <1>2 DEF IInv, StartEngine, Agreed, LeaseAgrees, Ticking, TypeOK,
       EngineAgrees, Direct
  <2>9. Overlap'
    BY <1>2 DEF IInv, StartEngine, Overlap, OverlapBounded, Publishing, Working,
       TypeOK
  <2>10. Reaction'
    BY <1>2 DEF IInv, StartEngine, Reaction, Publishing, ReactionBounded, TypeOK
  <2> QED
    BY <2>1, <2>2, <2>3, <2>4, <2>5, <2>6, <2>7, <2>8, <2>9, <2>10 DEF IInv
<1>3. CASE EngineDies
  <2>1. TypeOK'
    <3>1. engine' \in BOOLEAN /\ granted' \in BOOLEAN /\ switched' \in BOOLEAN
      BY <1>3, Zenon DEF IInv, EngineDies, Ends, TypeOK
    <3>2. halted' \in BOOLEAN /\ media' \in BOOLEAN /\ enabled' \in BOOLEAN
          /\ fileHalt' \in BOOLEAN
      BY <1>3, Zenon DEF IInv, EngineDies, Ends, TypeOK
    <3> QED
      BY <1>3, <3>1, <3>2 DEF IInv, EngineDies, Ends, TypeOK
  <2>2. Inhabited'
    BY <1>3 DEF IInv, EngineDies, Ends, Inhabited, TypeOK
  <2>3. HaltedIsOff'
    BY <1>3 DEF IInv, EngineDies, Ends, HaltedIsOff, TypeOK
  <2>4. EngineAgrees'
    BY <1>3 DEF IInv, EngineDies, Ends, EngineAgrees, Direct, Ticking, TypeOK
  <2>5. BoundHere'
    BY <1>3 DEF IInv, EngineDies, Ends, BoundHere, TypeOK
  <2>6. Held'
    BY <1>3 DEF IInv, EngineDies, Ends, Held, TypeOK
  <2>7. Fenced'
    BY <1>3 DEF IInv, EngineDies, Ends, Fenced, TypeOK
  <2>8. Agreed'
    BY <1>3 DEF IInv, EngineDies, Ends, Agreed, LeaseAgrees, Ticking, TypeOK
  <2>9. Overlap'
    BY <1>3 DEF IInv, EngineDies, Ends, Overlap, OverlapBounded, Publishing,
       Working, TypeOK
  <2>10. Reaction'
    BY <1>3 DEF IInv, EngineDies, Ends, Reaction, Publishing, ReactionBounded,
       TypeOK
  <2> QED
    BY <2>1, <2>2, <2>3, <2>4, <2>5, <2>6, <2>7, <2>8, <2>9, <2>10 DEF IInv
<1>4. CASE LaunchFails
  <2>1. TypeOK'
    <3>1. engine' \in BOOLEAN /\ granted' \in BOOLEAN /\ switched' \in BOOLEAN
      BY <1>4, Zenon DEF IInv, LaunchFails, Ends, Launching, TypeOK
    <3>2. halted' \in BOOLEAN /\ media' \in BOOLEAN /\ enabled' \in BOOLEAN
          /\ fileHalt' \in BOOLEAN
      BY <1>4, Zenon DEF IInv, LaunchFails, Ends, Launching, TypeOK
    <3> QED
      BY <1>4, <3>1, <3>2 DEF IInv, LaunchFails, Ends, Launching, TypeOK
  <2>2. Inhabited'
    BY <1>4 DEF IInv, LaunchFails, Ends, Launching, Inhabited, TypeOK
  <2>3. HaltedIsOff'
    BY <1>4 DEF IInv, LaunchFails, Ends, Launching, HaltedIsOff, TypeOK
  <2>4. EngineAgrees'
    BY <1>4 DEF IInv, LaunchFails, Ends, Launching, EngineAgrees, Direct, Ticking,
       TypeOK
  <2>5. BoundHere'
    BY <1>4 DEF IInv, LaunchFails, Ends, Launching, BoundHere, TypeOK
  <2>6. Held'
    BY <1>4 DEF IInv, LaunchFails, Ends, Launching, Held, TypeOK
  <2>7. Fenced'
    BY <1>4 DEF IInv, LaunchFails, Ends, Launching, Fenced, TypeOK
  <2>8. Agreed'
    BY <1>4 DEF IInv, LaunchFails, Ends, Launching, Agreed, LeaseAgrees, Ticking,
       TypeOK
  <2>9. Overlap'
    BY <1>4 DEF IInv, LaunchFails, Ends, Launching, Overlap, OverlapBounded,
       Publishing, Working, TypeOK
  <2>10. Reaction'
    BY <1>4 DEF IInv, LaunchFails, Ends, Launching, Reaction, Publishing,
       ReactionBounded, TypeOK
  <2> QED
    BY <2>1, <2>2, <2>3, <2>4, <2>5, <2>6, <2>7, <2>8, <2>9, <2>10 DEF IInv
<1>5. CASE LaunchRelayed
  <2>1. TypeOK'
    <3>1. engine' \in BOOLEAN /\ granted' \in BOOLEAN /\ switched' \in BOOLEAN
      BY <1>5, Zenon DEF IInv, LaunchRelayed, FreshSenders, Launching, Fresh,
         Working, TypeOK
    <3>2. halted' \in BOOLEAN /\ media' \in BOOLEAN /\ enabled' \in BOOLEAN
          /\ fileHalt' \in BOOLEAN
      BY <1>5, Zenon DEF IInv, LaunchRelayed, FreshSenders, Launching, Fresh,
         Working, TypeOK
    <3> QED
      BY <1>5, <3>1, <3>2 DEF IInv, LaunchRelayed, FreshSenders, Launching, Fresh,
         Working, TypeOK
  <2>2. Inhabited'
    BY <1>5 DEF IInv, LaunchRelayed, FreshSenders, Launching, Fresh, Working,
       Inhabited, TypeOK
  <2>3. HaltedIsOff'
    BY <1>5 DEF IInv, LaunchRelayed, FreshSenders, Launching, Fresh, Working,
       HaltedIsOff, TypeOK
  <2>4. EngineAgrees'
    BY <1>5 DEF IInv, LaunchRelayed, FreshSenders, Launching, Fresh, Working,
       EngineAgrees, Direct, Ticking, TypeOK
  <2>5. BoundHere'
    BY <1>5 DEF IInv, LaunchRelayed, FreshSenders, Launching, Fresh, Working,
       BoundHere, TypeOK
  <2>6. Held'
    BY <1>5 DEF IInv, LaunchRelayed, FreshSenders, Launching, Fresh, Working, Held,
       TypeOK
  <2>7. Fenced'
    BY <1>5 DEF IInv, LaunchRelayed, FreshSenders, Launching, Fresh, Working,
       Fenced, TypeOK
  <2>8. Agreed'
    BY <1>5 DEF IInv, LaunchRelayed, FreshSenders, Launching, Fresh, Working,
       Agreed, LeaseAgrees, Ticking, TypeOK
  <2>9. Overlap'
    BY <1>5 DEF IInv, LaunchRelayed, FreshSenders, Launching, Fresh, Working,
       Overlap, OverlapBounded, Publishing, TypeOK
  <2>10. Reaction'
    BY <1>5 DEF IInv, LaunchRelayed, FreshSenders, Launching, Fresh, Working,
       Reaction, Publishing, ReactionBounded, TypeOK
  <2> QED
    BY <2>1, <2>2, <2>3, <2>4, <2>5, <2>6, <2>7, <2>8, <2>9, <2>10 DEF IInv
<1>6. CASE LaunchDirect
  <2>1. TypeOK'
    <3>1. engine' \in BOOLEAN /\ granted' \in BOOLEAN /\ switched' \in BOOLEAN
      BY <1>6, Zenon DEF IInv, LaunchDirect, Launching, TypeOK
    <3>2. halted' \in BOOLEAN /\ media' \in BOOLEAN /\ enabled' \in BOOLEAN
          /\ fileHalt' \in BOOLEAN
      BY <1>6, Zenon DEF IInv, LaunchDirect, Launching, TypeOK
    <3> QED
      BY <1>6, <3>1, <3>2 DEF IInv, LaunchDirect, Launching, TypeOK
  <2>2. Inhabited'
    BY <1>6 DEF IInv, LaunchDirect, Launching, Inhabited, TypeOK
  <2>3. HaltedIsOff'
    BY <1>6 DEF IInv, LaunchDirect, Launching, HaltedIsOff, TypeOK
  <2>4. EngineAgrees'
    BY <1>6 DEF IInv, LaunchDirect, Launching, EngineAgrees, Direct, Ticking, TypeOK
  <2>5. BoundHere'
    BY <1>6 DEF IInv, LaunchDirect, Launching, BoundHere, TypeOK
  <2>6. Held'
    BY <1>6 DEF IInv, LaunchDirect, Launching, Held, TypeOK
  <2>7. Fenced'
    BY <1>6 DEF IInv, LaunchDirect, Launching, Fenced, TypeOK
  <2>8. Agreed'
    BY <1>6 DEF IInv, LaunchDirect, Launching, Agreed, LeaseAgrees, Ticking, TypeOK
  <2>9. Overlap'
    BY <1>6 DEF IInv, LaunchDirect, Launching, Overlap, OverlapBounded, Publishing,
       Working, TypeOK
  <2>10. Reaction'
    BY <1>6 DEF IInv, LaunchDirect, Launching, Reaction, Publishing,
       ReactionBounded, TypeOK
  <2> QED
    BY <2>1, <2>2, <2>3, <2>4, <2>5, <2>6, <2>7, <2>8, <2>9, <2>10 DEF IInv
<1>7. CASE SenderExits
  <2>1. TypeOK'
    <3>1. engine' \in BOOLEAN /\ granted' \in BOOLEAN /\ switched' \in BOOLEAN
      BY <1>7, Zenon DEF IInv, SenderExits, TypeOK
    <3>2. halted' \in BOOLEAN /\ media' \in BOOLEAN /\ enabled' \in BOOLEAN
          /\ fileHalt' \in BOOLEAN
      BY <1>7, Zenon DEF IInv, SenderExits, TypeOK
    <3> QED
      BY <1>7, <3>1, <3>2 DEF IInv, SenderExits, TypeOK
  <2>2. Inhabited'
    BY <1>7 DEF IInv, SenderExits, Inhabited, TypeOK
  <2>3. HaltedIsOff'
    BY <1>7 DEF IInv, SenderExits, HaltedIsOff, TypeOK
  <2>4. EngineAgrees'
    BY <1>7 DEF IInv, SenderExits, EngineAgrees, Direct, Ticking, TypeOK
  <2>5. BoundHere'
    BY <1>7 DEF IInv, SenderExits, BoundHere, TypeOK
  <2>6. Held'
    BY <1>7 DEF IInv, SenderExits, Held, TypeOK
  <2>7. Fenced'
    BY <1>7 DEF IInv, SenderExits, Fenced, TypeOK
  <2>8. Agreed'
    BY <1>7 DEF IInv, SenderExits, Agreed, LeaseAgrees, Ticking, TypeOK
  <2>9. Overlap'
    BY <1>7 DEF IInv, SenderExits, Overlap, OverlapBounded, Publishing, Working,
       TypeOK
  <2>10. Reaction'
    BY <1>7 DEF IInv, SenderExits, Reaction, Publishing, ReactionBounded, TypeOK
  <2> QED
    BY <2>1, <2>2, <2>3, <2>4, <2>5, <2>6, <2>7, <2>8, <2>9, <2>10 DEF IInv
<1>8. CASE Post
  <2>1. TypeOK'
    <3>1. engine' \in BOOLEAN /\ granted' \in BOOLEAN /\ switched' \in BOOLEAN
      BY <1>8, Zenon DEF IInv, Post, Ticking, Working, TypeOK, Inhabited,
         EngineAgrees, Direct
    <3>2. halted' \in BOOLEAN /\ media' \in BOOLEAN /\ enabled' \in BOOLEAN
          /\ fileHalt' \in BOOLEAN
      BY <1>8, Zenon DEF IInv, Post, Ticking, Working, TypeOK, Inhabited,
         EngineAgrees, Direct
    <3> QED
      BY <1>8, <3>1, <3>2 DEF IInv, Post, Ticking, Working, TypeOK, Inhabited,
         EngineAgrees, Direct
  <2>2. Inhabited'
    BY <1>8 DEF IInv, Post, Ticking, Working, Inhabited, TypeOK
  <2>3. HaltedIsOff'
    BY <1>8 DEF IInv, Post, Ticking, Working, HaltedIsOff, TypeOK
  <2>4. EngineAgrees'
    BY <1>8 DEF IInv, Post, Ticking, Working, EngineAgrees, Direct, TypeOK
  <2>5. BoundHere'
    BY <1>8 DEF IInv, Post, Ticking, Working, BoundHere, TypeOK
  <2>6. Held'
    BY <1>8 DEF IInv, Post, Ticking, Working, Held, TypeOK
  <2>7. Fenced'
    BY <1>8 DEF IInv, Post, Ticking, Working, Fenced, TypeOK
  <2>8. Agreed'
    BY <1>8 DEF IInv, Post, Ticking, Working, Agreed, LeaseAgrees, TypeOK
  <2>9. Overlap'
    BY <1>8 DEF IInv, Post, Ticking, Working, Overlap, OverlapBounded, Publishing,
       TypeOK, Inhabited
  <2>10. Reaction'
    BY <1>8 DEF IInv, Post, Ticking, Working, Reaction, Publishing, ReactionBounded,
       TypeOK
  <2> QED
    BY <2>1, <2>2, <2>3, <2>4, <2>5, <2>6, <2>7, <2>8, <2>9, <2>10 DEF IInv
<1>9. CASE Acknowledged
  <2>1. TypeOK'
    <3>1. engine' \in BOOLEAN /\ granted' \in BOOLEAN /\ switched' \in BOOLEAN
      BY <1>9, Zenon DEF IInv, Acknowledged, Ticking, TypeOK
    <3>2. halted' \in BOOLEAN /\ media' \in BOOLEAN /\ enabled' \in BOOLEAN
          /\ fileHalt' \in BOOLEAN
      BY <1>9, Zenon DEF IInv, Acknowledged, Ticking, TypeOK
    <3> QED
      BY <1>9, <3>1, <3>2 DEF IInv, Acknowledged, Ticking, TypeOK
  <2>2. Inhabited'
    BY <1>9 DEF IInv, Acknowledged, Ticking, Inhabited, TypeOK
  <2>3. HaltedIsOff'
    BY <1>9 DEF IInv, Acknowledged, Ticking, HaltedIsOff, TypeOK
  <2>4. EngineAgrees'
    BY <1>9 DEF IInv, Acknowledged, Ticking, EngineAgrees, Direct, TypeOK
  <2>5. BoundHere'
    BY <1>9 DEF IInv, Acknowledged, Ticking, BoundHere, TypeOK
  <2>6. Held'
    BY <1>9 DEF IInv, Acknowledged, Ticking, Held, TypeOK
  <2>7. Fenced'
    BY <1>9 DEF IInv, Acknowledged, Ticking, Fenced, TypeOK
  <2>8. Agreed'
    BY <1>9 DEF IInv, Acknowledged, Ticking, Agreed, LeaseAgrees, TypeOK
  <2>9. Overlap'
    BY <1>9 DEF IInv, Acknowledged, Ticking, Overlap, OverlapBounded, Publishing,
       Working, TypeOK
  <2>10. Reaction'
    BY <1>9 DEF IInv, Acknowledged, Ticking, Reaction, Publishing, ReactionBounded,
       TypeOK
  <2> QED
    BY <2>1, <2>2, <2>3, <2>4, <2>5, <2>6, <2>7, <2>8, <2>9, <2>10 DEF IInv
<1>10. CASE TickFails
  <2>1. TypeOK'
    <3>1. engine' \in BOOLEAN /\ granted' \in BOOLEAN /\ switched' \in BOOLEAN
      BY <1>10, Zenon DEF IInv, TickFails, Ends, TypeOK
    <3>2. halted' \in BOOLEAN /\ media' \in BOOLEAN /\ enabled' \in BOOLEAN
          /\ fileHalt' \in BOOLEAN
      BY <1>10, Zenon DEF IInv, TickFails, Ends, TypeOK
    <3> QED
      BY <1>10, <3>1, <3>2 DEF IInv, TickFails, Ends, TypeOK
  <2>2. Inhabited'
    BY <1>10 DEF IInv, TickFails, Ends, Inhabited, TypeOK
  <2>3. HaltedIsOff'
    BY <1>10 DEF IInv, TickFails, Ends, HaltedIsOff, TypeOK
  <2>4. EngineAgrees'
    BY <1>10 DEF IInv, TickFails, Ends, EngineAgrees, Direct, Ticking, TypeOK
  <2>5. BoundHere'
    BY <1>10 DEF IInv, TickFails, Ends, BoundHere, TypeOK
  <2>6. Held'
    BY <1>10 DEF IInv, TickFails, Ends, Held, TypeOK
  <2>7. Fenced'
    BY <1>10 DEF IInv, TickFails, Ends, Fenced, TypeOK
  <2>8. Agreed'
    BY <1>10 DEF IInv, TickFails, Ends, Agreed, LeaseAgrees, Ticking, TypeOK
  <2>9. Overlap'
    BY <1>10 DEF IInv, TickFails, Ends, Overlap, OverlapBounded, Publishing,
       Working, TypeOK
  <2>10. Reaction'
    BY <1>10 DEF IInv, TickFails, Ends, Reaction, Publishing, ReactionBounded,
       TypeOK
  <2> QED
    BY <2>1, <2>2, <2>3, <2>4, <2>5, <2>6, <2>7, <2>8, <2>9, <2>10 DEF IInv
<1>11. ASSUME NEW l \in posted, Accept(l) PROVE IInv'
  <2>1. TypeOK'
    <3>1. engine' \in BOOLEAN /\ granted' \in BOOLEAN /\ switched' \in BOOLEAN
      BY <1>11, Zenon DEF IInv, Accept, TypeOK
    <3>2. halted' \in BOOLEAN /\ media' \in BOOLEAN /\ enabled' \in BOOLEAN
          /\ fileHalt' \in BOOLEAN
      BY <1>11, Zenon DEF IInv, Accept, TypeOK
    <3> QED
      BY <1>11, <3>1, <3>2 DEF IInv, Accept, TypeOK
  <2>2. Inhabited'
    BY <1>11 DEF IInv, Accept, Inhabited, TypeOK
  <2>3. HaltedIsOff'
    BY <1>11 DEF IInv, Accept, HaltedIsOff, TypeOK
  <2>4. EngineAgrees'
    BY <1>11 DEF IInv, Accept, EngineAgrees, Direct, Ticking, TypeOK
  <2>5. BoundHere'
    BY <1>11 DEF IInv, Accept, BoundHere, TypeOK, Inhabited
  <2>6. Held'
    BY <1>11 DEF IInv, Accept, Held, TypeOK
  <2>7. Fenced'
    BY <1>11 DEF IInv, Accept, Fenced, TypeOK
  <2>8. Agreed'
    BY <1>11 DEF IInv, Accept, Agreed, LeaseAgrees, Ticking, TypeOK, Inhabited,
       EngineAgrees, Direct, BoundHere
  <2>9. Overlap'
    BY <1>11 DEF IInv, Accept, Overlap, OverlapBounded, Publishing, Working, TypeOK
  <2>10. Reaction'
    BY <1>11 DEF IInv, Accept, Reaction, Publishing, ReactionBounded, TypeOK
  <2> QED
    BY <2>1, <2>2, <2>3, <2>4, <2>5, <2>6, <2>7, <2>8, <2>9, <2>10 DEF IInv
<1>12. CASE Look
  <2>1. TypeOK'
    <3>1. engine' \in BOOLEAN /\ granted' \in BOOLEAN /\ switched' \in BOOLEAN
      BY <1>12, Zenon DEF IInv, Look, Covered, MustStop, Publishing, TypeOK
    <3>2. halted' \in BOOLEAN /\ media' \in BOOLEAN /\ enabled' \in BOOLEAN
          /\ fileHalt' \in BOOLEAN
      BY <1>12, Zenon DEF IInv, Look, Covered, MustStop, Publishing, TypeOK
    <3> QED
      BY <1>12, <3>1, <3>2 DEF IInv, Look, Covered, MustStop, Publishing, TypeOK
  <2>2. Inhabited'
    BY <1>12 DEF IInv, Look, Covered, MustStop, Publishing, Inhabited, TypeOK
  <2>3. HaltedIsOff'
    BY <1>12 DEF IInv, Look, Covered, MustStop, Publishing, HaltedIsOff, TypeOK
  <2>4. EngineAgrees'
    BY <1>12 DEF IInv, Look, Covered, MustStop, Publishing, EngineAgrees, Direct,
       Ticking, TypeOK
  <2>5. BoundHere'
    BY <1>12 DEF IInv, Look, Covered, MustStop, Publishing, BoundHere, TypeOK
  <2>6. Held'
    BY <1>12 DEF IInv, Look, Covered, MustStop, Publishing, Held, TypeOK
  <2>7. Fenced'
    BY <1>12 DEF IInv, Look, Covered, MustStop, Publishing, Fenced, TypeOK
  <2>8. Agreed'
    BY <1>12 DEF IInv, Look, Covered, MustStop, Publishing, Agreed, LeaseAgrees,
       Ticking, TypeOK
  <2>9. Overlap'
    BY <1>12 DEF IInv, Look, Covered, MustStop, Publishing, Overlap, OverlapBounded,
       Working, TypeOK
  <2>10. Reaction'
    BY <1>12 DEF IInv, Look, Covered, MustStop, Publishing, Reaction,
       ReactionBounded, TypeOK, Held, Inhabited
  <2> QED
    BY <2>1, <2>2, <2>3, <2>4, <2>5, <2>6, <2>7, <2>8, <2>9, <2>10 DEF IInv
<1>13. CASE Recheck
  <2>1. TypeOK'
    <3>1. engine' \in BOOLEAN /\ granted' \in BOOLEAN /\ switched' \in BOOLEAN
      BY <1>13, Zenon DEF IInv, Recheck, TypeOK
    <3>2. halted' \in BOOLEAN /\ media' \in BOOLEAN /\ enabled' \in BOOLEAN
          /\ fileHalt' \in BOOLEAN
      BY <1>13, Zenon DEF IInv, Recheck, TypeOK
    <3> QED
      BY <1>13, <3>1, <3>2 DEF IInv, Recheck, TypeOK
  <2>2. Inhabited'
    BY <1>13 DEF IInv, Recheck, Inhabited, TypeOK
  <2>3. HaltedIsOff'
    BY <1>13 DEF IInv, Recheck, HaltedIsOff, TypeOK
  <2>4. EngineAgrees'
    BY <1>13 DEF IInv, Recheck, EngineAgrees, Direct, Ticking, TypeOK
  <2>5. BoundHere'
    BY <1>13 DEF IInv, Recheck, BoundHere, TypeOK
  <2>6. Held'
    BY <1>13 DEF IInv, Recheck, Held, TypeOK
  <2>7. Fenced'
    BY <1>13 DEF IInv, Recheck, Fenced, TypeOK
  <2>8. Agreed'
    BY <1>13 DEF IInv, Recheck, Agreed, LeaseAgrees, Ticking, TypeOK
  <2>9. Overlap'
    BY <1>13 DEF IInv, Recheck, Overlap, OverlapBounded, Publishing, Working, TypeOK
  <2>10. Reaction'
    BY <1>13 DEF IInv, Recheck, Reaction, Publishing, ReactionBounded, TypeOK, Held
  <2> QED
    BY <2>1, <2>2, <2>3, <2>4, <2>5, <2>6, <2>7, <2>8, <2>9, <2>10 DEF IInv
<1>14. CASE Forward
  <2>1. TypeOK'
    <3>1. engine' \in BOOLEAN /\ granted' \in BOOLEAN /\ switched' \in BOOLEAN
      BY <1>14, Zenon DEF IInv, Forward, TypeOK
    <3>2. halted' \in BOOLEAN /\ media' \in BOOLEAN /\ enabled' \in BOOLEAN
          /\ fileHalt' \in BOOLEAN
      BY <1>14, Zenon DEF IInv, Forward, TypeOK
    <3> QED
      BY <1>14, <3>1, <3>2 DEF IInv, Forward, TypeOK
  <2>2. Inhabited'
    BY <1>14 DEF IInv, Forward, Inhabited, TypeOK
  <2>3. HaltedIsOff'
    BY <1>14 DEF IInv, Forward, HaltedIsOff, TypeOK, Held
  <2>4. EngineAgrees'
    BY <1>14 DEF IInv, Forward, EngineAgrees, Direct, Ticking, TypeOK
  <2>5. BoundHere'
    BY <1>14 DEF IInv, Forward, BoundHere, TypeOK, Held, Inhabited
  <2>6. Held'
    BY <1>14 DEF IInv, Forward, Held, TypeOK
  <2>7. Fenced'
    BY <1>14 DEF IInv, Forward, Fenced, TypeOK
  <2>8. Agreed'
    BY <1>14 DEF IInv, Forward, Agreed, LeaseAgrees, Ticking, TypeOK
  <2>9. Overlap'
    BY <1>14 DEF IInv, Forward, Overlap, OverlapBounded, Publishing, Working,
       TypeOK, Held
  <2>10. Reaction'
    BY <1>14 DEF IInv, Forward, Reaction, Publishing, ReactionBounded, TypeOK, Held
  <2> QED
    BY <2>1, <2>2, <2>3, <2>4, <2>5, <2>6, <2>7, <2>8, <2>9, <2>10 DEF IInv
<1>15. CASE Stops
  <2>1. TypeOK'
    <3>1. engine' \in BOOLEAN /\ granted' \in BOOLEAN /\ switched' \in BOOLEAN
      BY <1>15, Zenon DEF IInv, Stops, Halt, Working, TypeOK
    <3>2. halted' \in BOOLEAN /\ media' \in BOOLEAN /\ enabled' \in BOOLEAN
          /\ fileHalt' \in BOOLEAN
      BY <1>15, Zenon DEF IInv, Stops, Halt, Working, TypeOK
    <3> QED
      BY <1>15, <3>1, <3>2 DEF IInv, Stops, Halt, Working, TypeOK
  <2>2. Inhabited'
    BY <1>15 DEF IInv, Stops, Halt, Working, Inhabited, TypeOK
  <2>3. HaltedIsOff'
    BY <1>15 DEF IInv, Stops, Halt, Working, HaltedIsOff, TypeOK
  <2>4. EngineAgrees'
    BY <1>15 DEF IInv, Stops, Halt, Working, EngineAgrees, Direct, Ticking, TypeOK
  <2>5. BoundHere'
    BY <1>15 DEF IInv, Stops, Halt, Working, BoundHere, TypeOK
  <2>6. Held'
    BY <1>15 DEF IInv, Stops, Halt, Working, Held, TypeOK
  <2>7. Fenced'
    BY <1>15 DEF IInv, Stops, Halt, Working, Fenced, TypeOK
  <2>8. Agreed'
    BY <1>15 DEF IInv, Stops, Halt, Working, Agreed, LeaseAgrees, Ticking, TypeOK
  <2>9. Overlap'
    BY <1>15 DEF IInv, Stops, Halt, Working, Overlap, OverlapBounded, Publishing,
       TypeOK
  <2>10. Reaction'
    BY <1>15 DEF IInv, Stops, Halt, Working, Reaction, Publishing, ReactionBounded,
       TypeOK
  <2> QED
    BY <2>1, <2>2, <2>3, <2>4, <2>5, <2>6, <2>7, <2>8, <2>9, <2>10 DEF IInv
<1>16. CASE Beat
  <2>1. TypeOK'
    <3>1. engine' \in BOOLEAN /\ granted' \in BOOLEAN /\ switched' \in BOOLEAN
      BY <1>16, Zenon DEF IInv, Beat, Gone, TypeOK
    <3>2. halted' \in BOOLEAN /\ media' \in BOOLEAN /\ enabled' \in BOOLEAN
          /\ fileHalt' \in BOOLEAN
      BY <1>16, Zenon DEF IInv, Beat, Gone, TypeOK
    <3> QED
      BY <1>16, <3>1, <3>2 DEF IInv, Beat, Gone, TypeOK
  <2>2. Inhabited'
    BY <1>16 DEF IInv, Beat, Gone, Inhabited, TypeOK
  <2>3. HaltedIsOff'
    BY <1>16 DEF IInv, Beat, Gone, HaltedIsOff, TypeOK
  <2>4. EngineAgrees'
    BY <1>16 DEF IInv, Beat, Gone, EngineAgrees, Direct, Ticking, TypeOK
  <2>5. BoundHere'
    BY <1>16 DEF IInv, Beat, Gone, BoundHere, TypeOK
  <2>6. Held'
    BY <1>16 DEF IInv, Beat, Gone, Held, TypeOK
  <2>7. Fenced'
    BY <1>16 DEF IInv, Beat, Gone, Fenced, TypeOK
  <2>8. Agreed'
    BY <1>16 DEF IInv, Beat, Gone, Agreed, LeaseAgrees, Ticking, TypeOK
  <2>9. Overlap'
    BY <1>16 DEF IInv, Beat, Gone, Overlap, OverlapBounded, Publishing, Working,
       TypeOK, Held, HaltedIsOff
  <2>10. Reaction'
    BY <1>16 DEF IInv, Beat, Gone, Reaction, Publishing, ReactionBounded, TypeOK,
       HaltedIsOff
  <2> QED
    BY <2>1, <2>2, <2>3, <2>4, <2>5, <2>6, <2>7, <2>8, <2>9, <2>10 DEF IInv
<1>17. CASE GuardDies
  <2>1. TypeOK'
    <3>1. engine' \in BOOLEAN /\ granted' \in BOOLEAN /\ switched' \in BOOLEAN
      BY <1>17, Zenon DEF IInv, GuardDies, Gone, TypeOK
    <3>2. halted' \in BOOLEAN /\ media' \in BOOLEAN /\ enabled' \in BOOLEAN
          /\ fileHalt' \in BOOLEAN
      BY <1>17, Zenon DEF IInv, GuardDies, Gone, TypeOK
    <3> QED
      BY <1>17, <3>1, <3>2 DEF IInv, GuardDies, Gone, TypeOK
  <2>2. Inhabited'
    BY <1>17 DEF IInv, GuardDies, Gone, Inhabited, TypeOK
  <2>3. HaltedIsOff'
    BY <1>17 DEF IInv, GuardDies, Gone, HaltedIsOff, TypeOK
  <2>4. EngineAgrees'
    BY <1>17 DEF IInv, GuardDies, Gone, EngineAgrees, Direct, Ticking, TypeOK
  <2>5. BoundHere'
    BY <1>17 DEF IInv, GuardDies, Gone, BoundHere, TypeOK
  <2>6. Held'
    BY <1>17 DEF IInv, GuardDies, Gone, Held, TypeOK
  <2>7. Fenced'
    BY <1>17 DEF IInv, GuardDies, Gone, Fenced, TypeOK
  <2>8. Agreed'
    BY <1>17 DEF IInv, GuardDies, Gone, Agreed, LeaseAgrees, Ticking, TypeOK
  <2>9. Overlap'
    BY <1>17 DEF IInv, GuardDies, Gone, Overlap, OverlapBounded, Publishing,
       Working, TypeOK
  <2>10. Reaction'
    BY <1>17 DEF IInv, GuardDies, Gone, Reaction, Publishing, ReactionBounded,
       TypeOK
  <2> QED
    BY <2>1, <2>2, <2>3, <2>4, <2>5, <2>6, <2>7, <2>8, <2>9, <2>10 DEF IInv
<1>18. CASE LeaveRelay
  <2>1. TypeOK'
    <3>1. engine' \in BOOLEAN /\ granted' \in BOOLEAN /\ switched' \in BOOLEAN
      BY <1>18, Zenon DEF IInv, LeaveRelay, TypeOK
    <3>2. halted' \in BOOLEAN /\ media' \in BOOLEAN /\ enabled' \in BOOLEAN
          /\ fileHalt' \in BOOLEAN
      BY <1>18, Zenon DEF IInv, LeaveRelay, TypeOK
    <3> QED
      BY <1>18, <3>1, <3>2 DEF IInv, LeaveRelay, TypeOK
  <2>2. Inhabited'
    BY <1>18 DEF IInv, LeaveRelay, Inhabited, TypeOK
  <2>3. HaltedIsOff'
    BY <1>18 DEF IInv, LeaveRelay, HaltedIsOff, TypeOK
  <2>4. EngineAgrees'
    BY <1>18 DEF IInv, LeaveRelay, EngineAgrees, Direct, Ticking, TypeOK
  <2>5. BoundHere'
    BY <1>18 DEF IInv, LeaveRelay, BoundHere, TypeOK
  <2>6. Held'
    BY <1>18 DEF IInv, LeaveRelay, Held, TypeOK
  <2>7. Fenced'
    BY <1>18 DEF IInv, LeaveRelay, Fenced, TypeOK
  <2>8. Agreed'
    BY <1>18 DEF IInv, LeaveRelay, Agreed, LeaseAgrees, Ticking, TypeOK
  <2>9. Overlap'
    BY <1>18 DEF IInv, LeaveRelay, Overlap, OverlapBounded, Publishing, Working,
       TypeOK
  <2>10. Reaction'
    BY <1>18 DEF IInv, LeaveRelay, Reaction, Publishing, ReactionBounded, TypeOK
  <2> QED
    BY <2>1, <2>2, <2>3, <2>4, <2>5, <2>6, <2>7, <2>8, <2>9, <2>10 DEF IInv
<1>19. CASE StopReceipt
  <2>1. TypeOK'
    <3>1. engine' \in BOOLEAN /\ granted' \in BOOLEAN /\ switched' \in BOOLEAN
      BY <1>19, Zenon DEF IInv, StopReceipt, Halt, TypeOK
    <3>2. halted' \in BOOLEAN /\ media' \in BOOLEAN /\ enabled' \in BOOLEAN
          /\ fileHalt' \in BOOLEAN
      BY <1>19, Zenon DEF IInv, StopReceipt, Halt, TypeOK
    <3> QED
      BY <1>19, <3>1, <3>2 DEF IInv, StopReceipt, Halt, TypeOK
  <2>2. Inhabited'
    BY <1>19 DEF IInv, StopReceipt, Halt, Inhabited, TypeOK
  <2>3. HaltedIsOff'
    BY <1>19 DEF IInv, StopReceipt, Halt, HaltedIsOff, TypeOK
  <2>4. EngineAgrees'
    BY <1>19 DEF IInv, StopReceipt, Halt, EngineAgrees, Direct, Ticking, TypeOK
  <2>5. BoundHere'
    BY <1>19 DEF IInv, StopReceipt, Halt, BoundHere, TypeOK
  <2>6. Held'
    BY <1>19 DEF IInv, StopReceipt, Halt, Held, TypeOK
  <2>7. Fenced'
    BY <1>19 DEF IInv, StopReceipt, Halt, Fenced, TypeOK
  <2>8. Agreed'
    BY <1>19 DEF IInv, StopReceipt, Halt, Agreed, LeaseAgrees, Ticking, TypeOK
  <2>9. Overlap'
    BY <1>19 DEF IInv, StopReceipt, Halt, Overlap, OverlapBounded, Publishing,
       Working, TypeOK
  <2>10. Reaction'
    BY <1>19 DEF IInv, StopReceipt, Halt, Reaction, Publishing, ReactionBounded,
       TypeOK
  <2> QED
    BY <2>1, <2>2, <2>3, <2>4, <2>5, <2>6, <2>7, <2>8, <2>9, <2>10 DEF IInv
<1>20. CASE EnterRelay
  <2>1. TypeOK'
    <3>1. engine' \in BOOLEAN /\ granted' \in BOOLEAN /\ switched' \in BOOLEAN
      BY <1>20, Zenon DEF IInv, EnterRelay, TypeOK
    <3>2. halted' \in BOOLEAN /\ media' \in BOOLEAN /\ enabled' \in BOOLEAN
          /\ fileHalt' \in BOOLEAN
      BY <1>20, Zenon DEF IInv, EnterRelay, TypeOK
    <3> QED
      BY <1>20, <3>1, <3>2 DEF IInv, EnterRelay, TypeOK
  <2>2. Inhabited'
    BY <1>20 DEF IInv, EnterRelay, Inhabited, TypeOK
  <2>3. HaltedIsOff'
    BY <1>20 DEF IInv, EnterRelay, HaltedIsOff, TypeOK
  <2>4. EngineAgrees'
    BY <1>20 DEF IInv, EnterRelay, EngineAgrees, Direct, Ticking, TypeOK
  <2>5. BoundHere'
    BY <1>20 DEF IInv, EnterRelay, BoundHere, TypeOK
  <2>6. Held'
    BY <1>20 DEF IInv, EnterRelay, Held, TypeOK
  <2>7. Fenced'
    BY <1>20 DEF IInv, EnterRelay, Fenced, TypeOK
  <2>8. Agreed'
    BY <1>20 DEF IInv, EnterRelay, Agreed, LeaseAgrees, Ticking, TypeOK
  <2>9. Overlap'
    BY <1>20 DEF IInv, EnterRelay, Overlap, OverlapBounded, Publishing, Working,
       TypeOK
  <2>10. Reaction'
    BY <1>20 DEF IInv, EnterRelay, Reaction, Publishing, ReactionBounded, TypeOK
  <2> QED
    BY <2>1, <2>2, <2>3, <2>4, <2>5, <2>6, <2>7, <2>8, <2>9, <2>10 DEF IInv
<1>21. CASE RestartSender
  <2>1. TypeOK'
    <3>1. engine' \in BOOLEAN /\ granted' \in BOOLEAN /\ switched' \in BOOLEAN
      BY <1>21, Zenon DEF IInv, RestartSender, TypeOK
    <3>2. halted' \in BOOLEAN /\ media' \in BOOLEAN /\ enabled' \in BOOLEAN
          /\ fileHalt' \in BOOLEAN
      BY <1>21, Zenon DEF IInv, RestartSender, TypeOK
    <3> QED
      BY <1>21, <3>1, <3>2 DEF IInv, RestartSender, TypeOK
  <2>2. Inhabited'
    BY <1>21 DEF IInv, RestartSender, Inhabited, TypeOK
  <2>3. HaltedIsOff'
    BY <1>21 DEF IInv, RestartSender, HaltedIsOff, TypeOK
  <2>4. EngineAgrees'
    BY <1>21 DEF IInv, RestartSender, EngineAgrees, Direct, Ticking, TypeOK
  <2>5. BoundHere'
    BY <1>21 DEF IInv, RestartSender, BoundHere, TypeOK
  <2>6. Held'
    BY <1>21 DEF IInv, RestartSender, Held, TypeOK
  <2>7. Fenced'
    BY <1>21 DEF IInv, RestartSender, Fenced, TypeOK
  <2>8. Agreed'
    BY <1>21 DEF IInv, RestartSender, Agreed, LeaseAgrees, Ticking, TypeOK
  <2>9. Overlap'
    BY <1>21 DEF IInv, RestartSender, Overlap, OverlapBounded, Publishing, Working,
       TypeOK
  <2>10. Reaction'
    BY <1>21 DEF IInv, RestartSender, Reaction, Publishing, ReactionBounded, TypeOK
  <2> QED
    BY <2>1, <2>2, <2>3, <2>4, <2>5, <2>6, <2>7, <2>8, <2>9, <2>10 DEF IInv
<1>22. CASE ChangeRoute
  <2>1. TypeOK'
    <3>1. engine' \in BOOLEAN /\ granted' \in BOOLEAN /\ switched' \in BOOLEAN
      BY <1>22, Zenon DEF IInv, ChangeRoute, TypeOK
    <3>2. halted' \in BOOLEAN /\ media' \in BOOLEAN /\ enabled' \in BOOLEAN
          /\ fileHalt' \in BOOLEAN
      BY <1>22, Zenon DEF IInv, ChangeRoute, TypeOK
    <3> QED
      BY <1>22, <3>1, <3>2 DEF IInv, ChangeRoute, TypeOK
  <2>2. Inhabited'
    BY <1>22 DEF IInv, ChangeRoute, Inhabited, TypeOK
  <2>3. HaltedIsOff'
    BY <1>22 DEF IInv, ChangeRoute, HaltedIsOff, TypeOK
  <2>4. EngineAgrees'
    BY <1>22 DEF IInv, ChangeRoute, EngineAgrees, Direct, Ticking, TypeOK
  <2>5. BoundHere'
    BY <1>22 DEF IInv, ChangeRoute, BoundHere, TypeOK
  <2>6. Held'
    BY <1>22 DEF IInv, ChangeRoute, Held, TypeOK
  <2>7. Fenced'
    BY <1>22 DEF IInv, ChangeRoute, Fenced, TypeOK
  <2>8. Agreed'
    BY <1>22 DEF IInv, ChangeRoute, Agreed, LeaseAgrees, Ticking, TypeOK
  <2>9. Overlap'
    BY <1>22 DEF IInv, ChangeRoute, Overlap, OverlapBounded, Publishing, Working,
       TypeOK
  <2>10. Reaction'
    BY <1>22 DEF IInv, ChangeRoute, Reaction, Publishing, ReactionBounded, TypeOK
  <2> QED
    BY <2>1, <2>2, <2>3, <2>4, <2>5, <2>6, <2>7, <2>8, <2>9, <2>10 DEF IInv
<1>23. CASE SwitchFails
  <2>1. TypeOK'
    <3>1. engine' \in BOOLEAN /\ granted' \in BOOLEAN /\ switched' \in BOOLEAN
      BY <1>23, Zenon DEF IInv, SwitchFails, TypeOK
    <3>2. halted' \in BOOLEAN /\ media' \in BOOLEAN /\ enabled' \in BOOLEAN
          /\ fileHalt' \in BOOLEAN
      BY <1>23, Zenon DEF IInv, SwitchFails, TypeOK
    <3> QED
      BY <1>23, <3>1, <3>2 DEF IInv, SwitchFails, TypeOK
  <2>2. Inhabited'
    BY <1>23 DEF IInv, SwitchFails, Inhabited, TypeOK
  <2>3. HaltedIsOff'
    BY <1>23 DEF IInv, SwitchFails, HaltedIsOff, TypeOK
  <2>4. EngineAgrees'
    BY <1>23 DEF IInv, SwitchFails, EngineAgrees, Direct, Ticking, TypeOK
  <2>5. BoundHere'
    BY <1>23 DEF IInv, SwitchFails, BoundHere, TypeOK
  <2>6. Held'
    BY <1>23 DEF IInv, SwitchFails, Held, TypeOK
  <2>7. Fenced'
    BY <1>23 DEF IInv, SwitchFails, Fenced, TypeOK
  <2>8. Agreed'
    BY <1>23 DEF IInv, SwitchFails, Agreed, LeaseAgrees, Ticking, TypeOK
  <2>9. Overlap'
    BY <1>23 DEF IInv, SwitchFails, Overlap, OverlapBounded, Publishing, Working,
       TypeOK
  <2>10. Reaction'
    BY <1>23 DEF IInv, SwitchFails, Reaction, Publishing, ReactionBounded, TypeOK
  <2> QED
    BY <2>1, <2>2, <2>3, <2>4, <2>5, <2>6, <2>7, <2>8, <2>9, <2>10 DEF IInv
<1>24. CASE Connect
  <2>1. TypeOK'
    <3>1. engine' \in BOOLEAN /\ granted' \in BOOLEAN /\ switched' \in BOOLEAN
      BY <1>24, Zenon DEF IInv, Connect, TypeOK
    <3>2. halted' \in BOOLEAN /\ media' \in BOOLEAN /\ enabled' \in BOOLEAN
          /\ fileHalt' \in BOOLEAN
      BY <1>24, Zenon DEF IInv, Connect, TypeOK
    <3> QED
      BY <1>24, <3>1, <3>2 DEF IInv, Connect, TypeOK
  <2>2. Inhabited'
    BY <1>24 DEF IInv, Connect, Inhabited, TypeOK
  <2>3. HaltedIsOff'
    BY <1>24 DEF IInv, Connect, HaltedIsOff, TypeOK
  <2>4. EngineAgrees'
    BY <1>24 DEF IInv, Connect, EngineAgrees, Direct, Ticking, TypeOK
  <2>5. BoundHere'
    BY <1>24 DEF IInv, Connect, BoundHere, TypeOK
  <2>6. Held'
    BY <1>24 DEF IInv, Connect, Held, TypeOK
  <2>7. Fenced'
    BY <1>24 DEF IInv, Connect, Fenced, TypeOK
  <2>8. Agreed'
    BY <1>24 DEF IInv, Connect, Agreed, LeaseAgrees, Ticking, TypeOK
  <2>9. Overlap'
    BY <1>24 DEF IInv, Connect, Overlap, OverlapBounded, Publishing, Working, TypeOK
  <2>10. Reaction'
    BY <1>24 DEF IInv, Connect, Reaction, Publishing, ReactionBounded, TypeOK
  <2> QED
    BY <2>1, <2>2, <2>3, <2>4, <2>5, <2>6, <2>7, <2>8, <2>9, <2>10 DEF IInv
<1>25. CASE Disconnect
  <2>1. TypeOK'
    <3>1. engine' \in BOOLEAN /\ granted' \in BOOLEAN /\ switched' \in BOOLEAN
      BY <1>25, Zenon DEF IInv, Disconnect, TypeOK
    <3>2. halted' \in BOOLEAN /\ media' \in BOOLEAN /\ enabled' \in BOOLEAN
          /\ fileHalt' \in BOOLEAN
      BY <1>25, Zenon DEF IInv, Disconnect, TypeOK
    <3> QED
      BY <1>25, <3>1, <3>2 DEF IInv, Disconnect, TypeOK
  <2>2. Inhabited'
    BY <1>25 DEF IInv, Disconnect, Inhabited, TypeOK
  <2>3. HaltedIsOff'
    BY <1>25 DEF IInv, Disconnect, HaltedIsOff, TypeOK
  <2>4. EngineAgrees'
    BY <1>25 DEF IInv, Disconnect, EngineAgrees, Direct, Ticking, TypeOK
  <2>5. BoundHere'
    BY <1>25 DEF IInv, Disconnect, BoundHere, TypeOK
  <2>6. Held'
    BY <1>25 DEF IInv, Disconnect, Held, TypeOK
  <2>7. Fenced'
    BY <1>25 DEF IInv, Disconnect, Fenced, TypeOK
  <2>8. Agreed'
    BY <1>25 DEF IInv, Disconnect, Agreed, LeaseAgrees, Ticking, TypeOK
  <2>9. Overlap'
    BY <1>25 DEF IInv, Disconnect, Overlap, OverlapBounded, Publishing, Working,
       TypeOK
  <2>10. Reaction'
    BY <1>25 DEF IInv, Disconnect, Reaction, Publishing, ReactionBounded, TypeOK
  <2> QED
    BY <2>1, <2>2, <2>3, <2>4, <2>5, <2>6, <2>7, <2>8, <2>9, <2>10 DEF IInv
<1>26. CASE MediaDies
  <2>1. TypeOK'
    <3>1. engine' \in BOOLEAN /\ granted' \in BOOLEAN /\ switched' \in BOOLEAN
      BY <1>26, Zenon DEF IInv, MediaDies, TypeOK
    <3>2. halted' \in BOOLEAN /\ media' \in BOOLEAN /\ enabled' \in BOOLEAN
          /\ fileHalt' \in BOOLEAN
      BY <1>26, Zenon DEF IInv, MediaDies, TypeOK
    <3> QED
      BY <1>26, <3>1, <3>2 DEF IInv, MediaDies, TypeOK
  <2>2. Inhabited'
    BY <1>26 DEF IInv, MediaDies, Inhabited, TypeOK
  <2>3. HaltedIsOff'
    BY <1>26 DEF IInv, MediaDies, HaltedIsOff, TypeOK
  <2>4. EngineAgrees'
    BY <1>26 DEF IInv, MediaDies, EngineAgrees, Direct, Ticking, TypeOK
  <2>5. BoundHere'
    BY <1>26 DEF IInv, MediaDies, BoundHere, TypeOK
  <2>6. Held'
    BY <1>26 DEF IInv, MediaDies, Held, TypeOK
  <2>7. Fenced'
    BY <1>26 DEF IInv, MediaDies, Fenced, TypeOK
  <2>8. Agreed'
    BY <1>26 DEF IInv, MediaDies, Agreed, LeaseAgrees, Ticking, TypeOK
  <2>9. Overlap'
    BY <1>26 DEF IInv, MediaDies, Overlap, OverlapBounded, Publishing, Working,
       TypeOK
  <2>10. Reaction'
    BY <1>26 DEF IInv, MediaDies, Reaction, Publishing, ReactionBounded, TypeOK
  <2> QED
    BY <2>1, <2>2, <2>3, <2>4, <2>5, <2>6, <2>7, <2>8, <2>9, <2>10 DEF IInv
<1>27. CASE StartRelay
  <2>1. TypeOK'
    <3>1. engine' \in BOOLEAN /\ granted' \in BOOLEAN /\ switched' \in BOOLEAN
      BY <1>27, Zenon DEF IInv, StartRelay, FreshRelays, Fresh, TypeOK
    <3>2. halted' \in BOOLEAN /\ media' \in BOOLEAN /\ enabled' \in BOOLEAN
          /\ fileHalt' \in BOOLEAN
      BY <1>27, Zenon DEF IInv, StartRelay, FreshRelays, Fresh, TypeOK
    <3> QED
      BY <1>27, <3>1, <3>2 DEF IInv, StartRelay, FreshRelays, Fresh, TypeOK
  <2>2. Inhabited'
    BY <1>27 DEF IInv, StartRelay, FreshRelays, Fresh, Inhabited, TypeOK
  <2>3. HaltedIsOff'
    BY <1>27 DEF IInv, StartRelay, FreshRelays, Fresh, HaltedIsOff, TypeOK,
       Inhabited
  <2>4. EngineAgrees'
    BY <1>27 DEF IInv, StartRelay, FreshRelays, Fresh, EngineAgrees, Direct,
       Ticking, TypeOK
  <2>5. BoundHere'
    BY <1>27 DEF IInv, StartRelay, FreshRelays, Fresh, BoundHere, TypeOK, Inhabited
  <2>6. Held'
    BY <1>27 DEF IInv, StartRelay, FreshRelays, Fresh, Held, TypeOK, Inhabited
  <2>7. Fenced'
    BY <1>27 DEF IInv, StartRelay, FreshRelays, Fresh, Fenced, TypeOK
  <2>8. Agreed'
    BY <1>27 DEF IInv, StartRelay, FreshRelays, Fresh, Agreed, LeaseAgrees, Ticking,
       TypeOK, Inhabited
  <2>9. Overlap'
    BY <1>27 DEF IInv, StartRelay, FreshRelays, Fresh, Overlap, OverlapBounded,
       Publishing, Working, TypeOK, Inhabited, BoundHere
  <2>10. Reaction'
    BY <1>27 DEF IInv, StartRelay, FreshRelays, Fresh, Reaction, Publishing,
       ReactionBounded, TypeOK, Inhabited
  <2> QED
    BY <2>1, <2>2, <2>3, <2>4, <2>5, <2>6, <2>7, <2>8, <2>9, <2>10 DEF IInv
<1>28. CASE Kill
  <2>1. TypeOK'
    <3>1. engine' \in BOOLEAN /\ granted' \in BOOLEAN /\ switched' \in BOOLEAN
      BY <1>28, Zenon DEF IInv, Kill, TypeOK
    <3>2. halted' \in BOOLEAN /\ media' \in BOOLEAN /\ enabled' \in BOOLEAN
          /\ fileHalt' \in BOOLEAN
      BY <1>28, Zenon DEF IInv, Kill, TypeOK
    <3> QED
      BY <1>28, <3>1, <3>2 DEF IInv, Kill, TypeOK
  <2>2. Inhabited'
    BY <1>28 DEF IInv, Kill, Inhabited, TypeOK
  <2>3. HaltedIsOff'
    BY <1>28 DEF IInv, Kill, HaltedIsOff, TypeOK
  <2>4. EngineAgrees'
    BY <1>28 DEF IInv, Kill, EngineAgrees, Direct, Ticking, TypeOK
  <2>5. BoundHere'
    BY <1>28 DEF IInv, Kill, BoundHere, TypeOK
  <2>6. Held'
    BY <1>28 DEF IInv, Kill, Held, TypeOK
  <2>7. Fenced'
    BY <1>28 DEF IInv, Kill, Fenced, TypeOK
  <2>8. Agreed'
    BY <1>28 DEF IInv, Kill, Agreed, LeaseAgrees, Ticking, TypeOK
  <2>9. Overlap'
    BY <1>28 DEF IInv, Kill, Overlap, OverlapBounded, Publishing, Working, TypeOK
  <2>10. Reaction'
    BY <1>28 DEF IInv, Kill, Reaction, Publishing, ReactionBounded, TypeOK
  <2> QED
    BY <2>1, <2>2, <2>3, <2>4, <2>5, <2>6, <2>7, <2>8, <2>9, <2>10 DEF IInv
<1>29. CASE GrantEnds
  <2>1. TypeOK'
    <3>1. engine' \in BOOLEAN /\ granted' \in BOOLEAN /\ switched' \in BOOLEAN
      BY <1>29, Zenon DEF IInv, GrantEnds, TypeOK
    <3>2. halted' \in BOOLEAN /\ media' \in BOOLEAN /\ enabled' \in BOOLEAN
          /\ fileHalt' \in BOOLEAN
      BY <1>29, Zenon DEF IInv, GrantEnds, TypeOK
    <3> QED
      BY <1>29, <3>1, <3>2 DEF IInv, GrantEnds, TypeOK
  <2>2. Inhabited'
    BY <1>29 DEF IInv, GrantEnds, Inhabited, TypeOK
  <2>3. HaltedIsOff'
    BY <1>29 DEF IInv, GrantEnds, HaltedIsOff, TypeOK
  <2>4. EngineAgrees'
    BY <1>29 DEF IInv, GrantEnds, EngineAgrees, Direct, Ticking, TypeOK
  <2>5. BoundHere'
    BY <1>29 DEF IInv, GrantEnds, BoundHere, TypeOK
  <2>6. Held'
    BY <1>29 DEF IInv, GrantEnds, Held, TypeOK
  <2>7. Fenced'
    BY <1>29 DEF IInv, GrantEnds, Fenced, TypeOK
  <2>8. Agreed'
    BY <1>29 DEF IInv, GrantEnds, Agreed, LeaseAgrees, Ticking, TypeOK
  <2>9. Overlap'
    BY <1>29 DEF IInv, GrantEnds, Overlap, OverlapBounded, Publishing, Working,
       TypeOK, BoundHere
  <2>10. Reaction'
    BY <1>29 DEF IInv, GrantEnds, Reaction, Publishing, ReactionBounded, TypeOK
  <2> QED
    BY <2>1, <2>2, <2>3, <2>4, <2>5, <2>6, <2>7, <2>8, <2>9, <2>10 DEF IInv
<1>30. CASE Pass
  <2>1. TypeOK'
    <3>1. engine' \in BOOLEAN /\ granted' \in BOOLEAN /\ switched' \in BOOLEAN
      BY <1>30, Zenon DEF IInv, Pass, Aged, Covered, Direct, Due, Publishing, TypeOK
    <3>2. halted' \in BOOLEAN /\ media' \in BOOLEAN /\ enabled' \in BOOLEAN
          /\ fileHalt' \in BOOLEAN
      BY <1>30, Zenon DEF IInv, Pass, Aged, Covered, Direct, Due, Publishing, TypeOK
    <3> QED
      BY <1>30, <3>1, <3>2 DEF IInv, Pass, Aged, Covered, Direct, Due, Publishing,
         TypeOK
  <2>2. Inhabited'
    BY <1>30 DEF IInv, Pass, Aged, Covered, Direct, Due, Publishing, Inhabited,
       TypeOK
  <2>3. HaltedIsOff'
    BY <1>30 DEF IInv, Pass, Aged, Covered, Direct, Due, Publishing, HaltedIsOff,
       TypeOK
  <2>4. EngineAgrees'
    BY <1>30 DEF IInv, Pass, Aged, Covered, Direct, Due, Publishing, EngineAgrees,
       Ticking, TypeOK
  <2>5. BoundHere'
    BY <1>30 DEF IInv, Pass, Aged, Covered, Direct, Due, Publishing, BoundHere,
       TypeOK
  <2>6. Held'
    BY <1>30 DEF IInv, Pass, Aged, Covered, Direct, Due, Publishing, Held, TypeOK
  <2>7. Fenced'
    BY <1>30 DEF IInv, Pass, Aged, Covered, Direct, Due, Publishing, Fenced, TypeOK
  <2>8. Agreed'
    BY <1>30 DEF IInv, Pass, Aged, Covered, Direct, Due, Publishing, Agreed,
       LeaseAgrees, Ticking, TypeOK
  <2>9. Overlap'
    BY <1>30 DEF IInv, Pass, Aged, Covered, Direct, Due, Publishing, Overlap,
       OverlapBounded, Working, TypeOK, Inhabited, Held, HaltedIsOff, EngineAgrees,
       Ticking, BoundHere
  <2>10. Reaction'
    BY <1>30 DEF IInv, Pass, Aged, Covered, Direct, Due, Publishing, Reaction,
       ReactionBounded, TypeOK, Inhabited
  <2> QED
    BY <2>1, <2>2, <2>3, <2>4, <2>5, <2>6, <2>7, <2>8, <2>9, <2>10 DEF IInv
<1> QED
  BY <1>1, <1>2, <1>3, <1>4, <1>5, <1>6, <1>7, <1>8, <1>9, <1>10, <1>11, <1>12,
     <1>13, <1>14, <1>15, <1>16, <1>17, <1>18, <1>19, <1>20, <1>21, <1>22, <1>23,
     <1>24, <1>25, <1>26, <1>27, <1>28, <1>29, <1>30 DEF Next, Launch, ClientStep,
     GuardStep, SwitchStep

\* From the initial state on, every reachable state satisfies IInv.
THEOREM Invariance == Spec => []IInv
<1>1. Init => IInv
  <2> USE RelayAssumption
  <2>1. ASSUME Init PROVE TypeOK
    <3>1. /\ engine \in BOOLEAN /\ granted \in BOOLEAN /\ switched \in BOOLEAN
          /\ halted \in BOOLEAN /\ media \in BOOLEAN /\ enabled \in BOOLEAN
          /\ fileHalt \in BOOLEAN
      BY <2>1, Zenon DEF Init
    <3> QED
      BY <2>1, <3>1 DEF Init, TypeOK, Nobody, None
  <2>2. ASSUME Init PROVE Overlap /\ Reaction
    BY <2>2 DEF Init, Overlap, Reaction, OverlapBounded, ReactionBounded,
       Publishing,
       Working, Nobody, None
  <2> QED
    BY <2>1, <2>2 DEF Init, IInv, Inhabited, HaltedIsOff, EngineAgrees, BoundHere,
       Held, Fenced, Agreed, LeaseAgrees, Direct, Ticking, Nobody, None
<1> QED
  BY <1>1, Inductive, PTL DEF Spec

-----------------------------------------------------------------------------
(* The properties of the runs *)

\* Every variable keeps its type, for every value of the constants.
THEOREM TypesHold == Spec => []TypeOK
BY Invariance, PTL DEF IInv

\* A switch to the direct route starts no direct sender beside the relay: it has
\* the bound guard's receipt, and no other guard forwards.
THEOREM RoutesFenced == Spec => []SwitchFenced
<1>1. IInv => SwitchFenced
  <2> SUFFICES ASSUME IInv, Direct, switched PROVE ~Publishing
    BY DEF SwitchFenced
  <2>1. inst = bound /\ inst # Nobody => halted
    BY DEF IInv, EngineAgrees, Fenced
  <2>2. Publishing => inst # Nobody /\ inst = bound
    BY DEF IInv, Inhabited, BoundHere, Publishing
  <2> QED
    BY <2>1, <2>2 DEF IInv, HaltedIsOff, Publishing
<1> QED
  BY <1>1, Invariance, PTL

\* After an engine died in PRIMARY the relay and the direct sender overlap for
\* less than a lease and a start, whatever the lengths of both.
THEOREM OverlapIsBounded == Spec => []OverlapBounded
BY Invariance, PTL DEF IInv, Overlap

\* A relay without cover is stopped by its guard or ended by the supervisor in
\* two rounds, also when the guard hangs between its checks.
THEOREM ReactionIsBounded == Spec => []ReactionBounded
BY Invariance, PTL DEF IInv, Reaction

\* A client that renews is the one whose lease the bound guard holds.
THEOREM LeasesAgree == Spec => []LeaseAgrees
BY Invariance, PTL DEF IInv, Agreed
=============================================================================

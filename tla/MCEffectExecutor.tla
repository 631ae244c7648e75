-------------------------- MODULE MCEffectExecutor --------------------------
(* Model values and symmetry for the runs of EffectExecutor. *)
EXTENDS EffectExecutor, TLC

CONSTANTS p1, p2, r1, r2, a, b, nobody

MCProducers == {p1, p2}
MCOneProducer == {p1}
MCOneId == {r1}
MCTwoIds == {r1, r2}
MCPids == {a, b}

\* Ids, producers and PIDs are only compared: permuting them is sound for safety.
Symmetry ==
  Permutations(MCTwoIds) \cup Permutations(MCProducers) \cup Permutations(MCPids)

MCInstAdapter == [engine |-> 2, adapter |-> 1]
MCInstBoth == [engine |-> 2, adapter |-> 2]
MCInstNoAdapter == [engine |-> 2, adapter |-> 0]
=============================================================================

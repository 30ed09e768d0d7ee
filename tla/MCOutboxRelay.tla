---------------------------- MODULE MCOutboxRelay ---------------------------
(* OutboxRelay for TLC: two instances, a few events, one of them invalid.  *)
EXTENDS OutboxRelay, TLC

Symmetry == Permutations(Instances)
=============================================================================

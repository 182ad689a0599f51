-------------------------- MODULE MCBrokerRecovery --------------------------
(* BrokerRecovery for TLC. *)
EXTENDS BrokerRecovery, TLC

Symmetry == Permutations(Symbols)
=============================================================================

-------------------------- MODULE MCOutboxPublisher --------------------------
(***************************************************************************)
(* Batches of two rows, one or two instances.                              *)
(***************************************************************************)
EXTENDS OutboxPublisher, TLC

InstanceSymmetry == Permutations(Instance)
=============================================================================

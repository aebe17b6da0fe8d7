-------------------------- MODULE MCDriverLifecycle -------------------------
(* Instances of DriverLifecycle for TLC. *)
EXTENDS DriverLifecycle, TLC

MCSymmetry == Permutations(Threads) \cup Permutations(Drivers) \cup Permutations(Descs)
=============================================================================

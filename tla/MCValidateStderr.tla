-------------------------- MODULE MCValidateStderr --------------------------
(* Instances of ValidateStderr for TLC. *)
EXTENDS ValidateStderr, TLC

\* Validators, openers and descriptors are interchangeable (safety runs only).
MCSymmetry == Permutations(Validators) \cup Permutations(Openers) \cup Permutations(Fds)
=============================================================================

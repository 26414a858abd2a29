-------------------------- MODULE MCProcessAdapter --------------------------
(* ProcessAdapter with one exit code and interchangeable callers. *)
EXTENDS ProcessAdapter, TLC

MCExitCodes == {0}

Symmetry == Permutations(Waiters) \cup Permutations(Signallers)
=============================================================================

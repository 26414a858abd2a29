--------------------------- MODULE MCSessionStore ---------------------------
(* SessionStore with model values for calls and sessions. *)
EXTENDS SessionStore, TLC

Symmetry == Permutations(Persisted) \cup Permutations(SessionIds)

=============================================================================

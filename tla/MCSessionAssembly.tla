------------------------- MODULE MCSessionAssembly -------------------------
(* SessionAssembly with model values for the calls. *)
EXTENDS SessionAssembly, TLC

Symmetry == Permutations(Persisted) \cup Permutations(Headless)

=============================================================================

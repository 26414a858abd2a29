--------------------------- MODULE MCCommandLine ----------------------------
(* CommandLine with model values for calls and sessions. *)
EXTENDS CommandLine

=============================================================================

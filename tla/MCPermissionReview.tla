------------------------- MODULE MCPermissionReview -------------------------
(* PermissionReview with two files a classifier may ask about: one in a
   directory that may be a link, and one that may itself be a link. *)
EXTENDS PermissionReview

MCCalls ==
  {[role |-> "planner", kind |-> "network"], [role |-> "planner", kind |-> "write"],
   [role |-> "builder", kind |-> "hostWrite"], [role |-> "builder", kind |-> "command"],
   [role |-> "reviewer", kind |-> "tool.invoke"]}

MCTargets == {<<"d", "f">>, <<"g">>}

=============================================================================

--------------------------- MODULE ActivityStream ---------------------------
(***************************************************************************)
(* What tool.ProcessActivitySource promises the supervisor of a process:   *)
(* one ordered stream of activity kinds, closed only once it is empty, and *)
(* closed before any successful Process.Wait returns.  ProcessAdapter is   *)
(* shown to implement it.                                                  *)
(***************************************************************************)
EXTENDS Sequences

CONSTANTS Kinds       \* the kinds a consumer can receive

VARIABLES pending,    \* reported by the process, not yet received
          received,   \* received by the consumer, in order
          closed,     \* the consumer's channel has been closed
          waited      \* some Wait call has returned a terminal result

streamVars == <<pending, received, closed, waited>>

StreamInit ==
  /\ pending = <<>>
  /\ received = <<>>
  /\ closed = FALSE
  /\ waited = FALSE

Report(k) ==
  /\ ~closed
  /\ pending' = Append(pending, k)
  /\ UNCHANGED <<received, closed, waited>>

Receive ==
  /\ pending # <<>>
  /\ ~closed
  /\ pending' = Tail(pending)
  /\ received' = Append(received, Head(pending))
  /\ UNCHANGED <<closed, waited>>

CloseStream ==
  /\ pending = <<>>
  /\ closed' = TRUE
  /\ UNCHANGED <<pending, received, waited>>

WaitReturns ==
  /\ closed
  /\ waited' = TRUE
  /\ UNCHANGED <<pending, received, closed>>

StreamNext ==
  \/ \E k \in Kinds : Report(k)
  \/ Receive
  \/ CloseStream
  \/ WaitReturns

StreamSpec == StreamInit /\ [][StreamNext]_streamVars
=============================================================================

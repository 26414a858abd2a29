--------------------------- MODULE ProcessAdapter ---------------------------
(***************************************************************************)
(* internal/app/process_adapter.go: one asynchronous process, from its     *)
(* preparation to the return of every Wait call.                           *)
(*                                                                         *)
(* Goroutines: the pump started by newProcessAdapter, any number of Wait   *)
(* callers (each with a context of its own), any number of Signal callers, *)
(* the consumer of the translated activities and the sandbox that owns the *)
(* process.  The sandbox and the consumer are external: they are modelled  *)
(* by what process_adapter.go says it relies on and nothing more.          *)
(***************************************************************************)
EXTENDS Integers, Sequences

CONSTANTS Waiters,        \* goroutines that call Wait, once each
          Signallers,     \* goroutines that call Signal, once each
          ExitCodes,      \* exit statuses of a process that ends by itself
          SourceCap,      \* capacity of the sandbox's activity channel
          MaxActivities   \* bound: activities the sandbox ever reports

ASSUME AdapterAssumption ==
  /\ ExitCodes \subseteq Int \ {-1}
  /\ SourceCap \in Nat \ {0}
  /\ MaxActivities \in Nat

VARIABLES
  phase,            \* of the preparation: "prepared", "started", "released"
  life,             \* of the process: "running", "exited", "failed"
  exitCode,         \* what the sandbox will report, once exited
  cause,            \* what ended it (not visible to the adapter)
  dispatched,       \* severities the sandbox delivered while it ran
  source,           \* the sandbox's activity channel
  sourceClosed,
  held,             \* the activity the pump has translated and must send
  activitiesClosed, \* processAdapter.activities has been closed
  activitiesEnd,    \* processAdapter.activitiesEnd has been closed
  signalState,      \* processAdapter.signalState
  wpc, wres,        \* each Wait call: where it is, what it returned
  ctxDone,          \* the waiters whose context has ended
  spc, skind, scur, \* each Signal call: where it is, its kind, its load
  emitted,          \* every activity the sandbox reported
  delivered,        \* every activity the consumer received
  derived,          \* each Wait call: the reason deriveReason gave it
  earlier           \* each Wait call: those that had returned at its call

sandboxVars == <<phase, life, exitCode, cause, dispatched>>
pumpVars    == <<source, sourceClosed, held, activitiesClosed, activitiesEnd,
                 emitted, delivered>>
waitVars    == <<wpc, wres, ctxDone, derived, earlier>>
signalVars  == <<signalState, spc, skind, scur>>
vars        == <<sandboxVars, pumpVars, waitVars, signalVars>>

-----------------------------------------------------------------------------
(* Signal kinds and severities *)

SignalKinds == {"interrupt", "terminate", "kill"}
AnyKind     == SignalKinds \cup {"invalid"}

\* The severity mapProcessSignal gives a valid kind; 0 is signalNone.
Severity == [k \in AnyKind |-> IF k = "interrupt" THEN 1
                               ELSE IF k = "terminate" THEN 2
                               ELSE IF k = "kill" THEN 3 ELSE 0]

Reasons == {"exited", "runnerShutdown", "interrupted", "terminated", "killed"}

\* deriveReason: an exit status other than -1 is the process's own exit; a
\* death by signal is attributed to the most severe signal recorded so far.
DeriveReason(code, recorded) ==
  IF code # -1 THEN "exited"
  ELSE IF recorded = 3 THEN "killed"
  ELSE IF recorded = 2 THEN "terminated"
  ELSE IF recorded = 1 THEN "interrupted"
  ELSE "runnerShutdown"

\* The severity a reason attributes a death to.
Blamed(reason) ==
  IF reason = "killed" THEN 3
  ELSE IF reason = "terminated" THEN 2
  ELSE IF reason = "interrupted" THEN 1 ELSE 0

-----------------------------------------------------------------------------
(* Activity kinds *)

SourceKinds == {"write", "broadWrite", "invalid"}
OutKinds    == {"write", "broadWrite"}

\* translateActivity: an invalid sandbox kind broadens, it never narrows.
TranslateActivity(k) == IF k = "write" THEN "write" ELSE "broadWrite"

Translated(s) == [i \in DOMAIN s |-> TranslateActivity(s[i])]

-----------------------------------------------------------------------------
Init ==
  /\ phase = "prepared" /\ life = "running" /\ exitCode = 0 /\ cause = "none"
  /\ dispatched = {}
  /\ source = <<>> /\ sourceClosed = FALSE
  /\ held = <<>> /\ activitiesClosed = FALSE /\ activitiesEnd = FALSE
  /\ signalState = 0
  /\ wpc = [w \in Waiters |-> "idle"] /\ wres = [w \in Waiters |-> "none"]
  /\ ctxDone = {}
  /\ spc = [s \in Signallers |-> "idle"]
  /\ skind = [s \in Signallers |-> "invalid"]
  /\ scur = [s \in Signallers |-> 0]
  /\ emitted = <<>> /\ delivered = <<>>
  /\ derived = [w \in Waiters |-> "none"]
  /\ earlier = [w \in Waiters |-> {}]

(***************************************************************************)
(* preparedProcessAdapter: Start consumes the preparation (and starts the  *)
(* pump); a failed Start and Close release it.  A source that is nil is,   *)
(* to the pump, one that is closed from the start.                         *)
(***************************************************************************)
Start ==
  /\ phase = "prepared"
  /\ phase' = "started"
  /\ sourceClosed' \in BOOLEAN
  /\ UNCHANGED <<life, exitCode, cause, dispatched, source, held,
                 activitiesClosed, activitiesEnd, emitted, delivered,
                 waitVars, signalVars>>

Release ==
  /\ phase = "prepared"
  /\ phase' = "released"
  /\ UNCHANGED <<life, exitCode, cause, dispatched, pumpVars, waitVars,
                 signalVars>>

Running == phase = "started" /\ life = "running"

-----------------------------------------------------------------------------
(* The sandbox, as far as process_adapter.go relies on it *)

\* The process ends by itself, whatever was signalled before.
SelfExit(code) ==
  /\ Running
  /\ life' = "exited" /\ exitCode' = code /\ cause' = "self"
  /\ UNCHANGED <<phase, dispatched, pumpVars, waitVars, signalVars>>

\* A signal the sandbox delivered kills it.
SignalDeath ==
  /\ Running
  /\ dispatched # {}
  /\ life' = "exited" /\ exitCode' = -1 /\ cause' = "signal"
  /\ UNCHANGED <<phase, dispatched, pumpVars, waitVars, signalVars>>

\* Something other than an adapter's Signal kills it: Close of the process or
\* of its executor set, or an actor outside the program.
ForeignDeath ==
  /\ Running
  /\ life' = "exited" /\ exitCode' = -1 /\ cause' = "foreign"
  /\ UNCHANGED <<phase, dispatched, pumpVars, waitVars, signalVars>>

\* A genuine post-spawn failure: Wait will return an error, not a result.
SandboxFails ==
  /\ Running
  /\ life' = "failed" /\ cause' = "foreign"
  /\ UNCHANGED <<phase, exitCode, dispatched, pumpVars, waitVars, signalVars>>

Emit(k) ==
  /\ phase = "started"
  /\ ~sourceClosed
  /\ Len(source) < SourceCap
  /\ Len(emitted) < MaxActivities
  /\ source' = Append(source, k)
  /\ emitted' = Append(emitted, k)
  /\ UNCHANGED <<sourceClosed, held, activitiesClosed, activitiesEnd,
                 delivered, sandboxVars, waitVars, signalVars>>

\* Before its own Wait unblocks the sandbox closes its activity channel.
CloseSource ==
  /\ phase = "started"
  /\ life # "running"
  /\ ~sourceClosed
  /\ sourceClosed' = TRUE
  /\ UNCHANGED <<source, held, activitiesClosed, activitiesEnd, emitted,
                 delivered, sandboxVars, waitVars, signalVars>>

\* Sandbox's Wait may return: the process is over and its channel closed.
Terminal == life # "running" /\ sourceClosed

-----------------------------------------------------------------------------
(* pumpActivities, and the consumer it hands each activity to *)

PumpReceive ==
  /\ phase = "started"
  /\ held = <<>>
  /\ source # <<>>
  /\ held' = <<TranslateActivity(Head(source))>>
  /\ source' = Tail(source)
  /\ UNCHANGED <<sourceClosed, activitiesClosed, activitiesEnd, emitted,
                 delivered, sandboxVars, waitVars, signalVars>>

\* p.activities is unbuffered: the send and the consumer's receive are one
\* step, and it happens only if the consumer takes part.
Deliver ==
  /\ held # <<>>
  /\ delivered' = delivered \o held
  /\ held' = <<>>
  /\ UNCHANGED <<source, sourceClosed, activitiesClosed, activitiesEnd,
                 emitted, sandboxVars, waitVars, signalVars>>

\* Mutant: closes as soon as the sandbox's channel is closed, undrained.
PumpCloseActivitiesEarly ==
  /\ phase = "started"
  /\ sourceClosed
  /\ ~activitiesClosed
  /\ activitiesClosed' = TRUE
  /\ UNCHANGED <<source, sourceClosed, held, activitiesEnd, emitted,
                 delivered, sandboxVars, waitVars, signalVars>>

\* The deferred closes run last-in first-out: activities, then activitiesEnd.
PumpCloseActivities ==
  /\ phase = "started"
  /\ held = <<>> /\ source = <<>> /\ sourceClosed
  /\ ~activitiesClosed
  /\ activitiesClosed' = TRUE
  /\ UNCHANGED <<source, sourceClosed, held, activitiesEnd, emitted,
                 delivered, sandboxVars, waitVars, signalVars>>

PumpCloseEnd ==
  /\ activitiesClosed
  /\ ~activitiesEnd
  /\ activitiesEnd' = TRUE
  /\ UNCHANGED <<source, sourceClosed, held, activitiesClosed, emitted,
                 delivered, sandboxVars, waitVars, signalVars>>

-----------------------------------------------------------------------------
(* Wait(ctx), one call by each waiter *)

CtxEnds(w) ==
  /\ w \notin ctxDone
  /\ wpc[w] # "returned"
  /\ ctxDone' = ctxDone \cup {w}
  /\ UNCHANGED <<wpc, wres, derived, earlier, sandboxVars, pumpVars, signalVars>>

WaitCall(w) ==
  /\ phase = "started"
  /\ wpc[w] = "idle"
  /\ wpc' = [wpc EXCEPT ![w] = "sandbox"]
  /\ earlier' = [earlier EXCEPT ![w] = {v \in Waiters : wpc[v] = "returned"}]
  /\ UNCHANGED <<wres, ctxDone, derived, sandboxVars, pumpVars, signalVars>>

WaitError(w, error) ==
  /\ wpc[w] = "sandbox"
  /\ wpc' = [wpc EXCEPT ![w] = "returned"]
  /\ wres' = [wres EXCEPT ![w] = error]
  /\ UNCHANGED <<ctxDone, derived, earlier, sandboxVars, pumpVars, signalVars>>

\* Mutant: the context is not forwarded to the sandbox's Wait.
WaitCtxErrorUnforwarded(w) == w \in ctxDone /\ Terminal /\ WaitError(w, "ctxError")

\* The sandbox gave up waiting because this call's context ended.
WaitCtxError(w) == w \in ctxDone /\ WaitError(w, "ctxError")

\* A genuine failure is wrapped as WaitFailed, with no reason.
WaitFailed(w) == life = "failed" /\ Terminal /\ WaitError(w, "waitFailed")

\* Success moves on to <-p.activitiesEnd, which no context interrupts.
WaitResult(w) ==
  /\ wpc[w] = "sandbox"
  /\ life = "exited" /\ Terminal
  /\ wpc' = [wpc EXCEPT ![w] = "draining"]
  /\ UNCHANGED <<wres, ctxDone, derived, earlier, sandboxVars, pumpVars,
                 signalVars>>

\* Mutant: the wait for activitiesEnd is missing.
WaitClassifyUndrained(w) ==
  /\ wpc[w] = "draining"
  /\ wpc' = [wpc EXCEPT ![w] = "classified"]
  /\ derived' = [derived EXCEPT ![w] = DeriveReason(exitCode, signalState)]
  /\ UNCHANGED <<wres, ctxDone, earlier, sandboxVars, pumpVars, signalVars>>

\* Once the stream has drained deriveReason loads the severity recorded so far.
WaitClassify(w) ==
  /\ wpc[w] = "draining"
  /\ activitiesEnd
  /\ wpc' = [wpc EXCEPT ![w] = "classified"]
  /\ derived' = [derived EXCEPT ![w] = DeriveReason(exitCode, signalState)]
  /\ UNCHANGED <<wres, ctxDone, earlier, sandboxVars, pumpVars, signalVars>>

\* The call returns later: by then other Signal calls may have recorded more,
\* and other Wait calls may have loaded that and returned.
WaitReturn(w) ==
  /\ wpc[w] = "classified"
  /\ wpc' = [wpc EXCEPT ![w] = "returned"]
  /\ wres' = [wres EXCEPT ![w] = derived[w]]
  /\ UNCHANGED <<ctxDone, derived, earlier, sandboxVars, pumpVars, signalVars>>

-----------------------------------------------------------------------------
(* Signal(ctx, kind), one call by each signaller *)

SignalGoto(s, pc) == spc' = [spc EXCEPT ![s] = pc]

\* An invalid kind fails before the sandbox is reached.
SignalCall(s, k) ==
  /\ phase = "started"
  /\ spc[s] = "idle"
  /\ SignalGoto(s, IF k \in SignalKinds THEN "sandbox" ELSE "failed")
  /\ skind' = [skind EXCEPT ![s] = k]
  /\ UNCHANGED <<signalState, scur, sandboxVars, pumpVars, waitVars>>

\* The sandbox delivers the signal; on a process already over it is a no-op
\* that reports success too.
SandboxSignals(s) ==
  /\ spc[s] = "sandbox"
  /\ dispatched' = IF life = "running" THEN dispatched \cup {Severity[skind[s]]}
                   ELSE dispatched
  /\ SignalGoto(s, "load")
  /\ UNCHANGED <<phase, life, exitCode, cause, signalState, skind, scur,
                 pumpVars, waitVars>>

\* Mutant: the severity is stored before the sandbox's error is looked at.
SandboxRefusesRecorded(s) ==
  /\ spc[s] = "sandbox"
  /\ signalState' = Severity[skind[s]]
  /\ SignalGoto(s, "failed")
  /\ UNCHANGED <<skind, scur, sandboxVars, pumpVars, waitVars>>

SandboxRefuses(s) ==
  /\ spc[s] = "sandbox"
  /\ SignalGoto(s, "failed")
  /\ UNCHANGED <<signalState, skind, scur, sandboxVars, pumpVars, waitVars>>

\* recordSignal: load, give up if not more severe, else compare and swap.
RecordLoad(s) ==
  /\ spc[s] = "load"
  /\ scur' = [scur EXCEPT ![s] = signalState]
  /\ SignalGoto(s, IF Severity[skind[s]] <= signalState THEN "ok" ELSE "cas")
  /\ UNCHANGED <<signalState, skind, sandboxVars, pumpVars, waitVars>>

\* Mutants: a plain store, a lost race that is not retried, a retry that does
\* not load again, and severities that add up.
RecordSwapStores(s) ==
  /\ spc[s] = "cas"
  /\ signalState' = Severity[skind[s]] /\ SignalGoto(s, "ok")
  /\ UNCHANGED <<skind, scur, sandboxVars, pumpVars, waitVars>>

RecordSwapGivesUp(s) ==
  /\ spc[s] = "cas"
  /\ signalState' = IF signalState = scur[s] THEN Severity[skind[s]] ELSE signalState
  /\ SignalGoto(s, "ok")
  /\ UNCHANGED <<skind, scur, sandboxVars, pumpVars, waitVars>>

RecordSwapStale(s) ==
  /\ spc[s] = "cas"
  /\ IF signalState = scur[s]
       THEN signalState' = Severity[skind[s]] /\ SignalGoto(s, "ok")
       ELSE UNCHANGED <<signalState, spc>>
  /\ UNCHANGED <<skind, scur, sandboxVars, pumpVars, waitVars>>

RecordSwap(s) ==
  /\ spc[s] = "cas"
  /\ IF signalState = scur[s]
       THEN signalState' = Severity[skind[s]] /\ SignalGoto(s, "ok")
       ELSE UNCHANGED signalState /\ SignalGoto(s, "load")
  /\ UNCHANGED <<skind, scur, sandboxVars, pumpVars, waitVars>>

-----------------------------------------------------------------------------
Wait(w) == \/ WaitCall(w) \/ WaitCtxError(w) \/ WaitFailed(w)
           \/ WaitResult(w) \/ WaitClassify(w) \/ WaitReturn(w)

Signal(s) == \/ \E k \in AnyKind : SignalCall(s, k)
             \/ SandboxSignals(s) \/ SandboxRefuses(s)
             \/ RecordLoad(s) \/ RecordSwap(s)

Pump == PumpReceive \/ PumpCloseActivities \/ PumpCloseEnd

Sandbox ==
  \/ \E code \in ExitCodes : SelfExit(code)
  \/ SignalDeath \/ ForeignDeath \/ SandboxFails
  \/ \E k \in SourceKinds : Emit(k)
  \/ CloseSource

Done ==  \* nothing is left to do
  /\ \/ phase = "released"
     \/ /\ activitiesEnd
        /\ \A w \in Waiters : wpc[w] = "returned"
        /\ \A s \in Signallers : spc[s] \in {"ok", "failed"}
  /\ UNCHANGED vars

Next ==
  \/ Start \/ Release
  \/ Sandbox \/ Pump \/ Deliver
  \/ \E w \in Waiters : Wait(w) \/ CtxEnds(w)
  \/ \E s \in Signallers : Signal(s)
  \/ Done

Spec == Init /\ [][Next]_vars

(***************************************************************************)
(* The adapter's own goroutines run, and the sandbox answers the calls     *)
(* made to it and closes its channel once the process is over.  Nothing    *)
(* makes the process end, a context end, or a caller call.                 *)
(***************************************************************************)
Fairness ==
  /\ WF_vars(Pump)
  /\ WF_vars(CloseSource)
  /\ \A w \in Waiters :
       /\ WF_vars(WaitClassify(w) \/ WaitReturn(w))
       /\ WF_vars(WaitCtxError(w) \/ WaitFailed(w) \/ WaitResult(w))
  /\ \A s \in Signallers :
       WF_vars(SandboxSignals(s) \/ SandboxRefuses(s)
               \/ RecordLoad(s) \/ RecordSwap(s))

FairSpec == Spec /\ Fairness

\* The supervisor of the tools package keeps draining the activities.
DrainedSpec == FairSpec /\ WF_vars(Deliver)

-----------------------------------------------------------------------------
(* Properties *)

WaitSteps   == {"idle", "sandbox", "draining", "classified", "returned"}
WaitResults == {"none", "ctxError", "waitFailed"} \cup Reasons

\* The type invariant: every variable of the adapter, the sandbox and their
\* callers keeps to its range, and the sandbox's channel to its capacity.
TypeOK ==
  /\ phase \in {"prepared", "started", "released"}
  /\ life \in {"running", "exited", "failed"}
  /\ exitCode \in ExitCodes \cup {-1, 0}
  /\ cause \in {"none", "self", "signal", "foreign"}
  /\ dispatched \subseteq 0..3
  /\ source \in Seq(SourceKinds) /\ Len(source) <= SourceCap
  /\ held \in Seq(OutKinds) /\ Len(held) <= 1
  /\ sourceClosed \in BOOLEAN
  /\ activitiesClosed \in BOOLEAN /\ activitiesEnd \in BOOLEAN
  /\ signalState \in 0..3
  /\ wpc \in [Waiters -> WaitSteps]
  /\ wres \in [Waiters -> WaitResults]
  /\ ctxDone \subseteq Waiters
  /\ spc \in [Signallers -> {"idle", "sandbox", "load", "cas", "ok", "failed"}]
  /\ skind \in [Signallers -> AnyKind]
  /\ scur \in [Signallers -> 0..3]
  /\ emitted \in Seq(SourceKinds)
  /\ delivered \in Seq(OutKinds)
  /\ derived \in [Waiters -> {"none"} \cup Reasons]
  /\ earlier \in [Waiters -> SUBSET Waiters]

\* A Wait call that returns a terminal result returns after the translated
\* channel is closed, and after the consumer has received every activity the
\* sandbox ever reported, in order and translated (Wait, pumpActivities).
WaitSeesWholeStream ==
  (\E w \in Waiters : wres[w] \in Reasons) =>
    /\ activitiesClosed
    /\ delivered = Translated(emitted)

\* A death is blamed on a signal only if it was a death by signal and a Signal
\* call of just that severity got past the sandbox: one the sandbox refused,
\* or an invalid one, is never the reason (Signal, deriveReason).
BlameIsEarned ==
  \A w \in Waiters : Blamed(wres[w]) > 0 =>
    /\ exitCode = -1 /\ cause # "self"
    /\ \E s \in Signallers :
         /\ spc[s] = "ok"
         /\ Severity[skind[s]] = Blamed(wres[w])

\* A Wait call made after another had returned never blames a milder signal
\* than it, however Signal calls race.  Of two calls that overlap the one that
\* returns last may blame the milder: it may have loaded first (recordSignal,
\* deriveReason).
ReasonsNeverSoften ==
  \A u, v \in Waiters :
    u \in earlier[v] /\ wres[v] \in Reasons => Blamed(wres[u]) <= Blamed(wres[v])

\* A Wait call that classifies a death by signal counts every Signal call that
\* has returned without error by then, even one that lost the compare-and-swap
\* race to another (recordSignal, Wait).
ReturnedSignalsCount ==
  [][\A w \in Waiters, s \in Signallers :
       (/\ wpc[w] = "draining" /\ wpc'[w] = "classified"
        /\ exitCode = -1 /\ spc[s] = "ok")
       => Severity[skind[s]] <= Blamed(derived'[w])]_vars

\* The inductive form of WaitSeesWholeStream: at every moment what was reported
\* is what was received, then what the pump holds, then what is still in the
\* sandbox's channel (pumpActivities).
StreamInv ==
  /\ phase = "prepared" => ~activitiesClosed
  /\ activitiesEnd => activitiesClosed
  /\ activitiesClosed => sourceClosed /\ source = <<>> /\ held = <<>>
  /\ delivered \o held \o Translated(source) = Translated(emitted)
  /\ \A w \in Waiters :
       /\ wpc[w] = "classified" => activitiesEnd /\ derived[w] \in Reasons
       /\ wres[w] \in Reasons => activitiesEnd /\ wpc[w] = "returned"

\* The inductive form of BlameIsEarned and ReasonsNeverSoften: signalState is
\* the severity of a Signal call that succeeded, at least that of each one that
\* has, and at least what any Wait call has loaded; what a call returns is what
\* it loaded, after every return that preceded it (recordSignal, deriveReason).
BlameInv ==
  /\ \A s \in Signallers :
       /\ spc[s] \in {"sandbox", "load", "cas", "ok"} => skind[s] \in SignalKinds
       /\ spc[s] = "cas" => scur[s] < Severity[skind[s]]
       /\ spc[s] = "ok" => Severity[skind[s]] <= signalState
  /\ signalState > 0 =>
       \E s \in Signallers : spc[s] = "ok" /\ Severity[skind[s]] = signalState
  /\ life = "exited" /\ exitCode = -1 => cause # "self"
  /\ \A w \in Waiters :
       /\ wpc[w] \in {"draining", "classified"} => life = "exited"
       /\ wpc[w] \in {"idle", "sandbox", "draining"} => derived[w] = "none"
       /\ wres[w] \in Reasons => wres[w] = derived[w]
       /\ Blamed(derived[w]) <= signalState
       /\ Blamed(derived[w]) > 0 =>
            /\ life = "exited" /\ exitCode = -1
            /\ \E s \in Signallers :
                 spc[s] = "ok" /\ Severity[skind[s]] = Blamed(derived[w])
  /\ \A v \in Waiters : \A u \in earlier[v] :
       /\ wpc[u] = "returned"
       /\ derived[v] # "none" => Blamed(wres[u]) <= Blamed(derived[v])

\* Every call returns: a Wait call once the process is over, or its context has
\* ended (given a consumer that drains the activities), and a Signal call
\* whatever the other calls do to the compare-and-swap loop of recordSignal.
CallsReturn ==
  /\ \A w \in Waiters :
       (wpc[w] = "sandbox" /\ (w \in ctxDone \/ life # "running"))
         ~> (wpc[w] = "returned")
  /\ \A s \in Signallers : (spc[s] = "sandbox") ~> (spc[s] \in {"ok", "failed"})

\* The adapter implements the stream a tool.ProcessActivitySource promises.
Stream == INSTANCE ActivityStream WITH
  Kinds    <- OutKinds,
  pending  <- held \o Translated(source),
  received <- delivered,
  closed   <- activitiesClosed,
  waited   <- \E w \in Waiters : wres[w] \in Reasons

ImplementsStream == Stream!StreamSpec

=============================================================================

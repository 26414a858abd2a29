-------------------------- MODULE SessionAssembly --------------------------
(***************************************************************************)
(* How a CodeRig session is put together and taken apart                   *)
(* (internal/app/swarm.go, toolsets.go, runtime_controls.go).              *)
(*                                                                         *)
(* A persisted call runs openRuntimeAgent: three executor sets, the MCP    *)
(* manager when mcp.json names a server, the loop definitions, the         *)
(* permission review, the session over the exclusive workspace, and the    *)
(* MCP attachment.  A headless call runs newWithClientUsingStores, which   *)
(* resolves its process-shared store late and has no MCP part.  Any step   *)
(* may fail, and each place that may has a cleanup of its own, which names *)
(* what it closes.  The agent of a call that succeeded owns what is held   *)
(* until its Close.                                                        *)
(***************************************************************************)
EXTENDS Naturals, Sequences, FiniteSetsExt

CONSTANTS Persisted,   \* calls of SessionStoreFactory.openWithClient
          Headless,    \* calls of New
          Stubborn,    \* bound: the resources whose Close may fail
          Serving,     \* bound: whether mcp.json may name a server, or none
          None

Calls == Persisted \cup Headless

ExecutorSets == {"planner", "builder", "reviewer"}
Resources == ExecutorSets \cup {"manager", "session", "adopter"}

ASSUME AssemblyAssumption ==
  /\ Persisted \cap Headless = {}
  /\ Stubborn \subseteq Resources /\ Serving \subseteq BOOLEAN
  /\ None \notin Calls \cup Resources

VARIABLES
  pc,        \* pc[c]: the next step of call c
  held,      \* held[c]: the resources call c, or the agent it returned, has open
  todo,      \* todo[c]: what the cleanup or Close that c is in has yet to close
  servers,   \* servers[c]: mcp.json names a server when call c is made
  lease,     \* lease[b]: the call whose session holds the root lease in backend b
  shared,    \* the process-shared headless store, memoized by a sync.Once
  faults,    \* faults[c]: the resources whose Close failed; they may still be there
  report     \* report[c]: the resource whose error agent c's Close returns

vars == <<pc, held, todo, servers, lease, shared, faults, report>>

Backend(c) == IF c \in Persisted THEN "disk" ELSE "memory"

Steps == {"idle", "checks", "planner", "builder", "reviewer", "mcp", "definitions",
          "review", "stores", "session", "adapter", "attach", "start", "adopt",
          "assembled", "live", "closing", "closed", "failing", "failed"}

TypeOK ==
  /\ pc \in [Calls -> Steps]
  /\ held \in [Calls -> SUBSET Resources]
  /\ todo \in [Calls -> Seq(Resources)]
  /\ servers \in [Calls -> BOOLEAN]
  /\ lease \in [{"disk", "memory"} -> Calls \cup {None}]
  /\ shared \in {"unopened", "open", "failed"}
  /\ faults \in [Calls -> SUBSET Resources]
  /\ report \in [Calls -> Resources \cup {None}]

AssemblyInit ==
  /\ pc = [c \in Calls |-> "idle"]
  /\ held = [c \in Calls |-> {}]
  /\ todo = [c \in Calls |-> <<>>]
  /\ servers \in [Calls -> Serving]
  /\ lease = [b \in {"disk", "memory"} |-> None]
  /\ shared = "unopened"
  /\ faults = [c \in Calls |-> {}]
  /\ report = [c \in Calls |-> None]

-----------------------------------------------------------------------------
At(c, from) == pc[c] = from
Go(c, to) == pc' = [pc EXCEPT ![c] = to]
Keep == UNCHANGED <<servers, shared, faults, report>>

(* A step that fails leaves the call to its cleanup. *)
Fail(c, from, cleanup) ==
  /\ At(c, from)
  /\ Go(c, "failing")
  /\ todo' = [todo EXCEPT ![c] = cleanup]
  /\ UNCHANGED <<held, lease>>
  /\ Keep

(* A step that opens nothing. *)
Pass(c, from, to) ==
  /\ At(c, from)
  /\ Go(c, to)
  /\ UNCHANGED <<held, todo, lease>>
  /\ Keep

(* A step that opens resource r. *)
Open(c, from, r, to) ==
  /\ At(c, from)
  /\ Go(c, to)
  /\ held' = [held EXCEPT ![c] = @ \cup {r}]
  /\ UNCHANGED <<todo, lease>>
  /\ Keep

(* What each failure closes, in the order of its cleanup.  Inside
   buildSessionAccessWithPermissionFile: nothing is open before the first set,
   and each later set's failure names the sets before it. *)
AfterBuilder == <<"planner">>

\* Seeded fault of AfterReviewer: the builder's set is forgotten.
AfterReviewerForgetful == <<"planner">>

AfterReviewer == <<"planner", "builder">>

\* sessionAccess.Close.
CloseAccess == <<"planner", "builder", "reviewer">>

\* fail, in openRuntimeAgent: mcpSessionAssembly.close, then the access.
FailClosure == <<"adopter", "manager", "planner", "builder", "reviewer">>

\* Seeded fault of AttachCleanup: fail alone, without adapter.Close.
AttachCleanupForgetful == <<"adopter", "manager", "planner", "builder", "reviewer">>

\* A failed attach closes the adapter, and fails.
AttachCleanup == <<"session", "adopter", "manager", "planner", "builder", "reviewer">>

\* What a failure from the definitions to the session closes.
AssemblyCleanup(c) == IF c \in Persisted THEN FailClosure ELSE CloseAccess

\* Seeded faults of CloseOrder.
CloseOrderSetsEarly == <<"planner", "builder", "reviewer", "session", "adopter", "manager">>
CloseOrderNoManager == <<"session", "adopter", "planner", "builder", "reviewer">>

\* RuntimeAgent.Close: the adapter with its session first, the access last.
CloseOrder == <<"session", "adopter", "manager", "planner", "builder", "reviewer">>

Begin(c) == Pass(c, "idle", "checks")

(* buildSessionAccessWithPermissionFile: profile, restriction, egress route
   and permission store open nothing; then one executor set per role. *)
AccessChecks(c) == Pass(c, "checks", "planner") \/ Fail(c, "checks", <<>>)

BuildPlannerSet(c) == Open(c, "planner", "planner", "builder") \/ Fail(c, "planner", <<>>)

BuildBuilderSet(c) ==
  Open(c, "builder", "builder", "reviewer") \/ Fail(c, "builder", AfterBuilder)

BuildReviewerSet(c) ==
  \/ Open(c, "reviewer", "reviewer", IF c \in Persisted THEN "mcp" ELSE "definitions")
  \/ Fail(c, "reviewer", AfterReviewer)

(* newMCPSessionAssembly: no file, or no server in it, is no manager at all. *)
NewMCPAssembly(c) ==
  \/ ~servers[c] /\ Pass(c, "mcp", "definitions")
  \/ servers[c] /\ Open(c, "mcp", "manager", "definitions")
  \/ Fail(c, "mcp", CloseAccess)

SwarmDefinitions(c) ==
  Pass(c, "definitions", "review") \/ Fail(c, "definitions", AssemblyCleanup(c))

PermissionReview(c) ==
  \/ Pass(c, "review", IF c \in Persisted THEN "session" ELSE "stores")
  \/ Fail(c, "review", AssemblyCleanup(c))

(* headlessStores: the first caller's outcome is every caller's outcome. *)
HeadlessStores(c) ==
  /\ At(c, "stores")
  /\ shared' \in IF shared = "unopened" THEN {"open", "failed"} ELSE {shared}
  /\ IF shared' = "open" THEN Go(c, "session") /\ UNCHANGED todo
     ELSE Go(c, "failing") /\ todo' = [todo EXCEPT ![c] = CloseAccess]
  /\ UNCHANGED <<held, servers, lease, faults, report>>

(* Seeded fault of OpenSession: it waits for the workspace of a running session. *)
OpenSessionWaits(c) ==
  /\ At(c, "session")
  /\ lease[Backend(c)] = None
  /\ Go(c, "adapter")
  /\ held' = [held EXCEPT ![c] = @ \cup {"session"}]
  /\ lease' = [lease EXCEPT ![Backend(c)] = c]
  /\ UNCHANGED todo
  /\ Keep

(* openSessionWithDefinitions, first half: the rig opens or restores a session
   only when nobody else has the exclusive workspace. *)
OpenSession(c) ==
  \/ /\ At(c, "session")
     /\ lease[Backend(c)] = None
     /\ Go(c, "adapter")
     /\ held' = [held EXCEPT ![c] = @ \cup {"session"}]
     /\ lease' = [lease EXCEPT ![Backend(c)] = c]
     /\ UNCHANGED todo
     /\ Keep
  \/ Fail(c, "session", AssemblyCleanup(c))

(* r's Close succeeds, and a session's gives its lease up; or it fails, and r
   may still be there, with its lease or without. *)
Closes(c, r) ==
  \/ /\ held' = [held EXCEPT ![c] = @ \ {r}]
     /\ lease' = IF r = "session" THEN [lease EXCEPT ![Backend(c)] = None] ELSE lease
     /\ UNCHANGED faults
  \/ /\ r \in Stubborn
     /\ faults' = [faults EXCEPT ![c] = @ \cup {r}]
     /\ \/ UNCHANGED lease
        \/ r = "session" /\ lease' = [lease EXCEPT ![Backend(c)] = None]
     /\ UNCHANGED held

(* The adapter takes the session over.  openSessionWithDefinitions does nothing
   for a session whose adapter cannot be built: that shutting it down is the
   adapter's own is what the design says of sessionadapter ("initialization
   cleanup", docs/plans/2026-07-15-coderig-modularization.md:104). *)
WrapAdapter(c) ==
  \/ Pass(c, "adapter", IF c \in Persisted THEN "attach" ELSE "assembled")
  \/ /\ At(c, "adapter")
     /\ Go(c, "failing")
     /\ todo' = [todo EXCEPT ![c] = AssemblyCleanup(c)]
     /\ Closes(c, "session")
     /\ UNCHANGED <<servers, shared, report>>

(* mcpSessionAssembly.attach: nothing to do without a manager; otherwise bind
   the session, start the connections, start adoption. *)
AttachBind(c) ==
  \/ "manager" \notin held[c] /\ Pass(c, "attach", "assembled")
  \/ "manager" \in held[c] /\ (Pass(c, "attach", "start") \/ Fail(c, "attach", AttachCleanup))

AttachStart(c) == Pass(c, "start", "adopt") \/ Fail(c, "start", AttachCleanup)

AttachAdopt(c) ==
  Open(c, "adopt", "adopter", "assembled") \/ Fail(c, "adopt", AttachCleanup)

Return(c) == Pass(c, "assembled", "live")

BeginClose(c) ==
  /\ At(c, "live")
  /\ Go(c, "closing")
  /\ todo' = [todo EXCEPT ![c] = CloseOrder]
  /\ UNCHANGED <<held, lease>>
  /\ Keep

(* Seeded fault of Reported: the last error overwrites the earlier ones. *)
ReportedLast(old, r) == r

(* The error Close returns once r's own Close failed: the first one stays (the
   executor sets' errors are joined, and stand here for their first). *)
Reported(old, r) == IF old = None THEN r ELSE old

(* Go on to the next resource of the cleanup: one that was never opened is
   skipped, and one whose Close fails does not stop the rest.  Only an agent's
   Close keeps the error. *)
CloseNext(c) ==
  /\ pc[c] \in {"failing", "closing"}
  /\ todo[c] # <<>>
  /\ todo' = [todo EXCEPT ![c] = Tail(@)]
  /\ LET r == Head(todo[c]) IN
       \/ r \notin held[c] /\ UNCHANGED <<held, lease, faults, report>>
       \/ /\ r \in held[c]
          /\ Closes(c, r)
          /\ report' = IF pc[c] = "closing" /\ faults' # faults
                       THEN [report EXCEPT ![c] = Reported(@, r)] ELSE report
  /\ UNCHANGED <<pc, servers, shared>>

Released(c) ==
  /\ todo[c] = <<>>
  /\ Pass(c, "failing", "failed") \/ Pass(c, "closing", "closed")

-----------------------------------------------------------------------------
(* What openRuntimeAgent and newWithClientUsingStores do once called ... *)
Assemble(c) ==
  \/ AccessChecks(c)
  \/ BuildPlannerSet(c)
  \/ BuildBuilderSet(c)
  \/ BuildReviewerSet(c)
  \/ NewMCPAssembly(c)
  \/ SwarmDefinitions(c)
  \/ PermissionReview(c)
  \/ HeadlessStores(c)
  \/ OpenSession(c)
  \/ WrapAdapter(c)
  \/ AttachBind(c)
  \/ AttachStart(c)
  \/ AttachAdopt(c)

(* ... and what cleanup and Close do. *)
TearDown(c) == CloseNext(c) \/ Released(c)

Done == (\A c \in Calls : pc[c] \in {"failed", "closed"}) /\ UNCHANGED vars

Next ==
  \/ \E c \in Calls : Begin(c) \/ Assemble(c) \/ Return(c) \/ BeginClose(c) \/ TearDown(c)
  \/ Done

Spec == AssemblyInit /\ [][Next]_vars

-----------------------------------------------------------------------------
(* What call c has open and has not tried to close. *)
Unclosed(c) == held[c] \ faults[c]

(* Whichever step a call fails at, its cleanup misses nothing it has opened, and
   neither does an agent's Close, whichever Close fails on the way: "Any failure
   after the access is built closes the partial assembly ... so nothing leaks"
   (swarm.go:528).  The root lease is free then, unless it is the session's own
   Close that failed. *)
NothingLeaks ==
  \A c \in Calls : pc[c] \in {"failed", "closed"} =>
    /\ Unclosed(c) = {}
    /\ lease[Backend(c)] = c => "session" \in faults[c]

(* A session never outlives the executor sets its tools run in; while it runs
   inside an agent it keeps its MCP manager and adopter; and an adopter never
   outlives the manager it drives (RuntimeAgent.Close, runtime_controls.go:78).
   A resource whose Close was called, if only to fail, counts as gone. *)
ConsumersStopFirst ==
  \A c \in Calls :
    /\ "session" \in Unclosed(c) => ExecutorSets \subseteq Unclosed(c)
    /\ "adopter" \in Unclosed(c) => "manager" \in Unclosed(c)
    /\ (/\ c \in Persisted
        /\ servers[c]
        /\ pc[c] \in {"assembled", "live", "closing"}
        /\ "session" \in Unclosed(c)) => {"manager", "adopter"} \subseteq Unclosed(c)

(* An agent's Close goes through every resource although some Close fails, and
   returns the error of the first that did (runtime_controls.go:87-105). *)
FirstFaultReported ==
  \A c \in Calls : pc[c] = "closed" =>
    report[c] = IF faults[c] = {} THEN None
                ELSE CloseOrder[Min({i \in DOMAIN CloseOrder : CloseOrder[i] \in faults[c]})]

=============================================================================

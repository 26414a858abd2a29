----------------------------- MODULE CommandLine -----------------------------
(***************************************************************************)
(* The coderig process (cmd/coderig/main.go): flags, the thunk the terminal *)
(* runtime opens sessions with, --list, and the store's teardown, over one  *)
(* SessionStoreFactory.  The terminal runtime itself (looprig/tui) is       *)
(* outside the repository: it is modelled from what main.go says of it,     *)
(* doing anything a person at it may make it do.                            *)
(***************************************************************************)
EXTENDS SessionStore

ASSUME CommandLineAssumption ==
  /\ Cardinality(Closers) = 1
  /\ {"absent", "blank", "malformed", "nothing", "thunk"} \cap SessionIds = {}

VARIABLES
  stage,   \* how far run has come
  flags,   \* what parseFlags returned
  opened,  \* openThunk's opened
  next,    \* what the runtime opens once no call of Open is in flight
  quit,    \* the person, or a signal, has asked the runtime to return
  exit,    \* the exit code so far
  sick     \* the store's Close returned an error

program == <<stage, flags, opened, next, quit, exit, sick>>
cliVars == <<allVars, program>>

exitOK == 0
exitFailed == 1
exitUsage == 2

Invocations ==
  [list : BOOLEAN, resume : {"absent", "blank", "malformed"} \cup SessionIds,
   profile : {"readonly", "trusted", "unconfined", "other"}, acknowledged : BOOLEAN,
   otherArguments : BOOLEAN, dataDir : BOOLEAN]

CommandLineTypeOK ==
  /\ StoreTypeOK
  /\ stage \in {"start", "list", "runtime", "teardown", "exited"}
  /\ flags \in [list : BOOLEAN, resume : SessionIds \cup {None}]
  /\ opened \in BOOLEAN
  /\ next \in {"nothing", "thunk"} \cup SessionIds
  /\ quit \in BOOLEAN
  /\ exit \in {exitOK, exitFailed, exitUsage}
  /\ sick \in BOOLEAN

CommandLineInit ==
  /\ StoreInit
  /\ stage = "start"
  /\ flags = [list |-> FALSE, resume |-> None]
  /\ opened = FALSE /\ next = "nothing" /\ quit = FALSE
  /\ exit = exitOK /\ sick = FALSE

-----------------------------------------------------------------------------
(* The invocations parseFlags refuses: unknown flags and positional arguments,
   profile names, unconfined without its acknowledgement, a --resume that is
   given but is no session id, --list together with --resume. *)
Malformed(a) ==
  \/ a.otherArguments
  \/ a.profile = "other"
  \/ a.profile = "unconfined" /\ ~a.acknowledged
  \/ a.resume \in {"blank", "malformed"}
  \/ a.list /\ a.resume # "absent"

Parsed(a) ==
  [list |-> a.list, resume |-> IF a.resume = "absent" THEN None ELSE a.resume]

(* run up to the store factory: the flags, then the data directory, which needs
   a home directory when --data-dir does not name it. *)
Launch ==
  /\ stage = "start"
  /\ \E a \in Invocations :
       \/ /\ Malformed(a)
          /\ stage' = "exited" /\ exit' = exitUsage
          /\ UNCHANGED <<flags, next>>
       \/ /\ ~Malformed(a) /\ ~a.dataDir
          /\ stage' = "exited" /\ exit' = exitFailed
          /\ UNCHANGED <<flags, next>>
       \/ /\ ~Malformed(a)
          /\ flags' = Parsed(a)
          /\ stage' = IF a.list THEN "list" ELSE "runtime"
          /\ next' = IF a.list THEN "nothing" ELSE "thunk"
          /\ UNCHANGED exit
  /\ UNCHANGED <<allVars, opened, quit, sick>>

(* --list: one call of List, whose sessions are printed as they come. *)
ListSessions(l) ==
  /\ stage = "list"
  /\ \A m \in Listers : listing[m] = "idle"
  /\ CallList(l)
  /\ UNCHANGED program

ListSessionsReturns(l) ==
  /\ stage = "list"
  /\ listing[l] \in {"filter", "refused"}
  /\ exit' = IF listing[l] = "filter" THEN exitOK ELSE exitFailed
  /\ stage' = "teardown"
  /\ UNCHANGED <<allVars, flags, opened, next, quit, sick>>

-----------------------------------------------------------------------------
InFlight == {c \in Persisted : opening[c] \notin {"idle", "returned", "refused"}}
Agents == {c \in Persisted : opening[c] = "returned" /\ pc[c] # "closed"}

(* A call of Open with the given selector; Open's only caller is the runtime. *)
OpenWith(c, resume) ==
  /\ OpenAt(c, "idle", "models")
  /\ selector' = [selector EXCEPT ![c] = resume]
  /\ next' = "nothing"
  /\ UNCHANGED <<vars, factory, catalog, session, listing, browser, closing,
                 stage, flags, quit, exit, sick>>

(* Seeded fault of OpenThunk: every call resumes. *)
OpenThunkResuming(c) ==
  /\ stage = "runtime" /\ next = "thunk"
  /\ InFlight = {} /\ Agents = {}
  /\ OpenWith(c, flags.resume)
  /\ opened' = TRUE

(* openThunk: only the first call resumes, whether or not it succeeds.  The
   runtime has closed the live session first. *)
OpenThunk(c) ==
  /\ stage = "runtime" /\ next = "thunk"
  /\ InFlight = {} /\ Agents = {}
  /\ OpenWith(c, IF opened THEN None ELSE flags.resume)
  /\ opened' = TRUE

(* sessionBrowser.ResumeSession.  Whether the runtime closes the live session
   before or after is its own; the workspace lease refuses the latter. *)
ResumeSession(c) ==
  /\ stage = "runtime" /\ next \in SessionIds
  /\ InFlight = {}
  /\ OpenWith(c, next)
  /\ UNCHANGED opened

(* What the person does: /clear, the picker, choosing from it, leaving; as long
   as there are calls of Open left. *)
Asked ==
  /\ stage = "runtime" /\ ~quit /\ opened /\ next = "nothing" /\ InFlight = {}
  /\ \E c \in Persisted : opening[c] = "idle"

Clear ==
  /\ Asked
  /\ next' = "thunk"
  /\ UNCHANGED <<allVars, stage, flags, opened, quit, exit, sick>>

Browse(l) ==
  /\ stage = "runtime" /\ ~quit
  /\ CallList(l)
  /\ UNCHANGED program

Choose(l) ==
  /\ Asked
  /\ listing[l] = "returned"
  /\ next' \in listed[l]
  /\ UNCHANGED <<allVars, stage, flags, opened, quit, exit, sick>>

Quit ==
  /\ stage = "runtime" /\ ~quit
  /\ quit' = TRUE
  /\ next' = "nothing"
  /\ UNCHANGED <<allVars, stage, flags, opened, exit, sick>>

(* The runtime closes the live session to replace it and when it leaves. *)
CloseSession(c) ==
  /\ stage = "runtime" /\ (quit \/ next # "nothing") /\ InFlight = {}
  /\ opening[c] = "returned"
  /\ BeginClose(c)
  /\ UNCHANGED <<storeVars, program>>

(* What its Close reports goes to the runtime, which returns what it likes. *)
CloseSessionSteps(c) ==
  /\ opening[c] = "returned" /\ pc[c] = "closing"
  /\ TearDown(c)
  /\ UNCHANGED <<storeVars, program>>

(* runtime.Run returns once its session is closed: on request, or because an
   open failed. *)
RuntimeReturns ==
  /\ stage = "runtime"
  /\ InFlight = {} /\ Agents = {}
  /\ quit \/ (next = "nothing" /\ \E c \in Persisted : opening[c] = "refused")
  /\ exit' \in {exitOK, exitFailed}
  /\ stage' = "teardown"
  /\ UNCHANGED <<allVars, flags, opened, next, quit, sick>>

-----------------------------------------------------------------------------
(* Seeded fault of BeginTeardown: the store is closed as soon as the runtime is
   asked to leave. *)
BeginTeardownOnQuit(k) ==
  /\ stage = "teardown" \/ (stage = "runtime" /\ quit)
  /\ CallClose(k)
  /\ UNCHANGED program

BeginTeardown(k) ==
  /\ stage = "teardown"
  /\ CallClose(k)
  /\ UNCHANGED program

TeardownSteps(k) ==
  /\ LockToClose(k)
  /\ UNCHANGED program

(* Seeded fault of EndTeardown: the runtime's exit code whatever Close said. *)
EndTeardownQuietly(k) ==
  /\ CloseBackend(k)
  /\ sick' \in (IF handles' < handles THEN BOOLEAN ELSE {FALSE})
  /\ stage' = "exited"
  /\ UNCHANGED <<exit, flags, opened, next, quit>>

(* factory.Close's error turns the exit code into a failure. *)
EndTeardown(k) ==
  /\ CloseBackend(k)
  /\ sick' \in (IF handles' < handles THEN BOOLEAN ELSE {FALSE})
  /\ exit' = IF sick' THEN exitFailed ELSE exit
  /\ stage' = "exited"
  /\ UNCHANGED <<flags, opened, next, quit>>

-----------------------------------------------------------------------------
(* The process's own work, one goroutine a disjunct ... *)
FactoryOpen(c) == stage # "exited" /\ OpenSteps(c) /\ UNCHANGED program
FactoryList(l) ==
  /\ stage # "exited"
  /\ flags.list => listing[l] # "filter"   \* List itself does not filter
  /\ ListSteps(l)
  /\ UNCHANGED program
FactoryClose(k) == BeginTeardown(k) \/ TeardownSteps(k) \/ EndTeardown(k)

Drive ==
  \/ Launch
  \/ \E l \in Listers : ListSessions(l) \/ ListSessionsReturns(l)
  \/ \E c \in Persisted :
       OpenThunk(c) \/ ResumeSession(c) \/ CloseSession(c) \/ CloseSessionSteps(c)

(* ... and what happens only if somebody asks for it. *)
Person ==
  \/ Clear
  \/ Quit
  \/ \E l \in Listers : Browse(l) \/ Choose(l)

Exited == stage = "exited" /\ UNCHANGED cliVars

CommandLineNext ==
  \/ Drive
  \/ Person
  \/ RuntimeReturns
  \/ \E c \in Persisted : FactoryOpen(c)
  \/ \E l \in Listers : FactoryList(l)
  \/ \E k \in Closers : FactoryClose(k)
  \/ Exited

(* Goroutines keep running, and the runtime returns when it is asked to; nobody
   is made to ask for anything. *)
CommandLineSpec ==
  /\ CommandLineInit
  /\ [][CommandLineNext]_cliVars
  /\ WF_cliVars(Drive)
  /\ WF_cliVars(quit /\ RuntimeReturns)
  /\ \A c \in Persisted : WF_cliVars(FactoryOpen(c))
  /\ \A l \in Listers : WF_cliVars(FactoryList(l))
  /\ \A k \in Closers : WF_cliVars(FactoryClose(k))

-----------------------------------------------------------------------------
(* "The store close therefore always happens after session shutdown, including
   runtime-error exits" (main.go:215): once the factory is closed no Open is
   under way, nothing of a session is left that was not closed, and only a
   session whose own Close failed may still have the root lease. *)
StoreOutlivesSessions ==
  closed =>
    /\ InFlight = {}
    /\ \A c \in Persisted : Unclosed(c) = {}
    /\ lease["disk"] # None => "session" \in faults[lease["disk"]]

(* "/clear never re-restores the same id" (main.go:189): of the process's calls
   of Open, two open the same session only if the picker offered it; opening
   the process with --resume, even if that fails once the session is there,
   does not make /clear go back. *)
ReopenedOnlyIfOffered ==
  \A c, d \in Persisted :
    c # d /\ session[c] # None /\ session[c] = session[d] =>
      \E l \in Listers : listing[l] = "returned" /\ session[c] \in listed[l]

(* A process that exits with 0 printed a listing that succeeded or ran the
   runtime, and closed its store without error. *)
SuccessIsEarned ==
  stage = "exited" /\ exit = exitOK =>
    /\ ~sick /\ closed /\ handles = 0
    /\ flags.list => \E l \in Listers : listing[l] = "filter"

(* Nothing hangs the process: an Open or a listing that was called returns, and
   the process exits once it is asked to list or to leave, although a listing
   of the picker may still run when the store is closed. *)
ProcessExits ==
  /\ \A c \in Persisted : opening[c] = "models" ~> opening[c] \in {"returned", "refused"}
  /\ (quit \/ flags.list) ~> stage = "exited"

=============================================================================

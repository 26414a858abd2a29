-------------------------- MODULE CommandLineProofs --------------------------
(***************************************************************************)
(* Proofs about CommandLine, for any number of Opens, listings and         *)
(* sessions, whatever the person at the terminal asks for: what            *)
(* SessionStoreProofs shows of the store holds in the process too, and the *)
(* process closes the store last, reopens only what was offered and exits  *)
(* with 0 only when it worked.                                             *)
(***************************************************************************)
EXTENDS CommandLine, SessionStoreProofs

Offered(s) == \E l \in Listers : listing[l] = "returned" /\ s \in listed[l]

(* The process opens nothing and has no agent. *)
Quiet == InFlight = {} /\ Agents = {}

StoreFacts == StoreInv /\ LiveInv /\ FactoryTyped /\ BrowserTyped

(* How far the process is and what that says of its store. *)
RunInv ==
  /\ stage # "runtime" => Quiet
  /\ stage = "runtime" => ~flags.list
  /\ stage \notin {"teardown", "exited"} => \A k \in Closers : closing[k] = "idle"
  /\ closed => stage = "exited" /\ fs # "open"
  /\ stage \in {"teardown", "exited"} /\ flags.list /\ exit = exitOK =>
       \E l \in Listers : listing[l] = "filter"
  /\ stage = "exited" /\ exit = exitOK => ~sick /\ closed

(* Opens come one at a time, the first alone may resume what nobody offered. *)
OfferInv ==
  /\ selector \in [Persisted -> SessionIds \cup {None}]
  /\ \A c \in Persisted : session[c] # None => session[c] \in catalog
  /\ \A c, d \in InFlight : c = d
  /\ ~opened => InFlight = {} /\ \A c \in Persisted : session[c] = None
  /\ next \in SessionIds => opened /\ Offered(next)
  /\ flags.resume \in SessionIds \cup {None}
  /\ \A c \in InFlight :
       \/ selector[c] = None
       \/ Offered(selector[c])
       \/ \A d \in Persisted \ {c} : session[d] = None
  /\ ReopenedOnlyIfOffered

CliInv == StoreFacts /\ RunInv /\ OfferInv

-----------------------------------------------------------------------------
LEMMA CliInitially == CommandLineInit => CliInv
<1> SUFFICES ASSUME CommandLineInit PROVE CliInv
  OBVIOUS
<1>1. StoreFacts
  BY StoreInitially, LiveInitially, TypesInitially DEF CommandLineInit, StoreFacts
<1>2. RunInv
  BY DEF CommandLineInit, StoreInit, RunInv, Quiet, InFlight, Agents
<1>3. OfferInv
  BY CommandLineAssumption DEF CommandLineInit, StoreInit, OfferInv, InFlight, ReopenedOnlyIfOffered
<1> QED BY <1>1, <1>2, <1>3 DEF CliInv

(* What the process does to its store is a step of the store. *)
LEMMA CliRunsStore ==
  ASSUME CliInv, [CommandLineNext]_cliVars
  PROVE  [StoreNext]_allVars
<1>1. CASE \E c \in Persisted : OpenThunk(c) \/ ResumeSession(c)
  <2>1. ASSUME NEW c \in Persisted, NEW r \in SessionIds \cup {None}, OpenWith(c, r)
        PROVE  CallOpen(c)
    BY <2>1 DEF OpenWith, CallOpen
  <2>2. flags.resume \in SessionIds \cup {None}
    BY DEF CliInv, OfferInv
  <2> QED BY <1>1, <2>1, <2>2 DEF OpenThunk, ResumeSession, StoreNext
<1>2. CASE \E c \in Persisted : CloseSession(c) \/ CloseSessionSteps(c)
  BY <1>2 DEF CloseSession, CloseSessionSteps, CloseAgent, StoreNext
<1>3. CASE \E l \in Listers : ListSessions(l) \/ Browse(l) \/ FactoryList(l)
  BY <1>3 DEF ListSessions, Browse, FactoryList, StoreNext
<1>4. CASE \E c \in Persisted : FactoryOpen(c)
  BY <1>4 DEF FactoryOpen, StoreNext
<1>5. CASE \E k \in Closers : FactoryClose(k)
  BY <1>5 DEF FactoryClose, BeginTeardown, TeardownSteps, EndTeardown, CloseSteps, StoreNext
<1>6. CASE \/ Launch \/ RuntimeReturns \/ Clear \/ Quit \/ Exited \/ UNCHANGED cliVars
           \/ \E l \in Listers : ListSessionsReturns(l) \/ Choose(l)
  BY <1>6 DEF Launch, RuntimeReturns, Clear, Quit, Exited, ListSessionsReturns, Choose, cliVars
<1> QED BY <1>1, <1>2, <1>3, <1>4, <1>5, <1>6 DEF CommandLineNext, Drive, Person

LEMMA StoreFactsStep ==
  ASSUME CliInv, [CommandLineNext]_cliVars
  PROVE  StoreFacts'
<1> QED BY CliRunsStore, StoreStep, LiveStep, FactoryStep, BrowserStep DEF CliInv, StoreFacts

-----------------------------------------------------------------------------
(* An Open that takes a step was in flight, and no other moves with it. *)
LEMMA OpenMoves ==
  ASSUME StoreFacts, NEW c \in Persisted, OpenSteps(c)
  PROVE  /\ c \in InFlight /\ InFlight' \subseteq InFlight
         /\ UNCHANGED <<listing, listed, closing, selector, closed>>
         /\ fs' = "open" => fs = "open" \/ ~closed
<1>1. /\ opening[c] \notin {"idle", "returned", "refused"}
      /\ \A d \in Persisted \ {c} : opening'[d] = opening[d]
  BY DEF OpenSteps, LoadModels, LockToOpen, EnsureToOpen, EnterAssembly, AssemblyStep,
     LeaveAssembly, UnlockOpened, SettleCurrent, OpenAt, StoreFacts, StoreInv, CallsTyped
<1>2. UNCHANGED <<listing, listed, closing, selector, closed>>
  BY DEF OpenSteps, LoadModels, LockToOpen, EnsureToOpen, EnterAssembly, AssemblyStep,
     LeaveAssembly, UnlockOpened, SettleCurrent, factory, browser
<1>3. fs' = "open" => fs = "open" \/ ~closed
  <2>1. CASE EnsureToOpen(c)
    <3>1. opening[c] = "stores" => ~closed
      BY DEF StoreFacts, StoreInv, BackendInv, InStores
    <3> QED BY <2>1, <3>1 DEF EnsureToOpen, OpenAt, RefuseClosed, Reuse, OpenBackend,
            BackendFails, DropStores
  <2>2. CASE ~EnsureToOpen(c)
    BY <2>2 DEF OpenSteps, LoadModels, LockToOpen, EnterAssembly, AssemblyStep, LeaveAssembly,
       UnlockOpened, SettleCurrent, factory
  <2> QED BY <2>1, <2>2
<1> QED BY <1>1, <1>2, <1>3 DEF InFlight

(* A listing that takes a step; one that was read out stays as it is. *)
LEMMA ListMoves ==
  ASSUME StoreFacts, NEW l \in Listers, CallList(l) \/ ListSteps(l)
  PROVE  /\ UNCHANGED <<vars, opening, session, catalog, selector, closing, closed>>
         /\ fs' = "open" => fs = "open" \/ ~closed
         /\ listing[l] # "returned"
         /\ \A m \in Listers \ {l} : listing'[m] = listing[m] /\ listed'[m] = listed[m]
<1>1. /\ UNCHANGED <<vars, opening, session, catalog, selector, closing, closed>>
      /\ listing[l] # "returned"
  BY DEF CallList, ListSteps, LockToList, EnsureToList, ReadCatalog, UnlockListed, ReadCurrent,
     ReturnList, ListAt, factory
<1>2. \A m \in Listers \ {l} : listing'[m] = listing[m]
  BY DEF CallList, ListSteps, LockToList, EnsureToList, ReadCatalog, UnlockListed, ReadCurrent,
     ReturnList, ListAt, StoreFacts, StoreInv, CallsTyped
<1>3. \A m \in Listers \ {l} : listed'[m] = listed[m]
  BY DEF CallList, ListSteps, LockToList, EnsureToList, ReadCatalog, UnlockListed, ReadCurrent,
     ReturnList, StoreFacts, BrowserTyped, browser
<1>4. fs' = "open" => fs = "open" \/ ~closed
  <2>1. CASE EnsureToList(l)
    <3>1. listing[l] = "stores" => ~closed
      BY DEF StoreFacts, StoreInv, BackendInv, InStores
    <3> QED BY <2>1, <3>1 DEF EnsureToList, ListAt, RefuseClosed, Reuse, OpenBackend,
            BackendFails, DropStores
  <2>2. CASE ~EnsureToList(l)
    BY <2>2 DEF CallList, ListSteps, LockToList, ReadCatalog, UnlockListed, ReadCurrent, ReturnList, factory
  <2> QED BY <2>1, <2>2
<1> QED BY <1>1, <1>2, <1>3, <1>4

-----------------------------------------------------------------------------
(* A step within a stage of the process. *)
LEMMA RunKept ==
  ASSUME RunInv, UNCHANGED <<stage, flags, exit, sick, closing, closed>>,
         fs' = "open" => fs = "open" \/ ~closed,
         stage # "runtime" => Quiet',
         \A l \in Listers : flags.list /\ listing[l] = "filter" => listing'[l] = "filter"
  PROVE  RunInv'
BY DEF RunInv

LEMMA QuietKept ==
  ASSUME Quiet, UNCHANGED <<pc, opening>>
  PROVE  Quiet'
BY DEF Quiet, InFlight, Agents

LEMMA RunStep ==
  ASSUME StoreFacts, RunInv, [CommandLineNext]_cliVars
  PROVE  RunInv'
<1>1. CASE Launch
  <2>1. UNCHANGED <<pc, opening, closing, listing, closed, fs, sick>> /\ stage = "start"
    BY <1>1 DEF Launch, allVars, vars, storeVars, factory, calls
  <2>2. Quiet'
    BY <2>1, QuietKept DEF RunInv
  <2>3. \/ stage' = "exited" /\ exit' # exitOK
        \/ stage' = "list"
        \/ stage' = "runtime" /\ ~flags'.list
    BY <1>1 DEF Launch, Parsed, exitOK, exitFailed, exitUsage
  <2> QED BY <2>1, <2>2, <2>3 DEF RunInv
<1>2. ASSUME NEW l \in Listers, ListSessions(l) \/ Browse(l) \/ FactoryList(l)
      PROVE  RunInv'
  <2>1. /\ CallList(l) \/ ((flags.list => listing[l] # "filter") /\ ListSteps(l))
        /\ UNCHANGED program
    BY <1>2 DEF ListSessions, Browse, FactoryList
  <2>2. flags.list => listing[l] # "filter"
    BY <2>1 DEF CallList, ListAt
  <2>3. stage # "runtime" => Quiet'
    BY <2>1, ListMoves, QuietKept DEF RunInv, vars
  <2> QED BY <2>1, <2>2, <2>3, ListMoves, RunKept DEF program
<1>3. ASSUME NEW l \in Listers, ListSessionsReturns(l)
      PROVE  RunInv'
  <2>1. /\ UNCHANGED <<pc, opening, closing, listing, closed, fs, flags, sick>>
        /\ stage = "list" /\ stage' = "teardown" /\ Quiet
        /\ exit' = exitOK => listing[l] = "filter"
    BY <1>3 DEF ListSessionsReturns, allVars, vars, storeVars, factory, calls, exitOK, exitFailed,
       RunInv
  <2> QED BY <2>1, QuietKept DEF RunInv
<1>4. ASSUME NEW c \in Persisted,
             OpenThunk(c) \/ ResumeSession(c) \/ CloseSession(c) \/ CloseSessionSteps(c)
      PROVE  RunInv'
  <2>1. UNCHANGED <<stage, flags, exit, sick, closing, closed, fs, listing>>
    BY <1>4 DEF OpenThunk, ResumeSession, CloseSession, CloseSessionSteps, OpenWith, storeVars,
       factory, calls, program
  <2>2. stage = "runtime"
    <3>1. CloseSessionSteps(c) => c \in Agents
      BY DEF CloseSessionSteps, Agents
    <3> QED BY <1>4, <3>1 DEF OpenThunk, ResumeSession, CloseSession, RunInv, Quiet
  <2> QED BY <2>1, <2>2, RunKept
<1>5. CASE RuntimeReturns
  <2>1. /\ UNCHANGED <<pc, opening, closing, listing, closed, fs, flags, sick>>
        /\ stage = "runtime" /\ stage' = "teardown" /\ Quiet
    BY <1>5 DEF RuntimeReturns, allVars, vars, storeVars, factory, calls, Quiet
  <2> QED BY <2>1, QuietKept DEF RunInv
<1>6. CASE \/ Clear \/ Quit \/ Exited \/ UNCHANGED cliVars
           \/ \E l \in Listers : Choose(l)
  <2>1. UNCHANGED <<allVars, stage, flags, exit, sick>>
    BY <1>6 DEF Clear, Quit, Exited, Choose, cliVars, program
  <2> QED BY <2>1, RunKept, QuietKept DEF allVars, vars, storeVars, factory, calls, RunInv
<1>7. ASSUME NEW c \in Persisted, FactoryOpen(c)
      PROVE  RunInv'
  <2>1. OpenSteps(c) /\ UNCHANGED program
    BY <1>7 DEF FactoryOpen
  <2>2. stage = "runtime"
    BY <2>1, OpenMoves DEF RunInv, Quiet
  <2> QED BY <2>1, <2>2, OpenMoves, RunKept DEF program
<1>8. ASSUME NEW k \in Closers, BeginTeardown(k) \/ TeardownSteps(k)
      PROVE  RunInv'
  <2>1. UNCHANGED <<pc, opening, closed, fs, listing, stage, flags, exit, sick>>
    BY <1>8 DEF BeginTeardown, TeardownSteps, CallClose, LockToClose, program, vars, factory
  <2>2. stage \in {"teardown", "exited"}
    BY <1>8 DEF BeginTeardown, TeardownSteps, LockToClose, CloseAt, RunInv
  <2> QED BY <2>1, <2>2, QuietKept DEF RunInv
<1>9. ASSUME NEW k \in Closers, EndTeardown(k)
      PROVE  RunInv'
  <2>1. /\ UNCHANGED <<pc, opening, listing, flags>>
        /\ closed' /\ fs' # "open" /\ stage' = "exited" /\ closing[k] = "close"
        /\ exit' = exitOK => exit = exitOK /\ sick' = FALSE
    <3>1. sick' \in BOOLEAN
      BY <1>9 DEF EndTeardown
    <3>2. fs' # "open"
      BY <1>9 DEF EndTeardown, CloseBackend, RunInv
    <3> QED BY <1>9, <3>1, <3>2 DEF EndTeardown, CloseBackend, CloseAt, vars, exitOK, exitFailed
  <2>2. stage \in {"teardown", "exited"}
    BY <2>1 DEF RunInv
  <2> QED BY <2>1, <2>2, QuietKept DEF RunInv
<1> QED
  BY <1>1, <1>2, <1>3, <1>4, <1>5, <1>6, <1>7, <1>8, <1>9
     DEF CommandLineNext, Drive, Person, FactoryClose

-----------------------------------------------------------------------------
(* What a listing has offered stays offered. *)
LEMMA OfferedStays ==
  ASSUME StoreFacts, [CommandLineNext]_cliVars, NEW s, Offered(s)
  PROVE  Offered(s)'
<1>1. CASE UNCHANGED <<listing, listed>>
  BY <1>1 DEF Offered
<1>2. ASSUME NEW l \in Listers, CallList(l) \/ ListSteps(l)
      PROVE  Offered(s)'
  BY <1>2, ListMoves DEF Offered
<1>3. CASE \E l \in Listers : ListSessions(l) \/ Browse(l) \/ FactoryList(l)
  BY <1>2, <1>3 DEF ListSessions, Browse, FactoryList
<1>4. CASE ~\E l \in Listers : ListSessions(l) \/ Browse(l) \/ FactoryList(l)
  <2>1. \A c \in Persisted : FactoryOpen(c) => UNCHANGED <<listing, listed>>
    BY OpenMoves DEF FactoryOpen
  <2>2. \A k \in Closers : FactoryClose(k) => UNCHANGED <<listing, listed>>
    BY DEF FactoryClose, BeginTeardown, TeardownSteps, EndTeardown, CallClose, LockToClose,
       CloseBackend, browser
  <2>3. \A c \in Persisted :
          OpenThunk(c) \/ ResumeSession(c) \/ CloseSession(c) \/ CloseSessionSteps(c) =>
            UNCHANGED <<listing, listed>>
    BY DEF OpenThunk, ResumeSession, CloseSession, CloseSessionSteps, OpenWith, storeVars, calls,
       browser
  <2>4. \/ Launch \/ RuntimeReturns \/ Clear \/ Quit \/ Exited \/ UNCHANGED cliVars
        \/ \E l \in Listers : ListSessionsReturns(l) \/ Choose(l)
        => UNCHANGED <<listing, listed>>
    BY DEF Launch, RuntimeReturns, Clear, Quit, Exited, ListSessionsReturns, Choose, cliVars,
       allVars, storeVars, calls, browser
  <2> QED BY <1>1, <1>4, <2>1, <2>2, <2>3, <2>4 DEF CommandLineNext, Drive, Person
<1> QED BY <1>3, <1>4

(* A step that opens no session and starts no Open. *)
LEMMA OfferKept ==
  ASSUME OfferInv, \A s : Offered(s) => Offered(s)',
         UNCHANGED <<selector, session, catalog, opened>>,
         InFlight' \subseteq InFlight,
         next' = next \/ next' \notin SessionIds \/ (opened /\ Offered(next')),
         flags'.resume \in SessionIds \cup {None}
  PROVE  OfferInv'
<1>1. next' \in SessionIds => opened' /\ Offered(next)'
  <2>1. CASE next' = next
    BY <2>1 DEF OfferInv
  <2>2. CASE opened /\ Offered(next')
    BY <2>2 DEF Offered
  <2> QED BY <2>1, <2>2
<1>2. ReopenedOnlyIfOffered'
  BY DEF OfferInv, ReopenedOnlyIfOffered, Offered
<1>3. \A c \in InFlight' :
        \/ selector'[c] = None
        \/ \E l \in Listers : listing'[l] = "returned" /\ selector'[c] \in listed'[l]
        \/ \A d \in Persisted \ {c} : session'[d] = None
  BY DEF OfferInv, Offered
<1> QED BY <1>1, <1>2, <1>3 DEF OfferInv, Offered

LEMMA OpenWithKeeps ==
  ASSUME StoreFacts, OfferInv, \A s : Offered(s) => Offered(s)',
         NEW c \in Persisted, OpenThunk(c) \/ ResumeSession(c)
  PROVE  OfferInv'
<1> DEFINE r == selector'[c]
<1>1. /\ opening[c] = "idle" /\ InFlight = {}
      /\ opening' = [opening EXCEPT ![c] = "models"]
      /\ UNCHANGED <<session, catalog, flags, listing, listed>>
      /\ next' = "nothing" /\ opened'
  BY DEF OpenThunk, ResumeSession, OpenWith, OpenAt, OfferInv, browser
<1>2. /\ selector' = [selector EXCEPT ![c] = r]
      /\ r \in SessionIds \cup {None}
      /\ r = None \/ Offered(r) \/ \A d \in Persisted : session[d] = None
  <2>1. CASE OpenThunk(c)
    BY <2>1 DEF OpenThunk, OpenWith, OfferInv
  <2>2. CASE ResumeSession(c)
    BY <2>2 DEF ResumeSession, OpenWith, OfferInv
  <2> QED BY <2>1, <2>2
<1>3. InFlight' = {c}
  BY <1>1 DEF InFlight, StoreFacts, StoreInv, CallsTyped
<1>4. next' \notin SessionIds
  BY <1>1, CommandLineAssumption
<1>5. ReopenedOnlyIfOffered'
  BY <1>1 DEF OfferInv, ReopenedOnlyIfOffered
<1>6. \A d \in InFlight' :
        \/ selector'[d] = None
        \/ Offered(selector[d])'
        \/ \A e \in Persisted \ {d} : session'[e] = None
  BY <1>1, <1>2, <1>3 DEF Offered
<1> QED BY <1>1, <1>2, <1>3, <1>4, <1>5, <1>6 DEF OfferInv

(* The step of an Open that gets its session. *)
LEMMA SessionOpens ==
  ASSUME StoreFacts, OfferInv, \A s : Offered(s) => Offered(s)',
         NEW c \in Persisted, AssemblyStep(c), UNCHANGED program, UNCHANGED <<listing, listed>>,
         NEW s \in SessionIds,
         s \in IF selector[c] = None THEN SessionIds \ catalog ELSE {selector[c]} \cap catalog,
         session' = [session EXCEPT ![c] = s], catalog' = catalog \cup {s}
  PROVE  OfferInv'
<1>1. c \in InFlight /\ InFlight' = InFlight /\ UNCHANGED <<selector, next, opened, flags>>
  BY DEF AssemblyStep, InFlight, program
<1>2. session'[c] = s /\ \A d \in Persisted \ {c} : session'[d] = session[d]
  BY DEF StoreFacts, LiveInv
<1>3. \A d \in Persisted \ {c} : session[d] = s => Offered(s)
  <2>1. s # None
    BY StoreAssumption
  <2>2. CASE selector[c] = None
    BY <2>1, <2>2 DEF OfferInv
  <2>3. CASE selector[c] # None
    BY <1>1, <2>1, <2>3 DEF OfferInv
  <2> QED BY <2>2, <2>3
<1>4. ReopenedOnlyIfOffered'
  <2> SUFFICES ASSUME NEW d \in Persisted, NEW e \in Persisted, d # e,
                      session'[d] # None, session'[d] = session'[e]
               PROVE  Offered(session'[d])
    BY DEF ReopenedOnlyIfOffered, Offered
  <2>1. CASE d = c \/ e = c
    BY <1>2, <1>3, <2>1
  <2>2. CASE d # c /\ e # c
    BY <1>2, <2>2 DEF OfferInv, ReopenedOnlyIfOffered, Offered
  <2> QED BY <2>1, <2>2
<1>5. opened
  BY <1>1 DEF OfferInv
<1>6. \A d \in InFlight' :
        \/ selector'[d] = None
        \/ Offered(selector[d])'
        \/ \A e \in Persisted \ {d} : session'[e] = None
  <2>1. \A d \in InFlight : d = c
    BY <1>1 DEF OfferInv
  <2> QED BY <1>1, <1>2, <2>1 DEF OfferInv, Offered
<1>7. \A d \in Persisted : session'[d] # None => session'[d] \in catalog'
  BY <1>2 DEF OfferInv
<1> QED BY <1>1, <1>4, <1>5, <1>6, <1>7 DEF OfferInv, Offered

LEMMA OfferStep ==
  ASSUME StoreFacts, OfferInv, [CommandLineNext]_cliVars
  PROVE  OfferInv'
<1>0. \A s : Offered(s) => Offered(s)'
  BY OfferedStays
<1>1. CASE \E c \in Persisted : OpenThunk(c) \/ ResumeSession(c)
  BY <1>0, <1>1, OpenWithKeeps
<1>2. ASSUME NEW c \in Persisted, FactoryOpen(c)
      PROVE  OfferInv'
  <2>1. OpenSteps(c) /\ UNCHANGED program
    BY <1>2 DEF FactoryOpen
  <2>2. CASE AssemblyStep(c) /\ "session" \in held'[c] \ held[c]
    <3>1. PICK s \in IF selector[c] = None THEN SessionIds \ catalog
                     ELSE {selector[c]} \cap catalog :
            session' = [session EXCEPT ![c] = s] /\ catalog' = catalog \cup {s}
      BY <2>2 DEF AssemblyStep
    <3>2. s \in SessionIds
      BY <3>1 DEF StoreFacts, LiveInv
    <3>3. UNCHANGED <<listing, listed>>
      BY <2>1, OpenMoves
    <3> QED BY <1>0, <2>1, <2>2, <3>1, <3>2, <3>3, SessionOpens
  <2>3. CASE UNCHANGED <<session, catalog>>
    BY <1>0, <2>1, <2>3, OpenMoves, OfferKept DEF program, OfferInv
  <2>4. UNCHANGED <<session, catalog>> \/ (AssemblyStep(c) /\ "session" \in held'[c] \ held[c])
    BY <2>1 DEF OpenSteps, LoadModels, LockToOpen, EnsureToOpen, EnterAssembly, AssemblyStep,
       LeaveAssembly, UnlockOpened, SettleCurrent
  <2> QED BY <2>2, <2>3, <2>4
<1>3. ASSUME NEW l \in Listers, ListSessions(l) \/ Browse(l) \/ FactoryList(l)
      PROVE  OfferInv'
  <2>1. UNCHANGED program /\ (CallList(l) \/ ListSteps(l))
    BY <1>3 DEF ListSessions, Browse, FactoryList
  <2>2. UNCHANGED <<selector, session, catalog, opening>>
    BY <2>1, ListMoves
  <2> QED BY <1>0, <2>1, <2>2, OfferKept DEF program, InFlight, OfferInv
<1>4. ASSUME NEW k \in Closers, FactoryClose(k)
      PROVE  OfferInv'
  <2>1. UNCHANGED <<selector, session, catalog, opening, opened, next, flags>>
    BY <1>4 DEF FactoryClose, BeginTeardown, TeardownSteps, EndTeardown, CallClose, LockToClose,
       CloseBackend, program
  <2> QED BY <1>0, <2>1, OfferKept DEF InFlight, OfferInv
<1>5. ASSUME NEW c \in Persisted, CloseSession(c) \/ CloseSessionSteps(c)
      PROVE  OfferInv'
  <2>1. UNCHANGED <<selector, session, catalog, opening, opened, next, flags>>
    BY <1>5 DEF CloseSession, CloseSessionSteps, storeVars, calls, program
  <2> QED BY <1>0, <2>1, OfferKept DEF InFlight, OfferInv
<1>6. CASE Launch
  <2>1. UNCHANGED <<selector, session, catalog, opening, opened>>
    BY <1>6 DEF Launch, allVars, storeVars, calls
  <2>2. next' = next \/ next' \in {"nothing", "thunk"}
    BY <1>6 DEF Launch
  <2>3. flags'.resume \in SessionIds \cup {None}
    BY <1>6 DEF Launch, Parsed, Malformed, Invocations, OfferInv
  <2> QED BY <1>0, <2>1, <2>2, <2>3, OfferKept, CommandLineAssumption DEF InFlight
<1>7. CASE \/ Clear \/ Quit \/ RuntimeReturns \/ Exited \/ UNCHANGED cliVars
           \/ \E l \in Listers : ListSessionsReturns(l)
  <2>1. /\ UNCHANGED <<selector, session, catalog, opening, opened, flags>>
        /\ next' = next \/ next' \in {"nothing", "thunk"}
    BY <1>7 DEF Clear, Quit, RuntimeReturns, Exited, ListSessionsReturns, cliVars, program,
       allVars, storeVars, calls
  <2> QED BY <1>0, <2>1, OfferKept, CommandLineAssumption DEF InFlight, OfferInv
<1>8. ASSUME NEW l \in Listers, Choose(l)
      PROVE  OfferInv'
  <2>1. /\ UNCHANGED <<selector, session, catalog, opening, opened, flags>>
        /\ opened /\ Offered(next')
    BY <1>8 DEF Choose, Asked, allVars, storeVars, calls, Offered
  <2> QED BY <1>0, <2>1, OfferKept DEF InFlight, OfferInv
<1> QED
  BY <1>1, <1>2, <1>3, <1>4, <1>5, <1>6, <1>7, <1>8 DEF CommandLineNext, Drive, Person

-----------------------------------------------------------------------------
LEMMA CliStep == CliInv /\ [CommandLineNext]_cliVars => CliInv'
BY StoreFactsStep, RunStep, OfferStep DEF CliInv

LEMMA CliHolds == CommandLineSpec => []CliInv
<1> QED BY CliInitially, CliStep, PTL DEF CommandLineSpec

LEMMA LastOut == CliInv => StoreOutlivesSessions
<1> SUFFICES ASSUME CliInv, closed
             PROVE  /\ InFlight = {}
                    /\ \A c \in Persisted : Unclosed(c) = {}
                    /\ lease["disk"] # None => "session" \in faults[lease["disk"]]
  BY DEF StoreOutlivesSessions
<1>1. InFlight = {} /\ Agents = {}
  BY DEF CliInv, RunInv, Quiet
<1>2. ASSUME NEW c \in Persisted PROVE Unclosed(c) = {}
  <2>1. opening[c] \in {"idle", "refused"} \/ pc[c] = "closed"
    BY <1>1 DEF InFlight, Agents
  <2>2. pc[c] \in {"idle", "failed", "closed"}
    BY <2>1 DEF CliInv, StoreFacts, LiveInv, OpenInv
  <2> QED
    BY <2>2 DEF CliInv, StoreFacts, LiveInv, IInv, HeldInv, BuildsSets, GivesBack, Unclosed, Calls
<1>3. ASSUME lease["disk"] # None PROVE "session" \in faults[lease["disk"]]
  <2>1. lease["disk"] \in Persisted
    BY <1>3, StoreAssumption DEF CliInv, StoreFacts, LiveInv, IInv, TypeOK, Calls
  <2>2. PICK c \in Persisted : c = lease["disk"]
    BY <2>1
  <2>3. c \in Calls /\ Backend(c) = "disk"
    BY DEF Backend, Calls
  <2>4. "session" \in held[c]
    BY <2>2, <2>3 DEF CliInv, StoreFacts, LiveInv, IInv, LeaseInv
  <2> QED BY <1>2, <2>2, <2>4 DEF Unclosed
<1> QED BY <1>1, <1>2, <1>3

LEMMA Earned == CliInv => SuccessIsEarned
<1> SUFFICES ASSUME CliInv, stage = "exited", exit = exitOK
             PROVE  /\ ~sick /\ closed /\ handles = 0
                    /\ flags.list => \E l \in Listers : listing[l] = "filter"
  BY DEF SuccessIsEarned
<1>1. ~sick /\ closed /\ fs # "open"
      /\ (flags.list => \E l \in Listers : listing[l] = "filter")
  BY DEF CliInv, RunInv
<1>2. handles = 0
  BY <1>1 DEF CliInv, StoreFacts, StoreInv, BackendInv
<1> QED BY <1>1, <1>2

(* The rest of the types. *)
ProgramTyped ==
  /\ stage \in {"start", "list", "runtime", "teardown", "exited"}
  /\ flags \in [list : BOOLEAN, resume : SessionIds \cup {None}]
  /\ opened \in BOOLEAN
  /\ next \in {"nothing", "thunk"} \cup SessionIds
  /\ quit \in BOOLEAN
  /\ exit \in {exitOK, exitFailed, exitUsage}
  /\ sick \in BOOLEAN

LEMMA ProgramStep ==
  ASSUME CliInv, ProgramTyped, [CommandLineNext]_cliVars
  PROVE  ProgramTyped'
<1> USE DEF ProgramTyped
<1>1. CASE Launch
  <2>1. flags' \in [list : BOOLEAN, resume : SessionIds \cup {None}]
    BY <1>1 DEF Launch, Parsed, Malformed, Invocations
  <2> QED BY <1>1, <2>1 DEF Launch
<1>2. CASE \E l \in Listers : ListSessionsReturns(l) \/ Choose(l)
  BY <1>2 DEF ListSessionsReturns, Choose, CliInv, StoreFacts, BrowserTyped
<1>3. CASE RuntimeReturns \/ Clear \/ Quit \/ \E k \in Closers : EndTeardown(k)
  <2>1. ASSUME NEW k \in Closers, EndTeardown(k) PROVE sick' \in BOOLEAN
    BY <2>1 DEF EndTeardown
  <2> QED BY <1>3, <2>1 DEF RuntimeReturns, Clear, Quit, EndTeardown
<1>4. CASE \E c \in Persisted : OpenThunk(c) \/ ResumeSession(c)
  BY <1>4 DEF OpenThunk, ResumeSession, OpenWith
<1>5. CASE UNCHANGED program
  BY <1>5 DEF program
<1>6. CASE \/ Exited \/ UNCHANGED cliVars
           \/ \E l \in Listers : ListSessions(l) \/ Browse(l) \/ FactoryList(l)
           \/ \E c \in Persisted : CloseSession(c) \/ CloseSessionSteps(c) \/ FactoryOpen(c)
           \/ \E k \in Closers : BeginTeardown(k) \/ TeardownSteps(k)
  BY <1>5, <1>6 DEF Exited, cliVars, ListSessions, Browse, FactoryList, CloseSession,
     CloseSessionSteps, FactoryOpen, BeginTeardown, TeardownSteps
<1> QED
  BY <1>1, <1>2, <1>3, <1>4, <1>6 DEF CommandLineNext, Drive, Person, FactoryClose

(* What the process makes of its store the store specifies, whatever sessions
   earlier processes left: all that is proved of the store, and of the sessions
   it assembles, holds in the process. *)
THEOREM ProcessRunsStore == CommandLineSpec => StoreSpec
<1>1. CommandLineInit => StoreInit
  BY DEF CommandLineInit
<1> QED BY <1>1, CliHolds, CliRunsStore, PTL DEF CommandLineSpec, StoreSpec

(* The type invariant, and with it that of the store the process runs. *)
THEOREM CommandLineTyped == CommandLineSpec => []CommandLineTypeOK
<1>1. CommandLineInit => ProgramTyped
  <2> SUFFICES ASSUME CommandLineInit PROVE ProgramTyped
    OBVIOUS
  <2>1. flags \in [list : BOOLEAN, resume : SessionIds \cup {None}]
    <3>1. FALSE \in BOOLEAN /\ None \in SessionIds \cup {None}
      OBVIOUS
    <3> QED BY <3>1 DEF CommandLineInit
  <2>2. opened \in BOOLEAN /\ quit \in BOOLEAN /\ sick \in BOOLEAN
    BY DEF CommandLineInit
  <2> QED BY <2>1, <2>2 DEF CommandLineInit, ProgramTyped
<1>2. StoreTypeOK /\ ProgramTyped => CommandLineTypeOK
  BY DEF ProgramTyped, CommandLineTypeOK
<1> QED
  BY <1>1, <1>2, CliHolds, ProgramStep, ProcessRunsStore, StoreTyped, PTL DEF CommandLineSpec

(* However the process comes to leave, its store is closed when no Open runs and
   all of every session has been closed, or its Close was tried. *)
THEOREM StoreIsLast == CommandLineSpec => []StoreOutlivesSessions
<1> QED BY CliHolds, LastOut, PTL

(* Of the process's Opens two get the same session only if the picker offered
   it, in whatever order sessions are cleared, picked and refused. *)
THEOREM OnlyWhatWasOffered == CommandLineSpec => []ReopenedOnlyIfOffered
<1>1. CliInv => ReopenedOnlyIfOffered
  BY DEF CliInv, OfferInv
<1> QED BY <1>1, CliHolds, PTL

(* A process that exits with 0 did its work and closed its store. *)
THEOREM ExitZeroIsEarned == CommandLineSpec => []SuccessIsEarned
<1> QED BY CliHolds, Earned, PTL

=============================================================================

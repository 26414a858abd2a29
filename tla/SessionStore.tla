---------------------------- MODULE SessionStore ----------------------------
(***************************************************************************)
(* SessionStoreFactory and its session browser (internal/app/persistence.go *)
(* and session_browser.go): the process's one on-disk store, opened lazily  *)
(* under storeMu, every Open building its session through SessionAssembly   *)
(* while it holds storeMu, the listing that leaves out the current session, *)
(* and the factory's Close.  Opens, listings, agents' Closes and the        *)
(* factory's Close all run concurrently.                                    *)
(***************************************************************************)
EXTENDS SessionAssembly

CONSTANTS Listers,     \* calls of sessionBrowser.ListSessions
          Closers,     \* calls of SessionStoreFactory.Close
          SessionIds,  \* the ids of sessions
          Earlier      \* those of them that earlier processes left in the data directory

ASSUME StoreAssumption ==
  /\ Headless = {}
  /\ None \notin Listers \cup Closers \cup SessionIds
  /\ Earlier \subseteq SessionIds
  /\ Persisted \cap (Listers \cup Closers) = {} /\ Listers \cap Closers = {}

VARIABLES
  opening,   \* opening[c]: where call c of Open is outside openRuntimeAgent
  selector,  \* selector[c]: the session to resume, or None for a new one
  session,   \* session[c]: the id of the session call c opened
  storeMu,   \* who holds SessionStoreFactory.storeMu
  closed,    \* SessionStoreFactory.closed
  fs,        \* SessionStoreFactory.fs: "none", "open" or "shut"
  handles,   \* the fsstore handles open on the data directory
  catalog,   \* the sessions the store lists
  current,   \* SessionStoreFactory.currentSession
  listing,   \* listing[l]: where call l of ListSessions is
  listed,    \* listed[l]: the sessions call l read, then the ones it returned
  seen,      \* seen[l]: the current session call l read, to leave it out
  inUse,     \* inUse[l]: the agents in use when List returned to call l
  closing    \* closing[k]: where call k of SessionStoreFactory.Close is

factory == <<storeMu, closed, fs, handles, current>>
browser == <<listed, seen, inUse>>
calls == <<opening, selector, session, listing, browser, closing>>
storeVars == <<factory, calls, catalog>>
allVars == <<vars, storeVars>>

StoreTypeOK ==
  /\ TypeOK
  /\ opening \in [Persisted -> {"idle", "models", "lock", "ensure", "stores", "root",
                                "assembling", "refuse", "unlock", "settle",
                                "returned", "refused"}]
  /\ selector \in [Persisted -> SessionIds \cup {None}]
  /\ session \in [Persisted -> SessionIds \cup {None}]
  /\ storeMu \in Persisted \cup Listers \cup Closers \cup {None}
  /\ closed \in BOOLEAN
  /\ fs \in {"none", "open", "shut"}
  /\ handles \in 0..1
  /\ catalog \subseteq SessionIds
  /\ current \in SessionIds \cup {None}
  /\ listing \in [Listers -> {"idle", "lock", "ensure", "stores", "read", "unlock",
                              "refuse", "filter", "filtering", "returned", "refused"}]
  /\ listed \in [Listers -> SUBSET SessionIds]
  /\ seen \in [Listers -> SessionIds \cup {None}]
  /\ inUse \in [Listers -> SUBSET Persisted]
  /\ closing \in [Closers -> {"idle", "lock", "close", "returned"}]

StoreInit ==
  /\ AssemblyInit
  /\ opening = [c \in Persisted |-> "idle"]
  /\ selector = [c \in Persisted |-> None]
  /\ session = [c \in Persisted |-> None]
  /\ storeMu = None /\ closed = FALSE /\ fs = "none" /\ handles = 0
  /\ catalog = Earlier /\ current = None
  /\ listing = [l \in Listers |-> "idle"]
  /\ listed = [l \in Listers |-> {}]
  /\ seen = [l \in Listers |-> None]
  /\ inUse = [l \in Listers |-> {}]
  /\ closing = [k \in Closers |-> "idle"]

-----------------------------------------------------------------------------
(* ensureStoresLocked, run by an Open or a listing that holds storeMu. *)

(* Closed: StoreClosedError. *)
RefuseClosed == closed /\ UNCHANGED <<fs, handles>>

(* Already open: the same stores again. *)
Reuse == ~closed /\ fs = "open" /\ UNCHANGED <<fs, handles>>

(* fsstore.Open: an error leaves the factory able to try again. *)
OpenBackend == ~closed /\ fs = "none" /\ handles' = handles + 1 /\ UNCHANGED fs
BackendFails == ~closed /\ fs = "none" /\ UNCHANGED <<fs, handles>>

(* Seeded fault of DropStores: the backend stays open. *)
DropStoresKept == UNCHANGED <<fs, handles>>

(* openStores over the new backend: only success keeps the backend. *)
KeepStores == fs' = "open" /\ UNCHANGED handles
DropStores == handles' = handles - 1 /\ UNCHANGED fs

-----------------------------------------------------------------------------
OpenAt(c, from, to) == opening[c] = from /\ opening' = [opening EXCEPT ![c] = to]

(* Open, called for a new session or to resume one: of a listing, or any that
   --resume may name. *)
CallOpen(c) ==
  /\ OpenAt(c, "idle", "models")
  /\ \E s \in SessionIds \cup {None} : selector' = [selector EXCEPT ![c] = s]
  /\ UNCHANGED <<vars, factory, catalog, session, listing, browser, closing>>

(* Client, models.json and the ACP children come before the store lock. *)
LoadModels(c) ==
  /\ OpenAt(c, "models", "lock") \/ OpenAt(c, "models", "refused")
  /\ UNCHANGED <<vars, factory, catalog, selector, session, listing, browser, closing>>

LockToOpen(c) ==
  /\ storeMu = None
  /\ storeMu' = c
  /\ OpenAt(c, "lock", "ensure")
  /\ UNCHANGED <<vars, closed, fs, handles, current, catalog, selector, session,
                 listing, browser, closing>>

EnsureToOpen(c) ==
  /\ \/ RefuseClosed /\ OpenAt(c, "ensure", "refuse")
     \/ Reuse /\ OpenAt(c, "ensure", "root")
     \/ OpenBackend /\ OpenAt(c, "ensure", "stores")
     \/ BackendFails /\ OpenAt(c, "ensure", "refuse")
     \/ KeepStores /\ OpenAt(c, "stores", "root")
     \/ DropStores /\ OpenAt(c, "stores", "refuse")
  /\ UNCHANGED <<vars, storeMu, closed, current, catalog, selector, session,
                 listing, browser, closing>>

(* os.Getwd, then openRuntimeAgent. *)
EnterAssembly(c) ==
  /\ \/ OpenAt(c, "root", "refuse") /\ UNCHANGED vars
     \/ OpenAt(c, "root", "assembling") /\ Begin(c)
  /\ UNCHANGED <<factory, catalog, selector, session, listing, browser, closing>>

(* A step of openRuntimeAgent, its cleanup included.  The step that opens the
   session enters it in the catalog: under a fresh id, or the one to resume. *)
AssemblyStep(c) ==
  /\ opening[c] = "assembling"
  /\ Assemble(c) \/ (pc[c] = "failing" /\ TearDown(c))
  /\ IF "session" \in held'[c] \ held[c]
     THEN \E s \in IF selector[c] = None THEN SessionIds \ catalog ELSE {selector[c]} \cap catalog :
            session' = [session EXCEPT ![c] = s] /\ catalog' = catalog \cup {s}
     ELSE UNCHANGED <<session, catalog>>
  /\ UNCHANGED <<factory, opening, selector, listing, browser, closing>>

LeaveAssembly(c) ==
  /\ \/ pc[c] = "assembled" /\ OpenAt(c, "assembling", "unlock")
     \/ pc[c] = "failed" /\ OpenAt(c, "assembling", "refuse")
  /\ UNCHANGED <<vars, factory, catalog, selector, session, listing, browser, closing>>

(* Seeded fault of UnlockOpened: a refused Open keeps storeMu. *)
UnlockOpenedOnSuccess(c) ==
  /\ OpenAt(c, "unlock", "settle") \/ OpenAt(c, "refuse", "refused")
  /\ storeMu' = IF opening[c] = "unlock" THEN None ELSE storeMu
  /\ UNCHANGED <<vars, closed, fs, handles, current, catalog, selector, session,
                 listing, browser, closing>>

(* openWithClient's deferred unlock. *)
UnlockOpened(c) ==
  /\ OpenAt(c, "unlock", "settle") \/ OpenAt(c, "refuse", "refused")
  /\ storeMu' = None
  /\ UNCHANGED <<vars, closed, fs, handles, current, catalog, selector, session,
                 listing, browser, closing>>

(* Seeded fault of SettleCurrent: only a new session becomes the current one. *)
SettleCurrentOfNew(c) ==
  /\ OpenAt(c, "settle", "returned")
  /\ current' = IF selector[c] = None THEN session[c] ELSE current
  /\ Return(c)
  /\ UNCHANGED <<storeMu, closed, fs, handles, catalog, selector, session, listing,
                 browser, closing>>

(* The current session is recorded under the other mutex, then Open returns
   and the agent is the caller's. *)
SettleCurrent(c) ==
  /\ OpenAt(c, "settle", "returned")
  /\ current' = session[c]
  /\ Return(c)
  /\ UNCHANGED <<storeMu, closed, fs, handles, catalog, selector, session, listing,
                 browser, closing>>

(* RuntimeAgent.Close of the agent Open returned. *)
CloseAgent(c) ==
  /\ opening[c] = "returned"
  /\ BeginClose(c) \/ (pc[c] = "closing" /\ TearDown(c))
  /\ UNCHANGED storeVars

OpenSteps(c) ==
  \/ LoadModels(c)
  \/ LockToOpen(c)
  \/ EnsureToOpen(c)
  \/ EnterAssembly(c)
  \/ AssemblyStep(c)
  \/ LeaveAssembly(c)
  \/ UnlockOpened(c)
  \/ SettleCurrent(c)

-----------------------------------------------------------------------------
ListAt(l, from, to) == listing[l] = from /\ listing' = [listing EXCEPT ![l] = to]

CallList(l) ==
  /\ ListAt(l, "idle", "lock")
  /\ UNCHANGED <<vars, factory, catalog, opening, selector, session, browser, closing>>

LockToList(l) ==
  /\ storeMu = None
  /\ storeMu' = l
  /\ ListAt(l, "lock", "ensure")
  /\ UNCHANGED <<vars, closed, fs, handles, current, catalog, opening, selector,
                 session, browser, closing>>

EnsureToList(l) ==
  /\ \/ RefuseClosed /\ ListAt(l, "ensure", "refuse")
     \/ Reuse /\ ListAt(l, "ensure", "read")
     \/ OpenBackend /\ ListAt(l, "ensure", "stores")
     \/ BackendFails /\ ListAt(l, "ensure", "refuse")
     \/ KeepStores /\ ListAt(l, "stores", "read")
     \/ DropStores /\ ListAt(l, "stores", "refuse")
  /\ UNCHANGED <<vars, storeMu, closed, current, catalog, opening, selector, session,
                 browser, closing>>

(* Catalog.ListSessions; all sessions here are of the one workspace, and a
   set abstracts from the order sortSessionsByRecency gives them. *)
ReadCatalog(l) ==
  /\ \/ ListAt(l, "read", "unlock") /\ listed' = [listed EXCEPT ![l] = catalog]
     \/ ListAt(l, "read", "refuse") /\ UNCHANGED listed
  /\ UNCHANGED <<vars, factory, catalog, opening, selector, session, seen, inUse, closing>>

UnlockListed(l) ==
  /\ \/ /\ ListAt(l, "unlock", "filter")
        /\ inUse' = [inUse EXCEPT ![l] = {c \in Persisted : pc[c] = "live"}]
     \/ ListAt(l, "refuse", "refused") /\ UNCHANGED inUse
  /\ storeMu' = None
  /\ UNCHANGED <<vars, closed, fs, handles, current, catalog, opening, selector,
                 session, listed, seen, closing>>

(* ListSessions reads the current session, under mu, after List has unlocked ... *)
ReadCurrent(l) ==
  /\ ListAt(l, "filter", "filtering")
  /\ seen' = [seen EXCEPT ![l] = current]
  /\ UNCHANGED <<vars, factory, catalog, opening, selector, session, listed, inUse, closing>>

(* ... and returns the others: by then another session may be the current one.
   What the call had read is gone with it. *)
ReturnList(l) ==
  /\ ListAt(l, "filtering", "returned")
  /\ listed' = [listed EXCEPT ![l] = @ \ {seen[l]}]
  /\ seen' = [seen EXCEPT ![l] = None]
  /\ inUse' = [inUse EXCEPT ![l] = {}]
  /\ UNCHANGED <<vars, factory, catalog, opening, selector, session, closing>>

ListSteps(l) ==
  \/ LockToList(l)
  \/ EnsureToList(l)
  \/ ReadCatalog(l)
  \/ UnlockListed(l)
  \/ ReadCurrent(l)
  \/ ReturnList(l)

-----------------------------------------------------------------------------
CloseAt(k, from, to) == closing[k] = from /\ closing' = [closing EXCEPT ![k] = to]

CallClose(k) ==
  /\ CloseAt(k, "idle", "lock")
  /\ UNCHANGED <<vars, factory, catalog, opening, selector, session, listing, browser>>

LockToClose(k) ==
  /\ storeMu = None
  /\ storeMu' = k
  /\ CloseAt(k, "lock", "close")
  /\ UNCHANGED <<vars, closed, fs, handles, current, catalog, opening, selector,
                 session, listing, browser>>

(* The first Close closes the backend if there is one; whether that succeeds
   or not, the factory is closed and a later Close does nothing. *)
CloseBackend(k) ==
  /\ CloseAt(k, "close", "returned")
  /\ storeMu' = None
  /\ closed' = TRUE
  /\ IF ~closed /\ fs = "open"
     THEN fs' = "shut" /\ handles' = handles - 1
     ELSE UNCHANGED <<fs, handles>>
  /\ UNCHANGED <<vars, current, catalog, opening, selector, session, listing, browser>>

CloseSteps(k) == LockToClose(k) \/ CloseBackend(k)

-----------------------------------------------------------------------------
StoreDone ==
  /\ \A c \in Persisted : opening[c] = "refused" \/ pc[c] = "closed"
  /\ \A l \in Listers : listing[l] \in {"returned", "refused"}
  /\ \A k \in Closers : closing[k] = "returned"
  /\ UNCHANGED allVars

StoreNext ==
  \/ \E c \in Persisted : CallOpen(c) \/ OpenSteps(c) \/ CloseAgent(c)
  \/ \E l \in Listers : CallList(l) \/ ListSteps(l)
  \/ \E k \in Closers : CallClose(k) \/ CloseSteps(k)
  \/ StoreDone

StoreSpec == StoreInit /\ [][StoreNext]_allVars

-----------------------------------------------------------------------------
(* An Open that has released storeMu may be overtaken by another before it
   records its session under mu.  It still never happens that an agent is in
   use while another session counts as the current one: the root lease keeps
   the second Open from succeeding (persistence.go:626-632, 355). *)
LiveSessionIsCurrent ==
  \A c \in Persisted : pc[c] = "live" => current = session[c]

(* A session picker never offers the session of an agent that has been in use
   since List returned to it, although it reads the catalog before that and the
   current session, under another mutex, after.  It may offer one whose Open
   settled in between: that one's agent was not in use yet (session_browser.go:20). *)
ListingsHideTheLive ==
  [][\A l \in Listers : listing[l] = "filtering" /\ listing'[l] = "returned" =>
       \A c \in inUse[l] : pc[c] = "live" => session[c] \notin listed'[l]]_allVars

(* Between calls the factory has exactly the backend it remembers: none is
   left open by an Open or a listing that failed half way, and Close leaves
   none (ensureStoresLocked and Close, persistence.go:455-489). *)
OneBackend ==
  storeMu = None => handles = IF fs = "open" THEN 1 ELSE 0

=============================================================================

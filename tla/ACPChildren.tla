----------------------------- MODULE ACPChildren -----------------------------
(***************************************************************************)
(* The ACP children of a session (internal/app/acpchildren.go, acpgateway.go): *)
(* the builder pair resolves what a child was bound to, opens a loopback       *)
(* gateway of its own when it is gateway-backed, tells it the aliases to ask   *)
(* for, and hands gateway and backend to a watcher.  A child is built live    *)
(* from a choice of its parent, or again from its journal by a later process, *)
(* whose preflight may have come to another catalog.                           *)
(***************************************************************************)
EXTENDS ACPCatalog

CONSTANTS
  Children,
  Catalogs,        \* what a process may offer: [entries, rows], the rows unfiltered
  MaxRestarts      \* bound: processes that end under their children

VARIABLES
  catalog,         \* the catalog of this process
  restarts,        \* processes that have ended so far
  identity,        \* identity[c]: the runtime c is bound to
  recorded,        \* recorded[c]: that binding is in the session's journal
  stage,           \* stage[c]: where the builder or the watcher of c is
  resolved,        \* resolved[c]: what the catalog made of the binding
  server,          \* server[c]: c's ACPGateway, "none", "open" or "closed"
  routes,          \* routes[c]: the models and efforts that gateway serves
  told             \* told[c]: the main and small alias c asks for

vars == <<catalog, restarts, identity, recorded, stage, resolved, server, routes, told>>

Building == {"resolving", "opening", "naming", "building"}

\* The type invariant; a gateway has routes from the moment it is opened.
TypeOK ==
  /\ catalog \in Catalogs
  /\ restarts \in 0..MaxRestarts
  /\ recorded \in [Children -> BOOLEAN]
  /\ stage \in [Children -> Building \cup {"absent", "running", "ended", "released", "done",
                                           "failed", "lost"}]
  /\ server \in [Children -> {"none", "open", "closed"}]
  /\ \A c \in Children :
       /\ stage[c] = "absent" <=> identity[c] = None
       /\ server[c] = "open" => routes[c] # {}

NoAlias == [main |-> None, small |-> None]

Init ==
  /\ catalog \in Catalogs
  /\ restarts = 0
  /\ identity = [c \in Children |-> None]
  /\ recorded = [c \in Children |-> FALSE]
  /\ stage = [c \in Children |-> "absent"]
  /\ resolved = [c \in Children |-> None]
  /\ server = [c \in Children |-> "none"]
  /\ routes = [c \in Children |-> {}]
  /\ told = [c \in Children |-> NoAlias]

-----------------------------------------------------------------------------
(* What a parent may bind a child to: an ACP entry of the catalog, and of a
   model the concrete alias that stands for it and its effort. *)
Binding(e, target, effort) ==
  [role |-> e.role, harness |-> e.harness, kind |-> e.kind, target |-> target, effort |-> effort]

ACPEntries(entries) == {e \in entries : e.kind # "ordinary"}

Bindings(entries) ==
  {Binding(e, None, "none") : e \in {f \in ACPEntries(entries) : f.kind = "managed"}}
  \cup UNION {UNION {{Binding(e, Target(o, f), f) : f \in o.efforts} : o \in e.models} :
                e \in {f \in ACPEntries(entries) : f.kind # "managed"}}

(* None is neither an alias nor a runtime that a child can be bound to; and a
   catalog is what a preflight leaves (ACPPreflightProofs!ChildrenCanBeBuilt). *)
ASSUME ChildrenAssumption ==
  /\ MaxRestarts \in Nat
  /\ \A cat \in Catalogs :
       /\ WorkingCatalog(cat.entries)
       /\ None \notin Bindings(cat.entries)
       /\ \A e \in cat.entries : \A o \in e.models : None \notin Targets(o)

Source(kind) == IF kind = "gateway" THEN "gateway" ELSE "native"

Resolution(e, alias, target, effort) ==
  [kind |-> e.kind, small |-> e.small, alias |-> alias, target |-> target, effort |-> effort]

Default(e) == CHOOSE o \in e.models : o.alias = e.model

(* RuntimeCatalog.ResolveTargetAliasWithSource: the model that has the given
   concrete alias and effort, or, asked for no alias, what the entry defaults to. *)
ResolveTarget(e, b) ==
  IF b.target # None
  THEN {Resolution(e, o.alias, b.target, b.effort) :
          o \in {p \in e.models : b.effort \in p.efforts /\ Target(p, b.effort) = b.target}}
  ELSE IF e.kind = "managed" THEN {Resolution(e, None, None, "none")}
  ELSE {Resolution(e, e.model, Target(Default(e), Default(e).effort), Default(e).effort)}

EntriesFor(entries, b) ==
  {e \in ACPEntries(entries) :
     e.role = b.role /\ e.harness = b.harness /\ Source(e.kind) = Source(b.kind)}

(* Seeded fault of Resolve: the selection kind is not compared. *)
ResolveAnyKind(entries, b) == UNION {ResolveTarget(e, b) : e \in EntriesFor(entries, b)}

(* resolveACPBoundRuntime: the source and the selection kind of what is found
   must be those of the binding. *)
Resolve(entries, b) ==
  {r \in UNION {ResolveTarget(e, b) : e \in EntriesFor(entries, b)} : r.kind = b.kind}

-----------------------------------------------------------------------------
(* RuntimeCatalog.ResolveWithExplicitEffort of Claude's small model, no effort
   given: the option of the role's entry, at its default effort. *)
SmallOptions(b, r) ==
  IF b.harness # "claude-code" \/ r.small = None THEN {}
  ELSE {o \in UNION {e.models : e \in {f \in ACPEntries(catalog.entries) :
          f.role = b.role /\ f.harness = b.harness}} : o.alias = r.small}

\* GatewayTarget: the configured row serves the model at just this effort.
Serves(alias, effort) == alias \in DOMAIN catalog.rows /\ effort \in catalog.rows[alias].efforts

Route(target, alias, effort) == [target |-> target, alias |-> alias, effort |-> effort]

SmallRoutes(b, r) ==
  {Route(Target(o, o.effort), o.alias, o.effort) : o \in SmallOptions(b, r)}

(* Seeded fault of Plan: the main route is named for the model alone. *)
PlanBareAlias(b, r) ==
  LET main == Route(<<r.alias, "">>, r.alias, r.effort)
  IN {main} \cup {t \in SmallRoutes(b, r) : t.target # main.target}

(* buildACPGatewayPlan: the chosen model at its effort and, for Claude, the
   small model, unless the same alias stands for both. *)
Plan(b, r) ==
  LET main == Route(r.target, r.alias, r.effort)
  IN {main} \cup {t \in SmallRoutes(b, r) : t.target # main.target}

Plannable(b, r) ==
  /\ Serves(r.alias, r.effort)
  /\ r.small # None => \E o \in SmallOptions(b, r) : Serves(o.alias, o.effort)

(* acpChildModelAliases: nothing for a harness that manages its models; an
   explicit native model, which is Claude's small one too; the gateway's
   concrete aliases. *)
ChildAliases(b, r) ==
  IF r.kind = "managed" THEN NoAlias
  ELSE IF r.kind = "explicit"
  THEN [main |-> r.target, small |-> IF b.harness = "claude-code" THEN r.target ELSE None]
  ELSE [main |-> r.target,
        small |-> IF SmallRoutes(b, r) = {} THEN None
                  ELSE (CHOOSE t \in SmallRoutes(b, r) : TRUE).target]

-----------------------------------------------------------------------------
(* The session binds a new child, or restores one that its journal names. *)
Delegate(c) ==
  /\ stage[c] = "absent"
  /\ \E b \in Bindings(catalog.entries) : identity' = [identity EXCEPT ![c] = b]
  /\ stage' = [stage EXCEPT ![c] = "resolving"]
  /\ UNCHANGED <<catalog, restarts, recorded, resolved, server, routes, told>>

Restore(c) ==
  /\ stage[c] = "lost"
  /\ stage' = [stage EXCEPT ![c] = "resolving"]
  /\ UNCHANGED <<catalog, restarts, identity, recorded, resolved, server, routes, told>>

(* The registry has a builder for the profile, and the catalog the runtime. *)
ResolveBinding(c) ==
  /\ stage[c] = "resolving"
  /\ IF HasProfile(catalog.entries, identity[c].harness)
        /\ Resolve(catalog.entries, identity[c]) # {}
     THEN /\ \E r \in Resolve(catalog.entries, identity[c]) : resolved' = [resolved EXCEPT ![c] = r]
          /\ stage' = [stage EXCEPT ![c] = "opening"]
     ELSE stage' = [stage EXCEPT ![c] = "failed"] /\ UNCHANGED resolved
  /\ UNCHANGED <<catalog, restarts, identity, recorded, server, routes, told>>

(* NewACPGateway: no gateway for a native child; a server that does not start,
   or is not ready, is closed before the builder fails. *)
SkipGateway(c) ==
  /\ stage[c] = "opening" /\ resolved[c].kind # "gateway"
  /\ stage' = [stage EXCEPT ![c] = "naming"]
  /\ UNCHANGED <<catalog, restarts, identity, recorded, resolved, server, routes, told>>

OpenGateway(c) ==
  /\ stage[c] = "opening" /\ resolved[c].kind = "gateway"
  /\ Plannable(identity[c], resolved[c])
  /\ server' = [server EXCEPT ![c] = "open"]
  /\ routes' = [routes EXCEPT ![c] = Plan(identity[c], resolved[c])]
  /\ stage' = [stage EXCEPT ![c] = "naming"]
  /\ UNCHANGED <<catalog, restarts, identity, recorded, resolved, told>>

GatewayFails(c) ==
  /\ stage[c] = "opening" /\ resolved[c].kind = "gateway"
  /\ stage' = [stage EXCEPT ![c] = "failed"]
  /\ \/ ~Plannable(identity[c], resolved[c]) /\ UNCHANGED server
     \/ server' = [server EXCEPT ![c] = "closed"]
  /\ UNCHANGED <<catalog, restarts, identity, recorded, resolved, routes, told>>

NameModels(c) ==
  /\ stage[c] = "naming"
  /\ told' = [told EXCEPT ![c] = ChildAliases(identity[c], resolved[c])]
  /\ stage' = [stage EXCEPT ![c] = "building"]
  /\ UNCHANGED <<catalog, restarts, identity, recorded, resolved, server, routes>>

(* ACPGateway.Close, which a child without a gateway may also be given. *)
Closed(c) == [server EXCEPT ![c] = IF @ = "open" THEN "closed" ELSE @]

(* The driver built the backend: it is journalled, and watched from now on. *)
Build(c) ==
  /\ stage[c] = "building"
  /\ stage' = [stage EXCEPT ![c] = "running"]
  /\ recorded' = [recorded EXCEPT ![c] = TRUE]
  /\ UNCHANGED <<catalog, restarts, identity, resolved, server, routes, told>>

(* Seeded fault of BuildFails: the gateway is left to nobody. *)
BuildFailsUnclosed(c) ==
  /\ stage[c] = "building"
  /\ stage' = [stage EXCEPT ![c] = "failed"]
  /\ UNCHANGED <<catalog, restarts, identity, recorded, resolved, server, routes, told>>

(* The driver returned an error, or no backend and no error. *)
BuildFails(c) ==
  /\ stage[c] = "building"
  /\ stage' = [stage EXCEPT ![c] = "failed"]
  /\ server' = Closed(c)
  /\ UNCHANGED <<catalog, restarts, identity, recorded, resolved, routes, told>>

-----------------------------------------------------------------------------
(* The child's process is over.  Without a gateway the session sees it at once;
   with one the watcher of wrapACPGatewayBackend comes first. *)
BackendEnds(c) ==
  /\ stage[c] = "running"
  /\ stage' = [stage EXCEPT ![c] = IF server[c] = "open" THEN "ended" ELSE "done"]
  /\ UNCHANGED <<catalog, restarts, identity, recorded, resolved, server, routes, told>>

(* Seeded fault of CloseGateway: a Close that fails ends the watcher. *)
CloseGatewayOrGiveUp(c) ==
  /\ stage[c] = "ended"
  /\ server' = Closed(c)
  /\ \E ok \in BOOLEAN :
       stage' = [stage EXCEPT ![c] = IF ok THEN "released" ELSE "failed"]
  /\ UNCHANGED <<catalog, restarts, identity, recorded, resolved, routes, told>>

\* Whatever Close says is ignored.
CloseGateway(c) ==
  /\ stage[c] = "ended"
  /\ server' = Closed(c)
  /\ stage' = [stage EXCEPT ![c] = "released"]
  /\ UNCHANGED <<catalog, restarts, identity, recorded, resolved, routes, told>>

Announce(c) ==
  /\ stage[c] = "released"
  /\ stage' = [stage EXCEPT ![c] = "done"]
  /\ UNCHANGED <<catalog, restarts, identity, recorded, resolved, server, routes, told>>

(* The process ends, wherever its children are, and another one restores the
   session; its gateways are gone and its catalog may be another one. *)
Restart ==
  /\ restarts < MaxRestarts
  /\ restarts' = restarts + 1
  /\ catalog' \in Catalogs
  /\ stage' = [c \in Children |-> IF stage[c] = "failed" THEN "failed"
                                  ELSE IF recorded[c] THEN "lost" ELSE "absent"]
  /\ identity' = [c \in Children |-> IF stage'[c] = "absent" THEN None ELSE identity[c]]
  /\ resolved' = [c \in Children |-> None]
  /\ server' = [c \in Children |-> "none"]
  /\ routes' = [c \in Children |-> {}]
  /\ told' = [c \in Children |-> NoAlias]
  /\ UNCHANGED recorded

Builder(c) ==
  \/ ResolveBinding(c)
  \/ SkipGateway(c) \/ OpenGateway(c) \/ GatewayFails(c)
  \/ NameModels(c)
  \/ Build(c) \/ BuildFails(c)

Watcher(c) == CloseGateway(c) \/ Announce(c)

Next ==
  \/ \E c \in Children :
       Delegate(c) \/ Restore(c) \/ Builder(c) \/ BackendEnds(c) \/ Watcher(c)
  \/ Restart

Spec == Init /\ [][Next]_vars

(* The builders and the watchers run on.  Nothing makes a child end, a parent
   delegate, or the process stop. *)
Fairness == \A c \in Children : WF_vars(Builder(c)) /\ WF_vars(Watcher(c))

FairSpec == Spec /\ Fairness

-----------------------------------------------------------------------------
(* A gateway is owned by a builder at work or by the watcher of a backend: none
   outlives a failed construction, and nobody is told that a child has ended
   before its gateway has (acpchildren.go:865-869, 1077-1085). *)
NoStrayGateway ==
  \A c \in Children : server[c] = "open" => stage[c] \in {"naming", "building", "running", "ended"}

(* The builder computes what the child asks for and what its gateway serves
   apart from each other; they agree, for the main model at the effort that was
   chosen and for Claude's small one (acpchildren.go:937, acpgateway.go:82). *)
RoutedAsChosen ==
  \A c \in Children : stage[c] = "running" =>
    LET b == identity[c] IN
    IF b.kind = "gateway"
    THEN /\ server[c] = "open"
         /\ \A t, u \in routes[c] : t.target = u.target => t = u
         /\ Route(told[c].main, resolved[c].alias, b.effort) \in routes[c]
         /\ (b.harness = "claude-code") <=> (told[c].small # None)
         /\ told[c].small # None =>
              \E t \in routes[c] : t.target = told[c].small /\ t.alias = resolved[c].small
    ELSE server[c] = "none" /\ told[c].main = b.target

(* "Never silently falls back" (docs/plans/2026-08-01-acp-agent-catalogue-
   design.md:310-312): in whatever process it runs, a child has the source, the
   selection kind, the model and the effort it was first bound to. *)
RunsAsBound ==
  \A c \in Children : stage[c] \in {"naming", "building", "running", "ended", "done"} =>
    /\ resolved[c].kind = identity[c].kind
    /\ resolved[c].target = identity[c].target
    /\ resolved[c].effort = identity[c].effort
    /\ identity[c] \in Bindings(catalog.entries)

(* When a child has ended its session is told, unless the process stops: the
   watcher does not keep a child's end to itself (acpchildren.go:1082-1085). *)
EndsAreSeen ==
  \A c \in Children : stage[c] = "ended" ~> (stage[c] = "done" \/ stage[c] = "lost")

=============================================================================

-------------------------- MODULE ACPChildrenProofs --------------------------
(***************************************************************************)
(* ACPChildren for any children, any catalogs and any number of restarts:   *)
(* its type invariant, that no gateway is left without an owner, and that a *)
(* child runs what it was first bound to, whichever process runs it.        *)
(***************************************************************************)
EXTENDS ACPChildren, TLAPS

Stages == Building \cup {"absent", "running", "ended", "released", "done", "failed", "lost"}

Shape ==
  /\ catalog \in Catalogs
  /\ restarts \in 0..MaxRestarts
  /\ recorded \in [Children -> BOOLEAN]
  /\ stage \in [Children -> Stages]
  /\ server \in [Children -> {"none", "open", "closed"}]
  /\ DOMAIN identity = Children /\ identity = [c \in Children |-> identity[c]]
  /\ resolved = [c \in Children |-> resolved[c]]
  /\ routes = [c \in Children |-> routes[c]]
  /\ told = [c \in Children |-> told[c]]

\* Who owns a gateway, and that one that is open serves something.
Owned(c) ==
  server[c] = "open" => /\ stage[c] \in {"naming", "building", "running", "ended"}
                        /\ routes[c] # {}

\* A runtime that some process could bind a child to.
Bound(b) == \E cat \in Catalogs : b \in Bindings(cat.entries)

Settled == {"opening", "naming", "building", "running", "ended", "released", "done"}

\* A child past its resolution runs what this process's catalog makes of its binding.
Faithful(c) ==
  /\ stage[c] = "absent" <=> identity[c] = None
  /\ stage[c] # "absent" => Bound(identity[c])
  /\ recorded[c] => stage[c] # "absent"
  /\ stage[c] \in Settled => resolved[c] \in Resolve(catalog.entries, identity[c])

(* What the builder has done for a child by the time it names the models: a
   gateway of its own serves the plan, or there is none. *)
Served(c) ==
  LET b == identity[c]
      r == resolved[c] IN
  /\ stage[c] \in {"absent", "lost", "resolving", "opening"} => server[c] = "none"
  /\ stage[c] \in {"naming", "building", "running"} =>
       IF r.kind = "gateway" THEN server[c] = "open" /\ routes[c] = Plan(b, r)
                             ELSE server[c] = "none"
  /\ stage[c] \in {"building", "running"} => told[c] = ChildAliases(b, r)

IInv == Shape /\ \A c \in Children : Owned(c) /\ Faithful(c) /\ Served(c)

-----------------------------------------------------------------------------
(* Whatever parent binds a child, it binds it to something, and only a harness
   that manages its models is bound without an alias. *)
LEMMA BindingShape ==
  ASSUME NEW cat \in Catalogs, NEW b \in Bindings(cat.entries)
  PROVE  /\ b = [role |-> b.role, harness |-> b.harness, kind |-> b.kind,
                 target |-> b.target, effort |-> b.effort]
         /\ b.target = None => b.kind = "managed" /\ b.effort = "none"
         /\ b.target # None => b.kind # "managed"
         /\ b # None
<1>. b # None
  BY ChildrenAssumption
<1>1. CASE \E e \in cat.entries : e.kind = "managed" /\ b = Binding(e, None, "none")
  BY <1>1 DEF Binding
<1>2. CASE \E e \in cat.entries : /\ e.kind # "managed"
                                  /\ \E o \in e.models : \E f \in o.efforts :
                                       b = Binding(e, Target(o, f), f)
  <2>1. PICK e \in cat.entries : e.kind # "managed" /\ \E o \in e.models :
                 \E f \in o.efforts : b = Binding(e, Target(o, f), f)
    BY <1>2
  <2>4. PICK o \in e.models : \E f \in o.efforts : b = Binding(e, Target(o, f), f)
    BY <2>1
  <2>5. PICK f \in o.efforts : b = Binding(e, Target(o, f), f)
    BY <2>4
  <2>2. Target(o, f) \in Targets(o)
    BY DEF Targets
  <2>3. Target(o, f) # None
    BY <2>2, ChildrenAssumption
  <2>. QED BY <2>1, <2>5, <2>3 DEF Binding
<1>. QED BY <1>1, <1>2 DEF Bindings, ACPEntries

(* What the catalog makes of a binding is what was bound, and is offered now. *)
LEMMA ResolutionFaithful ==
  ASSUME NEW cat \in Catalogs, NEW b, Bound(b), NEW r \in Resolve(cat.entries, b)
  PROVE  /\ r.kind = b.kind /\ r.target = b.target /\ r.effort = b.effort
         /\ b \in Bindings(cat.entries)
<1>1. PICK e \in EntriesFor(cat.entries, b) : r \in ResolveTarget(e, b) /\ r.kind = b.kind
  BY DEF Resolve
<1>2. e \in ACPEntries(cat.entries) /\ e.role = b.role /\ e.harness = b.harness
  BY <1>1 DEF EntriesFor
<1>3. /\ b = [role |-> b.role, harness |-> b.harness, kind |-> b.kind,
              target |-> b.target, effort |-> b.effort]
      /\ b.target = None => b.kind = "managed" /\ b.effort = "none"
      /\ b.target # None => b.kind # "managed"
  BY BindingShape DEF Bound
<1>4. e.kind = b.kind
  BY <1>1 DEF ResolveTarget, Resolution
<1>5. CASE b.target = None
  <2>1. e.kind = "managed" /\ r = Resolution(e, None, None, "none")
    BY <1>1, <1>3, <1>4, <1>5 DEF ResolveTarget
  <2>2. b = Binding(e, None, "none")
    BY <1>2, <1>3, <1>4, <1>5 DEF Binding
  <2>. QED BY <1>1, <1>2, <1>3, <1>5, <2>1, <2>2 DEF Resolution, Bindings
<1>6. CASE b.target # None
  <2>1. PICK o \in e.models : /\ b.effort \in o.efforts /\ Target(o, b.effort) = b.target
                              /\ r = Resolution(e, o.alias, b.target, b.effort)
    BY <1>1, <1>6 DEF ResolveTarget
  <2>2. b = Binding(e, Target(o, b.effort), b.effort)
    BY <1>2, <1>3, <1>4, <2>1 DEF Binding
  <2>3. b \in {Binding(e, Target(o, f), f) : f \in o.efforts}
    BY <2>1, <2>2
  <2>4. b \in UNION {{Binding(e, Target(p, f), f) : f \in p.efforts} : p \in e.models}
    BY <2>3
  <2>5. e.kind # "managed"
    BY <1>3, <1>4, <1>6
  <2>6. b \in Bindings(cat.entries)
    BY <1>2, <2>4, <2>5 DEF Bindings
  <2>. QED BY <1>1, <2>1, <2>6 DEF Resolution
<1>. QED BY <1>5, <1>6

-----------------------------------------------------------------------------
LEMMA InitIInv == Init => IInv
<1>. SUFFICES ASSUME Init PROVE IInv
  OBVIOUS
<1>1. Shape
  BY ChildrenAssumption DEF Init, Shape, Stages, Building
<1>2. \A c \in Children : Owned(c) /\ Faithful(c) /\ Served(c)
  BY DEF Init, Owned, Faithful, Served, Settled
<1>. QED BY <1>1, <1>2 DEF IInv

(* What a step about child d leaves alone: the other children, and the catalog. *)
Kept(d) ==
  /\ catalog' = catalog
  /\ \A c \in Children \ {d} :
       /\ identity'[c] = identity[c] /\ recorded'[c] = recorded[c] /\ stage'[c] = stage[c]
       /\ resolved'[c] = resolved[c] /\ server'[c] = server[c] /\ routes'[c] = routes[c]
       /\ told'[c] = told[c]

Bound0 == UNCHANGED <<catalog, identity, recorded, resolved>>

(* A plan is made from the catalog of the process, the binding and what it
   resolved to, and from nothing else. *)
LEMMA SamePlan ==
  ASSUME NEW c \in Children, catalog' = catalog,
         identity'[c] = identity[c], resolved'[c] = resolved[c]
  PROVE  /\ Plan(identity[c], resolved[c])' = Plan(identity[c], resolved[c])
         /\ ChildAliases(identity[c], resolved[c])' = ChildAliases(identity[c], resolved[c])
<1>1. SmallRoutes(identity[c], resolved[c])' = SmallRoutes(identity[c], resolved[c])
  BY DEF SmallRoutes, SmallOptions
<1>2. Plan(identity[c], resolved[c])' = Plan(identity[c], resolved[c])
  BY <1>1 DEF Plan
<1>3. ChildAliases(identity[c], resolved[c])' = ChildAliases(identity[c], resolved[c])
  BY <1>1 DEF ChildAliases
<1>. QED BY <1>2, <1>3

LEMMA OthersKept ==
  ASSUME IInv, NEW d \in Children, Shape', Kept(d), Owned(d)', Faithful(d)', Served(d)'
  PROVE  IInv'
<1>1. ASSUME NEW c \in Children \ {d} PROVE Owned(c)' /\ Faithful(c)' /\ Served(c)'
  BY SamePlan DEF IInv, Kept, Owned, Faithful, Served
<1>. QED BY <1>1 DEF IInv

(* The steps of the builder and the watcher of one child. *)
LEMMA ChildStep ==
  ASSUME IInv, NEW d \in Children,
         Delegate(d) \/ Restore(d) \/ Builder(d) \/ BackendEnds(d) \/ Watcher(d)
  PROVE  IInv'
<1>1. CASE Delegate(d)
  <2>1. PICK b \in Bindings(catalog.entries) : identity' = [identity EXCEPT ![d] = b]
    BY <1>1 DEF Delegate
  <2>2. b # None /\ Bound(b)
    BY ChildrenAssumption DEF Bound, IInv, Shape
  <2>3. /\ Shape' /\ Kept(d)
        /\ stage'[d] = "resolving" /\ server'[d] = server[d] /\ identity'[d] = b
        /\ stage[d] = "absent" /\ recorded' = recorded
    <3>1. /\ UNCHANGED <<catalog, restarts, recorded, resolved, server, routes, told>>
          /\ stage[d] = "absent" /\ stage' = [stage EXCEPT ![d] = "resolving"]
      BY <1>1 DEF Delegate
    <3>2. stage' \in [Children -> Stages]
      BY <3>1 DEF IInv, Shape, Stages, Building
    <3>3. DOMAIN identity' = Children /\ identity' = [c \in Children |-> identity'[c]]
      BY <2>1 DEF IInv, Shape
    <3>4. Shape'
      BY <3>1, <3>2, <3>3 DEF IInv, Shape
    <3>5. Kept(d) /\ stage'[d] = "resolving" /\ identity'[d] = b
      BY <2>1, <3>1 DEF IInv, Shape, Kept
    <3>. QED BY <3>1, <3>4, <3>5
  <2>4. Owned(d)' /\ Faithful(d)' /\ Served(d)'
    BY <2>2, <2>3 DEF IInv, Owned, Faithful, Served, Settled
  <2>. QED BY <2>3, <2>4, OthersKept
<1>2. CASE Restore(d)
  <2>1. /\ Shape' /\ Kept(d)
        /\ stage'[d] = "resolving" /\ server'[d] = server[d] /\ identity'[d] = identity[d]
        /\ stage[d] = "lost" /\ recorded' = recorded
    BY <1>2 DEF Restore, IInv, Shape, Stages, Building, Kept
  <2>2. Owned(d)' /\ Faithful(d)' /\ Served(d)'
    BY <2>1 DEF IInv, Owned, Faithful, Served, Settled
  <2>. QED BY <2>1, <2>2, OthersKept
<1>3. CASE ResolveBinding(d)
  <2>1. /\ Shape' /\ Kept(d)
        /\ server'[d] = server[d] /\ identity'[d] = identity[d] /\ recorded' = recorded
        /\ stage[d] = "resolving"
        /\ \/ stage'[d] = "opening" /\ resolved'[d] \in Resolve(catalog.entries, identity[d])
           \/ stage'[d] = "failed"
        /\ catalog' = catalog
    BY <1>3 DEF ResolveBinding, IInv, Shape, Stages, Building, Kept
  <2>2. Owned(d)' /\ Faithful(d)' /\ Served(d)'
    BY <2>1 DEF IInv, Owned, Faithful, Served, Settled
  <2>. QED BY <2>1, <2>2, OthersKept
<1>4. CASE SkipGateway(d)
  <2>1. /\ Shape' /\ Kept(d) /\ Bound0 /\ UNCHANGED <<server, told, routes>>
        /\ stage[d] = "opening" /\ stage'[d] = "naming" /\ resolved[d].kind # "gateway"
    BY <1>4 DEF SkipGateway, IInv, Shape, Stages, Building, Kept, Bound0
  <2>2. Owned(d)' /\ Faithful(d)' /\ Served(d)'
    BY <2>1 DEF IInv, Owned, Faithful, Served, Settled, Bound0
  <2>. QED BY <2>1, <2>2, OthersKept
<1>5. CASE OpenGateway(d)
  <2>1. Plan(identity[d], resolved[d]) # {}
    BY DEF Plan
  <2>2. /\ Shape' /\ Kept(d) /\ Bound0
        /\ server'[d] = "open" /\ routes'[d] = Plan(identity[d], resolved[d])
        /\ stage[d] = "opening" /\ stage'[d] = "naming" /\ resolved[d].kind = "gateway"
    BY <1>5 DEF OpenGateway, IInv, Shape, Stages, Building, Kept, Bound0
  <2>3. Owned(d)' /\ Faithful(d)' /\ Served(d)'
    BY <2>1, <2>2, SamePlan DEF IInv, Owned, Faithful, Served, Settled, Bound0
  <2>. QED BY <2>2, <2>3, OthersKept
<1>6. CASE GatewayFails(d)
  <2>1. /\ Shape' /\ Kept(d) /\ Bound0
        /\ stage[d] = "opening" /\ stage'[d] = "failed" /\ server'[d] \in {server[d], "closed"}
    BY <1>6 DEF GatewayFails, IInv, Shape, Stages, Building, Kept, Bound0
  <2>2. Owned(d)' /\ Faithful(d)' /\ Served(d)'
    BY <2>1 DEF IInv, Owned, Faithful, Served, Settled, Bound0
  <2>. QED BY <2>1, <2>2, OthersKept
<1>7. CASE NameModels(d)
  <2>1. /\ Shape' /\ Kept(d) /\ Bound0 /\ UNCHANGED <<server, routes>>
        /\ stage[d] = "naming" /\ stage'[d] = "building"
        /\ told'[d] = ChildAliases(identity[d], resolved[d])
    BY <1>7 DEF NameModels, IInv, Shape, Stages, Building, Kept, Bound0
  <2>2. Owned(d)' /\ Faithful(d)' /\ Served(d)'
    BY <2>1, SamePlan DEF IInv, Owned, Faithful, Served, Settled, Bound0
  <2>. QED BY <2>1, <2>2, OthersKept
<1>8. CASE Build(d)
  <2>1. /\ Shape' /\ Kept(d) /\ UNCHANGED <<catalog, identity, resolved, server, routes, told>>
        /\ stage[d] = "building" /\ stage'[d] = "running" /\ recorded'[d] = TRUE
    BY <1>8 DEF Build, IInv, Shape, Stages, Building, Kept
  <2>2. Owned(d)' /\ Faithful(d)' /\ Served(d)'
    BY <2>1, SamePlan DEF IInv, Owned, Faithful, Served, Settled
  <2>. QED BY <2>1, <2>2, OthersKept
<1>9. CASE BuildFails(d) \/ BackendEnds(d) \/ CloseGateway(d) \/ Announce(d)
  <2>1. /\ Shape' /\ Kept(d) /\ Bound0 /\ routes' = routes
        /\ \/ /\ stage[d] \in {"building", "ended"} /\ stage'[d] \in {"failed", "released"}
              /\ server'[d] # "open"
           \/ /\ stage[d] = "running" /\ stage'[d] = IF server[d] = "open" THEN "ended" ELSE "done"
              /\ server' = server
           \/ stage[d] = "released" /\ stage'[d] = "done" /\ server' = server
    BY <1>9 DEF BuildFails, BackendEnds, CloseGateway, Announce, Closed, IInv, Shape, Stages,
          Building, Kept, Bound0
  <2>2. Owned(d)' /\ Faithful(d)' /\ Served(d)'
    BY <2>1 DEF IInv, Owned, Faithful, Served, Settled, Bound0
  <2>. QED BY <2>1, <2>2, OthersKept
<1>. QED
  BY <1>1, <1>2, <1>3, <1>4, <1>5, <1>6, <1>7, <1>8, <1>9
     DEF Builder, Watcher

(* A new process has no gateway, and knows of a child what the journal says. *)
LEMMA RestartStep == IInv /\ Restart => IInv'
<1>. SUFFICES ASSUME IInv, Restart PROVE IInv'
  OBVIOUS
<1>1. Shape'
  BY ChildrenAssumption DEF IInv, Shape, Stages, Building, Restart
<1>2. ASSUME NEW c \in Children PROVE Owned(c)' /\ Faithful(c)' /\ Served(c)'
  BY <1>2 DEF IInv, Shape, Stages, Building, Restart, Owned, Faithful, Served, Settled
<1>. QED BY <1>1, <1>2 DEF IInv

LEMMA Inductive == Spec => []IInv
<1>1. IInv /\ UNCHANGED vars => IInv'
  <2>. SUFFICES ASSUME IInv, UNCHANGED vars PROVE IInv'
    OBVIOUS
  <2>1. Shape'
    BY DEF IInv, Shape, vars
  <2>2. \A c \in Children : Owned(c)' /\ Faithful(c)' /\ Served(c)'
    BY SamePlan DEF IInv, vars, Owned, Faithful, Served
  <2>. QED BY <2>1, <2>2 DEF IInv
<1>2. IInv /\ [Next]_vars => IInv'
  BY <1>1, ChildStep, RestartStep DEF Next
<1>. QED BY InitIInv, <1>2, PTL DEF Spec

-----------------------------------------------------------------------------
\* The type invariant, for any children and any catalogs (acpchildren.go:852).
THEOREM ChildrenTyped == Spec => []TypeOK
<1>1. IInv => TypeOK
  BY DEF IInv, Shape, Stages, Owned, Faithful, TypeOK
<1>. QED BY <1>1, Inductive, PTL

(* No gateway outlives the builder that failed over it, or the watcher's word
   that its child has ended (acpchildren.go:865-869, 1077-1085). *)
THEOREM GatewaysOwned == Spec => []NoStrayGateway
<1>1. IInv => NoStrayGateway
  BY DEF IInv, Owned, NoStrayGateway
<1>. QED BY <1>1, Inductive, PTL

-----------------------------------------------------------------------------
(* What the catalog makes of a gateway binding: an option of one of its gateway
   entries, with the small model of that entry. *)
LEMMA GatewayResolution ==
  ASSUME NEW cat \in Catalogs, NEW b, b.kind = "gateway", Bound(b), NEW r \in Resolve(cat.entries, b)
  PROVE  \E e \in ACPEntries(cat.entries) :
           /\ e.role = b.role /\ e.harness = b.harness /\ e.kind = "gateway" /\ r.small = e.small
           /\ \E o \in e.models : r.alias = o.alias /\ r.target = Target(o, r.effort)
<1>1. PICK e \in EntriesFor(cat.entries, b) : r \in ResolveTarget(e, b) /\ r.kind = b.kind
  BY DEF Resolve
<1>2. e \in ACPEntries(cat.entries) /\ e.role = b.role /\ e.harness = b.harness
  BY <1>1 DEF EntriesFor
<1>3. b.target # None
  BY BindingShape DEF Bound
<1>4. PICK o \in e.models : /\ Target(o, b.effort) = b.target
                            /\ r = Resolution(e, o.alias, b.target, b.effort)
  BY <1>1, <1>3 DEF ResolveTarget
<1>. QED BY <1>1, <1>2, <1>4 DEF Resolution

(* The routes of Claude's small model are one route, which stands for that model. *)
LEMMA SmallRoutesAre ==
  ASSUME catalog \in Catalogs, NEW b, NEW r
  PROVE  /\ \A t \in SmallRoutes(b, r) : t.target = <<r.small, "">> /\ t.alias = r.small
         /\ \A t, u \in SmallRoutes(b, r) : t = u
<1>1. \A o \in SmallOptions(b, r) : o.alias = r.small
  BY DEF SmallOptions
<1>2. \A o, p \in SmallOptions(b, r) : o = p
  <2>. SUFFICES ASSUME NEW o \in SmallOptions(b, r), NEW p \in SmallOptions(b, r) PROVE o = p
    OBVIOUS
  <2>1. PICK e \in ACPEntries(catalog.entries) :
               e.role = b.role /\ e.harness = b.harness /\ o \in e.models
    BY DEF SmallOptions
  <2>2. PICK f \in ACPEntries(catalog.entries) :
               f.role = b.role /\ f.harness = b.harness /\ p \in f.models
    BY DEF SmallOptions
  <2>3. WorkingCatalog(catalog.entries)
    BY ChildrenAssumption
  <2>. QED BY <1>1, <2>1, <2>2, <2>3 DEF WorkingCatalog, ACPEntries
<1>3. ASSUME NEW t \in SmallRoutes(b, r)
      PROVE  /\ \E o \in SmallOptions(b, r) : t = Route(Target(o, o.effort), o.alias, o.effort)
             /\ t.target = <<r.small, "">> /\ t.alias = r.small
  <2>1. PICK o \in SmallOptions(b, r) : t = Route(Target(o, o.effort), o.alias, o.effort)
    BY DEF SmallRoutes
  <2>2. Target(o, o.effort) = <<r.small, "">>
    BY <1>1, <2>1 DEF Target
  <2>. QED BY <1>1, <2>1, <2>2 DEF Route
<1>. QED BY <1>2, <1>3

(* Claude's gateway child has a small model to ask for, and no other child has. *)
LEMMA SmallModelServed ==
  ASSUME catalog \in Catalogs, NEW b, b.kind = "gateway", Bound(b),
         NEW r \in Resolve(catalog.entries, b)
  PROVE  /\ SmallRoutes(b, r) # {} <=> b.harness = "claude-code"
         /\ \A t \in SmallRoutes(b, r) : t.target # None
<1>1. PICK e \in ACPEntries(catalog.entries) :
           e.role = b.role /\ e.harness = b.harness /\ e.kind = "gateway" /\ r.small = e.small
  BY GatewayResolution
<1>2. WorkingCatalog(catalog.entries)
  BY ChildrenAssumption
<1>3. ASSUME b.harness = "claude-code" PROVE SmallRoutes(b, r) # {}
  <2>1. r.small # None /\ r.small \in Aliases(e.models)
    BY <1>1, <1>2, <1>3 DEF WorkingCatalog, ACPEntries
  <2>2. PICK o \in e.models : o.alias = r.small
    BY <2>1 DEF Aliases
  <2>3. o \in SmallOptions(b, r)
    BY <1>1, <1>3, <2>1, <2>2 DEF SmallOptions
  <2>. QED BY <2>3 DEF SmallRoutes
<1>4. ASSUME b.harness # "claude-code" PROVE SmallRoutes(b, r) = {}
  BY <1>4 DEF SmallRoutes, SmallOptions
<1>5. ASSUME NEW t \in SmallRoutes(b, r) PROVE t.target # None
  <2>1. PICK o \in SmallOptions(b, r) : t.target = Target(o, o.effort)
    BY DEF SmallRoutes, Route
  <2>2. PICK f \in catalog.entries : o \in f.models
    BY <2>1 DEF SmallOptions, ACPEntries
  <2>3. Target(o, o.effort) \in Targets(o)
    BY <1>2, <2>2 DEF WorkingCatalog, Targets
  <2>. QED BY <2>1, <2>2, <2>3, ChildrenAssumption
<1>. QED BY <1>3, <1>4, <1>5

(* What a gateway child asks for, and what its gateway serves. *)
LEMMA PlanAgrees ==
  ASSUME catalog \in Catalogs, NEW b, b.kind = "gateway", Bound(b),
         NEW r \in Resolve(catalog.entries, b)
  PROVE  LET names == ChildAliases(b, r) IN
         /\ \A t, u \in Plan(b, r) : t.target = u.target => t = u
         /\ Route(names.main, r.alias, b.effort) \in Plan(b, r)
         /\ (b.harness = "claude-code") <=> (names.small # None)
         /\ names.small # None =>
              \E t \in Plan(b, r) : t.target = names.small /\ t.alias = r.small
<1>. DEFINE main == Route(r.target, r.alias, r.effort)
            smalls == SmallRoutes(b, r)
            names == ChildAliases(b, r)
<1>1. r.kind = "gateway" /\ r.effort = b.effort
  BY ResolutionFaithful
<1>2. Plan(b, r) = {main} \cup {t \in smalls : t.target # main.target}
  BY DEF Plan
<1>3. /\ \A t \in smalls : t.target = <<r.small, "">> /\ t.alias = r.small
      /\ \A t, u \in smalls : t = u
  BY SmallRoutesAre
<1>4. /\ smalls # {} <=> b.harness = "claude-code"
      /\ \A t \in smalls : t.target # None
  BY SmallModelServed
<1>5. /\ names.main = r.target
      /\ names.small = IF smalls = {} THEN None ELSE (CHOOSE t \in smalls : TRUE).target
  BY <1>1 DEF ChildAliases
<1>6. main.target = r.target /\ main.alias = r.alias
  BY DEF Route
<1>7. r.target = <<r.small, "">> => r.alias = r.small
  <2>1. PICK o : r.alias = o.alias /\ r.target = Target(o, r.effort)
    BY GatewayResolution
  <2>. DEFINE named == IF r.effort = o.effort THEN "" ELSE r.effort
              bare == ""
  <2>2. r.target = <<o.alias, named>>
    BY <2>1 DEF Target
  <2>. SUFFICES ASSUME r.target = <<r.small, bare>> PROVE r.alias = r.small
    OBVIOUS
  <2>. HIDE DEF named, bare
  <2>. QED BY <2>1, <2>2
<1>. HIDE DEF smalls, names, main
<1>8. smalls # {} => \E t \in smalls : names.small = t.target
  BY <1>5
<1>9. Route(names.main, r.alias, b.effort) \in Plan(b, r)
  BY <1>1, <1>2, <1>5 DEF main
<1>10. names.small # None => \E t \in Plan(b, r) : t.target = names.small /\ t.alias = r.small
  <2>. SUFFICES ASSUME names.small # None
                PROVE  \E t \in Plan(b, r) : t.target = names.small /\ t.alias = r.small
    OBVIOUS
  <2>1. PICK t \in smalls : names.small = t.target
    BY <1>5, <1>8
  <2>2. CASE t.target = main.target
    BY <1>2, <1>3, <1>6, <1>7, <2>1, <2>2
  <2>3. CASE t.target # main.target
    BY <1>2, <1>3, <2>1, <2>3
  <2>. QED BY <2>2, <2>3
<1>11. \A t, u \in Plan(b, r) : t.target = u.target => t = u
  BY <1>2, <1>3
<1>12. (b.harness = "claude-code") <=> (names.small # None)
  BY <1>4, <1>5, <1>8
<1>. QED BY <1>9, <1>10, <1>11, <1>12 DEF names

(* For any children and any catalogs a preflight can leave, a running child asks
   for what its own gateway serves, at the effort that was chosen for it
   (acpchildren.go:937, acpgateway.go:82). *)
THEOREM ChildrenRouted == Spec => []RoutedAsChosen
<1>1. IInv => RoutedAsChosen
  <2>. SUFFICES ASSUME IInv, NEW c \in Children, stage[c] = "running"
                PROVE  LET b == identity[c] IN
                  IF b.kind = "gateway"
                  THEN /\ server[c] = "open"
                       /\ \A t, u \in routes[c] : t.target = u.target => t = u
                       /\ Route(told[c].main, resolved[c].alias, b.effort) \in routes[c]
                       /\ (b.harness = "claude-code") <=> (told[c].small # None)
                       /\ told[c].small # None =>
                            \E t \in routes[c] : t.target = told[c].small /\ t.alias = resolved[c].small
                  ELSE server[c] = "none" /\ told[c].main = b.target
    BY DEF RoutedAsChosen
  <2>. DEFINE b == identity[c]
              r == resolved[c]
  <2>1. catalog \in Catalogs /\ Bound(b) /\ r \in Resolve(catalog.entries, b)
    BY DEF IInv, Shape, Faithful, Settled
  <2>2. r.kind = b.kind /\ r.target = b.target
    BY <2>1, ResolutionFaithful
  <2>3. /\ IF r.kind = "gateway" THEN server[c] = "open" /\ routes[c] = Plan(b, r)
                                 ELSE server[c] = "none"
        /\ told[c] = ChildAliases(b, r)
    BY DEF IInv, Served
  <2>. HIDE DEF b, r
  <2>4. CASE b.kind = "gateway"
    BY <2>1, <2>2, <2>3, <2>4, PlanAgrees DEF b, r
  <2>5. CASE b.kind # "gateway"
    <3>1. b.kind = "managed" => b.target = None
      BY <2>1, BindingShape DEF Bound
    <3>. QED BY <2>2, <2>3, <2>5, <3>1 DEF ChildAliases, NoAlias, b, r
  <2>. QED BY <2>4, <2>5
<1>. QED BY <1>1, Inductive, PTL

(* Under any catalogs, however often the process is restarted, a child runs
   the source, model and effort it was first bound to (acpchildren.go:996-1029). *)
THEOREM ChildrenFaithful == Spec => []RunsAsBound
<1>1. IInv => RunsAsBound
  <2>. SUFFICES ASSUME IInv, NEW c \in Children,
                       stage[c] \in {"naming", "building", "running", "ended", "done"}
                PROVE  /\ resolved[c].kind = identity[c].kind
                       /\ resolved[c].target = identity[c].target
                       /\ resolved[c].effort = identity[c].effort
                       /\ identity[c] \in Bindings(catalog.entries)
    BY DEF RunsAsBound
  <2>1. resolved[c] \in Resolve(catalog.entries, identity[c]) /\ Bound(identity[c])
    BY DEF IInv, Faithful, Settled
  <2>2. catalog \in Catalogs
    BY DEF IInv, Shape
  <2>. QED BY <2>1, <2>2, ResolutionFaithful
<1>. QED BY <1>1, Inductive, PTL

=============================================================================

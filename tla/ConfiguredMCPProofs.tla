------------------------- MODULE ConfiguredMCPProofs -------------------------
(***************************************************************************)
(* Proofs about MCPComposition, for any servers, elicitations and backlog, *)
(* and about ConfiguredMCP, for any worlds: which processes resume a       *)
(* session, no proxy is bypassed, and what holds of one process's session  *)
(* holds of each.                                                          *)
(***************************************************************************)
EXTENDS ConfiguredMCP, SequenceTheorems, TLAPS

(* The types of what the gates, the attach steps and the streams are about. *)
GatesTyped ==
  /\ call \in [Elicitations -> {"idle", "entered", "opening", "awaiting", "abandoning",
                                "returned"}]
  /\ gate \in [Elicitations -> {"none", "open", "answered", "closed"}]
  /\ result \in [Elicitations -> {None, "unbound", "answer", "error"}]

ServersTyped ==
  /\ managed \subseteq Servers
  /\ status \in [Servers -> Statuses]
  /\ publishing \in [Servers -> BOOLEAN]
  /\ shown \in [Servers -> Statuses \cup {None}]

(* Before Start is called the servers are at rest, and whatever attach has to
   bind is bound when it is. *)
BoundBeforeStarted ==
  /\ setup \in [interactive : BOOLEAN, host : BOOLEAN, publisher : BOOLEAN]
  /\ host \in BOOLEAN /\ target \in BOOLEAN
  /\ host => setup.interactive /\ setup.host
  /\ at \in {"bind", "gates", "events", "start"} => ~started
  /\ started \/ at \in {"events", "start"} => host = (setup.interactive /\ setup.host)
  /\ started \/ at = "start" => target = setup.publisher
  /\ ~started => /\ \A s \in Servers : status[s] = "configured" /\ ~publishing[s]
                 /\ \A e \in Elicitations : call[e] = "idle" /\ gate[e] = "none"

(* A gate is open only while its call is there to close it; none was ever
   asked for where no host was bound. *)
GatesAttended ==
  \A e \in Elicitations :
    /\ gate[e] = "open" => call[e] \in {"awaiting", "abandoning"}
    /\ gate[e] # "none" \/ call[e] \in {"opening", "awaiting", "abandoning"} => host
    /\ result[e] = "unbound" => started /\ ~host

GatesInv == GatesTyped /\ ServersTyped /\ BoundBeforeStarted /\ GatesAttended

LEMMA GatesInit == Init => GatesInv
<1> SUFFICES ASSUME Init PROVE GatesInv
  OBVIOUS
<1>1. GatesTyped
  BY DEF Init, GatesTyped
<1>2. ServersTyped
  BY DEF Init, ServersTyped, Statuses
<1>3. BoundBeforeStarted
  BY DEF Init, BoundBeforeStarted
<1>4. GatesAttended
  BY MCPAssumption DEF Init, GatesAttended
<1> QED BY <1>1, <1>2, <1>3, <1>4 DEF GatesInv

(* The steps that touch neither gates nor calls leave them as they are. *)
LEMMA AttachKeepsGates ==
  ASSUME GatesInv, Attach PROVE GatesInv'
<1>1. CASE NoManager \/ StartReturns \/ StartAdoption
  BY <1>1 DEF NoManager, StartReturns, StartAdoption, Step, GatesInv, GatesTyped, ServersTyped,
              BoundBeforeStarted, GatesAttended, servers, gates
<1>2. CASE BindSession
  <2>1. shown' \in [Servers -> Statuses \cup {None}]
    BY <1>2 DEF BindSession, Stream, GatesInv, ServersTyped
  <2> QED
    BY <1>2, <2>1 DEF BindSession, Step, GatesInv, GatesTyped, ServersTyped,
                      BoundBeforeStarted, GatesAttended, servers, gates
<1>3. CASE BindGates
  BY <1>3 DEF BindGates, Step, GatesInv, GatesTyped, ServersTyped,
              BoundBeforeStarted, GatesAttended, servers, gates
<1>4. CASE BindEvents
  BY <1>4 DEF BindEvents, Step, GatesInv, GatesTyped, ServersTyped,
              BoundBeforeStarted, GatesAttended, servers, gates
<1>5. CASE CallStart
  BY <1>5 DEF CallStart, Step, GatesInv, GatesTyped, ServersTyped,
              BoundBeforeStarted, GatesAttended, servers, gates
<1> QED BY <1>1, <1>2, <1>3, <1>4, <1>5 DEF Attach

(* Neither do the end of the session, which closes what is open, the manager
   and its notices. *)
LEMMA OthersKeepGates ==
  ASSUME GatesInv,
         Close \/ Report \/ Done \/ \E s \in Servers : StatusChanges(s) \/ PublishEvent(s)
  PROVE  GatesInv'
<1>1. CASE ShutSession
  <2>1. gate' \in [Elicitations -> {"none", "open", "answered", "closed"}]
    BY <1>1 DEF ShutSession, GatesInv, GatesTyped
  <2>2. \A e \in Elicitations :
          gate'[e] # "open" /\ (gate[e] = "none" <=> gate'[e] = "none")
    BY <1>1 DEF ShutSession, GatesInv, GatesTyped
  <2>3. GatesTyped' /\ ServersTyped'
    BY <1>1, <2>1 DEF ShutSession, GatesInv, GatesTyped, ServersTyped, servers
  <2>4. BoundBeforeStarted'
    BY <1>1, <2>2 DEF ShutSession, Step, GatesInv, BoundBeforeStarted, servers
  <2>5. GatesAttended'
    BY <1>1, <2>2 DEF ShutSession, Step, GatesInv, GatesAttended, servers
  <2> QED BY <2>3, <2>4, <2>5 DEF GatesInv
<1>2. CASE CloseManager \/ Report \/ Done
  BY <1>2 DEF CloseManager, Report, Done, Step, GatesInv, GatesTyped, ServersTyped,
              BoundBeforeStarted, GatesAttended, servers, gates, binding, vars
<1>3. ASSUME NEW s \in Servers, StatusChanges(s) PROVE GatesInv'
  <2>1. started /\ status' \in [Servers -> Statuses] /\ publishing' \in [Servers -> BOOLEAN]
    BY <1>3 DEF StatusChanges, Running, GatesInv, ServersTyped, Statuses
  <2> QED
    BY <1>3, <2>1 DEF StatusChanges, GatesInv, GatesTyped, ServersTyped, BoundBeforeStarted,
                      GatesAttended, gates, binding
<1>4. ASSUME NEW s \in Servers, PublishEvent(s) PROVE GatesInv'
  <2>1. started
    BY <1>4 DEF PublishEvent, GatesInv, BoundBeforeStarted
  <2>2. publishing' \in [Servers -> BOOLEAN] /\ shown' \in [Servers -> Statuses \cup {None}]
    BY <1>4 DEF PublishEvent, Stream, GatesInv, ServersTyped
  <2> QED
    BY <1>4, <2>1, <2>2 DEF PublishEvent, GatesInv, GatesTyped, ServersTyped, BoundBeforeStarted,
                            GatesAttended, gates, binding
<1> QED BY <1>1, <1>2, <1>3, <1>4 DEF Close

(* A call, its answer and the end of its context. *)
LEMMA CallsKeepGates ==
  ASSUME GatesInv, NEW e \in Elicitations,
         Elicit(e) \/ OpenGate(e) \/ HumanAnswers(e) \/ CtxEnds(e)
  PROVE  GatesInv'
<1>1. CASE Elicit(e)
  BY <1>1 DEF Elicit, Running, CallAt, GatesInv, GatesTyped, ServersTyped, BoundBeforeStarted,
              GatesAttended, servers, binding
<1>2. CASE ReadHost(e)
  BY <1>2 DEF ReadHost, CallAt, Returns, GatesInv, GatesTyped, ServersTyped, BoundBeforeStarted,
              GatesAttended, servers, binding
<1>3. CASE OpenHostGate(e)
  BY <1>3, MCPAssumption DEF OpenHostGate, CallAt, Returns, GatesInv, GatesTyped, ServersTyped,
              BoundBeforeStarted, GatesAttended, servers, binding
<1>4. CASE AwaitGateAnswer(e)
  BY <1>4 DEF AwaitGateAnswer, CallAt, Returns, GatesInv, GatesTyped, ServersTyped,
              BoundBeforeStarted, GatesAttended, servers, binding
<1>5. CASE CloseGate(e)
  BY <1>5 DEF CloseGate, CallAt, Returns, GatesInv, GatesTyped, ServersTyped,
              BoundBeforeStarted, GatesAttended, servers, binding
<1>6. CASE HumanAnswers(e) \/ CtxEnds(e)
  BY <1>6 DEF HumanAnswers, CtxEnds, GatesInv, GatesTyped, ServersTyped,
              BoundBeforeStarted, GatesAttended, servers, binding
<1> QED BY <1>1, <1>2, <1>3, <1>4, <1>5, <1>6 DEF OpenGate

LEMMA GatesStep == GatesInv /\ [Next]_vars => GatesInv'
<1> SUFFICES ASSUME GatesInv, [Next]_vars PROVE GatesInv'
  OBVIOUS
<1>1. CASE Next
  BY <1>1, AttachKeepsGates, OthersKeepGates, CallsKeepGates DEF Next
<1>2. CASE UNCHANGED vars
  BY <1>2 DEF vars, binding, servers, gates, GatesInv, GatesTyped, ServersTyped,
              BoundBeforeStarted, GatesAttended
<1> QED BY <1>1, <1>2

LEMMA GatesSafe == GatesInv => NoOrphanedGate /\ OnlyHumansAreAsked
BY DEF GatesInv, GatesTyped, GatesAttended, BoundBeforeStarted, NoOrphanedGate, OnlyHumansAreAsked

-----------------------------------------------------------------------------
(* The stream is behind only while a status is being published. *)
LEMMA StreamInit == Init => StreamFollowsServers
BY DEF Init, StreamFollowsServers

LEMMA StreamStep ==
  GatesInv /\ StreamFollowsServers /\ [Next]_vars => StreamFollowsServers'
<1> SUFFICES ASSUME GatesInv, StreamFollowsServers, [Next]_vars PROVE StreamFollowsServers'
  OBVIOUS
<1>1. CASE UNCHANGED <<managed, setup, session, status, publishing, shown>>
  BY <1>1 DEF StreamFollowsServers
<1>2. CASE ShutSession
  BY <1>2 DEF ShutSession, StreamFollowsServers
<1>3. CASE BindSession
  <2>1. \A s \in Servers : status'[s] = "configured"
    BY <1>3 DEF BindSession, Step, GatesInv, BoundBeforeStarted
  <2>2. managed' \subseteq Servers
    BY <1>3 DEF BindSession, GatesInv, ServersTyped
  <2> QED BY <2>1, <2>2 DEF StreamFollowsServers
<1>4. ASSUME NEW s \in Servers, StatusChanges(s) PROVE StreamFollowsServers'
  BY <1>4 DEF StatusChanges, StreamFollowsServers, GatesInv, ServersTyped, binding
<1>5. ASSUME NEW s \in Servers, PublishEvent(s) PROVE StreamFollowsServers'
  <2>1. target = setup.publisher
    BY <1>5 DEF PublishEvent, GatesInv, BoundBeforeStarted
  <2> QED
    BY <1>5, <2>1 DEF PublishEvent, Stream, StreamFollowsServers, GatesInv, ServersTyped, binding
<1>6. CASE Attach \/ Close \/ Report
  BY <1>1, <1>2, <1>3, <1>6 DEF Attach, Close, NoManager, BindGates, BindEvents, CallStart,
     StartReturns, StartAdoption, CloseManager, Report, binding, servers
<1>7. CASE \E e \in Elicitations : Elicit(e) \/ OpenGate(e) \/ HumanAnswers(e) \/ CtxEnds(e)
  BY <1>1, <1>7 DEF Elicit, OpenGate, ReadHost, OpenHostGate, AwaitGateAnswer, CloseGate,
     HumanAnswers, CtxEnds, binding, servers
<1>8. CASE Done \/ UNCHANGED vars
  BY <1>1, <1>8 DEF Done, vars, binding, servers
<1> QED BY <1>4, <1>5, <1>6, <1>7, <1>8 DEF Next

-----------------------------------------------------------------------------
(* The recorder's arithmetic. *)
NoticesInv ==
  /\ notices \in Seq(Nat) /\ dropped \in Nat /\ reported \in Nat
  /\ NewestNoticesKept

LEMMA NoticesInit == Init => NoticesInv
BY MCPAssumption DEF Init, NoticesInv, NewestNoticesKept

LEMMA NoticesStep == NoticesInv /\ [Next]_vars => NoticesInv'
<1> SUFFICES ASSUME NoticesInv, [Next]_vars PROVE NoticesInv'
  OBVIOUS
<1>1. CASE UNCHANGED recorder
  BY <1>1 DEF NoticesInv, NewestNoticesKept, recorder
<1>2. CASE Report
  <2>1. /\ Len(notices) \in Nat /\ reported = dropped + Len(notices)
        /\ \A i \in 1..Len(notices) : notices[i] = dropped + i
    BY DEF NoticesInv, NewestNoticesKept
  <2>2. CASE Len(notices) >= Backlog
    <3>1. /\ notices # <<>> /\ Len(notices) = Backlog
          /\ Tail(notices) \in Seq(Nat) /\ Len(Tail(notices)) = Backlog - 1
          /\ \A i \in 1..(Backlog - 1) : Tail(notices)[i] = notices[i + 1]
      <4>1. notices \in Seq(Nat) /\ Len(notices) = Backlog
        <5>1. notices \in Seq(Nat) /\ Len(notices) <= Backlog
          BY DEF NoticesInv, NewestNoticesKept
        <5>2. Len(notices) \in Nat
          BY <2>1
        <5> QED BY <2>2, <5>1, <5>2, MCPAssumption
      <4>2. notices # <<>>
        BY <4>1, MCPAssumption
      <4>3. Tail(notices) \in Seq(Nat) /\ Len(Tail(notices)) = Backlog - 1
        BY <4>1, <4>2, HeadTailProperties
      <4>4. \A i \in 1..(Backlog - 1) : Tail(notices)[i] = notices[i + 1]
        BY <4>1, <4>2, <4>3, HeadTailProperties
      <4> QED BY <4>1, <4>2, <4>3, <4>4
    <3>2. /\ notices' = Append(Tail(notices), reported + 1) /\ dropped' = dropped + 1
          /\ reported' = reported + 1
      BY <1>2, <2>2 DEF Report
    <3>3. /\ notices' \in Seq(Nat) /\ Len(notices') = Backlog
          /\ \A i \in 1..(Backlog - 1) : notices'[i] = notices[i + 1]
          /\ notices'[Backlog] = reported + 1
      BY <3>1, <3>2, MCPAssumption DEF NoticesInv
    <3>4. reported \in Nat /\ dropped \in Nat /\ reported = dropped + Backlog
      BY <2>1, <3>1 DEF NoticesInv
    <3>5. ASSUME NEW i \in 1..Backlog PROVE notices'[i] = dropped' + i
      <4>1. CASE i = Backlog
        BY <4>1, <3>2, <3>3, <3>4, MCPAssumption
      <4>2. CASE i # Backlog
        <5>1. i \in 1..(Backlog - 1) /\ i + 1 \in 1..Len(notices) /\ i \in Nat
          BY <4>2, <3>1, MCPAssumption
        <5>2. notices'[i] = notices[i + 1] /\ notices[i + 1] = dropped + (i + 1)
          BY <5>1, <3>3, <2>1
        <5> QED BY <5>1, <5>2, <3>2, <3>4
      <4> QED BY <4>1, <4>2
    <3>6. notices' = [i \in 1..Len(notices') |-> dropped' + i]
      BY <3>3, <3>5
    <3>7. dropped' \in Nat /\ reported' \in Nat /\ dropped' + Len(notices') = reported'
      <4>1. Len(notices') = Backlog
        BY <3>3
      <4>2. dropped' = dropped + 1 /\ reported' = reported + 1
        BY <3>2
      <4> QED BY <3>4, <4>1, <4>2, MCPAssumption
    <3>8. notices' \in Seq(Nat) /\ Len(notices') <= Backlog /\ Len(notices') = Backlog
      BY <3>3, MCPAssumption
    <3> QED BY <3>6, <3>7, <3>8 DEF NoticesInv, NewestNoticesKept
  <2>3. CASE ~(Len(notices) >= Backlog)
    <3>1. notices' = Append(notices, reported + 1) /\ dropped' = dropped /\ reported' = reported + 1
      BY <1>2, <2>3 DEF Report
    <3>2. dropped = 0 /\ reported = Len(notices) /\ Len(notices) < Backlog /\ notices \in Seq(Nat)
      <4>1. /\ dropped \in Nat /\ notices \in Seq(Nat)
            /\ dropped > 0 => Len(notices) = Backlog
            /\ Len(notices) <= Backlog
        BY DEF NoticesInv, NewestNoticesKept
      <4> QED BY <4>1, <2>1, <2>3, MCPAssumption
    <3>3. /\ notices' \in Seq(Nat) /\ Len(notices') = Len(notices) + 1
          /\ \A i \in 1..Len(notices) : notices'[i] = notices[i]
          /\ notices'[Len(notices) + 1] = reported + 1
      BY <2>1, <3>1, <3>2
    <3>4. \A i \in 1..Len(notices') : notices'[i] = dropped' + i
      BY <2>1, <3>1, <3>2, <3>3
    <3>5. notices' = [i \in 1..Len(notices') |-> dropped' + i]
      BY <3>3, <3>4
    <3> QED
      BY <2>1, <3>1, <3>2, <3>3, <3>5, MCPAssumption DEF NoticesInv, NewestNoticesKept
  <2> QED BY <2>2, <2>3
<1>3. CASE Attach \/ Close
  BY <1>1, <1>3 DEF Attach, Close, NoManager, BindSession, BindGates, BindEvents, CallStart,
     StartReturns, StartAdoption, ShutSession, CloseManager
<1>4. CASE \E s \in Servers : StatusChanges(s) \/ PublishEvent(s)
  BY <1>1, <1>4 DEF StatusChanges, PublishEvent
<1>5. CASE \E e \in Elicitations : Elicit(e) \/ OpenGate(e) \/ HumanAnswers(e) \/ CtxEnds(e)
  BY <1>1, <1>5 DEF Elicit, OpenGate, ReadHost, OpenHostGate, AwaitGateAnswer, CloseGate,
     HumanAnswers, CtxEnds
<1>6. CASE Done \/ UNCHANGED vars
  BY <1>1, <1>6 DEF Done, vars
<1> QED BY <1>2, <1>3, <1>4, <1>5, <1>6 DEF Next

-----------------------------------------------------------------------------
(* One invariant of a process's session, and what it keeps true. *)
SessionInv == GatesInv /\ StreamFollowsServers /\ NoticesInv

LEMMA SessionInit == Init => SessionInv
BY GatesInit, StreamInit, NoticesInit DEF SessionInv

LEMMA SessionStep == SessionInv /\ [Next]_vars => SessionInv'
BY GatesStep, StreamStep, NoticesStep DEF SessionInv

LEMMA SessionSafe ==
  SessionInv =>
    NoOrphanedGate /\ OnlyHumansAreAsked /\ StreamFollowsServers /\ NewestNoticesKept
BY GatesSafe DEF SessionInv, NoticesInv

(* In the one process of a session no gate is orphaned, only humans are asked,
   the stream follows the servers and the newest notices are kept, for any
   servers, number of calls and backlog. *)
THEOREM OneProcessIsSafe ==
  Spec => [](NoOrphanedGate /\ OnlyHumansAreAsked /\ StreamFollowsServers /\ NewestNoticesKept)
<1>1. Init => SessionInv
  BY SessionInit
<1>2. SessionInv /\ [Next]_vars => SessionInv'
  BY SessionStep
<1>3. SessionInv =>
        NoOrphanedGate /\ OnlyHumansAreAsked /\ StreamFollowsServers /\ NewestNoticesKept
  BY SessionSafe
<1> QED BY <1>1, <1>2, <1>3, PTL DEF Spec

-----------------------------------------------------------------------------
(* The profiles of the builder tell the three names apart. *)
LEMMA NamesDiffer ==
  ASSUME NEW m \in ProfileNames, NEW n \in ProfileNames,
         CoderigProfile(m) = CoderigProfile(n)
  PROVE  m = n
<1>1. CoderigProfile("readonly") # CoderigProfile("trusted")
  <2>1. CoderigProfile("readonly").access["write"] = "deny"
    BY DEF CoderigProfile, ReadOnly, ProfileOf, SandboxKinds
  <2>2. CoderigProfile("trusted").access["write"] = "allow"
    BY DEF CoderigProfile, ProfileOf, SandboxKinds
  <2> QED BY <2>1, <2>2
<1>2. /\ CoderigProfile("readonly").sandboxed /\ CoderigProfile("trusted").sandboxed
      /\ ~CoderigProfile("unconfined").sandboxed
  BY DEF CoderigProfile, ReadOnly, ProfileOf
<1>3. CoderigProfile("unconfined") # CoderigProfile("trusted")
      /\ CoderigProfile("unconfined") # CoderigProfile("readonly")
  BY <1>2
<1> QED BY <1>1, <1>3 DEF ProfileNames

(* A route that resolved guarantees the address exactly if it is direct. *)
LEMMA RouteByHost ==
  ASSUME NEW environment, Resolves(environment)
  PROVE  /\ Route(environment).target
         /\ Route(environment).address <=> Route(environment).host = ""
         /\ Route(environment).address \in BOOLEAN
         /\ Route(environment).target \in BOOLEAN
BY DEF Resolves, Route, DirectRoute, EgressRoute, Blank

(* A binding is named for its entry, and some role sees it. *)
LEMMA BindingShape ==
  ASSUME NEW file, MCPLoads(file)
  PROVE  /\ \A b \in Bindings(file) : b.visible \subseteq Roles /\ b.visible # {}
         /\ \A b, c \in Bindings(file) : b.name = c.name => b = c
         /\ \A b \in Bindings(file) : b.compat = CompatFor(b.kind)
<1>1. ASSUME NEW name \in DOMAIN file.servers
      PROVE  /\ Binding(ServerSpec(name, file.servers[name])).name = name
             /\ Binding(ServerSpec(name, file.servers[name])).visible \subseteq Roles
             /\ Binding(ServerSpec(name, file.servers[name])).visible # {}
             /\ Binding(ServerSpec(name, file.servers[name])).compat
                  = CompatFor(Binding(ServerSpec(name, file.servers[name])).kind)
  <2> DEFINE entry == file.servers[name]
             list == entry.roles
  <2>1. RolesValid(list)
    BY DEF MCPLoads, Normalizes
  <2>2. ServerRoles(list) \subseteq Roles
    BY <2>1 DEF RolesValid, ServerRoles, mcpAllRoles, Roles
  <2>3. VisibilityRoles(ServerRoles(list)) \subseteq Roles /\ VisibilityRoles(ServerRoles(list)) # {}
    BY <2>2 DEF VisibilityRoles, mcpAllRoles, Roles
  <2>4. ServerSpec(name, entry).name = name /\ ServerSpec(name, entry).roles = ServerRoles(list)
    BY DEF ServerSpec
  <2>5. /\ Binding(ServerSpec(name, entry)).name = name
        /\ Binding(ServerSpec(name, entry)).visible = VisibilityRoles(ServerRoles(list))
        /\ Binding(ServerSpec(name, entry)).compat = CompatFor(Binding(ServerSpec(name, entry)).kind)
    BY <2>4 DEF Binding
  <2> QED BY <2>3, <2>5
<1>2. \A b \in Bindings(file) : \E name \in DOMAIN file.servers :
        b = Binding(ServerSpec(name, file.servers[name]))
  BY DEF Bindings, Specs
<1> QED BY <1>1, <1>2

\* What role r sees of a revision.
Seen(rev, r) == {<<i.name, i.kind, i.origin>> : i \in {j \in rev : r \in j.visible}}

(* What is recognised of a role's servers can be read off the revision. *)
LEMMA RecognisedFromRev ==
  ASSUME NEW w, NEW r \in Roles
  PROVE  Recognised(Authority(w))[r].servers = Seen(MCPConfigRev(w.file), r)
<1> DEFINE Server(b) == [name |-> b.name, kind |-> b.kind, command |-> b.command, url |-> b.url]
           mine == {c \in Bindings(w.file) : r \in c.visible}
           Key(s) == <<s.name, s.kind, RedactedOrigin(s)>>
<1>1. Recognised(Authority(w))[r].servers = {Key(s) : s \in {Server(b) : b \in mine}}
  BY DEF Recognised, Authority
<1>2. \A b : /\ BindingIdentity(b).name = b.name
             /\ BindingIdentity(b).kind = b.kind
             /\ BindingIdentity(b).origin = RedactedOrigin(b)
             /\ BindingIdentity(b).visible = b.visible
  BY DEF BindingIdentity
<1>3. \A b : Key(Server(b)) = Key(b)
  BY DEF RedactedOrigin
<1>4. Recognised(Authority(w))[r].servers = {Key(b) : b \in mine}
  <2> HIDE DEF Server, Key
  <2> QED BY <1>1, <1>3
<1>5. {Key(b) : b \in mine} \subseteq Seen(MCPConfigRev(w.file), r)
  <2> SUFFICES ASSUME NEW b \in Bindings(w.file), r \in b.visible
               PROVE  Key(b) \in Seen(MCPConfigRev(w.file), r)
    OBVIOUS
  <2>1. BindingIdentity(b) \in MCPConfigRev(w.file)
    BY DEF MCPConfigRev
  <2> QED BY <2>1, <1>2 DEF Seen
<1>6. Seen(MCPConfigRev(w.file), r) \subseteq {Key(b) : b \in mine}
  <2> SUFFICES ASSUME NEW i \in MCPConfigRev(w.file), r \in i.visible
               PROVE  <<i.name, i.kind, i.origin>> \in {Key(b) : b \in mine}
    BY DEF Seen
  <2>1. PICK b \in Bindings(w.file) : i = BindingIdentity(b)
    BY DEF MCPConfigRev
  <2> QED BY <2>1, <1>2
<1> QED BY <1>4, <1>5, <1>6

(* The rest of what is recognised is the authority itself. *)
LEMMA RecognisedAccess ==
  ASSUME NEW w, NEW r \in Roles
  PROVE  /\ Recognised(Authority(w))[r].profile = RoleProfile(r, w.profile)
         /\ Recognised(Authority(w))[r].proxy = Route(w.environment).host
BY DEF Recognised, Authority

LEMMA RecognisedShape ==
  ASSUME NEW v, NEW w
  PROVE  /\ \A r \in Roles :
              /\ Recognised(v)[r].profile = Recognised(w)[r].profile
              /\ Recognised(v)[r].proxy = Recognised(w)[r].proxy
              /\ Recognised(v)[r].servers = Recognised(w)[r].servers
              => Recognised(v)[r] = Recognised(w)[r]
         /\ (\A r \in Roles : Recognised(v)[r] = Recognised(w)[r]) => Recognised(v) = Recognised(w)
BY DEF Recognised

(* An identity of one file whose servers every role sees alike in another is an
   identity of that one too. *)
LEMMA RevIncluded ==
  ASSUME NEW f, NEW g, MCPLoads(f), MCPLoads(g),
         \A r \in Roles : Seen(MCPConfigRev(f), r) = Seen(MCPConfigRev(g), r)
  PROVE  MCPConfigRev(f) \subseteq MCPConfigRev(g)
<1> SUFFICES ASSUME NEW i \in MCPConfigRev(f) PROVE i \in MCPConfigRev(g)
  OBVIOUS
<1> DEFINE Key(j) == <<j.name, j.kind, j.origin>>
<1>1. PICK b \in Bindings(f) : i = BindingIdentity(b)
  BY DEF MCPConfigRev
<1>2. i.visible \subseteq Roles /\ i.visible # {}
  BY <1>1, BindingShape DEF BindingIdentity
<1>3. ASSUME NEW r \in i.visible
      PROVE  \E c \in Bindings(g) : Key(BindingIdentity(c)) = Key(i) /\ r \in c.visible
  <2>1. Key(i) \in Seen(MCPConfigRev(f), r)
    BY <1>3 DEF Seen
  <2>2. Key(i) \in Seen(MCPConfigRev(g), r)
    BY <2>1, <1>2
  <2>3. PICK j \in MCPConfigRev(g) : r \in j.visible /\ Key(j) = Key(i)
    BY <2>2 DEF Seen
  <2>4. PICK c \in Bindings(g) : j = BindingIdentity(c)
    BY DEF MCPConfigRev
  <2>5. c.visible = j.visible
    BY <2>4 DEF BindingIdentity
  <2> QED BY <2>3, <2>4, <2>5
<1>4. PICK r0 \in i.visible : TRUE
  BY <1>2
<1>5. PICK c \in Bindings(g) : Key(BindingIdentity(c)) = Key(i)
  BY <1>3, <1>4
<1> DEFINE k == BindingIdentity(c)
<1>6. k \in MCPConfigRev(g) /\ k.visible = c.visible /\ c.visible \subseteq Roles /\ k.name = c.name
  BY BindingShape DEF MCPConfigRev, BindingIdentity
<1>7. i.visible \subseteq k.visible
  <2> SUFFICES ASSUME NEW r \in i.visible PROVE r \in k.visible
    OBVIOUS
  <2>1. PICK d \in Bindings(g) : Key(BindingIdentity(d)) = Key(i) /\ r \in d.visible
    BY <1>3
  <2>2. d.name = c.name
    BY <2>1, <1>5 DEF BindingIdentity
  <2>3. d = c
    BY <2>2, BindingShape
  <2> QED BY <2>1, <2>3, <1>6
<1>8. k.visible \subseteq i.visible
  <2> SUFFICES ASSUME NEW r \in k.visible PROVE r \in i.visible
    OBVIOUS
  <2>1. Key(k) \in Seen(MCPConfigRev(g), r)
    BY <1>6 DEF Seen
  <2>2. Key(k) \in Seen(MCPConfigRev(f), r)
    BY <2>1, <1>6
  <2>3. PICK j \in MCPConfigRev(f) : r \in j.visible /\ Key(j) = Key(k)
    BY <2>2 DEF Seen
  <2>4. PICK d \in Bindings(f) : j = BindingIdentity(d)
    BY DEF MCPConfigRev
  <2>5. d.name = b.name
    BY <2>3, <2>4, <1>5, <1>1 DEF BindingIdentity
  <2>6. d = b
    BY <2>5, BindingShape
  <2> QED BY <2>3, <2>4, <2>6, <1>1
<1>9. i.compat = CompatFor(i.kind) /\ k.compat = CompatFor(k.kind)
  BY <1>1, BindingShape DEF BindingIdentity
<1>10. i = k
  <2>1. i = [name |-> i.name, kind |-> i.kind, origin |-> i.origin,
             compat |-> i.compat, visible |-> i.visible]
    BY <1>1 DEF BindingIdentity
  <2>2. k = [name |-> k.name, kind |-> k.kind, origin |-> k.origin,
             compat |-> k.compat, visible |-> k.visible]
    BY DEF BindingIdentity
  <2>3. i.name = k.name /\ i.kind = k.kind /\ i.origin = k.origin
    BY <1>5
  <2>4. i.visible = k.visible /\ i.compat = k.compat
    BY <1>7, <1>8, <1>9, <2>3
  <2> HIDE DEF k
  <2> QED BY <2>1, <2>2, <2>3, <2>4
<1> QED BY <1>10, <1>6

(* Worlds in which a session can be put together have the same fingerprint
   exactly if as much is recognised of every role's authority in both. *)
LEMMA FingerprintIsRecognised ==
  ASSUME NEW v, NEW w, v.profile \in ProfileNames, w.profile \in ProfileNames,
         Assembles(v), Assembles(w)
  PROVE  Fingerprint(v) = Fingerprint(w) <=> Recognised(Authority(v)) = Recognised(Authority(w))
<1> DEFINE rv == Route(v.environment)
           rw == Route(w.environment)
<1>1. /\ Resolves(v.environment) /\ Resolves(w.environment)
      /\ MCPLoads(v.file) /\ MCPLoads(w.file)
  BY DEF Assembles
<1>2. ASSUME Fingerprint(v) = Fingerprint(w)
      PROVE  Recognised(Authority(v)) = Recognised(Authority(w))
  <2>1. /\ AccessDigest(v.profile, rv) = AccessDigest(w.profile, rw)
        /\ MCPConfigRev(v.file) = MCPConfigRev(w.file)
    BY <1>2 DEF Fingerprint
  <2>2. v.profile = w.profile /\ RouteFingerprint(rv) = RouteFingerprint(rw)
    BY <2>1 DEF AccessDigest
  <2>3. rv.host = rw.host
    BY <2>2 DEF RouteFingerprint
  <2>4. ASSUME NEW r \in Roles
        PROVE  Recognised(Authority(v))[r] = Recognised(Authority(w))[r]
    <3>1. Recognised(Authority(v))[r].servers = Recognised(Authority(w))[r].servers
      BY <2>1, RecognisedFromRev
    <3>2. Recognised(Authority(v))[r].profile = Recognised(Authority(w))[r].profile
      BY <2>2, RecognisedAccess
    <3>3. Recognised(Authority(v))[r].proxy = Recognised(Authority(w))[r].proxy
      BY <2>3, RecognisedAccess
    <3> QED BY <3>1, <3>2, <3>3, RecognisedShape
  <2> QED BY <2>4, RecognisedShape
<1>3. ASSUME Recognised(Authority(v)) = Recognised(Authority(w))
      PROVE  Fingerprint(v) = Fingerprint(w)
  <2>1. "builder" \in Roles
    BY DEF Roles
  <2>2. /\ RoleProfile("builder", v.profile) = RoleProfile("builder", w.profile)
        /\ rv.host = rw.host
    BY <1>3, <2>1, RecognisedAccess
  <2>3. v.profile = w.profile
    BY <2>2, NamesDiffer DEF RoleProfile
  <2>4. rv.target = rw.target /\ rv.address = rw.address
    BY <2>2, <1>1, RouteByHost
  <2>5. AccessDigest(v.profile, rv) = AccessDigest(w.profile, rw)
    BY <2>2, <2>3, <2>4 DEF AccessDigest, RouteFingerprint
  <2>6. \A r \in Roles : Seen(MCPConfigRev(v.file), r) = Seen(MCPConfigRev(w.file), r)
    BY <1>3, RecognisedFromRev
  <2>7. MCPConfigRev(v.file) = MCPConfigRev(w.file)
    <3>1. MCPConfigRev(v.file) \subseteq MCPConfigRev(w.file)
      BY <2>6, <1>1, RevIncluded
    <3>2. MCPConfigRev(w.file) \subseteq MCPConfigRev(v.file)
      BY <2>6, <1>1, RevIncluded
    <3> QED BY <3>1, <3>2
  <2> QED BY <2>5, <2>7 DEF Fingerprint
<1> QED BY <1>2, <1>3

-----------------------------------------------------------------------------
(* What the open of each process came to; what the session was opened with is
   that of some world, and no process changes it. *)
OutcomeOK ==
  /\ world \in Worlds
  /\ outcome \in {"opened", "refused", "failed"}
  /\ \E v \in Worlds :
       Assembles(v) /\ opened = [authority |-> Authority(v), fingerprint |-> Fingerprint(v)]
  /\ outcome # "failed" => Assembles(world)
  /\ outcome = "opened" => Fingerprint(world) = opened.fingerprint
  /\ outcome = "refused" => Fingerprint(world) # opened.fingerprint
  /\ outcome = "failed" => ~Assembles(world)

LEMMA OutcomeInit == ConfiguredInit => OutcomeOK
<1> SUFFICES ASSUME ConfiguredInit PROVE OutcomeOK
  OBVIOUS
<1>1. world \in Worlds /\ Assembles(world) /\ outcome = "opened"
  BY WorldsAssumption DEF ConfiguredInit
<1>2. opened = [authority |-> Authority(world), fingerprint |-> Fingerprint(world)]
  BY DEF ConfiguredInit
<1> QED BY <1>1, <1>2 DEF OutcomeOK

LEMMA OutcomeStep == OutcomeOK /\ [ConfiguredNext]_configuredVars => OutcomeOK'
<1> SUFFICES ASSUME OutcomeOK, [ConfiguredNext]_configuredVars PROVE OutcomeOK'
  OBVIOUS
<1>1. CASE UNCHANGED <<world, outcome, opened>>
  BY <1>1 DEF OutcomeOK
<1>2. CASE Resume
  <2>1. PICK w \in Later(world) : (Restore(w) \/ Refuse(w)) /\ world' = w
    BY <1>2 DEF Resume
  <2>2. w \in Worlds /\ world' = w /\ opened' = opened
    BY <1>2, <2>1, WorldsAssumption DEF Resume, OutcomeOK
  <2>3. CASE Restore(w)
    BY <2>2, <2>3 DEF OutcomeOK, Restore
  <2>4. CASE Refuse(w)
    BY <2>2, <2>4 DEF OutcomeOK, Refuse
  <2> QED BY <2>1, <2>3, <2>4
<1> QED BY <1>1, <1>2 DEF ConfiguredNext, Live, configuredVars

LEMMA OutcomeDecided == OutcomeOK => AuthorityDecidesResume
<1> SUFFICES ASSUME OutcomeOK, outcome # "failed"
             PROVE  outcome = "opened"
                      <=> Recognised(Authority(world)) = Recognised(opened.authority)
  BY DEF AuthorityDecidesResume
<1>1. PICK v \in Worlds :
        Assembles(v) /\ opened = [authority |-> Authority(v), fingerprint |-> Fingerprint(v)]
  BY DEF OutcomeOK
<1>2. Fingerprint(world) = Fingerprint(v)
        <=> Recognised(Authority(world)) = Recognised(Authority(v))
  BY <1>1, FingerprintIsRecognised, WorldsAssumption DEF OutcomeOK
<1> QED BY <1>1, <1>2 DEF OutcomeOK

(* Whatever profiles, environments and files processes come to, a session is
   resumed exactly if every role has the profile and the route it was opened
   with and sees servers of the same names, transports and origins.  Paths of
   URLs, programs and arguments may have changed. *)
THEOREM AuthorityDecides == ConfiguredSpec => []AuthorityDecidesResume
<1> QED
  BY OutcomeInit, OutcomeStep, OutcomeDecided, PTL DEF ConfiguredSpec

-----------------------------------------------------------------------------
(* Of some of the first four numbers one is the least. *)
LEMMA LeastOfFew ==
  ASSUME NEW filled \in SUBSET (1..4), filled # {}
  PROVE  \E i \in filled : \A j \in filled : i <= j
<1>1. \A j \in filled : j \in {1, 2, 3, 4}
  OBVIOUS
<1>2. CASE 1 \in filled
  BY <1>1, <1>2
<1>3. CASE 1 \notin filled /\ 2 \in filled
  BY <1>1, <1>3
<1>4. CASE 1 \notin filled /\ 2 \notin filled /\ 3 \in filled
  BY <1>1, <1>4
<1>5. CASE 1 \notin filled /\ 2 \notin filled /\ 3 \notin filled
  <2>1. \A j \in filled : j = 4
    BY <1>1, <1>5
  <2>2. PICK i \in filled : TRUE
    OBVIOUS
  <2> QED BY <2>1, <2>2
<1> QED BY <1>2, <1>3, <1>4, <1>5

(* The value at the first position that holds something is at some position,
   and at none that holds nothing unless none holds anything. *)
LEMMA FirstIsSome ==
  ASSUME NEW n \in {2, 4}, NEW values, NEW filled \in SUBSET (1..n)
  PROVE  \E i \in 1..n : /\ FirstNonEmpty(values, filled) = values[i]
                         /\ filled # {} => i \in filled
<1>1. CASE filled = {}
  BY <1>1 DEF FirstNonEmpty
<1>2. CASE filled # {}
  <2>1. \E i \in filled : \A j \in filled : i <= j
    BY <1>2, LeastOfFew
  <2> DEFINE least == CHOOSE i \in filled : \A j \in filled : i <= j
  <2>2. least \in filled
    BY <2>1
  <2>3. FirstNonEmpty(values, filled) = values[least]
    BY <1>2 DEF FirstNonEmpty
  <2> HIDE DEF least
  <2> QED BY <2>2, <2>3
<1> QED BY <1>1, <1>2

LEMMA DirectMeansDisabled ==
  ASSUME NEW environment, DOMAIN environment.proxy = 1..4, DOMAIN environment.noProxy = 1..2,
         Route(environment).host = ""
  PROVE  \/ \A i \in 1..4 : environment.proxy[i].host \in Blank
         \/ \E i \in 1..2 : "*" \in Segments(environment.noProxy[i])
<1> DEFINE proxies == environment.proxy
           lists == environment.noProxy
           named == {i \in DOMAIN proxies : proxies[i].host \notin Blank}
           listed == {i \in DOMAIN lists : lists[i] \notin BlankLists}
           upstream == FirstNonEmpty(proxies, named)
           noProxy == FirstNonEmpty(lists, listed)
<1>1. PICK i \in 1..4 : upstream = proxies[i] /\ (named # {} => i \in named)
  BY FirstIsSome
<1>2. PICK k \in 1..2 : noProxy = lists[k]
  <2>1. listed \in SUBSET (1..2)
    OBVIOUS
  <2> QED BY <2>1, FirstIsSome
<1>3. upstream.host \in Blank \/ Wildcard(noProxy)
  BY DEF Route, DirectRoute, EgressRoute, EgressRouteError, Blank
<1>4. CASE upstream.host \in Blank
  <2>1. i \notin named
    BY <1>1, <1>4
  <2> QED BY <1>1, <2>1
<1>5. CASE Wildcard(noProxy)
  BY <1>2, <1>5 DEF Wildcard
<1> QED BY <1>3, <1>4, <1>5

LEMMA DirectDecided == OutcomeOK => ProxyNeverBypassed
BY DirectMeansDisabled, WorldsAssumption DEF OutcomeOK, ProxyNeverBypassed

(* However the variables of the environment are set, a session goes out
   directly only if none of them names a proxy or NO_PROXY disables it. *)
THEOREM NeverBypassed == ConfiguredSpec => []ProxyNeverBypassed
<1> QED BY OutcomeInit, OutcomeStep, DirectDecided, PTL DEF ConfiguredSpec

-----------------------------------------------------------------------------
(* What the loader admits the bindings only turn down for a command or headers. *)
LEMMA AdmittedBuilds ==
  ASSUME NEW file, MCPLoads(file), ~MCPBuilds(file)
  PROVE  \E name \in DOMAIN file.servers :
           LET entry == file.servers[name] IN
           \/ entry.command # "" /\ ~OnPath(entry.command)
           \/ entry.url # NoURL /\ ~ValidHeaders(entry.headers)
<1>1. PICK spec \in Specs(file) : ~(TransportBuilds(spec) /\ BindingValid(Binding(spec)))
  BY DEF MCPBuilds
<1>2. PICK name \in DOMAIN file.servers : spec = ServerSpec(name, file.servers[name])
  BY DEF Specs
<1> DEFINE entry == file.servers[name]
<1>3. ServerKind(entry) # "error"
  BY DEF MCPLoads, Normalizes
<1>4. BindingValid(Binding(spec))
  BY DEF BindingValid, Binding, CompatFor
<1>5. ~TransportBuilds(spec)
  BY <1>1, <1>4
<1>6. CASE ServerKind(entry) = "stdio"
  <2>1. entry.command # ""
    BY <1>6 DEF ServerKind, InferredKind
  <2>2. spec.kind = "stdio" /\ spec.command = entry.command
    BY <1>2, <1>6 DEF ServerSpec
  <2> QED BY <2>1, <2>2, <1>5 DEF TransportBuilds
<1>7. CASE ServerKind(entry) # "stdio"
  <2>1. entry.url # NoURL
    BY <1>3, <1>7 DEF ServerKind, InferredKind
  <2>2. spec.kind # "stdio" /\ spec.headers = entry.headers
    BY <1>2, <1>7 DEF ServerSpec
  <2> QED BY <2>1, <2>2, <1>5 DEF TransportBuilds
<1> QED BY <1>6, <1>7

LEMMA BuildsDecided == OutcomeOK => EveryServerBuilds
BY AdmittedBuilds DEF OutcomeOK, EveryServerBuilds, Assembles

(* An mcp.json that loads builds, unless a command is not found or a header
   cannot be sent, whatever its entries are. *)
THEOREM AdmittedServersBuild == ConfiguredSpec => []EveryServerBuilds
<1> QED BY OutcomeInit, OutcomeStep, BuildsDecided, PTL DEF ConfiguredSpec

-----------------------------------------------------------------------------
(* A new process starts from what a first one starts from, so the invariant of
   one process's session survives a restore. *)
LEMMA ForgetKeeps ==
  ASSUME GatesInv, Forget, UNCHANGED setup, managed' \subseteq Servers
  PROVE  SessionInv'
<1>1. GatesTyped'
  BY DEF Forget, GatesTyped
<1>2. ServersTyped'
  BY DEF Forget, ServersTyped, Statuses
<1>3. BoundBeforeStarted'
  BY DEF Forget, GatesInv, BoundBeforeStarted
<1>4. GatesAttended'
  BY MCPAssumption DEF Forget, GatesAttended
<1>5. StreamFollowsServers'
  BY DEF Forget, StreamFollowsServers
<1>6. NoticesInv'
  BY MCPAssumption DEF Forget, NoticesInv, NewestNoticesKept
<1> QED BY <1>1, <1>2, <1>3, <1>4, <1>5, <1>6 DEF SessionInv, GatesInv

LEMMA ConfiguredSessionInit == ConfiguredInit => SessionInv
BY SessionInit DEF ConfiguredInit

LEMMA ConfiguredSessionStep ==
  SessionInv /\ OutcomeOK /\ [ConfiguredNext]_configuredVars => SessionInv'
<1> SUFFICES ASSUME SessionInv, OutcomeOK, [ConfiguredNext]_configuredVars PROVE SessionInv'
  OBVIOUS
<1>1. CASE Live
  BY <1>1, SessionStep DEF Live
<1>2. CASE Resume
  <2>1. PICK w \in Later(world) : Restore(w) \/ Refuse(w)
    BY <1>2 DEF Resume
  <2>2. CASE Restore(w)
    <3>1. managed' \subseteq Servers
      BY <2>2, WorldsAssumption DEF Restore, Assembles, OutcomeOK
    <3> QED BY <2>2, <3>1, ForgetKeeps DEF Restore, SessionInv
  <2>3. CASE Refuse(w)
    BY <2>3, SessionStep DEF Refuse
  <2> QED BY <2>1, <2>2, <2>3
<1>3. CASE UNCHANGED configuredVars
  BY <1>3, SessionStep DEF configuredVars
<1> QED BY <1>1, <1>2, <1>3 DEF ConfiguredNext

LEMMA ConfiguredSession == ConfiguredSpec => []SessionInv
<1>1. ConfiguredSpec => []OutcomeOK
  BY OutcomeInit, OutcomeStep, PTL DEF ConfiguredSpec
<1> QED
  BY <1>1, ConfiguredSessionInit, ConfiguredSessionStep, PTL DEF ConfiguredSpec

(* Across processes, no gate is left open for a call that returned. *)
THEOREM NoGateOrphaned == ConfiguredSpec => []NoOrphanedGate
<1> QED BY ConfiguredSession, SessionSafe, PTL

(* Across processes, only an interactive session asks, and it asks whenever
   it is asked to. *)
THEOREM HumansAsked == ConfiguredSpec => []OnlyHumansAreAsked
<1> QED BY ConfiguredSession, SessionSafe, PTL

(* Across processes, the stream shows every server's latest status. *)
THEOREM StreamFollows == ConfiguredSpec => []StreamFollowsServers
<1> QED BY ConfiguredSession, SessionSafe, PTL

(* Across processes, the recorder keeps just the newest notices. *)
THEOREM NewestKept == ConfiguredSpec => []NewestNoticesKept
<1> QED BY ConfiguredSession, SessionSafe, PTL

=============================================================================

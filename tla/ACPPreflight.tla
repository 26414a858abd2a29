---------------------------- MODULE ACPPreflight ----------------------------
(***************************************************************************)
(* NewACPComposition (internal/app/acpchildren.go): which ACP harnesses and *)
(* models a session may delegate to.  Quick checks run harness by harness;  *)
(* then one goroutine per harness probes it, and inside it one probes the   *)
(* gateway rows through a short-lived listener while another asks for the   *)
(* native login; explicit native models follow one by one.  The answers are *)
(* joined and the catalog filtered.  The context may end at any time.       *)
(***************************************************************************)
EXTENDS ACPCatalog

CONSTANT Inputs    \* configurations to start from

\* Aliases are ordered as numbers are; there are some rows, or none.
ASSUME PreflightAssumption ==
  \A in \in Inputs :
    /\ in.rows = <<>> \/ DOMAIN in.rows \in (SUBSET Nat) \ {{}}
    /\ \A h \in Harnesses : in.native[h] = None \/ in.native[h] \in SUBSET Nat

VARIABLES
  entries,         \* the compiled catalog
  executable,      \* executable[h]: "none", "not runnable" or "runnable"
  cancelled,       \* the construction context has ended
  at,              \* what the constructing goroutine does
  outcome,         \* outcome[h]: harness h's slot after the quick checks
  profile,         \* profile[h]: the goroutine of preflightACPProfile
  gateway,         \* gateway[h]: preflightACPSharedGateway
  managed,         \* managed[h]: the probe of the native login
  todo,            \* todo[h]: the gateway targets still to be probed
  nativeTodo,      \* nativeTodo[h]: the native aliases still to be probed
  decision,        \* decision[h]: acpPreflightDecision
  listener,        \* listener[h]: the preflight's own ACPGateway is open
  answered,        \* the <<harness, credential, model>> probes that were ready
  result,          \* the filtered catalog
  diagnostics      \* the <<harness, reason>> lines of the composition

vars == <<entries, executable, cancelled, at, outcome, profile, gateway, managed, todo,
          nativeTodo, decision, listener, answered, result, diagnostics>>

env == <<entries, executable>>
probing == <<profile, gateway, managed, todo, nativeTodo, decision, listener, answered>>
merged == <<result, diagnostics>>

GatewayTargets(h) ==
  UNION {Targets(o) : o \in UNION {e.models :
    e \in {f \in entries : f.harness = h /\ f.kind = "gateway"}}}
NativeAliases(h) ==
  UNION {Aliases(e.models) : e \in {f \in entries : f.harness = h /\ f.kind = "explicit"}}
HasManaged(h) == \E e \in entries : e.harness = h /\ e.kind = "managed"

(* The type invariant; a harness's listener is open just while its gateway
   rows are probed (gatewayPreflightBinding, acpchildren.go:600-624). *)
TypeOK ==
  /\ executable \in [Harnesses -> {"none", "not runnable", "runnable"}]
  /\ cancelled \in BOOLEAN
  /\ at \in {"claude-code", "codex", "dispatch", "join", "merge", "done"}
  /\ outcome \in [Harnesses -> {"unseen", "no executable", "not runnable", "queued"}]
  /\ profile \in [Harnesses -> {"idle", "started", "concurrent", "natives", "done"}]
  /\ gateway \in [Harnesses -> {"off", "waiting", "probing", "done"}]
  /\ managed \in [Harnesses -> {"off", "waiting", "done"}]
  /\ \A h \in Harnesses :
       /\ todo[h] \subseteq GatewayTargets(h) /\ decision[h].gateway \subseteq GatewayTargets(h)
       /\ nativeTodo[h] \subseteq NativeAliases(h) /\ decision[h].native \subseteq NativeAliases(h)
       /\ decision[h].gatewayReady \in BOOLEAN /\ decision[h].managed \in BOOLEAN
  /\ listener = [h \in Harnesses |-> gateway[h] = "probing"]
  /\ DOMAIN decision = Harnesses
  /\ diagnostics \subseteq Harnesses \X {"no executable", "not runnable", "preflight failed",
                                         "models not advertised"}

Init ==
  /\ \E in \in Inputs : ValidInput(in) /\ entries = CompileCatalog(in)
  /\ executable \in [Harnesses -> {"none", "not runnable", "runnable"}]
  /\ cancelled = FALSE
  /\ at = "claude-code"
  /\ outcome = [h \in Harnesses |-> "unseen"]
  /\ profile = [h \in Harnesses |-> "idle"]
  /\ gateway = [h \in Harnesses |-> "off"]
  /\ managed = [h \in Harnesses |-> "off"]
  /\ todo = [h \in Harnesses |-> {}]
  /\ nativeTodo = [h \in Harnesses |-> {}]
  /\ decision = [h \in Harnesses |-> NoDecision]
  /\ listener = [h \in Harnesses |-> FALSE]
  /\ answered = {}
  /\ result = {}
  /\ diagnostics = {}

-----------------------------------------------------------------------------
(* The caller's context ends. *)
Cancel ==
  /\ ~cancelled /\ at # "done"
  /\ cancelled' = TRUE
  /\ UNCHANGED <<env, at, outcome, probing, merged>>

(* The quick checks of one harness; once the context has ended the rest of
   the harnesses are not looked at. *)
CheckProfile(h) ==
  /\ at = h
  /\ at' = IF cancelled \/ h = "codex" THEN "dispatch" ELSE "codex"
  /\ outcome' = IF cancelled \/ ~HasProfile(entries, h) THEN outcome
                ELSE [outcome EXCEPT ![h] =
                        IF executable[h] = "none" THEN "no executable"
                        ELSE IF executable[h] = "not runnable" THEN "not runnable"
                        ELSE "queued"]
  /\ UNCHANGED <<env, cancelled, probing, merged>>

Dispatch ==
  /\ at = "dispatch"
  /\ LET jobs == {h \in Harnesses : outcome[h] = "queued"} IN
       IF jobs # {} /\ ~cancelled
       THEN /\ at' = "join"
            /\ profile' = [h \in Harnesses |-> IF h \in jobs THEN "started" ELSE "idle"]
       ELSE at' = "merge" /\ UNCHANGED profile
  /\ UNCHANGED <<env, cancelled, outcome, gateway, managed, todo, nativeTodo, decision,
                 listener, answered, merged>>

-----------------------------------------------------------------------------
(* preflightACPProfile starts what the catalog has of its harness. *)
StartProfile(h) ==
  /\ profile[h] = "started"
  /\ \/ cancelled /\ profile' = [profile EXCEPT ![h] = "done"] /\ UNCHANGED <<gateway, managed>>
     \/ /\ ~cancelled
        /\ profile' = [profile EXCEPT ![h] = "concurrent"]
        /\ gateway' = [gateway EXCEPT ![h] = IF GatewayTargets(h) = {} THEN "off" ELSE "waiting"]
        /\ managed' = [managed EXCEPT ![h] = IF HasManaged(h) THEN "waiting" ELSE "off"]
  /\ UNCHANGED <<env, cancelled, at, outcome, todo, nativeTodo, decision, listener, answered,
                 merged>>

(* gatewayPreflightBinding: a listener of the preflight's own, or no probe. *)
OpenListener(h) ==
  /\ gateway[h] = "waiting"
  /\ \/ gateway' = [gateway EXCEPT ![h] = "done"] /\ UNCHANGED <<todo, listener>>
     \/ /\ ~cancelled
        /\ gateway' = [gateway EXCEPT ![h] = "probing"]
        /\ listener' = [listener EXCEPT ![h] = TRUE]
        /\ todo' = [todo EXCEPT ![h] = GatewayTargets(h)]
  /\ UNCHANGED <<env, cancelled, at, outcome, profile, managed, nativeTodo, decision,
                 answered, merged>>

(* Seeded fault of EndGateway: the listener is left open. *)
EndGatewayUnreleased(h) ==
  /\ gateway' = [gateway EXCEPT ![h] = "done"]
  /\ UNCHANGED listener

(* preflightACPSharedGateway returns, and its deferred release runs. *)
EndGateway(h) ==
  /\ gateway' = [gateway EXCEPT ![h] = "done"]
  /\ listener' = [listener EXCEPT ![h] = FALSE]

(* What an adapter answers: an ended context makes every probe not ready. *)
Answers == IF cancelled THEN {FALSE} ELSE BOOLEAN

(* Seeded fault of Accepted: what the adapter advertises is not consulted. *)
AcceptedUnadvertised(targets, advertised) == targets

(* The targets of the one Claude session that it also advertised. *)
Accepted(targets, advertised) == targets \cap advertised

(* One session tells what Claude's adapter advertises. *)
ProbeClaudeGateway(h) ==
  /\ h = "claude-code" /\ gateway[h] = "probing"
  /\ \E ready \in Answers, advertised \in SUBSET todo[h] :
       LET accepted == IF ready THEN Accepted(todo[h], advertised) ELSE {} IN
       /\ answered' = answered \cup {<<h, "gateway", t>> : t \in IF ready THEN advertised ELSE {}}
       /\ decision' = [decision EXCEPT ![h].gateway = accepted,
                                       ![h].gatewayReady = accepted # {}]
       /\ EndGateway(h)
  /\ UNCHANGED <<env, cancelled, at, outcome, profile, managed, todo, nativeTodo, merged>>

(* Codex is launched once per target; an ended context fails them all. *)
ProbeCodexGateway(h) ==
  /\ h = "codex" /\ gateway[h] = "probing"
  /\ \/ /\ todo[h] = {}
        /\ decision' = [decision EXCEPT ![h].gatewayReady = decision[h].gateway # {}]
        /\ EndGateway(h)
        /\ UNCHANGED <<todo, answered>>
     \/ /\ todo[h] # {} /\ cancelled
        /\ EndGateway(h)
        /\ UNCHANGED <<decision, todo, answered>>
     \/ /\ todo[h] # {} /\ ~cancelled
        /\ \E t \in todo[h], ready \in Answers :
             /\ todo' = [todo EXCEPT ![h] = @ \ {t}]
             /\ IF ready
                THEN /\ decision' = [decision EXCEPT ![h].gateway = @ \cup {t}]
                     /\ answered' = answered \cup {<<h, "gateway", t>>}
                ELSE UNCHANGED <<decision, answered>>
        /\ UNCHANGED <<gateway, listener>>
  /\ UNCHANGED <<env, cancelled, at, outcome, profile, managed, nativeTodo, merged>>

(* The native login of a harness that manages its own models. *)
ProbeManaged(h) ==
  /\ managed[h] = "waiting"
  /\ managed' = [managed EXCEPT ![h] = "done"]
  /\ \E ready \in Answers :
       /\ decision' = [decision EXCEPT ![h].managed = ready]
       /\ answered' = answered \cup IF ready THEN {<<h, "native", None>>} ELSE {}
  /\ UNCHANGED <<env, cancelled, at, outcome, profile, gateway, todo, nativeTodo, listener,
                 merged>>

ProbesEnded(h) == gateway[h] \in {"off", "done"} /\ managed[h] \in {"off", "done"}

(* Seeded faults of JoinProfile: the native login is not waited for; a harness
   whose gateway was not ready is never joined. *)
JoinProfileEarly(h) ==
  /\ profile[h] = "concurrent" /\ gateway[h] \in {"off", "done"}
  /\ profile' = [profile EXCEPT ![h] = "done"]
  /\ UNCHANGED <<env, cancelled, at, outcome, gateway, managed, todo, nativeTodo, decision,
                 listener, answered, merged>>
JoinProfileWhenReady(h) ==
  /\ profile[h] = "concurrent" /\ ProbesEnded(h)
  /\ gateway[h] = "off" \/ decision[h].gatewayReady
  /\ profile' = [profile EXCEPT ![h] = "done"]
  /\ UNCHANGED <<env, cancelled, at, outcome, gateway, managed, todo, nativeTodo, decision,
                 listener, answered, merged>>

(* Both probes are joined; explicit native models follow, unless the context
   has ended. *)
JoinProfile(h) ==
  /\ profile[h] = "concurrent" /\ ProbesEnded(h)
  /\ IF NativeAliases(h) # {} /\ ~cancelled
     THEN /\ profile' = [profile EXCEPT ![h] = "natives"]
          /\ nativeTodo' = [nativeTodo EXCEPT ![h] = NativeAliases(h)]
     ELSE profile' = [profile EXCEPT ![h] = "done"] /\ UNCHANGED nativeTodo
  /\ UNCHANGED <<env, cancelled, at, outcome, gateway, managed, todo, decision, listener,
                 answered, merged>>

(* preflightNativeModels, one alias after the other. *)
ProbeNative(h) ==
  /\ profile[h] = "natives"
  /\ IF nativeTodo[h] = {} \/ cancelled
     THEN /\ profile' = [profile EXCEPT ![h] = "done"]
          /\ UNCHANGED <<nativeTodo, decision, answered>>
     ELSE /\ \E a \in nativeTodo[h], ready \in Answers :
               /\ nativeTodo' = [nativeTodo EXCEPT ![h] = @ \ {a}]
               /\ IF ready
                  THEN /\ decision' = [decision EXCEPT ![h].native = @ \cup {a}]
                       /\ answered' = answered \cup {<<h, "native", a>>}
                  ELSE UNCHANGED <<decision, answered>>
          /\ UNCHANGED profile
  /\ UNCHANGED <<env, cancelled, at, outcome, gateway, managed, todo, listener, merged>>

-----------------------------------------------------------------------------
Join ==
  /\ at = "join"
  /\ \A h \in Harnesses : profile[h] \in {"idle", "done"}
  /\ at' = "merge"
  /\ UNCHANGED <<env, cancelled, outcome, probing, merged>>

Unusable == {h \in Harnesses : outcome[h] = "queued" /\ ~Usable(decision[h])}

(* The slots are read in profile order, the catalog is filtered with the
   decisions of the usable harnesses, and the registry gets the profiles left. *)
Merge ==
  /\ at = "merge"
  /\ at' = "done"
  /\ result' = FilterCatalog(entries,
                 [h \in Harnesses |-> IF h \in Unusable THEN NoDecision ELSE decision[h]])
  /\ diagnostics' =
       {<<h, outcome[h]>> : h \in {k \in Harnesses : outcome[k] \notin {"unseen", "queued"}}}
       \cup {<<h, "preflight failed">> : h \in Unusable}
       \cup {<<h, "models not advertised">> : h \in ReducedModels(entries, result')}
  /\ UNCHANGED <<env, cancelled, outcome, probing>>

Done == at = "done" /\ UNCHANGED vars

Work(h) ==
  \/ StartProfile(h)
  \/ OpenListener(h)
  \/ ProbeClaudeGateway(h)
  \/ ProbeCodexGateway(h)
  \/ ProbeManaged(h)
  \/ JoinProfile(h)
  \/ ProbeNative(h)

Main == (\E h \in Harnesses : CheckProfile(h)) \/ Dispatch \/ Join \/ Merge

Next == Cancel \/ Main \/ (\E h \in Harnesses : Work(h)) \/ Done

Spec == Init /\ [][Next]_vars

(* Every goroutine runs on, and every probe answers: each is bounded by
   acpNativeProbeTimeout.  Nothing makes the context end. *)
Fairness ==
  /\ WF_vars(Main)
  /\ \A h \in Harnesses :
       /\ WF_vars(StartProfile(h)) /\ WF_vars(OpenListener(h))
       /\ WF_vars(ProbeClaudeGateway(h)) /\ WF_vars(ProbeCodexGateway(h))
       /\ WF_vars(ProbeManaged(h)) /\ WF_vars(JoinProfile(h)) /\ WF_vars(ProbeNative(h))

FairSpec == Spec /\ Fairness

-----------------------------------------------------------------------------
(* A child can only be given what a probe under the same credential answered
   for: a gateway row is never admitted by a native login, nor a login by a
   gateway (ACPChildrenConfig.executablePreflight, acpchildren.go:60-63).  And
   what is left of an entry still works: its default model, Claude's small
   model and the default effort of each model are among what survived. *)
OnlyAnsweredSurvive ==
  at = "done" =>
    \A e \in result :
      /\ e.kind = "gateway" =>
           \A o \in e.models : \A t \in Targets(o) : <<e.harness, "gateway", t>> \in answered
      /\ e.kind = "explicit" =>
           \A a \in Aliases(e.models) : <<e.harness, "native", a>> \in answered
      /\ e.kind = "managed" => <<e.harness, "native", None>> \in answered
      /\ e.kind # "managed" => e.model \in Aliases(e.models)
      /\ e.small # None => e.small \in Aliases(e.models)
      /\ \A o \in e.models : o.effort \in o.efforts

(* However much the preflight took away, each role that is left has exactly
   one default: the configured ACP entry if that survived, the in-process row
   otherwise (retainRuntimeEntriesWithConfiguredDefault, acpchildren.go:755). *)
OneDefaultPerRole ==
  at = "done" =>
    \A r \in {e.role : e \in result} :
      \E d \in result :
        /\ {e \in result : e.role = r /\ e.default} = {d}
        /\ d.kind = "ordinary" \/
             \E e \in entries : e.default /\ e.role = r /\ <<e.harness, e.kind>> = <<d.harness, d.kind>>

(* The probes are over when the composition reads their answers, and the
   preflight's listeners are closed: no goroutine writes a slot later. *)
NothingRunsOn ==
  at \in {"merge", "done"} =>
    \A h \in Harnesses :
      /\ profile[h] \in {"idle", "done"}
      /\ ProbesEnded(h)
      /\ ~listener[h]

(* The composition returns, whatever the adapters answer and whenever the
   context ends. *)
PreflightReturns == <>(at = "done")

(* "A harness with zero surviving models already produced a preflight-failed
   or no-executable diagnostic above" (acpchildren.go:263-265), the context not
   having ended.  A usable harness may lose every entry in the filter. *)
EveryLossIsReported ==
  at = "done" /\ ~cancelled =>
    \A h \in Harnesses :
      ModelCount(entries, h) > 0 /\ ModelCount(result, h) = 0 =>
        \E d \in diagnostics : d[1] = h

=============================================================================

# A TLA+ model of CodeRig

CodeRig (`internal/app`, `cmd/coderig`) is a coding agent. It assembles three role loops
(planner, builder, reviewer), sandboxed tool processes, MCP servers, delegate children over
ACP, a classifier that reviews permission requests, and a persistent session store, around
libraries that run them (`harness`, `sandbox`, `mcp`, `acp`, `tui`). The code here is mostly
composition: what is opened in which order, who owns it, what happens when a step fails, and
what concurrent callers see. That is what the modules below model. Paths are relative to the
repository; `x.go` without a directory is `internal/app/x.go`.

Contents: [inventory](#inventory), [modules](#modules-and-the-code), [runs](#runs),
[fairness](#fairness), [findings](#where-code-and-text-disagree), [proofs](#proofs),
[assumptions](#assumptions-about-code-that-is-not-here),
[not modelled](#what-is-not-modelled), [plan](#plan).

## Inventory

| Component | State | Operations | How it interacts; what is hard | What makes it correct |
|---|---|---|---|---|
| **Process adapter** `process_adapter.go` | the most severe signal so far (one atomic), the translated activity stream, the released flag | Start, Close, Wait, Signal, the pump goroutine | wraps a sandbox process for the tool supervisor; Signal and Wait calls race each other, the pump and the death of the process; the consumer may stall | a result only after the whole stream; a death is blamed on a signal that was accepted, on the worst one, and never more mildly by a later call; every call returns |
| **Session assembly, agent lifecycle** `swarm.go`, `toolsets.go`, `runtime_controls.go` | what a half-built session holds: three executor sets, MCP manager, adopter, session with its root lease | openRuntimeAgent, New (headless), RuntimeAgent.Close | a dozen steps that can each fail; cleanup must go in the right order whatever fails | nothing leaks on any way out, consumers stop before what they use, the first error of Close survives |
| **Session store and browser** `persistence.go`, `session_browser.go` | the lazily opened backend under `storeMu`, `closed`, the current session under a second mutex | Open, List, Close, ListSessions | Open holds `storeMu` through a whole assembly; the current session is recorded and read outside it | one backend at most, a session in use since the catalog was read is not offered for resumption, no call waits for ever |
| **ACP catalog** `acpcatalog.go`, `runtimecatalog.go` | none: functions from configuration to catalog entries | CompileACPCatalog, CompileAgentRuntimeCatalog, filtering, repair of defaults | filtering may take the configured default of a role away | one default per role, entries that are whole |
| **ACP preflight** `acpchildren.go`, `acpproduction.go` | one decision per harness, the probes' listener | quick checks, concurrent probes, join, merge, diagnostics | two probes of one harness write one decision; the construction context may end at any point | only what a probe answered survives; nothing runs on; the diagnostics tell what happened; it returns |
| **ACP children and gateways** `acpchildren.go`, `acpgateway.go` | bound runtimes, running backends, a private gateway per child | resolve, build, watch, restore | a child is restored by another process with another catalog; a gateway must not outlive its child | a child runs what it was bound to or not at all; no stray gateway; its end is announced |
| **MCP composition** `mcp.go`, `swarm.go` | late-bound gate opener and event publisher, a bounded notice backlog | attach (bind, start, adopt), OpenGate, PublishEvent, Report, close | the manager exists before the session; servers elicit, change status and report while it is being bound or shut down | no orphaned gate, headless sessions never ask, the stream follows the servers, the newest notices are kept |
| **Permission review** `permission_review*.go` | the observations of one review: the files a classifier looked at, with their stamps | registration, containment check, reading, assessment, recheck, claim of the gate | the workspace changes under the review; paths go through links; a human may answer first | an approval rests on files that are inside the workspace and unchanged; no profile grants more than it should |
| **Access and permissions** `access.go`, `permissions.go`, `egress.go`, `toolsets.go` | fixed profiles; workspace permission rules | read-only restriction, role profiles, choice of permission store, egress route, access digest | rules approved in one session are read in every later one; the proxy is named by any of six variables, read again by each process | the reviewer and planner never exceed read-only access; interactive rules do not reach further than the profile; no proxy is bypassed; no resumption changes what a role may do |
| **Runtime controls** `runtime_controls.go` | the candidates and efforts a session was opened with | LoopRuntimeOptions, SetModel, SetEffort, SetMode | read, decide, change, with nothing ordering two calls | what is offered is accepted; the loop runs efforts its model admits |
| **Model configuration** `modelconfig*.go`, `productionmodels.go`, `runtimeclient.go`, `inference_policy.go`, `compaction.go`, `models.go`, `model.go`, `confighygiene.go`, `jsonstrict.go` | none: functions of one file, read again by each process | decode, normalise, compile, digest, route a request | the file may be edited between the process that opens a session and the one that resumes it; requests name a target and not an alias; two validators in different files must agree | a resumed session has the choices it was opened with; each alias is served with its own key; what loads compiles; every transport a loop ran on is declared |
| **MCP configuration** `mcpconfig.go`, `mcp.go` | none: functions of one file, read again by each process | decode, infer kinds, validate, build bindings, revision | the file may be edited between two processes of a session; entries are validated here and again by the library | a resumed session sees the servers it was opened with; what loads builds |
| **Command line** `cmd/coderig/main.go` | whether a session was opened before | flags, the open thunk, `--list`, store teardown | the first open resumes and later ones do not; a listing of the picker may run on while the process leaves | the store is closed after the last session, a session is opened again only if the picker offered it, exit code 0 means that everything went well, the process exits |
| **Prompts, skills, runtime context, identities** `agents.go`, `skills*.go`, `runtime_context.go`, `text.go`, `home.go`, `errors.go`, `internal/catalog/*` | none | text assembly, one-shot reads of the environment | no state and no order to get wrong | not modelled |

The hazards of each component, with the line where they bite and the property that watches
them, are the `hazards` of `PROJECT.json`.

## Modules and the code

| Module | Models | State and actions |
|---|---|---|
| `ActivityStream` | what the adapter promises its consumer | abstract: activities are reported, received in order, the stream is closed once, a Wait returns after that |
| `ProcessAdapter` | `process_adapter.go` | `blame` is the atomic `maxSignal`; each Wait and Signal call has a program counter with one value per point where another goroutine can come in (the sandbox call, the load, the compare-and-swap, the drain; a Wait classifies in one step and returns in a later one); `earlier[w]` are the Waits that had returned when `w` was called; `Pump` is the goroutine; the source and the translated channel are sequences |
| `SessionAssembly` | `openRuntimeAgent`, `newWithClientUsingStores`, `RuntimeAgent.Close` | `pc[c]` is the next step of call `c`, `held[c]` what it must give back; each step is an action with a success and a failure. Each place that can fail has the cleanup the code has there, a list of its own (`AfterBuilder`, `AfterReviewer`, `CloseAccess`, `FailClosure`, `AttachCleanup`; `CloseOrder` for an agent's Close), and `CloseNext` goes through `todo[c]`, what is left of it, whatever else is open; a Close may fail and leave its resource |
| `SessionStore` | `SessionStoreFactory`, `sessionBrowser` | extends `SessionAssembly`: each Open runs an assembly while it holds `storeMu`; listings, Closes and the agents' own Closes interleave with it; the picker's call reads the current session (`ReadCurrent`) and returns the filtered list (`ReturnList`) in steps of their own |
| `CommandLine` | `cmd/coderig/main.go` | extends `SessionStore`: `stage` is where `run` is, `next` whom the runtime has asked to open next; `OpenThunk` and `ResumeSession` are the two ways to Open, `Clear`, `Browse`, `Choose` and `Quit` what the person does, `EndTeardown` the deferred close and its error |
| `ACPCatalog` | compile, filter, repair | operators on sets of entries; an alias is a number because the code sorts aliases and takes the first |
| `ACPPreflight` | `NewACPComposition` up to the diagnostics | extends `ACPCatalog`; one goroutine per harness, two probes inside it, a listener, the context; `decisions[h]` is the slot the probes write |
| `ACPChildren` | the builders, gateways, watchers and restoration | extends `ACPCatalog`; a child is bound, resolved against the catalog of the process of the day, given a gateway, built, watched; `Restart` is a new process with another catalog |
| `MCPComposition` | `mcpSessionAssembly`, `mcpGateOpener`, `mcpEventPublisher`, `mcpNoticeRecorder` | the steps of attach and close, `NoManager` where no server is configured; each OpenGate call has a program counter; servers, human and session host are the environment |
| `MCPConfig` | `mcpconfig.go`, `mcpDefinitions` and the bindings of `mcp.go` | operators on a file, which is malformed, absent or a function from names to entries; `MCPLoads` is what a process accepts, `MCPBuilds` what the library does, `MCPConfigRev` what the fingerprint takes from it |
| `Egress` | `egress.go` | operators on an environment of six variables; `Route` is `resolveEgressRoute` with its refusals |
| `ConfiguredMCP` | `openRuntimeAgent` from its reading of profile, environment and `mcp.json` to the restore under a fingerprint | extends `MCPComposition`, `MCPConfig`, `Egress`, `Access`: a session starts in any world that can be assembled and lives as in `MCPComposition`; `Resume` is a later process in an edited world, which restores it, is refused or fails |
| `Workspace` | the file system and `os.Root` (external) | a tree of directories, files and relative links; `Walk` follows a path, for the twelve steps that its names and links can take at most |
| `Access` | `access.go`, the gate routing of `toolsets.go` | profiles as records; restriction; what a role's gate does with a requirement |
| `PermissionReview` | `permission_review.go`, `..._evidence.go`, `..._observation.go` | extends `Access` and `Workspace`; one tool call at a time from its gate to the answer; observation, recheck and claim are separate steps, with changes of the workspace between any two |
| `RuntimeControls` | `runtime_controls.go`, the modes of `swarm.go` | `Decide` is the part of a setter up to `controller.Change`, `Change` the controller's own step |
| `ModelConfig` | `modelconfig_normalize.go`, `modelconfig_digest.go`, `productionmodels.go`, `runtimeclient.go`, `inference_policy.go` | operators on a file, which is a record of rows, a default per role and native profiles; `Loads` is what a process accepts, `Digest` the material of the hash, `Clients` the routing table; takes what the catalog accepts from `ACPCatalog` |
| `ConfiguredControls` | `SessionStoreFactory.Open` over the two above | extends `RuntimeControls`: the session starts from any file that loads, `Resume` is a later process with an edited one, `used` are the targets its loops have run on |

The `MC*` modules give the constants their values for TLC; `*Proofs` hold the proofs. In a
module a definition called "seeded fault" is a plausible mistake in the definition below it;
replacing the one by the other must break a property, and `PROJECT.json` says which
("mutants"). None of them is part of a specification.

Two abstractions recur. Errors are one value per place they come from, since callers only
tell error from no error. Where another goroutine or process can come in between two parts of an
operation and a property could tell, the model makes them two steps: before and after each call
that may block, each lock, each access to an atomic. Three sequences of system calls are one step
each: the walk of a containment check, the three calls of a `Fingerprint`
(`permission_review_observation.go:225-247`), and the reading of the files and the environment at the
start of a session.

## Runs

All runs finish within three minutes on two workers. Safety and liveness of one module are
separate runs where the liveness graph would be too large or where symmetry, which TLC must
not use for liveness, pays.

| Run | Bounds | What it shows, and why the bounds are enough |
|---|---|---|
| `process_adapter` | 2 Waits, 2 Signals, 2 activities, channel of 1, one exit code | Two calls of each kind are what every race in the file needs; two activities and a channel of one give a full, a half-drained and an empty stream. Callers are symmetric. Checks the blame, the stream and the implementation of `ActivityStream` |
| `process_live` | 1 Wait, 2 Signals, 1 activity | Two Signals are needed for a lost compare-and-swap to repeat |
| `session_assembly` | 1 persisted call, 2 headless; the Closes of the session and of the builder's set may fail | Two headless calls share the memoised store and compete for the one workspace; the persisted call has every step, with and without an MCP server. The two Closes that may fail (`Stubborn`) are the one that keeps a lease and one in the middle of a joined Close; the proofs take any |
| `session_store` | 2 Opens, 1 listing, 1 Close, 2 sessions | Every pair of operations, and a triple with the two Opens, meet; an Open may resume the session of the other, or name one that is not there. That earlier processes left nothing is a bound: `command_line` has an older session. Only the session's Close may fail, since no other outcome of a Close concerns the store |
| `command_line` | 2 Opens, 1 listing, 1 Close, 3 sessions, one of them older | Every invocation; the first open and one more, by `/clear` or from the picker, whose listing may run beside everything up to the exit. The third session is there for a new one to differ from both. The agents' sessions may fail to close; that each has an MCP server (`Serving`) and that no other Close fails are bounds, which `session_assembly` has not |
| `acp_preflight`, `acp_losses` | 2 roles, 2 harnesses, 5 configurations | The configurations differ in where models come from (gateway, native list, harness-managed, both) and in where the defaults point; every set of probe answers and the end of the context at every step are enumerated |
| `acp_children` | 2 children, 1 restart, 6 catalogs | Each of three configurations as a full and as a poor preflight leaves it, before and after the restart in any combination |
| `mcp` | 2 servers, 1 elicitation, 3 notices, backlog 2, two families of worlds | One family edits one field of an entry at a time, of each transport, to every value the validators or the digest tell apart (and to another path or program, which the digest need not), adds a second server, drops the file or breaks it; the other crosses two of the four proxy variables and both NO_PROXY variables, and has each profile. A later process finds any world of the family of the earlier one. All eight kinds of session (interactive, gate host, publisher) where two servers run, the usual one elsewhere. Elicitations do not touch each other's state; three notices overflow a backlog of two |
| `mcp_opens` | 1 server, no elicitation, no notice | `MCPComposition` by itself: the shortest session shows it |
| `permission_review` | 2 sessions, 1 change of the workspace, 2 files | The rules of the first session reach the second; one change at any point is what a stale observation needs, and the files are reached through a directory that may be a file, missing, or a link to a directory within, to one outside or to nothing, and by names that may be links, to each other, in a loop, to a file outside or to nothing |
| `controls` | 3 targets, 3 efforts, 2 callers, 1 resumption, three families of files | One family varies the efforts and defaults of two aliases, one the uses, targets and keys of three, one the delegate defaults, native profiles, small model and reviewer; each crosses what the validators decide on in every way, and most files do not load. An edit changes one row, all keys or the reviewer. Two callers are what an overlap needs. An agent without a file (`Bare`) starts there too |

Deadlock is checked except where the modelled system may stop for good: `acp_children` (no
child left to run and no restart left), `permission_review` (no session left). Elsewhere a `Done` action loops in the final states.

In `mcp` a later process resumes a session whose last process has ended in order. One that was
killed leaves just as little: manager, opener, publisher and recorder are memory (`Forget`). A
process that was refused, or could not assemble, has not touched the session, so the history ends
there; resuming from the state it leaves is what the other disjuncts of the same step do.

The bounds `MaxActivities`, `MaxReports`, `MaxSessions`, `MaxChanges` and `MaxRestarts` cap what
the environment does and appear in guards only; nothing in the code has them. `SourceCap` and
`Backlog` are the code's own, at a smaller value.

## Fairness

Fairness is assumed of what the Go scheduler and the called libraries run on by themselves, and
never of a user, a model, a network peer or the end of a context.

* `ProcessAdapter`: `FairSpec` is weak fairness of the pump, of each started call and of the
  sandbox closing its channel after the death of the process. `DrainedSpec` adds that the
  supervisor goes on receiving activities. `CallsReturn` needs this: the drain in Wait does not
  look at the context (see the observations).
* `CommandLine`: weak fairness of each goroutine (an Open, a listing, the main one with the
  teardown) and of the runtime's return once it was asked to leave. The person need not ask for
  anything, and so no agent need ever be closed: an Open or a listing that waited for one would
  be found.
* `ACPPreflight`: each goroutine runs on, each probe answers, because it is bounded by
  `acpNativeProbeTimeout`. The context need not end.
* `ACPChildren`: builders and watchers run on; no child is made to end.
* `MCPComposition`, `ConfiguredMCP`: each OpenGate call runs on; the human need not answer, the
  session need not end, nor need anyone resume it.

## Where code and text disagree

Two runs are expected to end in a violation; each checks one sentence of the repository.

* `acp_losses`: a harness that is usable by one answer but loses every model in the filter is
  not reported, although the doc of `acpDiagnosticsReducedModels` (`acpchildren.go:263-265`)
  says that a harness without models has been.
* `mcp_opens`: `attach` calls `BindSession` before it binds the event publisher, which then
  drops the statuses; the doc of `mcpEventPublisher` (`mcp.go:369-372`) says that this is how
  the stream "opens knowing the truth about every server".

Observations made while modelling that no run is spent on:

* `process_adapter.go:323`: Wait waits for the drain whatever its context says; the comment at
  218-220 reads as if the context bounded it. The model has the drain as in the code.
* `New` (headless) never loads `mcp.json`; the comment at `swarm.go:521-531` describes one path
  for both. `SessionAssembly` has no MCP step in a headless call.
* `persistence.go:430` calls the factory "Read-only after construction" while `fs`, `stores`,
  `closed` and `currentSession` change under its mutexes, as the model has it.
* A SetModel that overlaps a SetEffort can leave the loop at an effort that its new model does
  not admit, which `docs/plans/2026-08-04-primer-model-picker-design.md:92-94` excludes.
  `SequenceKeepsEffortAdmitted` is what holds: calls that do not overlap never do this.
* `docs/plans/2026-08-05-coderig-mcp-and-permission-review-design.md:214-216` counts a changed URL as a
  mismatch, and a session is resumed although the path of one was edited: the digest of a binding
  takes the origin of its URL and neither path nor query, as `mcp_fingerprint_test.go:86-90` says. The
  run `mcp` has the case; give it the invariant
  `outcome = "opened" => Authority(world) = opened.authority` and TLC shows it in five states, an
  `http` server at `/mcp` in the one process and at `/v2` in the next. What the library's identity
  keeps of a local server's program is not stated here: the model takes any (`ProgramIdentity`), the
  run the one that keeps nothing. `AuthorityDecidesResume` states what is compared and what is not.
* `permission_review_evidence.go:237-239` calls the components that `canonicalizeWithinRoot` reattaches
  "by definition non-existent, so symlink-free". A link that leads to nothing does not resolve either,
  and is reattached by name, wherever it points; `ContainmentIsExact` counts it as what it resolves
  to, a missing name in a directory within, and says so.
* One entry of `mcp.json` whose command is not installed fails every session on the machine, new
  and resumed (`EveryServerBuilds` names this as one of the two ways to fail late).
* `Restart` in `ACPChildren` brings any of the catalogs, whereas production refuses a session
  whose configuration has another digest: the properties hold without that.
* Nothing in `openSessionWithDefinitions` (`swarm.go:595`) shuts a session down whose adapter
  cannot be built; see the assumptions.

## Proofs

TLAPS checks fifty-two theorems in eight modules, for every value of the constants that the named
assumptions allow. Each safety property of a passing run is one of them.

**`ProcessAdapterProofs`** (assumes `AdapterAssumption`: exit codes are integers other than
the -1 of a death by signal, the channel has room, the bound on activities is a number; any
number of callers).
* `TypeCorrect`: the type invariant, which is inductive.
* `StreamCorrect`: no Wait returns before everything was delivered. The invariant `StreamInv`
  says where every activity is: what was delivered, followed by what the pump holds, followed by
  the translation of what is in the channel, is the translation of all that was emitted; and at
  which points of the pump and of the calls the channel is closed and empty. The property alone
  says nothing of a Wait that has not returned, so it is not inductive.
* `BlameCorrect`, `NeverSofter`, `SignalsCounted`: `BlameInv` relates the atomic to the calls that were
  accepted: it is at least the severity of each call that has recorded it and is the severity of
  some accepted call (`CallsInv`), what a Wait has classified is a value the atomic had, and a Wait
  that was made after another had returned has loaded no less than it (`ResultsInv`). Waits that
  overlap are not ordered: the one that loads first may return last. The two halves are proved apart
  and joined by `BlameInvSplit`.
* `AdapterImplementsStream`: under the mapping in `ProcessAdapter` each initial state is one of
  `ActivityStream` and each step a step of it or a stutter; it uses `TypeOK` and `StreamInv`.

**`SessionStoreProofs`**, first about `SessionAssembly` (assumes `AssemblyAssumption`: a call is
persisted or headless, only resources are stubborn, `None` is neither a call nor a resource; any
Close may fail). `IInv` says what a call holds at each of its steps (`BuildsSets`, `BuildsSession`), that
what is being given back goes in order (`GivesBack`: whoever consumes goes first), that what a
cleanup has yet to close is the end of one of the code's cleanups, and has in it all that is still
open (`CleansUp`), and that the root lease of a backend is with the one session over it that was not
closed, or could not be (`LeaseInv`).
* `NoLeaks`: each place that fails leaves with a list of its own, so the step into the cleanup is where a
  forgotten resource would show: what the call holds there (`BuildsSets`, `BuildsSession`) must be in
  the list it names (`CleanupHolds`, `FailKeeps`). From there `PlanStep` takes each list one resource
  further. `NothingLeaks` and `ConsumersStopFirst` speak of a few steps only and are not inductive
  without the others.
* `FirstFault` needs `ReportInv` besides: in an agent's Close whatever failed precedes, in
  `CloseOrder`, whatever is still to be closed.

On top of that about `SessionStore` (assumes `StoreAssumption`: no headless calls, the three kinds
of calls are different, what earlier processes left are session ids). Any number of Opens, listings
and Closes, over any sessions of earlier processes.
* `StoreRunsAssemblies`: `StoreSpec` implements the assembly's `Spec` on the same variables; sharing
  one lock and one backend adds nothing to what a session does. So `NoLeaks`, `ConsumersFirst` and
  `FirstFault` hold of the store's sessions.
* `BackendOwned`: `StoreInv` says at which steps a call holds `storeMu`, hence that at most one call
  is between opening the backend and opening the stores over it, and that the factory is then not
  closed.
* `CurrentIsLive`: the current session is recorded after `storeMu` is released. `LiveInv` relates how
  far an Open is to how far its assembly is, and `IInv` gives that two calls never both have an open
  session (`OneSession`, from the root lease); every step of the factory is one of the assemblies or
  none (`StoreRunsAssembly`).
* `LiveIsHidden`: a listing reads the catalog, the current session and returns at three different
  times. `HiddenInv` says of the agents in use when `List` had returned that they stay agents, and that
  one still in use when the list is filtered has the session that was read (by `CurrentIsLive`, at the
  time of the reading). An Open that settles between the reading and the return may be offered
  once more; the property does not say otherwise.

**`CommandLineProofs`** (assumes `CommandLineAssumption`: one Close, session ids are no words of the
model). Any number of Opens and sessions, and a person who asks for anything.
* `ProcessRunsStore`: the process implements `StoreSpec` and through it the assembly, so whatever is
  proved of these holds in it. A step of `OpenThunk` or `ResumeSession` is the store's `CallOpen`
  because `OfferInv` says that what it resumes is a session id; all others are steps of the store or
  leave it alone (`CliRunsStore`).
* `StoreIsLast`, `ExitZeroIsEarned`: `RunInv` says that outside the stage `runtime` no Open is in
  flight and no agent open, and that a closed factory belongs to an exited process.
* `OnlyWhatWasOffered`: `OfferInv` says that Opens come one at a time and that one in flight gets a
  new id, one the picker offered, or is the first to get any.

**`ConfiguredControlsProofs`**, first about `RuntimeControls` (assumes `ControlsAssumption`: the
primer and the two ends of the effort scale are a model and efforts). `IInv` adds to the type
invariant that, as long as no two calls have overlapped, a pending change fits the state it will be
applied to; `SequenceSafe`, `OffersHonoured` and `ControlsTyped` follow for one process.

Then about `ConfiguredControls`, for any `models.json` and any edits of it. `ConfiguredInv` is `IInv`
and two facts about a session with a file: the process is configured as the file says
(`Configuration`), and what the loops run on, have run on or have chosen is among the targets of its
candidates and delegates (`RunsOnOffered`; without it nothing is known of `used` once the file is
edited).
* `SameDigestSameControls` is what lets a later process in: two files that load and have one digest
  compile to the same roster, efforts and defaults. Rows of the two files with one alias differ in
  their keys at most (`TwinRow`), an alias names one row (`UniqueAliases`) and a target one candidate
  (`DistinctCandidates`). With it `Resume` keeps `ConfiguredInv` (`ResumeKeeps`), and
  `ResumedSequenceSafe`, `ResumedOffersHonoured` and `ConfiguredTyped` carry over.
* `LoadedFilesWork`: the first alias of a target has the key of every alias of it
  (`ServedWithItsKey`), and what the normaliser accepts of defaults, small model and native profiles
  the catalog accepts too (`CatalogAccepts`), two validators in two files. `Min` of a set of aliases is
  a member of it because the naturals are well-founded (`LeastIsMember`).
* `TransportsAreDeclared` is `RunsOnOffered` read through `DeclaredTransports`.

Three theorems join the ACP modules: what loads is an input `PreflightAssumption` admits
(`LoadedFilesFeedThePreflight`), what a preflight leaves is a `WorkingCatalog`
(`ChildrenCanBeBuilt`), and `ChildrenAssumption` asks just that of the catalogs.

**`ACPPreflightProofs`** (assumes `PreflightAssumption`: aliases are numbers, a section without rows
is empty). Any inputs, and any interleaving of goroutines, probes and context.
* Of the data: an entry of a compiled catalog is one of four kinds (`CompiledFrom`) and is decided
  by role, harness and kind (`CompiledIs`), which gives `GoodCatalog`. The filter takes each entry to
  at most one (`FromOne`) and clears no other default, so after the repair a role has one default
  (`FilterOneDefault`, hence `DefaultsRepaired`) and what is left works (`FilterWorks`).
* Of the steps: `IInv` is the types, where the catalog comes from (`Compiled`), that a decision holds
  only targets and aliases that were asked about and answered (`Decided`), that the probes of a
  harness run inside its goroutine and that inside the join (`Nested`), and that a result is the
  catalog filtered by just these decisions (`Results`). `NothingOutlives` needs `Nested`: the property
  itself says nothing until the join is over. `OnlyTheAnswered` needs `Decided` for the same reason;
  its step is `MergeAnswered`.

**`ACPChildrenProofs`** (assumes `ChildrenAssumption`: the catalogs are working ones, as a preflight
leaves them, and the placeholder `None` is no binding and no alias). `IInv` is `Shape`, `Owned` (who
owns a gateway at each point of a child's life), `Faithful` (what a child asked for, what its
resolution came to and what it was first bound to agree) and `Served` (the names and the routes of a
child are those computed from its binding and the catalog of its process). `ResolutionFaithful` is
the lemma that carries the third: resolving a binding against any catalog returns just that binding
or fails. `ChildrenTyped`, `GatewaysOwned` and `ChildrenFaithful` follow. `ChildrenRouted` is
`PlanAgrees`: the names a child asks for and the routes of its gateway are computed apart, in two
files, and the one is among the other because an alias has one option per role and harness in a
working catalog, and Claude's small model is one of the aliases.

**`ConfiguredMCPProofs`**, first about `MCPComposition` (assumes `MCPAssumption`: the backlog has
room, `None` is no outcome of a call). `SessionInv` has three parts, each inductive by itself or with the first:
* `GatesInv`: a gate is open only while its call is awaiting or abandoning it, none exists where
  no host was bound, and (`BoundBeforeStarted`) before `Start` everything attach binds is bound as
  the session's kind demands while servers are at rest. `NoOrphanedGate` and `OnlyHumansAreAsked`
  say nothing of a call between its steps, so they need it.
* `StreamFollowsServers` itself, given that a publishing server has a target where there is one.
* `NoticesInv`: `NewestNoticesKept` with the types of the recorder.
`OneProcessIsSafe` joins them for `Spec`.

Then about `ConfiguredMCP` (assumes `WorldsAssumption` besides: profiles are those that parse, an
environment has six variables, whatever loads names servers in `Servers`). The worlds are
arbitrary: any entries, any number of servers, any environment.
* `AuthorityDecides` rests on `FingerprintIsRecognised`: two worlds that assemble have the same
  fingerprint exactly if they give every role the same profile and proxy and servers that
  `Recognised` takes for the same: of one name, transport and origin, or for a local server one
  `ProgramIdentity`, of which nothing is assumed. `Authority` itself has the whole URL and program, and
  may have changed; see the disagreements. One way the digests are unfolded; the other needs that profiles differ for the builder (`NamesDiffer`), that
  a route's guarantees follow from its host (`RouteByHost`), and that the revision can be read off
  what the roles see (`RecognisedFromRev`), since every binding is seen by some role and its compatibility
  follows from its kind (`RevIncluded`).
* `NeverBypassed` is `DirectMeansDisabled`, a fact about `Route`, under `OutcomeOK` (what the open
  of the last process came to, and that the session's fingerprint is that of some world).
  `AdmittedServersBuild` is `AdmittedBuilds`, a fact about the loader and the bindings.
* `NoGateOrphaned`, `HumansAsked`, `StreamFollows`, `NewestKept`: `SessionInv` survives a restore
  (`ForgetKeeps`), so what was shown of one process holds across processes.

**`PermissionReviewProofs`** (assumes `ReviewAssumption`: which files there are to ask about, calls
are of roles and kinds, `None` is no target and decides nothing). Any calls, sessions and number of
changes to the workspace.
* A walk that is over makes no more steps (`StepDone`), each step of one that is not brings it
  closer to its end (`StepGood`: three steps per link it may follow, one per name left), so the
  twelve steps of `Walk` are enough for the paths of a review (`WalkEnds`).
* `ContainmentAgrees` holds of every workspace of the family `FileSystems`, which is a bound, if a rich
  one: the changing directory and files are three. `CanonicalizeWithinRoot` judges by the longest part
  of a path that is not missing. If following the whole path comes to anything else than a missing
  part this is the whole path; otherwise it is the parent or, if that is missing too, the workspace,
  which never is (`RootFound`); what is appended to it changes nothing about its first name
  (`ContainmentExact`).
* `ApprovalsAreAsSeen`: the token of a file is what `Lstat` says of it, and for a link what `Stat` says
  besides, and the classifier was shown what `Stat` says. So the two must agree on what is no link
  (`StatIsLstat`): the walks to the path and to its parent go side by side, the one with a name more
  to go, until the shorter is over (`Along`). Hence one token shows one thing (`TokensShowAll`), in
  whatever two workspaces.
* `ReviewInv` says that each observation was made in some workspace, that what was confirmed is what
  was seen, one after the other, and that in a workspace that has not changed the tokens are still
  right (`Evidence`); how far the review is (`Progress`); that a session with a review is a trusted one
  (`Registered`); and who may have granted a call (`Granted`). The properties speak of the moment of
  an approval, a refusal or a grant alone and are not inductive. `UnchangedIsConfirmed` and
  `GrantsHeldToTheProfile` follow, the latter with `AccessIs`: restricting by ranks leaves a role that
  only reads nothing that read-only access denies.
* `ReviewTyped`: the evidence of a review is no more than its targets, because each is asked about
  once (`OncePerTarget`, `EvidenceBounded`).

The type invariants of `ProcessAdapter`, `RuntimeControls`, `ConfiguredControls`, `ACPPreflight`,
`ACPChildren`, `SessionAssembly`, `SessionStore`, `CommandLine` and `PermissionReview` are theorems
and no run repeats them. The inductive invariants were checked by TLC on the instances of the runs
before they were proved.

What stays with TLC: all liveness (`CallsReturn`, `ProcessExits`, `PreflightReturns`,
`EndsAreSeen`, `GateCallsReturn`), which needs ENABLED, and the two disagreements.

## Assumptions about code that is not here

Modelled from how the code uses it, and marked external in `PROJECT.json`:

* the sandbox process: it accepts a signal while it lives, reports activities in order, ends
  once and closes its channel afterwards; the consumer of the adapter;
* `sessionadapter`: it shuts a session down that it could not wrap ("initialization cleanup",
  `docs/plans/2026-07-15-coderig-modularization.md:104`);
* the rig: a session opens only when the exclusive workspace is free and gives it back when it
  is shut down; an Open that finds it taken fails and does not wait;
* the MCP manager, the session's gate host, the human behind it: a shut session closes its
  open gates, awaiting an answer ends with the context or the session, and closing an open gate
  succeeds (`mcp.go:327` discards the error; a host that failed there would keep the gate until the
  session ends);
* the MCP library's digest of a binding: its name, kind, origin, compatibility and the roles that
  see it, and no value of a header or of the environment (`mcp_fingerprint_test.go`); of a local
  server's program and arguments whatever `ProgramIdentity` gives, of which nothing is assumed; its bindings
  resolve a stdio command, check headers and want the legacy compatibility for `sse` alone; the
  harness refuses a restore whose permission or capability revision differs in any way;
* the loop controller: a change is applied at once and as a whole, or refused, and a change of
  mode resets model and effort (`rig_restore_integration_test.go:148-149`);
* `loop.RuntimeCatalog`: `ResolveTargetAliasWithSource` matches the concrete alias and the
  effort; the delegation tool binds only what the catalog offers;
* the terminal runtime (`looprig/tui`): it opens one session at a time, closes the live one to
  replace it and before it returns, and leaves the picker's listing to a goroutine of its own;
* delegate loops behind the gateway run in this process on the delegate's own target
  (`inference_policy.go:141-157`); the harness resumes a session only under the digest it was
  opened with, since nothing sets `AllowConfigMismatch`;
* the child process behind a probe or a backend: any answer, at any time;
* the gate evaluator, the review runner and the classifier: any verdict;
* the file system: links are relative, and a file's stamp stands for kind, size, mode and
  modification time, so two files with one stamp count as the same. The claim of the gate after
  the last recheck is not atomic with it, and the model lets the workspace change in between.

## What is not modelled

* Of the model and MCP configurations, the reading and decoding of the files (one way to be
  malformed) and the wording of descriptions and errors. A stdio command and its arguments are one
  value.
* The tool rosters of the roles, and the executors of their loops: `executorScratchLimit` bounds a
  set that the sandbox owns, and whether the spawn quota keeps within it is the rig's to count.
* A change of the `permission_review` section between two processes: the policy goes to the rig
  (`WithPermissionReviewPolicy`), and what the rig makes of it on a restore is its own.
* Field-by-field translation of requests and errors (`process_adapter.go`), postures and
  environment tables of the children, tool rosters, prompts, skills, runtime context: constant
  tables and text, in which no order, no concurrency and no failure is at stake.
* The syntactic refusals of malformed paths and requirements in the permission review.
* Test seams: the legacy `NativeAuth` input, `filterProfiles`, injected clients.

## Plan

1. **A resumption that is killed half-way**: `SessionStore` under crashes of the process, once the
   lease of a dead process is modelled after the library that takes it over.

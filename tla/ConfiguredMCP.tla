---------------------------- MODULE ConfiguredMCP ----------------------------
(***************************************************************************)
(* MCPComposition over mcp.json, an access profile and the environment of  *)
(* the process: what a session may do and reach, across the processes that *)
(* resume it.  openRuntimeAgent (internal/app/swarm.go) reads all of it    *)
(* once, in each process anew, and restores a session only under the       *)
(* fingerprint it was opened with: production never asks to ignore a       *)
(* mismatch (AllowConfigMismatch, cmd/coderig/main.go:205).                *)
(***************************************************************************)
EXTENDS MCPComposition, Egress, MCPConfig, Access

CONSTANTS Worlds,   \* what a process may find: [profile, environment, file]
          First,    \* what the first process may find
          Later(_), \* what a later one may find where an earlier found that
          Setups(_) \* the kinds of sessions opened there

\* ParseAccessProfile lets no other profile in (access.go:59-66); Servers are
\* the names of whatever loads.
ASSUME WorldsAssumption ==
  /\ First \subseteq Worlds
  /\ \A w \in Worlds :
       /\ w.profile \in ProfileNames /\ Later(w) \subseteq Worlds
       /\ DOMAIN w.environment.proxy = 1..4 /\ DOMAIN w.environment.noProxy = 1..2
       /\ MCPLoads(w.file) => DOMAIN w.file.servers \subseteq Servers

VARIABLES
  world,    \* what the last process found
  outcome,  \* what came of its open: "opened", "refused" or "failed"
  opened    \* the authority and the fingerprint the session was opened with

configuredVars == <<vars, world, outcome, opened>>

-----------------------------------------------------------------------------
(* Seeded fault of AccessDigest: the egress route is left out. *)
AccessDigestWithoutRoute(name, route) ==
  [selected |-> name, roles |-> [r \in Roles |-> RoleProfile(r, name)]]

(* accessConfigDigest *)
AccessDigest(name, route) ==
  [selected |-> name, roles |-> [r \in Roles |-> RoleProfile(r, name)],
   route |-> RouteFingerprint(route), target |-> route.target, address |-> route.address]

(* Seeded fault of Fingerprint: ExternalCapabilityRev is not filled in. *)
FingerprintOfAccess(w) ==
  [NativePermissionPolicyRev |-> AccessDigest(w.profile, Route(w.environment)),
   ExternalCapabilityRev |-> {}]

(* agentFingerprintFields, so far as these inputs enter it. *)
Fingerprint(w) ==
  [NativePermissionPolicyRev |-> AccessDigest(w.profile, Route(w.environment)),
   ExternalCapabilityRev |-> MCPConfigRev(w.file)]

(* buildSessionAccess, then newMCPSessionAssembly. *)
Assembles(w) ==
  Resolves(w.environment) /\ MCPLoads(w.file) /\ MCPBuilds(w.file)

(* What a role can do and reach in a session of that world: its profile, the
   proxy its traffic goes through, and the servers its loop sees, each with the
   program it runs or the URL it is at. *)
Authority(w) ==
  [r \in Roles |->
     [profile |-> RoleProfile(r, w.profile),
      proxy |-> Route(w.environment).host,
      servers |-> {[name |-> b.name, kind |-> b.kind, command |-> b.command, url |-> b.url] :
                     b \in {c \in Bindings(w.file) : r \in c.visible}}]]

(* An authority with only so much of its servers as a restore can tell apart. *)
Recognised(authority) ==
  [r \in Roles |->
     [profile |-> authority[r].profile,
      proxy |-> authority[r].proxy,
      servers |-> {<<s.name, s.kind, RedactedOrigin(s)>> : s \in authority[r].servers}]]

(* A process opens a new session. *)
ConfiguredInit ==
  /\ Init
  /\ world \in {w \in First : Assembles(w)}
  /\ managed = DOMAIN world.file.servers
  /\ setup \in Setups(world)
  /\ outcome = "opened"
  /\ opened = [authority |-> Authority(world), fingerprint |-> Fingerprint(world)]

(* The session's servers, gates and notices go on in one process. *)
Live == Next /\ UNCHANGED <<world, outcome, opened>>

Ended == at = "closed" /\ \A e \in Elicitations : call[e] \in {"idle", "returned"}

(* A new process has a manager, an opener, a publisher and a recorder of its
   own: nothing of the memory of the last is left to it. *)
Forget ==
  /\ at' = "bind" /\ started' = FALSE /\ session' = "open"
  /\ host' = FALSE /\ target' = FALSE
  /\ status' = [s \in Servers |-> "configured"]
  /\ publishing' = [s \in Servers |-> FALSE]
  /\ shown' = [s \in Servers |-> None]
  /\ call' = [e \in Elicitations |-> "idle"]
  /\ gate' = [e \in Elicitations |-> "none"]
  /\ result' = [e \in Elicitations |-> None]
  /\ ctxDone' = {}
  /\ notices' = <<>> /\ dropped' = 0 /\ reported' = 0

(* The next process resumes the session. *)
Restore(w) ==
  /\ Assembles(w) /\ Fingerprint(w) = opened.fingerprint
  /\ outcome' = "opened"
  /\ Forget /\ UNCHANGED setup
  /\ managed' = DOMAIN w.file.servers

(* It cannot put the session together, or the session is not its to resume. *)
Refuse(w) ==
  /\ \/ ~Assembles(w) /\ outcome' = "failed"
     \/ Assembles(w) /\ Fingerprint(w) # opened.fingerprint /\ outcome' = "refused"
  /\ UNCHANGED vars

Resume ==
  /\ Ended /\ outcome = "opened"
  /\ \E w \in Later(world) : (Restore(w) \/ Refuse(w)) /\ world' = w
  /\ UNCHANGED opened

ConfiguredNext == Live \/ Resume

ConfiguredSpec == ConfiguredInit /\ [][ConfiguredNext]_configuredVars

FairConfiguredSpec ==
  ConfiguredSpec /\ \A e \in Elicitations : WF_configuredVars(OpenGate(e) /\ UNCHANGED <<world, outcome, opened>>)

-----------------------------------------------------------------------------
(* A process that can put the session together resumes it exactly if every role
   then has the profile and the way out it was opened with and sees servers of
   the same names, transports and origins: neither access nor egress changes
   silently (accessConfigDigest, access.go:199-207), and a rotated token, the
   order of roles or a type written out strands no session.  The authority
   itself may have changed: the path of a URL, and whatever the identity of a
   server leaves out of its program and arguments, is not compared
   (mcp_fingerprint_test.go:86-90), where the design says that changing "a URL
   [...] is a config-mismatch on restore"
   (2026-08-05-coderig-mcp-and-permission-review-design.md:214-216). *)
AuthorityDecidesResume ==
  outcome # "failed" =>
    (outcome = "opened" <=> Recognised(Authority(world)) = Recognised(opened.authority))

(* A session goes out directly only if no variable names a proxy, or NO_PROXY
   names "*": nothing "silently downgrades a configured upstream into a direct
   connection" (egress.go:15). *)
ProxyNeverBypassed ==
  outcome = "opened" /\ Route(world.environment).host = "" =>
    \/ \A i \in 1..4 : world.environment.proxy[i].host \in Blank
    \/ \E i \in 1..2 : "*" \in Segments(world.environment.noProxy[i])

(* mcp.json is validated in mcpconfig.go and again by the library's bindings:
   an entry the one admits is only turned down by the other for a command that
   is not found or a header it cannot send, never for its transport
   (mcpCompatFor, mcp.go:96-123). *)
EveryServerBuilds ==
  outcome = "failed" /\ Resolves(world.environment) /\ MCPLoads(world.file) =>
    \E name \in DOMAIN world.file.servers :
      LET entry == world.file.servers[name] IN
      \/ entry.command # "" /\ ~OnPath(entry.command)
      \/ entry.url # NoURL /\ ~ValidHeaders(entry.headers)

=============================================================================

------------------------------ MODULE MCPConfig ------------------------------
(***************************************************************************)
(* What <home>/mcp.json comes to (internal/app/mcpconfig.go, and the       *)
(* construction of bindings in mcp.go).  A file is                         *)
(*   [is |-> "absent" | "malformed" | "decoded", servers |-> <function>],  *)
(* malformed if its hygiene or its JSON is; an entry of a decoded file is  *)
(*   [type, command, env, url, headers, roles] with command a program and  *)
(* its arguments, roles a sequence, url an origin and the rest, and one    *)
(* value for what env or headers hold.                                     *)
(***************************************************************************)
EXTENDS Naturals, Sequences

\* What the library's identity of a server keeps of a program: nothing that the
\* repository says, so nothing is assumed of it.
CONSTANT ProgramIdentity(_)

mcpAllRoles == {"planner", "builder", "reviewer"}
TransportKinds == {"stdio", "http", "sse"}
NoURL == [origin |-> "", rest |-> ""]

\* Names, origins, commands and headers the libraries refuse.
ValidName(name) == name # "not a name"
CanonicalOrigin(url) == url.origin # "malformed"
OnPath(command) == command # "missing"
ValidHeaders(headers) == headers # "malformed"

(* The transport the fields speak for; "sse" is never inferred. *)
InferredKind(entry) ==
  IF (entry.command # "") = (entry.url # NoURL) THEN "error"
  ELSE IF entry.command # "" THEN "stdio" ELSE "http"

(* resolveMCPServerKind *)
ServerKind(entry) ==
  IF entry.type = "" THEN InferredKind(entry)
  ELSE IF /\ entry.type \in TransportKinds
          /\ InferredKind(entry) = (IF entry.type = "stdio" THEN "stdio" ELSE "http")
       THEN entry.type ELSE "error"

(* normalizeMCPServerRoles: the sorted copy of a list without duplicates is
   its set, empty for all three. *)
RolesValid(roles) ==
  /\ \A i \in DOMAIN roles : roles[i] \in mcpAllRoles
  /\ \A i, j \in DOMAIN roles : roles[i] = roles[j] => i = j

ServerRoles(roles) == {roles[i] : i \in DOMAIN roles}

(* normalizeMCPServer *)
Normalizes(name, entry) ==
  /\ ValidName(name)
  /\ ServerKind(entry) # "error"
  /\ ServerKind(entry) # "stdio" => CanonicalOrigin(entry.url)
  /\ RolesValid(entry.roles)

ServerSpec(name, entry) ==
  LET stdio == ServerKind(entry) = "stdio" IN
  [name |-> name, kind |-> ServerKind(entry), roles |-> ServerRoles(entry.roles),
   command |-> IF stdio THEN entry.command ELSE "",
   env |-> IF stdio THEN entry.env ELSE "",
   url |-> IF stdio THEN NoURL ELSE entry.url,
   headers |-> IF stdio THEN "" ELSE entry.headers]

(* loadMCPConfig and normalizeMCPConfig: one bad entry fails them all. *)
MCPLoads(file) ==
  /\ file.is # "malformed"
  /\ \A name \in DOMAIN file.servers : Normalizes(name, file.servers[name])

Specs(file) == {ServerSpec(name, file.servers[name]) : name \in DOMAIN file.servers}

-----------------------------------------------------------------------------
(* mcpDefinitions and mcpBindingFor *)

(* Seeded fault of CompatFor: the zero value for every transport. *)
CompatForNone(kind) == "default"

CompatFor(kind) == IF kind = "sse" THEN "legacy" ELSE "default"

VisibilityRoles(roles) == IF roles = {} THEN mcpAllRoles ELSE roles

(* mcpTransportFor: its construction resolves the command, or checks headers. *)
TransportBuilds(spec) == IF spec.kind = "stdio" THEN OnPath(spec.command) ELSE ValidHeaders(spec.headers)

Binding(spec) ==
  [name |-> spec.name, kind |-> spec.kind, command |-> spec.command, env |-> spec.env,
   url |-> spec.url, headers |-> spec.headers,
   compat |-> CompatFor(spec.kind), visible |-> VisibilityRoles(spec.roles)]

(* Binding.Validate of the library: it has a second view of what is allowed. *)
BindingValid(binding) == binding.kind = "sse" => binding.compat = "legacy"

(* newMCPSessionAssembly gets a manager, or none is needed. *)
MCPBuilds(file) ==
  \A spec \in Specs(file) : TransportBuilds(spec) /\ BindingValid(Binding(spec))

Bindings(file) == {Binding(spec) : spec \in Specs(file)}

(* Where a server is, without the path of its URL (mcp_fingerprint_test.go:86-90). *)
RedactedOrigin(server) ==
  IF server.kind = "stdio" THEN ProgramIdentity(server.command) ELSE server.url.origin

(* What the library's digest takes from a binding: of its headers and
   environment no value (mcp_fingerprint_test.go). *)
BindingIdentity(binding) ==
  [name |-> binding.name, kind |-> binding.kind, origin |-> RedactedOrigin(binding),
   compat |-> binding.compat, visible |-> binding.visible]

(* configRev: {} is the empty revision of a session without a manager. *)
MCPConfigRev(file) == {BindingIdentity(binding) : binding \in Bindings(file)}

=============================================================================

--------------------------- MODULE MCConfiguredMCP ---------------------------
(* ConfiguredMCP over two families of worlds: mcp.json as it may be edited,
   under one profile and environment, and every profile and environment without
   an mcp.json. *)
EXTENDS ConfiguredMCP

\* The identity of a server on standard streams says nothing of its program.
Nothing(command) == ""

URL(origin, rest) == [origin |-> origin, rest |-> rest]

Entry(type, command, url, secret, roles) ==
  [type |-> type, command |-> command, env |-> secret, url |-> url,
   headers |-> secret, roles |-> roles]

Program == Entry("", "installed", NoURL, "v1", <<>>)
Service == Entry("", "", URL("one", "/mcp"), "v1", <<"planner", "builder">>)

Lists == {<<>>, <<"builder">>, <<"builder", "planner">>, <<"planner", "builder", "reviewer">>,
          <<"builder", "builder">>, <<"operator">>}

(* One field of an entry written otherwise. *)
EntryEdits(entry) ==
  {[entry EXCEPT !.type = t] : t \in {"", "stdio", "http", "sse", "pipe"}}
  \cup {[entry EXCEPT !.command = c] : c \in {"", "other", "missing"}}
  \cup {[entry EXCEPT !.url = u] :
          u \in {NoURL, URL("one", "/v2"), URL("two", "/mcp"), URL("malformed", "")}}
  \cup {[entry EXCEPT !.env = v, !.headers = v] : v \in {"v2", "malformed"}}
  \cup {[entry EXCEPT !.roles = l] : l \in Lists}

Decoded(entries) == [is |-> "decoded", servers |-> entries]
Undecoded(is) == [is |-> is, servers |-> <<>>]
One(name, entry) == Decoded([n \in {name} |-> entry])
Both(first, second) ==
  Decoded([n \in {"alpha", "beta"} |-> IF n = "alpha" THEN first ELSE second])

Legacy == [Service EXCEPT !.type = "sse"]

AllFiles ==
  {Undecoded("absent"), Undecoded("malformed"), Decoded(<<>>), One("not a name", Program)}
  \cup {One("alpha", e) : e \in UNION {EntryEdits(s) : s \in {Program, Service, Legacy}}}
  \cup {Both(Service, Program), Both(Program, Service)}
  \cup {Both(Service, [Program EXCEPT !.command = "missing"])}

FirstFiles == {One("alpha", e) : e \in {Program, Service, Legacy}} \cup {Both(Service, Program)}

Proxy(name, secret) == [host |-> name, credentials |-> secret]
Unset == Proxy("", "")

Proxies == {Unset, Proxy(" ", ""), Proxy("p1", "c1"), Proxy("p1", "c2"), Proxy("p2", "c1"),
            Proxy("malformed", "c1")}
NoProxies == {<<>>, <<"">>, <<"", "">>, <<"*">>, <<"host">>, <<"*", "host">>, <<"malformed", "*">>}

Environments ==
  {[proxy |-> <<https, Unset, Unset, http>>, noProxy |-> <<upper, lower>>] :
     https \in Proxies, http \in Proxies, upper \in NoProxies, lower \in {<<>>, <<"*">>}}

Plain == [proxy |-> [i \in 1..4 |-> Unset], noProxy |-> <<<<>>, <<>>>>]

World(profile, environment, file) ==
  [profile |-> profile, environment |-> environment, file |-> file]

ByAccess ==
  {World(p, Plain, Undecoded("absent")) : p \in ProfileNames}
  \cup {World("trusted", e, Undecoded("absent")) : e \in Environments}

ByFiles == {World("trusted", Plain, f) : f \in AllFiles}

FirstWorlds == ByAccess \cup {World("trusted", Plain, f) : f \in FirstFiles}

AllWorlds == ByAccess \cup ByFiles

Found(w) ==
  IF w.file.is = "absent" THEN FirstWorlds ELSE ByFiles

(* Every kind of session where two servers run, the usual one elsewhere. *)
Kind(interactive, isHost, publisher) ==
  [interactive |-> interactive, host |-> isHost, publisher |-> publisher]

Sessions(w) ==
  IF DOMAIN w.file.servers = Servers
  THEN {Kind(i, h, p) : i \in BOOLEAN, h \in BOOLEAN, p \in BOOLEAN}
  ELSE {Kind(TRUE, TRUE, TRUE)}

=============================================================================

----------------------------- MODULE ACPCatalog -----------------------------
(***************************************************************************)
(* The runtime catalog a delegating agent chooses from: one entry per role, *)
(* harness and source, with the models it offers (internal/app/             *)
(* acpcatalog.go and runtimecatalog.go).  Aliases are numbers, because the  *)
(* code sorts them and takes the first.                                     *)
(***************************************************************************)
EXTENDS Naturals, FiniteSetsExt

CONSTANTS Roles, None

Harnesses == {"claude-code", "codex"}

(* A configuration: the gateway rows (alias -> efforts and the default one),
   Claude's small model, the native profiles (a set of aliases, {} when the
   harness manages its own models, None when disabled), the role defaults. *)
Option(a, row) == [alias |-> a, effort |-> row.effort, efforts |-> row.efforts]
NativeOption(a) == [alias |-> a, effort |-> "none", efforts |-> {"none"}]

ServesGateway(in, h) == in.rows # <<>> /\ (h = "claude-code" => in.small # None)
Managed(in, h) == in.native[h] = {}
Explicit(in, h) == in.native[h] \notin {None, {}}

(* The checks CompileACPCatalog refuses a configuration by. *)
ValidDefault(in, d) ==
  IF d.source = "gateway"
  THEN /\ ServesGateway(in, d.harness)
       /\ d.model \in DOMAIN in.rows
       /\ d.effort \in in.rows[d.model].efforts
  ELSE \/ Managed(in, d.harness) /\ d.model = None
       \/ Explicit(in, d.harness) /\ d.model \in in.native[d.harness]

ValidInput(in) ==
  /\ \A a \in DOMAIN in.rows : in.rows[a].effort \in in.rows[a].efforts
  /\ \A h \in Harnesses : Explicit(in, h) => in.native[h] \cap DOMAIN in.rows = {}
  /\ in.small # None => in.small \in DOMAIN in.rows
  /\ \A r \in Roles : ValidDefault(in, in.defaults[r])

(* A role's default effort applies to its default model in the default's own
   entry and in the ordinary entry, nowhere else. *)
GatewayOptions(in, d, isDefault) ==
  {IF isDefault /\ a = d.model THEN [Option(a, in.rows[a]) EXCEPT !.effort = d.effort]
                               ELSE Option(a, in.rows[a]) : a \in DOMAIN in.rows}

Preferred(in, d) == IF d.model \in DOMAIN in.rows THEN d.model ELSE Min(DOMAIN in.rows)

IsDefault(d, h, source) == d.harness = h /\ d.source = source

GatewayEntry(in, r, h) ==
  LET d == in.defaults[r] IN
  [role |-> r, harness |-> h, kind |-> "gateway", default |-> IsDefault(d, h, "gateway"),
   model |-> Preferred(in, d),
   small |-> IF h = "claude-code" THEN in.small ELSE None,
   models |-> GatewayOptions(in, d, IsDefault(d, h, "gateway"))]

ManagedEntry(in, r, h) ==
  [role |-> r, harness |-> h, kind |-> "managed",
   default |-> IsDefault(in.defaults[r], h, "native"),
   model |-> None, small |-> None, models |-> {}]

ExplicitEntry(in, r, h) ==
  LET d == in.defaults[r] IN
  [role |-> r, harness |-> h, kind |-> "explicit", default |-> IsDefault(d, h, "native"),
   model |-> IF IsDefault(d, h, "native") THEN d.model ELSE Min(in.native[h]),
   small |-> None,
   models |-> {NativeOption(a) : a \in in.native[h]}]

(* The in-process row: never the default while an ACP entry is. *)
OrdinaryEntry(in, r) ==
  LET d == in.defaults[r] IN
  [role |-> r, harness |-> "looprig", kind |-> "ordinary", default |-> FALSE,
   model |-> Preferred(in, d), small |-> None,
   models |-> GatewayOptions(in, d, d.source = "gateway")]

CompileCatalog(in) ==
  {GatewayEntry(in, r, h) : r \in Roles, h \in {k \in Harnesses : ServesGateway(in, k)}}
  \cup {ManagedEntry(in, r, h) : r \in Roles, h \in {k \in Harnesses : Managed(in, k)}}
  \cup {ExplicitEntry(in, r, h) : r \in Roles, h \in {k \in Harnesses : Explicit(in, k)}}
  \cup {OrdinaryEntry(in, r) : r \in {k \in Roles : in.rows # <<>>}}

(* The name a gateway serves option o with effort e under: the bare alias for
   the default effort, a derived one for any other. *)
Target(o, e) == <<o.alias, IF e = o.effort THEN "" ELSE e>>
Targets(o) == {Target(o, e) : e \in o.efforts}

HasProfile(entries, h) == \E e \in entries : e.harness = h

-----------------------------------------------------------------------------
(* What the probes of one harness came to. *)
NoDecision == [gateway |-> {}, gatewayReady |-> FALSE, native |-> {}, managed |-> FALSE]
Usable(d) == d.gatewayReady \/ d.managed \/ d.native # {}

(* The options of an ACP entry the probes admit: a native alias that answered, a
   gateway alias with the efforts that are advertised, the default among them. *)
KeptOptions(e, d) ==
  IF e.kind = "explicit" THEN {o \in e.models : o.alias \in d.native}
  ELSE {[o EXCEPT !.efforts = {f \in o.efforts : Target(o, f) \in d.gateway}] :
          o \in {p \in e.models : d.gatewayReady /\ Target(p, p.effort) \in d.gateway}}

Aliases(options) == {o.alias : o \in options}

(* What a catalog must be for a child to be built from any of its entries: an
   option's own effort is among its efforts, Claude's gateway entry has its small
   model, and one alias means one option in the entries of a harness and role. *)
WorkingCatalog(entries) ==
  \A e \in entries :
    /\ \A o \in e.models : o.effort \in o.efforts
    /\ e.kind = "gateway" /\ e.harness = "claude-code" => e.small # None
    /\ e.small # None => e.small \in Aliases(e.models)
    /\ \A f \in entries :
         /\ e.kind # "ordinary" /\ f.kind # "ordinary"
         /\ e.role = f.role /\ e.harness = f.harness
         => \A o \in e.models, p \in f.models : o.alias = p.alias => o = p

(* Seeded fault of Survives: Claude's small model is not asked for. *)
SurvivesWithoutSmall(e, kept) ==
  /\ kept # {}
  /\ e.model \in Aliases(kept) \/ (e.kind = "explicit" /\ ~e.default)

(* An entry needs its default model, or, native and not the role's default,
   any model; and Claude's gateway entry needs its small model. *)
Survives(e, kept) ==
  /\ kept # {}
  /\ e.model \in Aliases(kept) \/ (e.kind = "explicit" /\ ~e.default)
  /\ e.small # None => e.small \in Aliases(kept)

Narrowed(e, kept) ==
  [e EXCEPT !.models = kept,
            !.model = IF @ \in Aliases(kept) THEN @ ELSE Min(Aliases(kept))]

Admitted(e, decisions) ==
  LET d == decisions[e.harness] IN
  IF e.kind = "managed" THEN IF d.managed THEN {e} ELSE {}
  ELSE LET kept == KeptOptions(e, d) IN
       IF Survives(e, kept) THEN {Narrowed(e, kept)} ELSE {}

(* Seeded fault of RepairDefaults: a role that lost its default keeps none. *)
RepairDefaultsNever(entries) == entries

(* retainRuntimeEntriesWithConfiguredDefault: a role that lost its default
   falls back to its in-process row, or is dropped when it has none. *)
RepairDefaults(entries) ==
  LET HasDefault(r) == \E e \in entries : e.role = r /\ e.default
      HasOrdinary(r) == \E e \in entries : e.role = r /\ e.kind = "ordinary"
  IN {IF e.kind = "ordinary" /\ ~HasDefault(e.role) THEN [e EXCEPT !.default = TRUE] ELSE e :
        e \in {f \in entries : HasDefault(f.role) \/ HasOrdinary(f.role)}}

(* filterACPPreflightCatalog: in-process rows stay whatever was probed. *)
FilterCatalog(entries, decisions) ==
  RepairDefaults(
    {e \in entries : e.kind = "ordinary"}
    \cup UNION {Admitted(e, decisions) : e \in {f \in entries : f.kind # "ordinary"}})

(* acpDistinctModelCountsByHarness *)
ModelCount(entries, h) ==
  Cardinality(UNION {Aliases(e.models) : e \in {f \in entries : f.harness = h}})

(* The harnesses acpDiagnosticsReducedModels reports. *)
ReducedModels(before, after) ==
  {h \in Harnesses : ModelCount(after, h) \in 1..(ModelCount(before, h) - 1)}

=============================================================================

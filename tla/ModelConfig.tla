----------------------------- MODULE ModelConfig -----------------------------
(***************************************************************************)
(* What a models.json is turned into (internal/app/modelconfig_normalize.go, *)
(* modelconfig_digest.go, productionmodels.go, runtimeclient.go and         *)
(* inference_policy.go).  A file is a record                                *)
(*   [primer, small, review, rows, defaults, native]                        *)
(* of aliases, rows, a default per role, and the native profiles as         *)
(* ACPCatalog has them; a row is                                            *)
(*   [alias, uses, efforts, default, at, key, thinking, tools, structured]  *)
(* where `at` is the provider target a request names (provider, format, URL *)
(* and model name) and `key` the credential or None.                        *)
(***************************************************************************)
EXTENDS Naturals, FiniteSetsExt

CONSTANTS Roles, None,
          Models,       \* the provider targets a row may name
          Efforts,      \* the neutral efforts
          Keyed,        \* the provider targets that require an API key
          TransportOf   \* the transport (provider, format and URL) of a target

Catalog == INSTANCE ACPCatalog

Row(file, alias) == CHOOSE row \in file.rows : row.alias = alias
Uses(file, use) == {row.alias : row \in {r \in file.rows : use \in r.uses}}

-----------------------------------------------------------------------------
(* decodeModelConfig and the values normalizeModelTarget knows: a row has these
   fields and no others. *)
Decodes(row) ==
  row \in [alias : Nat, uses : SUBSET {"primer", "delegate"},
           efforts : SUBSET Efforts, default : Efforts, at : Models, key : {row.key},
           thinking : BOOLEAN, tools : BOOLEAN, structured : BOOLEAN]

(* normalizeModelTarget *)
ValidRow(row) ==
  /\ Decodes(row)
  /\ row.tools
  /\ row.efforts # {} /\ row.default \in row.efforts
  /\ row.efforts # {"none"} => row.thinking
  /\ row.key = None <=> row.at \notin Keyed

(* normalizeNativeACPProfiles *)
ValidNative(file) ==
  \A h \in Catalog!Harnesses : file.native[h] # None => file.native[h] \subseteq Nat

UniqueAliases(file) == \A r, s \in file.rows : r.alias = s.alias => r = s

(* A role's default: a delegate and one of its efforts behind the gateway, or
   what the enabled native profile of the harness has. *)
ValidDefault(file, d) ==
  /\ d.harness \in Catalog!Harnesses /\ d.source \in {"gateway", "native"}
  /\ IF d.source = "gateway"
     THEN /\ d.model \in Uses(file, "delegate")
          /\ d.effort \in Row(file, d.model).efforts
     ELSE /\ file.native[d.harness] # None
          /\ d.effort = None
          /\ IF file.native[d.harness] = {} THEN d.model = None
                                            ELSE d.model \in file.native[d.harness]

NeedsSmall(file) ==
  \E r \in Roles : file.defaults[r].source = "gateway" /\ file.defaults[r].harness = "claude-code"

(* Seeded fault of ValidSmall: a default of claude-code does not need it. *)
ValidSmallOptional(file) == file.small # None => file.small \in Uses(file, "delegate")

ValidSmall(file) ==
  IF file.small = None THEN ~NeedsSmall(file) ELSE file.small \in Uses(file, "delegate")

ValidReview(file) ==
  file.review # None =>
    \E row \in file.rows : row.alias = file.review /\ row.structured

(* normalizeModelConfig *)
Normalizes(file) ==
  /\ file.rows # {}
  /\ ValidNative(file)
  /\ \A row \in file.rows : ValidRow(row)
  /\ UniqueAliases(file)
  /\ file.primer \in Uses(file, "primer")
  /\ \A r \in Roles : ValidDefault(file, file.defaults[r])
  /\ ValidSmall(file)
  /\ ValidReview(file)

-----------------------------------------------------------------------------
(* No two candidates share a target: the running loop names only its target. *)
DistinctCandidates(file) ==
  \A r, s \in file.rows :
    "primer" \in r.uses \cap s.uses /\ r.at = s.at => r = s

(* Seeded fault of Routable: the first client of a target serves every alias. *)
RoutableAlways(file) == TRUE

(* newModelRoutingClient: a target is routable to one client, and a client is
   bound to a target and a key. *)
Routable(file) == \A r, s \in file.rows : r.at = s.at => r.key = s.key

(* modelRoutingClient.clients, the rows coming in the order of their aliases;
   a client stands here for the key it is bound to. *)
Clients(file) ==
  [at \in {row.at : row \in file.rows} |->
     Row(file, Min({row.alias : row \in {r \in file.rows : r.at = at}})).key]

(* compileProductionModels *)
Compiles(file) == DistinctCandidates(file) /\ Routable(file)

(* loadProductionModels; nothing that fails half way is used. *)
Loads(file) == Normalizes(file) /\ Compiles(file)

Candidates(file) == {row \in file.rows : "primer" \in row.uses}
Delegates(file) == {row \in file.rows : "delegate" \in row.uses}

(* What the ACP catalog is compiled from (productionModels.ACP and Defaults). *)
CatalogInput(file) ==
  [rows |-> [a \in Uses(file, "delegate") |->
               [efforts |-> Row(file, a).efforts, effort |-> Row(file, a).default]],
   small |-> file.small,
   native |-> file.native,
   defaults |-> file.defaults]

-----------------------------------------------------------------------------
(* Seeded fault of Digest: the efforts of the rows are left out. *)
DigestWithoutEfforts(file) ==
  <<file.primer, file.small, file.native, file.defaults,
    {[r EXCEPT !.key = None, !.efforts = {}] : r \in file.rows}>>

(* modelConfigDigest, the hash as the material it covers: everything but keys
   and the permission review. *)
Digest(file) ==
  <<file.primer, file.small, file.native, file.defaults,
    {[row EXCEPT !.key = None] : row \in file.rows}>>

(* Seeded fault of DeclaredTransports: delegates are forgotten. *)
DeclaredTransportsOfCandidates(file) ==
  {TransportOf[row.at] : row \in Candidates(file)}

(* declaredContextTransports; the base model is the primer, a candidate. *)
DeclaredTransports(file) ==
  {TransportOf[row.at] : row \in Candidates(file) \cup Delegates(file)}

=============================================================================

------------------------- MODULE ACPPreflightProofs -------------------------
(***************************************************************************)
(* ACPPreflight from any configurations: the probes are over when their    *)
(* answers are read, only what answered is offered, every role keeps just  *)
(* one default, and what is left is a catalog children can be built from.  *)
(***************************************************************************)
EXTENDS ACPPreflight, WellFoundedInduction, TLAPS

(* Some aliases have a least one: the naturals are well-founded. *)
LEMMA MinIsMember ==
  ASSUME NEW S \in SUBSET Nat, S # {}
  PROVE  Min(S) \in S
<1>. DEFINE R == {ss \in Nat \X Nat : ss[1] < ss[2]}
<1>1. IsWellFoundedOn(R, Nat)
  BY NatLessThanWellFounded, Zenon DEF OpToRel
<1>2. PICK x \in S : \A y \in S : <<y, x>> \notin R
  <2>. HIDE DEF R
  <2>. QED BY <1>1, WFMin, Zenon
<1>3. ASSUME NEW y \in S PROVE x =< y
  <2>1. ~(y < x)
    BY <1>2, <<y, x>> \in Nat \X Nat
  <2>. QED BY <2>1
<1>. QED BY <1>3, Zenon DEF Min

-----------------------------------------------------------------------------
(* What is known of a catalog before anything is probed. *)
Kinds == {"gateway", "managed", "explicit", "ordinary"}

GoodOption(o) ==
  /\ o = [alias |-> o.alias, effort |-> o.effort, efforts |-> o.efforts]
  /\ o.alias \in Nat /\ o.effort \in o.efforts

Shaped(e) ==
  /\ e = [role |-> e.role, harness |-> e.harness, kind |-> e.kind, default |-> e.default,
          model |-> e.model, small |-> e.small, models |-> e.models]
  /\ e.kind \in Kinds /\ e.default \in BOOLEAN
  /\ e.kind # "ordinary" => e.harness \in Harnesses
  /\ \A o \in e.models : GoodOption(o)

\* What CompileACPCatalog puts into one entry.
GoodEntry(e) ==
  /\ Shaped(e)
  /\ e.kind = "ordinary" => ~e.default /\ e.model \in Aliases(e.models)
  /\ e.kind = "managed" => e.models = {}
  /\ e.kind = "gateway" => (e.harness = "claude-code" => e.small # None)
  /\ e.kind # "gateway" => e.small = None

\* The options of one entry.
AliasesDecide(options) == \A o, p \in options : o.alias = p.alias => o = p

Related(e, f) ==
  /\ e.kind # "ordinary" /\ f.kind # "ordinary"
  /\ e.role = f.role /\ e.harness = f.harness

\* What it puts into a catalog.
GoodCatalog(C) ==
  /\ \A e \in C : GoodEntry(e)
  /\ \A e, f \in C : e.default /\ f.default /\ e.role = f.role => e = f
  /\ \A e, f \in C : e.kind = "ordinary" /\ f.kind = "ordinary" /\ e.role = f.role => e = f
  /\ \A e, f \in C : Related(e, f) =>
       \A o \in e.models, p \in f.models : o.alias = p.alias => e = f /\ o = p

\* PreflightAssumption, of one configuration.
ValidRows(in) ==
  /\ in.rows = <<>> \/ DOMAIN in.rows \in (SUBSET Nat) \ {{}}
  /\ \A h \in Harnesses : in.native[h] = None \/ in.native[h] \in SUBSET Nat

(* A row becomes one option, at the role's default effort if it is the default. *)
LEMMA GatewayOptionsAre ==
  ASSUME NEW in, ValidInput(in), ValidRows(in), NEW r \in Roles, NEW isDefault \in BOOLEAN,
         isDefault => in.defaults[r].source = "gateway", in.rows # <<>>
  PROVE  LET os == GatewayOptions(in, in.defaults[r], isDefault) IN
         /\ \A o \in os : GoodOption(o)
         /\ \A o \in os : o.alias \in DOMAIN in.rows
         /\ AliasesDecide(os)
         /\ \A a \in DOMAIN in.rows : a \in Aliases(os)
<1>. DEFINE d == in.defaults[r]
            G(a) == IF isDefault /\ a = d.model THEN [Option(a, in.rows[a]) EXCEPT !.effort = d.effort]
                                               ELSE Option(a, in.rows[a])
<1>1. ASSUME NEW a \in DOMAIN in.rows PROVE GoodOption(G(a)) /\ G(a).alias = a
  <2>1. in.rows[a].effort \in in.rows[a].efforts /\ a \in Nat
    BY DEF ValidInput, ValidRows
  <2>2. isDefault /\ a = d.model => d.effort \in in.rows[a].efforts
    BY DEF ValidInput, ValidDefault
  <2>. QED BY <2>1, <2>2 DEF Option, GoodOption
<1>2. GatewayOptions(in, d, isDefault) = {G(a) : a \in DOMAIN in.rows}
  BY DEF GatewayOptions
<1>. HIDE DEF G
<1>. QED BY <1>1, <1>2 DEF AliasesDecide, Aliases

LEMMA PreferredServed ==
  ASSUME NEW in, ValidRows(in), in.rows # <<>>, NEW d
  PROVE  Preferred(in, d) \in DOMAIN in.rows
BY MinIsMember DEF Preferred, ValidRows

-----------------------------------------------------------------------------
(* The entries of a compiled catalog. *)
LEMMA GatewayEntryGood ==
  ASSUME NEW in, ValidInput(in), ValidRows(in), NEW r \in Roles, NEW h \in Harnesses,
         ServesGateway(in, h)
  PROVE  LET e == GatewayEntry(in, r, h) IN
         /\ GoodEntry(e) /\ e.role = r /\ e.harness = h /\ e.kind = "gateway"
         /\ e.default = IsDefault(in.defaults[r], h, "gateway")
         /\ AliasesDecide(e.models) /\ \A o \in e.models : o.alias \in DOMAIN in.rows
<1>. DEFINE d == in.defaults[r]
            isDefault == IsDefault(d, h, "gateway")
            os == GatewayOptions(in, d, isDefault)
<1>1. in.rows # <<>> /\ (h = "claude-code" => in.small # None)
  BY DEF ServesGateway
<1>2. isDefault \in BOOLEAN /\ (isDefault => d.source = "gateway")
  BY DEF IsDefault
<1>3. /\ \A o \in os : GoodOption(o)
      /\ \A o \in os : o.alias \in DOMAIN in.rows
      /\ AliasesDecide(os)
  <2>. HIDE DEF isDefault
  <2>. QED BY <1>1, <1>2, GatewayOptionsAre
<1>. HIDE DEF isDefault, os
<1>4. GatewayEntry(in, r, h)
        = [role |-> r, harness |-> h, kind |-> "gateway", default |-> isDefault,
           model |-> Preferred(in, d),
           small |-> IF h = "claude-code" THEN in.small ELSE None, models |-> os]
  BY DEF GatewayEntry, os, isDefault
<1>5. GoodEntry(GatewayEntry(in, r, h))
  BY <1>1, <1>2, <1>3, <1>4 DEF GoodEntry, Shaped, Kinds
<1>. QED BY <1>3, <1>4, <1>5 DEF isDefault

LEMMA ManagedEntryGood ==
  ASSUME NEW in, NEW r \in Roles, NEW h \in Harnesses
  PROVE  LET e == ManagedEntry(in, r, h) IN
         /\ GoodEntry(e) /\ e.role = r /\ e.harness = h /\ e.kind = "managed"
         /\ e.default = IsDefault(in.defaults[r], h, "native") /\ e.models = {}
BY DEF ManagedEntry, GoodEntry, Shaped, Kinds, IsDefault

LEMMA ExplicitEntryGood ==
  ASSUME NEW in, ValidRows(in), NEW r \in Roles, NEW h \in Harnesses, Explicit(in, h)
  PROVE  LET e == ExplicitEntry(in, r, h) IN
         /\ GoodEntry(e) /\ e.role = r /\ e.harness = h /\ e.kind = "explicit"
         /\ e.default = IsDefault(in.defaults[r], h, "native")
         /\ AliasesDecide(e.models) /\ \A o \in e.models : o.alias \in in.native[h]
<1>. DEFINE os == {NativeOption(a) : a \in in.native[h]}
            e == ExplicitEntry(in, r, h)
<1>1. in.native[h] \in SUBSET Nat
  BY DEF Explicit, ValidRows
<1>2. \A a \in in.native[h] : GoodOption(NativeOption(a)) /\ NativeOption(a).alias = a
  BY <1>1 DEF NativeOption, GoodOption
<1>3. /\ \A o \in os : GoodOption(o)
      /\ \A o \in os : o.alias \in in.native[h]
      /\ AliasesDecide(os)
  BY <1>2 DEF AliasesDecide
<1>. HIDE DEF os
<1>4. /\ e = [role |-> e.role, harness |-> e.harness, kind |-> e.kind, default |-> e.default,
              model |-> e.model, small |-> e.small, models |-> e.models]
      /\ e.role = r /\ e.harness = h /\ e.kind = "explicit" /\ e.small = None /\ e.models = os
      /\ e.default = IsDefault(in.defaults[r], h, "native") /\ e.default \in BOOLEAN
  BY DEF ExplicitEntry, IsDefault, os
<1>. HIDE DEF e
<1>5. GoodEntry(e)
  BY <1>3, <1>4 DEF GoodEntry, Shaped, Kinds
<1>. QED BY <1>3, <1>4, <1>5 DEF e

LEMMA OrdinaryEntryGood ==
  ASSUME NEW in, ValidInput(in), ValidRows(in), NEW r \in Roles, in.rows # <<>>
  PROVE  LET e == OrdinaryEntry(in, r) IN
         /\ GoodEntry(e) /\ e.role = r /\ e.kind = "ordinary"
<1>. DEFINE d == in.defaults[r]
            isDefault == d.source = "gateway"
            os == GatewayOptions(in, d, isDefault)
            e == OrdinaryEntry(in, r)
<1>1. /\ \A o \in os : GoodOption(o)
      /\ \A a \in DOMAIN in.rows : a \in Aliases(os)
  <2>1. isDefault \in BOOLEAN /\ (isDefault => d.source = "gateway")
    OBVIOUS
  <2>. HIDE DEF isDefault
  <2>. QED BY <2>1, GatewayOptionsAre
<1>2. Preferred(in, d) \in DOMAIN in.rows
  BY PreferredServed
<1>. HIDE DEF os
<1>3. /\ e = [role |-> e.role, harness |-> e.harness, kind |-> e.kind, default |-> e.default,
              model |-> e.model, small |-> e.small, models |-> e.models]
      /\ e.role = r /\ e.kind = "ordinary" /\ e.small = None /\ e.models = os
      /\ e.default = FALSE /\ e.model = Preferred(in, d)
  BY DEF OrdinaryEntry, os
<1>. HIDE DEF e
<1>4. GoodEntry(e)
  BY <1>1, <1>2, <1>3 DEF GoodEntry, Shaped, Kinds
<1>. QED BY <1>3, <1>4 DEF e

(* An entry of the compiled catalog is one of these. *)
LEMMA CompiledFrom ==
  ASSUME NEW in, NEW e \in CompileCatalog(in)
  PROVE  \/ \E r \in Roles, h \in Harnesses : ServesGateway(in, h) /\ e = GatewayEntry(in, r, h)
         \/ \E r \in Roles, h \in Harnesses : Managed(in, h) /\ e = ManagedEntry(in, r, h)
         \/ \E r \in Roles, h \in Harnesses : Explicit(in, h) /\ e = ExplicitEntry(in, r, h)
         \/ \E r \in Roles : in.rows # <<>> /\ e = OrdinaryEntry(in, r)
BY DEF CompileCatalog

(* It is decided by its role, its harness and its kind. *)
LEMMA CompiledIs ==
  ASSUME NEW in, ValidInput(in), ValidRows(in), NEW e \in CompileCatalog(in)
  PROVE  /\ GoodEntry(e) /\ e.role \in Roles
         /\ e.kind = "gateway" => /\ e = GatewayEntry(in, e.role, e.harness)
                                  /\ e.default = IsDefault(in.defaults[e.role], e.harness, "gateway")
                                  /\ AliasesDecide(e.models)
                                  /\ \A o \in e.models : o.alias \in DOMAIN in.rows
         /\ e.kind = "managed" => /\ e = ManagedEntry(in, e.role, e.harness)
                                  /\ e.default = IsDefault(in.defaults[e.role], e.harness, "native")
                                  /\ Managed(in, e.harness)
         /\ e.kind = "explicit" => /\ e = ExplicitEntry(in, e.role, e.harness)
                                   /\ e.default = IsDefault(in.defaults[e.role], e.harness, "native")
                                   /\ Explicit(in, e.harness) /\ AliasesDecide(e.models)
                                   /\ \A o \in e.models : o.alias \in in.native[e.harness]
         /\ e.kind = "ordinary" => e = OrdinaryEntry(in, e.role)
<1>1. CASE \E r \in Roles, h \in Harnesses : ServesGateway(in, h) /\ e = GatewayEntry(in, r, h)
  BY <1>1, GatewayEntryGood
<1>2. CASE \E r \in Roles, h \in Harnesses : Managed(in, h) /\ e = ManagedEntry(in, r, h)
  <2>1. PICK r \in Roles, h \in Harnesses : Managed(in, h) /\ e = ManagedEntry(in, r, h)
    BY <1>2
  <2>2. /\ GoodEntry(e) /\ e.role = r /\ e.harness = h /\ e.kind = "managed"
        /\ e.default = IsDefault(in.defaults[r], h, "native")
    BY <2>1, ManagedEntryGood
  <2>. QED BY <2>1, <2>2
<1>3. CASE \E r \in Roles, h \in Harnesses : Explicit(in, h) /\ e = ExplicitEntry(in, r, h)
  BY <1>3, ExplicitEntryGood
<1>4. CASE \E r \in Roles : in.rows # <<>> /\ e = OrdinaryEntry(in, r)
  BY <1>4, OrdinaryEntryGood
<1>. QED BY <1>1, <1>2, <1>3, <1>4, CompiledFrom

LEMMA CompiledGood ==
  ASSUME NEW in, ValidInput(in), ValidRows(in)
  PROVE  GoodCatalog(CompileCatalog(in))
<1>. DEFINE C == CompileCatalog(in)
<1>. HIDE DEF C
<1>1. ASSUME NEW e \in C, NEW f \in C, e.role = f.role, e.harness = f.harness \/ e.kind = "ordinary",
             e.kind = f.kind
      PROVE  e = f
  BY <1>1, CompiledIs DEF GoodEntry, Shaped, Kinds, C
<1>2. ASSUME NEW e \in C, NEW f \in C, e.default, f.default, e.role = f.role PROVE e = f
  <2>1. e.kind # "ordinary" /\ f.kind # "ordinary"
    BY <1>2, CompiledIs DEF GoodEntry, C
  <2>2. e.harness = f.harness /\ (e.kind = "gateway" <=> f.kind = "gateway")
    BY <1>2, <2>1, CompiledIs DEF GoodEntry, Shaped, Kinds, IsDefault, C
  <2>3. e.kind = f.kind
    BY <2>1, <2>2, CompiledIs DEF GoodEntry, Shaped, Kinds, Managed, Explicit, C
  <2>. QED BY <1>1, <1>2, <2>2, <2>3
<1>3. ASSUME NEW e \in C, NEW f \in C, Related(e, f), NEW o \in e.models, NEW p \in f.models,
             o.alias = p.alias
      PROVE  e = f /\ o = p
  <2>1. /\ e.kind \in {"gateway", "explicit"} /\ f.kind \in {"gateway", "explicit"}
        /\ e.role = f.role /\ e.harness = f.harness /\ e.harness \in Harnesses
    BY <1>3, CompiledIs DEF GoodEntry, Shaped, Kinds, Related, C
  <2>2. e.kind = f.kind
    BY <1>3, <2>1, CompiledIs DEF ValidInput, C
  <2>3. e = f
    BY <1>1, <2>1, <2>2
  <2>. QED BY <1>3, <2>1, <2>3, CompiledIs DEF AliasesDecide, C
<1>4. \A e \in C : GoodEntry(e)
  BY CompiledIs DEF C
<1>5. GoodCatalog(C)
  BY <1>1, <1>2, <1>3, <1>4 DEF GoodCatalog
<1>. QED BY <1>5 DEF C

-----------------------------------------------------------------------------
(* What the filter keeps of an ACP entry. *)
Kept(g, e, ds) ==
  /\ g.role = e.role /\ g.harness = e.harness /\ g.kind = e.kind /\ g.default = e.default
  /\ g.small = e.small /\ Shaped(g)
  /\ IF e.kind = "managed" THEN g = e /\ ds[e.harness].managed
     ELSE /\ g.models = KeptOptions(e, ds[e.harness])
          /\ g.model \in Aliases(g.models)
          /\ e.small # None => e.small \in Aliases(g.models)

LEMMA KeptOptionsGood ==
  ASSUME NEW e, GoodEntry(e), e.kind \in {"gateway", "explicit"}, NEW d
  PROVE  \A o \in KeptOptions(e, d) :
           /\ GoodOption(o)
           /\ e.kind = "gateway" => \A t \in Targets(o) : t \in d.gateway
           /\ e.kind = "explicit" => o \in e.models /\ o.alias \in d.native
           /\ \E p \in e.models : /\ p.alias = o.alias
                                  /\ e.kind = "explicit" => o = p
                                  /\ e.kind = "gateway" =>
                                       o = [p EXCEPT !.efforts =
                                              {f \in p.efforts : Target(p, f) \in d.gateway}]
<1>1. CASE e.kind = "explicit"
  BY <1>1 DEF KeptOptions, GoodEntry, Shaped
<1>2. CASE e.kind = "gateway"
  <2>1. ASSUME NEW p \in e.models, d.gatewayReady /\ Target(p, p.effort) \in d.gateway,
               NEW o, o = [p EXCEPT !.efforts = {f \in p.efforts : Target(p, f) \in d.gateway}]
        PROVE  /\ GoodOption(o) /\ o.alias = p.alias
               /\ \A t \in Targets(o) : t \in d.gateway
    <3>1. GoodOption(p)
      BY DEF GoodEntry, Shaped
    <3>2. /\ o.alias = p.alias /\ o.effort = p.effort
          /\ o.efforts = {f \in p.efforts : Target(p, f) \in d.gateway}
          /\ o = [alias |-> o.alias, effort |-> o.effort, efforts |-> o.efforts]
      BY <2>1, <3>1 DEF GoodOption
    <3>3. \A f : Target(o, f) = Target(p, f)
      BY <3>2 DEF Target
    <3>. QED BY <2>1, <3>1, <3>2, <3>3 DEF GoodOption, Targets
  <2>2. KeptOptions(e, d) = {[o EXCEPT !.efforts = {f \in o.efforts : Target(o, f) \in d.gateway}] :
          o \in {p \in e.models : d.gatewayReady /\ Target(p, p.effort) \in d.gateway}}
    BY <1>2 DEF KeptOptions
  <2>. QED BY <1>2, <2>1, <2>2
<1>. QED BY <1>1, <1>2

LEMMA AdmittedKept ==
  ASSUME NEW e, GoodEntry(e), e.kind # "ordinary", NEW ds, NEW g \in Admitted(e, ds)
  PROVE  Kept(g, e, ds)
<1>. DEFINE d == ds[e.harness]
            kept == KeptOptions(e, d)
<1>1. CASE e.kind = "managed"
  BY <1>1 DEF Admitted, Kept, GoodEntry
<1>2. CASE e.kind # "managed"
  <2>1. Survives(e, kept) /\ g = Narrowed(e, kept)
    BY <1>2 DEF Admitted
  <2>2. e.kind \in {"gateway", "explicit"}
    BY <1>2 DEF GoodEntry, Shaped, Kinds
  <2>3. \A o \in kept : GoodOption(o)
    BY <2>2, KeptOptionsGood
  <2>. HIDE DEF kept
  <2>4. Aliases(kept) \in SUBSET Nat /\ Aliases(kept) # {}
    BY <2>1, <2>3 DEF Aliases, Survives, GoodOption
  <2>5. Min(Aliases(kept)) \in Aliases(kept)
    BY <2>4, MinIsMember
  <2>6. /\ g = [role |-> g.role, harness |-> g.harness, kind |-> g.kind, default |-> g.default,
                model |-> g.model, small |-> g.small, models |-> g.models]
        /\ g.role = e.role /\ g.harness = e.harness /\ g.kind = e.kind /\ g.default = e.default
        /\ g.small = e.small /\ g.models = kept
        /\ g.model = IF e.model \in Aliases(kept) THEN e.model ELSE Min(Aliases(kept))
    BY <2>1 DEF Narrowed, GoodEntry, Shaped
  <2>7. e.small # None => e.small \in Aliases(kept)
    BY <2>1 DEF Survives
  <2>8. Shaped(g)
    BY <2>3, <2>6 DEF GoodEntry, Shaped
  <2>. QED BY <1>2, <2>5, <2>6, <2>7, <2>8 DEF Kept, kept
<1>. QED BY <1>1, <1>2

-----------------------------------------------------------------------------
(* The catalog before and after its defaults are repaired. *)
Admit(C, ds) ==
  {e \in C : e.kind = "ordinary"}
  \cup UNION {Admitted(e, ds) : e \in {f \in C : f.kind # "ordinary"}}

From(g, e, ds) == IF e.kind = "ordinary" THEN g = e ELSE g \in Admitted(e, ds)

HasDefault(A, r) == \E e \in A : e.role = r /\ e.default
HasOrdinary(A, r) == \E e \in A : e.role = r /\ e.kind = "ordinary"
Repaired(A, g) == IF g.kind = "ordinary" /\ ~HasDefault(A, g.role)
                  THEN [g EXCEPT !.default = TRUE] ELSE g

LEMMA FilterIs ==
  ASSUME NEW C, NEW ds
  PROVE  FilterCatalog(C, ds) =
           {Repaired(Admit(C, ds), g) :
              g \in {f \in Admit(C, ds) : \/ HasDefault(Admit(C, ds), f.role)
                                          \/ HasOrdinary(Admit(C, ds), f.role)}}
BY DEF FilterCatalog, RepairDefaults, Admit, HasDefault, HasOrdinary, Repaired

LEMMA AdmitFrom ==
  ASSUME NEW C, GoodCatalog(C), NEW ds, NEW g \in Admit(C, ds)
  PROVE  \E e \in C : /\ From(g, e, ds) /\ GoodEntry(e) /\ Shaped(g)
                      /\ e.kind # "ordinary" => Kept(g, e, ds)
                      /\ g.role = e.role /\ g.harness = e.harness /\ g.kind = e.kind
                      /\ g.default = e.default /\ g.small = e.small
<1>1. PICK e \in C : From(g, e, ds)
  BY DEF Admit, From
<1>2. GoodEntry(e)
  BY DEF GoodCatalog
<1>3. CASE e.kind = "ordinary"
  BY <1>1, <1>2, <1>3 DEF From, GoodEntry
<1>4. CASE e.kind # "ordinary"
  <2>1. Kept(g, e, ds)
    BY <1>1, <1>2, <1>4, AdmittedKept DEF From
  <2>. QED BY <1>1, <1>2, <1>4, <2>1 DEF Kept
<1>. QED BY <1>3, <1>4

LEMMA FromOne ==
  ASSUME NEW e, NEW ds, NEW g, NEW f, From(g, e, ds), From(f, e, ds)
  PROVE  g = f
BY DEF From, Admitted

LEMMA AdmitDefaults ==
  ASSUME NEW C, GoodCatalog(C), NEW ds, NEW g \in Admit(C, ds), NEW f \in Admit(C, ds),
         g.role = f.role
  PROVE  /\ g.default /\ f.default => g = f
         /\ g.kind = "ordinary" => ~g.default
         /\ g.kind = "ordinary" /\ f.kind = "ordinary" => g = f
<1>1. PICK e \in C : /\ From(g, e, ds) /\ GoodEntry(e)
                     /\ g.role = e.role /\ g.kind = e.kind /\ g.default = e.default
  BY AdmitFrom
<1>2. PICK d \in C : /\ From(f, d, ds) /\ GoodEntry(d)
                     /\ f.role = d.role /\ f.kind = d.kind /\ f.default = d.default
  BY AdmitFrom
<1>3. g.kind = "ordinary" => ~g.default
  BY <1>1 DEF GoodEntry
<1>4. g.default /\ f.default => e = d
  BY <1>1, <1>2 DEF GoodCatalog
<1>5. g.kind = "ordinary" /\ f.kind = "ordinary" => e = d
  BY <1>1, <1>2 DEF GoodCatalog
<1>6. e = d => g = f
  BY <1>1, <1>2, FromOne
<1>. QED BY <1>3, <1>4, <1>5, <1>6

(* An entry of the filtered catalog is an admitted one, but for its default. *)
LEMMA FilteredFrom ==
  ASSUME NEW C, GoodCatalog(C), NEW ds, NEW x \in FilterCatalog(C, ds)
  PROVE  \E g \in Admit(C, ds) :
           /\ x = Repaired(Admit(C, ds), g)
           /\ HasDefault(Admit(C, ds), g.role) \/ HasOrdinary(Admit(C, ds), g.role)
           /\ x.role = g.role /\ x.harness = g.harness /\ x.kind = g.kind
           /\ x.model = g.model /\ x.small = g.small /\ x.models = g.models
           /\ g.kind # "ordinary" \/ HasDefault(Admit(C, ds), g.role) => x = g
<1>1. PICK g \in Admit(C, ds) :
           /\ x = Repaired(Admit(C, ds), g)
           /\ HasDefault(Admit(C, ds), g.role) \/ HasOrdinary(Admit(C, ds), g.role)
  BY FilterIs
<1>2. Shaped(g)
  BY AdmitFrom
<1>3. CASE g.kind = "ordinary" /\ ~HasDefault(Admit(C, ds), g.role)
  <2>1. x = [g EXCEPT !.default = TRUE]
    BY <1>1, <1>3 DEF Repaired
  <2>2. g = [role |-> g.role, harness |-> g.harness, kind |-> g.kind, default |-> g.default,
             model |-> g.model, small |-> g.small, models |-> g.models]
    BY <1>2 DEF Shaped
  <2>3. x = [role |-> g.role, harness |-> g.harness, kind |-> g.kind, default |-> TRUE,
             model |-> g.model, small |-> g.small, models |-> g.models]
    BY <2>1, <2>2
  <2>4. /\ x.role = g.role /\ x.harness = g.harness /\ x.kind = g.kind
        /\ x.model = g.model /\ x.small = g.small /\ x.models = g.models
    BY <2>3
  <2>. QED BY <1>1, <1>3, <2>4
<1>4. CASE ~(g.kind = "ordinary" /\ ~HasDefault(Admit(C, ds), g.role))
  BY <1>1, <1>4 DEF Repaired
<1>. QED BY <1>3, <1>4

LEMMA FilterOneDefault ==
  ASSUME NEW C, GoodCatalog(C), NEW ds, NEW x \in FilterCatalog(C, ds)
  PROVE  \E d \in FilterCatalog(C, ds) :
           /\ {e \in FilterCatalog(C, ds) : e.role = x.role /\ e.default} = {d}
           /\ \/ d.kind = "ordinary"
              \/ \E e \in C : /\ e.default /\ e.role = x.role
                              /\ <<e.harness, e.kind>> = <<d.harness, d.kind>>
<1>. DEFINE A == Admit(C, ds)
            F == FilterCatalog(C, ds)
            r == x.role
<1>1. F = {Repaired(A, g) : g \in {f \in A : HasDefault(A, f.role) \/ HasOrdinary(A, f.role)}}
  BY FilterIs
<1>2. \A y \in F : \E g \in A : /\ y = Repaired(A, g) /\ y.role = g.role
                                /\ HasDefault(A, g.role) \/ HasOrdinary(A, g.role)
                                /\ g.kind # "ordinary" \/ HasDefault(A, g.role) => y = g
  BY FilteredFrom
<1>3. \A g, f \in A : g.role = f.role => /\ g.default /\ f.default => g = f
                                         /\ g.kind = "ordinary" => ~g.default
                                         /\ g.kind = "ordinary" /\ f.kind = "ordinary" => g = f
  BY AdmitDefaults
<1>4. \A g \in A : /\ Shaped(g)
                   /\ \E e \in C : /\ e.role = g.role /\ e.harness = g.harness
                                   /\ e.kind = g.kind /\ e.default = g.default
  BY AdmitFrom
<1>. HIDE DEF A, F
<1>5. CASE HasDefault(A, r)
  <2>1. PICK d \in A : d.role = r /\ d.default
    BY <1>5 DEF HasDefault
  <2>2. d \in F
    BY <1>1, <1>5, <2>1 DEF Repaired
  <2>3. {e \in F : e.role = r /\ e.default} = {d}
    <3>1. ASSUME NEW e \in F, e.role = r, e.default PROVE e = d
      BY <1>2, <1>3, <1>5, <2>1, <3>1
    <3>. QED BY <2>1, <2>2, <3>1
  <2>4. \E e \in C : e.default /\ e.role = r /\ <<e.harness, e.kind>> = <<d.harness, d.kind>>
    BY <1>4, <2>1
  <2>. QED BY <2>2, <2>3, <2>4 DEF F
<1>6. CASE ~HasDefault(A, r)
  <2>1. HasOrdinary(A, r)
    BY <1>2, <1>6 DEF F
  <2>2. PICK o \in A : o.role = r /\ o.kind = "ordinary"
    BY <2>1 DEF HasOrdinary
  <2>. DEFINE d == [o EXCEPT !.default = TRUE]
  <2>3. d = Repaired(A, o)
    BY <1>6, <2>2 DEF Repaired
  <2>4. d \in F
    BY <1>1, <2>1, <2>2, <2>3
  <2>5. d.role = r /\ d.default /\ d.kind = "ordinary"
    BY <1>4, <2>2 DEF Shaped
  <2>. HIDE DEF d
  <2>6. ASSUME NEW e \in F, e.role = r, e.default PROVE e = d
    <3>1. PICK g \in A : /\ e = Repaired(A, g) /\ g.role = r
                         /\ g.kind # "ordinary" => e = g
      BY <1>2, <2>6
    <3>2. ~g.default
      BY <1>6, <3>1 DEF HasDefault
    <3>3. g.kind = "ordinary"
      BY <2>6, <3>1, <3>2
    <3>4. g = o
      BY <1>3, <2>2, <3>1, <3>3
    <3>. QED BY <2>3, <3>1, <3>4
  <2>. QED BY <2>4, <2>5, <2>6 DEF F
<1>. QED BY <1>5, <1>6

(* What the probes admitted, a child can be built from. *)
LEMMA FilterWorks ==
  ASSUME NEW C, GoodCatalog(C), NEW ds
  PROVE  WorkingCatalog(FilterCatalog(C, ds))
<1>. DEFINE A == Admit(C, ds)
<1>1. ASSUME NEW g \in A
      PROVE  /\ \A o \in g.models : o.effort \in o.efforts
             /\ g.kind = "gateway" /\ g.harness = "claude-code" => g.small # None
             /\ g.small # None => g.small \in Aliases(g.models)
  <2>1. PICK e \in C : /\ GoodEntry(e) /\ Shaped(g)
                       /\ e.kind # "ordinary" => Kept(g, e, ds)
                       /\ g.kind = e.kind /\ g.harness = e.harness /\ g.small = e.small
    BY AdmitFrom
  <2>. QED BY <2>1 DEF GoodEntry, Shaped, GoodOption, Kept
<1>2. ASSUME NEW g \in A, NEW f \in A, Related(g, f), NEW o \in g.models, NEW p \in f.models,
             o.alias = p.alias
      PROVE  o = p
  <2>1. PICK e \in C : GoodEntry(e) /\ Kept(g, e, ds) /\ g.kind = e.kind
    BY <1>2, AdmitFrom DEF Related
  <2>2. PICK d \in C : GoodEntry(d) /\ Kept(f, d, ds) /\ f.kind = d.kind
    BY <1>2, AdmitFrom DEF Related
  <2>3. Related(e, d)
    BY <1>2, <2>1, <2>2 DEF Related, Kept
  <2>4. e.kind \in {"gateway", "explicit"} /\ d.kind \in {"gateway", "explicit"}
    BY <1>2, <2>1, <2>2, <2>3 DEF Related, GoodEntry, Shaped, Kinds, Kept
  <2>5. o \in KeptOptions(e, ds[e.harness]) /\ p \in KeptOptions(d, ds[d.harness])
    BY <1>2, <2>1, <2>2, <2>4 DEF Kept
  <2>6. PICK oo \in e.models :
           /\ oo.alias = o.alias
           /\ e.kind = "explicit" => o = oo
           /\ e.kind = "gateway" =>
                o = [oo EXCEPT !.efforts = {k \in oo.efforts : Target(oo, k) \in ds[e.harness].gateway}]
    BY <2>1, <2>4, <2>5, KeptOptionsGood
  <2>7. PICK pp \in d.models :
           /\ pp.alias = p.alias
           /\ d.kind = "explicit" => p = pp
           /\ d.kind = "gateway" =>
                p = [pp EXCEPT !.efforts = {k \in pp.efforts : Target(pp, k) \in ds[d.harness].gateway}]
    BY <2>2, <2>4, <2>5, KeptOptionsGood
  <2>8. e = d /\ oo = pp
    BY <1>2, <2>3, <2>6, <2>7 DEF GoodCatalog
  <2>. QED BY <2>4, <2>6, <2>7, <2>8
<1>3. \A x \in FilterCatalog(C, ds) : \E g \in A :
        /\ x.role = g.role /\ x.harness = g.harness /\ x.kind = g.kind
        /\ x.small = g.small /\ x.models = g.models
  BY FilteredFrom
<1>. HIDE DEF A
<1>. QED BY <1>1, <1>2, <1>3 DEF WorkingCatalog, Related

-----------------------------------------------------------------------------
(* The inductive invariant. *)
Shape ==
  /\ executable \in [Harnesses -> {"none", "not runnable", "runnable"}]
  /\ cancelled \in BOOLEAN
  /\ at \in {"claude-code", "codex", "dispatch", "join", "merge", "done"}
  /\ outcome \in [Harnesses -> {"unseen", "no executable", "not runnable", "queued"}]
  /\ profile \in [Harnesses -> {"idle", "started", "concurrent", "natives", "done"}]
  /\ gateway \in [Harnesses -> {"off", "waiting", "probing", "done"}]
  /\ managed \in [Harnesses -> {"off", "waiting", "done"}]
  /\ listener \in [Harnesses -> BOOLEAN]
  /\ DOMAIN todo = Harnesses /\ DOMAIN nativeTodo = Harnesses /\ DOMAIN decision = Harnesses
  /\ diagnostics \subseteq Harnesses \X {"no executable", "not runnable", "preflight failed",
                                         "models not advertised"}

\* A decision is made of targets and aliases of the catalog that answered.
Decided(h) ==
  LET d == decision[h] IN
  /\ d = [gateway |-> d.gateway, gatewayReady |-> d.gatewayReady, native |-> d.native,
          managed |-> d.managed]
  /\ d.gatewayReady \in BOOLEAN /\ d.managed \in BOOLEAN
  /\ todo[h] \subseteq GatewayTargets(h) /\ d.gateway \subseteq GatewayTargets(h)
  /\ nativeTodo[h] \subseteq NativeAliases(h) /\ d.native \subseteq NativeAliases(h)
  /\ \A t \in d.gateway : <<h, "gateway", t>> \in answered
  /\ \A a \in d.native : <<h, "native", a>> \in answered
  /\ d.managed => <<h, "native", None>> \in answered

\* The probes of a harness run inside its goroutine, and that inside the join.
Nested(h) ==
  /\ listener[h] <=> gateway[h] = "probing"
  /\ profile[h] \in {"idle", "started"} => gateway[h] = "off" /\ managed[h] = "off"
  /\ profile[h] \in {"natives", "done"} => ProbesEnded(h)
  /\ at \in {"claude-code", "codex", "dispatch"} => profile[h] = "idle"
  /\ at \in {"merge", "done"} => profile[h] \in {"idle", "done"}

Compiled == \E in \in Inputs : ValidInput(in) /\ entries = CompileCatalog(in)

Results ==
  OnlyAnsweredSurvive /\ OneDefaultPerRole /\ (at = "done" => WorkingCatalog(result))

IInv == Shape /\ Compiled /\ Results /\ \A h \in Harnesses : Decided(h) /\ Nested(h)

LEMMA CatalogGood == Compiled => GoodCatalog(entries)
BY PreflightAssumption, CompiledGood DEF Compiled, ValidRows

LEMMA InitIInv == Init => IInv
<1>. SUFFICES ASSUME Init PROVE IInv
  OBVIOUS
<1>1. Shape
  BY DEF Init, Shape
<1>2. Compiled
  BY DEF Init, Compiled
<1>3. Results
  BY DEF Init, Results, OnlyAnsweredSurvive, OneDefaultPerRole
<1>4. ASSUME NEW h \in Harnesses PROVE Decided(h) /\ Nested(h)
  BY <1>4 DEF Init, Decided, NoDecision, Nested
<1>. QED BY <1>1, <1>2, <1>3, <1>4 DEF IInv

(* What has been admitted stays true while the answers only grow. *)
LEMMA ResultsKept ==
  ASSUME Results, result' = result, entries' = entries, answered \subseteq answered',
         at' = "done" => at = "done"
  PROVE  Results'
BY DEF Results, OnlyAnsweredSurvive, OneDefaultPerRole

LEMMA OthersDecided ==
  ASSUME NEW h \in Harnesses, Decided(h), entries' = entries, answered \subseteq answered',
         todo'[h] = todo[h], nativeTodo'[h] = nativeTodo[h], decision'[h] = decision[h]
  PROVE  Decided(h)'
<1>1. GatewayTargets(h)' = GatewayTargets(h) /\ NativeAliases(h)' = NativeAliases(h)
  BY DEF GatewayTargets, NativeAliases
<1>. QED BY <1>1 DEF Decided

LEMMA OthersNested ==
  ASSUME NEW h \in Harnesses, Nested(h), at' = at, profile'[h] = profile[h],
         gateway'[h] = gateway[h], managed'[h] = managed[h], listener'[h] = listener[h]
  PROVE  Nested(h)'
BY DEF Nested, ProbesEnded

(* A step of the goroutines of harness k. *)
LEMMA WorkKeeps ==
  ASSUME IInv, NEW k \in Harnesses, Work(k), Shape', Decided(k)', Nested(k)',
         answered \subseteq answered',
         \A h \in Harnesses \ {k} :
           /\ todo'[h] = todo[h] /\ nativeTodo'[h] = nativeTodo[h] /\ decision'[h] = decision[h]
           /\ profile'[h] = profile[h] /\ gateway'[h] = gateway[h]
           /\ managed'[h] = managed[h] /\ listener'[h] = listener[h]
  PROVE  IInv'
<1>1. entries' = entries /\ result' = result /\ at' = at
  BY DEF Work, StartProfile, OpenListener, ProbeClaudeGateway, ProbeCodexGateway, ProbeManaged,
         JoinProfile, ProbeNative, env, merged
<1>2. Compiled' /\ Results'
  BY <1>1, ResultsKept DEF IInv, Compiled
<1>3. ASSUME NEW h \in Harnesses \ {k} PROVE Decided(h)' /\ Nested(h)'
  BY <1>1, OthersDecided, OthersNested DEF IInv
<1>. QED BY <1>2, <1>3 DEF IInv

LEMMA StartProfileStep ==
  ASSUME IInv, NEW k \in Harnesses, StartProfile(k)
  PROVE  IInv'
<1>. USE DEF env, merged, StartProfile
<1>1. Shape' /\ Decided(k)'
  BY OthersDecided DEF IInv, Shape
<1>2. Nested(k)'
  BY DEF IInv, Shape, Nested, ProbesEnded
<1>3. /\ answered \subseteq answered'
      /\ \A h \in Harnesses \ {k} :
           /\ todo'[h] = todo[h] /\ nativeTodo'[h] = nativeTodo[h] /\ decision'[h] = decision[h]
           /\ profile'[h] = profile[h] /\ gateway'[h] = gateway[h]
           /\ managed'[h] = managed[h] /\ listener'[h] = listener[h]
  BY DEF IInv, Shape
<1>4. Work(k)
  BY DEF Work
<1>. HIDE DEF env, merged, StartProfile
<1>. QED BY <1>1, <1>2, <1>3, <1>4, WorkKeeps

LEMMA OpenListenerStep ==
  ASSUME IInv, NEW k \in Harnesses, OpenListener(k)
  PROVE  IInv'
<1>1. /\ UNCHANGED <<entries, executable, cancelled, at, outcome, profile, managed, nativeTodo,
                     decision, answered, result, diagnostics>>
      /\ gateway[k] = "waiting"
  BY DEF OpenListener, env, merged
<1>2. CASE gateway' = [gateway EXCEPT ![k] = "done"] /\ UNCHANGED <<todo, listener>>
  <2>1. Shape'
    BY <1>1, <1>2 DEF IInv, Shape
  <2>2. Decided(k)'
    BY <1>1, <1>2, OthersDecided DEF IInv
  <2>3. Nested(k)'
    BY <1>1, <1>2 DEF IInv, Shape, Nested, ProbesEnded
  <2>4. \A h \in Harnesses \ {k} : gateway'[h] = gateway[h]
    BY <1>2 DEF IInv, Shape
  <2>. QED BY <1>1, <1>2, <2>1, <2>2, <2>3, <2>4, WorkKeeps DEF Work
<1>3. CASE /\ gateway' = [gateway EXCEPT ![k] = "probing"]
           /\ listener' = [listener EXCEPT ![k] = TRUE]
           /\ todo' = [todo EXCEPT ![k] = GatewayTargets(k)]
  <2>1. Shape'
    BY <1>1, <1>3 DEF IInv, Shape
  <2>2. Decided(k)'
    <3>1. /\ GatewayTargets(k)' = GatewayTargets(k) /\ NativeAliases(k)' = NativeAliases(k)
          /\ todo'[k] = GatewayTargets(k)
      BY <1>1, <1>3 DEF GatewayTargets, NativeAliases, IInv, Shape
    <3>. QED BY <1>1, <3>1 DEF IInv, Decided
  <2>3. Nested(k)'
    BY <1>1, <1>3 DEF IInv, Shape, Nested, ProbesEnded
  <2>4. \A h \in Harnesses \ {k} :
          todo'[h] = todo[h] /\ gateway'[h] = gateway[h] /\ listener'[h] = listener[h]
    BY <1>3 DEF IInv, Shape
  <2>. QED BY <1>1, <2>1, <2>2, <2>3, <2>4, WorkKeeps DEF Work
<1>. QED BY <1>2, <1>3 DEF OpenListener

LEMMA ProbeClaudeStep ==
  ASSUME IInv, NEW k \in Harnesses, ProbeClaudeGateway(k)
  PROVE  IInv'
<1>1. PICK ready \in Answers, advertised \in SUBSET todo[k] :
        LET accepted == IF ready THEN Accepted(todo[k], advertised) ELSE {} IN
        /\ answered' = answered \cup {<<k, "gateway", t>> : t \in IF ready THEN advertised ELSE {}}
        /\ decision' = [decision EXCEPT ![k].gateway = accepted,
                                        ![k].gatewayReady = accepted # {}]
  BY DEF ProbeClaudeGateway
<1>. USE DEF env, merged, EndGateway
<1>. DEFINE accepted == IF ready THEN Accepted(todo[k], advertised) ELSE {}
<1>2. /\ accepted \subseteq todo[k]
      /\ \A t \in accepted : <<k, "gateway", t>> \in answered'
  BY <1>1 DEF Accepted
<1>. HIDE DEF accepted
<1>3. decision' = [decision EXCEPT ![k].gateway = accepted, ![k].gatewayReady = accepted # {}]
  BY <1>1 DEF accepted
<1>4. answered \subseteq answered'
  BY <1>1
<1>5. /\ decision'[k] = [gateway |-> accepted, gatewayReady |-> accepted # {},
                         native |-> decision[k].native, managed |-> decision[k].managed]
      /\ DOMAIN decision' = Harnesses
      /\ \A h \in Harnesses \ {k} : decision'[h] = decision[h]
  <2>1. decision[k] = [gateway |-> decision[k].gateway, gatewayReady |-> decision[k].gatewayReady,
                       native |-> decision[k].native, managed |-> decision[k].managed]
    BY DEF IInv, Decided
  <2>2. DOMAIN decision = Harnesses
    BY DEF IInv, Shape
  <2>. QED BY <1>3, <2>1, <2>2
<1>6. /\ UNCHANGED <<entries, executable, cancelled, at, outcome, profile, managed, todo,
                     nativeTodo, result, diagnostics>>
      /\ gateway' = [gateway EXCEPT ![k] = "done"]
      /\ listener' = [listener EXCEPT ![k] = FALSE]
      /\ gateway[k] = "probing"
  BY DEF ProbeClaudeGateway
<1>7. Decided(k)'
  <2>1. /\ GatewayTargets(k)' = GatewayTargets(k) /\ NativeAliases(k)' = NativeAliases(k)
        /\ Decided(k)
    BY <1>6 DEF GatewayTargets, NativeAliases, IInv
  <2>2. accepted \subseteq GatewayTargets(k)
    BY <1>2, <2>1 DEF Decided
  <2>. QED BY <1>2, <1>4, <1>5, <1>6, <2>1, <2>2 DEF Decided
<1>8. Shape' /\ Nested(k)'
  BY <1>5, <1>6 DEF IInv, Shape, Nested, ProbesEnded
<1>9. Work(k)
  BY DEF Work
<1>10. \A h \in Harnesses \ {k} :
           /\ todo'[h] = todo[h] /\ nativeTodo'[h] = nativeTodo[h] /\ decision'[h] = decision[h]
           /\ profile'[h] = profile[h] /\ gateway'[h] = gateway[h]
           /\ managed'[h] = managed[h] /\ listener'[h] = listener[h]
  BY <1>5, <1>6 DEF IInv, Shape
<1>. QED BY <1>4, <1>7, <1>8, <1>9, <1>10, WorkKeeps

(* One more answer in a decision. *)
LEMMA DecisionGrows ==
  ASSUME IInv, NEW k \in Harnesses, entries' = entries, answered \subseteq answered',
         todo'[k] \subseteq todo[k], nativeTodo'[k] \subseteq nativeTodo[k],
         NEW G \in SUBSET GatewayTargets(k), NEW N \in SUBSET NativeAliases(k),
         NEW ready \in BOOLEAN, NEW m \in BOOLEAN,
         decision'[k] = [gateway |-> G, gatewayReady |-> ready, native |-> N, managed |-> m],
         \A t \in G : <<k, "gateway", t>> \in answered',
         \A a \in N : <<k, "native", a>> \in answered',
         m => <<k, "native", None>> \in answered'
  PROVE  Decided(k)'
<1>1. GatewayTargets(k)' = GatewayTargets(k) /\ NativeAliases(k)' = NativeAliases(k)
  BY DEF GatewayTargets, NativeAliases
<1>2. todo'[k] \subseteq GatewayTargets(k) /\ nativeTodo'[k] \subseteq NativeAliases(k)
  BY DEF IInv, Decided
<1>3. /\ decision'[k].gateway = G /\ decision'[k].gatewayReady = ready
      /\ decision'[k].native = N /\ decision'[k].managed = m
  OBVIOUS
<1>. QED BY <1>1, <1>2, <1>3 DEF Decided

LEMMA ProbeCodexStep ==
  ASSUME IInv, NEW k \in Harnesses, ProbeCodexGateway(k)
  PROVE  IInv'
<1>. DEFINE d == decision[k]
<1>1. /\ UNCHANGED <<entries, executable, cancelled, at, outcome, profile, managed, nativeTodo,
                     result, diagnostics>>
      /\ gateway[k] = "probing"
  BY DEF ProbeCodexGateway, env, merged
<1>2. Decided(k) /\ d = [gateway |-> d.gateway, gatewayReady |-> d.gatewayReady,
                         native |-> d.native, managed |-> d.managed]
  BY DEF IInv, Decided
<1>3. Work(k)
  BY DEF Work
<1>4. CASE EndGateway(k) /\ todo' = todo /\ answered' = answered
           /\ decision' \in {decision, [decision EXCEPT ![k].gatewayReady = d.gateway # {}]}
  <2>1. /\ Shape' /\ Nested(k)'
        /\ \A h \in Harnesses \ {k} : /\ decision'[h] = decision[h] /\ gateway'[h] = gateway[h]
                                      /\ listener'[h] = listener[h]
    BY <1>1, <1>2, <1>4 DEF IInv, Shape, Nested, ProbesEnded, EndGateway
  <2>2. CASE decision' = decision
    <3>1. Decided(k)'
      BY <1>1, <1>2, <1>4, <2>2, OthersDecided
    <3>. QED BY <1>1, <1>3, <1>4, <2>1, <3>1, WorkKeeps
  <2>3. CASE decision' = [decision EXCEPT ![k].gatewayReady = d.gateway # {}]
    <3>1. decision'[k] = [gateway |-> d.gateway, gatewayReady |-> d.gateway # {},
                          native |-> d.native, managed |-> d.managed]
      BY <1>2, <2>3 DEF IInv, Shape
    <3>2. Decided(k)'
      BY <1>1, <1>2, <1>4, <3>1, DecisionGrows DEF Decided
    <3>. QED BY <1>1, <1>3, <1>4, <2>1, <3>2, WorkKeeps
  <2>. QED BY <1>4, <2>2, <2>3
<1>5. CASE \E t \in todo[k], ready \in Answers :
             /\ todo' = [todo EXCEPT ![k] = @ \ {t}]
             /\ IF ready
                THEN /\ decision' = [decision EXCEPT ![k].gateway = @ \cup {t}]
                     /\ answered' = answered \cup {<<k, "gateway", t>>}
                ELSE UNCHANGED <<decision, answered>>
             /\ UNCHANGED <<gateway, listener>>
  <2>1. PICK t \in todo[k], ready \in Answers :
             /\ todo' = [todo EXCEPT ![k] = @ \ {t}]
             /\ IF ready
                THEN /\ decision' = [decision EXCEPT ![k].gateway = @ \cup {t}]
                     /\ answered' = answered \cup {<<k, "gateway", t>>}
                ELSE UNCHANGED <<decision, answered>>
             /\ UNCHANGED <<gateway, listener>>
    BY <1>5
  <2>2. /\ Shape' /\ Nested(k)' /\ todo'[k] \subseteq todo[k] /\ answered \subseteq answered'
        /\ \A h \in Harnesses \ {k} : decision'[h] = decision[h] /\ todo'[h] = todo[h]
    BY <1>1, <1>2, <2>1 DEF IInv, Shape, Nested, ProbesEnded
  <2>3. Decided(k)'
    <3>1. CASE decision' = decision
      BY <1>1, <1>2, <2>2, <3>1, DecisionGrows DEF Decided
    <3>2. CASE /\ decision' = [decision EXCEPT ![k].gateway = @ \cup {t}]
               /\ answered' = answered \cup {<<k, "gateway", t>>}
      <4>1. decision'[k] = [gateway |-> d.gateway \cup {t}, gatewayReady |-> d.gatewayReady,
                            native |-> d.native, managed |-> d.managed]
        BY <1>2, <3>2 DEF IInv, Shape
      <4>2. /\ d.gateway \cup {t} \in SUBSET GatewayTargets(k)
            /\ \A u \in d.gateway \cup {t} : <<k, "gateway", u>> \in answered'
        BY <1>2, <3>2 DEF Decided
      <4>. QED BY <1>1, <1>2, <2>2, <3>2, <4>1, <4>2, DecisionGrows DEF Decided
    <3>. QED BY <2>1, <3>1, <3>2
  <2>. QED BY <1>1, <1>3, <2>1, <2>2, <2>3, WorkKeeps
<1>. QED BY <1>4, <1>5 DEF ProbeCodexGateway

LEMMA ProbeManagedStep ==
  ASSUME IInv, NEW k \in Harnesses, ProbeManaged(k)
  PROVE  IInv'
<1>. DEFINE d == decision[k]
<1>1. PICK ready \in Answers :
        /\ decision' = [decision EXCEPT ![k].managed = ready]
        /\ answered' = answered \cup IF ready THEN {<<k, "native", None>>} ELSE {}
  BY DEF ProbeManaged
<1>2. /\ UNCHANGED <<entries, executable, cancelled, at, outcome, profile, gateway, todo,
                     nativeTodo, listener, result, diagnostics>>
      /\ managed' = [managed EXCEPT ![k] = "done"] /\ managed[k] = "waiting"
  BY DEF ProbeManaged, env, merged
<1>3. Decided(k) /\ d = [gateway |-> d.gateway, gatewayReady |-> d.gatewayReady,
                         native |-> d.native, managed |-> d.managed]
  BY DEF IInv, Decided
<1>4. /\ Shape' /\ Nested(k)' /\ answered \subseteq answered'
      /\ \A h \in Harnesses \ {k} : decision'[h] = decision[h] /\ managed'[h] = managed[h]
  BY <1>1, <1>2, <1>3 DEF IInv, Shape, Nested, ProbesEnded
<1>5. decision'[k] = [gateway |-> d.gateway, gatewayReady |-> d.gatewayReady,
                      native |-> d.native, managed |-> ready]
  BY <1>1, <1>3 DEF IInv, Shape
<1>6. ready \in BOOLEAN /\ (ready => <<k, "native", None>> \in answered')
  BY <1>1 DEF Answers
<1>7. Decided(k)'
  BY <1>2, <1>3, <1>4, <1>5, <1>6, DecisionGrows DEF Decided
<1>8. Work(k)
  BY DEF Work
<1>. QED BY <1>2, <1>4, <1>7, <1>8, WorkKeeps

LEMMA JoinProfileStep ==
  ASSUME IInv, NEW k \in Harnesses, JoinProfile(k)
  PROVE  IInv'
<1>1. /\ UNCHANGED <<entries, executable, cancelled, at, outcome, gateway, managed, todo, decision,
                     listener, answered, result, diagnostics>>
      /\ profile[k] = "concurrent" /\ ProbesEnded(k)
  BY DEF JoinProfile, env, merged
<1>2. /\ Shape' /\ Nested(k)'
      /\ \A h \in Harnesses \ {k} : profile'[h] = profile[h] /\ nativeTodo'[h] = nativeTodo[h]
  <2>1. \/ /\ profile' = [profile EXCEPT ![k] = "natives"]
           /\ nativeTodo' = [nativeTodo EXCEPT ![k] = NativeAliases(k)]
        \/ profile' = [profile EXCEPT ![k] = "done"] /\ UNCHANGED nativeTodo
    BY DEF JoinProfile
  <2>2. /\ DOMAIN nativeTodo' = Harnesses
        /\ \A h \in Harnesses \ {k} : profile'[h] = profile[h] /\ nativeTodo'[h] = nativeTodo[h]
        /\ profile' \in [Harnesses -> {"idle", "started", "concurrent", "natives", "done"}]
        /\ profile'[k] \in {"natives", "done"}
    BY <2>1 DEF IInv, Shape
  <2>3. Shape'
    BY <1>1, <2>2 DEF IInv, Shape
  <2>4. Nested(k)'
    BY <1>1, <2>2 DEF IInv, Nested, ProbesEnded
  <2>. QED BY <2>2, <2>3, <2>4
<1>3. Decided(k)'
  <2>1. GatewayTargets(k)' = GatewayTargets(k) /\ NativeAliases(k)' = NativeAliases(k)
    BY <1>1 DEF GatewayTargets, NativeAliases
  <2>2. nativeTodo'[k] \subseteq NativeAliases(k)
    BY DEF JoinProfile, IInv, Shape, Decided
  <2>. QED BY <1>1, <2>1, <2>2 DEF IInv, Decided
<1>4. Work(k)
  BY DEF Work
<1>. QED BY <1>1, <1>2, <1>3, <1>4, WorkKeeps

LEMMA ProbeNativeStep ==
  ASSUME IInv, NEW k \in Harnesses, ProbeNative(k)
  PROVE  IInv'
<1>. DEFINE d == decision[k]
<1>1. /\ UNCHANGED <<entries, executable, cancelled, at, outcome, gateway, managed, todo,
                     listener, result, diagnostics>>
      /\ profile[k] = "natives"
  BY DEF ProbeNative, env, merged
<1>2. Decided(k) /\ d = [gateway |-> d.gateway, gatewayReady |-> d.gatewayReady,
                         native |-> d.native, managed |-> d.managed]
  BY DEF IInv, Decided
<1>3. Work(k)
  BY DEF Work
<1>4. CASE profile' = [profile EXCEPT ![k] = "done"] /\ UNCHANGED <<nativeTodo, decision, answered>>
  <2>1. /\ Shape' /\ Nested(k)' /\ Decided(k)'
        /\ \A h \in Harnesses \ {k} : profile'[h] = profile[h]
    BY <1>1, <1>2, <1>4, OthersDecided DEF IInv, Shape, Nested, ProbesEnded
  <2>. QED BY <1>1, <1>3, <1>4, <2>1, WorkKeeps
<1>5. CASE /\ \E a \in nativeTodo[k], ready \in Answers :
                /\ nativeTodo' = [nativeTodo EXCEPT ![k] = @ \ {a}]
                /\ IF ready
                   THEN /\ decision' = [decision EXCEPT ![k].native = @ \cup {a}]
                        /\ answered' = answered \cup {<<k, "native", a>>}
                   ELSE UNCHANGED <<decision, answered>>
           /\ UNCHANGED profile
  <2>1. PICK a \in nativeTodo[k], ready \in Answers :
                /\ nativeTodo' = [nativeTodo EXCEPT ![k] = @ \ {a}]
                /\ IF ready
                   THEN /\ decision' = [decision EXCEPT ![k].native = @ \cup {a}]
                        /\ answered' = answered \cup {<<k, "native", a>>}
                   ELSE UNCHANGED <<decision, answered>>
    BY <1>5
  <2>2. /\ Shape' /\ Nested(k)' /\ nativeTodo'[k] \subseteq nativeTodo[k]
        /\ answered \subseteq answered'
        /\ \A h \in Harnesses \ {k} : decision'[h] = decision[h] /\ nativeTodo'[h] = nativeTodo[h]
    <3>1. answered \subseteq answered'
      BY <2>1
    <3>2. /\ DOMAIN nativeTodo' = Harnesses /\ nativeTodo'[k] \subseteq nativeTodo[k]
          /\ \A h \in Harnesses \ {k} : nativeTodo'[h] = nativeTodo[h]
      BY <2>1 DEF IInv, Shape
    <3>3. DOMAIN decision' = Harnesses /\ \A h \in Harnesses \ {k} : decision'[h] = decision[h]
      BY <2>1 DEF IInv, Shape
    <3>4. Shape' /\ Nested(k)'
      BY <1>1, <1>5, <3>2, <3>3 DEF IInv, Shape, Nested, ProbesEnded
    <3>. QED BY <3>1, <3>2, <3>3, <3>4
  <2>3. Decided(k)'
    <3>1. CASE decision' = decision
      BY <1>1, <1>2, <2>2, <3>1, DecisionGrows DEF Decided
    <3>2. CASE /\ decision' = [decision EXCEPT ![k].native = @ \cup {a}]
               /\ answered' = answered \cup {<<k, "native", a>>}
      <4>1. decision'[k] = [gateway |-> d.gateway, gatewayReady |-> d.gatewayReady,
                            native |-> d.native \cup {a}, managed |-> d.managed]
        BY <1>2, <3>2 DEF IInv, Shape
      <4>2. /\ d.native \cup {a} \in SUBSET NativeAliases(k)
            /\ \A b \in d.native \cup {a} : <<k, "native", b>> \in answered'
        BY <1>2, <3>2 DEF Decided
      <4>. QED BY <1>1, <1>2, <2>2, <3>2, <4>1, <4>2, DecisionGrows DEF Decided
    <3>. QED BY <2>1, <3>1, <3>2
  <2>. QED BY <1>1, <1>3, <1>5, <2>2, <2>3, WorkKeeps
<1>. QED BY <1>4, <1>5 DEF ProbeNative

LEMMA WorkStep ==
  ASSUME IInv, NEW k \in Harnesses, Work(k)
  PROVE  IInv'
BY StartProfileStep, OpenListenerStep, ProbeClaudeStep, ProbeCodexStep, ProbeManagedStep,
   JoinProfileStep, ProbeNativeStep DEF Work

-----------------------------------------------------------------------------
(* The constructing goroutine up to the merge. *)
LEMMA MainKeeps ==
  ASSUME IInv, Shape', UNCHANGED <<entries, todo, nativeTodo, decision, answered, result>>,
         at' # "done" \/ at = "done", \A h \in Harnesses : Nested(h)'
  PROVE  IInv'
<1>1. Compiled' /\ Results'
  BY ResultsKept DEF IInv, Compiled
<1>2. \A h \in Harnesses : Decided(h)'
  BY OthersDecided DEF IInv
<1>. QED BY <1>1, <1>2 DEF IInv

LEMMA CancelStep == IInv /\ Cancel => IInv'
BY MainKeeps, OthersNested DEF Cancel, env, probing, merged, IInv, Shape

LEMMA CheckProfileStep == IInv /\ (\E h \in Harnesses : CheckProfile(h)) => IInv'
<1>. SUFFICES ASSUME IInv, NEW k \in Harnesses, CheckProfile(k) PROVE IInv'
  OBVIOUS
<1>1. /\ UNCHANGED <<entries, executable, cancelled, profile, gateway, managed, todo, nativeTodo,
                     decision, listener, answered, result, diagnostics>>
      /\ at \in {"claude-code", "codex"} /\ at' \in {"codex", "dispatch"}
  BY DEF CheckProfile, env, probing, merged, Harnesses
<1>2. Shape'
  BY <1>1 DEF CheckProfile, IInv, Shape
<1>3. \A h \in Harnesses : Nested(h)'
  BY <1>1 DEF IInv, Nested, ProbesEnded
<1>. QED BY <1>1, <1>2, <1>3, MainKeeps

LEMMA DispatchStep == IInv /\ Dispatch => IInv'
<1>. SUFFICES ASSUME IInv, Dispatch PROVE IInv'
  OBVIOUS
<1>1. /\ UNCHANGED <<entries, executable, cancelled, outcome, gateway, managed, todo, nativeTodo,
                     decision, listener, answered, result, diagnostics>>
      /\ at = "dispatch"
      /\ \/ at' = "join" /\ \A h \in Harnesses : profile'[h] \in {"started", "idle"}
         \/ at' = "merge" /\ UNCHANGED profile
      /\ profile' \in [Harnesses -> {"idle", "started", "concurrent", "natives", "done"}]
  BY DEF Dispatch, env, merged, IInv, Shape
<1>2. Shape'
  BY <1>1 DEF IInv, Shape
<1>3. \A h \in Harnesses : Nested(h)'
  BY <1>1 DEF IInv, Nested, ProbesEnded
<1>. QED BY <1>1, <1>2, <1>3, MainKeeps

LEMMA JoinStep == IInv /\ Join => IInv'
<1>. SUFFICES ASSUME IInv, Join PROVE IInv'
  OBVIOUS
<1>1. Shape' /\ \A h \in Harnesses : Nested(h)'
  BY DEF Join, env, probing, merged, IInv, Shape, Nested, ProbesEnded
<1>. QED BY <1>1, MainKeeps DEF Join, env, probing, merged

(* What the merge admits has answered. *)
LEMMA MergeAnswered ==
  ASSUME IInv, Merge
  PROVE  OnlyAnsweredSurvive'
<1>. DEFINE ds == [h \in Harnesses |-> IF h \in Unusable THEN NoDecision ELSE decision[h]]
<1>1. result' = FilterCatalog(entries, ds) /\ answered' = answered
  BY DEF Merge, probing
<1>2. GoodCatalog(entries)
  BY CatalogGood DEF IInv
<1>3. ASSUME NEW h \in Harnesses
      PROVE  /\ \A t \in ds[h].gateway : <<h, "gateway", t>> \in answered
             /\ \A a \in ds[h].native : <<h, "native", a>> \in answered
             /\ ds[h].managed => <<h, "native", None>> \in answered
  BY DEF NoDecision, IInv, Decided
<1>. HIDE DEF ds
<1>4. ASSUME NEW x \in FilterCatalog(entries, ds)
      PROVE  /\ x.kind = "gateway" =>
                  \A o \in x.models : \A t \in Targets(o) : <<x.harness, "gateway", t>> \in answered
             /\ x.kind = "explicit" =>
                  \A a \in Aliases(x.models) : <<x.harness, "native", a>> \in answered
             /\ x.kind = "managed" => <<x.harness, "native", None>> \in answered
             /\ x.kind # "managed" => x.model \in Aliases(x.models)
             /\ x.small # None => x.small \in Aliases(x.models)
             /\ \A o \in x.models : o.effort \in o.efforts
  <2>1. PICK g \in Admit(entries, ds) :
           /\ x.harness = g.harness /\ x.kind = g.kind
           /\ x.model = g.model /\ x.small = g.small /\ x.models = g.models
    BY <1>2, FilteredFrom
  <2>2. PICK e \in entries : /\ From(g, e, ds) /\ GoodEntry(e) /\ Shaped(g)
                             /\ e.kind # "ordinary" => Kept(g, e, ds)
                             /\ g.harness = e.harness /\ g.kind = e.kind /\ g.small = e.small
    BY <1>2, AdmitFrom
  <2>3. CASE e.kind = "ordinary"
    BY <2>1, <2>2, <2>3 DEF From, GoodEntry, Shaped, GoodOption
  <2>4. CASE e.kind = "managed"
    <3>1. e.harness \in Harnesses /\ ds[e.harness].managed /\ g = e
      BY <2>2, <2>4 DEF Kept, GoodEntry, Shaped
    <3>. QED BY <1>3, <2>1, <2>2, <2>4, <3>1 DEF GoodEntry
  <2>5. CASE e.kind \in {"gateway", "explicit"}
    <3>1. /\ e.harness \in Harnesses /\ g.models = KeptOptions(e, ds[e.harness])
          /\ g.model \in Aliases(g.models)
          /\ e.small # None => e.small \in Aliases(g.models)
      BY <2>2, <2>5 DEF Kept, GoodEntry, Shaped
    <3>2. \A o \in g.models :
            /\ GoodOption(o)
            /\ e.kind = "gateway" => \A t \in Targets(o) : t \in ds[e.harness].gateway
            /\ e.kind = "explicit" => o.alias \in ds[e.harness].native
      BY <2>2, <2>5, <3>1, KeptOptionsGood
    <3>3. \A o \in g.models : o.effort \in o.efforts
      BY <3>2 DEF GoodOption
    <3>. QED BY <1>3, <2>1, <2>2, <2>5, <3>1, <3>2, <3>3 DEF Aliases
  <2>. QED BY <2>2, <2>3, <2>4, <2>5 DEF GoodEntry, Shaped, Kinds
<1>. QED BY <1>1, <1>4 DEF OnlyAnsweredSurvive

LEMMA MergeStep == IInv /\ Merge => IInv'
<1>. SUFFICES ASSUME IInv, Merge PROVE IInv'
  OBVIOUS
<1>1. /\ UNCHANGED <<entries, executable, cancelled, outcome, profile, gateway, managed, todo,
                     nativeTodo, decision, listener, answered>>
      /\ at = "merge" /\ at' = "done"
  BY DEF Merge, env, probing
<1>2. Shape'
  <2>1. \A h \in Harnesses : outcome[h] \notin {"unseen", "queued"} =>
                               outcome[h] \in {"no executable", "not runnable"}
    BY DEF IInv, Shape
  <2>2. diagnostics' \subseteq Harnesses \X {"no executable", "not runnable", "preflight failed",
                                             "models not advertised"}
    <3>. DEFINE reasons == {"no executable", "not runnable", "preflight failed",
                            "models not advertised"}
    <3>1. /\ "preflight failed" \in reasons /\ "models not advertised" \in reasons
          /\ \A h \in Harnesses : outcome[h] \notin {"unseen", "queued"} => outcome[h] \in reasons
      BY <2>1
    <3>. HIDE DEF reasons
    <3>2. Unusable \subseteq Harnesses /\ ReducedModels(entries, result') \subseteq Harnesses
      BY DEF Unusable, ReducedModels
    <3>3. \A d \in diagnostics' : \E h \in Harnesses : \E why \in reasons : d = <<h, why>>
      BY <3>1, <3>2 DEF Merge
    <3>4. diagnostics' \subseteq Harnesses \X reasons
      BY <3>3
    <3>. QED BY <3>4 DEF reasons
  <2>. QED BY <1>1, <2>2 DEF IInv, Shape
<1>3. Compiled'
  BY <1>1 DEF IInv, Compiled
<1>4. OneDefaultPerRole' /\ WorkingCatalog(result')
  <2>. DEFINE ds == [h \in Harnesses |-> IF h \in Unusable THEN NoDecision ELSE decision[h]]
  <2>1. result' = FilterCatalog(entries, ds) /\ GoodCatalog(entries)
    BY CatalogGood DEF Merge, IInv
  <2>. HIDE DEF ds
  <2>. QED BY <1>1, <2>1, FilterOneDefault, FilterWorks DEF OneDefaultPerRole
<1>5. Results'
  BY <1>4, MergeAnswered DEF Results
<1>6. \A h \in Harnesses : Decided(h)' /\ Nested(h)'
  BY <1>1, OthersDecided DEF IInv, Nested, ProbesEnded
<1>. QED BY <1>2, <1>3, <1>5, <1>6 DEF IInv

LEMMA Inductive == Spec => []IInv
<1>1. IInv /\ UNCHANGED vars => IInv'
  <2>. SUFFICES ASSUME IInv, UNCHANGED vars PROVE IInv'
    OBVIOUS
  <2>1. Shape' /\ \A h \in Harnesses : Nested(h)'
    BY OthersNested DEF vars, IInv, Shape
  <2>. QED BY <2>1, MainKeeps DEF vars
<1>2. IInv /\ [Next]_vars => IInv'
  BY <1>1, WorkStep, CancelStep, CheckProfileStep, DispatchStep, JoinStep, MergeStep
     DEF Next, Main, Done
<1>. QED BY InitIInv, <1>2, PTL DEF Spec

-----------------------------------------------------------------------------
(* The type invariant, from any configurations (NewACPComposition,
   acpchildren.go:109-141). *)
THEOREM PreflightTyped == Spec => []TypeOK
<1>1. IInv => TypeOK
  <2>. SUFFICES ASSUME IInv PROVE TypeOK
    OBVIOUS
  <2>1. listener = [h \in Harnesses |-> gateway[h] = "probing"]
    BY DEF IInv, Shape, Nested
  <2>. QED BY <2>1 DEF IInv, Shape, Decided, TypeOK
<1>. QED BY <1>1, Inductive, PTL

(* No probe is at work and no listener of the preflight is open once its
   answers are read, however the goroutines interleave and whenever the
   context ends (acpchildren.go:372-440, 600-624). *)
THEOREM NothingOutlives == Spec => []NothingRunsOn
<1>1. IInv => NothingRunsOn
  BY DEF IInv, Nested, Shape, ProbesEnded, NothingRunsOn
<1>. QED BY <1>1, Inductive, PTL

(* Of any configuration, only what a probe under the same credential answered
   for is offered, and each entry left has the models it defaults to
   (filterACPPreflightCatalog, acpchildren.go:648-753). *)
THEOREM OnlyTheAnswered == Spec => []OnlyAnsweredSurvive
<1>1. IInv => OnlyAnsweredSurvive
  BY DEF IInv, Results
<1>. QED BY <1>1, Inductive, PTL

(* Of any configuration, every role that is left has just one default
   (retainRuntimeEntriesWithConfiguredDefault, acpchildren.go:755-794). *)
THEOREM DefaultsRepaired == Spec => []OneDefaultPerRole
<1>1. IInv => OneDefaultPerRole
  BY DEF IInv, Results
<1>. QED BY <1>1, Inductive, PTL

(* What the preflight hands on is a catalog the children can be built from:
   what module ACPChildren assumes of its catalogs (acpchildren.go:996-1029). *)
THEOREM ChildrenCanBeBuilt == Spec => [](at = "done" => WorkingCatalog(result))
<1>1. IInv => (at = "done" => WorkingCatalog(result))
  BY DEF IInv, Results
<1>. QED BY <1>1, Inductive, PTL

=============================================================================

---------------------------- MODULE MCACPChildren ----------------------------
(* ACPChildren under the catalogs of three configurations, each as a complete
   and as a poorer preflight leaves it. *)
EXTENDS ACPChildren, TLC

Row(efforts, effort) == [efforts |-> efforts, effort |-> effort]
Rows == (1 :> Row({"low", "high"}, "low")) @@ (2 :> Row({"low", "high"}, "low"))

Defaults(h, source, m, effort) ==
  "builder" :> [harness |-> h, source |-> source, model |-> m, effort |-> effort]
Native(claude, codex) == ("claude-code" :> claude) @@ ("codex" :> codex)

Inputs ==
  {[rows |-> Rows, small |-> 2, native |-> Native(None, None),
    defaults |-> Defaults("claude-code", "gateway", 1, "high")],
   [rows |-> Rows, small |-> 2, native |-> Native({}, {10, 11}),
    defaults |-> Defaults("claude-code", "gateway", 1, "low")],
   [rows |-> <<>>, small |-> None, native |-> Native({10}, {}),
    defaults |-> Defaults("codex", "native", None, "none")]}

\* All that the entries of a harness offer, or only the default efforts.
Offered(entries, h) ==
  UNION {Targets(o) : o \in UNION {e.models : e \in {f \in entries : f.harness = h /\ f.kind = "gateway"}}}
Natives(entries, h) ==
  UNION {Aliases(e.models) : e \in {f \in entries : f.harness = h /\ f.kind = "explicit"}}
Full(entries) ==
  [h \in Harnesses |-> [gateway |-> Offered(entries, h), gatewayReady |-> Offered(entries, h) # {},
                        native |-> Natives(entries, h), managed |-> TRUE]]
Poor(entries) ==
  LET bare(h) == {t \in Offered(entries, h) : t[2] = ""} IN
  [h \in Harnesses |-> [gateway |-> bare(h), gatewayReady |-> bare(h) # {},
                        native |-> Natives(entries, h) \ {11}, managed |-> FALSE]]

MCCatalogs ==
  UNION {LET all == CompileCatalog(in) IN
         {[entries |-> FilterCatalog(all, Full(all)), rows |-> in.rows],
          [entries |-> FilterCatalog(all, Poor(all)), rows |-> in.rows]} : in \in {i \in Inputs : ValidInput(i)}}

=============================================================================

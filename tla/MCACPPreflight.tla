--------------------------- MODULE MCACPPreflight ---------------------------
(* ACPPreflight from a few configurations that differ in where models come
   from and in where the roles' defaults point. *)
EXTENDS ACPPreflight, TLC

Row(efforts, effort) == [efforts |-> efforts, effort |-> effort]
Default(h, source, m, effort) ==
  [harness |-> h, source |-> source, model |-> m, effort |-> effort]

TwoRows == (1 :> Row({"low", "high"}, "low")) @@ (2 :> Row({"low"}, "low"))
OneRow == 1 :> Row({"low"}, "low")

GatewayDefaults ==
  ("planner" :> Default("claude-code", "gateway", 1, "low"))
  @@ ("builder" :> Default("codex", "gateway", 1, "high"))
NativeDefaults ==
  ("planner" :> Default("claude-code", "native", None, "none"))
  @@ ("builder" :> Default("codex", "native", 11, "none"))
MixedDefaults ==
  ("planner" :> Default("claude-code", "gateway", 1, "low"))
  @@ ("builder" :> Default("codex", "native", 11, "none"))

Native(claude, codex) == ("claude-code" :> claude) @@ ("codex" :> codex)

MCInputs ==
  {[rows |-> TwoRows, small |-> 2, native |-> Native(None, None), defaults |-> GatewayDefaults],
   [rows |-> <<>>, small |-> None, native |-> Native({}, {10, 11}), defaults |-> NativeDefaults],
   [rows |-> OneRow, small |-> 1, native |-> Native({}, {10, 11}), defaults |-> MixedDefaults],
   [rows |-> TwoRows, small |-> None, native |-> Native({10}, {11}), defaults |-> MixedDefaults],
   [rows |-> OneRow, small |-> 1, native |-> Native({10}, {11}), defaults |-> MixedDefaults]}

=============================================================================

------------------------ MODULE MCConfiguredControls ------------------------
(* ConfiguredControls over small families of models.json files: two aliases
   whose efforts vary, three aliases whose uses, targets and keys vary, and two
   whose defaults and native profiles vary.  Most of them do not load. *)
EXTENDS ConfiguredControls, TLC

Three == {"none", "low", "max"}
Transports == [m \in Models |-> <<m, "tls">>]

Gateway(harness, alias, e) == [source |-> "gateway", harness |-> harness, model |-> alias, effort |-> e]
Native(harness, alias) == [source |-> "native", harness |-> harness, model |-> alias, effort |-> None]
NoProfiles == [h \in {"claude-code", "codex"} |-> None]

ARow(alias, uses, efforts, e, at, key) ==
  [alias |-> alias, uses |-> uses, efforts |-> efforts, default |-> e, at |-> at,
   key |-> key, thinking |-> TRUE, tools |-> TRUE, structured |-> alias = 1]

Plain(rows) ==
  [primer |-> 1, small |-> None, review |-> 1, rows |-> rows, native |-> NoProfiles,
   defaults |-> [r \in Roles |-> Gateway("codex", 2, "low")]]

OtherModel == CHOOSE m \in Models \ {Primer} : TRUE

ByEfforts ==
  {Plain({ARow(1, {"primer"}, es, e, Primer, "k1"),
          ARow(2, {"primer", "delegate"}, fs, f, OtherModel, "k1")}) :
     es \in SUBSET Three, fs \in SUBSET Three, e \in Three, f \in Three}

ByTargets ==
  {Plain({ARow(1, us[1], Three, "low", Primer, "k1"),
          ARow(2, us[2], Three, "low", at[1], key[1]),
          ARow(3, us[3], {"low"}, "low", at[2], key[2])}) :
     us \in [1..3 -> SUBSET {"primer", "delegate"}],
     at \in [1..2 -> Models], key \in [1..2 -> {"k1", "k2", None}]}

Defaults == {Gateway(h, a, e) : h \in {"claude-code", "codex"}, a \in 1..2, e \in {"low", "max"}}
            \cup {Native(h, a) : h \in {"claude-code", "codex"}, a \in {None, 2, 3}}

ByDefaults ==
  {[Plain({ARow(1, {"primer"}, Three, "low", Primer, "k1"),
           ARow(2, {"delegate"}, {"low"}, "low", Primer, "k1")})
      EXCEPT !.small = small, !.review = review, !.defaults = [r \in Roles |-> d],
             !.native = [h \in {"claude-code", "codex"} |-> native]] :
     small \in {None, 1, 2}, review \in {None, 1, 2}, d \in Defaults,
     native \in {None, {}, {2}, {3}}}

AllFiles == ByEfforts \cup ByTargets \cup ByDefaults

(* Another key for all or for one row, another reviewer, other efforts, uses
   (an unknown one among them) or another target for one row. *)
RowEdits(row) ==
  {[row EXCEPT !.efforts = es] : es \in SUBSET Three}
  \cup {[row EXCEPT !.uses = us] : us \in SUBSET {"primer", "delegate"} \cup {{"primer", "reviewer"}}}
  \cup {[row EXCEPT !.at = m] : m \in Models}
  \cup {[row EXCEPT !.key = "k2"]}

SmallEdits(f) ==
  {[f EXCEPT !.review = None]}
  \cup {[f EXCEPT !.rows = {[row EXCEPT !.key = IF @ = None THEN None ELSE "k2"] : row \in @}]}
  \cup {[f EXCEPT !.rows = (@ \ {e[1]}) \cup {e[2]}] :
           e \in UNION {{row} \X RowEdits(row) : row \in f.rows}}

Symmetry == Permutations(Callers)

=============================================================================

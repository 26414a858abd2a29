---------------------- MODULE ConfiguredControlsProofs ----------------------
(***************************************************************************)
(* Proofs about RuntimeControls, for any candidates, efforts and callers,  *)
(* and about ConfiguredControls, for any files: what a session is opened   *)
(* with, it is resumed with.                                               *)
(***************************************************************************)
EXTENDS ConfiguredControls, WellFoundedInduction, TLAPS

(* The configuration of an agent, which no action changes. *)
ConfigOK == Configured \/ Bare

(* What call c has decided on suits the loop it is applied to. *)
DecisionFits(c) ==
  pending[c] # None =>
    LET m == IF pending[c].model = None THEN model ELSE pending[c].model
        e == IF pending[c].effort = None THEN effort ELSE pending[c].effort
    IN  m \in roster => e \in admits[m]

(* As long as no two calls have overlapped there is one decision at most, it
   suits the loop, and the loop is as it should be. *)
InSequence ==
  /\ EffortAdmitted
  /\ \A c \in Callers : DecisionFits(c)
  /\ \A c, d \in Callers : pending[c] # None /\ pending[d] # None => c = d

IInv ==
  /\ TypeOK
  /\ ConfigOK
  /\ ~overlapped => InSequence

(* The efforts of the modes are efforts. *)
LEMMA ModeEfforts ==
  ASSUME TypeOK, NEW mode PROVE ModeEffort(mode) \in Efforts
BY ControlsAssumption DEF TypeOK, ModeEffort

(* A loop of a configured agent may run the primer in every mode it declares. *)
LEMMA ModesAdmitted ==
  ASSUME TypeOK, Configured, NEW mode \in DeclaredModes
  PROVE  ModeEffort(mode) \in admits[Primer]
BY ControlsAssumption DEF TypeOK, Configured, DeclaredModes, Admitted, ModeEffort

(* The initial states satisfy the type invariant. *)
LEMMA InitTyped == Init => TypeOK
<1> SUFFICES ASSUME Init PROVE TypeOK
  OBVIOUS
<1>1. /\ admits \in [Models -> SUBSET Efforts] /\ default \in [Models -> Efforts]
      /\ thinking \in BOOLEAN /\ model \in Models
  BY ControlsAssumption DEF Init, Opened
<1>2. roster \in SUBSET Models /\ primerEfforts \in SUBSET Efforts
  BY <1>1, ControlsAssumption DEF Init, Opened, Configured, Bare
<1>3. effort \in Efforts
  BY <1>1, ControlsAssumption DEF Init, Opened, ModeEffort
<1>4. /\ pending \in [Callers -> Changes \cup {None}]
      /\ refused \in [Callers -> Choices \cup {None}]
      /\ overlapped \in BOOLEAN
  BY DEF Init, Opened
<1> QED
  BY <1>1, <1>2, <1>3, <1>4 DEF TypeOK

(* What the setters decide on is a change, and what they refuse a choice. *)
LEMMA DecideTyped ==
  ASSUME TypeOK, NEW c \in Callers, NEW change \in Changes, Decide(c, change)
  PROVE  TypeOK'
BY DEF TypeOK, Decide, config, loop

LEMMA RefuseTyped ==
  ASSUME TypeOK, NEW c \in Callers, NEW choice \in Choices, Refuse(c, choice)
  PROVE  TypeOK'
BY DEF TypeOK, Refuse, config, loop

LEMMA TypeStep == TypeOK /\ [Next]_vars => TypeOK'
<1> SUFFICES ASSUME TypeOK, [Next]_vars PROVE TypeOK'
  OBVIOUS
<1>1. ASSUME NEW c \in Callers, NEW m \in Models, SetModel(c, m) PROVE TypeOK'
  <2>1. SwitchEffort(m) \in Efforts \cup {None}
    BY DEF SwitchEffort, TypeOK
  <2>2. /\ [model |-> m, effort |-> None] \in Changes
        /\ [model |-> m, effort |-> SwitchEffort(m)] \in Changes
        /\ [model |-> m] \in Choices
    BY <2>1 DEF Changes, Choices
  <2> QED
    BY <1>1, <2>2, DecideTyped, RefuseTyped DEF SetModel
<1>2. ASSUME NEW c \in Callers, NEW e \in Efforts, SetEffort(c, e) PROVE TypeOK'
  <2>1. [model |-> None, effort |-> e] \in Changes /\ [effort |-> e] \in Choices
    BY DEF Changes, Choices
  <2> QED
    BY <1>2, <2>1, DecideTyped, RefuseTyped DEF SetEffort
<1>3. ASSUME NEW c \in Callers, NEW mode \in Modes, SetMode(c, mode) PROVE TypeOK'
  <2>1. /\ [model |-> Primer, effort |-> ModeEffort(mode)] \in Changes
        /\ [mode |-> mode] \in Choices
    BY ModeEfforts, ControlsAssumption DEF Changes, Choices
  <2> QED
    BY <1>3, <2>1, DecideTyped, RefuseTyped DEF SetMode
<1>4. ASSUME NEW c \in Callers, Change(c) PROVE TypeOK'
  <2>1. pending[c] \in Changes
    BY <1>4 DEF Change, TypeOK
  <2>2. model' \in Models /\ effort' \in Efforts
    BY <1>4, <2>1 DEF Change, TypeOK, Changes, loop
  <2> QED
    BY <1>4, <2>2 DEF Change, TypeOK, config
<1>5. CASE UNCHANGED vars
  BY <1>5 DEF TypeOK, vars, config, loop
<1> QED
  BY <1>1, <1>2, <1>3, <1>4, <1>5 DEF Next

(* The types are right, whoever calls (TypeOK of RuntimeControls). *)
THEOREM ControlsTyped == Spec => []TypeOK
BY InitTyped, TypeStep, PTL DEF Spec

-----------------------------------------------------------------------------
(* The initial effort is that of a declared mode. *)
LEMMA InitInv == Init => IInv
<1> SUFFICES ASSUME Init PROVE IInv
  OBVIOUS
<1>1. TypeOK /\ ConfigOK
  BY InitTyped DEF Init, ConfigOK
<1>2. EffortAdmitted
  <2>1. CASE Configured
    <3>1. InitialMode \in DeclaredModes
      BY DEF InitialMode, DeclaredModes, Admitted
    <3> QED
      BY <1>1, <2>1, <3>1, ModesAdmitted DEF Init, Opened, EffortAdmitted
  <2>2. CASE Bare
    BY <2>2 DEF Bare, EffortAdmitted
  <2> QED
    BY <2>1, <2>2 DEF Init
<1>3. \A c \in Callers : pending[c] = None
  BY DEF Init, Opened
<1> QED
  BY <1>1, <1>2, <1>3 DEF IInv, InSequence, DecisionFits

(* The configuration stays as it is. *)
LEMMA ConfigStep ==
  ASSUME ConfigOK, UNCHANGED config PROVE ConfigOK'
BY DEF ConfigOK, Configured, Bare, config

(* A decision that suits the loop as it is keeps the invariant. *)
LEMMA DecideFits ==
  ASSUME IInv, TypeOK', NEW c \in Callers,
         NEW change \in Changes, Decide(c, change),
         InSequence =>
           LET m == IF change.model = None THEN model ELSE change.model
               e == IF change.effort = None THEN effort ELSE change.effort
           IN  m \in roster => e \in admits[m]
  PROVE  IInv'
<1>1. /\ pending' = [pending EXCEPT ![c] = change]
      /\ UNCHANGED <<roster, admits, model, effort>> /\ UNCHANGED config
      /\ pending \in [Callers -> Changes \cup {None}]
  BY DEF IInv, TypeOK, Decide, config, loop
<1>2. ConfigOK'
  BY <1>1, ConfigStep DEF IInv
<1>3. ASSUME ~overlapped' PROVE InSequence'
  <2>1. InSequence /\ \A d \in Callers : pending[d] = None
    BY <1>3 DEF Decide, IInv
  <2>2. DecisionFits(c)'
    BY <1>1, <2>1 DEF DecisionFits
  <2>3. \A d \in Callers \ {c} : pending'[d] = None
    BY <1>1, <2>1
  <2>4. \A d \in Callers \ {c} : DecisionFits(d)'
    BY <2>3 DEF DecisionFits
  <2>5. EffortAdmitted'
    BY <1>1, <2>1 DEF InSequence, EffortAdmitted
  <2> QED
    BY <2>2, <2>3, <2>4, <2>5 DEF InSequence
<1> QED
  BY <1>2, <1>3 DEF IInv

(* A refusal changes nothing of the loop. *)
LEMMA RefuseFits ==
  ASSUME IInv, TypeOK', NEW c \in Callers, NEW choice, Refuse(c, choice)
  PROVE  IInv'
<1>1. UNCHANGED <<roster, admits, model, effort, pending, overlapped>> /\ UNCHANGED config
  BY DEF Refuse, config, loop
<1>2. ConfigOK'
  BY <1>1, ConfigStep DEF IInv
<1>3. ~overlapped' => InSequence'
  BY <1>1 DEF IInv, InSequence, EffortAdmitted, DecisionFits
<1> QED
  BY <1>2, <1>3 DEF IInv

LEMMA StepInv == IInv /\ [Next]_vars => IInv'
<1> SUFFICES ASSUME IInv, [Next]_vars PROVE IInv'
  OBVIOUS
<1>0. TypeOK /\ TypeOK'
  BY TypeStep DEF IInv
<1>1. ASSUME NEW c \in Callers, NEW m \in Models, SetModel(c, m) PROVE IInv'
  <2>1. SwitchEffort(m) \in Efforts \cup {None}
    BY <1>0 DEF SwitchEffort, TypeOK
  <2>2. CASE roster = {} /\ Decide(c, [model |-> m, effort |-> None])
    <3>1. [model |-> m, effort |-> None] \in Changes
      BY DEF Changes
    <3> QED
      BY <2>2, <1>0, <3>1, ControlsAssumption, DecideFits
  <2>3. CASE m \in roster /\ Decide(c, [model |-> m, effort |-> SwitchEffort(m)])
    <3>1. [model |-> m, effort |-> SwitchEffort(m)] \in Changes
      BY <2>1 DEF Changes
    <3>2. default[m] \in admits[m] /\ default[m] # None /\ m # None
      BY <1>0, <2>3, ControlsAssumption DEF IInv, ConfigOK, Configured, Bare, TypeOK
    <3>3. (IF SwitchEffort(m) = None THEN effort ELSE SwitchEffort(m)) \in admits[m]
      BY <3>2 DEF SwitchEffort
    <3> QED
      BY <1>0, <2>3, <3>1, <3>2, <3>3, DecideFits
  <2>4. CASE Refuse(c, [model |-> m])
    BY <1>0, <2>4, RefuseFits
  <2> QED
    BY <1>1, <2>2, <2>3, <2>4 DEF SetModel
<1>2. ASSUME NEW c \in Callers, NEW e \in Efforts, SetEffort(c, e) PROVE IInv'
  <2>1. CASE e \in AdmittedEfforts /\ Decide(c, [model |-> None, effort |-> e])
    <3>1. [model |-> None, effort |-> e] \in Changes /\ e # None
      BY ControlsAssumption DEF Changes
    <3>2. InSequence /\ model \in roster => e \in admits[model]
      BY <2>1 DEF AdmittedEfforts, InSequence, EffortAdmitted
    <3> QED
      BY <1>0, <2>1, <3>1, <3>2, DecideFits
  <2>2. CASE Refuse(c, [effort |-> e])
    BY <1>0, <2>2, RefuseFits
  <2> QED
    BY <1>2, <2>1, <2>2 DEF SetEffort
<1>3. ASSUME NEW c \in Callers, NEW mode \in Modes, SetMode(c, mode) PROVE IInv'
  <2>1. CASE mode \in DeclaredModes /\ Decide(c, [model |-> Primer, effort |-> ModeEffort(mode)])
    <3>1. /\ [model |-> Primer, effort |-> ModeEffort(mode)] \in Changes
          /\ Primer # None /\ ModeEffort(mode) # None
      BY <1>0, ModeEfforts, ControlsAssumption DEF Changes
    <3>2. Primer \in roster => ModeEffort(mode) \in admits[Primer]
      BY <1>0, <2>1, ModesAdmitted DEF IInv, ConfigOK, Bare
    <3> QED
      BY <1>0, <2>1, <3>1, <3>2, DecideFits
  <2>2. CASE Refuse(c, [mode |-> mode])
    BY <1>0, <2>2, RefuseFits
  <2> QED
    BY <1>3, <2>1, <2>2 DEF SetMode
<1>4. ASSUME NEW c \in Callers, Change(c) PROVE IInv'
  <2>1. /\ pending' = [pending EXCEPT ![c] = None]
        /\ UNCHANGED <<roster, admits, overlapped>> /\ UNCHANGED config
        /\ pending \in [Callers -> Changes \cup {None}]
    BY <1>0, <1>4 DEF Change, config, TypeOK
  <2>2. ConfigOK'
    BY <2>1, ConfigStep DEF IInv
  <2>3. ASSUME ~overlapped' PROVE InSequence'
    <3>1. InSequence /\ pending[c] # None
      BY <1>4, <2>1, <2>3 DEF IInv, Change
    <3>2. \A d \in Callers : pending'[d] = None
      BY <2>1, <3>1 DEF InSequence
    <3>3. EffortAdmitted'
      BY <1>4, <2>1, <3>1 DEF Change, InSequence, EffortAdmitted, DecisionFits, loop
    <3> QED
      BY <3>2, <3>3 DEF InSequence, DecisionFits
  <2> QED
    BY <1>0, <2>2, <2>3 DEF IInv
<1>5. CASE UNCHANGED vars
  <2>1. UNCHANGED <<roster, admits, model, effort, pending, overlapped>> /\ UNCHANGED config
    BY <1>5 DEF vars, config, loop
  <2>2. ConfigOK'
    BY <2>1, ConfigStep DEF IInv
  <2>3. ~overlapped' => InSequence'
    BY <2>1 DEF IInv, InSequence, EffortAdmitted, DecisionFits
  <2> QED
    BY <1>0, <2>2, <2>3 DEF IInv
<1> QED
  BY <1>0, <1>1, <1>2, <1>3, <1>4, <1>5 DEF Next

(* Calls made one after another never leave the loop at an effort its candidate
   does not admit (SetModel, SetEffort and SetMode of RuntimeAgent). *)
THEOREM SequenceSafe == Spec => []SequenceKeepsEffortAdmitted
<1>1. IInv => SequenceKeepsEffortAdmitted
  BY DEF IInv, InSequence, EffortAdmitted, SequenceKeepsEffortAdmitted
<1> QED
  BY <1>1, InitInv, StepInv, PTL DEF Spec

-----------------------------------------------------------------------------
(* One step refuses at most the choice of one caller. *)
LEMMA RefusalOf ==
  ASSUME TypeOK, NEW c \in Callers, NEW d \in Callers, NEW choice,
         Refuse(d, choice), refused'[c] # refused[c]
  PROVE  refused'[c] = choice
BY DEF TypeOK, Refuse

LEMMA DecideRefusesNothing ==
  ASSUME TypeOK, NEW c \in Callers, NEW d \in Callers, NEW change,
         Decide(d, change), refused'[c] # refused[c]
  PROVE  refused'[c] = None
BY DEF TypeOK, Decide

LEMMA OffersStep ==
  ASSUME TypeOK, [Next]_vars, NEW c \in Callers,
         refused'[c] # None, refused'[c] # refused[c]
  PROVE  refused'[c] \notin LoopRuntimeOptions
<1>1. ASSUME NEW d \in Callers, NEW m \in Models, SetModel(d, m)
      PROVE  refused'[c] \notin LoopRuntimeOptions
  <2>1. Refuse(d, [model |-> m]) /\ m \notin OfferedModels
    BY <1>1, DecideRefusesNothing DEF SetModel, OfferedModels
  <2>2. [model |-> m] \notin LoopRuntimeOptions
    BY <2>1 DEF LoopRuntimeOptions
  <2> QED
    BY <2>1, <2>2, RefusalOf
<1>2. ASSUME NEW d \in Callers, NEW e \in Efforts, SetEffort(d, e)
      PROVE  refused'[c] \notin LoopRuntimeOptions
  <2>1. Refuse(d, [effort |-> e]) /\ e \notin AdmittedEfforts
    BY <1>2, DecideRefusesNothing DEF SetEffort
  <2>2. e \notin OfferedEfforts
    BY <2>1 DEF OfferedEfforts, AdmittedEfforts
  <2>3. [effort |-> e] \notin LoopRuntimeOptions
    BY <2>2 DEF LoopRuntimeOptions
  <2> QED
    BY <2>1, <2>3, RefusalOf
<1>3. ASSUME NEW d \in Callers, NEW mode \in Modes, SetMode(d, mode)
      PROVE  refused'[c] \notin LoopRuntimeOptions
  <2>1. Refuse(d, [mode |-> mode]) /\ mode \notin DeclaredModes
    BY <1>3, DecideRefusesNothing DEF SetMode
  <2>2. [mode |-> mode] \notin LoopRuntimeOptions
    BY <2>1 DEF LoopRuntimeOptions
  <2> QED
    BY <2>1, <2>2, RefusalOf
<1>4. ASSUME NEW d \in Callers, Change(d) PROVE FALSE
  BY <1>4 DEF Change
<1>5. CASE UNCHANGED vars
  BY <1>5 DEF vars
<1> QED
  BY <1>1, <1>2, <1>3, <1>4, <1>5 DEF Next

(* SetModel, SetEffort and SetMode never refuse what LoopRuntimeOptions offers
   at that moment, for any number of overlapping calls. *)
THEOREM OffersHonoured == Spec => OffersAreHonoured
<1>1. TypeOK /\ [Next]_vars =>
        [\A c \in Callers :
           refused'[c] # None /\ refused'[c] # refused[c]
             => refused'[c] \notin LoopRuntimeOptions]_vars
  BY OffersStep
<1> QED
  BY <1>1, ControlsTyped, PTL DEF Spec, OffersAreHonoured

-----------------------------------------------------------------------------
(* What a process has is what its models.json says, and the loops of a session
   run on targets of that file. *)
Configuration ==
  LET c == Compiled(file) IN
  /\ File!Loads(file)
  /\ roster = c.roster /\ admits = c.admits /\ default = c.default
  /\ primerEfforts = c.primerEfforts /\ thinking = c.thinking

Offered(f) == {row.at : row \in File!Candidates(f) \cup File!Delegates(f)}

RunsOnOffered ==
  /\ model \in roster
  /\ \A c \in Callers : pending[c] # None => pending[c].model \in roster \cup {None}
  /\ used \subseteq Offered(file)

ConfiguredInv ==
  /\ IInv
  /\ file # None => Configuration /\ RunsOnOffered

-----------------------------------------------------------------------------
(* Some aliases have a least one: the naturals are well-founded. *)
LEMMA LeastIsMember ==
  ASSUME NEW S \in SUBSET Nat, S # {}
  PROVE  File!Min(S) \in S
<1>. DEFINE R == {ss \in Nat \X Nat : ss[1] < ss[2]}
<1>1. IsWellFoundedOn(R, Nat)
  BY NatLessThanWellFounded, Zenon DEF OpToRel
<1>2. PICK x \in S : \A y \in S : <<y, x>> \notin R
  <2>. HIDE DEF R
  <2>. QED BY <1>1, WFMin, Zenon
<1>3. ASSUME NEW y \in S PROVE x =< y
  <2>1. ~(y < x)
    BY <1>2, <<y, x>> \in Nat \X Nat
  <2>. QED BY <2>1
<1>. QED BY <1>3, Zenon DEF File!Min

(* What a models.json that loads holds: an alias names one row, and the row of
   the primer is a candidate. *)
LEMMA RowOf ==
  ASSUME NEW f, File!UniqueAliases(f), NEW row \in f.rows
  PROVE  File!Row(f, row.alias) = row
BY DEF File!UniqueAliases, File!Row

LEMMA NamedRow ==
  ASSUME NEW f, File!UniqueAliases(f), NEW use, NEW a \in File!Uses(f, use)
  PROVE  /\ File!Row(f, a) \in f.rows /\ File!Row(f, a).alias = a
         /\ use \in File!Row(f, a).uses
<1>1. PICK row \in f.rows : use \in row.uses /\ row.alias = a
  BY DEF File!Uses
<1>. QED BY <1>1, RowOf

LEMMA PrimerRow ==
  ASSUME NEW f, File!Loads(f)
  PROVE  File!Row(f, f.primer) \in File!Candidates(f)
BY NamedRow DEF File!Loads, File!Normalizes, File!Candidates

LEMMA CandidateOf ==
  ASSUME NEW f, File!Loads(f), NEW row \in File!Candidates(f)
  PROVE  CandidateAt(f, row.at) = row
BY DEF File!Loads, File!Compiles, File!DistinctCandidates, File!Candidates, CandidateAt

(* A candidate is found by its target, and it is a valid row. *)
LEMMA CandidateFound ==
  ASSUME NEW f, File!Loads(f), NEW m \in Roster(f)
  PROVE  /\ CandidateAt(f, m) \in File!Candidates(f) /\ CandidateAt(f, m).at = m
         /\ File!ValidRow(CandidateAt(f, m))
<1>1. PICK row \in File!Candidates(f) : row.at = m
  BY DEF Roster
<1>2. CandidateAt(f, m) = row
  BY <1>1, CandidateOf
<1>. QED BY <1>1, <1>2 DEF File!Loads, File!Normalizes, File!Candidates

-----------------------------------------------------------------------------
(* Files under one digest have the same rows but for the keys. *)
Twin(row, s) ==
  /\ s.alias = row.alias /\ s.uses = row.uses /\ s.at = row.at
  /\ s.efforts = row.efforts /\ s.default = row.default /\ s.thinking = row.thinking

LEMMA TwinRow ==
  ASSUME NEW f, NEW g, File!Loads(f), File!Loads(g), File!Digest(f) = File!Digest(g),
         NEW row \in f.rows
  PROVE  \E s \in g.rows : Twin(row, s)
<1>1. {[r EXCEPT !.key = None] : r \in f.rows} = {[r EXCEPT !.key = None] : r \in g.rows}
  BY DEF File!Digest
<1>2. PICK s \in g.rows : [row EXCEPT !.key = None] = [s EXCEPT !.key = None]
  BY <1>1
<1>3. File!Decodes(row) /\ File!Decodes(s)
  BY DEF File!Loads, File!Normalizes, File!ValidRow
<1>4. ASSUME NEW r, File!Decodes(r)
      PROVE  /\ [r EXCEPT !.key = None].alias = r.alias /\ [r EXCEPT !.key = None].uses = r.uses
             /\ [r EXCEPT !.key = None].at = r.at
             /\ [r EXCEPT !.key = None].efforts = r.efforts
             /\ [r EXCEPT !.key = None].default = r.default
             /\ [r EXCEPT !.key = None].thinking = r.thinking
  BY <1>4 DEF File!Decodes
<1>5. Twin(row, s)
  BY <1>2, <1>3, <1>4 DEF Twin
<1>. QED BY <1>5

LEMMA SameDigestInfo ==
  ASSUME NEW f, NEW g, File!Digest(f) = File!Digest(g)
  PROVE  f.primer = g.primer
BY DEF File!Digest

LEMMA RosterWithin ==
  ASSUME NEW f, NEW g, File!Loads(f), File!Loads(g), File!Digest(f) = File!Digest(g)
  PROVE  Roster(f) \subseteq Roster(g)
<1>1. ASSUME NEW row \in f.rows, "primer" \in row.uses PROVE row.at \in Roster(g)
  <2>1. PICK s \in g.rows : Twin(row, s)
    BY TwinRow
  <2>. QED BY <1>1, <2>1 DEF Twin, Roster, File!Candidates
<1>. QED BY <1>1 DEF Roster, File!Candidates

LEMMA OfferedWithin ==
  ASSUME NEW f, NEW g, File!Loads(f), File!Loads(g), File!Digest(f) = File!Digest(g)
  PROVE  Offered(f) \subseteq Offered(g)
<1>1. ASSUME NEW row \in f.rows, "primer" \in row.uses \/ "delegate" \in row.uses
      PROVE  row.at \in Offered(g)
  <2>1. PICK s \in g.rows : Twin(row, s)
    BY TwinRow
  <2>. QED BY <1>1, <2>1 DEF Twin, Offered, File!Candidates, File!Delegates
<1>. QED BY <1>1 DEF Offered, File!Candidates, File!Delegates

LEMMA TwinCandidates ==
  ASSUME NEW f, NEW g, File!Loads(f), File!Loads(g), File!Digest(f) = File!Digest(g),
         NEW m \in Roster(f)
  PROVE  Twin(CandidateAt(f, m), CandidateAt(g, m))
<1>1. CandidateAt(f, m) \in File!Candidates(f) /\ CandidateAt(f, m).at = m
  BY CandidateFound
<1>2. PICK s \in g.rows : Twin(CandidateAt(f, m), s)
  BY <1>1, TwinRow DEF File!Candidates
<1>3. s \in File!Candidates(g) /\ s.at = m
  BY <1>1, <1>2 DEF Twin, File!Candidates
<1>. QED BY <1>2, <1>3, CandidateOf

LEMMA TwinPrimers ==
  ASSUME NEW f, NEW g, File!Loads(f), File!Loads(g), File!Digest(f) = File!Digest(g)
  PROVE  Twin(File!Row(f, f.primer), File!Row(g, g.primer))
<1>1. File!Row(f, f.primer) \in f.rows /\ File!Row(f, f.primer).alias = f.primer
  BY NamedRow DEF File!Loads, File!Normalizes
<1>2. PICK s \in g.rows : Twin(File!Row(f, f.primer), s)
  BY <1>1, TwinRow
<1>3. File!Row(g, s.alias) = s
  BY RowOf DEF File!Loads, File!Normalizes
<1>. QED BY <1>1, <1>2, <1>3, SameDigestInfo DEF Twin

(* A session resumed under the digest it was opened with is given the same
   candidates, efforts and defaults (modelConfigDigest covers them all). *)
THEOREM SameDigestSameControls ==
  ASSUME NEW f, NEW g, File!Loads(f), File!Loads(g), File!Digest(f) = File!Digest(g)
  PROVE  Compiled(f) = Compiled(g)
<1>1. Roster(f) = Roster(g)
  BY RosterWithin
<1>2. ASSUME NEW m \in Roster(f)
      PROVE  /\ CandidateAt(f, m).efforts = CandidateAt(g, m).efforts
             /\ CandidateAt(f, m).default = CandidateAt(g, m).default
  BY TwinCandidates DEF Twin
<1>3. [m \in Models |-> IF m \in Roster(f) THEN CandidateAt(f, m).efforts ELSE {}]
        = [m \in Models |-> IF m \in Roster(g) THEN CandidateAt(g, m).efforts ELSE {}]
  BY <1>1, <1>2
<1>4. [m \in Models |-> IF m \in Roster(f) THEN CandidateAt(f, m).default ELSE Low]
        = [m \in Models |-> IF m \in Roster(g) THEN CandidateAt(g, m).default ELSE Low]
  BY <1>1, <1>2
<1>5. /\ File!Row(f, f.primer).efforts = File!Row(g, g.primer).efforts
      /\ File!Row(f, f.primer).thinking = File!Row(g, g.primer).thinking
  BY TwinPrimers DEF Twin
<1>. QED BY <1>1, <1>3, <1>4, <1>5 DEF Compiled

-----------------------------------------------------------------------------
(* The first alias of a target is bound to the key of every alias of it. *)
LEMMA ServedWithItsKey ==
  ASSUME NEW f, File!Loads(f), NEW row \in f.rows
  PROVE  File!Clients(f)[row.at] = row.key
<1>. DEFINE S == {r.alias : r \in {r \in f.rows : r.at = row.at}}
<1>1. S \in SUBSET Nat /\ S # {}
  BY DEF File!Loads, File!Normalizes, File!ValidRow, File!Decodes
<1>2. PICK first \in f.rows : first.at = row.at /\ first.alias = File!Min(S)
  <2>1. File!Min(S) \in S
    <3>. HIDE DEF S
    <3>. QED BY <1>1, LeastIsMember
  <2>. QED BY <2>1
<1>3. File!Row(f, File!Min(S)) = first
  BY <1>2, RowOf DEF File!Loads, File!Normalizes
<1>4. first.key = row.key
  BY <1>2 DEF File!Loads, File!Compiles, File!Routable
<1>5. File!Clients(f)[row.at] = File!Row(f, File!Min(S)).key
  BY DEF File!Clients
<1>. QED BY <1>3, <1>4, <1>5

(* What the ACP catalog is compiled from. *)
LEMMA CatalogRows ==
  ASSUME NEW f, File!Loads(f)
  PROVE  LET in == File!CatalogInput(f) IN
         /\ DOMAIN in.rows = File!Uses(f, "delegate")
         /\ in.rows # <<>> => DOMAIN in.rows # {}
         /\ DOMAIN in.rows # {} => in.rows # <<>>
         /\ \A a \in DOMAIN in.rows :
              /\ a \in Nat
              /\ in.rows[a].efforts = File!Row(f, a).efforts
              /\ in.rows[a].effort \in in.rows[a].efforts
<1>. DEFINE D == File!Uses(f, "delegate")
            rows == [a \in D |-> [efforts |-> File!Row(f, a).efforts,
                                  effort |-> File!Row(f, a).default]]
<1>1. File!CatalogInput(f).rows = rows
  BY DEF File!CatalogInput
<1>2. ASSUME NEW a \in D
      PROVE  a \in Nat /\ File!Row(f, a).default \in File!Row(f, a).efforts
  <2>1. File!Row(f, a) \in f.rows /\ File!Row(f, a).alias = a
    BY NamedRow DEF File!Loads, File!Normalizes
  <2>2. File!ValidRow(File!Row(f, a))
    BY <2>1 DEF File!Loads, File!Normalizes
  <2>. QED BY <2>1, <2>2 DEF File!ValidRow, File!Decodes
<1>. HIDE DEF D
<1>3. rows = <<>> <=> D = {}
  OBVIOUS
<1>. QED BY <1>1, <1>2, <1>3 DEF D

(* compileACPGatewayRows and the validation of the defaults accept what loads,
   when no native alias is also a delegate's. *)
LEMMA CatalogAccepts ==
  ASSUME NEW f, File!Loads(f),
         \A h \in File!Catalog!Harnesses :
           f.native[h] # None => f.native[h] \cap File!Uses(f, "delegate") = {}
  PROVE  File!Catalog!ValidInput(File!CatalogInput(f))
<1>. DEFINE in == File!CatalogInput(f)
<1>1. in.small = f.small /\ in.native = f.native /\ in.defaults = f.defaults
  BY DEF File!CatalogInput
<1>2. /\ DOMAIN in.rows = File!Uses(f, "delegate")
      /\ DOMAIN in.rows # {} => in.rows # <<>>
      /\ \A a \in DOMAIN in.rows :
           /\ in.rows[a].efforts = File!Row(f, a).efforts
           /\ in.rows[a].effort \in in.rows[a].efforts
  BY CatalogRows
<1>. HIDE DEF in
<1>3. ASSUME NEW r \in Roles PROVE File!Catalog!ValidDefault(in, in.defaults[r])
  <2>. DEFINE d == f.defaults[r]
  <2>1. File!ValidDefault(f, d)
    BY DEF File!Loads, File!Normalizes
  <2>2. CASE d.source = "gateway"
    <3>1. d.model \in DOMAIN in.rows /\ d.effort \in in.rows[d.model].efforts
      BY <1>2, <2>1, <2>2 DEF File!ValidDefault
    <3>2. d.harness = "claude-code" => f.small # None
      BY <2>2 DEF File!Loads, File!Normalizes, File!ValidSmall, File!NeedsSmall
    <3>. QED
      BY <1>1, <1>2, <2>2, <3>1, <3>2 DEF File!Catalog!ValidDefault, File!Catalog!ServesGateway
  <2>3. CASE d.source # "gateway"
    BY <1>1, <2>1, <2>3
    DEF File!ValidDefault, File!Catalog!ValidDefault, File!Catalog!Managed, File!Catalog!Explicit
  <2>. QED BY <2>2, <2>3
<1>4. f.small # None => f.small \in DOMAIN in.rows
  BY <1>2 DEF File!Loads, File!Normalizes, File!ValidSmall
<1>5. \A h \in File!Catalog!Harnesses :
         File!Catalog!Explicit(in, h) => in.native[h] \cap DOMAIN in.rows = {}
  BY <1>1, <1>2 DEF File!Catalog!Explicit
<1>. QED BY <1>1, <1>2, <1>3, <1>4, <1>5 DEF File!Catalog!ValidInput, in

(* What a models.json that loads gives the catalog is what ACPPreflight assumes
   of its configurations (PreflightAssumption there). *)
THEOREM LoadedFilesFeedThePreflight ==
  ASSUME NEW f, File!Loads(f)
  PROVE  LET in == File!CatalogInput(f) IN
         /\ in.rows = <<>> \/ DOMAIN in.rows \in (SUBSET Nat) \ {{}}
         /\ \A h \in File!Catalog!Harnesses : in.native[h] = None \/ in.native[h] \in SUBSET Nat
<1>1. \A h \in File!Catalog!Harnesses : f.native[h] # None => f.native[h] \in SUBSET Nat
  BY DEF File!Loads, File!Normalizes, File!ValidNative
<1>2. File!CatalogInput(f).native = f.native
  BY DEF File!CatalogInput
<1>. QED BY <1>1, <1>2, CatalogRows

-----------------------------------------------------------------------------
(* A session that is opened, over a file or as a bare agent, starts as
   RuntimeControls has it start. *)
LEMMA OpenedConfigured ==
  ASSUME NEW f, File!Loads(f), File!Row(f, f.primer).at = Primer,
         LET c == Compiled(f) IN
         /\ roster = c.roster /\ admits = c.admits /\ default = c.default
         /\ primerEfforts = c.primerEfforts /\ thinking = c.thinking
  PROVE  /\ admits \in [Models -> SUBSET Efforts] /\ default \in [Models -> Efforts]
         /\ thinking \in BOOLEAN /\ Configured
<1>1. /\ roster = Roster(f)
      /\ admits = [m \in Models |-> IF m \in Roster(f) THEN CandidateAt(f, m).efforts ELSE {}]
      /\ default = [m \in Models |-> IF m \in Roster(f) THEN CandidateAt(f, m).default ELSE Low]
      /\ primerEfforts = File!Row(f, f.primer).efforts
      /\ thinking = File!Row(f, f.primer).thinking
  BY DEF Compiled
<1>2. ASSUME NEW m \in Roster(f)
      PROVE  /\ m \in Models
             /\ CandidateAt(f, m).efforts \in SUBSET Efforts
             /\ CandidateAt(f, m).default \in Efforts
             /\ CandidateAt(f, m).default \in CandidateAt(f, m).efforts
  BY CandidateFound DEF File!ValidRow, File!Decodes
<1>3. /\ Primer \in Roster(f)
      /\ CandidateAt(f, Primer) = File!Row(f, f.primer)
      /\ File!Row(f, f.primer) \in f.rows
  BY PrimerRow, CandidateOf DEF Roster, File!Candidates
<1>4. thinking \in BOOLEAN
  BY <1>1, <1>3 DEF File!Loads, File!Normalizes, File!ValidRow, File!Decodes
<1>5. admits \in [Models -> SUBSET Efforts] /\ default \in [Models -> Efforts]
  BY <1>1, <1>2, ControlsAssumption
<1>6. roster \in SUBSET Models /\ Primer \in roster
  BY <1>1, <1>2, <1>3
<1>7. \A m \in roster : default[m] \in admits[m]
  BY <1>1, <1>2
<1>8. primerEfforts = admits[Primer]
  BY <1>1, <1>3, ControlsAssumption
<1>. QED BY <1>4, <1>5, <1>6, <1>7, <1>8 DEF Configured

LEMMA ConfiguredInitInv == ConfiguredInit => Init /\ ConfiguredInv
<1>. SUFFICES ASSUME ConfiguredInit PROVE Init /\ ConfiguredInv
  OBVIOUS
<1>1. CASE /\ file \in {f \in Files : File!Loads(f) /\ File!Row(f, f.primer).at = Primer}
           /\ LET c == Compiled(file) IN
                /\ roster = c.roster /\ admits = c.admits /\ default = c.default
                /\ primerEfforts = c.primerEfforts /\ thinking = c.thinking
  <2>1. Configuration
    BY <1>1 DEF Configuration
  <2>2. Init
    BY <1>1, OpenedConfigured DEF ConfiguredInit, Init
  <2>3. RunsOnOffered
    <3>1. Primer \in roster /\ roster = Roster(file)
      BY <1>1, OpenedConfigured DEF Configured, Compiled
    <3>2. Primer \in Offered(file)
      BY <3>1 DEF Roster, Offered
    <3>. QED BY <3>1, <3>2 DEF ConfiguredInit, Opened, RunsOnOffered
  <2>. QED BY <2>1, <2>2, <2>3, InitInv DEF ConfiguredInv
<1>2. CASE file = None /\ Bare /\ default \in [Models -> Efforts] /\ thinking \in BOOLEAN
  <2>1. Init
    BY <1>2 DEF ConfiguredInit, Init, Bare
  <2>. QED BY <1>2, <2>1, InitInv DEF ConfiguredInv
<1>. QED BY <1>1, <1>2 DEF ConfiguredInit

-----------------------------------------------------------------------------
(* A call runs the loop on the model it chose, which was offered. *)
LEMMA ControlRuns ==
  ASSUME IInv, IInv', Control, Configuration, RunsOnOffered
  PROVE  Configuration' /\ RunsOnOffered'
<1>1. /\ roster # {} /\ Primer \in roster /\ roster = Roster(file)
      /\ pending \in [Callers -> Changes \cup {None}]
      /\ None \notin Models \cup Efforts
  BY ControlsAssumption
  DEF IInv, ConfigOK, Configured, Bare, TypeOK, RunsOnOffered, Configuration, Compiled
<1>2. ASSUME UNCHANGED config PROVE Configuration'
  BY <1>2 DEF Control, Configuration, config
<1>3. ASSUME NEW c \in Callers, NEW change \in Changes, Decide(c, change),
             change.model \in roster \cup {None}
      PROVE  /\ UNCHANGED <<config, model>>
             /\ \A d \in Callers : pending'[d] # None => pending'[d].model \in roster \cup {None}
  BY <1>1, <1>3 DEF Decide, loop, RunsOnOffered
<1>4. ASSUME NEW c \in Callers, NEW choice, Refuse(c, choice)
      PROVE  /\ UNCHANGED <<config, model>>
             /\ \A d \in Callers : pending'[d] # None => pending'[d].model \in roster \cup {None}
  BY <1>4 DEF Refuse, loop, RunsOnOffered
<1>. DEFINE Kept ==
       /\ UNCHANGED config /\ model' \in roster
       /\ \A d \in Callers : pending'[d] # None => pending'[d].model \in roster \cup {None}
<1>5. Kept
  <2>1. ASSUME NEW c \in Callers, NEW m \in Models, SetModel(c, m) PROVE Kept
    <3>1. SwitchEffort(m) \in Efforts \cup {None}
      BY DEF SwitchEffort, IInv, TypeOK
    <3>2. CASE m \in roster /\ Decide(c, [model |-> m, effort |-> SwitchEffort(m)])
      <4>1. [model |-> m, effort |-> SwitchEffort(m)] \in Changes
        BY <3>1 DEF Changes
      <4>. QED BY <1>3, <3>2, <4>1 DEF RunsOnOffered
    <3>3. CASE Refuse(c, [model |-> m])
      BY <1>4, <3>3 DEF RunsOnOffered
    <3>. QED BY <1>1, <2>1, <3>2, <3>3 DEF SetModel
  <2>2. ASSUME NEW c \in Callers, NEW e \in Efforts, SetEffort(c, e) PROVE Kept
    <3>1. [model |-> None, effort |-> e] \in Changes
      BY DEF Changes
    <3>. QED BY <1>3, <1>4, <2>2, <3>1 DEF SetEffort, RunsOnOffered
  <2>3. ASSUME NEW c \in Callers, NEW mode \in Modes, SetMode(c, mode) PROVE Kept
    <3>1. [model |-> Primer, effort |-> ModeEffort(mode)] \in Changes
      BY ModeEfforts, ControlsAssumption DEF Changes, IInv
    <3>. QED BY <1>1, <1>3, <1>4, <2>3, <3>1 DEF SetMode, RunsOnOffered
  <2>4. ASSUME NEW c \in Callers, Change(c) PROVE Kept
    <3>1. /\ UNCHANGED config
          /\ \A d \in Callers : pending'[d] # None => pending'[d] = pending[d]
      BY <1>1, <2>4 DEF Change
    <3>2. model' \in roster
      BY <2>4 DEF Change, RunsOnOffered, loop
    <3>. QED BY <3>1, <3>2 DEF RunsOnOffered
  <2>. QED BY <2>1, <2>2, <2>3, <2>4 DEF Control, Next
<1>6. used' \subseteq Offered(file')
  <2>1. Roster(file) \subseteq Offered(file)
    BY DEF Roster, Offered
  <2>. QED BY <1>1, <1>5, <2>1 DEF Control, RunsOnOffered
<1>. QED BY <1>2, <1>5, <1>6 DEF RunsOnOffered, config

(* A resumed session is given the configuration it had. *)
LEMMA ResumeKeeps ==
  ASSUME ConfiguredInv, Resume
  PROVE  ConfiguredInv'
<1>1. file # None /\ Configuration /\ RunsOnOffered
  BY DEF Resume, ConfiguredInv
<1>2. PICK f \in Edited(file) :
        /\ File!Loads(f) /\ File!Digest(f) = File!Digest(file)
        /\ file' = f
        /\ LET c == Compiled(f) IN
             /\ roster' = c.roster /\ admits' = c.admits /\ default' = c.default
             /\ primerEfforts' = c.primerEfforts /\ thinking' = c.thinking
  BY DEF Resume
<1>3. Compiled(f) = Compiled(file)
  BY <1>1, <1>2, SameDigestSameControls DEF Configuration
<1>4. UNCHANGED config
  BY <1>1, <1>2, <1>3 DEF Configuration, config
<1>5. /\ UNCHANGED <<roster, admits, default, primerEfforts, thinking, model, effort, overlapped, used>>
      /\ pending' = [c \in Callers |-> None] /\ refused' = [c \in Callers |-> None]
  BY <1>4 DEF Resume, config, loop
<1>6. Configuration'
  BY <1>2 DEF Configuration
<1>7. RunsOnOffered'
  <2>1. Offered(file) \subseteq Offered(file')
    BY <1>1, <1>2, OfferedWithin DEF Configuration
  <2>. QED BY <1>1, <1>5, <2>1 DEF RunsOnOffered
<1>8. IInv'
  <2>1. TypeOK'
    BY <1>5 DEF ConfiguredInv, IInv, TypeOK
  <2>2. ConfigOK'
    BY <1>4, ConfigStep DEF ConfiguredInv, IInv
  <2>3. ~overlapped' => InSequence'
    BY <1>5 DEF ConfiguredInv, IInv, InSequence, EffortAdmitted, DecisionFits
  <2>. QED BY <2>1, <2>2, <2>3 DEF IInv
<1>. QED BY <1>6, <1>7, <1>8 DEF ConfiguredInv

LEMMA ConfiguredStep == ConfiguredInv /\ [ConfiguredNext]_configuredVars => ConfiguredInv'
<1>. SUFFICES ASSUME ConfiguredInv, [ConfiguredNext]_configuredVars PROVE ConfiguredInv'
  OBVIOUS
<1>1. CASE Control
  <2>1. IInv /\ IInv' /\ file' = file
    BY <1>1, StepInv DEF ConfiguredInv, Control
  <2>. QED BY <1>1, <2>1, ControlRuns DEF ConfiguredInv
<1>2. CASE StartDelegate
  <2>1. IInv' /\ file' = file
    BY <1>2, StepInv DEF ConfiguredInv, StartDelegate
  <2>2. Configuration' /\ RunsOnOffered'
    <3>1. PICK row \in File!Delegates(file) : used' = used \cup {row.at}
      BY <1>2 DEF StartDelegate
    <3>2. row.at \in Offered(file)
      BY <3>1 DEF Offered
    <3>3. /\ UNCHANGED <<roster, admits, default, primerEfforts, thinking, model, pending, file>>
          /\ Configuration /\ RunsOnOffered
      BY <1>2 DEF StartDelegate, vars, config, loop, ConfiguredInv
    <3>. QED BY <3>1, <3>2, <3>3 DEF Configuration, RunsOnOffered
  <2>. QED BY <2>1, <2>2 DEF ConfiguredInv
<1>3. CASE Resume
  BY <1>3, ResumeKeeps
<1>4. CASE UNCHANGED configuredVars
  <2>1. IInv' /\ UNCHANGED <<file, used>>
    BY <1>4, StepInv DEF ConfiguredInv, configuredVars
  <2>2. UNCHANGED <<roster, admits, default, primerEfforts, thinking, model, pending>>
    BY <1>4 DEF configuredVars, vars, config, loop
  <2>. QED BY <2>1, <2>2 DEF ConfiguredInv, Configuration, RunsOnOffered
<1>. QED BY <1>1, <1>2, <1>3, <1>4 DEF ConfiguredNext

LEMMA ConfiguredAlways == ConfiguredSpec => []ConfiguredInv
BY ConfiguredInitInv, ConfiguredStep, PTL DEF ConfiguredSpec

(* A session resumed over an edited models.json is as a session that was never
   left: the types are right (SessionStoreFactory.Open). *)
THEOREM ConfiguredTyped == ConfiguredSpec => []TypeOK
<1>1. ConfiguredInv => TypeOK
  BY DEF ConfiguredInv, IInv
<1>. QED BY <1>1, ConfiguredAlways, PTL

(* and calls made one after another, before and after a process ended, never
   leave its loop at an effort its candidate does not admit: modelConfigDigest
   covers the efforts. *)
THEOREM ResumedSequenceSafe == ConfiguredSpec => []SequenceKeepsEffortAdmitted
<1>1. ConfiguredInv => SequenceKeepsEffortAdmitted
  BY DEF ConfiguredInv, IInv, InSequence, SequenceKeepsEffortAdmitted
<1>. QED BY <1>1, ConfiguredAlways, PTL

(* A models.json that loads works: a request for a target reaches the client
   with the credential of its alias (newModelRoutingClient), and the ACP catalog
   refuses it for a native alias that is also a delegate's only. *)
THEOREM LoadedFilesWork == ConfiguredSpec => []LoadedFileWorks
<1>1. ConfiguredInv => LoadedFileWorks
  <2>. SUFFICES ASSUME ConfiguredInv, file # None
       PROVE  LET in == File!CatalogInput(file) IN
              /\ \A row \in file.rows : File!Clients(file)[row.at] = row.key
              /\ (\A h \in File!Catalog!Harnesses :
                    in.native[h] # None => in.native[h] \cap DOMAIN in.rows = {})
                 => File!Catalog!ValidInput(in)
    BY DEF LoadedFileWorks
  <2>1. File!Loads(file)
    BY DEF ConfiguredInv, Configuration
  <2>2. /\ File!CatalogInput(file).native = file.native
        /\ DOMAIN File!CatalogInput(file).rows = File!Uses(file, "delegate")
    BY <2>1, CatalogRows DEF File!CatalogInput
  <2>. QED BY <2>1, <2>2, ServedWithItsKey, CatalogAccepts
<1>. QED BY <1>1, ConfiguredAlways, PTL

(* The transports declared for a session include that of every target its loops
   have run on, however often it was resumed (declaredContextTransports). *)
THEOREM TransportsAreDeclared == ConfiguredSpec => []UsedTransportsDeclared
<1>1. ConfiguredInv => UsedTransportsDeclared
  BY DEF ConfiguredInv, RunsOnOffered, Offered, UsedTransportsDeclared, File!DeclaredTransports
<1>. QED BY <1>1, ConfiguredAlways, PTL

(* The setters honour what is offered in a resumed session too. *)
THEOREM ResumedOffersHonoured == ConfiguredSpec => OffersAreHonoured
<1>1. ConfiguredInv /\ [ConfiguredNext]_configuredVars =>
        [\A c \in Callers :
           refused'[c] # None /\ refused'[c] # refused[c]
             => refused'[c] \notin LoopRuntimeOptions]_vars
  <2>. SUFFICES ASSUME ConfiguredInv, [ConfiguredNext]_configuredVars, NEW c \in Callers,
                       refused'[c] # None, refused'[c] # refused[c]
       PROVE  refused'[c] \notin LoopRuntimeOptions
    OBVIOUS
  <2>1. TypeOK
    BY DEF ConfiguredInv, IInv
  <2>2. ~Resume
    BY DEF Resume
  <2>3. [Next]_vars
    BY <2>2 DEF ConfiguredNext, Control, StartDelegate, configuredVars
  <2>. QED BY <2>1, <2>3, OffersStep
<1>. QED BY <1>1, ConfiguredAlways, PTL DEF ConfiguredSpec, OffersAreHonoured

=============================================================================

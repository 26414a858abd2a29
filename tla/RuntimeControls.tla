-------------------------- MODULE RuntimeControls --------------------------
(***************************************************************************)
(* The choices of model, effort and mode that RuntimeAgent offers for a    *)
(* running loop (internal/app/runtime_controls.go).  SetModel and          *)
(* SetEffort read the loop, decide, and only then change it, and nothing   *)
(* in RuntimeAgent orders one call after another.  The loop controller is  *)
(* external: a change is applied at once and whole, or refused, and a      *)
(* change of mode resets model and effort                                  *)
(* (rig_restore_integration_test.go:148-149).                              *)
(***************************************************************************)

CONSTANTS Models,   \* the model targets; no two candidates share one
          Primer,   \* the target of primer_default, which loops are defined with
          Efforts,  \* the valid efforts
          Low, Max, \* the efforts of the modes quick and deep
          Callers,  \* concurrent calls
          None

ASSUME ControlsAssumption ==
  /\ Primer \in Models
  /\ Low \in Efforts /\ Max \in Efforts
  /\ None \notin Models \cup Efforts

VARIABLES
  roster,         \* primerCandidates: models, or none in a bare agent
  admits,         \* admits[m]: PrimerCandidate.Efforts
  default,        \* default[m]: PrimerCandidate.DefaultEffort
  primerEfforts,  \* RuntimeAgent.primerEfforts, fixed when the session opens
  thinking,       \* Caps.Thinking of the primer
  model, effort,  \* what the loop runs on
  pending,        \* pending[c]: the change call c has decided on
  refused,        \* refused[c]: the choice the last call of c was refused
  overlapped      \* history: a call decided while another was under way

config == <<roster, admits, default, primerEfforts, thinking>>
loop == <<model, effort>>
vars == <<config, loop, pending, refused, overlapped>>

Modes == {"", "quick", "deep"}
Choices == [model : Models] \cup [effort : Efforts] \cup [mode : Modes]
Changes == [model : Models \cup {None}, effort : Efforts \cup {None}]

TypeOK ==
  /\ roster \in SUBSET Models
  /\ admits \in [Models -> SUBSET Efforts] /\ default \in [Models -> Efforts]
  /\ primerEfforts \in SUBSET Efforts /\ thinking \in BOOLEAN
  /\ model \in Models /\ effort \in Efforts
  /\ pending \in [Callers -> Changes \cup {None}]
  /\ refused \in [Callers -> Choices \cup {None}]
  /\ overlapped \in BOOLEAN

-----------------------------------------------------------------------------
(* compileProductionModels: every candidate admits its default, and the efforts
   of the primer are those of its candidate.  A bare agent has no candidates. *)
Configured ==
  /\ roster \in {r \in SUBSET Models : Primer \in r}
  /\ \A m \in roster : default[m] \in admits[m]
  /\ primerEfforts = admits[Primer]

Bare ==
  /\ roster = {}
  /\ admits = [m \in Models |-> {}]
  /\ primerEfforts \in SUBSET Efforts

Admitted(e) == primerEfforts = {} \/ e \in primerEfforts

(* codingModes, beside the base mode every loop declares *)
DeclaredModes ==
  {""} \cup {mode \in {"quick"} : Admitted(Low)} \cup {mode \in {"deep"} : Admitted(Max)}

(* The base mode runs the primer at its own effort. *)
ModeEffort(mode) ==
  IF mode = "quick" THEN Low ELSE IF mode = "deep" THEN Max ELSE default[Primer]

(* initialCodingModeFor *)
InitialMode ==
  IF Admitted(Low) THEN "quick" ELSE IF Max \in primerEfforts THEN "deep" ELSE ""

(* A loop is defined to start in its initial mode. *)
Opened ==
  /\ model = Primer /\ effort = ModeEffort(InitialMode)
  /\ pending = [c \in Callers |-> None]
  /\ refused = [c \in Callers |-> None]
  /\ overlapped = FALSE

Init ==
  /\ admits \in [Models -> SUBSET Efforts] /\ default \in [Models -> Efforts]
  /\ Configured \/ Bare
  /\ thinking \in BOOLEAN
  /\ Opened

-----------------------------------------------------------------------------
(* LoopRuntimeOptions *)
OfferedModels == IF roster = {} THEN {model} ELSE roster

OfferedEfforts ==
  IF model \in roster THEN admits[model]
  ELSE IF primerEfforts = {} /\ thinking THEN Efforts ELSE primerEfforts

LoopRuntimeOptions ==
  [model : OfferedModels] \cup [effort : OfferedEfforts] \cup [mode : DeclaredModes]

Decide(c, change) ==
  /\ pending[c] = None
  /\ pending' = [pending EXCEPT ![c] = change]
  /\ refused' = [refused EXCEPT ![c] = None]
  /\ overlapped' = (overlapped \/ \E d \in Callers : pending[d] # None)
  /\ UNCHANGED <<config, loop>>

Refuse(c, choice) ==
  /\ pending[c] = None
  /\ refused' = [refused EXCEPT ![c] = choice]
  /\ UNCHANGED <<config, loop, pending, overlapped>>

(* Seeded fault of SwitchEffort: the effort is left as it is. *)
SwitchEffortKept(m) == None

(* An effort the new candidate does not admit gives way to its default. *)
SwitchEffort(m) == IF effort \in admits[m] THEN None ELSE default[m]

SetModel(c, m) ==
  \/ roster = {} /\ m = model /\ Decide(c, [model |-> m, effort |-> None])
  \/ m \in roster /\ Decide(c, [model |-> m, effort |-> SwitchEffort(m)])
  \/ m \notin roster /\ ~(roster = {} /\ m = model) /\ Refuse(c, [model |-> m])

(* Seeded fault of AdmittedEfforts: the efforts the session was opened with. *)
AdmittedEffortsFrozen == IF primerEfforts = {} THEN Efforts ELSE primerEfforts

AdmittedEfforts ==
  IF model \in roster THEN IF admits[model] = {} THEN Efforts ELSE admits[model]
  ELSE IF primerEfforts = {} THEN Efforts ELSE primerEfforts

SetEffort(c, e) ==
  \/ e \in AdmittedEfforts /\ Decide(c, [model |-> None, effort |-> e])
  \/ e \notin AdmittedEfforts /\ Refuse(c, [effort |-> e])

(* A mode is judged by the efforts of the primer, and brings the primer back. *)
SetMode(c, mode) ==
  \/ mode \in DeclaredModes /\ Decide(c, [model |-> Primer, effort |-> ModeEffort(mode)])
  \/ mode \notin DeclaredModes /\ Refuse(c, [mode |-> mode])

(* The loop controller applies a change as a whole, or returns an error. *)
Change(c) ==
  /\ pending[c] # None
  /\ \/ /\ model' = IF pending[c].model = None THEN model ELSE pending[c].model
        /\ effort' = IF pending[c].effort = None THEN effort ELSE pending[c].effort
     \/ UNCHANGED loop
  /\ pending' = [pending EXCEPT ![c] = None]
  /\ UNCHANGED <<config, refused, overlapped>>

Next ==
  \E c \in Callers :
    \/ \E m \in Models : SetModel(c, m)
    \/ \E e \in Efforts : SetEffort(c, e)
    \/ \E mode \in Modes : SetMode(c, mode)
    \/ Change(c)

Spec == Init /\ [][Next]_vars

-----------------------------------------------------------------------------
(* A switch must not "leave the loop in an effort state the new model doesn't
   support" (docs/plans/2026-08-04-primer-model-picker-design.md:92-94). *)
EffortAdmitted == model \in roster => effort \in admits[model]

(* Calls made one after another never leave the loop at an effort its candidate
   does not admit, whichever models, efforts and modes they go through.  Calls
   that overlap can: each decides by what it read. *)
SequenceKeepsEffortAdmitted == ~overlapped => EffortAdmitted

(* SetModel, SetEffort and SetMode never refuse what LoopRuntimeOptions offers
   at that moment, whatever was selected since the session was opened. *)
OffersAreHonoured ==
  [][\A c \in Callers :
       refused'[c] # None /\ refused'[c] # refused[c] => refused'[c] \notin LoopRuntimeOptions]_vars

=============================================================================

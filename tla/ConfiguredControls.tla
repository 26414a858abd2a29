------------------------- MODULE ConfiguredControls -------------------------
(***************************************************************************)
(* RuntimeControls over models.json: the session of a process is opened     *)
(* with whatever the file says then (SessionStoreFactory.Open), and resumed *)
(* by later processes over files edited meanwhile.  A session resumes only  *)
(* under the digest it was opened with; production never asks to ignore a   *)
(* mismatch (AllowConfigMismatch, cmd/coderig/main.go:205).                 *)
(***************************************************************************)
EXTENDS RuntimeControls, Naturals

CONSTANTS Files,     \* what models.json may say first
          Edited(_), \* what it may say after somebody has edited it
          Roles, Keyed, TransportOf

File == INSTANCE ModelConfig

VARIABLES
  file,     \* the models.json the running process has loaded
  used,     \* the provider targets the session's loops have run on
  restarts  \* bound only

CONSTANT MaxRestarts

configuredVars == <<vars, file, used, restarts>>

(* The candidate and its efforts by target, as RuntimeControls has them. *)
CandidateAt(f, at) == CHOOSE row \in File!Candidates(f) : row.at = at

Roster(f) == {row.at : row \in File!Candidates(f)}

(* Open: what RuntimeAgent and the loop definitions get from the file. *)
Compiled(f) ==
  [roster |-> Roster(f),
   admits |-> [m \in Models |-> IF m \in Roster(f) THEN CandidateAt(f, m).efforts ELSE {}],
   default |-> [m \in Models |-> IF m \in Roster(f) THEN CandidateAt(f, m).default ELSE Low],
   primerEfforts |-> File!Row(f, f.primer).efforts,
   thinking |-> File!Row(f, f.primer).thinking]

(* A process over a models.json, or a bare agent over a client of its own. *)
ConfiguredInit ==
  /\ \/ /\ file \in {f \in Files : File!Loads(f) /\ File!Row(f, f.primer).at = Primer}
        /\ LET c == Compiled(file) IN
             /\ roster = c.roster /\ admits = c.admits /\ default = c.default
             /\ primerEfforts = c.primerEfforts /\ thinking = c.thinking
     \/ /\ file = None
        /\ Bare
        /\ default \in [Models -> Efforts] /\ thinking \in BOOLEAN
  /\ Opened
  /\ used = {Primer} /\ restarts = 0

(* A call of RuntimeControls; the loop may run on another target after it. *)
Control ==
  /\ Next
  /\ used' = used \cup {model'}
  /\ UNCHANGED <<file, restarts>>

(* A delegate loop runs on any delegate behind the gateway, in process. *)
StartDelegate ==
  /\ file # None
  /\ \E row \in File!Delegates(file) : used' = used \cup {row.at}
  /\ used' # used
  /\ UNCHANGED <<vars, file, restarts>>

(* The process ends and another resumes the session, with the models.json it
   finds; the loop comes back as it was left. *)
Resume ==
  /\ file # None /\ restarts < MaxRestarts
  /\ restarts' = restarts + 1
  /\ \E f \in Edited(file) :
       /\ File!Loads(f) /\ File!Digest(f) = File!Digest(file)
       /\ file' = f
       /\ LET c == Compiled(f) IN
            /\ roster' = c.roster /\ admits' = c.admits /\ default' = c.default
            /\ primerEfforts' = c.primerEfforts /\ thinking' = c.thinking
  /\ pending' = [c \in Callers |-> None]
  /\ refused' = [c \in Callers |-> None]
  /\ UNCHANGED <<loop, overlapped, used>>

ConfiguredNext == Control \/ StartDelegate \/ Resume

ConfiguredSpec == ConfiguredInit /\ [][ConfiguredNext]_configuredVars

-----------------------------------------------------------------------------
(* A models.json that loads also works.  A request names a provider target, not
   an alias, and still reaches the client with the credential configured for its
   alias (runtimeclient.go:48-57); and the ACP catalog refuses what was loaded
   for one reason only, a native alias that is also a delegate's
   (acpcatalog.go:102-185). *)
LoadedFileWorks ==
  file # None =>
    LET in == File!CatalogInput(file) IN
    /\ \A row \in file.rows : File!Clients(file)[row.at] = row.key
    /\ (\A h \in File!Catalog!Harnesses :
          in.native[h] # None => in.native[h] \cap DOMAIN in.rows = {})
       => File!Catalog!ValidInput(in)

(* The transports declared for a session's loops include that of every target
   its loops, delegates too, have run on: otherwise the resumed session could
   not be restored (inference_policy.go:142-165). *)
UsedTransportsDeclared ==
  file # None => {TransportOf[m] : m \in used} \subseteq File!DeclaredTransports(file)

=============================================================================

SPECIFICATION ConfiguredSpec
CONSTANTS
  Models = {primer, other, third}
  Primer = primer
  Efforts <- Three
  Low = "low"
  Max = "max"
  None = None
  Callers = {c1, c2}
  Roles = {"builder"}
  Keyed = {primer, other}
  TransportOf <- Transports
  Files <- AllFiles
  Edited <- SmallEdits
  MaxRestarts = 1
SYMMETRY Symmetry
INVARIANTS SequenceKeepsEffortAdmitted LoadedFileWorks UsedTransportsDeclared
PROPERTY OffersAreHonoured

CONSTANTS
  Waiters = {w1, w2}
  Signallers = {s1, s2}
  ExitCodes <- MCExitCodes
  SourceCap = 1
  MaxActivities = 2
SPECIFICATION Spec
SYMMETRY Symmetry
INVARIANTS BlameIsEarned ReasonsNeverSoften WaitSeesWholeStream
PROPERTIES ReturnedSignalsCount ImplementsStream

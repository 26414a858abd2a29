CONSTANTS
  Waiters = {w1}
  Signallers = {s1, s2}
  ExitCodes <- MCExitCodes
  SourceCap = 1
  MaxActivities = 1
SPECIFICATION DrainedSpec
PROPERTY CallsReturn

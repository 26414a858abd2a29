SPECIFICATION Spec
CONSTANTS
  Servers = {m1}
  Elicitations = {}
  Backlog = 1
  MaxReports = 0
  None = None
INVARIANT StreamOpensKnowing

SPECIFICATION Spec
CONSTANTS
  Roles = {"planner", "builder"}
  None = None
  Inputs <- MCInputs
INVARIANT EveryLossIsReported

SPECIFICATION FairSpec
CONSTANTS
  Roles = {"planner", "builder"}
  None = None
  Inputs <- MCInputs
INVARIANTS OnlyAnsweredSurvive OneDefaultPerRole NothingRunsOn
PROPERTY PreflightReturns

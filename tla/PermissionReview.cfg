SPECIFICATION Spec
CHECK_DEADLOCK FALSE
CONSTANTS
  Targets <- MCTargets
  Calls <- MCCalls
  MaxSessions = 2
  MaxChanges = 1
  None = None
INVARIANTS ContainmentIsExact ApprovedAsSeen UnchangedIsNeverStale GrantsFollowTheProfile

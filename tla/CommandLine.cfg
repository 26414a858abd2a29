SPECIFICATION CommandLineSpec
CONSTANTS
  Persisted = {p1, p2}
  Headless = {}
  Listers = {l1}
  Closers = {k1}
  SessionIds = {s1, s2, s3}
  Earlier = {s1}
  Stubborn = {"session"}
  Serving = {TRUE}
  None = None
INVARIANTS StoreOutlivesSessions ReopenedOnlyIfOffered SuccessIsEarned
PROPERTIES ProcessExits

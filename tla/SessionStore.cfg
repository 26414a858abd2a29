SPECIFICATION StoreSpec
CONSTANTS
  Persisted = {p1, p2}
  Headless = {}
  Listers = {l1}
  Closers = {k1}
  SessionIds = {s1, s2}
  Earlier = {}
  Stubborn = {"session"}
  Serving = {TRUE, FALSE}
  None = None
SYMMETRY Symmetry
INVARIANTS LiveSessionIsCurrent OneBackend
PROPERTIES ListingsHideTheLive

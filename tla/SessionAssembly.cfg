SPECIFICATION Spec
CONSTANTS
  Persisted = {p1}
  Headless = {h1, h2}
  Stubborn = {"session", "builder"}
  Serving = {TRUE, FALSE}
  None = None
SYMMETRY Symmetry
INVARIANTS NothingLeaks ConsumersStopFirst FirstFaultReported

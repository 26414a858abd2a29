SPECIFICATION FairSpec
CHECK_DEADLOCK FALSE
CONSTANTS
  Roles = {"builder"}
  None = None
  Children = {c1, c2}
  Catalogs <- MCCatalogs
  MaxRestarts = 1
INVARIANTS NoStrayGateway RoutedAsChosen RunsAsBound
PROPERTY EndsAreSeen

SPECIFICATION Spec
CONSTANTS
  Params = {":f"}
  CatchAlls = {"*f"}
  NameOf <- MCNames
  NoRoute = NoRoute
  None = None
  GroupPrefixes <- MCPrefixes
  RoutePaths <- MCSuffixes
  Paths <- MCPaths
  Begins <- MCBegins
  MaxGroups = 3
  MaxUses = 2
  MaxRoutes = 2
  MaxNexts = 2
INVARIANTS
  TypeOK
  RoutedAsDeclared
  BehindItsGroup
  EnteredInOrder
  FailEndsChain
  PanicAnswered

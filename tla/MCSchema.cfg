SPECIFICATION MCSpec
CONSTANTS
  Matching <- MCMatching
  Rejected <- MCRejected
  Resolved <- MCResolved
  Regexes <- MCRegexes
  NumberOf <- MCNumberOf
  SafeLimit = 3
  Primitives <- MCPrimitives
  Checks <- MCChecks
  Defaults <- MCDefaults
  Partner <- MCPartner
  Partners <- MCPartners
  Shape <- MCShape
  MaxCalls = 3
  Focused = {"builder", "document", "sdl"}
  Apps <- MCApps
  RouteMap <- MCRouteMap
  Given <- MCGiven
  OasSegment <- MCOasSegment
  Uppercase <- MCUppercase
  Lowercase <- MCLowercase
  MaxDocuments = 3
  Values <- MCValues
  Clean <- MCClean
  Pascals <- MCPascals
  Catalogue <- MCCatalogue
  RootInputs <- MCRootInputs
  MaxTypes = 3
CHECK_DEADLOCK FALSE
INVARIANTS
  ParsesSound DocumentsAgree RoutesDocumented DocumentSound
PROPERTIES
  ModifiersMonotone

CONSTANTS
    Chars <- MCChars
    PathPrefixes <- MCPrefixes
    Priorities <- MCPriorities
    Port <- MCPort
    MaxLen <- MCMaxLen
    MaxRoutes <- MCMaxRoutes
SPECIFICATION Spec
INVARIANTS
    FindRouteIsBest

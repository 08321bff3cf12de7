CONSTANTS
    NoHeader = NoHeader
    Policies <- MCPolicies
    Paths <- MCPaths
    Headers <- MCHeaders
    PqcHeaders <- MCPqcHeaders
SPECIFICATION Spec
INVARIANT TlsConfigFromPolicy

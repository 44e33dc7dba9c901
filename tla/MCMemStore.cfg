CONSTANTS
    c1 = c1  h1 = h1  h2 = h2
    NoArg = NoArg
    Clients <- MCClients
    Shutters <- MCShutters
    MaxCalls = 2
SPECIFICATION Spec
INVARIANT ShutdownNeverPanics

CONSTANTS
    c1 = c1  c2 = c2  h1 = h1  h2 = h2  s1 = s1  s2 = s2  t1 = t1  t2 = t2
    NoArg = NoArg
    NoBucket = NoBucket
    Clients <- MCClients
    Shutters <- MCShutters
    Sessions <- MCSessions
    Topics <- MCTopics
    Msgs <- MCMsgsRel
    Batches <- MCBatchesRel
    SubArgs <- MCSubArgs
    MaxCalls = 2
SPECIFICATION Spec
PROPERTY StoreRefinement

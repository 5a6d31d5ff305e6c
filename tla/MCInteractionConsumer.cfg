CONSTANTS
    Events = {l1, g1, b1}
    Local = {l1}
    Malformed = {b1}
    Workers = {w1, w2}
    Names = {n1}
    Name <- OneName
    NoEvent = NoEvent
    ReadCount = 2
    DrainCount = 1
    MaxLen = 1
    MaxEntries = 2
    MaxStops = 1
    MaxFailures = 1
SPECIFICATION FairSpec
INVARIANTS TypeOK NothingDropped
PROPERTIES ImplementsLedger DrainEnds PublishedIsStored

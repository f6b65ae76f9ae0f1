SPECIFICATION FairSpec
CONSTANTS
    r1 = r1
    r2 = r2
    good = good
    forged = forged
    Requests = {r1, r2}
    Main = Main
    Note = Note
    Bundles = {good, forged}
    Asked = good
    PipeSize = 1
    MaxEchoes = 1
    MaxFaults = 2
INVARIANTS
    HandshakeFirst
    ServesAsked
PROPERTIES
    ReaderMovesOn
    RequestsEnd
CHECK_DEADLOCK FALSE

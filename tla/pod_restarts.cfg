SPECIFICATION Spec
CONSTANTS
    r1 = r1
    r2 = r2
    good = good
    forged = forged
    Requests = {r1}
    Main = Main
    Note = Note
    Bundles = {good}
    Asked = good
    PipeSize = 1
    MaxEchoes = 0
    MaxFaults = 1
INVARIANT
    ServesOneCopy
CHECK_DEADLOCK FALSE

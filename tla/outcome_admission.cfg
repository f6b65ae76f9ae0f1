SPECIFICATION FairSpec
CONSTANTS
    c1 = c1
    c2 = c2
    c3 = c3
    o1 = o1
    learned = learned
    forged = forged
    a1 = a1
    f1 = f1
    Calls = {c1, c2, c3}
    Outcomes = {o1}
    Payloads = {learned, forged}
    Chat = Chat
    NoOutcome = NoOutcome
    NoPayload = NoPayload
    NoResult = NoResult
    Artifacts = {a1}
    ArtifactsOf <- OneArtifact
    Tampered = {forged}
    Admitting = {learned}
    Fragments = {f1}
    MaxFaults = 2
INVARIANTS
    PointsHaveRows
    CompleteIsStored
    ProcessingIsOwned
PROPERTIES
    ImplementsLedger
    RetriesSettle
CHECK_DEADLOCK FALSE

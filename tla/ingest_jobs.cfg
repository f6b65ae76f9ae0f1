SPECIFICATION FairSpec
CONSTANTS
    j1 = j1
    j2 = j2
    w1 = w1
    w2 = w2
    d1 = d1
    short = short
    long = long
    id = id
    Jobs = {j1}
    Workers = {w1, w2}
    Ids = {id}
    IdOf <- SharedId
    Documents = {d1}
    DocOf <- OneDocument
    Contents = {short, long}
    Batches <- BatchCounts
    NoJob = NoJob
    NoId = NoId
    NoContent = NoContent
    MaxRetries = 1
    MaxFaults = 2
INVARIANTS
    AttemptIsExclusive
    LateWritesBounded
    SucceededIsComplete
PROPERTIES
    ImplementsLedger
    JobsEnd
CHECK_DEADLOCK FALSE

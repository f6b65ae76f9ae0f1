SPECIFICATION FairSpec
CONSTANTS
    c1 = c1
    Calls = {c1}
    Requests <- SomeRequests
    Budgets = {3, 6}
    DefaultBudget = 6
    NoBudget = NoBudget
    MaxTotal = 11
    Static = 1
    Overhead = 1
    TopK = 2
    Found <- Lists
    NoRequest = NoRequest
    NoAccount = NoAccount
    MaxChanges = 1
    MaxFaults = 1
INVARIANTS
    AnswersAreRecorded
    StepsExplainErrors
    SelectionAgrees
    PlannedWithinCeiling
    AdmitsAnsweredTurns
PROPERTIES
    RequestsEnd
CHECK_DEADLOCK FALSE

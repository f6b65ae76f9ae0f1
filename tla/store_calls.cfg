SPECIFICATION Spec
CONSTANTS
    Calls = {c1, c2}
    Connections = {k1}
    Providers = {"gitlab", "github", "bitbucket cloud", "bitbucket server"}
    Paths <- MCPaths
    Manual = manual
    Namespaces <- MCNamespaces
    n1 = n1
    Contents <- MCContents
    short = short
    long = long
    ChunksOf <- MCChunksOf
    Legacy <- MCLegacy
    RankOf <- MCRankOf
    BatchSize = 1
    ScrollPage = 1
    TreePage = 1
    ServerLimit = 1
    Absent = absent
    NoConnection = noConnection
    NoRow = noRow
    Null = null
    Branches <- MCBranches
    Registered <- MCRegistered
    Written <- MCWritten
    MaxCalls = 2
    MaxEvents = 2
INVARIANTS
    EmbeddingsDescribe
    CataloguedIsStored
    ListCounts
PROPERTIES
    NoSilentOverwrite
SYMMETRY CallSymmetry
CHECK_DEADLOCK FALSE

SPECIFICATION FairSpec
CONSTANTS
    b1 = b1
    b2 = b2
    b3 = b3
    repo = repo
    c1 = c1
    c2 = c2
    loop1 = loop1
    loop2 = loop2
    api1 = api1
    s1 = s1
    s2 = s2
    Builds = {b1, b2}
    SourceOf <- OneSource
    Received <- Order
    Workspaces <- NoWorkspaces
    Repositories = {repo}
    RepoOf <- OneRepository
    Processes = {c1, c2}
    Loops = {loop1, loop2}
    Requests = {}
    Host <- ThreadHost
    Sessions = {}
    NoBuild = NoBuild
    MaxFaults = 2
PROPERTIES
    AliasNeverGoesBack
    LatestIsSpared
    LatestConverges
    OldGenerationsGo
CHECK_DEADLOCK FALSE

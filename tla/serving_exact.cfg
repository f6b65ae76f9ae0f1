SPECIFICATION Spec
CONSTANTS
    b1 = b1
    b2 = b2
    b3 = b3
    repo = repo
    c1 = c1
    c2 = c2
    loop1 = loop1
    loop2 = loop2
    api1 = api1
    s1 = s1
    s2 = s2
    Builds = {b1, b2}
    SourceOf <- OneSource
    Received <- Order
    Workspaces <- NoWorkspaces
    Repositories = {repo}
    RepoOf <- OneRepository
    Processes = {c1}
    Loops = {loop1}
    Requests = {}
    Host <- ThreadHost
    Sessions = {s1, s2}
    NoBuild = NoBuild
    MaxFaults = 0
INVARIANTS
    ExactStaysExact
CHECK_DEADLOCK FALSE

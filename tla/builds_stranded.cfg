SPECIFICATION FairSpec
CONSTANTS
    f1 = f1
    w1 = w1
    r1 = r1
    r2 = r2
    r3 = r3
    dA = dA
    dB = dB
    c1 = c1
    c2 = c2
    v1 = v1
    v2 = v2
    full = full
    small = small
    FluxSources = {f1}
    Workspaces = {}
    Revisions = {r1, r2, r3}
    Digests = {dA, dB}
    Artifacts <- RevertArtifacts
    Courses <- Reverted
    NoArtifact = NoArtifact
    Controllers = {c1}
    Configs <- AllConfigs
    NoConfig = NoConfig
    NoBuild = NoBuild
    BatchSize = 2
    MaxRuns = 2
    MaxFaults = 0
    LateExpiry = FALSE
PROPERTIES
    NoStrandedSource
CHECK_DEADLOCK FALSE

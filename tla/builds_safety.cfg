SPECIFICATION Spec
CONSTANTS
    f1 = f1
    w1 = w1
    r1 = r1
    r2 = r2
    r3 = r3
    dA = dA
    dB = dB
    c1 = c1
    c2 = c2
    v1 = v1
    v2 = v2
    full = full
    small = small
    FluxSources = {f1}
    Workspaces = {}
    Revisions = {r1, r2}
    Digests = {dA, dB}
    Artifacts <- ChainArtifacts
    Courses <- Changed
    NoArtifact = NoArtifact
    Controllers = {c1, c2}
    Configs <- AllConfigs
    NoConfig = NoConfig
    NoBuild = NoBuild
    BatchSize = 2
    MaxRuns = 2
    MaxFaults = 1
    LateExpiry = FALSE
SYMMETRY Symmetry
INVARIANTS
    WorkflowBuildsItsRow
    AtMostOneRun
    SucceededIsPublished
PROPERTIES
    ImplementsLifecycle
CHECK_DEADLOCK FALSE

CONSTANTS
    b1 = b1
    b2 = b2
    wide = wide
    narrow = narrow
    f1 = f1
    f2 = f2
    f3 = f3
    t1 = t1
    t2 = t2
    p1 = p1
    p2 = p2
    g1 = g1
    g2 = g2
    Commands = {c1, c2}
    Batches = {b1, b2}
    Scopes = {wide, narrow}
    InScope <- MCInScope
    Pointers = {q1, q2}
    HandWritten = {h}
    Budget = 2
    Broken = Broken
    NoContent = NoContent
    MaxRuns = 2
    MaxCommands = 3
    BootstrapKills = 1
    Files = {f1, f2, f3}
    Bodies = {t1, t2}
    Stems = {s1, s2}
    Body <- MCBody
    MigrationFaults = {"kill", "classify", "write", "move"}
    MaxCopies = 3
    MaxMigrationFaults = 2
    Torn = Torn
    NoFile = NoFile
    Paths = {p1, p2}
    Groups = {g1, g2}
    GroupOf <- MCGroupOf
    Texts = {t1, t2}
    Converters = {x1, x2}
    ScopeEditors = {e1}
    NoMarker = NoMarker
    MaxStamps = 2
    MaxTreeEdits = 1
    MaxScopeEdits = 2
    MaxConversions = 3
    MaxCuts = 1
    BodyLines = 6
    SizeOf <- MCSizeOf
    Limits = {3, 6}
    Chunks = {k1, k2, k3}
    Messages = {m1, m2, m3}
    Scores = {0, 1}
    Boosts = {0, 2}
    OverFetch <- MCOverFetch
    TopKs = {1, 2}
SPECIFICATION WorkflowsSpec
CHECK_DEADLOCK FALSE
INVARIANTS
    PlanIsOnDisk
    ImportedOnce
    CurrentIsConverted
    ChunksPartition
    SearchKeepsBest
PROPERTIES
    ProgressKept
    AlwaysOnKept
    ImplementsImport

SPECIFICATION Spec
CONSTANTS
    Sessions = {s1}
    Transcripts <- Rewritten
    Texts <- TwoTexts
    Canonical = Canonical
    Live = Live
    Backfill = Backfill
    Absent = Absent
    None = None
    Procs = {p1}
    Commands = {"session-index", "no-embed", "full", "archive", "from-index", "prune", "forget"}
    Faults = {"kill", "torn", "degraded", "stuck", "unloaded"}
    Markers = {TRUE, FALSE}
    MaxEdits = 2
    MaxFaults = 1
INVARIANTS
    TypeOK
    VectorsHaveMessages
PROPERTIES
    RepairIsComplete
    SyncArchivesLive
    CopyKeepsRows
    ExcludedNotIngested
    ForgetIsComplete

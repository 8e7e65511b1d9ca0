SPECIFICATION FairSpec
CONSTANTS
    Sessions = {s1}
    Transcripts <- Rewritten
    Texts <- TwoTexts
    Canonical = Canonical
    Live = Live
    Backfill = Backfill
    Absent = Absent
    None = None
    Procs = {p1}
    Commands = {"session-index", "no-embed"}
    Faults = {"kill", "torn", "degraded", "stuck"}
    Markers = {FALSE}
    MaxEdits = 2
    MaxFaults = 1
INVARIANTS
    SkipIsSound
PROPERTIES
    RunIndexesLive
    CatchesUp

SPECIFICATION Spec
CONSTANTS
    Sessions = {s1}
    Transcripts <- Growing
    Texts <- TwoTexts
    Canonical = Canonical
    Live = Live
    Backfill = Backfill
    Absent = Absent
    None = None
    Procs = {p1}
    Commands = {"session-index", "forget"}
    Faults = {"degraded"}
    Markers = {FALSE}
    MaxEdits = 2
    MaxFaults = 1
PROPERTIES
    RunIndexesLive

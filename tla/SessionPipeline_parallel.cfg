SPECIFICATION Spec
CONSTANTS
    Sessions = {s1}
    Transcripts <- Growing
    Texts <- TwoTexts
    Canonical = Canonical
    Live = Live
    Backfill = Backfill
    Absent = Absent
    None = None
    Procs = {p1, p2}
    Commands = {"session-index"}
    Faults = {}
    Markers = {FALSE}
    MaxEdits = 1
    MaxFaults = 0
INVARIANTS
    SkipIsSound

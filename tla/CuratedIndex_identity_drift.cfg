SPECIFICATION Spec
CONSTANTS
    Files <- OneFile
    Outside = {}
    Contents = {a, b}
    Invalid = {}
    Models = {m1, m2}
    TestModels = {}
    Procs = {p1, p2}
    Kinds = {"update", "capture"}
    Inodes <- FourInodes
    InitSchemas = {"current"}
    Absent = Absent
    None = None
    MaxEdits = 2
    MaxFaults = 0
INVARIANTS
    StampNamesModel

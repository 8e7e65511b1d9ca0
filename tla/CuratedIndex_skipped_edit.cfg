SPECIFICATION Spec
CONSTANTS
    Files <- OneFile
    Outside = {}
    Contents = {a, b}
    Invalid = {}
    Models = {m1}
    TestModels = {}
    Procs = {p1, p2}
    Kinds = {"update"}
    Inodes <- FourInodes
    InitSchemas = {"none"}
    Absent = Absent
    None = None
    MaxEdits = 2
    MaxFaults = 0
INVARIANTS
    SkipIsSound

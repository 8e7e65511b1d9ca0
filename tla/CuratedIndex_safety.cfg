SPECIFICATION Spec
CONSTANTS
    Files <- TwoFiles
    Outside = {}
    Contents = {a, b, bad}
    Invalid = {bad}
    Models = {m1}
    TestModels = {}
    Procs = {p1, p2}
    Kinds = {"rebuild", "update", "search", "capture", "confirm"}
    Inodes <- FourInodes
    InitSchemas = {"none", "old"}
    Absent = Absent
    None = None
    MaxEdits = 1
    MaxFaults = 1
SYMMETRY ProcSymmetry
INVARIANTS
    TypeOK
    TempIsMine
    RebuildReflectsDisk

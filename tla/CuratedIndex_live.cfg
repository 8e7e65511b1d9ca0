SPECIFICATION FairSpec
CONSTANTS
    Files <- OneFile
    Outside = {}
    Contents = {a, b}
    Invalid = {}
    Models = {m1}
    TestModels = {}
    Procs = {p1, p2}
    Kinds = {"rebuild", "update", "confirm"}
    Inodes <- FourInodes
    InitSchemas = {"none"}
    Absent = Absent
    None = None
    MaxEdits = 1
    MaxFaults = 1
PROPERTIES
    LockIsReleased
    Converges

SPECIFICATION HistorySpec
CONSTANTS
    Files <- ThreeFiles
    Outside = {3}
    Contents = {a, bad}
    Invalid = {bad}
    Models = {m1, test}
    TestModels = {test}
    Procs = {p1, p2}
    Kinds = {"rebuild", "update", "search"}
    Inodes <- FourInodes
    InitSchemas = {"none", "old"}
    Absent = Absent
    None = None
    MaxEdits = 1
    MaxFaults = 0
SYMMETRY ProcSymmetry
INVARIANTS
    UpdateReflectsDisk
    StampNamesModel
    SearchComparesLikeWithLike
PROPERTIES
    ImplementsMemoryIndex
    NeverBackwards
    BannerIsHonest
    RealVectorsSurvive

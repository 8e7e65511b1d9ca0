CONSTANTS
    TaskSessions = {s1}
    TaskWriters = {w1, w2}
    NoSession = NoSession
    MaxTasks = 2
    MaxNotes = 1
    MaxTaskOps = 4
    TaskKills = 1
    Tickers = {t1, t2}
    Scheduled = {t1}
    MaxFreezes = 2
    MaxToggles = 2
    ResumeKills = 1
    NoFreeze = NoFreeze
    Sessions = {p1, p2}
    NoOwner = NoOwner
    Unwritten = Unwritten
    Exited = Exited
    MaxWaits = 1
    MaxStarts = 4
    SetupKills = 1
    Shells = {b1, b2}
    NoShell = NoShell
    Gone = Gone
    MaxEdits = 4
    ShellKills = 1
SPECIFICATION BackgroundSpec
CHECK_DEADLOCK FALSE
INVARIANTS
    OneBuilder
    ReadyMeansBuilt
    UpdatesAreSerial
PROPERTIES
    UpdatesCompose
    OneLaunchPerFreeze
    DisableForgetsFreezes
    ParkedNotResumed
    FreezeIsServed
    HookReturns
    EditIsFollowed

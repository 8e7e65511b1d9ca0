----------------------------- MODULE ReindexHook -----------------------------
(***************************************************************************)
(* The PostToolUse hook: after an edit under the memory home it starts     *)
(* `rekol index update` in the background.  Where there is no flock the    *)
(* background shells exclude one another with a directory that holds the   *)
(* pid of the hook's main shell, which has returned by then; a shell that  *)
(* finds a directory whose recorded process is gone clears it.  Shells may *)
(* be killed, and a kill runs no EXIT trap.                                *)
(***************************************************************************)
EXTENDS Naturals

CONSTANTS Shells, NoShell, Gone,
          MaxEdits,       \* bound on the edits
          ShellKills      \* bound on the shells that are killed

ASSUME ReindexAssumption ==
    /\ NoShell \notin Shells /\ Gone \notin Shells \union {NoShell}
    /\ MaxEdits \in Nat /\ ShellKills \in Nat

VARIABLES flockExists, \* the system has flock
          flockHolder, \* the shell that holds it
          mutex,       \* the directory and the pid in it, Gone if that process has ended
          shells,      \* shell -> its background step and whether its main shell lives
          owed,        \* history: an edit that no update has started after
          edits, shellKills

reindexVars == <<flockExists, flockHolder, mutex, shells, owed, edits, shellKills>>

NoMutex == [held |-> FALSE, pid |-> NoShell]
Ended == [step |-> "none", main |-> FALSE]

\* As if no lock were ever cleared.
NeverGone(pid) == FALSE

\* kill -0 on the recorded pid, that of a main shell.
HolderGone(pid) == pid = Gone

Step(s, step) == shells' = [shells EXCEPT ![s].step = step]

-----------------------------------------------------------------------------

\* An edit under the memory home.  The edit needs an update of its own unless one is
\* already reading the files: then the hook counts on that one.
FireHook(s) ==
    /\ edits < MaxEdits /\ edits' = edits + 1
    /\ shells[s] = Ended
    /\ shells' = [shells EXCEPT ![s] = [step |-> IF flockExists THEN "flock" ELSE "mkdir",
                                        main |-> TRUE]]
    /\ owed' = (owed \/ \A r \in Shells : shells[r].step # "update")
    /\ UNCHANGED <<flockExists, flockHolder, mutex, shellKills>>

\* The hook itself returns at once; its background shell goes on.
ReturnToTool(s) ==
    /\ shells[s].main
    /\ shells' = [shells EXCEPT ![s].main = FALSE]
    /\ mutex' = IF mutex.pid = s THEN [mutex EXCEPT !.pid = Gone] ELSE mutex
    /\ UNCHANGED <<flockExists, flockHolder, owed, edits, shellKills>>

\* As if a shell that flock turned away went on.
StubbornTryFlock(s) ==
    /\ shells[s].step = "flock"
    /\ flockHolder' = IF flockHolder = NoShell THEN s ELSE flockHolder
    /\ Step(s, "debounce")
    /\ UNCHANGED <<flockExists, mutex, owed, edits, shellKills>>

\* flock -n.
TryFlock(s) ==
    /\ shells[s].step = "flock"
    /\ IF flockHolder = NoShell
       THEN flockHolder' = s /\ Step(s, "debounce")
       ELSE UNCHANGED flockHolder /\ Step(s, "none")
    /\ UNCHANGED <<flockExists, mutex, owed, edits, shellKills>>

TryMkdir(s) ==
    /\ shells[s].step = "mkdir"
    /\ IF mutex.held THEN UNCHANGED mutex /\ Step(s, "inspect")
       ELSE mutex' = [NoMutex EXCEPT !.held = TRUE] /\ Step(s, "pid")
    /\ UNCHANGED <<flockExists, flockHolder, owed, edits, shellKills>>

InspectMutex(s) ==
    /\ shells[s].step = "inspect"
    /\ Step(s, IF HolderGone(mutex.pid) THEN "reclaim" ELSE "none")
    /\ UNCHANGED <<flockExists, flockHolder, mutex, owed, edits, shellKills>>

ReclaimMutex(s) ==
    /\ shells[s].step = "reclaim"
    /\ mutex' = NoMutex
    /\ Step(s, "retry")
    /\ UNCHANGED <<flockExists, flockHolder, owed, edits, shellKills>>

RetryMkdir(s) ==
    /\ shells[s].step = "retry"
    /\ IF mutex.held THEN UNCHANGED mutex /\ Step(s, "none")
       ELSE mutex' = [NoMutex EXCEPT !.held = TRUE] /\ Step(s, "pid")
    /\ UNCHANGED <<flockExists, flockHolder, owed, edits, shellKills>>

\* $$ is the pid of the main shell, also in the background shell.
RecordHolder(s) ==
    /\ shells[s].step = "pid"
    /\ mutex' = IF ~mutex.held THEN mutex
                ELSE [mutex EXCEPT !.pid = IF shells[s].main THEN s ELSE Gone]
    /\ Step(s, "debounce")
    /\ UNCHANGED <<flockExists, flockHolder, owed, edits, shellKills>>

\* After the debounce, rekol index update.
StartUpdate(s) ==
    /\ shells[s].step = "debounce"
    /\ Step(s, "update")
    /\ owed' = FALSE
    /\ UNCHANGED <<flockExists, flockHolder, mutex, edits, shellKills>>

\* The flock is released, or the trap removes the directory, whoever made it.
EndUpdate(s) ==
    /\ shells[s].step = "update"
    /\ flockHolder' = IF flockHolder = s THEN NoShell ELSE flockHolder
    /\ mutex' = IF flockExists THEN mutex ELSE NoMutex
    /\ Step(s, "none")
    /\ UNCHANGED <<flockExists, owed, edits, shellKills>>

\* Without another shell that is still to take the lock, or has it and is still to
\* update, the edit waits for the next one.  The few milliseconds in which the main shell
\* still runs are left out.
KillShell(s) ==
    /\ shells[s].step # "none" /\ ~shells[s].main
    /\ shellKills < ShellKills /\ shellKills' = shellKills + 1
    /\ flockHolder' = IF flockHolder = s THEN NoShell ELSE flockHolder
    /\ Step(s, "none")
    /\ owed' = (owed /\ \E r \in Shells \ {s} :
                          shells[r].step \in {"flock", "mkdir", "reclaim", "pid", "debounce"})
    /\ UNCHANGED <<flockExists, mutex, edits>>

-----------------------------------------------------------------------------

ReindexInit ==
    /\ flockExists \in BOOLEAN
    /\ flockHolder = NoShell /\ mutex = NoMutex
    /\ shells = [s \in Shells |-> Ended]
    /\ owed = FALSE
    /\ edits = 0 /\ shellKills = 0

ShellStep(s) ==
    \/ ReturnToTool(s) \/ TryFlock(s) \/ TryMkdir(s) \/ InspectMutex(s) \/ ReclaimMutex(s)
    \/ RetryMkdir(s) \/ RecordHolder(s) \/ StartUpdate(s) \/ EndUpdate(s)

ReindexNext == \E s \in Shells : FireHook(s) \/ ShellStep(s) \/ KillShell(s)

\* The operating system keeps running the shells.
ReindexFairness == \A s \in Shells : WF_reindexVars(ShellStep(s))

ReindexSpec == ReindexInit /\ [][ReindexNext]_reindexVars /\ ReindexFairness

-----------------------------------------------------------------------------

ReindexTypeOK ==
    /\ flockExists \in BOOLEAN /\ flockHolder \in Shells \union {NoShell}
    /\ mutex \in [held: BOOLEAN, pid: Shells \union {NoShell, Gone}]
    /\ shells \in [Shells -> [step: {"none", "flock", "mkdir", "inspect", "reclaim", "retry",
                                     "pid", "debounce", "update"}, main: BOOLEAN]]
    /\ owed \in BOOLEAN
    /\ edits \in 0..MaxEdits /\ shellKills \in 0..ShellKills

\* A burst of edits does not run overlapping updates, whoever is killed: the lock admits
\* one background shell at a time (auto-reindex.sh:12-18).  Where there is no flock the
\* directory does not, as it names a process that has returned.
UpdatesAreSerial ==
    flockExists => \A r, s \in Shells :
        shells[r].step = "update" /\ shells[s].step = "update" => r = s

\* Somebody will still write the pid or run.
Working == \E s \in Shells : shells[s].step # "none"

\* A shell was killed between making the directory and writing the pid.
Wedged == mutex.held /\ mutex.pid = NoShell /\ ~Working

\* An edit is followed by an update that starts after it, also when an earlier shell
\* was killed and left its lock behind (auto-reindex.sh:113-128).  A directory without a pid
\* is the exception: nobody ever clears it.
EditIsFollowed == owed ~> (~owed \/ Wedged)
=============================================================================

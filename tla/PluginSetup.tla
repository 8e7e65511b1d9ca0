----------------------------- MODULE PluginSetup -----------------------------
(***************************************************************************)
(* The plugin's SessionStart hook builds rekol's environment once, for     *)
(* whichever session comes first.  Sessions exclude one another with flock *)
(* or, where there is none or where it times out, with a directory that    *)
(* holds its owner's pid and age; waiters clear a lock whose owner is gone *)
(* or that is too old, by what they read of it one file after the other.   *)
(* Any session may be killed at any step.                                  *)
(***************************************************************************)
EXTENDS Naturals, FiniteSets

CONSTANTS Sessions,
          NoOwner,       \* there is no pid file
          Unwritten,     \* the pid file is there, and empty
          Exited,        \* the pid of a process that has ended
          MaxWaits,      \* LOCK_MAX_AGE in turns of the waiting loop
          MaxStarts,     \* bound on the session starts
          SetupKills     \* bound on the sessions that are killed

ASSUME SetupAssumption ==
    /\ {NoOwner, Unwritten, Exited} \intersect Sessions = {}
    /\ NoOwner # Unwritten /\ NoOwner # Exited /\ Unwritten # Exited
    /\ MaxWaits \in Nat /\ MaxStarts \in Nat /\ SetupKills \in Nat

VARIABLES hasFlock,   \* the system has flock
          flocked,    \* the session that holds the flock
          lockdir,    \* the directory, its pid file and its file of the time
          partial,    \* .partial exists
          failed,     \* .failed exists
          venv,       \* "none", "env", "installing" or "full"
          hooks,      \* session -> its hook
          overlapped, \* history: two sessions were building at once
          disturbed,  \* history: a flock timeout, or a directory removed in one of
                      \* the ways of Misjudged
          starts, setupKills

setupVars == <<hasFlock, flocked, lockdir, partial, failed, venv, hooks, overlapped, disturbed,
               starts, setupKills>>

NoDir == [held |-> FALSE, pid |-> NoOwner, started |-> "none"]
NoHook == [step |-> "idle", waits |-> 0, trap |-> FALSE, owner |-> NoOwner, aged |-> FALSE,
           same |-> FALSE]

BuildSteps == {"touch", "unfail", "venv", "install", "installing", "finish"}

\* is_ready: the program is there, and no build is unfinished.
IsReady == venv \in {"installing", "full"} /\ ~partial

\* As it would be without `|| echo 0`: kill -0 fails on the empty text of no file.
OwnerGoneOrUnknown(owner) == owner \in {NoOwner, Unwritten, Exited}

\* kill -0 on the owner that was read.  Without a pid file the owner is 0, and
\* kill -0 0 succeeds; on the empty text of a file not yet written it fails.
OwnerGone(owner) == owner \in {Unwritten, Exited}

\* The directory that session p is about to remove may not be an abandoned one: its
\* pid file was still empty, it is another than the one whose owner was read, or it
\* is only old.
Misjudged(p) == hooks[p].owner = Unwritten \/ ~hooks[p].same \/ hooks[p].aged

\* The hook of session p goes on at a step.
Goto(p, step) == hooks' = [hooks EXCEPT ![p].step = step]

\* The processes that are building, were p at a step.
TwoBuilders(p, step) ==
    step \in BuildSteps /\ \E q \in Sessions \ {p} : hooks[q].step \in BuildSteps

-----------------------------------------------------------------------------

\* inject: a known failure, or an environment that is ready, ends it at once.
StartSession(p) ==
    /\ hooks[p].step = "idle"
    /\ starts < MaxStarts /\ starts' = starts + 1
    /\ ~failed /\ ~IsReady
    /\ hooks' = [hooks EXCEPT ![p] = [NoHook EXCEPT !.step = IF hasFlock THEN "flock"
                                                             ELSE "mkdir"]]
    /\ UNCHANGED <<hasFlock, flocked, lockdir, partial, failed, venv, overlapped, disturbed,
                   setupKills>>

TakeFlock(p) ==
    /\ hooks[p].step = "flock" /\ flocked = NoOwner
    /\ flocked' = p
    /\ Goto(p, "check")
    /\ UNCHANGED <<hasFlock, lockdir, partial, failed, venv, overlapped, disturbed, starts,
                   setupKills>>

\* flock -w 300 gives up, and the script goes on with the directory.
FlockTimeout(p) ==
    /\ hooks[p].step = "flock" /\ flocked # NoOwner
    /\ Goto(p, "mkdir")
    /\ disturbed' = TRUE
    /\ UNCHANGED <<hasFlock, flocked, lockdir, partial, failed, venv, overlapped, starts,
                   setupKills>>

MakeDir(p) ==
    /\ hooks[p].step = "mkdir"
    /\ \/ /\ ~lockdir.held
          /\ lockdir' = [NoDir EXCEPT !.held = TRUE]
          /\ Goto(p, "pid")
       \/ /\ lockdir.held
          /\ Goto(p, "owner")
          /\ UNCHANGED lockdir
    /\ UNCHANGED <<hasFlock, flocked, partial, failed, venv, overlapped, disturbed, starts,
                   setupKills>>

\* The directory is there: read its pid, whose it is by now.
ReadOwner(p) ==
    /\ hooks[p].step = "owner"
    /\ hooks' = [hooks EXCEPT ![p].step = "age", ![p].owner = lockdir.pid,
                              ![p].same = lockdir.held]
    /\ UNCHANGED <<hasFlock, flocked, lockdir, partial, failed, venv, overlapped, disturbed,
                   starts, setupKills>>

\* Then its time.  No file counts as now; on an empty one the arithmetic fails, which
\* ends the script where it stands.
ReadStarted(p) ==
    /\ hooks[p].step = "age"
    /\ hooks' = [hooks EXCEPT ![p].step = IF lockdir.started = "empty" THEN "exit" ELSE "judge",
                              ![p].aged = (lockdir.started = "old")]
    /\ UNCHANGED <<hasFlock, flocked, lockdir, partial, failed, venv, overlapped, disturbed,
                   starts, setupKills>>

\* Judge what was read: clear the lock, or wait.
Judge(p) ==
    /\ hooks[p].step = "judge"
    /\ \/ /\ OwnerGone(hooks[p].owner)
          /\ hooks' = [hooks EXCEPT ![p].step = "reap", ![p].aged = FALSE]
       \/ /\ ~OwnerGone(hooks[p].owner) /\ hooks[p].aged
          /\ Goto(p, "reap")
       \/ /\ ~OwnerGone(hooks[p].owner) /\ ~hooks[p].aged
          /\ hooks' = [hooks EXCEPT ![p].step = "wait", ![p].owner = NoOwner,
                                    ![p].same = FALSE]
    /\ UNCHANGED <<hasFlock, flocked, lockdir, partial, failed, venv, overlapped, disturbed,
                   starts, setupKills>>

\* rm -rf, of whatever directory is there by now.
Reap(p) ==
    /\ hooks[p].step = "reap"
    /\ lockdir' = NoDir
    /\ hooks' = [q \in Sessions |->
                    IF q = p THEN [hooks[q] EXCEPT !.step = "mkdir", !.owner = NoOwner,
                                                   !.aged = FALSE, !.same = FALSE]
                    ELSE [hooks[q] EXCEPT !.same = FALSE]]
    /\ disturbed' = (disturbed \/ (lockdir.held /\ Misjudged(p)))
    /\ UNCHANGED <<hasFlock, flocked, partial, failed, venv, overlapped, starts, setupKills>>

\* As if the time waited were not counted.
PatientWait(p) ==
    /\ hooks[p].step = "wait"
    /\ Goto(p, IF IsReady THEN "exit" ELSE "mkdir")
    /\ UNCHANGED <<hasFlock, flocked, lockdir, partial, failed, venv, overlapped, disturbed,
                   starts, setupKills>>

\* One turn of the waiting loop; past the limit the hook reports a failure.
Wait(p) ==
    /\ hooks[p].step = "wait"
    /\ \/ IsReady /\ Goto(p, "exit") /\ UNCHANGED failed
       \/ /\ ~IsReady /\ hooks[p].waits < MaxWaits
          /\ hooks' = [hooks EXCEPT ![p].step = "mkdir", ![p].waits = @ + 1]
          /\ UNCHANGED failed
       \/ /\ ~IsReady /\ hooks[p].waits = MaxWaits
          /\ failed' = TRUE
          /\ Goto(p, "exit")
    /\ UNCHANGED <<hasFlock, flocked, lockdir, partial, venv, overlapped, disturbed, starts,
                   setupKills>>

\* printf > pid: the shell creates the file, in whatever directory is there.
CreatePid(p) ==
    /\ hooks[p].step = "pid"
    /\ lockdir' = IF lockdir.held THEN [lockdir EXCEPT !.pid = Unwritten] ELSE lockdir
    /\ hooks' = [hooks EXCEPT ![p].step = "pidtext", ![p].same = lockdir.held]
    /\ UNCHANGED <<hasFlock, flocked, partial, failed, venv, overlapped, disturbed, starts,
                   setupKills>>

\* Then the text goes to the file that was created, which may be removed by now.
WritePid(p) ==
    /\ hooks[p].step = "pidtext"
    /\ lockdir' = IF hooks[p].same THEN [lockdir EXCEPT !.pid = p] ELSE lockdir
    /\ Goto(p, "started")
    /\ UNCHANGED <<hasFlock, flocked, partial, failed, venv, overlapped, disturbed, starts,
                   setupKills>>

CreateStarted(p) ==
    /\ hooks[p].step = "started"
    /\ lockdir' = IF lockdir.held THEN [lockdir EXCEPT !.started = "empty"] ELSE lockdir
    /\ hooks' = [hooks EXCEPT ![p].step = "startedtext", ![p].same = lockdir.held]
    /\ UNCHANGED <<hasFlock, flocked, partial, failed, venv, overlapped, disturbed, starts,
                   setupKills>>

\* The time, then the EXIT trap.
WriteStarted(p) ==
    /\ hooks[p].step = "startedtext"
    /\ lockdir' = IF hooks[p].same THEN [lockdir EXCEPT !.started = "fresh"] ELSE lockdir
    /\ hooks' = [hooks EXCEPT ![p].step = "check", ![p].trap = TRUE, ![p].same = FALSE]
    /\ UNCHANGED <<hasFlock, flocked, partial, failed, venv, overlapped, disturbed, starts,
                   setupKills>>

\* The winner may have finished meanwhile.
CheckReady(p) ==
    /\ hooks[p].step = "check"
    /\ LET next == IF IsReady THEN "exit" ELSE "touch" IN
       /\ Goto(p, next)
       /\ overlapped' = (overlapped \/ TwoBuilders(p, next))
    /\ UNCHANGED <<hasFlock, flocked, lockdir, partial, failed, venv, disturbed, starts,
                   setupKills>>

\* As if .partial were not written.
BoldTouchPartial(p) ==
    /\ hooks[p].step = "touch"
    /\ Goto(p, "unfail")
    /\ UNCHANGED <<hasFlock, flocked, lockdir, partial, failed, venv, overlapped, disturbed,
                   starts, setupKills>>

TouchPartial(p) ==
    /\ hooks[p].step = "touch"
    /\ partial' = TRUE
    /\ Goto(p, "unfail")
    /\ UNCHANGED <<hasFlock, flocked, lockdir, failed, venv, overlapped, disturbed, starts,
                   setupKills>>

RemoveFailed(p) ==
    /\ hooks[p].step = "unfail"
    /\ failed' = FALSE
    /\ Goto(p, "venv")
    /\ UNCHANGED <<hasFlock, flocked, lockdir, partial, venv, overlapped, disturbed, starts,
                   setupKills>>

MakeVenv(p) ==
    /\ hooks[p].step = "venv"
    /\ venv' = IF venv = "none" THEN "env" ELSE venv
    /\ Goto(p, "install")
    /\ UNCHANGED <<hasFlock, flocked, lockdir, partial, failed, overlapped, disturbed, starts,
                   setupKills>>

\* pip install: the program may be there long before its parts are.
BeginInstall(p) ==
    /\ hooks[p].step = "install"
    /\ venv' = "installing"
    /\ Goto(p, "installing")
    /\ UNCHANGED <<hasFlock, flocked, lockdir, partial, failed, overlapped, disturbed, starts,
                   setupKills>>

EndInstall(p) ==
    /\ hooks[p].step = "installing"
    /\ venv' = "full"
    /\ Goto(p, "finish")
    /\ UNCHANGED <<hasFlock, flocked, lockdir, partial, failed, overlapped, disturbed, starts,
                   setupKills>>

\* No python, no network, a wrong checksum, a failing pip: .partial stays.
FailBuild(p) ==
    /\ hooks[p].step \in {"venv", "install", "installing"}
    /\ failed' = TRUE
    /\ Goto(p, "exit")
    /\ UNCHANGED <<hasFlock, flocked, lockdir, partial, venv, overlapped, disturbed, starts,
                   setupKills>>

RemovePartial(p) ==
    /\ hooks[p].step = "finish"
    /\ partial' = FALSE
    /\ Goto(p, "exit")
    /\ UNCHANGED <<hasFlock, flocked, lockdir, failed, venv, overlapped, disturbed, starts,
                   setupKills>>

\* The process of session p is no more: its flock is released, and its pid names
\* nobody.
EndProcess(p, removed) ==
    /\ flocked' = IF flocked = p THEN NoOwner ELSE flocked
    /\ lockdir' = IF removed THEN NoDir
                  ELSE IF lockdir.pid = p THEN [lockdir EXCEPT !.pid = Exited] ELSE lockdir
    /\ hooks' = [q \in Sessions |->
                    IF q = p THEN NoHook
                    ELSE [hooks[q] EXCEPT !.owner = IF @ = p THEN Exited ELSE @,
                                          !.same = @ /\ ~removed]]

\* The shell ends: the trap removes the directory, whoever owns it.
ExitHook(p) ==
    /\ hooks[p].step = "exit"
    /\ EndProcess(p, hooks[p].trap)
    /\ UNCHANGED <<hasFlock, partial, failed, venv, overlapped, disturbed, starts, setupKills>>

KillSession(p) ==
    /\ hooks[p].step # "idle"
    /\ setupKills < SetupKills /\ setupKills' = setupKills + 1
    /\ EndProcess(p, FALSE)
    /\ UNCHANGED <<hasFlock, partial, failed, venv, overlapped, disturbed, starts>>

\* The lock passes LOCK_MAX_AGE while its holder is slow, or asleep.
LockGrowsOld ==
    /\ lockdir.started = "fresh"
    /\ lockdir' = [lockdir EXCEPT !.started = "old"]
    /\ UNCHANGED <<hasFlock, flocked, partial, failed, venv, hooks, overlapped, disturbed,
                   starts, setupKills>>

\* The user follows the advice that the hook printed.
ClearFailure ==
    /\ failed /\ failed' = FALSE
    /\ UNCHANGED <<hasFlock, flocked, lockdir, partial, venv, hooks, overlapped, disturbed,
                   starts, setupKills>>

-----------------------------------------------------------------------------

SetupInit ==
    /\ hasFlock \in BOOLEAN
    /\ flocked = NoOwner /\ lockdir = NoDir
    /\ partial = FALSE /\ failed = FALSE
    /\ venv = "none"
    /\ hooks = [p \in Sessions |-> NoHook]
    /\ overlapped = FALSE /\ disturbed = FALSE
    /\ starts = 0 /\ setupKills = 0

HookStep(p) ==
    \/ TakeFlock(p) \/ FlockTimeout(p) \/ MakeDir(p)
    \/ ReadOwner(p) \/ ReadStarted(p) \/ Judge(p) \/ Reap(p) \/ Wait(p)
    \/ CreatePid(p) \/ WritePid(p) \/ CreateStarted(p) \/ WriteStarted(p) \/ CheckReady(p)
    \/ TouchPartial(p) \/ RemoveFailed(p) \/ MakeVenv(p) \/ BeginInstall(p) \/ EndInstall(p)
    \/ FailBuild(p) \/ RemovePartial(p) \/ ExitHook(p)

SetupNext ==
    \/ \E p \in Sessions : StartSession(p) \/ HookStep(p) \/ KillSession(p)
    \/ LockGrowsOld \/ ClearFailure

\* The operating system keeps running a hook that has begun.
SetupFairness == \A p \in Sessions : WF_setupVars(HookStep(p))

SetupSpec == SetupInit /\ [][SetupNext]_setupVars /\ SetupFairness

-----------------------------------------------------------------------------

HookSteps == {"idle", "flock", "mkdir", "owner", "age", "judge", "reap", "wait", "pid", "pidtext",
              "started", "startedtext", "check", "exit"} \union BuildSteps

PidFiles == Sessions \union {NoOwner, Unwritten, Exited}

SetupTypeOK ==
    /\ hasFlock \in BOOLEAN /\ flocked \in Sessions \union {NoOwner}
    /\ lockdir \in [held: BOOLEAN, pid: PidFiles, started: {"none", "empty", "fresh", "old"}]
    /\ partial \in BOOLEAN /\ failed \in BOOLEAN
    /\ venv \in {"none", "env", "installing", "full"}
    /\ hooks \in [Sessions -> [step: HookSteps, waits: 0..MaxWaits, trap: BOOLEAN,
                               owner: PidFiles, aged: BOOLEAN, same: BOOLEAN]]
    /\ overlapped \in BOOLEAN /\ disturbed \in BOOLEAN
    /\ starts \in 0..MaxStarts /\ setupKills \in 0..SetupKills

\* Two sessions never build at once, wherever any of them were killed, unless flock
\* timed out or a directory was removed that was misjudged: one whose pid file was
\* still empty, one made after the owner was read, or one that was only old.  A
\* directory without a pid is not taken for an abandoned one, and clearing the lock
\* of a dead session lets one other in (bootstrap:83-108).
OneBuilder == overlapped => disturbed

\* An environment that passes for ready is a complete one, wherever its builders
\* were killed, unless two of them overlapped (bootstrap:66-68, 116-117, 154-155).
ReadyMeansBuilt == IsReady /\ ~overlapped => venv = "full"

\* A hook never hangs its session: it ends, with a report if it could not set up,
\* whatever became of the lock's holders (bootstrap:83-109).
HookReturns == \A p \in Sessions : (hooks[p].step # "idle") ~> (hooks[p].step = "idle")
=============================================================================

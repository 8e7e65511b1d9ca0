--------------------------- MODULE PluginSetupProofs ---------------------------
(***************************************************************************)
(* Theorems about PluginSetup, for every set of sessions and any number of *)
(* starts and kills: what passes for ready is complete, and sessions build *)
(* one at a time, unless flock timed out or a directory was removed that   *)
(* was misjudged.  The last are about the other shell hook, ReindexHook.   *)
(***************************************************************************)
EXTENDS PluginSetup, ReindexHook, TLAPS

Builds(p) == hooks[p].step \in BuildSteps

\* The steps of a build after .partial is written.
AfterPartial == BuildSteps \ {"touch"}

HookType == [step: HookSteps, waits: 0..MaxWaits, trap: BOOLEAN, owner: PidFiles,
             aged: BOOLEAN, same: BOOLEAN]

HooksType == hooks \in [Sessions -> HookType]

DirType == [held: BOOLEAN, pid: PidFiles, started: {"none", "empty", "fresh", "old"}]

\* The steps that leave everything alone but what a build makes.
Building(p) ==
    \/ TouchPartial(p) \/ RemoveFailed(p) \/ MakeVenv(p) \/ BeginInstall(p) \/ EndInstall(p)
    \/ FailBuild(p) \/ RemovePartial(p)

\* The hook of a session that moves to a step, and the others.
LEMMA GotoHooks ==
    ASSUME HooksType, NEW p \in Sessions, NEW step, Goto(p, step)
    PROVE  /\ hooks'[p] = [hooks[p] EXCEPT !.step = step]
           /\ hooks'[p].step = step /\ hooks'[p].trap = hooks[p].trap
           /\ \A q \in Sessions \ {p} : hooks'[q] = hooks[q]
BY DEF Goto, HooksType, HookType

\* The type invariant, in the parts that the proofs use.
LEMMA TypedParts ==
    ASSUME SetupTypeOK
    PROVE  HooksType /\ lockdir \in DirType
BY Zenon DEF SetupTypeOK, HooksType, HookType, DirType

\* A session that moves to a step that there is leaves the hooks well formed.
LEMMA GotoType ==
    ASSUME HooksType, NEW p \in Sessions, NEW step \in HookSteps, Goto(p, step)
    PROVE  HooksType'
BY DEF Goto, HooksType, HookType

\* A step of a build goes on to another or to the end of the hook.
LEMMA BuildingGoes ==
    ASSUME NEW p \in Sessions, Building(p)
    PROVE  /\ hooks[p].step \in BuildSteps
           /\ \E step \in BuildSteps \union {"exit"} : Goto(p, step)
           /\ UNCHANGED <<hasFlock, flocked, lockdir, overlapped, disturbed, starts, setupKills>>
BY DEF Building, TouchPartial, RemoveFailed, MakeVenv, BeginInstall, EndInstall, FailBuild,
       RemovePartial, BuildSteps

\* The hooks after a process has ended: its own is gone, the others know its pid for
\* that of a process that ended.
LEMMA EndHooks ==
    ASSUME HooksType, NEW p \in Sessions, NEW removed \in BOOLEAN, EndProcess(p, removed)
    PROVE  /\ hooks'[p] = NoHook
           /\ \A q \in Sessions \ {p} :
                /\ hooks'[q].step = hooks[q].step /\ hooks'[q].trap = hooks[q].trap
                /\ hooks'[q].aged = hooks[q].aged
                /\ hooks'[q].owner = IF hooks[q].owner = p THEN Exited ELSE hooks[q].owner
                /\ hooks'[q].same = (hooks[q].same /\ ~removed)
           /\ HooksType'
<1>1. NoHook \in HookType
  BY SetupAssumption DEF NoHook, HookType, HookSteps, PidFiles
<1> QED BY <1>1 DEF EndProcess, HooksType, HookType, PidFiles

\* The hooks after a directory was removed: nobody looks at it any more.
LEMMA ReapHooks ==
    ASSUME HooksType, NEW p \in Sessions, Reap(p)
    PROVE  /\ hooks'[p].step = "mkdir" /\ hooks'[p].trap = hooks[p].trap
           /\ \A q \in Sessions \ {p} :
                /\ hooks'[q].step = hooks[q].step /\ hooks'[q].trap = hooks[q].trap
                /\ hooks'[q].aged = hooks[q].aged /\ hooks'[q].owner = hooks[q].owner
           /\ \A q \in Sessions : hooks'[q].same = FALSE
           /\ HooksType'
<1>1. "mkdir" \in HookSteps /\ NoOwner \in PidFiles
  BY DEF HookSteps, PidFiles
<1> QED BY <1>1 DEF Reap, HooksType, HookType

-----------------------------------------------------------------------------
(* Types *)

\* The hooks stay well formed, and no session waits for longer than LOCK_MAX_AGE.
LEMMA HooksTypeStep ==
    ASSUME HooksType, lockdir \in DirType, [SetupNext]_setupVars
    PROVE  HooksType'
<1>0. /\ {"idle", "flock", "mkdir", "owner", "age", "judge", "reap", "wait", "pid", "pidtext",
          "started", "startedtext", "check", "exit", "touch"} \subseteq HookSteps
      /\ BuildSteps \subseteq HookSteps
  BY DEF HookSteps, BuildSteps
<1>1. ASSUME NEW p \in Sessions, StartSession(p) PROVE HooksType'
  <2>1. NoHook \in HookType
    BY <1>0, SetupAssumption DEF NoHook, HookType, PidFiles
  <2> QED BY <1>0, <1>1, <2>1 DEF StartSession, HooksType, HookType
<1>2. ASSUME NEW p \in Sessions,
             TakeFlock(p) \/ FlockTimeout(p) \/ MakeDir(p) \/ WritePid(p) \/ CheckReady(p)
      PROVE  HooksType'
  BY <1>0, <1>2, GotoType DEF TakeFlock, FlockTimeout, MakeDir, WritePid, CheckReady
<1>3. ASSUME NEW p \in Sessions, ReadOwner(p) \/ ReadStarted(p) PROVE HooksType'
  BY <1>0, <1>3 DEF ReadOwner, ReadStarted, HooksType, HookType, DirType
<1>4. ASSUME NEW p \in Sessions, Judge(p) PROVE HooksType'
  <2>1. CASE Goto(p, "reap")
    BY <1>0, <2>1, GotoType
  <2>2. CASE \/ hooks' = [hooks EXCEPT ![p].step = "reap", ![p].aged = FALSE]
             \/ hooks' = [hooks EXCEPT ![p].step = "wait", ![p].owner = NoOwner,
                                       ![p].same = FALSE]
    BY <1>0, <2>2 DEF HooksType, HookType, PidFiles
  <2> QED BY <1>4, <2>1, <2>2 DEF Judge
<1>5. ASSUME NEW p \in Sessions, Reap(p) PROVE HooksType'
  BY <1>5, ReapHooks
<1>6. ASSUME NEW p \in Sessions, Wait(p) PROVE HooksType'
  <2>1. CASE /\ hooks[p].waits < MaxWaits
             /\ hooks' = [hooks EXCEPT ![p].step = "mkdir", ![p].waits = @ + 1]
    <3>1. hooks[p].waits \in 0..MaxWaits
      BY DEF HooksType, HookType
    <3>2. hooks[p].waits + 1 \in 0..MaxWaits
      BY <2>1, <3>1, SetupAssumption
    <3> QED BY <1>0, <2>1, <3>2 DEF HooksType, HookType
  <2> QED BY <1>0, <1>6, <2>1, GotoType DEF Wait
<1>7. ASSUME NEW p \in Sessions, CreatePid(p) \/ CreateStarted(p) PROVE HooksType'
  BY <1>0, <1>7 DEF CreatePid, CreateStarted, HooksType, HookType, DirType
<1>8. ASSUME NEW p \in Sessions, WriteStarted(p) PROVE HooksType'
  BY <1>0, <1>8 DEF WriteStarted, HooksType, HookType
<1>9. ASSUME NEW p \in Sessions, Building(p) PROVE HooksType'
  BY <1>0, <1>9, BuildingGoes, GotoType
<1>10. ASSUME NEW p \in Sessions, ExitHook(p) \/ KillSession(p) PROVE HooksType'
  BY <1>10, EndHooks DEF ExitHook, KillSession, HooksType, HookType
<1>11. CASE LockGrowsOld \/ ClearFailure \/ UNCHANGED setupVars
  BY <1>11 DEF LockGrowsOld, ClearFailure, setupVars, HooksType
<1> QED BY <1>1, <1>2, <1>3, <1>4, <1>5, <1>6, <1>7, <1>8, <1>9, <1>10, <1>11
        DEF SetupNext, HookStep, Building

\* A step keeps the locks well formed.
LEMMA StepLocks ==
    ASSUME SetupTypeOK, SetupNext
    PROVE  /\ hasFlock' = hasFlock /\ flocked' \in Sessions \union {NoOwner}
           /\ lockdir' \in DirType
<1>1. flocked \in Sessions \union {NoOwner} /\ lockdir \in DirType
  BY DEF SetupTypeOK, DirType
<1>2. NoDir \in DirType
  BY DEF NoDir, DirType, PidFiles
<1>3. CASE LockGrowsOld \/ ClearFailure
  BY <1>1, <1>3 DEF LockGrowsOld, ClearFailure, DirType
<1>4. ASSUME NEW p \in Sessions, MakeDir(p) \/ Reap(p) \/ CreatePid(p) \/ WritePid(p)
                                 \/ CreateStarted(p) \/ WriteStarted(p) \/ TakeFlock(p)
      PROVE  /\ hasFlock' = hasFlock /\ flocked' \in Sessions \union {NoOwner}
             /\ lockdir' \in DirType
  BY <1>1, <1>2, <1>4
     DEF MakeDir, Reap, CreatePid, WritePid, CreateStarted, WriteStarted, TakeFlock, DirType,
         PidFiles
<1>5. ASSUME NEW p \in Sessions, ExitHook(p) \/ KillSession(p)
      PROVE  /\ hasFlock' = hasFlock /\ flocked' \in Sessions \union {NoOwner}
             /\ lockdir' \in DirType
  <2>1. PICK removed : EndProcess(p, removed)
    BY <1>5 DEF ExitHook, KillSession
  <2>2. [lockdir EXCEPT !.pid = Exited] \in DirType
    BY <1>1 DEF DirType, PidFiles
  <2>3. lockdir' \in {NoDir, lockdir, [lockdir EXCEPT !.pid = Exited]}
    BY <2>1, Zenon DEF EndProcess
  <2> QED BY <1>1, <1>2, <1>5, <2>1, <2>2, <2>3 DEF ExitHook, KillSession, EndProcess
<1>6. ASSUME NEW p \in Sessions,
             \/ StartSession(p) \/ FlockTimeout(p) \/ ReadOwner(p) \/ ReadStarted(p) \/ Judge(p)
             \/ Wait(p) \/ CheckReady(p) \/ Building(p)
      PROVE  UNCHANGED <<hasFlock, flocked, lockdir>>
  BY <1>6, BuildingGoes
     DEF StartSession, FlockTimeout, ReadOwner, ReadStarted, Judge, Wait, CheckReady
<1> QED BY <1>1, <1>3, <1>4, <1>5, <1>6 DEF SetupNext, HookStep, Building

\* A step keeps the markers, the environment and the counters well formed.
LEMMA StepMarkers ==
    ASSUME SetupTypeOK, SetupNext
    PROVE  /\ partial' \in BOOLEAN /\ failed' \in BOOLEAN
           /\ venv' \in {"none", "env", "installing", "full"}
           /\ overlapped' \in BOOLEAN /\ disturbed' \in BOOLEAN
           /\ starts' \in 0..MaxStarts /\ setupKills' \in 0..SetupKills
<1>1. /\ partial \in BOOLEAN /\ failed \in BOOLEAN
      /\ venv \in {"none", "env", "installing", "full"}
      /\ overlapped \in BOOLEAN /\ disturbed \in BOOLEAN
      /\ starts \in 0..MaxStarts /\ setupKills \in 0..SetupKills
  BY DEF SetupTypeOK
<1>2. CASE LockGrowsOld \/ ClearFailure
  BY <1>1, <1>2 DEF LockGrowsOld, ClearFailure
<1>3. ASSUME NEW p \in Sessions, StartSession(p)
      PROVE  /\ starts' \in 0..MaxStarts
             /\ UNCHANGED <<partial, failed, venv, overlapped, disturbed, setupKills>>
  <2>1. starts < MaxStarts /\ starts' = starts + 1
    BY <1>3 DEF StartSession
  <2>2. starts' \in 0..MaxStarts
    BY <1>1, <2>1, SetupAssumption
  <2> QED BY <1>3, <2>2 DEF StartSession
<1>4. ASSUME NEW p \in Sessions, KillSession(p)
      PROVE  /\ setupKills' \in 0..SetupKills
             /\ UNCHANGED <<partial, failed, venv, overlapped, disturbed, starts>>
  <2>1. setupKills < SetupKills /\ setupKills' = setupKills + 1
    BY <1>4 DEF KillSession
  <2>2. setupKills' \in 0..SetupKills
    BY <1>1, <2>1, SetupAssumption
  <2> QED BY <1>4, <2>2 DEF KillSession
<1>5. ASSUME NEW p \in Sessions, CheckReady(p)
      PROVE  /\ overlapped' \in BOOLEAN
             /\ UNCHANGED <<partial, failed, venv, disturbed, starts, setupKills>>
  BY <1>1, <1>5 DEF CheckReady, TwoBuilders
<1>6. ASSUME NEW p \in Sessions,
             \/ TakeFlock(p) \/ FlockTimeout(p) \/ MakeDir(p) \/ ReadOwner(p) \/ ReadStarted(p)
             \/ Judge(p) \/ Wait(p) \/ CreatePid(p) \/ WritePid(p) \/ CreateStarted(p)
             \/ WriteStarted(p) \/ ExitHook(p)
      PROVE  /\ failed' \in {failed, TRUE} /\ disturbed' \in {disturbed, TRUE}
             /\ UNCHANGED <<partial, venv, overlapped, starts, setupKills>>
  BY <1>6 DEF TakeFlock, FlockTimeout, MakeDir, ReadOwner, ReadStarted, Judge, Wait, CreatePid,
              WritePid, CreateStarted, WriteStarted, ExitHook
<1>7. ASSUME NEW p \in Sessions, Reap(p)
      PROVE  /\ disturbed' \in BOOLEAN
             /\ UNCHANGED <<partial, failed, venv, overlapped, starts, setupKills>>
  BY <1>1, <1>7 DEF Reap
<1>8. ASSUME NEW p \in Sessions, Building(p)
      PROVE  /\ partial' \in {partial, TRUE, FALSE} /\ failed' \in {failed, TRUE, FALSE}
             /\ venv' \in {venv, "env", "installing", "full"}
             /\ UNCHANGED <<overlapped, disturbed, starts, setupKills>>
  BY <1>8 DEF Building, TouchPartial, RemoveFailed, MakeVenv, BeginInstall, EndInstall, FailBuild,
              RemovePartial
<1> QED BY <1>1, <1>2, <1>3, <1>4, <1>5, <1>6, <1>7, <1>8 DEF SetupNext, HookStep, Building

\* The locks, the markers and every session's hook are well formed, and no hook waits
\* for longer than LOCK_MAX_AGE (plugin/hooks/bootstrap:83-110).
THEOREM SetupIsTyped == SetupSpec => []SetupTypeOK
<1>1. SetupInit => SetupTypeOK
  <2> SUFFICES ASSUME SetupInit PROVE SetupTypeOK
    OBVIOUS
  <2>1. 0 \in 0..MaxWaits /\ 0 \in 0..MaxStarts /\ 0 \in 0..SetupKills
    BY SetupAssumption
  <2>2. NoHook \in HookType
    BY <2>1 DEF NoHook, HookType, HookSteps, PidFiles
  <2>3. hooks \in [Sessions -> HookType]
    BY <2>2 DEF SetupInit
  <2>4. lockdir \in DirType
    BY DEF SetupInit, NoDir, DirType, PidFiles
  <2> QED BY <2>1, <2>3, <2>4 DEF SetupInit, SetupTypeOK, HookType, DirType
<1>2. SetupTypeOK /\ [SetupNext]_setupVars => SetupTypeOK'
  <2> SUFFICES ASSUME SetupTypeOK, [SetupNext]_setupVars PROVE SetupTypeOK'
    OBVIOUS
  <2>1. CASE UNCHANGED setupVars
    BY <2>1 DEF setupVars, SetupTypeOK, HookSteps, PidFiles
  <2>2. CASE SetupNext
    <3>1. HooksType /\ lockdir \in DirType
      BY TypedParts
    <3>2. hooks' \in [Sessions -> HookType]
      BY <3>1, HooksTypeStep DEF HooksType, HookType, HookSteps, PidFiles
    <3>3. hasFlock \in BOOLEAN
      BY DEF SetupTypeOK
    <3> QED BY <2>2, <3>2, <3>3, StepLocks, StepMarkers
            DEF SetupTypeOK, HookType, DirType, HookSteps, PidFiles
  <2> QED BY <2>1, <2>2
<1> QED BY <1>1, <1>2, PTL DEF SetupSpec

-----------------------------------------------------------------------------
(* What passes for ready is complete *)

\* Until two sessions build at once, .partial covers a build from its first change
\* of the environment to its end.
PartialInv ==
    ~overlapped =>
        /\ \A p, q \in Sessions : Builds(p) /\ Builds(q) => p = q
        /\ \A p \in Sessions : hooks[p].step \in AfterPartial => partial = TRUE
        /\ \A p \in Sessions : hooks[p].step = "finish" => venv = "full"
        /\ venv = "installing" => partial = TRUE

\* A step that takes no session into a build, and leaves what is built alone.
LEMMA NoBuildStep ==
    ASSUME PartialInv, UNCHANGED <<partial, venv, overlapped>>,
           \A p \in Sessions : hooks'[p].step = hooks[p].step \/ hooks'[p].step \notin BuildSteps
    PROVE  PartialInv'
BY DEF PartialInv, Builds, AfterPartial, BuildSteps

\* A step of session p to another step of its build, or out of it, when no other
\* session builds.
LEMMA BuildStep ==
    ASSUME HooksType, PartialInv, NEW p \in Sessions, NEW step, Builds(p), Goto(p, step),
           overlapped' = overlapped,
           step \in AfterPartial => partial' = TRUE,
           step = "finish" => venv' = "full",
           ~overlapped => (venv' = "installing" => partial' = TRUE)
    PROVE  PartialInv'
<1> SUFFICES ASSUME ~overlapped PROVE PartialInv'
  BY DEF PartialInv
<1>1. /\ hooks'[p].step = step
      /\ \A q \in Sessions \ {p} : hooks'[q] = hooks[q] /\ ~Builds(q)
  BY GotoHooks DEF PartialInv
<1> QED BY <1>1 DEF PartialInv, Builds, AfterPartial, BuildSteps

\* A step keeps the invariant on a venv half made.
LEMMA PartialStep ==
    ASSUME SetupTypeOK, PartialInv, [SetupNext]_setupVars
    PROVE  PartialInv'
<1>0. HooksType
  BY TypedParts
<1>1. ASSUME NEW p \in Sessions, NEW step \in HookSteps \ BuildSteps,
             UNCHANGED <<partial, venv, overlapped>>, Goto(p, step)
      PROVE  PartialInv'
  <2>1. \A q \in Sessions : hooks'[q].step = hooks[q].step \/ hooks'[q].step \notin BuildSteps
    <3>1. hooks'[p].step = step /\ \A q \in Sessions \ {p} : hooks'[q] = hooks[q]
      BY <1>0, <1>1, GotoHooks, Zenon
    <3> QED BY <3>1
  <2> QED BY <1>1, <2>1, NoBuildStep
<1>2. ASSUME NEW p \in Sessions,
             TakeFlock(p) \/ FlockTimeout(p) \/ MakeDir(p) \/ WritePid(p)
      PROVE  PartialInv'
  BY <1>1, <1>2 DEF TakeFlock, FlockTimeout, MakeDir, WritePid, HookSteps, BuildSteps
<1>3. ASSUME NEW p \in Sessions,
             \/ StartSession(p) \/ ReadOwner(p) \/ ReadStarted(p) \/ Judge(p) \/ Wait(p)
             \/ CreatePid(p) \/ CreateStarted(p) \/ WriteStarted(p)
      PROVE  PartialInv'
  <2>1. UNCHANGED <<partial, venv, overlapped>>
    BY <1>3 DEF StartSession, ReadOwner, ReadStarted, Judge, Wait, CreatePid, CreateStarted,
                WriteStarted
  <2>2. \A q \in Sessions : hooks'[q].step = hooks[q].step \/ hooks'[q].step \notin BuildSteps
    BY <1>0, <1>3
       DEF StartSession, ReadOwner, ReadStarted, Judge, Wait, CreatePid, CreateStarted,
           WriteStarted, Goto, NoHook, HooksType, HookType, BuildSteps
  <2> QED BY <2>1, <2>2, NoBuildStep
<1>4. ASSUME NEW p \in Sessions, Reap(p) PROVE PartialInv'
  <2>1. UNCHANGED <<partial, venv, overlapped>>
    BY <1>4 DEF Reap
  <2>2. \A q \in Sessions : hooks'[q].step = hooks[q].step \/ hooks'[q].step \notin BuildSteps
    BY <1>0, <1>4, ReapHooks DEF BuildSteps
  <2> QED BY <2>1, <2>2, NoBuildStep
<1>5. ASSUME NEW p \in Sessions, CheckReady(p) PROVE PartialInv'
  <2> DEFINE next == IF IsReady THEN "exit" ELSE "touch"
  <2>1. /\ hooks'[p].step = next
        /\ \A q \in Sessions \ {p} : hooks'[q] = hooks[q]
        /\ UNCHANGED <<partial, venv>>
        /\ overlapped' = (overlapped \/ TwoBuilders(p, next))
    BY <1>0, <1>5, GotoHooks DEF CheckReady
  <2>2. CASE overlapped'
    BY <2>2 DEF PartialInv
  <2>3. CASE ~overlapped'
    BY <2>1, <2>3 DEF PartialInv, TwoBuilders, Builds, AfterPartial, BuildSteps
  <2> QED BY <2>2, <2>3
<1>6. ASSUME NEW p \in Sessions, Building(p), overlapped PROVE PartialInv'
  BY <1>6, BuildingGoes DEF PartialInv
<1>7. ASSUME NEW p \in Sessions, ~overlapped, TouchPartial(p) PROVE PartialInv'
  BY <1>0, <1>7, BuildStep DEF TouchPartial, Builds, BuildSteps, AfterPartial
<1>8. ASSUME NEW p \in Sessions, ~overlapped, RemoveFailed(p) \/ MakeVenv(p) \/ BeginInstall(p)
      PROVE  PartialInv'
  <2>1. Builds(p) /\ partial = TRUE
    BY <1>8 DEF RemoveFailed, MakeVenv, BeginInstall, Builds, BuildSteps, AfterPartial, PartialInv
  <2> QED BY <1>0, <1>8, <2>1, BuildStep
          DEF RemoveFailed, MakeVenv, BeginInstall, Builds, BuildSteps, AfterPartial, PartialInv
<1>9. ASSUME NEW p \in Sessions, ~overlapped, EndInstall(p) PROVE PartialInv'
  BY <1>0, <1>9, BuildStep DEF EndInstall, Builds, BuildSteps, AfterPartial, PartialInv
<1>10. ASSUME NEW p \in Sessions, ~overlapped, FailBuild(p) PROVE PartialInv'
  <2>1. Builds(p) /\ "exit" \notin AfterPartial
    BY <1>10 DEF FailBuild, Builds, BuildSteps, AfterPartial
  <2> QED BY <1>0, <1>10, <2>1, BuildStep DEF FailBuild, PartialInv
<1>11. ASSUME NEW p \in Sessions, ~overlapped, RemovePartial(p) PROVE PartialInv'
  <2>1. venv = "full"
    BY <1>11 DEF RemovePartial, PartialInv
  <2>2. Builds(p) /\ Goto(p, "exit") /\ UNCHANGED <<venv, overlapped>>
    BY <1>11 DEF RemovePartial, Builds, BuildSteps
  <2>3. "exit" \notin AfterPartial /\ venv' # "installing"
    BY <2>1, <2>2 DEF AfterPartial, BuildSteps
  <2> QED BY <1>0, <2>2, <2>3, BuildStep
<1>12. ASSUME NEW p \in Sessions, ExitHook(p) \/ KillSession(p) PROVE PartialInv'
  <2>1. UNCHANGED <<partial, venv, overlapped>>
    BY <1>12 DEF ExitHook, KillSession
  <2>2. PICK removed \in BOOLEAN : EndProcess(p, removed)
    BY <1>0, <1>12 DEF ExitHook, KillSession, HooksType, HookType
  <2>3. \A q \in Sessions : hooks'[q].step = hooks[q].step \/ hooks'[q].step \notin BuildSteps
    BY <1>0, <2>2, EndHooks DEF NoHook, BuildSteps
  <2> QED BY <2>1, <2>3, NoBuildStep
<1>13. CASE LockGrowsOld \/ ClearFailure \/ UNCHANGED setupVars
  BY <1>13, NoBuildStep DEF LockGrowsOld, ClearFailure, setupVars
<1> QED BY <1>2, <1>3, <1>4, <1>5, <1>6, <1>7, <1>8, <1>9, <1>10, <1>11, <1>12, <1>13
        DEF SetupNext, HookStep, Building

\* An environment that passes for ready is complete, wherever builders were killed,
\* as long as two of them never overlapped.
THEOREM ReadyIsBuilt == SetupSpec => []ReadyMeansBuilt
<1>1. SetupInit => PartialInv
  BY DEF SetupInit, PartialInv, Builds, AfterPartial, BuildSteps, NoHook
<1>2. SetupTypeOK /\ PartialInv /\ [SetupNext]_setupVars => PartialInv'
  BY PartialStep
<1>3. PartialInv => ReadyMeansBuilt
  BY DEF PartialInv, ReadyMeansBuilt, IsReady
<1> QED BY <1>1, <1>2, <1>3, SetupIsTyped, PTL DEF SetupSpec

-----------------------------------------------------------------------------
(* Sessions build one at a time *)

Inside(p) == hooks[p].step \in {"check"} \union BuildSteps

\* With flock, who is past it holds it.
FlockOrder ==
    \A p \in Sessions :
      /\ hooks[p].step \in {"idle", "flock", "exit"} \/ Inside(p)
      /\ Inside(p) => flocked = p

\* Without, who made the directory owns it up to its trap.
Making(p) == hooks[p].step \in {"pid", "pidtext", "started", "startedtext"}
Owns(p) == Inside(p) \/ Making(p) \/ (hooks[p].step = "exit" /\ hooks[p].trap = TRUE)

\* One session owns the directory, and its pid file says so once it is written; no
\* pid stays there that is not its owner's or that of a process that ended.
OwnerOrder ==
    /\ \A p, q \in Sessions : Owns(p) /\ Owns(q) => p = q
    /\ \A p \in Sessions :
         /\ hooks[p].step # "flock"
         /\ Owns(p) => lockdir.held
         /\ lockdir.pid = p => Owns(p)
         /\ hooks[p].step = "pid" => lockdir.pid = NoOwner
         /\ hooks[p].step = "pidtext" => lockdir.pid = Unwritten
         /\ Owns(p) /\ hooks[p].step \notin {"pid", "pidtext"} => lockdir.pid = p
         /\ Inside(p) => hooks[p].trap = TRUE
         /\ hooks[p].step # "exit" /\ ~Inside(p) => hooks[p].trap = FALSE

Reading(p) == hooks[p].step \in {"age", "judge", "reap"}

\* A pid that was read is there still as long as the directory is, and only what
\* seems abandoned is removed.
ReaderOrder ==
    \A p \in Sessions :
      /\ Reading(p) \/ hooks[p].step \in {"pidtext", "startedtext"}
           => (hooks[p].same => lockdir.held)
      /\ hooks[p].step \in {"pidtext", "startedtext"} => hooks[p].same
      /\ Reading(p) /\ hooks[p].same /\ hooks[p].owner \in Sessions \union {Exited}
           => lockdir.pid = hooks[p].owner
      /\ hooks[p].step = "reap" => OwnerGone(hooks[p].owner) \/ hooks[p].aged

DirOrder == OwnerOrder /\ ReaderOrder

\* As long as nothing disturbs the locks.
LockInv ==
    ~disturbed => /\ ~overlapped
                  /\ hasFlock => FlockOrder
                  /\ ~hasFlock => DirOrder

\* With flock.
LEMMA FlockStep ==
    ASSUME HooksType, FlockOrder, hasFlock, ~disturbed', NEW p \in Sessions,
           StartSession(p) \/ HookStep(p) \/ KillSession(p)
    PROVE  FlockOrder'
<1> USE DEF FlockOrder, Inside, BuildSteps
<1>1. CASE StartSession(p)
  BY <1>1 DEF StartSession, NoHook, HooksType
<1>2. CASE TakeFlock(p)
  <2>1. NoOwner \notin Sessions
    BY SetupAssumption
  <2>2. hooks'[p].step = "check" /\ \A q \in Sessions \ {p} : hooks'[q] = hooks[q]
    BY <1>2, GotoHooks DEF TakeFlock
  <2> QED BY <1>2, <2>1, <2>2 DEF TakeFlock
<1>3. CASE FlockTimeout(p)
  BY <1>3 DEF FlockTimeout
<1>4. CASE MakeDir(p) \/ ReadOwner(p) \/ ReadStarted(p) \/ Judge(p) \/ Reap(p) \/ Wait(p)
           \/ CreatePid(p) \/ WritePid(p) \/ CreateStarted(p) \/ WriteStarted(p)
  BY <1>4 DEF MakeDir, ReadOwner, ReadStarted, Judge, Reap, Wait, CreatePid, WritePid,
              CreateStarted, WriteStarted
<1>5. CASE CheckReady(p)
  BY <1>5, GotoHooks DEF CheckReady
<1>6. CASE Building(p)
  <2>1. PICK step \in BuildSteps \union {"exit"} : Goto(p, step)
    BY <1>6, BuildingGoes
  <2>2. hooks[p].step \in BuildSteps /\ flocked' = flocked
    BY <1>6, BuildingGoes
  <2> QED BY <2>1, <2>2, GotoHooks
<1>7. CASE ExitHook(p) \/ KillSession(p)
  <2>1. PICK removed \in BOOLEAN : EndProcess(p, removed)
    BY <1>7 DEF ExitHook, KillSession, HooksType, HookType
  <2>2. /\ hooks'[p].step = "idle"
        /\ \A q \in Sessions \ {p} : hooks'[q].step = hooks[q].step
    BY <2>1, EndHooks DEF NoHook
  <2>3. flocked' = IF flocked = p THEN NoOwner ELSE flocked
    BY <2>1 DEF EndProcess
  <2> QED BY <2>2, <2>3
<1> QED BY <1>1, <1>2, <1>3, <1>4, <1>5, <1>6, <1>7 DEF HookStep, Building

\* A step of session p that leaves the directory alone, and p its owner or not.
LEMMA OwnerKept ==
    ASSUME OwnerOrder, NEW p \in Sessions, lockdir' = lockdir,
           \A q \in Sessions \ {p} : hooks'[q] = hooks[q],
           ~Making(p), ~Making(p)', Owns(p)' <=> Owns(p), hooks'[p].step # "flock",
           Inside(p)' => hooks'[p].trap = TRUE,
           hooks'[p].step # "exit" /\ ~Inside(p)' => hooks'[p].trap = FALSE
    PROVE  OwnerOrder'
<1>1. \A q \in Sessions \ {p} : /\ hooks'[q] = hooks[q]
                                /\ (Owns(q)' <=> Owns(q)) /\ (Inside(q)' <=> Inside(q))
  BY DEF Owns, Inside, Making
<1>2. hooks'[p].step \notin {"pid", "pidtext"} /\ hooks[p].step \notin {"pid", "pidtext"}
  BY DEF Making
<1> QED BY <1>1, <1>2 DEF OwnerOrder

\* A step of session p that leaves the directory alone and does not read it.
LEMMA ReaderKept ==
    ASSUME ReaderOrder, NEW p \in Sessions, lockdir' = lockdir,
           \A q \in Sessions \ {p} : hooks'[q] = hooks[q],
           ~Reading(p)', hooks'[p].step \notin {"pidtext", "startedtext"}
    PROVE  ReaderOrder'
BY DEF ReaderOrder, Reading

\* Without flock, the steps that leave the directory alone.
LEMMA LookStep ==
    ASSUME HooksType, DirOrder, ~hasFlock, NEW p \in Sessions, lockdir' = lockdir,
           \/ StartSession(p) \/ MakeDir(p) \/ ReadOwner(p) \/ ReadStarted(p) \/ Judge(p)
           \/ Wait(p) \/ CheckReady(p) \/ Building(p)
    PROVE  DirOrder'
<1>1. CASE StartSession(p) \/ Wait(p)
  <2>1. /\ hooks[p].step \in {"idle", "wait"} /\ hooks[p].trap = FALSE
        /\ hooks'[p].step \in {"mkdir", "exit"} /\ hooks'[p].trap = FALSE
        /\ \A q \in Sessions \ {p} : hooks'[q] = hooks[q]
    BY <1>1 DEF StartSession, Wait, Goto, NoHook, HooksType, HookType, DirOrder, OwnerOrder,
                Inside, BuildSteps
  <2> QED BY <2>1, OwnerKept, ReaderKept
          DEF DirOrder, Owns, Inside, Making, Reading, BuildSteps
<1>2. CASE MakeDir(p)
  <2>1. /\ hooks[p].step = "mkdir" /\ hooks[p].trap = FALSE
        /\ hooks'[p].step = "owner" /\ hooks'[p].trap = FALSE
        /\ \A q \in Sessions \ {p} : hooks'[q] = hooks[q]
    BY <1>2, GotoHooks DEF MakeDir, DirOrder, OwnerOrder, Inside, BuildSteps, NoDir
  <2> QED BY <2>1, OwnerKept, ReaderKept
          DEF DirOrder, Owns, Inside, Making, Reading, BuildSteps
<1>3. CASE ReadOwner(p)
  <2>1. /\ hooks[p].step = "owner" /\ hooks[p].trap = FALSE
        /\ hooks'[p].step = "age" /\ hooks'[p].trap = FALSE
        /\ hooks'[p].owner = lockdir.pid /\ hooks'[p].same = lockdir.held
        /\ \A q \in Sessions \ {p} : hooks'[q] = hooks[q]
    BY <1>3 DEF ReadOwner, HooksType, HookType, DirOrder, OwnerOrder, Inside, BuildSteps
  <2>2. OwnerOrder'
    BY <2>1, OwnerKept DEF DirOrder, Owns, Inside, Making, BuildSteps
  <2>3. ReaderOrder'
    BY <2>1 DEF DirOrder, ReaderOrder, Reading
  <2> QED BY <2>2, <2>3 DEF DirOrder
<1>4. CASE ReadStarted(p)
  <2>1. /\ hooks[p].step = "age" /\ hooks[p].trap = FALSE
        /\ hooks'[p].step \in {"judge", "exit"} /\ hooks'[p].trap = FALSE
        /\ hooks'[p].owner = hooks[p].owner /\ hooks'[p].same = hooks[p].same
        /\ \A q \in Sessions \ {p} : hooks'[q] = hooks[q]
    BY <1>4 DEF ReadStarted, HooksType, HookType, DirOrder, OwnerOrder, Inside, BuildSteps
  <2>2. OwnerOrder'
    BY <2>1, OwnerKept DEF DirOrder, Owns, Inside, Making, BuildSteps
  <2>3. ReaderOrder'
    BY <2>1 DEF DirOrder, ReaderOrder, Reading
  <2> QED BY <2>2, <2>3 DEF DirOrder
<1>5. CASE Judge(p)
  <2>1. /\ hooks[p].step = "judge" /\ hooks[p].trap = FALSE /\ hooks'[p].trap = FALSE
        /\ \/ hooks'[p].step = "wait"
           \/ /\ hooks'[p].step = "reap"
              /\ hooks'[p].owner = hooks[p].owner /\ hooks'[p].same = hooks[p].same
              /\ OwnerGone(hooks[p].owner) \/ hooks'[p].aged
        /\ \A q \in Sessions \ {p} : hooks'[q] = hooks[q]
    BY <1>5 DEF Judge, Goto, HooksType, HookType, DirOrder, OwnerOrder, Inside, BuildSteps
  <2>2. OwnerOrder'
    BY <2>1, OwnerKept DEF DirOrder, Owns, Inside, Making, BuildSteps
  <2>3. ReaderOrder'
    BY <2>1 DEF DirOrder, ReaderOrder, Reading, OwnerGone
  <2> QED BY <2>2, <2>3 DEF DirOrder
<1>6. CASE CheckReady(p) \/ Building(p)
  <2>1. /\ hooks[p].step \in {"check"} \union BuildSteps
        /\ \E step \in BuildSteps \union {"exit"} : Goto(p, step)
    BY <1>6, BuildingGoes DEF CheckReady, BuildSteps
  <2>2. /\ hooks'[p].step \in BuildSteps \union {"exit"} /\ hooks'[p].trap = hooks[p].trap
        /\ \A q \in Sessions \ {p} : hooks'[q] = hooks[q]
    BY <2>1, GotoHooks
  <2>3. hooks[p].trap = TRUE
    BY <2>1 DEF DirOrder, OwnerOrder, Inside
  <2> QED BY <2>1, <2>2, <2>3, OwnerKept, ReaderKept
          DEF DirOrder, Owns, Inside, Making, Reading, BuildSteps
<1> QED BY <1>1, <1>2, <1>3, <1>4, <1>5, <1>6

\* Without flock, a directory that is removed undisturbed is nobody's.
LEMMA ReapStep ==
    ASSUME HooksType, lockdir \in DirType, DirOrder, ~disturbed', NEW p \in Sessions, Reap(p)
    PROVE  DirOrder'
<1>1. NoOwner \notin Sessions /\ Unwritten # Exited /\ NoOwner # Exited /\ Exited \notin Sessions
  BY SetupAssumption
<1>2. \A q \in Sessions : ~Owns(q)
  <2>1. CASE lockdir.held
    <3>1. hooks[p].same /\ hooks[p].owner # Unwritten /\ ~hooks[p].aged /\ hooks[p].step = "reap"
      BY <2>1 DEF Reap, Misjudged
    <3>2. lockdir.pid = Exited
      BY <3>1 DEF DirOrder, ReaderOrder, Reading, OwnerGone
    <3>3. \A q \in Sessions : Owns(q) => lockdir.pid \in {NoOwner, Unwritten, q}
      BY DEF DirOrder, OwnerOrder, Owns, Inside, Making
    <3> QED BY <1>1, <3>2, <3>3
  <2>2. CASE ~lockdir.held
    BY <2>2 DEF DirOrder, OwnerOrder
  <2> QED BY <2>1, <2>2
<1>3. /\ hooks'[p].step = "mkdir" /\ hooks'[p].trap = hooks[p].trap
      /\ \A q \in Sessions \ {p} : hooks'[q].step = hooks[q].step /\ hooks'[q].trap = hooks[q].trap
      /\ \A q \in Sessions : hooks'[q].same = FALSE
  BY ReapHooks
<1>4. /\ \A q \in Sessions : ~Owns(q)' /\ ~Inside(q)' /\ ~Making(q)'
      /\ ~Inside(p) /\ hooks[p].step # "exit"
  BY <1>2, <1>3 DEF Owns, Inside, Making, BuildSteps, Reap
<1>5. lockdir'.pid = NoOwner
  BY DEF Reap, NoDir
<1>6. OwnerOrder'
  BY <1>1, <1>3, <1>4, <1>5 DEF DirOrder, OwnerOrder, Owns, Inside, Making
<1>7. ReaderOrder'
  <2>1. /\ \A q \in Sessions : hooks'[q].step \notin {"pidtext", "startedtext"}
        /\ \A q \in Sessions \ {p} : hooks'[q].step = "reap" =>
             OwnerGone(hooks'[q].owner) \/ hooks'[q].aged
    BY <1>3, <1>4, ReapHooks DEF DirOrder, ReaderOrder, Making
  <2> QED BY <1>3, <2>1 DEF ReaderOrder, Reading
<1> QED BY <1>6, <1>7 DEF DirOrder

\* Without flock, a process that ends, its directory with it if it got to its trap.
LEMMA EndStep ==
    ASSUME HooksType, lockdir \in DirType, DirOrder, NEW p \in Sessions,
           ExitHook(p) \/ KillSession(p)
    PROVE  DirOrder'
<1>0. /\ NoOwner \notin Sessions /\ Exited \notin Sessions /\ Unwritten \notin Sessions
      /\ Unwritten # Exited /\ NoOwner # Exited
  BY SetupAssumption
<1>1. \/ EndProcess(p, TRUE) /\ Owns(p)
      \/ EndProcess(p, FALSE)
  <2>1. CASE ExitHook(p) /\ hooks[p].trap = TRUE
    BY <2>1 DEF ExitHook, Owns
  <2>2. CASE ExitHook(p) /\ hooks[p].trap = FALSE
    BY <2>2 DEF ExitHook
  <2>3. CASE KillSession(p)
    BY <2>3 DEF KillSession
  <2>4. hooks[p].trap \in BOOLEAN
    BY DEF HooksType, HookType
  <2> QED BY <2>1, <2>2, <2>3, <2>4
<1>2. /\ hooks'[p] = NoHook
      /\ \A q \in Sessions \ {p} :
           /\ hooks'[q].step = hooks[q].step /\ hooks'[q].trap = hooks[q].trap
           /\ hooks'[q].aged = hooks[q].aged
           /\ hooks'[q].owner = IF hooks[q].owner = p THEN Exited ELSE hooks[q].owner
  BY <1>1, EndHooks
<1>3. /\ ~Owns(p)' /\ ~Inside(p)' /\ ~Making(p)' /\ ~Reading(p)'
      /\ hooks'[p].step = "idle" /\ hooks'[p].trap = FALSE
      /\ \A q \in Sessions \ {p} :
            /\ (Owns(q)' <=> Owns(q)) /\ (Inside(q)' <=> Inside(q))
            /\ (Making(q)' <=> Making(q)) /\ (Reading(q)' <=> Reading(q))
  BY <1>2 DEF Owns, Inside, Making, Reading, NoHook, BuildSteps
<1>4. CASE EndProcess(p, TRUE) /\ Owns(p)
  <2>1. lockdir'.pid = NoOwner
    BY <1>4 DEF EndProcess, NoDir
  <2>2. \A q \in Sessions : ~Owns(q)' /\ ~Inside(q)' /\ ~Making(q)'
    <3>1. \A q \in Sessions \ {p} : ~Owns(q)
      BY <1>4 DEF DirOrder, OwnerOrder
    <3> QED BY <1>2, <1>3, <1>4, <3>1 DEF Owns
  <2>3. OwnerOrder'
    BY <1>0, <1>2, <1>3, <1>4, <2>1, <2>2 DEF DirOrder, OwnerOrder, Making
  <2>4. \A q \in Sessions \ {p} : hooks'[q].same = FALSE
    <3>1. \A q \in Sessions \ {p} : hooks'[q].same = (hooks[q].same /\ ~TRUE)
      BY <1>4, EndHooks
    <3> QED BY <3>1
  <2>5. ReaderOrder'
    BY <1>2, <1>3, <1>4, <2>2, <2>4 DEF DirOrder, ReaderOrder, Making, Reading, OwnerGone
  <2> QED BY <2>3, <2>5 DEF DirOrder
<1>5. CASE EndProcess(p, FALSE)
  <2>1. /\ lockdir'.held = lockdir.held
        /\ lockdir'.pid = IF lockdir.pid = p THEN Exited ELSE lockdir.pid
    BY <1>5 DEF EndProcess, DirType
  <2>2. OwnerOrder'
    BY <1>0, <1>2, <1>3, <1>5, <2>1 DEF DirOrder, OwnerOrder
  <2>3. \A q \in Sessions \ {p} : hooks'[q].same = hooks[q].same
    <3>1. \A q \in Sessions \ {p} : hooks'[q].same = (hooks[q].same /\ ~FALSE)
      BY <1>5, EndHooks
    <3>2. \A q \in Sessions : hooks[q].same \in BOOLEAN
      BY DEF HooksType, HookType
    <3> QED BY <3>1, <3>2
  <2>4. ReaderOrder'
    BY <1>0, <1>2, <1>3, <1>5, <2>1, <2>3 DEF DirOrder, ReaderOrder, Reading, OwnerGone
  <2> QED BY <2>2, <2>4 DEF DirOrder
<1> QED BY <1>1, <1>4, <1>5

\* Without flock, the steps that make the directory and write its files.
LEMMA MakeStep ==
    ASSUME HooksType, lockdir \in DirType, DirOrder, NEW p \in Sessions,
           \/ MakeDir(p) /\ ~lockdir.held
           \/ CreatePid(p) \/ WritePid(p) \/ CreateStarted(p) \/ WriteStarted(p)
    PROVE  DirOrder'
<1>0. /\ NoOwner \notin Sessions /\ Exited \notin Sessions /\ Unwritten \notin Sessions
      /\ Unwritten # Exited /\ NoOwner # Exited
  BY SetupAssumption
<1> USE DEF HooksType, HookType, DirType
<1>1. CASE MakeDir(p) /\ ~lockdir.held
  <2>1. /\ hooks[p].step = "mkdir" /\ hooks'[p].step = "pid" /\ hooks'[p].trap = hooks[p].trap
        /\ lockdir'.held = TRUE /\ lockdir'.pid = NoOwner
        /\ \A q \in Sessions \ {p} : hooks'[q] = hooks[q]
    BY <1>1, GotoHooks DEF MakeDir, NoDir
  <2>2. \A q \in Sessions : ~Owns(q) /\ ~Inside(q)
    BY <1>1 DEF DirOrder, OwnerOrder, Owns
  <2>3. OwnerOrder'
    BY <1>0, <2>1, <2>2 DEF DirOrder, OwnerOrder, Owns, Inside, Making, BuildSteps
  <2>4. \A q \in Sessions : Reading(q) => ~hooks[q].same
    BY <1>1 DEF DirOrder, ReaderOrder
  <2>5. ReaderOrder'
    BY <2>1, <2>2, <2>4 DEF DirOrder, ReaderOrder, Reading, Owns, Making, OwnerGone
  <2> QED BY <2>3, <2>5 DEF DirOrder
<1>2. CASE CreatePid(p)
  <2>1. Owns(p) /\ hooks[p].step = "pid" /\ lockdir.held = TRUE /\ lockdir.pid = NoOwner
    BY <1>2 DEF CreatePid, DirOrder, OwnerOrder, Owns, Making
  <2>2. /\ hooks'[p].step = "pidtext" /\ hooks'[p].trap = hooks[p].trap /\ hooks'[p].same = TRUE
        /\ lockdir'.held = TRUE /\ lockdir'.pid = Unwritten
        /\ \A q \in Sessions \ {p} : hooks'[q] = hooks[q]
    BY <1>2, <2>1 DEF CreatePid
  <2> QED BY <1>0, <2>1, <2>2
          DEF DirOrder, OwnerOrder, ReaderOrder, Owns, Inside, Making, Reading, BuildSteps
<1>3. CASE WritePid(p)
  <2>1. /\ Owns(p) /\ hooks[p].step = "pidtext" /\ lockdir.held = TRUE
        /\ lockdir.pid = Unwritten /\ hooks[p].same = TRUE
    BY <1>3 DEF WritePid, DirOrder, OwnerOrder, ReaderOrder, Owns, Making
  <2>2. /\ hooks'[p].step = "started" /\ hooks'[p].trap = hooks[p].trap
        /\ lockdir'.held = TRUE /\ lockdir'.pid = p
        /\ \A q \in Sessions \ {p} : hooks'[q] = hooks[q]
    BY <1>3, <2>1, GotoHooks DEF WritePid
  <2> QED BY <1>0, <2>1, <2>2
          DEF DirOrder, OwnerOrder, ReaderOrder, Owns, Inside, Making, Reading, BuildSteps
<1>4. CASE CreateStarted(p)
  <2>1. Owns(p) /\ hooks[p].step = "started" /\ lockdir.held = TRUE
    BY <1>4 DEF CreateStarted, DirOrder, OwnerOrder, Owns, Making
  <2>2. /\ hooks'[p].step = "startedtext" /\ hooks'[p].trap = hooks[p].trap
        /\ hooks'[p].same = TRUE /\ lockdir'.held = TRUE /\ lockdir'.pid = lockdir.pid
        /\ \A q \in Sessions \ {p} : hooks'[q] = hooks[q]
    BY <1>4, <2>1 DEF CreateStarted
  <2> QED BY <1>0, <2>1, <2>2
          DEF DirOrder, OwnerOrder, ReaderOrder, Owns, Inside, Making, Reading, BuildSteps
<1>5. CASE WriteStarted(p)
  <2>1. Owns(p) /\ hooks[p].step = "startedtext" /\ lockdir.held = TRUE
    BY <1>5 DEF WriteStarted, DirOrder, OwnerOrder, Owns, Making
  <2>2. /\ hooks'[p].step = "check" /\ hooks'[p].trap = TRUE
        /\ lockdir'.held = TRUE /\ lockdir'.pid = lockdir.pid
        /\ \A q \in Sessions \ {p} : hooks'[q] = hooks[q]
    BY <1>5, <2>1 DEF WriteStarted
  <2> QED BY <1>0, <2>1, <2>2
          DEF DirOrder, OwnerOrder, ReaderOrder, Owns, Inside, Making, Reading, BuildSteps
<1> QED BY <1>1, <1>2, <1>3, <1>4, <1>5

\* Without flock, any step of a session.
LEMMA DirStep ==
    ASSUME SetupTypeOK, DirOrder, ~hasFlock, ~disturbed', NEW p \in Sessions,
           StartSession(p) \/ HookStep(p) \/ KillSession(p)
    PROVE  DirOrder'
<1>0. HooksType /\ lockdir \in DirType
  BY TypedParts
<1>1. CASE TakeFlock(p) \/ FlockTimeout(p)
  BY <1>1 DEF TakeFlock, FlockTimeout, DirOrder, OwnerOrder
<1>2. CASE StartSession(p) \/ ReadOwner(p) \/ ReadStarted(p) \/ Judge(p) \/ Wait(p)
           \/ CheckReady(p) \/ Building(p)
  <2>1. lockdir' = lockdir
    BY <1>2, BuildingGoes DEF StartSession, ReadOwner, ReadStarted, Judge, Wait, CheckReady
  <2> QED BY <1>0, <1>2, <2>1, LookStep
<1>3. CASE MakeDir(p)
  <2>1. CASE lockdir.held
    <3>1. lockdir' = lockdir
      BY <1>3, <2>1 DEF MakeDir
    <3> QED BY <1>0, <1>3, <3>1, LookStep
  <2>2. CASE ~lockdir.held
    BY <1>0, <1>3, <2>2, MakeStep
  <2> QED BY <2>1, <2>2
<1>4. CASE Reap(p)
  BY <1>0, <1>4, ReapStep
<1>5. CASE CreatePid(p) \/ WritePid(p) \/ CreateStarted(p) \/ WriteStarted(p)
  BY <1>0, <1>5, MakeStep
<1>6. CASE ExitHook(p) \/ KillSession(p)
  BY <1>0, <1>6, EndStep
<1> QED BY <1>1, <1>2, <1>3, <1>4, <1>5, <1>6 DEF HookStep, Building

\* Two sessions come to build at once only in CheckReady, which both orders exclude.
LEMMA NoOverlap ==
    ASSUME ~overlapped, hasFlock => FlockOrder, ~hasFlock => DirOrder, [SetupNext]_setupVars
    PROVE  ~overlapped'
<1>1. ASSUME NEW p \in Sessions, CheckReady(p) PROVE ~overlapped'
  <2>1. Inside(p)
    BY <1>1 DEF CheckReady, Inside
  <2>2. \A q \in Sessions \ {p} : ~Inside(q)
    BY <2>1 DEF FlockOrder, DirOrder, OwnerOrder, Owns
  <2> QED BY <1>1, <2>2 DEF CheckReady, TwoBuilders, Inside
<1>2. ASSUME NEW p \in Sessions,
             \/ StartSession(p) \/ KillSession(p) \/ TakeFlock(p) \/ FlockTimeout(p) \/ MakeDir(p)
             \/ ReadOwner(p) \/ ReadStarted(p) \/ Judge(p) \/ Reap(p) \/ Wait(p) \/ CreatePid(p)
             \/ WritePid(p) \/ CreateStarted(p) \/ WriteStarted(p) \/ Building(p) \/ ExitHook(p)
      PROVE  overlapped' = overlapped
  BY <1>2, BuildingGoes
     DEF StartSession, KillSession, TakeFlock, FlockTimeout, MakeDir, ReadOwner, ReadStarted,
         Judge, Reap, Wait, CreatePid, WritePid, CreateStarted, WriteStarted, ExitHook
<1>3. CASE LockGrowsOld \/ ClearFailure \/ UNCHANGED setupVars
  BY <1>3 DEF LockGrowsOld, ClearFailure, setupVars
<1> QED BY <1>1, <1>2, <1>3 DEF SetupNext, HookStep, Building

\* Nothing that disturbed the locks is forgotten, and flock is there or not for good.
LEMMA DisturbedStays ==
    ASSUME [SetupNext]_setupVars
    PROVE  (disturbed => disturbed') /\ hasFlock' = hasFlock
<1>1. ASSUME NEW p \in Sessions, FlockTimeout(p) \/ Reap(p)
      PROVE  (disturbed => disturbed') /\ hasFlock' = hasFlock
  BY <1>1 DEF FlockTimeout, Reap
<1>2. ASSUME NEW p \in Sessions,
             \/ StartSession(p) \/ KillSession(p) \/ TakeFlock(p) \/ MakeDir(p) \/ ReadOwner(p)
             \/ ReadStarted(p) \/ Judge(p) \/ Wait(p) \/ CreatePid(p) \/ WritePid(p)
             \/ CreateStarted(p) \/ WriteStarted(p) \/ CheckReady(p) \/ Building(p) \/ ExitHook(p)
      PROVE  disturbed' = disturbed /\ hasFlock' = hasFlock
  BY <1>2, BuildingGoes
     DEF StartSession, KillSession, TakeFlock, MakeDir, ReadOwner, ReadStarted, Judge, Wait,
         CreatePid, WritePid, CreateStarted, WriteStarted, CheckReady, ExitHook
<1>3. CASE LockGrowsOld \/ ClearFailure \/ UNCHANGED setupVars
  BY <1>3 DEF LockGrowsOld, ClearFailure, setupVars
<1> QED BY <1>1, <1>2, <1>3 DEF SetupNext, HookStep, Building

\* A step keeps the invariant on who holds the lock directory.
LEMMA LockStep ==
    ASSUME SetupTypeOK, LockInv, [SetupNext]_setupVars
    PROVE  LockInv'
<1> SUFFICES ASSUME ~disturbed'
             PROVE  /\ ~overlapped'
                    /\ hasFlock => FlockOrder'
                    /\ ~hasFlock => DirOrder'
  BY DisturbedStays DEF LockInv
<1>1. /\ ~disturbed /\ ~overlapped
      /\ hasFlock => FlockOrder
      /\ ~hasFlock => DirOrder
  BY DisturbedStays DEF LockInv
<1>2. ~overlapped'
  BY <1>1, NoOverlap
<1>3. ASSUME NEW p \in Sessions, StartSession(p) \/ HookStep(p) \/ KillSession(p)
      PROVE  (hasFlock => FlockOrder') /\ (~hasFlock => DirOrder')
  BY <1>1, <1>3, TypedParts, FlockStep, DirStep
<1>4. CASE LockGrowsOld \/ ClearFailure \/ UNCHANGED setupVars
  <2>1. /\ UNCHANGED <<hooks, flocked>>
        /\ lockdir'.held = lockdir.held /\ lockdir'.pid = lockdir.pid
    BY <1>4, TypedParts DEF LockGrowsOld, ClearFailure, setupVars, DirType
  <2>2. FlockOrder => FlockOrder'
    BY <2>1 DEF FlockOrder, Inside
  <2>3. OwnerOrder => OwnerOrder'
    BY <2>1 DEF OwnerOrder, Owns, Inside, Making
  <2>4. ReaderOrder => ReaderOrder'
    BY <2>1 DEF ReaderOrder, Reading
  <2> QED BY <1>1, <1>2, <2>2, <2>3, <2>4 DEF DirOrder
<1> QED BY <1>2, <1>3, <1>4 DEF SetupNext

\* Two sessions never build at once, wherever any of them were killed, unless flock
\* timed out or a directory was removed that was misjudged.
THEOREM SessionsBuildInTurn == SetupSpec => []OneBuilder
<1>1. SetupInit => LockInv
  <2> SUFFICES ASSUME SetupInit PROVE LockInv
    OBVIOUS
  <2>1. \A p \in Sessions : hooks[p].step = "idle" /\ hooks[p].trap = FALSE
    BY DEF SetupInit, NoHook
  <2>2. FlockOrder
    BY <2>1 DEF FlockOrder, Inside, BuildSteps
  <2>3. lockdir.pid = NoOwner /\ ~overlapped /\ NoOwner \notin Sessions
    BY SetupAssumption DEF SetupInit, NoDir
  <2>4. OwnerOrder
    BY <2>1, <2>3 DEF OwnerOrder, Owns, Inside, Making, BuildSteps
  <2>5. ReaderOrder
    BY <2>1 DEF ReaderOrder, Reading
  <2> QED BY <2>2, <2>3, <2>4, <2>5 DEF LockInv, DirOrder
<1>2. SetupTypeOK /\ LockInv /\ [SetupNext]_setupVars => LockInv'
  BY LockStep
<1>3. LockInv => OneBuilder
  BY DEF LockInv, OneBuilder
<1> QED BY <1>1, <1>2, <1>3, SetupIsTyped, PTL DEF SetupSpec

-----------------------------------------------------------------------------
(* The reindex hook *)

\* A shell that has the lock is the one that flock names, so that of the shells of a
\* system with flock one at most is past it.
FlockExclusion ==
    flockExists => \A s \in Shells : /\ shells[s].step \notin {"mkdir", "inspect", "reclaim",
                                                               "retry", "pid"}
                                     /\ shells[s].step \in {"debounce", "update"}
                                        => flockHolder = s

ShellSteps == {"none", "flock", "mkdir", "inspect", "reclaim", "retry", "pid", "debounce",
               "update"}

ReindexInv == ReindexTypeOK /\ FlockExclusion

\* The shells stay well formed.
LEMMA ShellsStep ==
    ASSUME ReindexTypeOK, NEW s \in Shells, FireHook(s) \/ ShellStep(s) \/ KillShell(s)
    PROVE  shells' \in [Shells -> [step: ShellSteps, main: BOOLEAN]]
<1>1. shells \in [Shells -> [step: ShellSteps, main: BOOLEAN]]
  BY DEF ReindexTypeOK, ShellSteps
<1>2. CASE FireHook(s)
  <2>1. [step |-> IF flockExists THEN "flock" ELSE "mkdir", main |-> TRUE]
           \in [step: ShellSteps, main: BOOLEAN]
    BY DEF ShellSteps
  <2> QED BY <1>1, <1>2, <2>1 DEF FireHook
<1>3. CASE ReturnToTool(s)
  BY <1>1, <1>3 DEF ReturnToTool
<1>4. ASSUME NEW step \in ShellSteps, Step(s, step)
      PROVE  shells' \in [Shells -> [step: ShellSteps, main: BOOLEAN]]
  BY <1>1, <1>4 DEF Step
<1>5. ASSUME ~FireHook(s), ~ReturnToTool(s)
      PROVE  \E step \in ShellSteps : Step(s, step)
  BY <1>5 DEF ShellStep, TryFlock, TryMkdir, InspectMutex, ReclaimMutex, RetryMkdir,
              RecordHolder, StartUpdate, EndUpdate, KillShell, ShellSteps
<1> QED BY <1>2, <1>3, <1>4, <1>5

\* The other parts of the hook's state stay well formed.
LEMMA MutexStep ==
    ASSUME ReindexTypeOK, NEW s \in Shells, FireHook(s) \/ ShellStep(s) \/ KillShell(s)
    PROVE  /\ flockExists' = flockExists /\ flockHolder' \in Shells \union {NoShell}
           /\ mutex' \in [held: BOOLEAN, pid: Shells \union {NoShell, Gone}]
           /\ owed' \in BOOLEAN
           /\ edits' \in 0..MaxEdits /\ shellKills' \in 0..ShellKills
<1>1. /\ flockHolder \in Shells \union {NoShell}
      /\ mutex \in [held: BOOLEAN, pid: Shells \union {NoShell, Gone}]
      /\ owed \in BOOLEAN
      /\ edits \in 0..MaxEdits /\ shellKills \in 0..ShellKills
  BY DEF ReindexTypeOK
<1>2. NoMutex \in [held: BOOLEAN, pid: Shells \union {NoShell, Gone}]
  BY DEF NoMutex
<1>3. CASE FireHook(s)
  <2>1. edits < MaxEdits /\ edits' = edits + 1
    BY <1>3 DEF FireHook
  <2>2. edits' \in 0..MaxEdits
    BY <1>1, <2>1, ReindexAssumption
  <2> QED BY <1>1, <1>3, <2>2 DEF FireHook
<1>4. CASE KillShell(s)
  <2>1. shellKills < ShellKills /\ shellKills' = shellKills + 1
    BY <1>4 DEF KillShell
  <2>2. shellKills' \in 0..ShellKills
    BY <1>1, <2>1, ReindexAssumption
  <2> QED BY <1>1, <1>4, <2>2 DEF KillShell
<1>5. CASE ShellStep(s)
  BY <1>1, <1>2, <1>5 DEF ShellStep, ReturnToTool, TryFlock, TryMkdir, InspectMutex, ReclaimMutex,
                          RetryMkdir, RecordHolder, StartUpdate, EndUpdate
<1> QED BY <1>3, <1>4, <1>5

\* A step leaves the lock with who is past it.
LEMMA ExclusionStep ==
    ASSUME ReindexInv, NEW s \in Shells, FireHook(s) \/ ShellStep(s) \/ KillShell(s)
    PROVE  FlockExclusion'
<1> SUFFICES ASSUME flockExists PROVE FlockExclusion'
  BY MutexStep DEF FlockExclusion, ReindexInv
<1>1. /\ shells \in [Shells -> [step: ShellSteps, main: BOOLEAN]]
      /\ \A r \in Shells : /\ shells[r].step \notin {"mkdir", "inspect", "reclaim", "retry", "pid"}
                           /\ shells[r].step \in {"debounce", "update"} => flockHolder = r
      /\ NoShell \notin Shells
  BY ReindexAssumption DEF ReindexInv, ReindexTypeOK, FlockExclusion, ShellSteps
<1>2. CASE FireHook(s)
  BY <1>1, <1>2 DEF FireHook, FlockExclusion
<1>3. CASE ReturnToTool(s)
  BY <1>1, <1>3 DEF ReturnToTool, FlockExclusion
<1>4. CASE TryFlock(s)
  BY <1>1, <1>4 DEF TryFlock, Step, FlockExclusion
<1>5. CASE StartUpdate(s)
  BY <1>1, <1>5 DEF StartUpdate, Step, FlockExclusion
<1>6. CASE EndUpdate(s) \/ KillShell(s)
  BY <1>1, <1>6 DEF EndUpdate, KillShell, Step, FlockExclusion
<1>7. ~TryMkdir(s) /\ ~InspectMutex(s) /\ ~ReclaimMutex(s) /\ ~RetryMkdir(s) /\ ~RecordHolder(s)
  BY <1>1 DEF TryMkdir, InspectMutex, ReclaimMutex, RetryMkdir, RecordHolder
<1> QED BY <1>2, <1>3, <1>4, <1>5, <1>6, <1>7 DEF ShellStep

\* The invariant of the reindex hook.
LEMMA ReindexInvHolds == ReindexSpec => []ReindexInv
<1>1. ReindexInit => ReindexInv
  <2> SUFFICES ASSUME ReindexInit PROVE ReindexInv
    OBVIOUS
  <2>1. 0 \in 0..MaxEdits /\ 0 \in 0..ShellKills
    BY ReindexAssumption
  <2>2. Ended \in [step: ShellSteps, main: BOOLEAN] /\ Ended.step = "none"
    BY DEF Ended, ShellSteps
  <2>3. shells \in [Shells -> [step: ShellSteps, main: BOOLEAN]] /\ FlockExclusion
    BY <2>2 DEF ReindexInit, FlockExclusion
  <2>4. mutex \in [held: BOOLEAN, pid: Shells \union {NoShell, Gone}]
    BY DEF ReindexInit, NoMutex
  <2> QED BY <2>1, <2>3, <2>4 DEF ReindexInit, ReindexInv, ReindexTypeOK, ShellSteps
<1>2. ReindexInv /\ [ReindexNext]_reindexVars => ReindexInv'
  <2> SUFFICES ASSUME ReindexInv, [ReindexNext]_reindexVars PROVE ReindexInv'
    OBVIOUS
  <2>1. CASE UNCHANGED reindexVars
    BY <2>1 DEF reindexVars, ReindexInv, ReindexTypeOK, FlockExclusion
  <2>2. ASSUME NEW s \in Shells, FireHook(s) \/ ShellStep(s) \/ KillShell(s) PROVE ReindexInv'
    <3>1. ReindexTypeOK
      BY DEF ReindexInv
    <3>2. ReindexTypeOK'
      BY <2>2, <3>1, ShellsStep, MutexStep DEF ReindexTypeOK, ShellSteps
    <3> QED BY <2>2, <3>2, ExclusionStep DEF ReindexInv
  <2> QED BY <2>1, <2>2 DEF ReindexNext
<1> QED BY <1>1, <1>2, PTL DEF ReindexSpec

\* The mutex directory, the flock and every shell of the hook are well formed
\* (hooks/auto-reindex.sh).
THEOREM ReindexIsTyped == ReindexSpec => []ReindexTypeOK
<1>1. ReindexInv => ReindexTypeOK
  BY DEF ReindexInv
<1> QED BY <1>1, ReindexInvHolds, PTL

\* Where there is flock, two background shells never update the index at once, whoever
\* was killed; with the directory they may (hooks/auto-reindex.sh:96-109).
THEOREM FlockedUpdatesExclude == ReindexSpec => []UpdatesAreSerial
<1>1. ReindexInv => UpdatesAreSerial
  BY DEF ReindexInv, FlockExclusion, UpdatesAreSerial
<1> QED BY <1>1, ReindexInvHolds, PTL
=============================================================================

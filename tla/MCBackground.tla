---------------------------- MODULE MCBackground ----------------------------
(***************************************************************************)
(* The mechanisms that work behind a session, for TLC: the task files, the *)
(* resumption of frozen sessions, the plugin's setup and the reindex hook. *)
(* They share no state, so a behaviour exercises one of them, chosen at    *)
(* its start, while the others rest: the sum of their state spaces says as *)
(* much as the product would.                                              *)
(***************************************************************************)
EXTENDS AutoResume, PluginSetup, ReindexHook

VARIABLE part

backgroundVars == <<part, taskVars, resumeVars, setupVars, reindexVars>>

Held(session) == [status |-> "in_progress", session |-> session, notes |-> 0]

\* Every session holds a task, and another command is about to park it: task done
\* or task block has read and compared the file.
Parking ==
    \E op \in {"done", "block"}, session \in TaskSessions :
      /\ tasks = [name \in TaskNames |-> IF name = 1 THEN Held(session) ELSE Absent]
      /\ writers = [w \in TaskWriters |->
                      IF w # CHOOSE v \in TaskWriters : TRUE THEN Idle
                      ELSE [Idle EXCEPT !.op = op, !.step = "replace",
                                        !.before = tasks[1], !.current = tasks[1]]]
      /\ taskOps = MaxTaskOps /\ taskKills = TaskKills

\* One ticker, several freezes, kills, and one run of enable or disable.
FreezesInARow ==
    /\ enabled = TRUE /\ hook \in {"broken", "ok"} /\ journal = {}
    /\ freezes = [f \in Freezes |-> [session |-> NoSession, age |-> "none"]]
    /\ toggles = MaxToggles - 1 /\ resumeKills = 0

\* Two tickers and every toggle, but one freeze only, as the others were errors of
\* another kind, and no kills.
OverlappingTicks ==
    /\ enabled = TRUE /\ hook = "ok" /\ journal = {}
    /\ freezes = [f \in Freezes |-> [session |-> CHOOSE s \in TaskSessions : TRUE,
                                     age |-> IF f = MaxFreezes THEN "none" ELSE "other"]]
    /\ toggles = 0 /\ resumeKills = ResumeKills

NoTicks ==
    /\ ledger = {} /\ ticks = [t \in Tickers |-> NoTick]
    /\ toggle = NoToggle /\ launched = {} /\ forgotten = {}

ResumeRests == ResumeInit /\ ~enabled
SetupRests == SetupInit /\ hasFlock
ReindexRests == ReindexInit /\ flockExists

BackgroundInit ==
    \/ part = "tasks" /\ TaskInit /\ ResumeRests /\ SetupRests /\ ReindexRests
    \/ /\ \/ part = "freezes" /\ FreezesInARow
          \/ part = "ticks" /\ OverlappingTicks
       /\ NoTicks /\ Parking /\ SetupRests /\ ReindexRests
    \/ part = "setup" /\ TaskInit /\ ResumeRests /\ SetupInit /\ ReindexRests
    \/ part = "reindex" /\ TaskInit /\ ResumeRests /\ SetupRests /\ ReindexInit

BackgroundNext ==
    /\ UNCHANGED part
    /\ \/ part = "tasks" /\ TaskNext /\ UNCHANGED <<resumeVars, setupVars, reindexVars>>
       \/ /\ part = "freezes" /\ ResumeNext /\ UNCHANGED <<setupVars, reindexVars>>
          /\ \A t \in Tickers \ Scheduled : ticks'[t] = ticks[t]
       \/ part = "ticks" /\ ResumeNext /\ UNCHANGED <<setupVars, reindexVars>>
       \/ part = "setup" /\ SetupNext /\ UNCHANGED <<taskVars, resumeVars, reindexVars>>
       \/ part = "reindex" /\ ReindexNext /\ UNCHANGED <<taskVars, resumeVars, setupVars>>

BackgroundSpec ==
    /\ BackgroundInit /\ [][BackgroundNext]_backgroundVars
    /\ ResumeFairness /\ SetupFairness /\ ReindexFairness
=============================================================================

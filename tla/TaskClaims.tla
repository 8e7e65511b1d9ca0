----------------------------- MODULE TaskClaims -----------------------------
(***************************************************************************)
(* `rekol task`: one file per task.  A task is created under the first     *)
(* name that is free; every other command reads the file, changes what it  *)
(* read and replaces the file if its hash is still the one it began with,  *)
(* up to three times.  Nothing locks: the sessions run side by side.       *)
(***************************************************************************)
EXTENDS Naturals, FiniteSets

CONSTANTS TaskSessions, TaskWriters, NoSession,
          MaxTasks,       \* bound on the names id, id-2, id-3, ...
          MaxNotes,       \* bound on the reasons appended to one task
          MaxTaskOps,     \* bound on the commands
          TaskKills       \* bound on the commands that are killed

ASSUME TaskAssumption ==
    /\ MaxTasks \in Nat \ {0} /\ MaxNotes \in Nat /\ MaxTaskOps \in Nat /\ TaskKills \in Nat
    /\ NoSession \notin TaskSessions

VARIABLES tasks,     \* name -> the file
          writers,   \* writer -> its command in progress
          taskOps, taskKills

taskVars == <<tasks, writers, taskOps, taskKills>>

TaskNames == 1..MaxTasks
CasMaxAttempts == 3

Claims == TaskSessions \union {NoSession}
Absent == [status |-> "absent", session |-> NoSession, notes |-> 0]
Empty == [status |-> "empty", session |-> NoSession, notes |-> 0]

\* A file that parse_task accepts.
Parsed(file) == file.status \notin {"absent", "empty"}

Idle == [op |-> "none", step |-> "idle", name |-> 1, session |-> NoSession,
         before |-> Absent, current |-> Absent, attempt |-> 1,
         others |-> 0,      \* history: the writes of others since it read the file
         late |-> FALSE]    \* history: one of them came after its comparison

\* What start, done and block make of a task.
Mutate(op, session, task) ==
    CASE op = "start" -> [task EXCEPT !.status = "in_progress",
                                      !.session = IF session = NoSession THEN @ ELSE session]
      [] op = "done"  -> [task EXCEPT !.status = "done", !.session = NoSession]
      [] op = "block" -> [task EXCEPT !.status = "blocked", !.notes = @ + 1]

\* The writers that are reading a file learn, as history, that it was written.
Wrote(w, name) ==
    [v \in TaskWriters |->
       IF v # w /\ writers[v].step \in {"parse", "compare", "replace"} /\ writers[v].name = name
       THEN [writers[v] EXCEPT !.others = IF @ < 2 THEN @ + 1 ELSE 2,
                               !.late = @ \/ writers[v].step = "replace"]
       ELSE writers[v]]

-----------------------------------------------------------------------------

BeginOp ==
    /\ taskOps < MaxTaskOps /\ taskOps' = taskOps + 1
    /\ UNCHANGED <<tasks, taskKills>>

\* task add.
BeginAdd(w) ==
    /\ BeginOp
    /\ writers[w].step = "idle"
    /\ writers' = [writers EXCEPT ![w] = [Idle EXCEPT !.op = "add", !.step = "open"]]

\* task start, done and block, for a file that is there.
BeginUpdate(w) ==
    /\ BeginOp
    /\ writers[w].step = "idle"
    /\ \E name \in TaskNames, op \in {"start", "done", "block"}, session \in Claims :
         /\ tasks[name] # Absent
         /\ op # "start" => session = NoSession
         /\ writers' = [writers EXCEPT ![w] = [Idle EXCEPT !.op = op, !.step = "read",
                                                 !.name = name, !.session = session]]

\* create_task: O_EXCL on id, id-2, ...; files are never removed, so the names
\* tried before stay taken.
OpenTask(w) ==
    /\ writers[w].step = "open"
    /\ \E name \in TaskNames :
         /\ tasks[name] = Absent /\ \A k \in 1..(name - 1) : tasks[k] # Absent
         /\ tasks' = [tasks EXCEPT ![name] = Empty]
         /\ writers' = [writers EXCEPT ![w].step = "fill", ![w].name = name]
    /\ UNCHANGED <<taskOps, taskKills>>

FillTask(w) ==
    /\ writers[w].step = "fill"
    /\ tasks' = [tasks EXCEPT ![writers[w].name] = [Empty EXCEPT !.status = "open"]]
    /\ writers' = [Wrote(w, writers[w].name) EXCEPT ![w] = Idle]
    /\ UNCHANGED <<taskOps, taskKills>>

\* update_task reads the bytes that it hashes ...
ReadTask(w) ==
    /\ writers[w].step = "read"
    /\ writers' = [writers EXCEPT ![w].step = "parse", ![w].others = 0,
                                  ![w].before = tasks[writers[w].name]]
    /\ UNCHANGED <<tasks, taskOps, taskKills>>

\* ... and then reads the file again to parse it.
ParseTask(w) ==
    /\ writers[w].step = "parse"
    /\ LET file == tasks[writers[w].name] IN
       /\ writers[w].op = "block" => file.notes < MaxNotes
       /\ writers' = [writers EXCEPT ![w] = IF Parsed(file)
                                            THEN [@ EXCEPT !.step = "compare", !.current = file]
                                            ELSE Idle]
    /\ UNCHANGED <<tasks, taskOps, taskKills>>

\* The hash is that of what was parsed.
BlindCompareTask(w) ==
    /\ writers[w].step = "compare"
    /\ writers' = [writers EXCEPT ![w].step = "replace"]
    /\ UNCHANGED <<tasks, taskOps, taskKills>>

CompareTask(w) ==
    /\ writers[w].step = "compare"
    /\ LET u == writers[w] IN
         writers' = [writers EXCEPT ![w] =
           IF tasks[u.name] = u.before THEN [u EXCEPT !.step = "replace"]
           ELSE IF u.attempt < CasMaxAttempts
           THEN [u EXCEPT !.step = "read", !.attempt = u.attempt + 1]
           ELSE Idle]
    /\ UNCHANGED <<tasks, taskOps, taskKills>>

ReplaceTask(w) ==
    /\ writers[w].step = "replace"
    /\ LET u == writers[w] IN
         tasks' = [tasks EXCEPT ![u.name] = Mutate(u.op, u.session, u.current)]
    /\ writers' = [Wrote(w, writers[w].name) EXCEPT ![w] = Idle]
    /\ UNCHANGED <<taskOps, taskKills>>

KillTask(w) ==
    /\ writers[w].step # "idle"
    /\ taskKills < TaskKills /\ taskKills' = taskKills + 1
    /\ writers' = [writers EXCEPT ![w] = Idle]
    /\ UNCHANGED <<tasks, taskOps>>

-----------------------------------------------------------------------------

TaskInit ==
    /\ tasks = [name \in TaskNames |-> Absent]
    /\ writers = [w \in TaskWriters |-> Idle]
    /\ taskOps = 0 /\ taskKills = 0

TaskStep(w) ==
    \/ BeginAdd(w) \/ BeginUpdate(w) \/ OpenTask(w) \/ FillTask(w)
    \/ ReadTask(w) \/ ParseTask(w) \/ CompareTask(w) \/ ReplaceTask(w) \/ KillTask(w)

TaskNext == \E w \in TaskWriters : TaskStep(w)

TaskSpec == TaskInit /\ [][TaskNext]_taskVars

-----------------------------------------------------------------------------

TaskFile == [status: {"absent", "empty", "open", "in_progress", "blocked", "done"},
             session: Claims, notes: 0..MaxNotes]

TaskTypeOK ==
    /\ tasks \in [TaskNames -> TaskFile]
    /\ writers \in [TaskWriters ->
         [op: {"none", "add", "start", "done", "block"},
          step: {"idle", "open", "fill", "read", "parse", "compare", "replace"},
          name: TaskNames, session: Claims, before: TaskFile, current: TaskFile,
          attempt: 1..CasMaxAttempts, others: 0..2, late: BOOLEAN]]
    /\ taskOps \in 0..MaxTaskOps /\ taskKills \in 0..TaskKills

\* An update that replaces a file has changed what the file held, and not an older
\* version, if at most one other write fell between its first read and its
\* replacement, at whatever moment before the hashes were compared
\* (tasks.py:197-232).  A write after the comparison is lost, and two writes can
\* restore the hash around the second read.
UpdatesCompose ==
    [][\A w \in TaskWriters :
         LET u == writers[w] IN
         (u.step = "replace" /\ writers'[w].step = "idle" /\ u.others < 2 /\ ~u.late
          /\ tasks' # tasks)
         => tasks'[u.name] = Mutate(u.op, u.session, tasks[u.name])]_taskVars
=============================================================================

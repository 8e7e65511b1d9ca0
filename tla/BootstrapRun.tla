---------------------------- MODULE BootstrapRun ----------------------------
(***************************************************************************)
(* `rekol bootstrap`: a run plans one review file per project and keeps a  *)
(* checkpoint, which --mark-done advances and --reset replaces;            *)
(* --promote-always adds a pointer to REKOL.md, within a budget.  Both     *)
(* files are replaced atomically, through a temporary file whose name is   *)
(* fixed.  Nothing locks, and a command may be killed at any step.         *)
(***************************************************************************)
EXTENDS Naturals, FiniteSets

CONSTANTS Commands,
          Batches, Scopes, InScope,   \* Scopes -> the batches that they cover
          Pointers, HandWritten,      \* lines of REKOL.md
          Budget,                     \* its cap, in lines
          Broken, NoContent,
          MaxRuns,                    \* bound on the seconds, which name the runs
          MaxCommands,                \* bound on the commands
          BootstrapKills              \* bound on those killed

ASSUME BootstrapAssumption ==
    /\ InScope \in [Scopes -> SUBSET Batches]
    /\ IsFiniteSet(Batches) /\ IsFiniteSet(Pointers) /\ IsFiniteSet(HandWritten)
    /\ Pointers \intersect HandWritten = {}
    /\ Budget \in Nat /\ Cardinality(HandWritten) <= Budget
    /\ MaxRuns \in Nat \ {0} /\ MaxCommands \in Nat /\ BootstrapKills \in Nat
    /\ Broken # NoContent

VARIABLES disk,      \* "checkpoint" and "index" -> the file and its temporary file
          reviews,   \* the review files, by run and batch
          commands,  \* command -> its progress
          second,    \* the clock
          raced,     \* history: the files that two commands were changing at once
          cut,       \* history: the runs whose planner did not get to its end
          begun, bootstrapKills

bootstrapVars == <<disk, reviews, commands, second, raced, cut, begun, bootstrapKills>>

Runs == 1..MaxRuns
Targets == {"checkpoint", "index"}

Checkpoint == [run: Runs, scope: Scopes, batches: SUBSET Batches, completed: SUBSET Batches,
               written: Nat]

Lines == SUBSET (Pointers \union HandWritten)

\* A broken or a missing file is no checkpoint, and no list of lines.
ASSUME ContentAssumption ==
    /\ {Broken, NoContent} \intersect Checkpoint = {}
    /\ \A lines \in Lines : lines \notin {Broken, NoContent}

\* What either file may hold: a checkpoint, or the lines of REKOL.md.
Holds(file, content) ==
    \/ file = "checkpoint" /\ (content = Broken \/ content \in Checkpoint)
    \/ /\ file = "index" /\ content \notin {Broken, NoContent}
       /\ content \subseteq Pointers \union HandWritten

NoCommand == [op |-> "none", step |-> "idle", file |-> "checkpoint", text |-> NoContent,
              left |-> {}, fd |-> "closed"]

IsCheckpoint(content) == content \notin {Broken, NoContent}

\* What a file opened for writing holds before it is written.
Truncated(file) == IF file = "index" THEN {} ELSE Broken

Busy(c) == commands[c].step # "idle"

\* c begins to change a file: is somebody else at it?
Races(c, file) ==
    IF \E d \in Commands \ {c} : Busy(d) /\ commands[d].file = file
    THEN raced \union {file} ELSE raced

-----------------------------------------------------------------------------

BeginCommand(c) ==
    /\ ~Busy(c)
    /\ begun < MaxCommands /\ begun' = begun + 1

\* Without a checkpoint, or with --reset, the corpus is planned.  One that is there is
\* resumed, or refused for its scope, which changes nothing; a broken one is refused
\* always.
MayPlan(reset) ==
    /\ disk["checkpoint"].final # Broken
    /\ disk["checkpoint"].final = NoContent \/ reset

\* apply_scope, then plan_batches: the projects of the candidates in the scope.
Planned(scope) == InScope[scope]

NewCheckpoint(now, scope) ==
    [run |-> now, scope |-> scope, batches |-> Planned(scope), completed |-> {}, written |-> 0]

\* The plan, to be saved before the first review file is written.
PlanRun(c) ==
    /\ BeginCommand(c)
    /\ \E reset \in BOOLEAN, scope \in Scopes, now \in {second, second + 1} \intersect Runs :
         /\ MayPlan(reset)
         /\ Planned(scope) # {}
         /\ second' = now
         /\ commands' = [commands EXCEPT ![c] =
              [op |-> IF reset THEN "reset" ELSE "plan", step |-> "open", file |-> "checkpoint",
               text |-> NewCheckpoint(now, scope), left |-> Planned(scope), fd |-> "closed"]]
    /\ raced' = Races(c, "checkpoint")
    /\ UNCHANGED <<disk, reviews, cut, bootstrapKills>>

\* --mark-done of a batch of the plan.
MarkBatchDone(c) ==
    /\ BeginCommand(c)
    /\ LET state == disk["checkpoint"].final IN
       /\ IsCheckpoint(state)
       /\ \E batch \in state.batches :
            commands' = [commands EXCEPT ![c] =
              [NoCommand EXCEPT !.op = "mark", !.step = "open",
                                !.text = [state EXCEPT !.completed = @ \union {batch}]]]
    /\ raced' = Races(c, "checkpoint")
    /\ UNCHANGED <<disk, reviews, second, cut, bootstrapKills>>

\* The budget is held against what is there, not against what will be.
TooLateFits(lines) == Cardinality(lines) <= Budget + 1

Fits(lines) == Cardinality(lines) <= Budget

\* --promote-always of a pointer that is not there and fits.
Promote(c) ==
    /\ BeginCommand(c)
    /\ \E p \in Pointers \ disk["index"].final :
         /\ Fits(disk["index"].final \union {p})
         /\ commands' = [commands EXCEPT ![c] =
              [NoCommand EXCEPT !.op = "promote", !.step = "open", !.file = "index",
                                !.text = disk["index"].final \union {p}]]
    /\ raced' = Races(c, "index")
    /\ UNCHANGED <<disk, reviews, second, cut, bootstrapKills>>

\* As if the file itself were opened.
OpenInPlace(c) ==
    /\ commands[c].step = "open"
    /\ disk' = [disk EXCEPT ![commands[c].file].final = Truncated(commands[c].file)]
    /\ commands' = [commands EXCEPT ![c].step = "fill", ![c].fd = "final"]
    /\ UNCHANGED <<reviews, second, raced, cut, begun, bootstrapKills>>

\* save_state and promote_to_rekol_md open the temporary file, whoever else has it open.
OpenTemp(c) ==
    /\ commands[c].step = "open"
    /\ disk' = [disk EXCEPT ![commands[c].file].temp = Truncated(commands[c].file)]
    /\ commands' = [commands EXCEPT ![c].step = "fill", ![c].fd = "temp"]
    /\ UNCHANGED <<reviews, second, raced, cut, begun, bootstrapKills>>

\* The text goes to the file that was opened, wherever another command moved it.
FillTemp(c) ==
    /\ commands[c].step = "fill"
    /\ LET u == commands[c] IN
         disk' = CASE u.fd = "temp"  -> [disk EXCEPT ![u.file].temp = u.text]
                   [] u.fd = "final" -> [disk EXCEPT ![u.file].final = u.text]
                   [] u.fd = "gone"  -> disk
    /\ commands' = [commands EXCEPT ![c].step = "rename"]
    /\ UNCHANGED <<reviews, second, raced, cut, begun, bootstrapKills>>

Moved(fd) == IF fd = "temp" THEN "final" ELSE IF fd = "final" THEN "gone" ELSE fd

\* os.replace.  A planner goes on with its next review file.
RenameTemp(c) ==
    /\ commands[c].step = "rename"
    /\ LET u == commands[c]
           next == IF u.left = {} THEN NoCommand
                   ELSE [u EXCEPT !.step = "review", !.fd = "closed"]
       IN /\ disk[u.file].temp # NoContent
          /\ disk' = [disk EXCEPT ![u.file] = [final |-> @.temp, temp |-> NoContent]]
          /\ commands' = [d \in Commands |->
               IF d = c THEN next
               ELSE IF commands[d].file = u.file
                    THEN [commands[d] EXCEPT !.fd = Moved(@)] ELSE commands[d]]
    /\ UNCHANGED <<reviews, second, raced, cut, begun, bootstrapKills>>

\* Another command has moved the temporary file away: os.replace raises.
FailRename(c) ==
    /\ commands[c].step = "rename"
    /\ disk[commands[c].file].temp = NoContent
    /\ cut' = IF commands[c].op \in {"plan", "reset"} THEN cut \union {commands[c].text.run}
              ELSE cut
    /\ commands' = [commands EXCEPT ![c] = NoCommand]
    /\ UNCHANGED <<disk, reviews, second, raced, begun, bootstrapKills>>

\* As if the checkpoint counted a review file and the file were written later.
CountReview(c) ==
    /\ commands[c].step = "review"
    /\ \E batch \in commands[c].left :
         commands' = [commands EXCEPT ![c].left = @ \ {batch}, ![c].step = "open",
                                      ![c].text.written = @ + 1]
    /\ UNCHANGED <<disk, reviews, second, raced, cut, begun, bootstrapKills>>

\* write_batch_candidates, then the count that the next save records.  The review
\* file is replaced atomically too.
WriteReview(c) ==
    /\ commands[c].step = "review"
    /\ \E batch \in commands[c].left :
         /\ reviews' = reviews \union {<<commands[c].text.run, batch>>}
         /\ commands' = [commands EXCEPT ![c].left = @ \ {batch}, ![c].step = "open",
                                         ![c].text.written = @ + 1]
    /\ UNCHANGED <<disk, second, raced, cut, begun, bootstrapKills>>

KillCommand(c) ==
    /\ Busy(c)
    /\ bootstrapKills < BootstrapKills /\ bootstrapKills' = bootstrapKills + 1
    /\ cut' = IF commands[c].op \in {"plan", "reset"} THEN cut \union {commands[c].text.run}
              ELSE cut
    /\ commands' = [commands EXCEPT ![c] = NoCommand]
    /\ UNCHANGED <<disk, reviews, second, raced, begun>>

-----------------------------------------------------------------------------

BootstrapInit ==
    /\ disk = [file \in Targets |->
                 [final |-> IF file = "index" THEN HandWritten ELSE NoContent,
                  temp |-> NoContent]]
    /\ reviews = {}
    /\ commands = [c \in Commands |-> NoCommand]
    /\ second = 1
    /\ raced = {} /\ cut = {}
    /\ begun = 0 /\ bootstrapKills = 0

CommandStep(c) ==
    \/ PlanRun(c) \/ MarkBatchDone(c) \/ Promote(c)
    \/ OpenTemp(c) \/ FillTemp(c) \/ RenameTemp(c) \/ FailRename(c) \/ WriteReview(c)
    \/ KillCommand(c)

BootstrapNext == \E c \in Commands : CommandStep(c)

BootstrapSpec == BootstrapInit /\ [][BootstrapNext]_bootstrapVars

-----------------------------------------------------------------------------

BootstrapTypeOK ==
    /\ \A file \in Targets :
         /\ \/ Holds(file, disk[file].final)
            \/ file = "checkpoint" /\ disk[file].final = NoContent
         /\ Holds(file, disk[file].temp) \/ disk[file].temp = NoContent
    /\ reviews \subseteq Runs \X Batches
    /\ \A c \in Commands :
         /\ commands[c].op \in {"none", "plan", "reset", "mark", "promote"}
         /\ commands[c].step \in {"idle", "open", "fill", "rename", "review"}
         /\ commands[c].fd \in {"closed", "temp", "final", "gone"}
         /\ commands[c].left \subseteq Batches
    /\ second \in Runs /\ raced \subseteq Targets /\ cut \subseteq Runs

\* As long as no two commands change the checkpoint at once, no step of a command
\* other than --reset takes a completed batch, or the plan, out of it, wherever
\* commands are killed (bootstrap_state.py:127-145, cli_bootstrap.py:270-284).
ProgressKept ==
    [][LET old == disk["checkpoint"].final
           new == disk'["checkpoint"].final
       IN (IsCheckpoint(old) /\ "checkpoint" \notin raced' /\ new # old)
          => /\ IsCheckpoint(new)
             /\ \/ new.run = old.run /\ old.completed \subseteq new.completed
                \/ \E c \in Commands : commands[c].op = "reset" /\ commands[c].step = "rename"
      ]_bootstrapVars

\* The checkpoint never counts a review file that is not on disk, and a batch of
\* its plan has none only while the planner runs or because it did not get to its
\* end (cli_bootstrap.py:154-212), however commands interleave.
PlanIsOnDisk ==
    LET state == disk["checkpoint"].final
        Written == {batch \in Batches : <<state.run, batch>> \in reviews}
    IN IsCheckpoint(state) =>
         /\ state.written <= Cardinality(Written)
         /\ \/ state.batches \subseteq Written
            \/ state.run \in cut
            \/ \E c \in Commands : commands[c].op \in {"plan", "reset"}
                                   /\ commands[c].text.run = state.run

\* REKOL.md never outgrows its budget, even when promotions interleave, and loses
\* no line as long as they do not (bootstrap.py:770-834).
AlwaysOnKept ==
    [][LET old == disk["index"].final
           new == disk'["index"].final
       IN /\ Cardinality(new) <= Budget
          /\ "index" \notin raced' => old \subseteq new]_bootstrapVars
=============================================================================

--------------------------- MODULE WorkflowsProofs ---------------------------
(***************************************************************************)
(* Theorems about the bootstrap run and the include scope, for any number  *)
(* of commands, projects, files and edits, and any number of kills.        *)
(***************************************************************************)
EXTENDS BootstrapRun, IncludeIndexer, FiniteSetTheorems, TLAPS

-----------------------------------------------------------------------------
(* The bootstrap run *)

Planners == {"plan", "reset"}

Commanding ==
    [op: {"none", "plan", "reset", "mark", "promote"},
     step: {"idle", "open", "fill", "rename", "review"},
     file: Targets, text: Checkpoint \union Lines \union {NoContent},
     left: SUBSET Batches, fd: {"closed", "temp", "final", "gone"}]

\* What a command has in hand.
WellFormed(u) ==
    /\ u.op = "none" <=> u.step = "idle"
    /\ u.op \in Planners \union {"mark"} => u.file = "checkpoint" /\ u.text \in Checkpoint
    /\ u.op = "promote" => u.file = "index" /\ u.text \in Lines
    /\ u.op \notin Planners => u.left = {}
    /\ u.step \in {"fill", "rename"} <=> u.fd # "closed"

Contents == Checkpoint \union Lines \union {Broken, NoContent}

BootstrapTyped ==
    /\ disk \in [Targets -> [final: Contents, temp: Contents]]
    /\ disk["checkpoint"].final \in Checkpoint \union {Broken, NoContent}
    /\ disk["checkpoint"].temp \in Checkpoint \union {Broken, NoContent}
    /\ disk["index"].final \in Lines
    /\ disk["index"].temp \in Lines \union {NoContent}
    /\ reviews \subseteq Runs \X Batches
    /\ commands \in [Commands -> Commanding]
    /\ \A c \in Commands : WellFormed(commands[c])
    /\ second \in Runs /\ raced \subseteq Targets /\ cut \subseteq Runs

\* Unless somebody raced for a file, whoever changes it is alone, his temporary
\* file holds what he wrote, and he goes on from what the file holds.
Alone(c) ==
    LET u == commands[c] IN
    Busy(c) /\ u.file \notin raced =>
        /\ \A d \in Commands \ {c} : Busy(d) => commands[d].file # u.file
        /\ u.step \in {"fill", "rename"} => u.fd = "temp"
        /\ u.step = "rename" => disk[u.file].temp = u.text
        /\ u.op = "promote" => disk["index"].final \subseteq u.text
        /\ u.op = "plan" /\ disk["checkpoint"].final # NoContent
              => /\ IsCheckpoint(disk["checkpoint"].final)
                 /\ disk["checkpoint"].final.run = u.text.run
                 /\ disk["checkpoint"].final.completed \subseteq u.text.completed
        /\ u.op = "mark"
              => /\ IsCheckpoint(disk["checkpoint"].final)
                 /\ disk["checkpoint"].final.run = u.text.run
                 /\ disk["checkpoint"].final.completed \subseteq u.text.completed

WrittenIn(files, run) == {batch \in Batches : <<run, batch>> \in files}

\* Whoever planned the checkpoint k is at it, was cut short, or got to its end.
AccountedBy(k, files, running, short) ==
    /\ k.written <= Cardinality(WrittenIn(files, k.run))
    /\ \/ k.batches \subseteq WrittenIn(files, k.run)
       \/ k.run \in short
       \/ \E c \in Commands : /\ running[c].op \in Planners
                              /\ running[c].text.run = k.run
                              /\ running[c].text.batches = k.batches

Accounted(k) == AccountedBy(k, reviews, commands, cut)

\* A planner has counted the review files that it has written, each once.
Counting(u, files) ==
    u.op \in Planners =>
        /\ u.left \subseteq u.text.batches
        /\ u.text.written = Cardinality(u.text.batches \ u.left)
        /\ u.text.batches \ u.left \subseteq WrittenIn(files, u.text.run)

PlanInv ==
    /\ IsCheckpoint(disk["checkpoint"].final) => Accounted(disk["checkpoint"].final)
    /\ IsCheckpoint(disk["checkpoint"].temp) => Accounted(disk["checkpoint"].temp)
    /\ \A c \in Commands :
          /\ commands[c].op \in Planners \union {"mark"} => Accounted(commands[c].text)
          /\ Counting(commands[c], reviews)

BudgetInv ==
    /\ Cardinality(disk["index"].final) <= Budget
    /\ disk["index"].temp # NoContent => Cardinality(disk["index"].temp) <= Budget
    /\ \A c \in Commands :
          commands[c].op = "promote" => Cardinality(commands[c].text) <= Budget

AloneInv == BootstrapTyped /\ \A c \in Commands : Alone(c)

\* Where a checkpoint or REKOL.md is held back as text, its parts have their types.
LEMMA CommandParts ==
    ASSUME BootstrapTyped, NEW c \in Commands
    PROVE  /\ commands[c] \in Commanding /\ WellFormed(commands[c])
           /\ commands[c].file \in Targets /\ commands[c].left \in SUBSET Batches
  BY DEF BootstrapTyped, Commanding

\* A new checkpoint is one.
LEMMA NewCheckpointTyped ==
    ASSUME NEW now \in Runs, NEW sc \in Scopes
    PROVE  /\ NewCheckpoint(now, sc) \in Checkpoint
           /\ Planned(sc) \in SUBSET Batches
  <1>1. Planned(sc) \in SUBSET Batches
    BY BootstrapAssumption DEF Planned
  <1> QED
    BY <1>1 DEF NewCheckpoint, Checkpoint

\* A command begins with everything well typed.
LEMMA BeginTyped ==
    ASSUME BootstrapTyped, NEW c \in Commands, PlanRun(c) \/ MarkBatchDone(c) \/ Promote(c)
    PROVE  BootstrapTyped'
  <1> USE DEF BootstrapTyped
  <1>1. CASE PlanRun(c)
    <2>1. PICK reset \in BOOLEAN, sc \in Scopes, now \in {second, second + 1} \intersect Runs :
            /\ second' = now
            /\ commands' = [commands EXCEPT ![c] =
                 [op |-> IF reset THEN "reset" ELSE "plan", step |-> "open",
                  file |-> "checkpoint", text |-> NewCheckpoint(now, sc),
                  left |-> Planned(sc), fd |-> "closed"]]
      BY <1>1 DEF PlanRun
    <2>2. /\ NewCheckpoint(now, sc) \in Checkpoint /\ Planned(sc) \in SUBSET Batches
      BY NewCheckpointTyped
    <2>3. raced' \subseteq Targets /\ UNCHANGED <<disk, reviews, cut>>
      BY <1>1 DEF PlanRun, Races, Targets
    <2>4. /\ commands' \in [Commands -> Commanding]
          /\ \A d \in Commands : WellFormed(commands'[d])
      BY <2>1, <2>2 DEF Commanding, WellFormed, Targets, Planners
    <2> QED
      BY <2>1, <2>3, <2>4
  <1>2. CASE MarkBatchDone(c)
    <2> DEFINE state == disk["checkpoint"].final
    <2>1. state \in Checkpoint
      BY <1>2 DEF MarkBatchDone, IsCheckpoint
    <2>2. PICK batch \in state.batches :
            commands' = [commands EXCEPT ![c] =
              [NoCommand EXCEPT !.op = "mark", !.step = "open",
                                !.text = [state EXCEPT !.completed = @ \union {batch}]]]
      BY <1>2 DEF MarkBatchDone
    <2>3. [state EXCEPT !.completed = @ \union {batch}] \in Checkpoint
      BY <2>1 DEF Checkpoint
    <2>4. raced' \subseteq Targets /\ UNCHANGED <<disk, reviews, cut, second>>
      BY <1>2 DEF MarkBatchDone, Races, Targets
    <2>5. /\ commands' \in [Commands -> Commanding]
          /\ \A d \in Commands : WellFormed(commands'[d])
      BY <2>2, <2>3 DEF Commanding, WellFormed, Targets, Planners, NoCommand
    <2> QED
      BY <2>4, <2>5
  <1>3. CASE Promote(c)
    <2>1. PICK p \in Pointers \ disk["index"].final :
            commands' = [commands EXCEPT ![c] =
              [NoCommand EXCEPT !.op = "promote", !.step = "open", !.file = "index",
                                !.text = disk["index"].final \union {p}]]
      BY <1>3 DEF Promote
    <2>2. disk["index"].final \union {p} \in Lines
      BY DEF Lines
    <2>3. raced' \subseteq Targets /\ UNCHANGED <<disk, reviews, cut, second>>
      BY <1>3 DEF Promote, Races, Targets
    <2>4. /\ commands' \in [Commands -> Commanding]
          /\ \A d \in Commands : WellFormed(commands'[d])
      BY <2>1, <2>2 DEF Commanding, WellFormed, Targets, Planners, NoCommand
    <2> QED
      BY <2>3, <2>4
  <1> QED
    BY <1>1, <1>2, <1>3

\* A busy command changes the checkpoint or REKOL.md, and has its new text in hand.
LEMMA BusyCommand ==
    ASSUME BootstrapTyped, NEW c \in Commands, Busy(c)
    PROVE  \/ /\ commands[c].op \in Planners \union {"mark"}
              /\ commands[c].file = "checkpoint" /\ commands[c].text \in Checkpoint
           \/ /\ commands[c].op = "promote" /\ commands[c].left = {}
              /\ commands[c].file = "index" /\ commands[c].text \in Lines
  BY CommandParts DEF WellFormed, Busy, Commanding, Planners

\* What a command's steps after its first do to the disk.
LEMMA DiskSteps ==
    ASSUME BootstrapTyped, NEW c \in Commands, Busy(c)
    PROVE  LET f == commands[c].file
               t == commands[c].text
           IN /\ f \in Targets
              /\ OpenTemp(c) =>
                    /\ disk' \in [Targets -> [final: Contents, temp: Contents]]
                    /\ disk'[f].temp = Truncated(f) /\ disk'[f].final = disk[f].final
                    /\ \A g \in Targets \ {f} : disk'[g] = disk[g]
              /\ FillTemp(c) =>
                    /\ disk' \in [Targets -> [final: Contents, temp: Contents]]
                    /\ disk'[f].temp \in {t, disk[f].temp}
                    /\ disk'[f].final \in {t, disk[f].final}
                    /\ commands[c].fd = "temp" =>
                          disk'[f].temp = t /\ disk'[f].final = disk[f].final
                    /\ \A g \in Targets \ {f} : disk'[g] = disk[g]
              /\ RenameTemp(c) =>
                    /\ disk' \in [Targets -> [final: Contents, temp: Contents]]
                    /\ disk[f].temp # NoContent
                    /\ disk'[f].final = disk[f].temp /\ disk'[f].temp = NoContent
                    /\ \A g \in Targets \ {f} : disk'[g] = disk[g]
  <1> DEFINE f == commands[c].file
             t == commands[c].text
  <1>1. f \in Targets /\ t \in Contents
    BY BusyCommand DEF Targets, Contents
  <1>2. Truncated(f) \in Contents
    BY DEF Truncated, Contents, Lines
  <1>3. ASSUME OpenTemp(c)
        PROVE  disk' = [disk EXCEPT ![f].temp = Truncated(f)]
    BY <1>3 DEF OpenTemp
  <1>4. ASSUME FillTemp(c)
        PROVE  \/ commands[c].fd = "temp" /\ disk' = [disk EXCEPT ![f].temp = t]
               \/ commands[c].fd = "final" /\ disk' = [disk EXCEPT ![f].final = t]
               \/ commands[c].fd = "gone" /\ disk' = disk
    BY <1>4, CommandParts DEF FillTemp, Commanding, WellFormed
  <1>5. ASSUME RenameTemp(c)
        PROVE  /\ disk' = [disk EXCEPT ![f] = [final |-> @.temp, temp |-> NoContent]]
               /\ disk[f].temp # NoContent
    BY <1>5 DEF RenameTemp
  <1>6. disk \in [Targets -> [final: Contents, temp: Contents]]
    BY DEF BootstrapTyped
  <1> HIDE DEF f, t
  <1>7. OpenTemp(c) =>
           /\ disk' \in [Targets -> [final: Contents, temp: Contents]]
           /\ disk'[f].temp = Truncated(f) /\ disk'[f].final = disk[f].final
           /\ \A g \in Targets \ {f} : disk'[g] = disk[g]
    BY <1>1, <1>2, <1>3, <1>6
  <1>8. FillTemp(c) =>
           /\ disk' \in [Targets -> [final: Contents, temp: Contents]]
           /\ disk'[f].temp \in {t, disk[f].temp}
           /\ disk'[f].final \in {t, disk[f].final}
           /\ commands[c].fd = "temp" =>
                 disk'[f].temp = t /\ disk'[f].final = disk[f].final
           /\ \A g \in Targets \ {f} : disk'[g] = disk[g]
    BY <1>1, <1>4, <1>6
  <1>9. RenameTemp(c) =>
           /\ disk' \in [Targets -> [final: Contents, temp: Contents]]
           /\ disk[f].temp # NoContent
           /\ disk'[f].final = disk[f].temp /\ disk'[f].temp = NoContent
           /\ \A g \in Targets \ {f} : disk'[g] = disk[g]
    BY <1>1, <1>5, <1>6, NoContent \in Contents DEF Contents
  <1> QED
    BY <1>1, <1>7, <1>8, <1>9 DEF f, t

\* A command's write, replacement or end leaves everything well typed.
LEMMA WriteTyped ==
    ASSUME BootstrapTyped, NEW c \in Commands,
           \/ OpenTemp(c) \/ FillTemp(c) \/ RenameTemp(c) \/ FailRename(c) \/ WriteReview(c)
           \/ KillCommand(c)
    PROVE  BootstrapTyped'
  <1> USE DEF BootstrapTyped
  <1>0. /\ commands[c] \in Commanding /\ WellFormed(commands[c])
        /\ NoCommand \in Commanding /\ WellFormed(NoCommand)
    BY CommandParts DEF NoCommand, Commanding, WellFormed, Planners, Targets
  <1>1. CASE OpenTemp(c)
    <2>1. Busy(c)
      BY <1>1 DEF OpenTemp, Busy
    <2>2. /\ {} \in Lines
          /\ Truncated("index") = {} /\ Truncated("checkpoint") = Broken
      BY DEF Lines, Truncated
    <2>4. /\ commands' \in [Commands -> Commanding]
          /\ \A d \in Commands : WellFormed(commands'[d])
      BY <1>0, <1>1 DEF OpenTemp, Commanding, WellFormed, Planners
    <2>5. commands[c].file = "checkpoint" \/ commands[c].file = "index"
      BY <2>1, BusyCommand
    <2>6. CASE commands[c].file = "checkpoint"
      <3>1. /\ disk' \in [Targets -> [final: Contents, temp: Contents]]
            /\ disk'["checkpoint"].temp = Broken
            /\ disk'["checkpoint"].final = disk["checkpoint"].final
            /\ disk'["index"] = disk["index"]
        BY <1>1, <2>1, <2>2, <2>6, DiskSteps DEF Targets
      <3> QED
        BY <1>1, <2>4, <3>1 DEF OpenTemp
    <2>7. CASE commands[c].file = "index"
      <3>1. /\ disk' \in [Targets -> [final: Contents, temp: Contents]]
            /\ disk'["index"].temp = Truncated("index")
            /\ disk'["index"].final = disk["index"].final
            /\ disk'["checkpoint"] = disk["checkpoint"]
        BY <1>1, <2>1, <2>7, DiskSteps DEF Targets
      <3> QED
        BY <1>1, <2>2, <2>4, <3>1 DEF OpenTemp
    <2> QED
      BY <2>5, <2>6, <2>7
  <1>2. CASE FillTemp(c)
    <2>1. Busy(c) /\ commands[c].step = "fill"
      BY <1>2 DEF FillTemp, Busy
    <2>2. /\ commands' \in [Commands -> Commanding]
          /\ \A d \in Commands : WellFormed(commands'[d])
      BY <1>0, <1>2 DEF FillTemp, Commanding, WellFormed, Planners
    <2>4. \/ commands[c].file = "checkpoint" /\ commands[c].text \in Checkpoint
          \/ commands[c].file = "index" /\ commands[c].text \in Lines
      BY <2>1, BusyCommand
    <2>5. CASE commands[c].file = "checkpoint" /\ commands[c].text \in Checkpoint
      BY <1>2, <2>1, <2>2, <2>5, DiskSteps DEF FillTemp, Targets
    <2>6. CASE commands[c].file = "index" /\ commands[c].text \in Lines
      BY <1>2, <2>1, <2>2, <2>6, DiskSteps DEF FillTemp, Targets
    <2> QED
      BY <2>4, <2>5, <2>6
  <1>3. CASE RenameTemp(c)
    <2> DEFINE u == commands[c]
               next == IF u.left = {} THEN NoCommand
                       ELSE [u EXCEPT !.step = "review", !.fd = "closed"]
    <2>1. /\ disk[u.file].temp # NoContent
          /\ disk' = [disk EXCEPT ![u.file] = [final |-> @.temp, temp |-> NoContent]]
          /\ commands' = [d \in Commands |->
               IF d = c THEN next
               ELSE IF commands[d].file = u.file
                    THEN [commands[d] EXCEPT !.fd = Moved(@)] ELSE commands[d]]
          /\ u.step = "rename"
      BY <1>3 DEF RenameTemp
    <2>2. u.left # {} => u.op \in Planners
      BY <1>0 DEF WellFormed
    <2>3. next \in Commanding /\ WellFormed(next)
      BY <1>0, <2>1, <2>2 DEF Commanding, WellFormed, Planners
    <2>4. ASSUME NEW d \in Commands
          PROVE  /\ [commands[d] EXCEPT !.fd = Moved(@)] \in Commanding
                 /\ WellFormed([commands[d] EXCEPT !.fd = Moved(@)])
      BY CommandParts DEF Moved, Commanding, WellFormed, Planners
    <2>5. /\ commands' \in [Commands -> Commanding]
          /\ \A d \in Commands : WellFormed(commands'[d])
      BY <2>1, <2>3, <2>4
    <2>6. u.file = "checkpoint" \/ u.file = "index"
      BY <1>0 DEF Commanding, Targets
    <2>9. Busy(c)
      BY <2>1 DEF Busy
    <2>7. CASE u.file = "checkpoint"
      BY <1>3, <2>5, <2>7, <2>9, DiskSteps DEF RenameTemp, Targets
    <2>8. CASE u.file = "index"
      BY <1>3, <2>5, <2>8, <2>9, DiskSteps DEF RenameTemp, Targets
    <2> QED
      BY <2>6, <2>7, <2>8
  <1>4. CASE FailRename(c) \/ KillCommand(c)
    <2>1. /\ commands' \in [Commands -> Commanding]
          /\ \A d \in Commands : WellFormed(commands'[d])
      BY <1>0, <1>4 DEF FailRename, KillCommand
    <2>2. Busy(c)
      BY <1>4 DEF FailRename, KillCommand, Busy
    <2>3. cut' \subseteq Runs
      BY <1>4, <2>2, BusyCommand DEF FailRename, KillCommand, Planners, Checkpoint
    <2> QED
      BY <1>4, <2>1, <2>3 DEF FailRename, KillCommand
  <1>5. CASE WriteReview(c)
    <2>1. PICK batch \in commands[c].left :
            /\ reviews' = reviews \union {<<commands[c].text.run, batch>>}
            /\ commands' = [commands EXCEPT ![c].left = @ \ {batch}, ![c].step = "open",
                                            ![c].text.written = @ + 1]
      BY <1>5 DEF WriteReview
    <2>2. /\ commands[c].op \in Planners /\ commands[c].text \in Checkpoint
          /\ commands[c].step = "review"
      BY <1>0, <1>5, <2>1, BusyCommand DEF WriteReview, Busy, Commanding, WellFormed
    <2>3. [commands[c].text EXCEPT !.written = @ + 1] \in Checkpoint
      BY <2>2 DEF Checkpoint
    <2>4. commands'[c] = [commands[c] EXCEPT !.left = @ \ {batch}, !.step = "open",
                            !.text = [commands[c].text EXCEPT !.written = @ + 1]]
      BY <2>1, <1>0
    <2>5. /\ commands' \in [Commands -> Commanding]
          /\ \A d \in Commands : WellFormed(commands'[d])
      BY <1>0, <2>1, <2>2, <2>3, <2>4 DEF Commanding, WellFormed, Planners
    <2>6. reviews' \subseteq Runs \X Batches
      BY <1>0, <2>1, <2>2 DEF Checkpoint, Commanding
    <2> QED
      BY <1>5, <2>5, <2>6 DEF WriteReview
  <1> QED
    BY <1>1, <1>2, <1>3, <1>4, <1>5

\* The types hold at the start.
LEMMA TypedInit == BootstrapInit => BootstrapTyped
  <1> SUFFICES ASSUME BootstrapInit PROVE BootstrapTyped
    OBVIOUS
  <1>1. /\ HandWritten \in Lines /\ NoContent \in Contents /\ HandWritten \in Contents
        /\ 1 \in Runs
    BY BootstrapAssumption DEF Lines, Contents, Runs
  <1>2. /\ disk \in [Targets -> [final: Contents, temp: Contents]]
        /\ disk["checkpoint"].final = NoContent /\ disk["checkpoint"].temp = NoContent
        /\ disk["index"].final = HandWritten /\ disk["index"].temp = NoContent
    BY <1>1 DEF BootstrapInit, Targets
  <1>3. NoCommand \in Commanding /\ WellFormed(NoCommand)
    BY DEF NoCommand, Commanding, WellFormed, Planners, Targets
  <1> QED
    BY <1>1, <1>2, <1>3 DEF BootstrapInit, BootstrapTyped, Contents

\* Every step keeps the types.
LEMMA TypedNext == BootstrapTyped /\ [BootstrapNext]_bootstrapVars => BootstrapTyped'
  <1> SUFFICES ASSUME BootstrapTyped, [BootstrapNext]_bootstrapVars PROVE BootstrapTyped'
    OBVIOUS
  <1>1. CASE BootstrapNext
    BY <1>1, BeginTyped, WriteTyped DEF BootstrapNext, CommandStep
  <1>2. CASE UNCHANGED bootstrapVars
    BY <1>2 DEF bootstrapVars, BootstrapTyped
  <1> QED
    BY <1>1, <1>2

\* The checkpoint, REKOL.md and their temporary files hold what they may hold, and every
\* command is at a step of its own (bootstrap_state.py:30-90, bootstrap.py:770-834).
THEOREM BootstrapIsTyped == BootstrapSpec => []BootstrapTypeOK
  <1>1. ASSUME BootstrapTyped PROVE BootstrapTypeOK
    <2>1. ASSUME NEW lines \in Lines
          PROVE  lines \notin {Broken, NoContent} /\ lines \subseteq Pointers \union HandWritten
      BY ContentAssumption DEF Lines
    <2>2. Holds("index", disk["index"].final)
      BY <1>1, <2>1 DEF BootstrapTyped, Holds
    <2>3. Holds("index", disk["index"].temp) \/ disk["index"].temp = NoContent
      BY <1>1, <2>1 DEF BootstrapTyped, Holds
    <2>4. /\ Holds("checkpoint", disk["checkpoint"].final)
             \/ disk["checkpoint"].final = NoContent
          /\ Holds("checkpoint", disk["checkpoint"].temp)
             \/ disk["checkpoint"].temp = NoContent
      BY <1>1 DEF BootstrapTyped, Holds
    <2>5. \A c \in Commands : commands[c] \in Commanding
      BY <1>1 DEF BootstrapTyped
    <2> QED
      BY <1>1, <2>2, <2>3, <2>4, <2>5
      DEF BootstrapTyped, BootstrapTypeOK, Commanding, Targets
  <1> QED
    BY <1>1, TypedInit, TypedNext, PTL DEF BootstrapSpec

-----------------------------------------------------------------------------
(* Who is alone at a file goes on from what it holds *)

\* What a step does to nobody else's file leaves the others alone at theirs.
LEMMA StaysAlone ==
    ASSUME BootstrapTyped, BootstrapTyped', NEW d \in Commands, Alone(d),
           Busy(d)' => Busy(d) /\ commands'[d] = commands[d],
           raced \subseteq raced',
           Busy(d) /\ commands[d].file \notin raced' =>
              /\ disk'[commands[d].file] = disk[commands[d].file]
              /\ \A e \in Commands \ {d} : Busy(e)' => commands'[e].file # commands[d].file
    PROVE  Alone(d)'
  <1> SUFFICES ASSUME Busy(d)', commands'[d].file \notin raced'
               PROVE  Alone(d)'
    BY DEF Alone
  <1>1. Busy(d) /\ commands'[d] = commands[d] /\ commands[d].file \notin raced'
    OBVIOUS
  <1>2. /\ disk'[commands[d].file] = disk[commands[d].file]
        /\ \A e \in Commands \ {d} : Busy(e)' => commands'[e].file # commands[d].file
        /\ commands[d].file \notin raced
    BY <1>1
  <1>3. /\ commands[d].op \in Planners \union {"mark"} => commands[d].file = "checkpoint"
        /\ commands[d].op = "promote" => commands[d].file = "index"
    BY CommandParts DEF WellFormed
  <1> QED
    BY <1>1, <1>2, <1>3 DEF Alone, Planners

\* A command begins: either somebody is at the same file, which is then raced for, or it
\* is alone, and its text goes on from the file.
LEMMA BeginAlone ==
    ASSUME AloneInv, NEW c \in Commands, PlanRun(c) \/ MarkBatchDone(c) \/ Promote(c)
    PROVE  AloneInv'
  <1> USE DEF AloneInv
  <1>1. BootstrapTyped'
    BY BeginTyped
  <1>2. /\ ~Busy(c) /\ disk' = disk
        /\ commands' = [commands EXCEPT ![c] = commands'[c]]
        /\ raced' = Races(c, commands'[c].file)
        /\ commands'[c].step = "open"
        /\ commands'[c].op = "plan" => disk["checkpoint"].final = NoContent
        /\ commands'[c].op = "promote" => disk["index"].final \subseteq commands'[c].text
        /\ commands'[c].op = "mark" =>
              /\ IsCheckpoint(disk["checkpoint"].final)
              /\ disk["checkpoint"].final.run = commands'[c].text.run
              /\ disk["checkpoint"].final.completed \subseteq commands'[c].text.completed
    <2>1. CASE PlanRun(c)
      <3>1. PICK reset \in BOOLEAN, sc \in Scopes, now \in {second, second + 1} \intersect Runs :
              /\ MayPlan(reset)
              /\ commands' = [commands EXCEPT ![c] =
                   [op |-> IF reset THEN "reset" ELSE "plan", step |-> "open",
                    file |-> "checkpoint", text |-> NewCheckpoint(now, sc),
                    left |-> Planned(sc), fd |-> "closed"]]
        BY <2>1 DEF PlanRun
      <3>2. commands'[c] = [op |-> IF reset THEN "reset" ELSE "plan", step |-> "open",
                    file |-> "checkpoint", text |-> NewCheckpoint(now, sc),
                    left |-> Planned(sc), fd |-> "closed"]
        BY <3>1 DEF BootstrapTyped
      <3>3. /\ commands'[c].op = IF reset THEN "reset" ELSE "plan"
            /\ commands'[c].step = "open" /\ commands'[c].file = "checkpoint"
        BY <3>2
      <3>4. /\ commands'[c].op # "promote" /\ commands'[c].op # "mark"
            /\ commands'[c].op = "plan" => disk["checkpoint"].final = NoContent
        BY <3>1, <3>3 DEF MayPlan
      <3>5. /\ ~Busy(c) /\ disk' = disk /\ raced' = Races(c, "checkpoint")
            /\ commands' = [commands EXCEPT ![c] = commands'[c]]
        BY <2>1, <3>1, <3>2 DEF PlanRun, BeginCommand
      <3> QED
        BY <3>3, <3>4, <3>5
    <2>2. CASE MarkBatchDone(c)
      <3> DEFINE state == disk["checkpoint"].final
      <3>1. PICK batch \in state.batches :
              commands' = [commands EXCEPT ![c] =
                [NoCommand EXCEPT !.op = "mark", !.step = "open",
                                  !.text = [state EXCEPT !.completed = @ \union {batch}]]]
        BY <2>2 DEF MarkBatchDone
      <3>2. IsCheckpoint(state) /\ state \in Checkpoint
        BY <2>2 DEF MarkBatchDone, IsCheckpoint, BootstrapTyped
      <3>3. commands'[c] = [NoCommand EXCEPT !.op = "mark", !.step = "open",
                              !.text = [state EXCEPT !.completed = @ \union {batch}]]
        BY <3>1 DEF BootstrapTyped
      <3>4. /\ commands'[c].op = "mark" /\ commands'[c].step = "open"
            /\ commands'[c].file = "checkpoint"
            /\ commands'[c].text = [state EXCEPT !.completed = @ \union {batch}]
        BY <3>3 DEF NoCommand
      <3>5. commands'[c].text.run = state.run /\ state.completed \subseteq commands'[c].text.completed
        BY <3>2, <3>4 DEF Checkpoint
      <3> QED
        BY <2>2, <3>1, <3>2, <3>3, <3>4, <3>5 DEF MarkBatchDone, BeginCommand
    <2>3. CASE Promote(c)
      <3>1. PICK p \in Pointers \ disk["index"].final :
              commands' = [commands EXCEPT ![c] =
                [NoCommand EXCEPT !.op = "promote", !.step = "open", !.file = "index",
                                  !.text = disk["index"].final \union {p}]]
        BY <2>3 DEF Promote
      <3>2. commands'[c] = [NoCommand EXCEPT !.op = "promote", !.step = "open",
                              !.file = "index", !.text = disk["index"].final \union {p}]
        BY <3>1 DEF BootstrapTyped
      <3>3. /\ commands'[c].op = "promote" /\ commands'[c].step = "open"
            /\ commands'[c].file = "index"
            /\ commands'[c].text = disk["index"].final \union {p}
        BY <3>2 DEF NoCommand
      <3> QED
        BY <2>3, <3>1, <3>2, <3>3 DEF Promote, BeginCommand
    <2> QED
      BY <2>1, <2>2, <2>3
  <1>3. \A d \in Commands \ {c} : commands'[d] = commands[d] /\ (Busy(d)' <=> Busy(d))
    BY <1>2 DEF Busy, BootstrapTyped
  <1>4. /\ raced \subseteq raced'
        /\ commands'[c].file \notin raced' =>
              \A d \in Commands \ {c} : Busy(d) => commands[d].file # commands'[c].file
    BY <1>2 DEF Races
  <1>5. Alone(c)'
    BY <1>2, <1>3, <1>4 DEF Alone
  <1>6. ASSUME NEW d \in Commands \ {c} PROVE Alone(d)'
    BY <1>1, <1>2, <1>3, <1>4, StaysAlone DEF Alone
  <1> QED
    BY <1>1, <1>5, <1>6

\* What a step of c after its first does to the commands.
LEMMA CommandSteps ==
    ASSUME BootstrapTyped, NEW c \in Commands
    PROVE  /\ OpenTemp(c) => commands' = [commands EXCEPT ![c].step = "fill", ![c].fd = "temp"]
           /\ FillTemp(c) => commands' = [commands EXCEPT ![c].step = "rename"]
           /\ FailRename(c) \/ KillCommand(c) => commands' = [commands EXCEPT ![c] = NoCommand]
           /\ OpenTemp(c) => \A d \in Commands \ {c} : commands'[d] = commands[d]
           /\ FillTemp(c) => \A d \in Commands \ {c} : commands'[d] = commands[d]
           /\ FailRename(c) => \A d \in Commands \ {c} : commands'[d] = commands[d]
           /\ WriteReview(c) => \A d \in Commands \ {c} : commands'[d] = commands[d]
           /\ KillCommand(c) => \A d \in Commands \ {c} : commands'[d] = commands[d]
           /\ RenameTemp(c) =>
                 \A d \in Commands \ {c} :
                    /\ commands'[d].op = commands[d].op /\ commands'[d].step = commands[d].step
                    /\ commands'[d].file = commands[d].file
                    /\ commands'[d].text = commands[d].text
                    /\ commands'[d].left = commands[d].left
                    /\ commands[d].file # commands[c].file => commands'[d] = commands[d]
  <1>1. \A d \in Commands : commands[d] \in Commanding
    BY CommandParts
  <1>2. commands \in [Commands -> Commanding]
    BY DEF BootstrapTyped
  <1>3. /\ OpenTemp(c) => \A d \in Commands \ {c} : commands'[d] = commands[d]
        /\ FillTemp(c) => \A d \in Commands \ {c} : commands'[d] = commands[d]
        /\ FailRename(c) => \A d \in Commands \ {c} : commands'[d] = commands[d]
        /\ KillCommand(c) => \A d \in Commands \ {c} : commands'[d] = commands[d]
        /\ WriteReview(c) => \A d \in Commands \ {c} : commands'[d] = commands[d]
    BY <1>2 DEF OpenTemp, FillTemp, FailRename, KillCommand, WriteReview
  <1>4. ASSUME RenameTemp(c), NEW d \in Commands \ {c}
        PROVE  commands'[d] = IF commands[d].file = commands[c].file
                              THEN [commands[d] EXCEPT !.fd = Moved(@)] ELSE commands[d]
    BY <1>4 DEF RenameTemp
  <1>5. ASSUME RenameTemp(c), NEW d \in Commands \ {c}
        PROVE  /\ commands'[d].op = commands[d].op /\ commands'[d].step = commands[d].step
               /\ commands'[d].file = commands[d].file
               /\ commands'[d].text = commands[d].text
               /\ commands'[d].left = commands[d].left
               /\ commands[d].file # commands[c].file => commands'[d] = commands[d]
    BY <1>1, <1>4, <1>5 DEF Commanding
  <1>6. /\ OpenTemp(c) => commands' = [commands EXCEPT ![c].step = "fill", ![c].fd = "temp"]
        /\ FillTemp(c) => commands' = [commands EXCEPT ![c].step = "rename"]
        /\ FailRename(c) \/ KillCommand(c) => commands' = [commands EXCEPT ![c] = NoCommand]
    BY DEF OpenTemp, FillTemp, FailRename, KillCommand
  <1> QED
    BY <1>3, <1>5, <1>6

\* No step of c touches what another command has in hand.
LEMMA OtherSteps ==
    ASSUME BootstrapTyped, NEW c \in Commands, NEW d \in Commands, d # c, CommandStep(c)
    PROVE  /\ commands'[d].op = commands[d].op /\ commands'[d].step = commands[d].step
           /\ commands'[d].file = commands[d].file /\ commands'[d].text = commands[d].text
           /\ commands'[d].left = commands[d].left
  <1>1. CASE PlanRun(c) \/ MarkBatchDone(c) \/ Promote(c)
    <2>1. commands'[d] = commands[d]
      BY <1>1 DEF PlanRun, MarkBatchDone, Promote, BootstrapTyped
    <2> QED
      BY <2>1
  <1>2. CASE RenameTemp(c)
    BY <1>2, CommandSteps
  <1>3. CASE OpenTemp(c) \/ FillTemp(c) \/ FailRename(c) \/ WriteReview(c) \/ KillCommand(c)
    <2>1. commands'[d] = commands[d]
      BY <1>3, CommandSteps
    <2> QED
      BY <2>1
  <1> QED
    BY <1>1, <1>2, <1>3 DEF CommandStep

\* What it does to its own entry.
LEMMA OwnSteps ==
    ASSUME BootstrapTyped, NEW c \in Commands
    PROVE  LET u == commands[c]
               v == commands'[c]
               Same == v.op = u.op /\ v.file = u.file /\ v.text = u.text /\ v.left = u.left
           IN /\ OpenTemp(c) => Same /\ v.step = "fill" /\ v.fd = "temp"
              /\ FillTemp(c) => Same /\ v.step = "rename" /\ v.fd = u.fd
              /\ RenameTemp(c) => \/ v = NoCommand /\ u.left = {}
                                  \/ Same /\ v.step = "review" /\ u.left # {}
              /\ FailRename(c) => v = NoCommand
              /\ KillCommand(c) => v = NoCommand
              /\ WriteReview(c) =>
                    /\ v.op = u.op /\ v.file = u.file /\ v.step = "open"
                    /\ u.op \in Planners /\ u.text \in Checkpoint
                    /\ v.text.run = u.text.run /\ v.text.completed = u.text.completed
                    /\ v.text.batches = u.text.batches
                    /\ v.text.written = u.text.written + 1
                    /\ \E batch \in u.left :
                          /\ v.left = u.left \ {batch}
                          /\ reviews' = reviews \union {<<u.text.run, batch>>}
  <1>1. /\ commands[c] \in Commanding /\ WellFormed(commands[c])
        /\ commands \in [Commands -> Commanding]
    BY CommandParts DEF BootstrapTyped
  <1> DEFINE u == commands[c]
             v == commands'[c]
             Same == v.op = u.op /\ v.file = u.file /\ v.text = u.text /\ v.left = u.left
  <1>2. OpenTemp(c) => Same /\ v.step = "fill" /\ v.fd = "temp"
    BY <1>1 DEF OpenTemp, Commanding
  <1>3. FillTemp(c) => Same /\ v.step = "rename" /\ v.fd = u.fd
    BY <1>1 DEF FillTemp, Commanding
  <1>4. RenameTemp(c) => \/ v = NoCommand /\ u.left = {}
                         \/ Same /\ v.step = "review" /\ u.left # {}
    <2> SUFFICES ASSUME RenameTemp(c)
                 PROVE  \/ v = NoCommand /\ u.left = {}
                        \/ Same /\ v.step = "review" /\ u.left # {}
      OBVIOUS
    <2>1. v = IF u.left = {} THEN NoCommand ELSE [u EXCEPT !.step = "review", !.fd = "closed"]
      BY DEF RenameTemp
    <2> QED
      BY <1>1, <2>1 DEF Commanding
  <1>5. (FailRename(c) => v = NoCommand) /\ (KillCommand(c) => v = NoCommand)
    BY <1>1 DEF FailRename, KillCommand
  <1>6. ASSUME WriteReview(c)
        PROVE  /\ v.op = u.op /\ v.file = u.file /\ v.step = "open"
               /\ u.op \in Planners /\ u.text \in Checkpoint
               /\ v.text.run = u.text.run /\ v.text.completed = u.text.completed
               /\ v.text.batches = u.text.batches
               /\ v.text.written = u.text.written + 1
               /\ \E batch \in u.left :
                     /\ v.left = u.left \ {batch}
                     /\ reviews' = reviews \union {<<u.text.run, batch>>}
    <2>1. PICK batch \in u.left :
            /\ reviews' = reviews \union {<<u.text.run, batch>>}
            /\ commands' = [commands EXCEPT ![c].left = @ \ {batch}, ![c].step = "open",
                                            ![c].text.written = @ + 1]
      BY <1>6 DEF WriteReview
    <2>2. u.op \in Planners /\ u.text \in Checkpoint
      BY <1>1, <1>6, <2>1, BusyCommand DEF WriteReview, Busy, WellFormed
    <2>3. v = [u EXCEPT !.left = @ \ {batch}, !.step = "open",
                        !.text = [u.text EXCEPT !.written = @ + 1]]
      BY <1>1, <2>1
    <2>4. /\ v.op = u.op /\ v.file = u.file /\ v.step = "open" /\ v.left = u.left \ {batch}
          /\ v.text = [u.text EXCEPT !.written = @ + 1]
      BY <1>1, <2>3 DEF Commanding
    <2>5. /\ v.text.run = u.text.run /\ v.text.completed = u.text.completed
          /\ v.text.batches = u.text.batches
          /\ v.text.written = u.text.written + 1
      BY <2>2, <2>4 DEF Checkpoint
    <2> QED
      BY <2>1, <2>2, <2>4, <2>5
  <1> QED
    BY <1>2, <1>3, <1>4, <1>5, <1>6

\* A command writes, replaces or ends: nobody else is at its file, or it is raced for.
LEMMA WriteAlone ==
    ASSUME AloneInv, NEW c \in Commands,
           \/ OpenTemp(c) \/ FillTemp(c) \/ RenameTemp(c) \/ FailRename(c) \/ WriteReview(c)
           \/ KillCommand(c)
    PROVE  AloneInv'
  <1> DEFINE f == commands[c].file
  <1> USE DEF AloneInv
  <1>1. BootstrapTyped' /\ raced' = raced
    BY WriteTyped DEF OpenTemp, FillTemp, RenameTemp, FailRename, WriteReview, KillCommand
  <1>2. Busy(c) /\ f \in Targets /\ \A g \in Targets \ {f} : disk'[g] = disk[g]
    <2>1. Busy(c)
      BY DEF OpenTemp, FillTemp, RenameTemp, FailRename, WriteReview, KillCommand, Busy
    <2> QED
      BY <2>1, DiskSteps DEF FailRename, WriteReview, KillCommand
  <1>3. \A d \in Commands \ {c} :
           /\ commands'[d].step = commands[d].step /\ commands'[d].file = commands[d].file
           /\ commands[d].file # f => commands'[d] = commands[d]
    BY CommandSteps
  <1>4. Busy(c)' => commands'[c].file = f
    BY OwnSteps DEF NoCommand, Busy
  <1>5. ASSUME NEW d \in Commands \ {c} PROVE Alone(d)'
    <2>1. SUFFICES ASSUME Busy(d), commands[d].file \notin raced
                   PROVE  Alone(d)'
      BY <1>1, <1>3 DEF Alone, Busy
    <2>2. commands[d].file # f /\ commands'[d] = commands[d]
      BY <1>2, <1>3, <2>1 DEF Alone
    <2>3. disk'[commands[d].file] = disk[commands[d].file]
      BY <1>2, <2>2, CommandParts
    <2>4. \A e \in Commands \ {d} : Busy(e)' => commands'[e].file # commands[d].file
      BY <1>3, <1>4, <2>1, <2>2 DEF Alone, Busy
    <2> QED
      BY <1>1, <2>1, <2>2, <2>3, <2>4, StaysAlone
  <1>6. Alone(c)'
    <2> SUFFICES ASSUME Busy(c)', f \notin raced PROVE Alone(c)'
      BY <1>1, <1>4 DEF Alone
    <2>1. \A d \in Commands \ {c} : Busy(d)' => commands'[d].file # f
      BY <1>2, <1>3 DEF Alone, Busy
    <2>2. /\ commands[c].op \in Planners \union {"mark"} => f = "checkpoint"
          /\ commands[c].op = "promote" => f = "index"
          /\ commands[c].op \notin Planners => commands[c].left = {}
      BY CommandParts DEF WellFormed
    <2>3. CASE OpenTemp(c)
      <3>1. disk'[f].final = disk[f].final
        BY <1>2, <2>3, DiskSteps
      <3> QED
        BY <1>2, <2>1, <2>2, <2>3, <3>1, OwnSteps DEF Alone, Planners
    <2>4. CASE FillTemp(c)
      <3>1. commands[c].fd = "temp"
        BY <1>2, <2>4 DEF Alone, FillTemp
      <3>2. disk'[f].final = disk[f].final /\ disk'[f].temp = commands[c].text
        BY <1>2, <2>4, <3>1, DiskSteps
      <3> QED
        BY <1>2, <2>1, <2>2, <2>4, <3>1, <3>2, OwnSteps DEF Alone, Planners
    <2>5. CASE RenameTemp(c)
      <3>1. commands[c].op \in Planners /\ commands'[c].step = "review"
            /\ commands'[c].op = commands[c].op /\ commands'[c].text = commands[c].text
            /\ commands'[c].file = f
        BY <2>2, <2>5, OwnSteps DEF Busy, NoCommand
      <3>2. disk'[f].final = commands[c].text
        BY <1>2, <2>5, DiskSteps DEF Alone, RenameTemp
      <3>3. f = "checkpoint" /\ IsCheckpoint(commands[c].text)
        BY <1>2, <2>2, <3>1, BusyCommand, ContentAssumption DEF IsCheckpoint, Planners
      <3> QED
        BY <2>1, <3>1, <3>2, <3>3 DEF Alone, Planners
    <2>6. CASE FailRename(c) \/ KillCommand(c)
      BY <2>6, OwnSteps DEF Busy, NoCommand
    <2>7. CASE WriteReview(c)
      <3>1. disk' = disk
        BY <2>7 DEF WriteReview
      <3> QED
        BY <1>2, <2>1, <2>2, <2>7, <3>1, OwnSteps DEF Alone, Planners
    <2> QED
      BY <2>3, <2>4, <2>5, <2>6, <2>7
  <1> QED
    BY <1>1, <1>5, <1>6

\* At the start nobody is at a file.
LEMMA AloneInit == BootstrapInit => AloneInv
  BY TypedInit DEF BootstrapInit, AloneInv, Alone, Busy, NoCommand

\* Every step keeps it.
LEMMA AloneNext == AloneInv /\ [BootstrapNext]_bootstrapVars => AloneInv'
  <1> SUFFICES ASSUME AloneInv, [BootstrapNext]_bootstrapVars PROVE AloneInv'
    OBVIOUS
  <1>1. CASE BootstrapNext
    BY <1>1, BeginAlone, WriteAlone DEF BootstrapNext, CommandStep
  <1>2. CASE UNCHANGED bootstrapVars
    <2>1. BootstrapTyped'
      BY TypedNext DEF AloneInv
    <2> QED
      BY <1>2, <2>1 DEF bootstrapVars, AloneInv, Alone, Busy
  <1> QED
    BY <1>1, <1>2

\* A file that nobody races for changes in one way: a command that goes on from what it
\* holds replaces it with its text.
LEMMA Replacement ==
    ASSUME AloneInv, [BootstrapNext]_bootstrapVars, NEW f \in Targets,
           disk'[f].final # disk[f].final, f \notin raced'
    PROVE  \E c \in Commands : /\ RenameTemp(c) /\ Busy(c) /\ f \notin raced
                               /\ commands[c].file = f /\ commands[c].step = "rename"
                               /\ disk'[f].final = commands[c].text
  <1>1. PICK c \in Commands : CommandStep(c)
    BY DEF bootstrapVars, BootstrapNext
  <1>2. OpenTemp(c) \/ FillTemp(c) \/ RenameTemp(c)
    BY <1>1 DEF CommandStep, PlanRun, MarkBatchDone, Promote, FailRename, WriteReview, KillCommand
  <1>3. Busy(c) /\ raced' = raced /\ BootstrapTyped /\ Alone(c)
    BY <1>2 DEF OpenTemp, FillTemp, RenameTemp, Busy, AloneInv
  <1>4. commands[c].file = f
    BY <1>2, <1>3, DiskSteps
  <1>5. ~OpenTemp(c)
    BY <1>3, <1>4, DiskSteps
  <1>6. ~FillTemp(c)
    <2> SUFFICES ASSUME FillTemp(c) PROVE FALSE
      OBVIOUS
    <2>1. commands[c].fd = "temp"
      BY <1>3, <1>4 DEF Alone, FillTemp
    <2> QED
      BY <1>3, <1>4, <2>1, DiskSteps
  <1>7. disk'[f].final = disk[f].temp /\ commands[c].step = "rename"
    BY <1>2, <1>3, <1>4, <1>5, <1>6, DiskSteps DEF RenameTemp
  <1> QED
    BY <1>2, <1>3, <1>4, <1>5, <1>6, <1>7 DEF Alone

\* Unless two commands change the checkpoint at once, no kill and no command but --reset
\* takes a completed batch, or the plan, out of it: whoever replaces the checkpoint is
\* alone at it from its first look at it on (bootstrap_state.py:127-145).
THEOREM ProgressIsKept == BootstrapSpec => ProgressKept
  <1>1. ASSUME AloneInv, [BootstrapNext]_bootstrapVars,
               IsCheckpoint(disk["checkpoint"].final), "checkpoint" \notin raced',
               disk'["checkpoint"].final # disk["checkpoint"].final
        PROVE  /\ IsCheckpoint(disk'["checkpoint"].final)
               /\ \/ /\ disk'["checkpoint"].final.run = disk["checkpoint"].final.run
                     /\ disk["checkpoint"].final.completed
                           \subseteq disk'["checkpoint"].final.completed
                  \/ \E c \in Commands : commands[c].op = "reset" /\ commands[c].step = "rename"
    <2>1. PICK c \in Commands :
            /\ RenameTemp(c) /\ Busy(c) /\ "checkpoint" \notin raced
            /\ commands[c].file = "checkpoint" /\ commands[c].step = "rename"
            /\ disk'["checkpoint"].final = commands[c].text
      BY <1>1, Replacement DEF Targets
    <2>2. /\ commands[c].op \in {"plan", "reset", "mark"} /\ commands[c].text \in Checkpoint
          /\ Alone(c)
      BY <1>1, <2>1, BusyCommand DEF AloneInv, Planners
    <2>3. IsCheckpoint(commands[c].text)
      BY <2>2, ContentAssumption DEF IsCheckpoint
    <2>4. disk["checkpoint"].final # NoContent
      BY <1>1 DEF IsCheckpoint
    <2> QED
      BY <2>1, <2>2, <2>3, <2>4 DEF Alone
  <1>2. AloneInv /\ [BootstrapNext]_bootstrapVars
          => [LET old == disk["checkpoint"].final
                  new == disk'["checkpoint"].final
              IN (IsCheckpoint(old) /\ "checkpoint" \notin raced' /\ new # old)
                 => /\ IsCheckpoint(new)
                    /\ \/ new.run = old.run /\ old.completed \subseteq new.completed
                       \/ \E c \in Commands :
                             commands[c].op = "reset" /\ commands[c].step = "rename"
             ]_bootstrapVars
    BY <1>1
  <1> QED
    BY <1>2, AloneInit, AloneNext, PTL DEF BootstrapSpec, ProgressKept

-----------------------------------------------------------------------------
(* The budget of REKOL.md *)

\* Whatever is, or is about to be, in REKOL.md is within its budget.
LEMMA BudgetNext ==
    BootstrapTyped /\ BudgetInv /\ [BootstrapNext]_bootstrapVars => BudgetInv'
  <1> SUFFICES ASSUME BootstrapTyped, BudgetInv, [BootstrapNext]_bootstrapVars
               PROVE  BudgetInv'
    OBVIOUS
  <1>1. ASSUME NEW c \in Commands, CommandStep(c) PROVE BudgetInv'
    <2>0. \A d \in Commands : commands[d].op = "promote"
                => Cardinality(commands[d].text) <= Budget
      BY DEF BudgetInv
    <2>1. CASE PlanRun(c) \/ MarkBatchDone(c)
      <3>1. disk' = disk /\ \A d \in Commands \ {c} : commands'[d] = commands[d]
        BY <2>1 DEF PlanRun, MarkBatchDone, BootstrapTyped
      <3>2. commands'[c].op # "promote"
        <4>1. CASE PlanRun(c)
          <5>1. \E reset \in BOOLEAN : commands'[c].op = IF reset THEN "reset" ELSE "plan"
            BY <4>1 DEF PlanRun, BootstrapTyped
          <5> QED
            BY <5>1
        <4>2. CASE MarkBatchDone(c)
          BY <4>2 DEF MarkBatchDone, BootstrapTyped, NoCommand
        <4> QED
          BY <2>1, <4>1, <4>2
      <3> QED
        BY <3>1, <3>2 DEF BudgetInv
    <2>2. CASE Promote(c)
      <3>1. PICK p \in Pointers :
              /\ Fits(disk["index"].final \union {p})
              /\ commands' = [commands EXCEPT ![c] =
                   [NoCommand EXCEPT !.op = "promote", !.step = "open", !.file = "index",
                                     !.text = disk["index"].final \union {p}]]
        BY <2>2 DEF Promote
      <3>2. /\ disk' = disk /\ \A d \in Commands \ {c} : commands'[d] = commands[d]
            /\ commands'[c].text = disk["index"].final \union {p}
        BY <2>2, <3>1 DEF Promote, BootstrapTyped, NoCommand
      <3> QED
        BY <3>1, <3>2 DEF BudgetInv, Fits
    <2>3. CASE OpenTemp(c)
      <3>1. /\ disk'["index"].final = disk["index"].final
            /\ disk'["index"].temp \in {disk["index"].temp, {}}
        BY <2>3, DiskSteps DEF OpenTemp, Busy, Targets, Truncated
      <3>2. \A d \in Commands :
               commands'[d].op = commands[d].op /\ commands'[d].text = commands[d].text
        BY <2>3, CommandSteps, OwnSteps
      <3>3. Cardinality({}) <= Budget
        BY FS_EmptySet, BootstrapAssumption
      <3> QED
        BY <3>1, <3>2, <3>3 DEF BudgetInv
    <2>4. CASE FillTemp(c)
      <3>1. \A d \in Commands :
               commands'[d].op = commands[d].op /\ commands'[d].text = commands[d].text
        BY <2>4, CommandSteps, OwnSteps
      <3>2. Busy(c)
        BY <2>4 DEF FillTemp, Busy
      <3>3. CASE commands[c].op = "promote" /\ commands[c].file = "index"
        BY <2>4, <3>1, <3>2, <3>3, DiskSteps DEF BudgetInv, Targets
      <3>4. CASE commands[c].file = "checkpoint"
        BY <2>4, <3>1, <3>2, <3>4, DiskSteps DEF BudgetInv, Targets
      <3> QED
        BY <3>2, <3>3, <3>4, BusyCommand
    <2>5. CASE RenameTemp(c)
      <3>1. ASSUME NEW d \in Commands
            PROVE  \/ commands'[d] = NoCommand
                   \/ commands'[d].op = commands[d].op /\ commands'[d].text = commands[d].text
        BY <2>5, CommandSteps, OwnSteps
      <3>2. Busy(c)
        BY <2>5 DEF RenameTemp, Busy
      <3>3. \/ disk'["index"] = disk["index"]
            \/ /\ disk["index"].temp # NoContent
               /\ disk'["index"].final = disk["index"].temp
               /\ disk'["index"].temp = NoContent
        BY <2>5, <3>2, DiskSteps DEF Targets
      <3> QED
        BY <3>1, <3>3 DEF BudgetInv, NoCommand
    <2>6. CASE FailRename(c) \/ WriteReview(c) \/ KillCommand(c)
      <3>1. disk' = disk /\ \A d \in Commands \ {c} : commands'[d] = commands[d]
        BY <2>6, CommandSteps DEF FailRename, WriteReview, KillCommand
      <3>2. commands'[c].op # "promote"
        BY <2>6, OwnSteps DEF NoCommand, Planners
      <3> QED
        BY <3>1, <3>2 DEF BudgetInv
    <2> QED
      BY <1>1, <2>1, <2>2, <2>3, <2>4, <2>5, <2>6 DEF CommandStep
  <1>2. CASE UNCHANGED bootstrapVars
    BY <1>2 DEF bootstrapVars, BudgetInv
  <1> QED
    BY <1>1, <1>2 DEF BootstrapNext

\* REKOL.md never outgrows its budget, even when promotions interleave, since each
\* replaces it by a text that fits; and unless two commands are at it at once, it loses
\* no line (bootstrap.py:770-834).
THEOREM AlwaysOnIsKept == BootstrapSpec => AlwaysOnKept
  <1> DEFINE Inv == AloneInv /\ BudgetInv
  <1>1. BootstrapInit => Inv
    <2> SUFFICES ASSUME BootstrapInit PROVE BudgetInv
      BY AloneInit
    <2> QED
      BY BootstrapAssumption DEF BootstrapInit, BudgetInv, Targets, NoCommand
  <1>2. Inv /\ [BootstrapNext]_bootstrapVars => Inv'
    BY AloneNext, BudgetNext DEF AloneInv
  <1>3. ASSUME AloneInv, BudgetInv, BudgetInv', [BootstrapNext]_bootstrapVars
        PROVE  /\ Cardinality(disk'["index"].final) <= Budget
               /\ "index" \notin raced' => disk["index"].final \subseteq disk'["index"].final
    <2>1. Cardinality(disk'["index"].final) <= Budget
      BY <1>3 DEF BudgetInv
    <2>2. ASSUME "index" \notin raced', disk'["index"].final # disk["index"].final
          PROVE  disk["index"].final \subseteq disk'["index"].final
      <3>1. PICK c \in Commands :
              /\ Busy(c) /\ "index" \notin raced
              /\ commands[c].file = "index" /\ commands[c].step = "rename"
              /\ disk'["index"].final = commands[c].text
        BY <1>3, <2>2, Replacement DEF Targets
      <3> QED
        BY <1>3, <3>1, BusyCommand DEF AloneInv, Alone
    <2> QED
      BY <2>1, <2>2
  <1>4. Inv /\ Inv' /\ [BootstrapNext]_bootstrapVars
          => [LET old == disk["index"].final
                  new == disk'["index"].final
              IN /\ Cardinality(new) <= Budget
                 /\ "index" \notin raced' => old \subseteq new]_bootstrapVars
    BY <1>3
  <1> HIDE DEF Inv
  <1> QED
    BY <1>1, <1>2, <1>4, PTL DEF BootstrapSpec, AlwaysOnKept

-----------------------------------------------------------------------------
(* What a checkpoint counts is on disk *)

\* More review files leave more written, and more of them counted.
LEMMA MoreWritten ==
    ASSUME NEW files, NEW more, files \subseteq more, NEW run
    PROVE  /\ WrittenIn(files, run) \subseteq WrittenIn(more, run)
           /\ IsFiniteSet(WrittenIn(more, run))
           /\ Cardinality(WrittenIn(files, run)) \in Nat
           /\ Cardinality(WrittenIn(files, run)) <= Cardinality(WrittenIn(more, run))
  <1>1. /\ WrittenIn(files, run) \subseteq WrittenIn(more, run)
        /\ WrittenIn(more, run) \subseteq Batches /\ WrittenIn(files, run) \subseteq Batches
    BY DEF WrittenIn
  <1>2. IsFiniteSet(WrittenIn(more, run)) /\ IsFiniteSet(WrittenIn(files, run))
    BY <1>1, FS_Subset, BootstrapAssumption
  <1> QED
    BY <1>1, <1>2, FS_Subset, FS_CardinalityType

\* What is accounted for stays so, as long as every planner goes on, is noted as cut
\* short, or has written every review file of its plan.
LEMMA StaysAccounted ==
    ASSUME NEW files, NEW more, files \subseteq more, NEW short, NEW shorter, short \subseteq shorter,
           NEW running, NEW next,
           \A c \in Commands :
              running[c].op \in Planners =>
                 \/ /\ next[c].op \in Planners
                    /\ next[c].text.run = running[c].text.run
                    /\ next[c].text.batches = running[c].text.batches
                 \/ running[c].text.run \in shorter
                 \/ running[c].text.batches \subseteq WrittenIn(more, running[c].text.run),
           NEW k, k.written \in Nat, AccountedBy(k, files, running, short)
    PROVE  AccountedBy(k, more, next, shorter)
  <1>1. /\ WrittenIn(files, k.run) \subseteq WrittenIn(more, k.run)
        /\ Cardinality(WrittenIn(files, k.run)) \in Nat
        /\ Cardinality(WrittenIn(more, k.run)) \in Nat
        /\ Cardinality(WrittenIn(files, k.run)) <= Cardinality(WrittenIn(more, k.run))
    BY MoreWritten, FS_CardinalityType
  <1>2. k.written <= Cardinality(WrittenIn(more, k.run))
    BY <1>1 DEF AccountedBy
  <1> QED
    BY <1>1, <1>2 DEF AccountedBy

\* One more review file of a plan is written, and counted.
LEMMA CountedOnce ==
    ASSUME NEW batches, batches \subseteq Batches, NEW left, left \subseteq batches,
           NEW batch, batch \in left,
           NEW files, NEW run, batches \ left \subseteq WrittenIn(files, run)
    PROVE  /\ batches \ (left \ {batch}) \subseteq WrittenIn(files \union {<<run, batch>>}, run)
           /\ Cardinality(batches \ (left \ {batch})) = Cardinality(batches \ left) + 1
  <1> DEFINE more == files \union {<<run, batch>>}
  <1>1. batches \ (left \ {batch}) = (batches \ left) \union {batch} /\ batch \notin batches \ left
    OBVIOUS
  <1>2. IsFiniteSet(batches \ left)
    BY FS_Subset, BootstrapAssumption
  <1>3. Cardinality(batches \ (left \ {batch})) = Cardinality(batches \ left) + 1
    BY <1>1, <1>2, FS_AddElement
  <1>4. batches \ (left \ {batch}) \subseteq WrittenIn(more, run)
    BY <1>1 DEF WrittenIn
  <1> QED
    BY <1>3, <1>4

\* The entries of the commands that c's step is not about; and what c begins with.
LEMMA BeginSteps ==
    ASSUME BootstrapTyped, NEW c \in Commands, PlanRun(c) \/ MarkBatchDone(c) \/ Promote(c)
    PROVE  LET v == commands'[c] IN
           /\ disk' = disk /\ reviews' = reviews /\ cut' = cut /\ commands[c].op = "none"
           /\ \A d \in Commands \ {c} : commands'[d] = commands[d]
           /\ PlanRun(c) => /\ v.op \in Planners /\ v.text \in Checkpoint
                            /\ v.text.written = 0 /\ v.left = v.text.batches
           /\ MarkBatchDone(c) =>
                 LET k == disk["checkpoint"].final IN
                 /\ v.op = "mark" /\ IsCheckpoint(k) /\ k \in Checkpoint
                 /\ v.text.run = k.run /\ v.text.batches = k.batches
                 /\ v.text.written = k.written
           /\ Promote(c) => v.op = "promote"
  <1>1. /\ disk' = disk /\ reviews' = reviews /\ cut' = cut /\ ~Busy(c)
        /\ \A d \in Commands \ {c} : commands'[d] = commands[d]
    BY DEF PlanRun, MarkBatchDone, Promote, BeginCommand, BootstrapTyped
  <1>2. commands[c].op = "none"
    BY <1>1, CommandParts DEF Busy, WellFormed
  <1>3. ASSUME PlanRun(c)
        PROVE  /\ commands'[c].op \in Planners /\ commands'[c].text \in Checkpoint
               /\ commands'[c].text.written = 0
               /\ commands'[c].left = commands'[c].text.batches
    <2>1. PICK reset \in BOOLEAN, sc \in Scopes, now \in {second, second + 1} \intersect Runs :
            commands' = [commands EXCEPT ![c] =
                 [op |-> IF reset THEN "reset" ELSE "plan", step |-> "open",
                  file |-> "checkpoint", text |-> NewCheckpoint(now, sc),
                  left |-> Planned(sc), fd |-> "closed"]]
      BY <1>3 DEF PlanRun
    <2>2. commands'[c] = [op |-> IF reset THEN "reset" ELSE "plan", step |-> "open",
                  file |-> "checkpoint", text |-> NewCheckpoint(now, sc),
                  left |-> Planned(sc), fd |-> "closed"]
      BY <2>1 DEF BootstrapTyped
    <2>3. /\ commands'[c].op = IF reset THEN "reset" ELSE "plan"
          /\ commands'[c].text = NewCheckpoint(now, sc)
          /\ commands'[c].left = Planned(sc)
      BY <2>2
    <2>4. /\ NewCheckpoint(now, sc) \in Checkpoint
          /\ NewCheckpoint(now, sc).written = 0
          /\ NewCheckpoint(now, sc).batches = Planned(sc)
      BY NewCheckpointTyped DEF NewCheckpoint
    <2> QED
      BY <2>3, <2>4 DEF Planners
  <1>4. ASSUME MarkBatchDone(c)
        PROVE  LET k == disk["checkpoint"].final IN
               /\ commands'[c].op = "mark" /\ IsCheckpoint(k) /\ k \in Checkpoint
               /\ commands'[c].text.run = k.run /\ commands'[c].text.batches = k.batches
               /\ commands'[c].text.written = k.written
    <2> DEFINE k == disk["checkpoint"].final
    <2>1. PICK batch \in k.batches :
            commands' = [commands EXCEPT ![c] =
              [NoCommand EXCEPT !.op = "mark", !.step = "open",
                                !.text = [k EXCEPT !.completed = @ \union {batch}]]]
      BY <1>4 DEF MarkBatchDone
    <2>2. commands'[c] = [NoCommand EXCEPT !.op = "mark", !.step = "open",
                            !.text = [k EXCEPT !.completed = @ \union {batch}]]
      BY <2>1 DEF BootstrapTyped
    <2>3. /\ commands'[c].op = "mark"
          /\ commands'[c].text = [k EXCEPT !.completed = @ \union {batch}]
      BY <2>2 DEF NoCommand
    <2>4. IsCheckpoint(k) /\ k \in Checkpoint
      BY <1>4 DEF MarkBatchDone, IsCheckpoint, BootstrapTyped
    <2> QED
      BY <2>3, <2>4 DEF Checkpoint
  <1>5. Promote(c) => commands'[c].op = "promote"
    BY DEF Promote, BootstrapTyped, NoCommand
  <1> QED
    BY <1>1, <1>2, <1>3, <1>4, <1>5

\* Every step keeps the counts of the planners.
LEMMA CountingNext ==
    ASSUME BootstrapTyped, NEW c \in Commands, CommandStep(c),
           \A d \in Commands : Counting(commands[d], reviews)
    PROVE  \A d \in Commands : Counting(commands'[d], reviews')
  <1>1. reviews \subseteq reviews'
    BY DEF CommandStep, PlanRun, MarkBatchDone, Promote, OpenTemp, FillTemp, RenameTemp,
           FailRename, WriteReview, KillCommand
  <1>2. ASSUME NEW d \in Commands, \/ commands'[d].op \notin Planners
                                   \/ /\ commands'[d].op = commands[d].op
                                      /\ commands'[d].text = commands[d].text
                                      /\ commands'[d].left = commands[d].left
        PROVE  Counting(commands'[d], reviews')
    BY <1>1, <1>2 DEF Counting, WrittenIn
  <1>3. CASE PlanRun(c) \/ MarkBatchDone(c) \/ Promote(c)
    <2>1. Cardinality({}) = 0
      BY FS_EmptySet
    <2>2. CASE PlanRun(c)
      <3>1. Counting(commands'[c], reviews')
        <4>1. commands'[c].text.batches \ commands'[c].left = {}
          BY <2>2, BeginSteps
        <4> QED
          BY <2>1, <2>2, <4>1, BeginSteps DEF Counting
      <3> QED
        BY <1>2, <2>2, <3>1, BeginSteps
    <2>3. CASE MarkBatchDone(c) \/ Promote(c)
      BY <1>2, <2>3, BeginSteps DEF Planners
    <2> QED
      BY <1>3, <2>2, <2>3
  <1>4. CASE \/ OpenTemp(c) \/ FillTemp(c) \/ RenameTemp(c) \/ FailRename(c) \/ KillCommand(c)
    <2>1. ASSUME NEW d \in Commands \ {c}
          PROVE  /\ commands'[d].op = commands[d].op /\ commands'[d].text = commands[d].text
                 /\ commands'[d].left = commands[d].left
      BY <1>4, CommandSteps
    <2>2. \/ commands'[c].op \notin Planners
          \/ /\ commands'[c].op = commands[c].op /\ commands'[c].text = commands[c].text
             /\ commands'[c].left = commands[c].left
      BY <1>4, OwnSteps DEF NoCommand, Planners
    <2> QED
      BY <1>2, <2>1, <2>2
  <1>5. CASE WriteReview(c)
    <2> DEFINE u == commands[c]
    <2>1. PICK batch \in u.left :
            /\ commands'[c].left = u.left \ {batch}
            /\ reviews' = reviews \union {<<u.text.run, batch>>}
      BY <1>5, OwnSteps
    <2>2. /\ u.op \in Planners /\ u.text \in Checkpoint
          /\ commands'[c].text.run = u.text.run /\ commands'[c].text.batches = u.text.batches
          /\ commands'[c].text.written = u.text.written + 1
      BY <1>5, OwnSteps
    <2>3. /\ u.text.batches \subseteq Batches /\ u.left \subseteq u.text.batches
          /\ u.text.written = Cardinality(u.text.batches \ u.left)
          /\ u.text.batches \ u.left \subseteq WrittenIn(reviews, u.text.run)
      BY <2>2 DEF Checkpoint, Counting
    <2>4. Counting(commands'[c], reviews')
      <3>1. /\ u.text.batches \ (u.left \ {batch})
                  \subseteq WrittenIn(reviews \union {<<u.text.run, batch>>}, u.text.run)
            /\ u.text.written + 1 = Cardinality(u.text.batches \ (u.left \ {batch}))
        <4>1. PICK run, left, batches, files :
                /\ run = u.text.run /\ left = u.left /\ batches = u.text.batches
                /\ files = reviews
          OBVIOUS
        <4>2. /\ batches \subseteq Batches /\ left \subseteq batches /\ batch \in left
              /\ batches \ left \subseteq WrittenIn(files, run)
          BY <2>1, <2>3, <4>1
        <4>3. /\ batches \ (left \ {batch}) \subseteq WrittenIn(files \union {<<run, batch>>}, run)
              /\ Cardinality(batches \ (left \ {batch})) = Cardinality(batches \ left) + 1
          BY <4>2, CountedOnce
        <4> QED
          BY <2>3, <4>1, <4>3
      <3>2. u.left \ {batch} \subseteq u.text.batches
        BY <2>3
      <3> HIDE DEF u
      <3> QED
        BY <2>1, <2>2, <3>1, <3>2 DEF Counting
    <2>5. \A d \in Commands \ {c} : commands'[d] = commands[d]
      BY <1>5, CommandSteps
    <2> QED
      BY <1>2, <2>4, <2>5
  <1> QED
    BY <1>3, <1>4, <1>5 DEF CommandStep

\* Every step keeps what the checkpoints count, and who is at them.
LEMMA PlanNext == BootstrapTyped /\ PlanInv /\ [BootstrapNext]_bootstrapVars => PlanInv'
  <1> SUFFICES ASSUME BootstrapTyped, PlanInv, [BootstrapNext]_bootstrapVars PROVE PlanInv'
    OBVIOUS
  <1>1. ASSUME NEW c \in Commands, CommandStep(c) PROVE PlanInv'
    <2> USE <1>1
    <2>0. /\ BootstrapTyped' /\ \A d \in Commands : Counting(commands'[d], reviews')
      BY TypedNext, CountingNext DEF PlanInv, BootstrapNext
    <2>1. reviews \subseteq reviews' /\ cut \subseteq cut'
      BY DEF CommandStep, PlanRun, MarkBatchDone, Promote, OpenTemp, FillTemp, RenameTemp,
             FailRename, WriteReview, KillCommand
    <2>2. ASSUME NEW d \in Commands, commands[d].op \in Planners
          PROVE  \/ /\ commands'[d].op \in Planners
                    /\ commands'[d].text.run = commands[d].text.run
                    /\ commands'[d].text.batches = commands[d].text.batches
                 \/ commands[d].text.run \in cut'
                 \/ commands[d].text.batches \subseteq WrittenIn(reviews', commands[d].text.run)
      <3>1. CASE PlanRun(c) \/ MarkBatchDone(c) \/ Promote(c)
        <4>1. commands[c].op = "none" /\ \A e \in Commands \ {c} : commands'[e] = commands[e]
          BY <3>1, BeginSteps
        <4> QED
          BY <2>2, <4>1 DEF Planners
      <3>2. CASE d # c
        BY <2>2, <3>2, OtherSteps
      <3>3. CASE d = c /\ (OpenTemp(c) \/ FillTemp(c) \/ WriteReview(c))
        BY <2>2, <3>3, OwnSteps
      <3>4. CASE d = c /\ (FailRename(c) \/ KillCommand(c))
        BY <2>2, <3>4 DEF FailRename, KillCommand, Planners
      <3>5. CASE d = c /\ RenameTemp(c)
        <4>1. CASE commands[c].left = {}
          <5>1. commands[c].text.batches \subseteq WrittenIn(reviews, commands[c].text.run)
            BY <2>2, <3>5, <4>1 DEF PlanInv, Counting
          <5> QED
            BY <2>1, <3>5, <5>1 DEF WrittenIn
        <4> QED
          BY <2>2, <3>5, <4>1, OwnSteps
      <3> QED
        BY <3>1, <3>2, <3>3, <3>4, <3>5 DEF CommandStep
    <2>3. ASSUME NEW k \in Checkpoint, Accounted(k)
          PROVE  AccountedBy(k, reviews', commands', cut')
      <3>1. k.written \in Nat
        BY DEF Checkpoint
      <3> QED
        BY <2>1, <2>2, <2>3, <3>1, StaysAccounted DEF Accounted
    <2>4. ASSUME NEW d \in Commands, commands'[d].op \in Planners \union {"mark"}
          PROVE  AccountedBy(commands'[d].text, reviews', commands', cut')
      <3>1. commands'[d].text \in Checkpoint
        BY <2>0, <2>4 DEF BootstrapTyped, WellFormed
      <3>2. CASE /\ commands'[d].op = commands[d].op /\ commands'[d].text = commands[d].text
        BY <2>3, <2>4, <3>1, <3>2 DEF PlanInv
      <3>3. CASE d = c /\ (PlanRun(c) \/ WriteReview(c))
        <4>1. commands'[c].op \in Planners
          BY <2>4, <3>3, BeginSteps, OwnSteps
        <4>2. /\ commands'[c].text.batches \ commands'[c].left
                     \subseteq WrittenIn(reviews', commands'[c].text.run)
              /\ commands'[c].text.written
                     = Cardinality(commands'[c].text.batches \ commands'[c].left)
          BY <2>0, <4>1 DEF Counting
        <4>3. IsFiniteSet(WrittenIn(reviews', commands'[c].text.run))
          BY MoreWritten
        <4>4. commands'[c].text.written <= Cardinality(WrittenIn(reviews', commands'[c].text.run))
          BY <4>2, <4>3, FS_Subset
        <4> QED
          BY <3>3, <4>1, <4>4 DEF AccountedBy
      <3>4. CASE d = c /\ MarkBatchDone(c)
        <4>1. PICK k \in Checkpoint : k = disk["checkpoint"].final
          BY <3>4, BeginSteps
        <4>2. /\ IsCheckpoint(k)
              /\ commands'[c].text.run = k.run /\ commands'[c].text.batches = k.batches
              /\ commands'[c].text.written = k.written
          BY <3>4, <4>1, BeginSteps
        <4>3. AccountedBy(k, reviews', commands', cut')
          BY <2>3, <4>1, <4>2 DEF PlanInv
        <4> QED
          BY <3>4, <4>2, <4>3 DEF AccountedBy
      <3>5. \/ /\ commands'[d].op = commands[d].op /\ commands'[d].text = commands[d].text
            \/ d = c /\ (PlanRun(c) \/ WriteReview(c) \/ MarkBatchDone(c))
        <4>1. CASE d # c
          BY <4>1, OtherSteps
        <4>2. CASE d = c
          BY <2>4, <4>2, BeginSteps, OwnSteps DEF CommandStep, Planners, NoCommand
        <4> QED
          BY <4>1, <4>2
      <3> QED
        BY <3>2, <3>3, <3>4, <3>5
    <2>5. ASSUME NEW k \in {disk'["checkpoint"].final, disk'["checkpoint"].temp}, IsCheckpoint(k)
          PROVE  AccountedBy(k, reviews', commands', cut')
      <3>1. k \in Checkpoint
        BY <2>0, <2>5 DEF BootstrapTyped, IsCheckpoint
      <3>2. CASE k \in {disk["checkpoint"].final, disk["checkpoint"].temp}
        BY <2>3, <2>5, <3>1, <3>2 DEF PlanInv
      <3>3. CASE /\ Busy(c) /\ commands[c].file = "checkpoint" /\ k = commands[c].text
        BY <2>3, <3>1, <3>3, BusyCommand DEF PlanInv
      <3>4. \/ k \in {disk["checkpoint"].final, disk["checkpoint"].temp}
            \/ Busy(c) /\ commands[c].file = "checkpoint" /\ k = commands[c].text
        <4>1. CASE disk' = disk
          BY <2>5, <4>1
        <4>2. CASE OpenTemp(c) \/ FillTemp(c) \/ RenameTemp(c)
          <5>1. Busy(c)
            BY <4>2 DEF OpenTemp, FillTemp, RenameTemp, Busy
          <5>2. CASE commands[c].file # "checkpoint"
            BY <2>5, <4>2, <5>1, <5>2, DiskSteps DEF Targets
          <5>3. CASE commands[c].file = "checkpoint"
            <6>1. k # NoContent /\ k # Broken
              BY <2>5 DEF IsCheckpoint
            <6> QED
              BY <2>5, <4>2, <5>1, <5>3, <6>1, DiskSteps DEF Truncated
          <5> QED
            BY <5>2, <5>3
        <4> QED
          BY <4>1, <4>2 DEF CommandStep, PlanRun, MarkBatchDone, Promote, FailRename,
                            WriteReview, KillCommand
      <3> QED
        BY <3>2, <3>3, <3>4
    <2> QED
      BY <2>0, <2>4, <2>5 DEF PlanInv, Accounted
  <1>2. CASE UNCHANGED bootstrapVars
    BY <1>2 DEF bootstrapVars, PlanInv, Accounted
  <1> QED
    BY <1>1, <1>2 DEF BootstrapNext

\* The checkpoint never counts a review file that is not on disk, and its plan is on disk
\* unless its planner is still at it or was cut short: a planner's count and its review
\* files go together, whoever replaces the checkpoint (cli_bootstrap.py:154-212).
THEOREM PlanOnDisk == BootstrapSpec => []PlanIsOnDisk
  <1>1. BootstrapInit => PlanInv
    BY DEF BootstrapInit, PlanInv, NoCommand, Planners, IsCheckpoint, Targets, Counting
  <1>2. BootstrapTyped /\ PlanInv => PlanIsOnDisk
    <2> SUFFICES ASSUME BootstrapTyped, PlanInv, IsCheckpoint(disk["checkpoint"].final)
                 PROVE  PlanIsOnDisk
      BY DEF PlanIsOnDisk
    <2>1. AccountedBy(disk["checkpoint"].final, reviews, commands, cut)
      BY DEF PlanInv, Accounted
    <2> QED
      BY <2>1 DEF AccountedBy, WrittenIn, PlanIsOnDisk, Planners
  <1> QED
    BY <1>1, <1>2, TypedInit, TypedNext, PlanNext, PTL DEF BootstrapSpec

-----------------------------------------------------------------------------
(* The include indexer *)

Conversion ==
    [step: {"idle", "look", "walk", "read", "write"}, deny: SUBSET Paths, manifest: Manifests,
     before: Manifests \union {NoMarker}, todo: SUBSET Paths, rows: SUBSET Rows,
     groups: SUBSET Groups, clean: BOOLEAN]

IncludeTyped ==
    /\ tree \in [Paths -> [text: Texts, stamp: {0} \union Stamps]]
    /\ scope \in [dirs: BOOLEAN, deny: SUBSET Paths]
    /\ marker \in Manifests \union {NoMarker} /\ doubtful \subseteq Manifests
    /\ transcripts \subseteq Rows
    /\ converters \in [Converters -> Conversion]
    /\ editors \in [ScopeEditors -> [step: {"idle", "open", "write"}, dirs: BOOLEAN,
                                     deny: SUBSET Paths]]
    /\ stamps \in Stamps
    /\ \A p \in Paths : tree[p].stamp <= stamps

Active(x) == converters[x].step \in {"walk", "read", "write"}

Trusted == marker # NoMarker /\ marker \notin doubtful

\* The rows that files have as they are.
RowsOf(files) == {[path |-> p, text |-> tree[p].text] : p \in files}

\* The transcripts are those of the files that the manifest names, and a file that still
\* has the stamp it is named with has the text that was converted.
StandsFor(manifest) ==
    /\ \A r \in transcripts : \E entry \in manifest : entry[1] = r.path
    /\ \A entry \in manifest :
          /\ \E r \in transcripts : r.path = entry[1]
          /\ entry[2] <= stamps
          /\ tree[entry[1]].stamp = entry[2]
                => \A r \in transcripts : r.path = entry[1] => r.text = tree[entry[1]].text

\* A conversion that nothing disturbed is the only one, and has what the directory has.
Undisturbed(x) ==
    LET c == converters[x] IN
    Active(x) /\ c.clean =>
        /\ \A y \in Converters \ {x} : ~Active(y)
        /\ c.manifest = Manifest(c.deny)
        /\ c.step = "read" => /\ c.todo \subseteq Scoped(c.deny)
                              /\ c.rows = RowsOf(Scoped(c.deny) \ c.todo)
        /\ c.step = "write" => /\ c.rows = RowsOf(Scoped(c.deny))
                               /\ transcripts = {r \in c.rows : GroupOf[r.path] \notin c.groups}

IncludeInv ==
    /\ Trusted => StandsFor(marker)
    /\ \A x \in Converters :
          /\ converters[x].step \in {"walk", "read"} => (Trusted => converters[x].before = marker)
          /\ converters[x].step = "write" => ~Trusted
          /\ converters[x].step \in {"look", "walk"} => converters[x].rows = {}
          /\ Undisturbed(x)

\* The files in scope, and their manifest, are well formed.
LEMMA ManifestTyped ==
    ASSUME IncludeTyped, NEW deny \in SUBSET Paths
    PROVE  Manifest(deny) \in Manifests /\ Scoped(deny) \in SUBSET Paths
  BY DEF IncludeTyped, Manifest, Manifests, Scoped

\* A manifest has one entry for each file, and rows are one for each file.
LEMMA Entries ==
    ASSUME NEW deny, NEW files
    PROVE  /\ \A entry \in Manifest(deny) :
                 entry[1] \in Scoped(deny) /\ entry[2] = tree[entry[1]].stamp
           /\ \A p \in Scoped(deny) : \E entry \in Manifest(deny) : entry[1] = p
           /\ \A r \in RowsOf(files) : r.path \in files /\ r.text = tree[r.path].text
           /\ \A p \in files : \E r \in RowsOf(files) : r.path = p
  <1>1. ASSUME NEW p \in Scoped(deny) PROVE \E entry \in Manifest(deny) : entry[1] = p
    <2>1. <<p, tree[p].stamp>> \in Manifest(deny)
      BY DEF Manifest
    <2> QED
      BY <2>1
  <1>2. ASSUME NEW p \in files PROVE \E r \in RowsOf(files) : r.path = p
    <2>1. [path |-> p, text |-> tree[p].text] \in RowsOf(files)
      BY DEF RowsOf
    <2> QED
      BY <2>1
  <1>3. ASSUME NEW entry \in Manifest(deny)
        PROVE  entry[1] \in Scoped(deny) /\ entry[2] = tree[entry[1]].stamp
    BY DEF Manifest
  <1>4. ASSUME NEW r \in RowsOf(files)
        PROVE  r.path \in files /\ r.text = tree[r.path].text
    BY DEF RowsOf
  <1> QED
    BY <1>1, <1>2, <1>3, <1>4

\* At the start everything is well typed.
LEMMA IncludeTypedInit == IncludeInit => IncludeTyped
  <1> SUFFICES ASSUME IncludeInit PROVE IncludeTyped
    OBVIOUS
  <1>1. 1 \in Stamps /\ NoConversion \in Conversion
    BY IncludeAssumption DEF Stamps, NoConversion, Conversion, Manifests
  <1>2. /\ tree \in [Paths -> [text: Texts, stamp: {0} \union Stamps]]
        /\ stamps \in Stamps /\ \A p \in Paths : tree[p].stamp <= stamps
    BY <1>1 DEF IncludeInit
  <1>3. /\ converters \in [Converters -> Conversion]
        /\ editors \in [ScopeEditors -> [step: {"idle", "open", "write"}, dirs: BOOLEAN,
                                         deny: SUBSET Paths]]
    BY <1>1 DEF IncludeInit, NoEdit
  <1>4. scope \in [dirs: BOOLEAN, deny: SUBSET Paths]
    BY DEF IncludeInit
  <1> QED
    BY <1>2, <1>3, <1>4 DEF IncludeInit, IncludeTyped

\* An edit of the directory keeps the types.
LEMMA EditTyped ==
    ASSUME IncludeTyped, NEW p \in Paths, EditTree(p)
    PROVE  IncludeTyped'
  <1> USE DEF IncludeTyped
  <1>1. /\ stamps \in Nat /\ Stamps \subseteq Nat
        /\ \A stamp : stamp \in Stamps <=> stamp \in Nat /\ 1 <= stamp /\ stamp <= MaxStamps
    BY IncludeAssumption DEF Stamps
  <1>2. converters' \in [Converters -> Conversion]
    <2>1. ASSUME NEW x \in Converters
          PROVE  [converters[x] EXCEPT !.clean = FALSE] \in Conversion
      BY DEF Conversion
    <2> QED
      BY <2>1 DEF EditTree, Disturb
  <1>3. UNCHANGED <<scope, marker, transcripts, editors>>
    BY DEF EditTree
  <1>4. /\ tree' \in [Paths -> [text: Texts, stamp: {0} \union Stamps]]
        /\ stamps' \in Stamps /\ doubtful' \subseteq Manifests
        /\ \A q \in Paths : tree'[q].stamp <= stamps'
    <2>1. CASE /\ tree[p].stamp # 0
               /\ tree' = [tree EXCEPT ![p].stamp = 0]
               /\ UNCHANGED <<stamps, doubtful>>
      BY <1>1, <2>1
    <2>2. ASSUME NEW text \in Texts, NEW stamp \in {stamps + 1, tree[p].stamp} \intersect Stamps,
                 tree' = [tree EXCEPT ![p] = [text |-> text, stamp |-> stamp]],
                 stamps' = IF stamp > stamps THEN stamp ELSE stamps,
                 doubtful' = IF stamp = tree[p].stamp
                             THEN doubtful \union {m \in {marker} : m # NoMarker} ELSE doubtful
          PROVE  /\ tree' \in [Paths -> [text: Texts, stamp: {0} \union Stamps]]
                 /\ stamps' \in Stamps /\ doubtful' \subseteq Manifests
                 /\ \A q \in Paths : tree'[q].stamp <= stamps'
      <3>1. stamp \in Nat /\ stamps <= stamps' /\ stamp <= stamps' /\ stamps' \in Stamps
        BY <1>1, <2>2
      <3>2. \A q \in Paths : tree[q].stamp \in Nat /\ tree[q].stamp <= stamps'
        BY <1>1, <3>1
      <3> QED
        BY <2>2, <3>1, <3>2
    <2> QED
      BY <2>1, <2>2 DEF EditTree
  <1> QED
    BY <1>2, <1>3, <1>4

\* So does a step of a command that edits the scope, and one that cuts off.
LEMMA ScopeTyped ==
    ASSUME IncludeTyped,
           CutOff \/ \E e \in ScopeEditors : LoadScope(e) \/ TruncateScope(e) \/ PersistScope(e)
    PROVE  /\ IncludeTyped' /\ UNCHANGED <<tree, marker, transcripts, doubtful, stamps>>
           /\ \A x \in Converters : converters'[x] = converters[x] \/ converters'[x] = NoConversion
  <1> USE DEF IncludeTyped
  <1>1. CASE CutOff
    <2>1. NoConversion \in Conversion
      BY DEF NoConversion, Conversion, Manifests
    <2>2. NoEdit \in [step: {"idle", "open", "write"}, dirs: BOOLEAN, deny: SUBSET Paths]
      BY DEF NoEdit
    <2>3. UNCHANGED <<tree, scope, marker, transcripts, doubtful, stamps>>
      BY <1>1 DEF CutOff
    <2>4. \/ /\ editors' = editors
             /\ \E x \in Converters : converters' = [converters EXCEPT ![x] = NoConversion]
          \/ /\ converters' = converters
             /\ \E e \in ScopeEditors : editors' = [editors EXCEPT ![e] = NoEdit]
      BY <1>1 DEF CutOff
    <2>5. /\ converters' \in [Converters -> Conversion]
          /\ editors' \in [ScopeEditors -> [step: {"idle", "open", "write"}, dirs: BOOLEAN,
                                            deny: SUBSET Paths]]
          /\ \A x \in Converters : converters'[x] = converters[x] \/ converters'[x] = NoConversion
      BY <2>1, <2>2, <2>4
    <2> QED
      BY <2>3, <2>5
  <1>2. ASSUME NEW e \in ScopeEditors, LoadScope(e)
        PROVE  IncludeTyped' /\ UNCHANGED <<tree, marker, transcripts, doubtful, stamps, converters>>
    <2>1. PICK keys \in {[scope EXCEPT !.dirs = dirs] : dirs \in BOOLEAN}
                    \union {[scope EXCEPT !.deny = @ \union {p}] : p \in Paths}
                    \union {[scope EXCEPT !.deny = @ \ {p}] : p \in Paths} :
            editors' = [editors EXCEPT ![e] = [step |-> "open", dirs |-> keys.dirs,
                                               deny |-> keys.deny]]
      BY <1>2 DEF LoadScope
    <2>2. keys \in [dirs: BOOLEAN, deny: SUBSET Paths]
      OBVIOUS
    <2> QED
      BY <1>2, <2>1, <2>2 DEF LoadScope
  <1>3. ASSUME NEW e \in ScopeEditors, TruncateScope(e) \/ PersistScope(e)
        PROVE  IncludeTyped' /\ UNCHANGED <<tree, marker, transcripts, doubtful, stamps, converters>>
    <2>1. UNCHANGED <<tree, marker, transcripts, doubtful, stamps, converters>>
      BY <1>3 DEF TruncateScope, PersistScope
    <2>2. scope' \in [dirs: BOOLEAN, deny: SUBSET Paths]
      <3>1. CASE TruncateScope(e)
        BY <3>1 DEF TruncateScope, Defaults
      <3>2. CASE PersistScope(e)
        <4>1. editors[e].dirs \in BOOLEAN /\ editors[e].deny \in SUBSET Paths
          OBVIOUS
        <4>2. scope' = [dirs |-> editors[e].dirs, deny |-> editors[e].deny]
          BY <3>2 DEF PersistScope
        <4> HIDE DEF IncludeTyped
        <4> QED
          BY <4>1, <4>2
      <3> QED
        BY <1>3, <3>1, <3>2
    <2>3. editors' \in [ScopeEditors -> [step: {"idle", "open", "write"}, dirs: BOOLEAN,
                                         deny: SUBSET Paths]]
      <3>1. CASE TruncateScope(e)
        <4>1. editors' = [editors EXCEPT ![e] = [editors[e] EXCEPT !.step = "write"]]
          BY <3>1 DEF TruncateScope
        <4>2. [editors[e] EXCEPT !.step = "write"]
                 \in [step: {"idle", "open", "write"}, dirs: BOOLEAN, deny: SUBSET Paths]
          OBVIOUS
        <4> QED
          BY <4>1, <4>2
      <3>2. CASE PersistScope(e)
        <4>1. editors' = [editors EXCEPT ![e] = NoEdit]
          BY <3>2 DEF PersistScope
        <4>2. NoEdit \in [step: {"idle", "open", "write"}, dirs: BOOLEAN, deny: SUBSET Paths]
          BY DEF NoEdit
        <4> QED
          BY <4>1, <4>2
      <3> QED
        BY <1>3, <3>1, <3>2
    <2> QED
      BY <2>1, <2>2, <2>3
  <1> QED
    BY <1>1, <1>2, <1>3

\* What a conversion's step does to its own entry, and that it keeps the types.
LEMMA ConversionSteps ==
    ASSUME IncludeTyped, NEW x \in Converters
    PROVE  LET c == converters[x]
               v == converters'[x]
               Others == {y \in Converters \ {x} : Converting(y)}
               Same == v.deny = c.deny /\ v.manifest = c.manifest /\ v.before = c.before
           IN
           /\ LoadDeny(x) => v.step = "look" /\ v.rows = {} /\ v \in Conversion
           /\ CompareManifest(x) =>
                 /\ v \in Conversion
                 /\ \/ v.step = "idle"
                    \/ /\ v.step = "walk" /\ v.rows = c.rows /\ v.deny = c.deny /\ v.manifest = Manifest(c.deny)
                       /\ v.before = marker /\ v.clean = (Others = {})
           /\ WalkAgain(x) =>
                 /\ v \in Conversion /\ Same /\ v.step = "read" /\ v.clean = c.clean
                 /\ v.todo = Scoped(c.deny) /\ v.rows = c.rows
           /\ ReadFile(x) =>
                 /\ v \in Conversion /\ Same /\ v.step = "read"
                 /\ \E p \in c.todo :
                       /\ v.todo = c.todo \ {p}
                       /\ \/ /\ v.rows = c.rows \union {[path |-> p, text |-> tree[p].text]}
                             /\ v.clean = c.clean
                          \/ v.clean = FALSE
           /\ EmptyPrefix(x) =>
                 /\ v \in Conversion /\ Same /\ v.step = "write" /\ v.clean = c.clean
                 /\ v.rows = c.rows /\ v.groups = {GroupOf[r.path] : r \in c.rows}
           /\ WriteGroup(x) =>
                 /\ v \in Conversion /\ Same /\ v.step = "write" /\ v.clean = c.clean
                 /\ v.rows = c.rows
                 /\ \E g \in c.groups :
                       /\ v.groups = c.groups \ {g}
                       /\ transcripts' = {r \in transcripts : GroupOf[r.path] # g}
                                            \union {r \in c.rows : GroupOf[r.path] = g}
           /\ WriteMarker(x) => v = NoConversion
  <1> DEFINE c == converters[x]
             v == converters'[x]
             Others == {y \in Converters \ {x} : Converting(y)}
             Same == v.deny = c.deny /\ v.manifest = c.manifest /\ v.before = c.before
  <1>0. /\ c \in Conversion /\ converters \in [Converters -> Conversion]
        /\ NoConversion \in Conversion
    BY DEF IncludeTyped, NoConversion, Conversion, Manifests
  <1>1. ASSUME LoadDeny(x) PROVE v.step = "look" /\ v.rows = {} /\ v \in Conversion
    <2>1. v = [NoConversion EXCEPT !.step = "look", !.deny = scope.deny]
      BY <1>0, <1>1 DEF LoadDeny
    <2>2. scope.deny \in SUBSET Paths
      BY DEF IncludeTyped
    <2> QED
      BY <1>0, <2>1, <2>2 DEF Conversion, NoConversion
  <1>2. ASSUME CompareManifest(x)
        PROVE  /\ v \in Conversion
               /\ \/ v.step = "idle"
                  \/ /\ v.step = "walk" /\ v.rows = c.rows /\ v.deny = c.deny /\ v.manifest = Manifest(c.deny)
                     /\ v.before = marker /\ v.clean = (Others = {})
    <2>1. c.deny \in SUBSET Paths /\ marker \in Manifests \union {NoMarker}
      BY <1>0 DEF Conversion, IncludeTyped
    <2>2. Manifest(c.deny) \in Manifests
      BY <2>1, ManifestTyped
    <2>3. CASE v = NoConversion
      BY <1>0, <2>3 DEF NoConversion
    <2>4. CASE v = [c EXCEPT !.step = "walk", !.manifest = Manifest(c.deny),
                             !.before = marker, !.clean = (Others = {})]
      BY <1>0, <2>1, <2>2, <2>4 DEF Conversion
    <2>5. \/ v = NoConversion
          \/ v = [c EXCEPT !.step = "walk", !.manifest = Manifest(c.deny),
                           !.before = marker, !.clean = (Others = {})]
      <3>1. converters' =
              IF marker = Manifest(c.deny) THEN [converters EXCEPT ![x] = NoConversion]
              ELSE [Disturb(Others) EXCEPT ![x].step = "walk", ![x].manifest = Manifest(c.deny),
                                           ![x].before = marker, ![x].clean = (Others = {})]
        BY <1>2 DEF CompareManifest
      <3>2. Disturb(Others)[x] = c /\ Disturb(Others) = [y \in Converters |-> Disturb(Others)[y]]
        BY DEF Disturb
      <3> QED
        BY <1>0, <3>1, <3>2
    <2> QED
      BY <2>3, <2>4, <2>5
  <1>3. ASSUME WalkAgain(x)
        PROVE  /\ v \in Conversion /\ Same /\ v.step = "read" /\ v.clean = c.clean
               /\ v.todo = Scoped(c.deny) /\ v.rows = c.rows
    <2>1. v = [c EXCEPT !.step = "read", !.todo = Scoped(c.deny)]
      BY <1>0, <1>3 DEF WalkAgain
    <2>2. Scoped(c.deny) \in SUBSET Paths
      BY DEF Scoped
    <2> QED
      BY <1>0, <2>1, <2>2 DEF Conversion
  <1>4. ASSUME ReadFile(x)
        PROVE  /\ v \in Conversion /\ Same /\ v.step = "read"
               /\ \E p \in c.todo :
                     /\ v.todo = c.todo \ {p}
                     /\ \/ /\ v.rows = c.rows \union {[path |-> p, text |-> tree[p].text]}
                           /\ v.clean = c.clean
                        \/ v.clean = FALSE
    <2>1. PICK p \in c.todo :
            \/ v = [c EXCEPT !.todo = @ \ {p},
                             !.rows = @ \union {[path |-> p, text |-> tree[p].text]}]
            \/ v = [c EXCEPT !.todo = @ \ {p}, !.clean = FALSE]
      BY <1>0, <1>4 DEF ReadFile
    <2>2. p \in Paths /\ c.step = "read"
      BY <1>0, <1>4 DEF Conversion, ReadFile
    <2>3. [path |-> p, text |-> tree[p].text] \in Rows
      BY <2>2 DEF IncludeTyped, Rows
    <2>4. PICK left, more :
            /\ left = c.todo \ {p} /\ left \in SUBSET Paths
            /\ more = c.rows \union {[path |-> p, text |-> tree[p].text]} /\ more \in SUBSET Rows
      <3>1. c.todo \in SUBSET Paths /\ c.rows \in SUBSET Rows
        BY <1>0 DEF Conversion
      <3>2. /\ c.todo \ {p} \in SUBSET Paths
            /\ c.rows \union {[path |-> p, text |-> tree[p].text]} \in SUBSET Rows
        BY <2>3, <3>1
      <3> QED
        BY <3>2
    <2>5. CASE v = [c EXCEPT !.todo = left, !.rows = more]
      <3>1. /\ v.todo = left /\ v.clean = c.clean /\ v.rows = more
            /\ v \in Conversion /\ Same /\ v.step = "read"
        BY <1>0, <2>2, <2>4, <2>5 DEF Conversion
      <3> QED
        BY <2>1, <2>4, <3>1
    <2>6. CASE v = [c EXCEPT !.todo = left, !.clean = FALSE]
      <3>1. /\ v \in Conversion /\ Same /\ v.step = "read"
            /\ v.todo = left /\ v.clean = FALSE
        BY <1>0, <2>2, <2>4, <2>6 DEF Conversion
      <3> QED
        BY <2>1, <2>4, <3>1
    <2> QED
      BY <2>1, <2>4, <2>5, <2>6
  <1>5. ASSUME EmptyPrefix(x)
        PROVE  /\ v \in Conversion /\ Same /\ v.step = "write" /\ v.clean = c.clean
               /\ v.rows = c.rows /\ v.groups = {GroupOf[r.path] : r \in c.rows}
    <2>1. v = [c EXCEPT !.step = "write", !.groups = {GroupOf[r.path] : r \in c.rows}]
      BY <1>0, <1>5 DEF EmptyPrefix
    <2>2. {GroupOf[r.path] : r \in c.rows} \in SUBSET Groups
      BY <1>0, IncludeAssumption DEF Conversion, Rows
    <2> QED
      BY <1>0, <2>1, <2>2 DEF Conversion
  <1>6. ASSUME WriteGroup(x)
        PROVE  /\ v \in Conversion /\ Same /\ v.step = "write" /\ v.clean = c.clean
               /\ v.rows = c.rows
               /\ \E g \in c.groups :
                     /\ v.groups = c.groups \ {g}
                     /\ transcripts' = {r \in transcripts : GroupOf[r.path] # g}
                                          \union {r \in c.rows : GroupOf[r.path] = g}
    <2>1. PICK g \in c.groups :
            /\ transcripts' = {r \in transcripts : GroupOf[r.path] # g}
                                 \union {r \in c.rows : GroupOf[r.path] = g}
            /\ converters' = [converters EXCEPT ![x].groups = @ \ {g}]
      BY <1>6 DEF WriteGroup
    <2>2. v = [c EXCEPT !.groups = @ \ {g}] /\ c.step = "write"
      BY <1>0, <1>6, <2>1 DEF WriteGroup
    <2> QED
      BY <1>0, <2>1, <2>2 DEF Conversion
  <1>7. WriteMarker(x) => v = NoConversion
    BY <1>0 DEF WriteMarker
  <1> HIDE DEF c, v, Others, Same
  <1> QED
    BY <1>1, <1>2, <1>3, <1>4, <1>5, <1>6, <1>7 DEF c, v, Others, Same

ConversionStep(x) ==
    \/ LoadDeny(x) \/ CompareManifest(x) \/ WalkAgain(x) \/ ReadFile(x)
    \/ EmptyPrefix(x) \/ WriteGroup(x) \/ WriteMarker(x)

\* A conversion's step disturbs at most the other conversions.
LEMMA OtherConversions ==
    ASSUME IncludeTyped, NEW x \in Converters, ConversionStep(x), NEW y \in Converters, y # x
    PROVE  LET u == converters[y]
               w == converters'[y]
           IN /\ w \in Conversion
              /\ w.step = u.step /\ w.deny = u.deny /\ w.manifest = u.manifest
              /\ w.before = u.before /\ w.todo = u.todo /\ w.rows = u.rows /\ w.groups = u.groups
              /\ w.clean => u.clean
              /\ CompareManifest(x) /\ Converting(y) /\ converters'[x].step # "idle" => ~w.clean
  <1> DEFINE Others == {z \in Converters \ {x} : Converting(z)}
  <1>0. converters \in [Converters -> Conversion] /\ converters[y] \in Conversion
    BY DEF IncludeTyped
  <1>1. [converters[y] EXCEPT !.clean = FALSE] \in Conversion
    BY <1>0 DEF Conversion
  <1>2. CASE CompareManifest(x)
    <2>1. CASE converters' = [converters EXCEPT ![x] = NoConversion]
      BY <1>0, <2>1 DEF NoConversion
    <2>2. CASE converters' = [Disturb(Others) EXCEPT
                 ![x].step = "walk", ![x].manifest = Manifest(converters[x].deny),
                 ![x].before = marker, ![x].clean = (Others = {})]
      <3>1. converters'[y] = IF Converting(y) THEN [converters[y] EXCEPT !.clean = FALSE]
                             ELSE converters[y]
        BY <2>2 DEF Disturb
      <3>2. CASE Converting(y)
        <4>1. converters'[y] = [converters[y] EXCEPT !.clean = FALSE]
          BY <3>1, <3>2
        <4> QED
          BY <1>0, <1>1, <4>1 DEF Conversion
      <3>3. CASE ~Converting(y)
        BY <1>0, <3>1, <3>3
      <3> QED
        BY <3>2, <3>3
    <2> QED
      BY <1>2, <2>1, <2>2 DEF CompareManifest
  <1>3. CASE ~CompareManifest(x)
    <2>1. converters'[y] = converters[y]
      BY <1>0, <1>3 DEF ConversionStep, LoadDeny, WalkAgain, ReadFile, EmptyPrefix, WriteGroup,
                        WriteMarker
    <2> QED
      BY <1>0, <1>3, <2>1
  <1> QED
    BY <1>2, <1>3

\* A conversion's step keeps the types, and the directory.
LEMMA ConversionTyped ==
    ASSUME IncludeTyped, NEW x \in Converters, ConversionStep(x)
    PROVE  IncludeTyped' /\ UNCHANGED <<tree, scope, stamps, editors>>
  <1>1. UNCHANGED <<tree, scope, stamps, editors>>
    BY DEF ConversionStep, LoadDeny, CompareManifest, WalkAgain, ReadFile, EmptyPrefix,
           WriteGroup, WriteMarker
  <1>2. converters'[x] \in Conversion
    <2>1. NoConversion \in Conversion
      BY DEF NoConversion, Conversion, Manifests
    <2>2. WriteMarker(x) => converters'[x] = NoConversion
      BY ConversionSteps
    <2> QED
      BY <2>1, <2>2, ConversionSteps DEF ConversionStep
  <1>3. converters' = [y \in Converters |-> converters'[y]]
    BY DEF IncludeTyped, ConversionStep, LoadDeny, CompareManifest, WalkAgain, ReadFile,
           EmptyPrefix, WriteGroup, WriteMarker, Disturb
  <1>4. converters' \in [Converters -> Conversion]
    <2>1. \A y \in Converters : converters'[y] \in Conversion
      BY <1>2, OtherConversions
    <2> QED
      BY <1>3, <2>1
  <1>5. marker' \in Manifests \union {NoMarker} /\ doubtful' \subseteq Manifests
    <2>1. /\ converters[x].manifest \in Manifests
          /\ converters[x].before \in Manifests \union {NoMarker}
      BY DEF IncludeTyped, Conversion
    <2> QED
      BY <2>1 DEF IncludeTyped, ConversionStep, LoadDeny, CompareManifest, WalkAgain, ReadFile,
                  EmptyPrefix, WriteGroup, WriteMarker
  <1>6. transcripts' \subseteq Rows
    <2>1. converters[x].rows \subseteq Rows
      BY DEF IncludeTyped, Conversion
    <2> QED
      BY <2>1 DEF IncludeTyped, ConversionStep, LoadDeny, CompareManifest, WalkAgain, ReadFile,
                  EmptyPrefix, WriteGroup, WriteMarker
  <1> QED
    BY <1>1, <1>4, <1>5, <1>6 DEF IncludeTyped

\* Every step keeps the types.
LEMMA IncludeTypedNext == IncludeTyped /\ [IncludeNext]_includeVars => IncludeTyped'
  <1> SUFFICES ASSUME IncludeTyped, [IncludeNext]_includeVars PROVE IncludeTyped'
    OBVIOUS
  <1>1. CASE UNCHANGED includeVars
    BY <1>1 DEF includeVars, IncludeTyped
  <1> QED
    BY <1>1, EditTyped, ScopeTyped, ConversionTyped DEF IncludeNext, ConversionStep

\* The directory, the scope, the transcripts and every conversion are well formed
\* (include_indexer.py:80-250).
THEOREM IncludeIsTyped == IncludeSpec => []IncludeTypeOK
  <1>1. IncludeTyped => IncludeTypeOK
    BY DEF IncludeTyped, IncludeTypeOK, Conversion
  <1> QED
    BY <1>1, IncludeTypedInit, IncludeTypedNext, PTL DEF IncludeSpec

-----------------------------------------------------------------------------
(* What is trusted stands for the directory *)

\* An edit of the directory disturbs the conversions that run, and takes the trust from a
\* manifest whose stamps it does not change.
LEMMA EditKeeps ==
    ASSUME IncludeTyped, IncludeTyped', IncludeInv, NEW p \in Paths, EditTree(p)
    PROVE  IncludeInv'
  <1>1. /\ UNCHANGED <<marker, transcripts>> /\ doubtful \subseteq doubtful'
        /\ converters' = Disturb({x \in Converters : Converting(x)})
    BY DEF EditTree
  <1>2. ASSUME NEW x \in Converters
        PROVE  /\ converters'[x].step = converters[x].step
               /\ converters'[x].before = converters[x].before
               /\ converters'[x].rows = converters[x].rows
               /\ Converting(x) => ~converters'[x].clean
    <2>1. converters[x] \in Conversion
      BY DEF IncludeTyped
    <2>2. converters'[x] = IF Converting(x) THEN [converters[x] EXCEPT !.clean = FALSE]
                           ELSE converters[x]
      BY <1>1 DEF Disturb
    <2> QED
      BY <2>1, <2>2 DEF Conversion
  <1>3. Trusted' => Trusted
    BY <1>1 DEF Trusted
  <1>4. ASSUME Trusted' PROVE StandsFor(marker)'
    <2>1. StandsFor(marker) /\ marker \in Manifests
      BY <1>3, <1>4 DEF IncludeInv, IncludeTyped, Trusted
    <2>2. \A entry \in marker : entry[1] \in Paths /\ entry[2] \in Stamps
      BY <2>1 DEF Manifests
    <2>3. /\ stamps \in Nat /\ Stamps \subseteq Nat \ {0}
      BY IncludeAssumption DEF IncludeTyped, Stamps
    <2>4. /\ \A q \in Paths \ {p} : tree'[q] = tree[q]
          /\ \/ tree'[p].stamp = 0 /\ stamps' = stamps
             \/ tree'[p].stamp = stamps + 1 /\ stamps' = stamps + 1
      <3>1. CASE /\ tree[p].stamp # 0
                 /\ tree' = [tree EXCEPT ![p].stamp = 0]
                 /\ UNCHANGED <<stamps, doubtful>>
        BY <3>1 DEF IncludeTyped
      <3>2. ASSUME NEW text \in Texts,
                   NEW stamp \in {stamps + 1, tree[p].stamp} \intersect Stamps,
                   tree' = [tree EXCEPT ![p] = [text |-> text, stamp |-> stamp]],
                   stamps' = IF stamp > stamps THEN stamp ELSE stamps,
                   doubtful' = IF stamp = tree[p].stamp
                               THEN doubtful \union {m \in {marker} : m # NoMarker} ELSE doubtful
            PROVE  /\ \A q \in Paths \ {p} : tree'[q] = tree[q]
                   /\ tree'[p].stamp = stamps + 1 /\ stamps' = stamps + 1
        <4>1. stamp = stamps + 1
          BY <1>1, <1>4, <3>2 DEF Trusted
        <4> QED
          BY <2>3, <3>2, <4>1 DEF IncludeTyped
      <3> QED
        BY <3>1, <3>2 DEF EditTree
    <2>5. ASSUME NEW entry \in marker
          PROVE  /\ \E r \in transcripts : r.path = entry[1]
                 /\ entry[2] <= stamps'
                 /\ tree'[entry[1]].stamp = entry[2]
                      => \A r \in transcripts : r.path = entry[1] => r.text = tree'[entry[1]].text
      <3>1. /\ entry[1] \in Paths /\ entry[2] \in Nat \ {0} /\ entry[2] <= stamps
            /\ \E r \in transcripts : r.path = entry[1]
        BY <2>1, <2>2, <2>3 DEF StandsFor
      <3>2. tree'[entry[1]].stamp = entry[2] => entry[1] # p
        BY <2>3, <2>4, <3>1
      <3>3. tree'[entry[1]].stamp = entry[2] => tree'[entry[1]] = tree[entry[1]]
        BY <2>4, <3>1, <3>2
      <3> QED
        BY <2>1, <2>3, <2>4, <3>1, <3>3 DEF StandsFor
    <2> QED
      BY <1>1, <2>1, <2>5 DEF StandsFor
  <1>5. ASSUME NEW x \in Converters PROVE Undisturbed(x)'
    BY <1>2 DEF Undisturbed, Active, Converting
  <1> QED
    BY <1>1, <1>2, <1>3, <1>4, <1>5 DEF IncludeInv

\* The commands that edit the scope, and those cut off, leave the directory and the
\* conversions alone.
LEMMA ScopeKeeps ==
    ASSUME IncludeTyped, IncludeInv,
           CutOff \/ \E e \in ScopeEditors : LoadScope(e) \/ TruncateScope(e) \/ PersistScope(e)
    PROVE  IncludeInv'
  <1>1. UNCHANGED <<tree, marker, transcripts, doubtful, stamps>>
    BY ScopeTyped
  <1>2. \A x \in Converters : converters'[x] = converters[x] \/ converters'[x] = NoConversion
    BY ScopeTyped
  <1>3. (Trusted' <=> Trusted) /\ (StandsFor(marker)' <=> StandsFor(marker))
    BY <1>1 DEF Trusted, StandsFor
  <1>4. ASSUME NEW x \in Converters PROVE Undisturbed(x)'
    <2>1. CASE converters'[x] = NoConversion
      BY <2>1 DEF Undisturbed, Active, NoConversion
    <2>2. CASE converters'[x] = converters[x]
      <3>1. \A y \in Converters : Active(y)' => Active(y)
        BY <1>2 DEF Active, NoConversion
      <3>2. Undisturbed(x)
        BY DEF IncludeInv
      <3> QED
        BY <1>1, <2>2, <3>1, <3>2 DEF Undisturbed, Active, Manifest, Scoped, RowsOf
    <2> QED
      BY <1>2, <2>1, <2>2
  <1> QED
    BY <1>1, <1>2, <1>3, <1>4 DEF IncludeInv, NoConversion

\* A conversion's own step: what is trusted afterwards was so before, or is what the
\* conversion has just written, undisturbed.
LEMMA TrustAfter ==
    ASSUME IncludeTyped, IncludeInv, NEW x \in Converters, ConversionStep(x)
    PROVE  /\ Trusted' => \/ Trusted /\ marker' = marker /\ transcripts' = transcripts
                          \/ /\ WriteMarker(x) /\ converters[x].clean
                             /\ marker' = converters[x].manifest /\ transcripts' = transcripts
           /\ transcripts' # transcripts \/ marker' # marker \/ doubtful' # doubtful => Active(x)
           /\ EmptyPrefix(x) => ~Trusted'
  <1>1. CASE EmptyPrefix(x)
    <2>1. /\ marker' = marker /\ Active(x)
          /\ doubtful' = doubtful \union {m \in {converters[x].before} : m # NoMarker}
      BY <1>1 DEF EmptyPrefix, Active
    <2>2. Trusted => converters[x].before = marker
      BY <1>1 DEF IncludeInv, EmptyPrefix
    <2>3. ~Trusted'
      BY <2>1, <2>2 DEF Trusted
    <2> QED
      BY <2>1, <2>3
  <1>2. CASE WriteGroup(x)
    <2>1. ~Trusted /\ Active(x)
      BY <1>2 DEF IncludeInv, WriteGroup, Active
    <2>2. UNCHANGED <<marker, doubtful>>
      BY <1>2 DEF WriteGroup
    <2> QED
      BY <1>2, <2>1, <2>2 DEF Trusted, EmptyPrefix, WriteGroup
  <1>3. CASE WriteMarker(x)
    <2>1. ~Trusted /\ Active(x) /\ transcripts' = transcripts
      BY <1>3 DEF IncludeInv, WriteMarker, Active
    <2>2. \/ UNCHANGED <<marker, doubtful>>
          \/ /\ marker' = converters[x].manifest /\ converters[x].clean
          \/ marker' = converters[x].manifest /\ marker' \in doubtful'
      BY <1>3 DEF WriteMarker
    <2> QED
      BY <1>3, <2>1, <2>2 DEF Trusted, WriteMarker, EmptyPrefix
  <1>4. CASE LoadDeny(x) \/ CompareManifest(x) \/ WalkAgain(x) \/ ReadFile(x)
    <2>1. UNCHANGED <<marker, doubtful, transcripts>>
      BY <1>4 DEF LoadDeny, CompareManifest, WalkAgain, ReadFile
    <2>2. EmptyPrefix(x) => ~Trusted'
      BY <1>1, <2>1 DEF EmptyPrefix, IncludeInv, Trusted
    <2> QED
      BY <2>1, <2>2 DEF Trusted
  <1> QED
    BY <1>1, <1>2, <1>3, <1>4 DEF ConversionStep

\* The other conversions keep what they have, unless they are disturbed.
LEMMA OthersKeep ==
    ASSUME IncludeTyped, IncludeInv, NEW x \in Converters, ConversionStep(x),
           NEW y \in Converters, y # x
    PROVE  /\ converters'[y].step \in {"walk", "read"}
                 => (Trusted' => converters'[y].before = marker')
           /\ converters'[y].step = "write" => ~Trusted'
           /\ converters'[y].step \in {"look", "walk"} => converters'[y].rows = {}
           /\ Undisturbed(y)'
  <1> DEFINE u == converters[y]
             w == converters'[y]
  <1>1. /\ w.step = u.step /\ w.deny = u.deny /\ w.manifest = u.manifest
        /\ w.before = u.before /\ w.todo = u.todo /\ w.rows = u.rows /\ w.groups = u.groups
        /\ w.clean => u.clean
        /\ CompareManifest(x) /\ Converting(y) /\ converters'[x].step # "idle" => ~w.clean
    BY OtherConversions
  <1>2. Active(y)' <=> Active(y)
    BY <1>1 DEF Active
  <1>3. Active(y) /\ Trusted' => Trusted /\ marker' = marker
    <2> SUFFICES ASSUME Active(y), Trusted' PROVE Trusted /\ marker' = marker
      OBVIOUS
    <2>1. ~(WriteMarker(x) /\ converters[x].clean)
      BY DEF IncludeInv, Undisturbed, WriteMarker, Active
    <2> QED
      BY <2>1, TrustAfter
  <1>4. /\ w.step \in {"walk", "read"} => (Trusted' => w.before = marker')
        /\ w.step = "write" => ~Trusted'
        /\ w.step \in {"look", "walk"} => w.rows = {}
    BY <1>1, <1>3 DEF IncludeInv, Active
  <1>5. Undisturbed(y)'
    <2> SUFFICES ASSUME Active(y)', w.clean PROVE Undisturbed(y)'
      BY DEF Undisturbed
    <2>1. Active(y) /\ u.clean /\ Undisturbed(y)
      BY <1>1, <1>2 DEF IncludeInv
    <2>2. \A z \in Converters \ {y} : ~Active(z)
      BY <2>1 DEF Undisturbed
    <2>3. ~Active(x) /\ (LoadDeny(x) \/ CompareManifest(x))
      BY <2>2 DEF ConversionStep, Active, WalkAgain, ReadFile, EmptyPrefix, WriteGroup,
                  WriteMarker
    <2>4. ~Active(x)'
      <3>1. CASE LoadDeny(x)
        BY <3>1, ConversionSteps DEF Active
      <3>2. CASE CompareManifest(x)
        BY <1>1, <2>1, <3>2 DEF Active, Converting
      <3> QED
        BY <2>3, <3>1, <3>2
    <2>5. \A z \in Converters \ {y} : ~Active(z)'
      <3>1. ASSUME NEW z \in Converters, z # y, z # x PROVE ~Active(z)'
        BY <2>2, <3>1, OtherConversions DEF Active
      <3> QED
        BY <2>4, <3>1
    <2>6. UNCHANGED <<tree, transcripts>>
      BY <2>3, TrustAfter, ConversionTyped
    <2> QED
      BY <1>1, <2>1, <2>5, <2>6 DEF Undisturbed, Manifest, Scoped, RowsOf
  <1> QED
    BY <1>4, <1>5

\* A conversion that nothing disturbs gathers the rows of the files in scope, and writes
\* them group by group.
LEMMA OwnKeeps ==
    ASSUME IncludeTyped, IncludeInv, NEW x \in Converters, ConversionStep(x)
    PROVE  /\ converters'[x].step \in {"walk", "read"}
                 => (Trusted' => converters'[x].before = marker')
           /\ converters'[x].step = "write" => ~Trusted'
           /\ converters'[x].step \in {"look", "walk"} => converters'[x].rows = {}
           /\ Undisturbed(x)'
  <1> DEFINE c == converters[x]
             v == converters'[x]
  <1>1. /\ tree' = tree /\ \A deny : Scoped(deny)' = Scoped(deny)
        /\ \A deny : Manifest(deny)' = Manifest(deny)
        /\ \A files : RowsOf(files)' = RowsOf(files)
    <2>1. tree' = tree
      BY ConversionTyped
    <2>2. \A deny : Scoped(deny)' = Scoped(deny)
      BY <2>1 DEF Scoped
    <2>3. \A deny : Manifest(deny)' = Manifest(deny)
      BY <2>1 DEF Scoped, Manifest
    <2>4. \A files : RowsOf(files)' = RowsOf(files)
      BY <2>1 DEF RowsOf
    <2> QED
      BY <2>1, <2>2, <2>3, <2>4
  <1>2. \A y \in Converters \ {x} : Active(y)' <=> Active(y)
    BY OtherConversions DEF Active
  <1>3. CASE LoadDeny(x) \/ WriteMarker(x)
    <2>1. v.step \in {"idle", "look"} /\ v.rows = {}
      <3>1. CASE LoadDeny(x)
        BY <3>1, ConversionSteps
      <3>2. CASE WriteMarker(x)
        <4>1. v = NoConversion
          BY <3>2, ConversionSteps
        <4> QED
          BY <4>1 DEF NoConversion
      <3> QED
        BY <1>3, <3>1, <3>2
    <2> QED
      BY <2>1 DEF Undisturbed, Active
  <1>4. CASE CompareManifest(x)
    <2>1. UNCHANGED <<marker, doubtful, transcripts>> /\ c.step = "look"
      BY <1>4 DEF CompareManifest
    <2>2. v.step = "walk" => v.before = marker /\ v.rows = {}
      BY <1>4, <2>1, ConversionSteps DEF IncludeInv
    <2>3. v.step \in {"idle", "walk"}
      BY <1>4, ConversionSteps
    <2>4. Undisturbed(x)'
      <3> SUFFICES ASSUME v.step = "walk", v.clean PROVE Undisturbed(x)'
        BY <2>3 DEF Undisturbed, Active
      <3>1. /\ v.manifest = Manifest(v.deny)
            /\ {y \in Converters \ {x} : Converting(y)} = {}
        BY <1>4, ConversionSteps
      <3>2. \A y \in Converters \ {x} : ~Active(y)'
        BY <1>2, <3>1 DEF Active, Converting
      <3> QED
        BY <1>1, <3>1, <3>2 DEF Undisturbed
    <2> QED
      BY <2>1, <2>2, <2>3, <2>4 DEF Trusted
  <1>5. CASE WalkAgain(x)
    <2>1. UNCHANGED <<marker, doubtful, transcripts>> /\ c.step = "walk"
      BY <1>5 DEF WalkAgain
    <2>2. /\ v.deny = c.deny /\ v.manifest = c.manifest /\ v.before = c.before
          /\ v.step = "read" /\ v.clean = c.clean /\ v.todo = Scoped(c.deny) /\ v.rows = c.rows
      BY <1>5, ConversionSteps
    <2>3. Trusted' => v.before = marker'
      BY <2>1, <2>2 DEF IncludeInv, Trusted
    <2>4. c.rows = {} /\ Undisturbed(x)
      BY <2>1 DEF IncludeInv
    <2>5. RowsOf(Scoped(c.deny) \ Scoped(c.deny)) = {}
      BY DEF RowsOf
    <2>6. Undisturbed(x)'
      BY <1>1, <1>2, <2>1, <2>2, <2>4, <2>5 DEF Undisturbed, Active
    <2> QED
      BY <2>2, <2>3, <2>6
  <1>6. CASE ReadFile(x)
    <2>1. UNCHANGED <<marker, doubtful, transcripts>> /\ c.step = "read"
      BY <1>6 DEF ReadFile
    <2>2. /\ v.deny = c.deny /\ v.manifest = c.manifest /\ v.before = c.before
          /\ v.step = "read"
      BY <1>6, ConversionSteps
    <2>3. Trusted' => v.before = marker'
      BY <2>1, <2>2 DEF IncludeInv, Trusted
    <2>4. Undisturbed(x)'
      <3> SUFFICES ASSUME v.clean PROVE Undisturbed(x)'
        BY DEF Undisturbed
      <3>1. PICK p \in c.todo :
              /\ v.todo = c.todo \ {p} /\ v.clean = c.clean
              /\ v.rows = c.rows \union {[path |-> p, text |-> tree[p].text]}
        BY <1>6, ConversionSteps
      <3>2. /\ \A y \in Converters \ {x} : ~Active(y)
            /\ c.manifest = Manifest(c.deny)
            /\ c.todo \subseteq Scoped(c.deny)
            /\ c.rows = RowsOf(Scoped(c.deny) \ c.todo)
        BY <2>1, <3>1 DEF IncludeInv, Undisturbed, Active
      <3>3. Scoped(c.deny) \ (c.todo \ {p}) = (Scoped(c.deny) \ c.todo) \union {p}
        BY <3>1, <3>2
      <3>4. v.rows = RowsOf(Scoped(c.deny) \ v.todo)
        BY <3>1, <3>2, <3>3 DEF RowsOf
      <3> QED
        BY <1>1, <1>2, <2>2, <3>1, <3>2, <3>4 DEF Undisturbed
    <2> QED
      BY <2>2, <2>3, <2>4
  <1>7. CASE EmptyPrefix(x)
    <2>1. c.step = "read" /\ c.todo = {} /\ transcripts' = {}
      BY <1>7 DEF EmptyPrefix
    <2>2. /\ v.deny = c.deny /\ v.manifest = c.manifest /\ v.step = "write"
          /\ v.clean = c.clean /\ v.rows = c.rows /\ v.groups = {GroupOf[r.path] : r \in c.rows}
      BY <1>7, ConversionSteps
    <2>3. ~Trusted'
      BY <1>7, TrustAfter
    <2>4. Undisturbed(x)'
      <3> SUFFICES ASSUME c.clean PROVE Undisturbed(x)'
        BY <2>2 DEF Undisturbed
      <3>1. /\ \A y \in Converters \ {x} : ~Active(y)
            /\ c.manifest = Manifest(c.deny)
            /\ c.rows = RowsOf(Scoped(c.deny) \ c.todo)
        BY <2>1 DEF IncludeInv, Undisturbed, Active
      <3>2. Scoped(c.deny) \ c.todo = Scoped(c.deny)
        BY <2>1
      <3>3. {r \in v.rows : GroupOf[r.path] \notin v.groups} = {}
        BY <2>2
      <3> QED
        BY <1>1, <1>2, <2>1, <2>2, <3>1, <3>2, <3>3 DEF Undisturbed
    <2> QED
      BY <2>2, <2>3, <2>4
  <1>8. CASE WriteGroup(x)
    <2>1. c.step = "write" /\ UNCHANGED <<marker, doubtful>>
      BY <1>8 DEF WriteGroup
    <2>2. PICK g \in c.groups :
            /\ v.groups = c.groups \ {g}
            /\ transcripts' = {r \in transcripts : GroupOf[r.path] # g}
                                 \union {r \in c.rows : GroupOf[r.path] = g}
      BY <1>8, ConversionSteps
    <2>3. /\ v.deny = c.deny /\ v.manifest = c.manifest /\ v.step = "write"
          /\ v.clean = c.clean /\ v.rows = c.rows
      BY <1>8, ConversionSteps
    <2>4. ~Trusted'
      BY <2>1 DEF IncludeInv, Trusted
    <2>5. Undisturbed(x)'
      <3> SUFFICES ASSUME c.clean PROVE Undisturbed(x)'
        BY <2>3 DEF Undisturbed
      <3>1. /\ \A y \in Converters \ {x} : ~Active(y)
            /\ c.manifest = Manifest(c.deny)
            /\ c.rows = RowsOf(Scoped(c.deny))
            /\ transcripts = {r \in c.rows : GroupOf[r.path] \notin c.groups}
        BY <2>1 DEF IncludeInv, Undisturbed, Active
      <3>2. transcripts' = {r \in v.rows : GroupOf[r.path] \notin v.groups}
        BY <2>2, <2>3, <3>1
      <3> QED
        BY <1>1, <1>2, <2>3, <3>1, <3>2 DEF Undisturbed
    <2> QED
      BY <2>3, <2>4, <2>5
  <1> QED
    BY <1>3, <1>4, <1>5, <1>6, <1>7, <1>8 DEF ConversionStep

\* What a conversion does keeps the invariant.
LEMMA ConversionKeeps ==
    ASSUME IncludeTyped, IncludeInv, NEW x \in Converters, ConversionStep(x)
    PROVE  IncludeInv'
  <1>1. tree' = tree /\ stamps' = stamps
    BY ConversionTyped
  <1>2. ASSUME Trusted' PROVE StandsFor(marker)'
    <2>1. CASE Trusted /\ marker' = marker /\ transcripts' = transcripts
      BY <1>1, <2>1 DEF IncludeInv, StandsFor
    <2>2. CASE /\ WriteMarker(x) /\ converters[x].clean
               /\ marker' = converters[x].manifest /\ transcripts' = transcripts
      <3> DEFINE c == converters[x]
      <3>1. c.step = "write" /\ c.groups = {}
        BY <2>2 DEF WriteMarker
      <3>2. c.manifest = Manifest(c.deny) /\ transcripts = RowsOf(Scoped(c.deny))
        BY <2>2, <3>1 DEF IncludeInv, Undisturbed, Active
      <3>3. c.deny \in SUBSET Paths
        BY DEF IncludeTyped, Conversion
      <3>4. \A r \in transcripts :
               r.path \in Scoped(c.deny) /\ r.text = tree[r.path].text
        BY <3>2, Entries
      <3>5. \A p \in Scoped(c.deny) : \E r \in transcripts : r.path = p
        BY <3>2, Entries
      <3>6. \A entry \in c.manifest :
               entry[1] \in Scoped(c.deny) /\ entry[2] = tree[entry[1]].stamp
        BY <3>2, Entries
      <3>7. \A p \in Scoped(c.deny) : \E entry \in c.manifest : entry[1] = p
        BY <3>2, Entries
      <3>8. \A p \in Scoped(c.deny) : p \in Paths /\ tree[p].stamp <= stamps
        BY DEF Scoped, IncludeTyped
      <3> QED
        BY <1>1, <2>2, <3>4, <3>5, <3>6, <3>7, <3>8 DEF StandsFor
    <2> QED
      BY <1>2, <2>1, <2>2, TrustAfter
  <1> QED
    BY <1>2, OwnKeeps, OthersKeep DEF IncludeInv

\* A directory that dir_is_current reports as converted has transcripts of exactly the
\* files in scope, as they are.  Each conversion is the only one from its comparison to its
\* marker, or knows that it was disturbed; the stamps only grow, so that a manifest that
\* holds again is of texts that have not changed since (include_indexer.py:111-133, 236-250).
THEOREM CurrentStaysConverted == IncludeSpec => []CurrentIsConverted
  <1>1. IncludeInit => IncludeInv
    BY DEF IncludeInit, IncludeInv, Trusted, NoConversion, Undisturbed, Active
  <1>2. IncludeTyped /\ IncludeInv /\ [IncludeNext]_includeVars => IncludeInv'
    <2> SUFFICES ASSUME IncludeTyped, IncludeInv, [IncludeNext]_includeVars PROVE IncludeInv'
      OBVIOUS
    <2>1. CASE UNCHANGED includeVars
      BY <2>1 DEF includeVars, IncludeInv, Trusted, StandsFor, Undisturbed, Active, Manifest,
                  Scoped, RowsOf
    <2> QED
      BY <2>1, IncludeTypedNext, EditKeeps, ScopeKeeps, ConversionKeeps
      DEF IncludeNext, ConversionStep
  <1>3. IncludeTyped /\ IncludeInv => CurrentIsConverted
    <2> SUFFICES ASSUME IncludeTyped, IncludeInv, DirIsCurrent, marker \notin doubtful
                 PROVE  transcripts = RowsOf(Scoped(scope.deny))
      BY DEF CurrentIsConverted, RowsOf
    <2>1. marker = Manifest(scope.deny) /\ scope.deny \in SUBSET Paths
      BY DEF DirIsCurrent, IncludeTyped
    <2>2. StandsFor(marker)
      BY <2>1, ManifestTyped, MarkerAssumption DEF IncludeInv, Trusted
    <2>3. /\ \A entry \in marker :
                entry[1] \in Scoped(scope.deny) /\ entry[2] = tree[entry[1]].stamp
          /\ \A p \in Scoped(scope.deny) : \E entry \in marker : entry[1] = p
      BY <2>1, Entries
    <2>4. \A r \in transcripts :
             r \in Rows /\ r.path \in Scoped(scope.deny) /\ r.text = tree[r.path].text
      BY <2>2, <2>3 DEF StandsFor, IncludeTyped
    <2>5. \A p \in Scoped(scope.deny) : \E r \in transcripts : r.path = p
      BY <2>2, <2>3 DEF StandsFor
    <2>6. transcripts \subseteq RowsOf(Scoped(scope.deny))
      BY <2>4 DEF RowsOf, Rows
    <2>7. RowsOf(Scoped(scope.deny)) \subseteq transcripts
      BY <2>4, <2>5 DEF RowsOf, Rows
    <2> QED
      BY <2>6, <2>7
  <1> QED
    BY <1>1, <1>2, <1>3, IncludeTypedInit, IncludeTypedNext, PTL DEF IncludeSpec

=============================================================================

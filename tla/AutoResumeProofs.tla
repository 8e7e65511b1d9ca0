--------------------------- MODULE AutoResumeProofs ---------------------------
(***************************************************************************)
(* What a tick may launch, for any number of ticks, sessions and freezes:  *)
(* not what was launched before it began, nor what a disable made it       *)
(* forget, nor a session that has worked on nothing since.  Each rests on  *)
(* what the tick had read by the time it chose.  Then, for any number of   *)
(* task commands: updates of a task file add up.                           *)
(***************************************************************************)
EXTENDS AutoResume, TLAPS

\* The freezes that have happened.
Happened == {f \in Freezes : freezes[f].age # "none"}

TickSteps == {"idle", "journal", "ledger", "choose", "launch", "record"}

TickType ==
    [step: TickSteps,
     left: SUBSET Freezes, freeze: Freezes \union {NoFreeze}, ok: BOOLEAN,
     launchedBefore: SUBSET Freezes, forgotten: SUBSET Freezes, parked: SUBSET TaskSessions]

\* What the invariant says of the record of one tick: the ledger names what it chose;
\* by the time it chooses, what was launched or forgotten before it began is out of the
\* question; and a session is parked for it while it has been idle ever since.
TickOK(x) ==
    /\ x \in TickType
    /\ x.step \in {"launch", "record"} => x.freeze \in Already
    /\ x.launchedBefore \subseteq launched
    /\ x.step \in {"choose", "launch"} => x.launchedBefore = {}
    /\ x.forgotten \subseteq forgotten
    /\ x.step \in {"ledger", "choose", "launch"} => x.forgotten = {}
    /\ x.left \subseteq Happened
    /\ x.step \notin {"launch", "record"} => x.parked \subseteq IdleSessions
    /\ x.step = "launch" => /\ x.freeze \in Happened
                            /\ freezes[x.freeze].session \notin x.parked

FreezesType ==
    freezes \in [Freezes -> [session: Claims,
                              age: {"none", "other", "frozen", "due", "expired"}]]

\* What a disable made the journal forget never comes back to it.
ForgetInv ==
    /\ toggle \in [step: {"idle", "register", "clear", "unregister"},
                   journaled: SUBSET Freezes]
    /\ journal \subseteq Happened /\ forgotten \subseteq Happened
    /\ toggle.journaled \subseteq Happened
    /\ forgotten \intersect journal = {}
    /\ toggle.step = "unregister" => toggle.journaled \intersect journal = {}

ResumeInv ==
    /\ FreezesType
    /\ ForgetInv
    /\ launched \subseteq Already
    /\ ticks = [t \in Tickers |-> ticks[t]]
    /\ \A t \in Tickers : TickOK(ticks[t])

-----------------------------------------------------------------------------

\* A session with a claimed task is not idle.
LEMMA ClaimedNotIdle == ClaimedSessions \intersect IdleSessions = {}
BY DEF ClaimedSessions, IdleSessions

\* Nothing has happened, no tick has begun.
LEMMA ResumeInvInit == ResumeInit => ResumeInv
<1> SUFFICES ASSUME ResumeInit PROVE ResumeInv
  OBVIOUS
<1>1. FreezesType
  BY DEF ResumeInit, FreezesType, Claims
<1>2. ForgetInv
  BY DEF ResumeInit, ForgetInv, NoToggle
<1>3. ASSUME NEW t \in Tickers PROVE TickOK(ticks[t])
  <2>1. ticks[t] = NoTick
    BY DEF ResumeInit
  <2> QED BY <2>1 DEF TickOK, NoTick, TickType, TickSteps
<1> QED BY <1>1, <1>2, <1>3 DEF ResumeInv, ResumeInit

-----------------------------------------------------------------------------
(* How a step changes a tick *)

\* A tick that goes on with some of the freezes.
LEMMA Narrowed ==
    ASSUME NEW x \in TickType, NEW step \in TickSteps, NEW left \in SUBSET Freezes
    PROVE  /\ Narrow(x, step, left) \in TickType
           /\ Narrow(x, step, left).step = step
           /\ Narrow(x, step, left).left = left
           /\ Narrow(x, step, left).launchedBefore = x.launchedBefore \intersect left
           /\ Narrow(x, step, left).forgotten = x.forgotten \intersect left
           /\ Narrow(x, step, left).parked = x.parked
BY DEF TickType, Narrow

\* A tick that has chosen a freeze.
LEMMA Chosen ==
    ASSUME NEW x \in TickType, NEW f \in Freezes
    PROVE  LET y == [x EXCEPT !.freeze = f]
           IN /\ y \in TickType
              /\ y.step = x.step /\ y.left = x.left /\ y.freeze = f
              /\ y.launchedBefore = x.launchedBefore /\ y.forgotten = x.forgotten
              /\ y.parked = x.parked
BY DEF TickType, TickSteps

\* A tick that has launched, or failed to.
LEMMA Recorded ==
    ASSUME NEW x \in TickType, NEW ok \in BOOLEAN
    PROVE  LET y == [x EXCEPT !.step = "record", !.ok = ok]
           IN /\ y \in TickType
              /\ y.step = "record" /\ y.left = x.left /\ y.freeze = x.freeze
              /\ y.launchedBefore = x.launchedBefore /\ y.forgotten = x.forgotten
              /\ y.parked = x.parked
BY DEF TickType, TickSteps

\* A tick that learns which sessions hold a task.
LEMMA Learned ==
    ASSUME NEW x \in TickType, NEW S
    PROVE  LET y == [x EXCEPT !.parked = @ \intersect S]
           IN /\ y \in TickType
              /\ y.step = x.step /\ y.left = x.left /\ y.freeze = x.freeze
              /\ y.launchedBefore = x.launchedBefore /\ y.forgotten = x.forgotten
              /\ y.parked = x.parked \intersect S
BY DEF TickType, TickSteps

\* A tick that is over.
LEMMA Over ==
    /\ NoTick \in TickType
    /\ NoTick.step = "idle" /\ NoTick.left = {} /\ NoTick.launchedBefore = {}
    /\ NoTick.forgotten = {} /\ NoTick.parked = {}
BY DEF NoTick, TickType, TickSteps

-----------------------------------------------------------------------------
(* Every step keeps the invariant *)

\* What never goes back: the history, the ledger, the freezes.
Monotone ==
    /\ launched \subseteq launched' /\ forgotten \subseteq forgotten'
    /\ Already \subseteq Already' /\ Happened \subseteq Happened'
    /\ \A f \in Happened : freezes'[f].session = freezes[f].session

\* A tick that is as it was.
LEMMA TickKept ==
    ASSUME NEW x, TickOK(x), Monotone, IdleSessions' = IdleSessions
    PROVE  TickOK(x)'
BY DEF TickOK, Monotone

\* A tick that does not exist satisfies it.
LEMMA OverOK == TickOK(NoTick)
BY Over DEF TickOK

\* One tick takes a step, the others stay as they are.
LEMMA OthersKept ==
    ASSUME ResumeInv, Monotone, IdleSessions' = IdleSessions, FreezesType', ForgetInv',
           launched' \subseteq Already', NEW t \in Tickers, NEW y,
           ticks' = [ticks EXCEPT ![t] = y], TickOK(y)'
    PROVE  ResumeInv'
<1>1. ASSUME NEW u \in Tickers PROVE TickOK(ticks[u])'
  <2>1. CASE u = t
    <3>1. ticks'[u] = y
      BY <2>1 DEF ResumeInv
    <3> QED BY <3>1 DEF TickOK
  <2>2. CASE u # t
    <3>1. PICK x : x = ticks[u]
      OBVIOUS
    <3>2. ticks'[u] = x
      BY <2>2, <3>1 DEF ResumeInv
    <3>3. TickOK(x)'
      BY <3>1, TickKept DEF ResumeInv
    <3> QED BY <3>2, <3>3 DEF TickOK
  <2> QED BY <2>1, <2>2
<1>2. ticks' = [u \in Tickers |-> ticks'[u]]
  BY DEF ResumeInv
<1> QED BY <1>1, <1>2 DEF ResumeInv

\* No tick takes a step.
LEMMA TicksKept ==
    ASSUME ResumeInv, Monotone, IdleSessions' = IdleSessions, FreezesType', ForgetInv',
           launched' \subseteq Already', ticks' = ticks
    PROVE  ResumeInv'
<1>1. ASSUME NEW u \in Tickers PROVE TickOK(ticks[u])'
  <2>1. PICK x : x = ticks[u]
    OBVIOUS
  <2>2. TickOK(x)'
    BY <2>1, TickKept DEF ResumeInv
  <2> QED BY <2>1, <2>2 DEF TickOK
<1> QED BY <1>1 DEF ResumeInv

\* One of the steps of a tick.
LEMMA TickStep ==
    ASSUME ResumeInv, NEW t \in Tickers, Tick(t)
    PROVE  ResumeInv'
<1>0. PICK x : x = ticks[t]
  OBVIOUS
<1>1. /\ IdleSessions' = IdleSessions
      /\ TickOK(x) /\ x \in TickType
  BY <1>0 DEF Tick, taskVars, IdleSessions, ResumeInv, TickOK
<1> DEFINE Quiet == UNCHANGED <<journal, freezes, toggle, forgotten>>
<1>2. ASSUME Quiet PROVE FreezesType' /\ ForgetInv' /\ Happened' = Happened
  BY <1>2 DEF ResumeInv, FreezesType, ForgetInv, Happened
<1>3. CASE CheckMarker(t)
  <2> DEFINE due == {f \in Freezes : freezes[f].age = "due"}
  <2>1. PICK y : y = [NoTick EXCEPT !.step = "journal", !.left = due,
                                    !.launchedBefore = launched \intersect due,
                                    !.forgotten = forgotten \intersect due,
                                    !.parked = IdleSessions]
    OBVIOUS
  <2>2. ticks' = [ticks EXCEPT ![t] = y] /\ Quiet /\ UNCHANGED <<ledger, launched>>
    BY <1>3, <2>1 DEF CheckMarker
  <2>3. /\ y \in TickType /\ y.step = "journal" /\ y.left = due
        /\ y.launchedBefore = launched \intersect due
        /\ y.forgotten = forgotten \intersect due /\ y.parked = IdleSessions
    BY <2>1 DEF NoTick, TickType, TickSteps, IdleSessions
  <2>4. Monotone /\ launched' \subseteq Already'
    BY <1>2, <2>2 DEF Monotone, Already, ResumeInv
  <2>5. due \subseteq Happened
    BY DEF Happened
  <2>6. TickOK(y)'
    BY <1>1, <1>2, <2>2, <2>3, <2>5 DEF TickOK
  <2> QED BY <1>1, <1>2, <2>2, <2>4, <2>6, OthersKept
<1>4. CASE ReadJournal(t)
  <2>1. PICK y : y = Narrow(x, "ledger", x.left \intersect journal)
    OBVIOUS
  <2>2. /\ ticks' = [ticks EXCEPT ![t] = y] /\ Quiet /\ UNCHANGED <<ledger, launched>>
        /\ x.step = "journal"
    BY <1>0, <1>4, <2>1 DEF ReadJournal
  <2>3. x.left \in SUBSET Freezes
    BY <1>1 DEF TickType
  <2>4. /\ y \in TickType /\ y.step = "ledger" /\ y.left = x.left \intersect journal
        /\ y.launchedBefore = x.launchedBefore \intersect (x.left \intersect journal)
        /\ y.forgotten = x.forgotten \intersect (x.left \intersect journal)
        /\ y.parked = x.parked
    BY <1>1, <2>1, <2>3, Narrowed DEF TickSteps
  <2>5. Monotone /\ launched' \subseteq Already'
    BY <1>2, <2>2 DEF Monotone, Already, ResumeInv
  <2>6. y.forgotten = {}
    BY <1>1, <2>4 DEF TickOK, ResumeInv, ForgetInv
  <2>7. TickOK(y)'
    BY <1>1, <1>2, <2>2, <2>4, <2>6 DEF TickOK
  <2> QED BY <1>1, <1>2, <2>2, <2>5, <2>7, OthersKept
<1>5. CASE ReadLedger(t)
  <2>1. PICK y : y = Narrow(x, "choose", x.left \ Already)
    OBVIOUS
  <2>2. /\ ticks' = [ticks EXCEPT ![t] = y] /\ Quiet /\ UNCHANGED <<ledger, launched>>
        /\ x.step = "ledger"
    BY <1>0, <1>5, <2>1 DEF ReadLedger
  <2>3. x.left \in SUBSET Freezes
    BY <1>1 DEF TickType
  <2>4. /\ y \in TickType /\ y.step = "choose" /\ y.left = x.left \ Already
        /\ y.launchedBefore = x.launchedBefore \intersect (x.left \ Already)
        /\ y.forgotten = x.forgotten \intersect (x.left \ Already)
        /\ y.parked = x.parked
    BY <1>1, <2>1, <2>3, Narrowed DEF TickSteps
  <2>5. Monotone /\ launched' \subseteq Already'
    BY <1>2, <2>2 DEF Monotone, Already, ResumeInv
  <2>6. y.launchedBefore = {}
    BY <1>1, <2>4 DEF TickOK, ResumeInv
  <2>7. TickOK(y)'
    BY <1>1, <1>2, <2>2, <2>4, <2>6 DEF TickOK
  <2> QED BY <1>1, <1>2, <2>2, <2>5, <2>7, OthersKept
<1>6. CASE ChooseFreeze(t)
  <2>1. PICK f \in Freezes :
          /\ Candidate(t, f)
          /\ ledger' = ledger \union {[freeze |-> f, what |-> "claim"]}
          /\ ticks' = [ticks EXCEPT ![t] = [Narrow(@, "launch", {f}) EXCEPT !.freeze = f]]
    BY <1>6 DEF ChooseFreeze
  <2>2. PICK z : z = Narrow(x, "launch", {f})
    OBVIOUS
  <2>3. PICK y : y = [z EXCEPT !.freeze = f]
    OBVIOUS
  <2>4. ticks' = [ticks EXCEPT ![t] = y]
    BY <1>0, <2>1, <2>2, <2>3
  <2>5. Quiet /\ UNCHANGED launched /\ x.step = "choose"
    BY <1>0, <1>6 DEF ChooseFreeze
  <2>6. /\ z \in TickType /\ z.step = "launch" /\ z.left = {f}
        /\ z.launchedBefore = x.launchedBefore \intersect {f}
        /\ z.forgotten = x.forgotten \intersect {f} /\ z.parked = x.parked
    BY <1>1, <2>2, Narrowed DEF TickSteps
  <2>7. /\ y \in TickType /\ y.step = "launch" /\ y.left = {f} /\ y.freeze = f
        /\ y.launchedBefore = x.launchedBefore \intersect {f}
        /\ y.forgotten = x.forgotten \intersect {f} /\ y.parked = x.parked
    BY <2>3, <2>6, Chosen
  <2>8. Already \subseteq Already' /\ f \in Already'
    <3>1. /\ [freeze |-> f, what |-> "claim"] \in ledger'
          /\ [freeze |-> f, what |-> "claim"].freeze = f
      BY <2>1
    <3>2. ledger \subseteq ledger'
      BY <2>1
    <3> QED BY <3>1, <3>2 DEF Already
  <2>9. Monotone /\ launched' \subseteq Already'
    BY <1>2, <2>5, <2>8 DEF Monotone, ResumeInv
  <2>10. f \in Happened /\ freezes[f].session \notin x.parked
    BY <1>0, <1>1, <2>1, <2>5, ClaimedNotIdle DEF Candidate, TickOK
  <2>11. TickOK(y)'
    BY <1>1, <1>2, <2>5, <2>7, <2>8, <2>10 DEF TickOK
  <2> QED BY <1>1, <1>2, <2>4, <2>5, <2>9, <2>11, OthersKept
<1>7. CASE NothingToResume(t)
  <2>1. PICK y : y = NoTick
    OBVIOUS
  <2>2. ticks' = [ticks EXCEPT ![t] = y] /\ Quiet /\ UNCHANGED <<ledger, launched>>
    BY <1>7, <2>1 DEF NothingToResume
  <2>3. Monotone /\ launched' \subseteq Already'
    BY <1>2, <2>2 DEF Monotone, Already, ResumeInv
  <2>4. TickOK(y)'
    BY <2>1, Over DEF TickOK
  <2> QED BY <1>1, <1>2, <2>2, <2>3, <2>4, OthersKept
<1>8. CASE Launch(t)
  <2>1. PICK ok \in BOOLEAN :
          /\ launched' = IF ok THEN launched \union {ticks[t].freeze} ELSE launched
          /\ ticks' = [ticks EXCEPT ![t].step = "record", ![t].ok = ok]
    BY <1>8 DEF Launch
  <2>2. PICK y : y = [x EXCEPT !.step = "record", !.ok = ok]
    OBVIOUS
  <2>3. ticks' = [ticks EXCEPT ![t] = y]
    BY <1>0, <2>1, <2>2
  <2>4. Quiet /\ UNCHANGED ledger /\ x.step = "launch"
    BY <1>0, <1>8 DEF Launch
  <2>5. /\ y \in TickType /\ y.step = "record" /\ y.left = x.left /\ y.freeze = x.freeze
        /\ y.launchedBefore = x.launchedBefore /\ y.forgotten = x.forgotten
        /\ y.parked = x.parked
    BY <1>1, <2>2, Recorded
  <2>6. x.freeze \in Already /\ Already' = Already
    BY <1>1, <2>4 DEF TickOK, Already
  <2>7. Monotone /\ launched' \subseteq Already'
    BY <1>0, <1>2, <2>1, <2>4, <2>6 DEF Monotone, ResumeInv
  <2>8. TickOK(y)'
    BY <1>1, <1>2, <2>1, <2>4, <2>5, <2>6 DEF TickOK
  <2> QED BY <1>1, <1>2, <2>3, <2>4, <2>7, <2>8, OthersKept
<1>9. CASE RecordOutcome(t)
  <2>1. PICK y : y = NoTick
    OBVIOUS
  <2>2. /\ ticks' = [ticks EXCEPT ![t] = y] /\ Quiet /\ UNCHANGED launched
        /\ ledger \subseteq ledger'
    BY <1>9, <2>1 DEF RecordOutcome
  <2>3. Monotone /\ launched' \subseteq Already'
    BY <1>2, <2>2 DEF Monotone, Already, ResumeInv
  <2>4. TickOK(y)'
    BY <2>1, Over DEF TickOK
  <2> QED BY <1>1, <1>2, <2>2, <2>3, <2>4, OthersKept
<1> QED BY <1>3, <1>4, <1>5, <1>6, <1>7, <1>8, <1>9 DEF Tick

\* A step that is no tick's.
LEMMA OtherStep ==
    ASSUME ResumeInv, Freeze \/ Age \/ Toggle \/ KillResume, UNCHANGED taskVars
    PROVE  ResumeInv'
<1>1. IdleSessions' = IdleSessions
  BY DEF taskVars, IdleSessions
<1> USE DEF ResumeInv, FreezesType, ForgetInv, Happened
<1>2. CASE Freeze
  <2>1. PICK f \in Freezes, session \in TaskSessions, age \in {"frozen", "other"} :
          /\ freezes[f].age = "none"
          /\ freezes' = [freezes EXCEPT ![f] = [session |-> session, age |-> age]]
          /\ journal' = IF hook = "ok" THEN journal \union {f} ELSE journal
    BY <1>2 DEF Freeze
  <2>2. UNCHANGED <<ledger, ticks, toggle, launched, forgotten>>
    BY <1>2 DEF Freeze
  <2>3. FreezesType' /\ Happened' = Happened \union {f} /\ f \notin Happened
    BY <2>1 DEF Claims
  <2>4. Monotone /\ launched' \subseteq Already'
    BY <2>1, <2>2, <2>3 DEF Monotone, Already
  <2>5. ForgetInv'
    BY <2>1, <2>2, <2>3
  <2> QED BY <1>1, <2>2, <2>3, <2>4, <2>5, TicksKept
<1>3. CASE Age
  <2>1. PICK f \in Freezes :
          /\ freezes[f].age \in {"frozen", "due"}
          /\ freezes' = [freezes EXCEPT ![f].age = IF @ = "frozen" THEN "due" ELSE "expired"]
    BY <1>3 DEF Age
  <2>2. UNCHANGED <<journal, ledger, ticks, toggle, launched, forgotten>>
    BY <1>3 DEF Age
  <2>3. /\ FreezesType' /\ Happened' = Happened
        /\ \A g \in Freezes : freezes'[g].session = freezes[g].session
    BY <2>1
  <2>4. Monotone /\ launched' \subseteq Already'
    BY <2>2, <2>3 DEF Monotone, Already
  <2>5. ForgetInv'
    BY <2>2, <2>3
  <2> QED BY <1>1, <2>2, <2>3, <2>4, <2>5, TicksKept
<1>4. CASE Toggle
  <2>1. UNCHANGED <<freezes, ledger, ticks, launched>> /\ forgotten \subseteq forgotten'
    BY <1>4 DEF Toggle, EnableMarker, RegisterHook, DisableMarker, ClearJournal, RemoveHook
  <2>2. FreezesType' /\ Monotone /\ launched' \subseteq Already'
    BY <2>1 DEF Monotone, Already
  <2>3. ForgetInv'
    <3>1. CASE EnableMarker
      BY <3>1 DEF EnableMarker, BeginToggle, NoToggle
    <3>2. CASE RegisterHook
      BY <3>2 DEF RegisterHook, NoToggle
    <3>3. CASE DisableMarker
      BY <3>3 DEF DisableMarker, BeginToggle
    <3>4. CASE ClearJournal
      BY <3>4 DEF ClearJournal
    <3>5. CASE RemoveHook
      BY <3>5 DEF RemoveHook, NoToggle
    <3> QED BY <1>4, <3>1, <3>2, <3>3, <3>4, <3>5 DEF Toggle
  <2> QED BY <1>1, <2>1, <2>2, <2>3, TicksKept
<1>5. CASE KillResume
  <2>1. UNCHANGED <<journal, freezes, ledger, launched, forgotten>>
    BY <1>5 DEF KillResume
  <2>2. FreezesType' /\ Monotone /\ launched' \subseteq Already'
    BY <2>1 DEF Monotone, Already
  <2>3. CASE /\ \E t \in Tickers : ticks' = [ticks EXCEPT ![t] = NoTick]
             /\ UNCHANGED toggle
    <3>1. PICK t \in Tickers : ticks' = [ticks EXCEPT ![t] = NoTick]
      BY <2>3
    <3>2. PICK y : y = NoTick
      OBVIOUS
    <3>3. TickOK(y)'
      BY <3>2, Over DEF TickOK
    <3>4. ForgetInv'
      BY <2>1, <2>3
    <3> QED BY <1>1, <2>2, <3>1, <3>2, <3>3, <3>4, OthersKept
  <2>4. CASE toggle' = NoToggle /\ UNCHANGED ticks
    <3>1. ForgetInv'
      BY <2>1, <2>4 DEF NoToggle
    <3> QED BY <1>1, <2>2, <2>4, <3>1, TicksKept
  <2> QED BY <1>5, <2>3, <2>4 DEF KillResume
<1> QED BY <1>2, <1>3, <1>4, <1>5

\* A task command: every tick learns which sessions hold a task.
LEMMA CommandStep ==
    ASSUME ResumeInv, TaskCommand
    PROVE  ResumeInv'
<1>1. /\ ticks' = [t \in Tickers |-> [ticks[t] EXCEPT !.parked = @ \intersect IdleSessions']]
      /\ UNCHANGED <<journal, freezes, ledger, toggle, launched, forgotten>>
  BY DEF TaskCommand
<1>2. FreezesType' /\ ForgetInv' /\ Happened' = Happened /\ launched' \subseteq Already'
  BY <1>1 DEF ResumeInv, FreezesType, ForgetInv, Happened, Already
<1>3. ASSUME NEW t \in Tickers PROVE TickOK(ticks[t])'
  <2>1. PICK x : x = ticks[t]
    OBVIOUS
  <2>2. PICK S : S = IdleSessions'
    OBVIOUS
  <2>3. PICK y : y = [x EXCEPT !.parked = @ \intersect S]
    OBVIOUS
  <2>4. ticks'[t] = y
    BY <1>1, <2>1, <2>2, <2>3
  <2>5. x \in TickType /\ TickOK(x)
    BY <2>1 DEF ResumeInv, TickOK
  <2>6. /\ y \in TickType
        /\ y.step = x.step /\ y.left = x.left /\ y.freeze = x.freeze
        /\ y.launchedBefore = x.launchedBefore /\ y.forgotten = x.forgotten
        /\ y.parked = x.parked \intersect S
    BY <2>3, <2>5, Learned
  <2>7. Already' = Already
    BY <1>1 DEF Already
  <2>8. TickOK(y)'
    BY <1>1, <1>2, <2>2, <2>5, <2>6, <2>7 DEF TickOK
  <2> QED BY <2>4, <2>8 DEF TickOK
<1> QED BY <1>1, <1>2, <1>3 DEF ResumeInv

\* A stutter.
LEMMA StutterStep ==
    ASSUME ResumeInv, UNCHANGED <<resumeVars, taskVars>>
    PROVE  ResumeInv'
<1>1. IdleSessions' = IdleSessions /\ ticks' = ticks
  BY DEF resumeVars, taskVars, IdleSessions
<1>2. FreezesType' /\ ForgetInv' /\ Monotone /\ launched' \subseteq Already'
  BY DEF resumeVars, ResumeInv, FreezesType, ForgetInv, Happened, Monotone, Already
<1> QED BY <1>1, <1>2, TicksKept

\* The invariant holds throughout.
THEOREM ResumeInvariant == ResumeSpec => []ResumeInv
<1>1. ResumeInit => ResumeInv
  BY ResumeInvInit
<1>2. ResumeInv /\ [ResumeNext]_<<resumeVars, taskVars>> => ResumeInv'
  BY TickStep, OtherStep, CommandStep, StutterStep DEF ResumeNext
<1> QED BY <1>1, <1>2, PTL DEF ResumeSpec

-----------------------------------------------------------------------------
(* What a tick never launches *)

\* In a state that satisfies the invariant, what a tick is about to launch was not
\* launched before it began, was not forgotten before, and is not of a parked session.
LEMMA LaunchIsSound ==
    ASSUME ResumeInv, NEW t \in Tickers, NEW f \in Freezes, Launches(t, f)
    PROVE  /\ f \notin ticks[t].launchedBefore /\ f \notin ticks[t].forgotten
           /\ freezes[f].session \notin ticks[t].parked
BY DEF ResumeInv, TickOK, Launches

\* However ticks overlap or are killed and whatever is toggled, no tick launches a freeze
\* that had been launched when it began (resume.py:324-340).
THEOREM LaunchedOnce == ResumeSpec => OneLaunchPerFreeze
<1>1. ResumeInv => [\A t \in Tickers, f \in Freezes :
                      Launches(t, f) => f \notin ticks[t].launchedBefore]_resumeVars
  BY LaunchIsSound
<1> QED BY <1>1, ResumeInvariant, PTL DEF OneLaunchPerFreeze

\* No tick launches what a finished disable made the journal forget before it began
\* (cli_resume.py:258-268).
THEOREM ForgottenForGood == ResumeSpec => DisableForgetsFreezes
<1>1. ResumeInv => [\A t \in Tickers, f \in Freezes :
                      Launches(t, f) => f \notin ticks[t].forgotten]_resumeVars
  BY LaunchIsSound
<1> QED BY <1>1, ResumeInvariant, PTL DEF DisableForgetsFreezes

\* No tick launches a session that has held no task in progress since it began
\* (resume.py:295-311).
THEOREM ParkedStays == ResumeSpec => ParkedNotResumed
<1>1. ResumeInv => [\A t \in Tickers, f \in Freezes :
                      Launches(t, f) => freezes[f].session \notin ticks[t].parked]_resumeVars
  BY LaunchIsSound
<1> QED BY <1>1, ResumeInvariant, PTL DEF ParkedNotResumed

-----------------------------------------------------------------------------
(* Types of the ticks *)

\* What ResumeInv does not say of the types.
ResumeFiles ==
    /\ enabled \in BOOLEAN /\ hook \in {"none", "broken", "ok"}
    /\ ledger \subseteq [freeze: Freezes, what: {"claim", "launched", "launch_failed"}]

\* The journal, the ledger and the passes over them are well formed (resume.py:50-370).
THEOREM ResumeIsTyped == ResumeSpec => []ResumeTypeOK
  <1>1. ResumeInit => ResumeFiles
    BY DEF ResumeInit, ResumeFiles
  <1>2. ASSUME ResumeInv, ResumeFiles, [ResumeNext]_<<resumeVars, taskVars>>
        PROVE  ResumeFiles'
    <2>1. ASSUME NEW t \in Tickers, Tick(t) PROVE ResumeFiles'
      <3>1. enabled' = enabled /\ hook' = hook
        BY <2>1 DEF Tick, CheckMarker, ReadJournal, ReadLedger, ChooseFreeze, NothingToResume,
                    Launch, RecordOutcome
      <3>2. CASE ChooseFreeze(t)
        <4>1. PICK f \in Freezes : ledger' = ledger \union {[freeze |-> f, what |-> "claim"]}
          BY <3>2 DEF ChooseFreeze
        <4> QED BY <1>2, <3>1, <4>1 DEF ResumeFiles
      <3>3. CASE RecordOutcome(t)
        <4>1. PICK what \in {"launched", "launch_failed"} :
                ledger' = ledger \union {[freeze |-> ticks[t].freeze, what |-> what]}
          BY <3>3 DEF RecordOutcome
        <4>2. ticks[t].freeze \in Freezes
          BY <1>2, <3>3 DEF RecordOutcome, ResumeInv, TickOK, Already, ResumeFiles
        <4> QED BY <1>2, <3>1, <4>1, <4>2 DEF ResumeFiles
      <3>4. CASE ~ChooseFreeze(t) /\ ~RecordOutcome(t)
        <4>1. ledger' = ledger
          BY <2>1, <3>4 DEF Tick, CheckMarker, ReadJournal, ReadLedger, NothingToResume, Launch
        <4> QED BY <1>2, <3>1, <4>1 DEF ResumeFiles
      <3> QED BY <3>2, <3>3, <3>4
    <2>2. CASE Toggle
      BY <1>2, <2>2 DEF Toggle, EnableMarker, RegisterHook, DisableMarker, ClearJournal,
                        RemoveHook, ResumeFiles
    <2>3. CASE Freeze \/ Age \/ KillResume \/ TaskCommand
      BY <1>2, <2>3 DEF Freeze, Age, KillResume, TaskCommand, ResumeFiles
    <2>4. CASE UNCHANGED <<resumeVars, taskVars>>
      BY <1>2, <2>4 DEF resumeVars, ResumeFiles
    <2> QED BY <1>2, <2>1, <2>2, <2>3, <2>4 DEF ResumeNext
  <1>3. ResumeInv /\ ResumeFiles => ResumeTypeOK
    <2> SUFFICES ASSUME ResumeInv, ResumeFiles PROVE ResumeTypeOK
      OBVIOUS
    <2>1. Already \subseteq Freezes
      BY DEF ResumeFiles, Already
    <2>2. \A f \in Freezes : freezes[f].age \in {"none", "other", "frozen", "due", "expired"}
      BY DEF ResumeInv, FreezesType
    <2>3. \A t \in Tickers : /\ ticks[t].step \in TickSteps
                             /\ ticks[t].step \in {"launch", "record"} => ticks[t].freeze \in Already
      BY DEF ResumeInv, TickOK, TickType
    <2>4. /\ journal \subseteq Freezes /\ forgotten \subseteq Freezes
          /\ toggle.step \in {"idle", "register", "clear", "unregister"}
      BY DEF ResumeInv, ForgetInv, Happened
    <2> QED BY <2>1, <2>2, <2>3, <2>4 DEF ResumeInv, ResumeFiles, ResumeTypeOK, TickSteps
  <1> QED BY <1>1, <1>2, <1>3, ResumeInvariant, PTL DEF ResumeSpec

-----------------------------------------------------------------------------
(* The task files *)

UpdateOps == {"start", "done", "block"}

Writers ==
    [op: {"none", "add"} \union UpdateOps,
     step: {"idle", "open", "fill", "read", "parse", "compare", "replace"},
     name: TaskNames, session: Claims, before: TaskFile, current: TaskFile,
     attempt: 1..CasMaxAttempts, others: 0..2, late: BOOLEAN]

Updating == {"read", "parse", "compare", "replace"}

\* What a command has in hand: an update names a file that is there, and what it has
\* parsed is a task to which a reason may be added.
Handles(u) ==
    /\ u.step = "fill" => tasks[u.name] # Absent
    /\ u.step \in Updating => u.op \in UpdateOps /\ tasks[u.name] # Absent
    /\ u.op \in {"done", "block"} => u.session = NoSession
    /\ u.step \in {"compare", "replace"} =>
          Parsed(u.current) /\ (u.op = "block" => u.current.notes < MaxNotes)

\* What an update knows of the file.  Undisturbed, it has read the same twice; one
\* write may have come between its two reads, or after them until it compares.
Knows(u) ==
    /\ u.step = "parse" /\ u.others = 0 => tasks[u.name] = u.before
    /\ u.step = "compare" =>
          /\ u.others = 0 => tasks[u.name] = u.before /\ u.current = u.before
          /\ u.others = 1 => u.current \in {u.before, tasks[u.name]}
    /\ u.step = "replace" /\ u.others < 2 /\ ~u.late => u.current = tasks[u.name]

TaskTyped == TaskTypeOK /\ \A w \in TaskWriters : Handles(writers[w])

TaskInv == TaskTyped /\ \A w \in TaskWriters : Knows(writers[w])

\* An idle command, no file and an empty one are well formed.
LEMMA TaskConstants ==
    /\ Idle \in Writers /\ Absent \in TaskFile /\ Empty \in TaskFile /\ Empty # Absent
    /\ [Empty EXCEPT !.status = "open"] \in TaskFile
    /\ [Empty EXCEPT !.status = "open"] # Absent
  BY TaskAssumption DEF Idle, Writers, Absent, Empty, TaskFile, Claims, TaskNames, CasMaxAttempts

\* Changing a task gives a task.
LEMMA MutateTyped ==
    ASSUME NEW op \in UpdateOps, NEW session \in Claims, NEW task \in TaskFile,
           op = "block" => task.notes < MaxNotes
    PROVE  Mutate(op, session, task) \in TaskFile /\ Mutate(op, session, task) # Absent
  <1>1. MaxNotes \in Nat /\ NoSession \in Claims
    BY TaskAssumption DEF Claims
  <1>2. CASE op = "start"
    BY <1>2 DEF Mutate, TaskFile, Absent
  <1>3. CASE op = "done"
    BY <1>1, <1>3 DEF Mutate, TaskFile, Absent
  <1>4. CASE op = "block"
    <2>1. task.notes + 1 \in 0..MaxNotes
      BY <1>1, <1>4 DEF TaskFile
    <2> QED BY <1>4, <2>1 DEF Mutate, TaskFile, Absent
  <1> QED BY <1>2, <1>3, <1>4 DEF UpdateOps

Aware(u, name) == u.step \in {"parse", "compare", "replace"} /\ u.name = name

\* The others learn of a write, and are otherwise as they were.
LEMMA WroteOthers ==
    ASSUME NEW name, NEW w, NEW v \in TaskWriters \ {w}, NEW u, NEW x,
           writers[v] \in Writers, u = writers[v], x = Wrote(w, name)[v]
    PROVE  /\ x \in Writers
           /\ x.step = u.step /\ x.name = u.name /\ x.op = u.op /\ x.session = u.session
           /\ x.before = u.before /\ x.current = u.current
           /\ ~Aware(u, name) => x = u
           /\ Aware(u, name) =>
                 /\ x.others > 0
                 /\ x.others = 1 => u.others = 0
                 /\ u.step = "replace" => x.late
  <1>1. CASE Aware(u, name)
    <2>1. x = [u EXCEPT !.others = IF @ < 2 THEN @ + 1 ELSE 2,
                        !.late = @ \/ u.step = "replace"]
      BY <1>1 DEF Wrote, Aware
    <2>2. u \in Writers /\ u.others \in 0..2 /\ u.late \in BOOLEAN
      BY DEF Writers
    <2>3. PICK k \in 0..2 : /\ k = IF u.others < 2 THEN u.others + 1 ELSE 2
                            /\ k > 0 /\ (k = 1 => u.others = 0)
      BY <2>2
    <2>4. PICK b \in BOOLEAN : b = (u.late \/ u.step = "replace")
      OBVIOUS
    <2>5. x = [u EXCEPT !.others = k, !.late = b]
      BY <2>1, <2>3, <2>4
    <2>6. /\ x \in Writers /\ x.others = k /\ x.late = b
          /\ x.step = u.step /\ x.name = u.name /\ x.op = u.op /\ x.session = u.session
          /\ x.before = u.before /\ x.current = u.current
      BY <2>2, <2>5 DEF Writers
    <2> QED BY <1>1, <2>3, <2>4, <2>6
  <1>2. CASE ~Aware(u, name)
    BY <1>2 DEF Wrote, Aware
  <1> QED BY <1>1, <1>2

\* A step of w keeps the invariant of all, if it keeps that of w.
LEMMA OthersWrite ==
    ASSUME TaskTyped, NEW w \in TaskWriters,
           NEW u \in Writers, NEW file \in TaskFile, NEW name \in TaskNames, file # Absent,
           tasks' = [tasks EXCEPT ![name] = file],
           \/ writers' = [Wrote(w, name) EXCEPT ![w] = u]
           \/ writers' = [writers EXCEPT ![w] = u] /\ tasks[name] = Absent,
           UNCHANGED <<taskOps, taskKills>>,
           Handles(u)'
    PROVE  /\ TaskTyped'
           /\ TaskInv /\ Knows(u)' => TaskInv'
  <1>1. /\ tasks \in [TaskNames -> TaskFile] /\ writers \in [TaskWriters -> Writers]
        /\ tasks' \in [TaskNames -> TaskFile]
    BY DEF TaskTyped, TaskTypeOK, Writers, UpdateOps
  <1>2. /\ \A n \in TaskNames \ {name} : tasks'[n] = tasks[n]
        /\ tasks'[name] = file
    BY <1>1
  <1>3. /\ writers'[w] = u /\ DOMAIN writers' = TaskWriters
        /\ writers' = [v \in TaskWriters |-> writers'[v]]
    BY <1>1 DEF Wrote
  <1>4. ASSUME NEW v \in TaskWriters \ {w}
        PROVE  /\ writers'[v] \in Writers /\ Handles(writers[v])'
               /\ Knows(writers[v]) => Knows(writers[v])'
    <2>1. writers[v] \in Writers /\ Handles(writers[v]) /\ writers[v].name \in TaskNames
      BY <1>1 DEF TaskTyped, Writers
    <2>2. \/ writers'[v] = Wrote(w, name)[v]
          \/ writers'[v] = writers[v] /\ tasks[name] = Absent
      BY <1>1 DEF Wrote
    <2>3. writers'[v] \in Writers
      BY <2>1, <2>2, WroteOthers
    <2>4. /\ writers'[v].step = writers[v].step /\ writers'[v].name = writers[v].name
          /\ writers'[v].op = writers[v].op /\ writers'[v].session = writers[v].session
          /\ writers'[v].before = writers[v].before /\ writers'[v].current = writers[v].current
      BY <2>1, <2>2, WroteOthers
    <2>5. Handles(writers[v])'
      BY <1>2, <2>1, <2>4 DEF Handles
    <2>6. ASSUME Knows(writers[v]) PROVE Knows(writers[v])'
      <3>1. CASE writers[v].name # name
        <4>1. writers'[v] = writers[v] /\ tasks'[writers[v].name] = tasks[writers[v].name]
          BY <1>2, <2>1, <2>2, <3>1, WroteOthers DEF Aware
        <4> QED BY <2>6, <4>1 DEF Knows
      <3>2. CASE writers[v].step \notin {"parse", "compare", "replace"}
        BY <2>4, <3>2 DEF Knows
      <3>3. CASE writers[v].name = name /\ writers[v].step \in {"parse", "compare", "replace"}
        <4>1. tasks[name] # Absent
          BY <2>1, <3>3 DEF Handles, Updating
        <4>2. /\ writers'[v].others > 0
              /\ writers'[v].others = 1 => writers[v].others = 0
              /\ writers[v].step = "replace" => writers'[v].late
          BY <2>1, <2>2, <3>3, <4>1, WroteOthers DEF Aware
        <4> QED BY <2>3, <2>4, <2>6, <3>3, <4>2 DEF Knows, Writers
      <3> QED BY <3>1, <3>2, <3>3
    <2> QED BY <2>3, <2>5, <2>6
  <1>5. writers' \in [TaskWriters -> Writers]
    BY <1>3, <1>4
  <1>6. TaskTypeOK'
    BY <1>1, <1>5 DEF TaskTyped, TaskTypeOK, Writers, UpdateOps
  <1>7. \A v \in TaskWriters : Handles(writers[v])'
    BY <1>3, <1>4
  <1> QED BY <1>3, <1>4, <1>6, <1>7 DEF TaskTyped, TaskInv

\* A step of w that writes no file.
LEMMA OwnStep ==
    ASSUME TaskTyped, NEW w \in TaskWriters, NEW u \in Writers, tasks' = tasks,
           writers' = [writers EXCEPT ![w] = u],
           taskOps' \in 0..MaxTaskOps, taskKills' \in 0..TaskKills,
           Handles(u)
    PROVE  /\ TaskTyped'
           /\ TaskInv /\ Knows(u) => TaskInv'
  <1>1. writers \in [TaskWriters -> Writers]
    BY DEF TaskTyped, TaskTypeOK, Writers, UpdateOps
  <1>2. /\ writers' \in [TaskWriters -> Writers] /\ writers'[w] = u
        /\ \A v \in TaskWriters \ {w} : writers'[v] = writers[v]
    BY <1>1
  <1>3. TaskTypeOK'
    BY <1>2 DEF TaskTyped, TaskTypeOK, Writers, UpdateOps
  <1>4. \A v \in TaskWriters : Handles(writers[v])'
    BY <1>2 DEF TaskTyped, Handles
  <1>5. TaskInv /\ Knows(u) => \A v \in TaskWriters : Knows(writers[v])'
    BY <1>2 DEF TaskInv, Knows
  <1> QED BY <1>3, <1>4, <1>5 DEF TaskTyped, TaskInv

\* A record with another step is a command.
LEMMA StepTyped ==
    ASSUME TaskTyped, NEW w \in TaskWriters
    PROVE  /\ writers[w] \in Writers /\ Handles(writers[w])
           /\ tasks \in [TaskNames -> TaskFile] /\ writers[w].name \in TaskNames
           /\ tasks[writers[w].name] \in TaskFile
           /\ taskOps \in 0..MaxTaskOps /\ taskKills \in 0..TaskKills
           /\ MaxTaskOps \in Nat /\ TaskKills \in Nat
  BY TaskAssumption DEF TaskTyped, TaskTypeOK, Writers, UpdateOps

\* Beginning a command.
LEMMA BeginInv ==
    ASSUME TaskTyped, NEW w \in TaskWriters, BeginAdd(w) \/ BeginUpdate(w)
    PROVE  TaskTyped' /\ (TaskInv => TaskInv')
  <1>1. tasks' = tasks /\ taskOps' \in 0..MaxTaskOps /\ taskKills' \in 0..TaskKills
    <2>1. /\ taskOps \in 0..MaxTaskOps /\ taskKills \in 0..TaskKills
          /\ MaxTaskOps \in Nat /\ TaskKills \in Nat
      BY StepTyped
    <2>2. /\ tasks' = tasks /\ taskOps < MaxTaskOps
          /\ taskOps' = taskOps + 1 /\ taskKills' = taskKills
      BY DEF BeginAdd, BeginUpdate, BeginOp
    <2> QED BY <2>1, <2>2
  <1>2. CASE BeginAdd(w)
    <2>1. PICK u \in Writers :
            /\ writers' = [writers EXCEPT ![w] = u] /\ u.op = "add" /\ u.step = "open"
      <3>1. [Idle EXCEPT !.op = "add", !.step = "open"] \in Writers
        BY TaskConstants DEF Writers
      <3> QED BY <1>2, <3>1 DEF BeginAdd, Idle
    <2>2. Handles(u) /\ Knows(u)
      BY <2>1 DEF Handles, Knows, Updating
    <2> QED BY <1>1, <2>1, <2>2, OwnStep
  <1>3. CASE BeginUpdate(w)
    <2>1. PICK name \in TaskNames, op \in UpdateOps, session \in Claims :
            /\ tasks[name] # Absent /\ (op # "start" => session = NoSession)
            /\ writers' = [writers EXCEPT ![w] = [Idle EXCEPT !.op = op, !.step = "read",
                                                   !.name = name, !.session = session]]
      BY <1>3 DEF BeginUpdate, UpdateOps
    <2>2. PICK u \in Writers :
            /\ writers' = [writers EXCEPT ![w] = u] /\ u.op = op /\ u.step = "read"
            /\ u.name = name /\ u.session = session
      <3>1. /\ [Idle EXCEPT !.op = op, !.step = "read", !.name = name, !.session = session]
                  \in Writers
        BY TaskConstants DEF Writers
      <3> QED BY <2>1, <3>1 DEF Idle
    <2>3. Handles(u) /\ Knows(u)
      BY <2>1, <2>2 DEF Handles, Knows, Updating, UpdateOps
    <2> QED BY <1>1, <2>2, <2>3, OwnStep
  <1> QED BY <1>2, <1>3

\* Creating a file, empty, under a free name.
LEMMA OpenInv ==
    ASSUME TaskTyped, NEW w \in TaskWriters, OpenTask(w)
    PROVE  TaskTyped' /\ (TaskInv => TaskInv')
  <1>1. PICK name \in TaskNames :
          /\ tasks[name] = Absent /\ tasks' = [tasks EXCEPT ![name] = Empty]
          /\ writers' = [writers EXCEPT ![w].step = "fill", ![w].name = name]
    BY DEF OpenTask
  <1>2. writers[w].step = "open" /\ UNCHANGED <<taskOps, taskKills>>
    BY DEF OpenTask
  <1>3. PICK u \in Writers :
          /\ writers' = [writers EXCEPT ![w] = u] /\ u.step = "fill" /\ u.name = name
          /\ u.op = writers[w].op /\ u.session = writers[w].session
    <2>1. [writers[w] EXCEPT !.step = "fill", !.name = name] \in Writers
      BY StepTyped DEF Writers
    <2>2. writers' = [writers EXCEPT ![w] = [writers[w] EXCEPT !.step = "fill", !.name = name]]
      BY <1>1
    <2> QED BY <2>1, <2>2, StepTyped DEF Writers
  <1>4. tasks'[name] = Empty
    BY <1>1, StepTyped
  <1>5. Handles(u)' /\ Knows(u)'
    BY <1>3, <1>4, StepTyped, TaskConstants DEF Handles, Knows, Updating
  <1> QED BY <1>1, <1>2, <1>3, <1>5, TaskConstants, OthersWrite

\* Writing a file: the new task, or what an update makes of the one it parsed.
LEMMA WriteInv ==
    ASSUME TaskTyped, NEW w \in TaskWriters, FillTask(w) \/ ReplaceTask(w)
    PROVE  TaskTyped' /\ (TaskInv => TaskInv')
  <1>1. writers' = [Wrote(w, writers[w].name) EXCEPT ![w] = Idle]
        /\ UNCHANGED <<taskOps, taskKills>>
    BY DEF FillTask, ReplaceTask
  <1>2. PICK file \in TaskFile :
          file # Absent /\ tasks' = [tasks EXCEPT ![writers[w].name] = file]
    <2>1. CASE FillTask(w)
      BY <2>1, TaskConstants DEF FillTask
    <2>2. CASE ReplaceTask(w)
      <3>1. tasks' = [tasks EXCEPT ![writers[w].name] =
                        Mutate(writers[w].op, writers[w].session, writers[w].current)]
        BY <2>2 DEF ReplaceTask
      <3>2. /\ writers[w].op \in UpdateOps /\ writers[w].session \in Claims
            /\ writers[w].current \in TaskFile
            /\ writers[w].op = "block" => writers[w].current.notes < MaxNotes
        BY <2>2, StepTyped DEF ReplaceTask, Handles, Updating, Writers
      <3> QED BY <3>1, <3>2, MutateTyped
    <2> QED BY <2>1, <2>2
  <1>3. Handles(Idle)' /\ Knows(Idle)'
    BY DEF Handles, Knows, Idle, Updating
  <1> QED BY <1>1, <1>2, <1>3, StepTyped, TaskConstants, OthersWrite

\* Reading the bytes that are hashed.
LEMMA ReadInv ==
    ASSUME TaskTyped, NEW w \in TaskWriters, ReadTask(w)
    PROVE  TaskTyped' /\ (TaskInv => TaskInv')
  <1>1. PICK u \in Writers :
          /\ writers' = [writers EXCEPT ![w] = u] /\ u.step = "parse" /\ u.others = 0
          /\ u.before = tasks[u.name] /\ u.name = writers[w].name
          /\ u.op = writers[w].op /\ u.session = writers[w].session
    <2>1. PICK u : u = [writers[w] EXCEPT !.step = "parse", !.others = 0,
                                          !.before = tasks[writers[w].name]]
      OBVIOUS
    <2>2. writers[w] \in Writers /\ tasks[writers[w].name] \in TaskFile
      BY StepTyped
    <2>4. u \in Writers
      <3>1. /\ \A x \in Writers : [x EXCEPT !.step = "parse"] \in Writers
            /\ \A x \in Writers, k \in 0..2 : [x EXCEPT !.others = k] \in Writers
            /\ 0 \in 0..2
        BY DEF Writers
      <3>2. \A x \in Writers, f \in TaskFile : [x EXCEPT !.before = f] \in Writers
        BY DEF Writers
      <3> QED BY <2>1, <2>2, <3>1, <3>2
    <2>3. writers' = [writers EXCEPT ![w] = u]
      BY <2>1 DEF ReadTask
    <2> QED BY <2>1, <2>2, <2>3, <2>4 DEF Writers
  <1>2. Handles(u) /\ Knows(u)
    BY <1>1, StepTyped DEF ReadTask, Handles, Knows, Updating
  <1> QED BY <1>1, <1>2, StepTyped, OwnStep DEF ReadTask

\* A command that gives up, or is killed.
LEMMA DropInv ==
    ASSUME TaskTyped, NEW w \in TaskWriters, tasks' = tasks,
           writers' = [writers EXCEPT ![w] = Idle],
           taskOps' \in 0..MaxTaskOps, taskKills' \in 0..TaskKills
    PROVE  TaskTyped' /\ (TaskInv => TaskInv')
  <1>1. Handles(Idle) /\ Knows(Idle)
    BY DEF Handles, Knows, Idle, Updating
  <1> QED BY <1>1, TaskConstants, OwnStep

\* Reading the file again, to parse it.
LEMMA ParseInv ==
    ASSUME TaskTyped, NEW w \in TaskWriters, ParseTask(w)
    PROVE  TaskTyped' /\ (TaskInv => TaskInv')
  <1>1. PICK file : file = tasks[writers[w].name]
    OBVIOUS
  <1>2. /\ writers[w].step = "parse" /\ tasks' = tasks /\ UNCHANGED <<taskOps, taskKills>>
        /\ writers[w].op = "block" => file.notes < MaxNotes
        /\ writers' = [writers EXCEPT ![w] = IF Parsed(file)
                                            THEN [@ EXCEPT !.step = "compare", !.current = file]
                                            ELSE Idle]
    BY <1>1 DEF ParseTask
  <1>3. CASE ~Parsed(file)
    BY <1>2, <1>3, StepTyped, DropInv
  <1>4. CASE Parsed(file)
    <2>1. PICK u : u = [writers[w] EXCEPT !.step = "compare", !.current = file]
      OBVIOUS
    <2>2. /\ u \in Writers /\ u.step = "compare" /\ u.current = file
          /\ u.name = writers[w].name /\ u.op = writers[w].op
          /\ u.session = writers[w].session
          /\ u.before = writers[w].before /\ u.others = writers[w].others
      BY <1>1, <2>1, StepTyped DEF Writers
    <2>3. writers' = [writers EXCEPT ![w] = u]
      BY <1>2, <1>4, <2>1
    <2>4. Handles(u)
      BY <1>1, <1>2, <1>4, <2>2, StepTyped DEF Handles, Updating
    <2>5. TaskInv => Knows(u)
      BY <1>1, <1>2, <2>2 DEF TaskInv, Knows
    <2> QED BY <1>2, <2>2, <2>3, <2>4, <2>5, StepTyped, OwnStep
  <1> QED BY <1>3, <1>4

\* Comparing the hashes.  If they agree, what was parsed is what the file holds.
LEMMA CompareInv ==
    ASSUME TaskTyped, NEW w \in TaskWriters, CompareTask(w)
    PROVE  TaskTyped' /\ (TaskInv => TaskInv')
  <1>1. /\ writers[w].step = "compare" /\ tasks' = tasks /\ UNCHANGED <<taskOps, taskKills>>
        /\ writers' = [writers EXCEPT ![w] =
             IF tasks[writers[w].name] = writers[w].before
             THEN [writers[w] EXCEPT !.step = "replace"]
             ELSE IF writers[w].attempt < CasMaxAttempts
             THEN [writers[w] EXCEPT !.step = "read", !.attempt = writers[w].attempt + 1]
             ELSE Idle]
    BY DEF CompareTask
  <1>2. CASE tasks[writers[w].name] = writers[w].before
    <2>1. PICK u : u = [writers[w] EXCEPT !.step = "replace"]
      OBVIOUS
    <2>2. /\ u \in Writers /\ u.step = "replace" /\ u.current = writers[w].current
          /\ u.name = writers[w].name /\ u.op = writers[w].op
          /\ u.session = writers[w].session /\ u.others = writers[w].others
          /\ u.others \in 0..2
      BY <2>1, StepTyped DEF Writers
    <2>3. writers' = [writers EXCEPT ![w] = u]
      BY <1>1, <1>2, <2>1
    <2>4. Handles(u)
      BY <1>1, <2>2, StepTyped DEF Handles, Updating
    <2>5. TaskInv => Knows(u)
      BY <1>1, <1>2, <2>2 DEF TaskInv, Knows
    <2> QED BY <1>1, <2>2, <2>3, <2>4, <2>5, StepTyped, OwnStep
  <1>3. CASE /\ tasks[writers[w].name] # writers[w].before
             /\ writers[w].attempt < CasMaxAttempts
    <2>1. PICK u : u = [writers[w] EXCEPT !.step = "read",
                                          !.attempt = writers[w].attempt + 1]
      OBVIOUS
    <2>2. writers[w].attempt + 1 \in 1..CasMaxAttempts
      BY <1>3, StepTyped DEF Writers, CasMaxAttempts
    <2>3. /\ u \in Writers /\ u.step = "read" /\ u.name = writers[w].name
          /\ u.op = writers[w].op /\ u.session = writers[w].session
      <3>1. writers[w] \in Writers
        BY StepTyped
      <3> QED BY <2>1, <2>2, <3>1 DEF Writers
    <2>4. writers' = [writers EXCEPT ![w] = u]
      BY <1>1, <1>3, <2>1
    <2>5. Handles(u) /\ Knows(u)
      BY <1>1, <2>3, StepTyped DEF Handles, Knows, Updating
    <2> QED BY <1>1, <2>3, <2>4, <2>5, StepTyped, OwnStep
  <1>4. CASE /\ tasks[writers[w].name] # writers[w].before
             /\ ~(writers[w].attempt < CasMaxAttempts)
    BY <1>1, <1>4, StepTyped, DropInv
  <1> QED BY <1>2, <1>3, <1>4

\* No file, and no command.
LEMMA InitTasks == TaskInit => TaskInv
  <1> SUFFICES ASSUME TaskInit PROVE TaskInv
    OBVIOUS
  <1>1. TaskTypeOK
    BY TaskConstants, TaskAssumption DEF TaskInit, TaskTypeOK, Writers, UpdateOps
  <1>2. \A w \in TaskWriters : Handles(writers[w]) /\ Knows(writers[w])
    BY DEF TaskInit, Handles, Knows, Idle, Updating
  <1> QED BY <1>1, <1>2 DEF TaskInv, TaskTyped

\* Every step of a command keeps the invariant.
LEMMA NextTasks ==
    ASSUME TaskTyped, [TaskNext]_taskVars
    PROVE  TaskTyped' /\ (TaskInv => TaskInv')
  <1>1. ASSUME NEW w \in TaskWriters, KillTask(w)
        PROVE  TaskTyped' /\ (TaskInv => TaskInv')
    <2>1. /\ taskOps \in 0..MaxTaskOps /\ taskKills \in 0..TaskKills
          /\ MaxTaskOps \in Nat /\ TaskKills \in Nat
      BY <1>1, StepTyped
    <2>2. /\ tasks' = tasks /\ taskOps' = taskOps /\ taskKills < TaskKills
          /\ taskKills' = taskKills + 1 /\ writers' = [writers EXCEPT ![w] = Idle]
      BY <1>1 DEF KillTask
    <2>3. taskOps' \in 0..MaxTaskOps /\ taskKills' \in 0..TaskKills
      BY <2>1, <2>2
    <2> QED BY <1>1, <2>2, <2>3, DropInv
  <1>2. CASE UNCHANGED taskVars
    BY <1>2 DEF taskVars, TaskTyped, TaskTypeOK, TaskInv, Handles, Knows
  <1> QED BY <1>1, <1>2, BeginInv, OpenInv, WriteInv, ReadInv, ParseInv, CompareInv
          DEF TaskNext, TaskStep

\* The task files and the commands are well formed (tasks.py:60-240).
THEOREM TasksAreTyped == TaskSpec => []TaskTypeOK
  <1>1. TaskTyped => TaskTypeOK
    BY DEF TaskTyped
  <1>2. TaskInit => TaskTyped
    BY InitTasks DEF TaskInv
  <1> QED BY <1>1, <1>2, NextTasks, PTL DEF TaskSpec

\* However task commands overlap and are killed, an update that at most one other write
\* disturbed before its comparison replaces what the file holds, never an older version
\* (tasks.py:197-232).
THEOREM UpdatesAddUp == TaskSpec => UpdatesCompose
  <1>1. TaskInv /\ [TaskNext]_taskVars => TaskInv'
    BY NextTasks DEF TaskInv
  <1>2. ASSUME TaskInv, [TaskNext]_taskVars, NEW w \in TaskWriters,
               writers[w].step = "replace", writers'[w].step = "idle",
               writers[w].others < 2, ~writers[w].late, tasks' # tasks
        PROVE  tasks'[writers[w].name] =
                 Mutate(writers[w].op, writers[w].session, tasks[writers[w].name])
    <2>1. TaskTyped /\ writers \in [TaskWriters -> Writers]
      BY <1>2 DEF TaskInv, TaskTyped, TaskTypeOK, Writers, UpdateOps
    <2>2. PICK v \in TaskWriters : OpenTask(v) \/ FillTask(v) \/ ReplaceTask(v)
      BY <1>2 DEF TaskNext, TaskStep, taskVars, BeginAdd, BeginUpdate, BeginOp, ReadTask,
                  ParseTask, CompareTask, KillTask
    <2>3. v = w
      <3> SUFFICES ASSUME v # w PROVE writers'[w].step = writers[w].step
        BY <1>2
      <3>1. CASE OpenTask(v)
        BY <2>1, <3>1 DEF OpenTask
      <3>2. CASE FillTask(v) \/ ReplaceTask(v)
        <4>1. writers' = [Wrote(v, writers[v].name) EXCEPT ![v] = Idle]
          BY <3>2 DEF FillTask, ReplaceTask
        <4>2. writers'[w] = Wrote(v, writers[v].name)[w]
          BY <4>1 DEF Wrote
        <4> QED BY <2>1, <4>2, WroteOthers
      <3> QED BY <2>2, <3>1, <3>2
    <2>4. ReplaceTask(w)
      BY <1>2, <2>2, <2>3 DEF OpenTask, FillTask
    <2>5. tasks[writers[w].name] = writers[w].current
      BY <1>2 DEF TaskInv, Knows
    <2> QED BY <2>1, <2>4, <2>5, StepTyped DEF ReplaceTask
  <1>3. TaskInv /\ [TaskNext]_taskVars =>
          [\A w \in TaskWriters :
             LET u == writers[w] IN
             (u.step = "replace" /\ writers'[w].step = "idle" /\ u.others < 2 /\ ~u.late
              /\ tasks' # tasks)
             => tasks'[u.name] = Mutate(u.op, u.session, tasks[u.name])]_taskVars
    BY <1>2
  <1> QED BY InitTasks, <1>1, <1>3, PTL DEF TaskSpec, UpdatesCompose
=============================================================================

----------------------------- MODULE AutoResume -----------------------------
(***************************************************************************)
(* `rekol resume`: when a usage limit stops a session, Claude Code runs a  *)
(* hook that journals the freeze; a tick, run by launchd, by cron or by    *)
(* hand, relaunches at most one frozen session that holds a task.  A       *)
(* ledger says which freezes were served, a marker whether the feature is  *)
(* on.  Ticks, `enable` and `disable` run side by side, and none locks.    *)
(***************************************************************************)
EXTENDS TaskClaims

CONSTANTS Tickers,        \* the tick processes
          Scheduled,      \* those that launchd or cron starts; the rest run by hand
          MaxFreezes,     \* bound on the stops of sessions
          MaxToggles,     \* bound on the runs of enable and disable
          ResumeKills,    \* bound on the ticks and toggles that are killed
          NoFreeze

ASSUME ResumeAssumption ==
    /\ MaxFreezes \in Nat /\ MaxToggles \in Nat /\ ResumeKills \in Nat
    /\ Scheduled \subseteq Tickers /\ NoFreeze \notin Nat

VARIABLES enabled,   \* the opt-in marker exists
          hook,      \* StopFailure in settings.json: "none", "broken" or "ok"
          journal,   \* the freezes journaled; freezes are numbered as they happen
          freezes,   \* freeze -> its session and age; "other" is not limit-shaped
          ledger,    \* the records that ticks appended
          ticks,     \* ticker -> its pass in progress
          toggle,    \* the run of enable or disable in progress
          launched,  \* history: the freezes whose session was relaunched
          forgotten, \* history: those journaled before a disable that ran to its end
          toggles, resumeKills

resumeVars == <<enabled, hook, journal, freezes, ledger, ticks, toggle, launched, forgotten,
                toggles, resumeKills>>

Freezes == 1..MaxFreezes

\* The freezes that any line of the ledger names.
Already == {e.freeze : e \in ledger}

\* As if the session field alone were the claim.
AnyClaimedSessions == {tasks[n].session : n \in TaskNames} \ {NoSession}

\* The sessions that hold a task in progress.  list_tasks skips a broken file.
ClaimedSessions ==
    {tasks[n].session : n \in {k \in TaskNames : tasks[k].status = "in_progress"}}
      \ {NoSession}

\* left: the freezes that the tick may still choose.  The rest is history: those of
\* them launched, or forgotten, before it began; the sessions idle ever since.
NoTick == [step |-> "idle", left |-> {}, freeze |-> NoFreeze, ok |-> FALSE,
           launchedBefore |-> {}, forgotten |-> {}, parked |-> {}]

\* The sessions that work on nothing, as history reads the task files.
IdleSessions ==
    {s \in TaskSessions :
       \A n \in TaskNames : tasks[n].session = s => tasks[n].status # "in_progress"}

\* A tick goes on with some of the freezes.
Narrow(tick, step, left) ==
    [tick EXCEPT !.step = step, !.left = left, !.launchedBefore = @ \intersect left,
                 !.forgotten = @ \intersect left]

NoToggle == [step |-> "idle", journaled |-> {}]

-----------------------------------------------------------------------------

\* A session stops; the hook, if it can run, appends to the journal.
Freeze ==
    /\ \E f \in Freezes, session \in TaskSessions, age \in {"frozen", "other"} :
         /\ freezes[f].age = "none" /\ \A g \in 1..(f - 1) : freezes[g].age # "none"
         /\ freezes' = [freezes EXCEPT ![f] = [session |-> session, age |-> age]]
         /\ journal' = IF hook = "ok" THEN journal \union {f} ELSE journal
    /\ UNCHANGED <<enabled, hook, ledger, ticks, toggle, launched, forgotten, toggles,
                   resumeKills>>

\* Time passes: the limit resets, and after two days the entry is too old.
Age ==
    /\ \E f \in Freezes :
         /\ freezes[f].age \in {"frozen", "due"}
         /\ freezes' = [freezes EXCEPT ![f].age = IF @ = "frozen" THEN "due" ELSE "expired"]
    /\ UNCHANGED <<enabled, hook, journal, ledger, ticks, toggle, launched, forgotten, toggles,
                   resumeKills>>

\* tick: the time is read first, then the marker.
CheckMarker(t) ==
    /\ ticks[t].step = "idle" /\ enabled
    /\ LET due == {f \in Freezes : freezes[f].age = "due"} IN
         ticks' = [ticks EXCEPT ![t] =
           [NoTick EXCEPT !.step = "journal", !.left = due,
                          !.launchedBefore = launched \intersect due,
                          !.forgotten = forgotten \intersect due,
                          !.parked = IdleSessions]]
    /\ UNCHANGED <<enabled, hook, journal, freezes, ledger, toggle, launched, forgotten, toggles,
                   resumeKills>>

ReadJournal(t) ==
    /\ ticks[t].step = "journal"
    /\ ticks' = [ticks EXCEPT ![t] = Narrow(@, "ledger", @.left \intersect journal)]
    /\ UNCHANGED <<enabled, hook, journal, freezes, ledger, toggle, launched, forgotten, toggles,
                   resumeKills>>

ReadLedger(t) ==
    /\ ticks[t].step = "ledger"
    /\ ticks' = [ticks EXCEPT ![t] = Narrow(@, "choose", @.left \ Already)]
    /\ UNCHANGED <<enabled, hook, journal, freezes, ledger, toggle, launched, forgotten, toggles,
                   resumeKills>>

\* Only the newest entry of the journal.
NewestCandidate(t, f) ==
    /\ f \in ticks[t].left /\ \A g \in journal : g <= f
    /\ freezes[f].session \in ClaimedSessions

\* The freezes that the loop over the journal does not skip.
Candidate(t, f) == f \in ticks[t].left /\ freezes[f].session \in ClaimedSessions

\* As if the ledger were written once the outcome is known.
UnclaimedChooseFreeze(t) ==
    /\ ticks[t].step = "choose"
    /\ \E f \in Freezes :
         /\ Candidate(t, f) /\ \A g \in Freezes : Candidate(t, g) => g <= f
         /\ ticks' = [ticks EXCEPT ![t] = [Narrow(@, "launch", {f}) EXCEPT !.freeze = f]]
    /\ UNCHANGED <<enabled, hook, journal, freezes, ledger, toggle, launched, forgotten, toggles,
                   resumeKills>>

\* list_tasks, then newest first; the claim is appended before the launch.
ChooseFreeze(t) ==
    /\ ticks[t].step = "choose"
    /\ \E f \in Freezes :
         /\ Candidate(t, f) /\ \A g \in Freezes : Candidate(t, g) => g <= f
         /\ ledger' = ledger \union {[freeze |-> f, what |-> "claim"]}
         /\ ticks' = [ticks EXCEPT ![t] = [Narrow(@, "launch", {f}) EXCEPT !.freeze = f]]
    /\ UNCHANGED <<enabled, hook, journal, freezes, toggle, launched, forgotten, toggles,
                   resumeKills>>

NothingToResume(t) ==
    /\ ticks[t].step = "choose"
    /\ \A f \in Freezes : ~Candidate(t, f)
    /\ ticks' = [ticks EXCEPT ![t] = NoTick]
    /\ UNCHANGED <<enabled, hook, journal, freezes, ledger, toggle, launched, forgotten, toggles,
                   resumeKills>>

\* claude may not be on the PATH.
Launch(t) ==
    /\ ticks[t].step = "launch"
    /\ \E ok \in BOOLEAN :
         /\ launched' = IF ok THEN launched \union {ticks[t].freeze} ELSE launched
         /\ ticks' = [ticks EXCEPT ![t].step = "record", ![t].ok = ok]
    /\ UNCHANGED <<enabled, hook, journal, freezes, ledger, toggle, forgotten, toggles,
                   resumeKills>>

RecordOutcome(t) ==
    /\ ticks[t].step = "record"
    /\ ledger' = ledger \union {[freeze |-> ticks[t].freeze,
                                 what |-> IF ticks[t].ok THEN "launched" ELSE "launch_failed"]}
    /\ ticks' = [ticks EXCEPT ![t] = NoTick]
    /\ UNCHANGED <<enabled, hook, journal, freezes, toggle, launched, forgotten, toggles,
                   resumeKills>>

-----------------------------------------------------------------------------

BeginToggle ==
    /\ toggle.step = "idle" /\ toggles < MaxToggles /\ toggles' = toggles + 1

\* enable: the marker, then the hook, registered or repaired.
EnableMarker ==
    /\ BeginToggle
    /\ enabled' = TRUE
    /\ toggle' = [NoToggle EXCEPT !.step = "register"]
    /\ UNCHANGED <<hook, journal, freezes, ledger, ticks, launched, forgotten, resumeKills>>

RegisterHook ==
    /\ toggle.step = "register"
    /\ hook' = "ok"
    /\ toggle' = NoToggle
    /\ UNCHANGED <<enabled, journal, freezes, ledger, ticks, launched, forgotten, toggles,
                   resumeKills>>

\* disable: the marker, the journal, the hook.
DisableMarker ==
    /\ BeginToggle
    /\ enabled' = FALSE
    /\ toggle' = [step |-> "clear", journaled |-> journal]
    /\ UNCHANGED <<hook, journal, freezes, ledger, ticks, launched, forgotten, resumeKills>>

KeepJournal ==
    /\ toggle.step = "clear"
    /\ toggle' = [toggle EXCEPT !.step = "unregister"]
    /\ UNCHANGED <<enabled, hook, journal, freezes, ledger, ticks, launched, forgotten, toggles,
                   resumeKills>>

ClearJournal ==
    /\ toggle.step = "clear"
    /\ journal' = {}
    /\ toggle' = [toggle EXCEPT !.step = "unregister"]
    /\ UNCHANGED <<enabled, hook, freezes, ledger, ticks, launched, forgotten, toggles,
                   resumeKills>>

RemoveHook ==
    /\ toggle.step = "unregister"
    /\ hook' = "none"
    /\ forgotten' = forgotten \union toggle.journaled
    /\ toggle' = NoToggle
    /\ UNCHANGED <<enabled, journal, freezes, ledger, ticks, launched, toggles, resumeKills>>

KillResume ==
    /\ resumeKills < ResumeKills /\ resumeKills' = resumeKills + 1
    /\ \/ /\ \E t \in Tickers : /\ ticks[t].step # "idle"
                                /\ ticks' = [ticks EXCEPT ![t] = NoTick]
          /\ UNCHANGED toggle
       \/ /\ toggle.step # "idle"
          /\ toggle' = NoToggle
          /\ UNCHANGED ticks
    /\ UNCHANGED <<enabled, hook, journal, freezes, ledger, launched, forgotten, toggles>>

\* A task command runs.  A tick that is under way learns, as history, which
\* sessions held a task since it began.
TaskCommand ==
    /\ TaskNext
    /\ ticks' = [t \in Tickers |->
                   [ticks[t] EXCEPT !.parked = @ \intersect IdleSessions']]
    /\ UNCHANGED <<enabled, hook, journal, freezes, ledger, toggle, launched, forgotten, toggles,
                   resumeKills>>

-----------------------------------------------------------------------------

ResumeInit ==
    /\ \/ enabled = FALSE /\ hook = "none"
       \/ enabled = TRUE /\ hook \in {"broken", "ok"}
    /\ journal = {}
    /\ freezes = [f \in Freezes |-> [session |-> NoSession, age |-> "none"]]
    /\ ledger = {}
    /\ ticks = [t \in Tickers |-> NoTick]
    /\ toggle = NoToggle
    /\ launched = {} /\ forgotten = {}
    /\ toggles = 0 /\ resumeKills = 0

Tick(t) ==
    /\ \/ CheckMarker(t) \/ ReadJournal(t) \/ ReadLedger(t)
       \/ ChooseFreeze(t) \/ NothingToResume(t) \/ Launch(t) \/ RecordOutcome(t)
    /\ UNCHANGED taskVars

Toggle == EnableMarker \/ RegisterHook \/ DisableMarker \/ ClearJournal \/ RemoveHook

ResumeNext ==
    \/ \E t \in Tickers : Tick(t)
    \/ (Freeze \/ Age \/ Toggle \/ KillResume) /\ UNCHANGED taskVars
    \/ TaskCommand

ResumeSpec == ResumeInit /\ TaskInit /\ [][ResumeNext]_<<resumeVars, taskVars>>

-----------------------------------------------------------------------------

ResumeTypeOK ==
    /\ enabled \in BOOLEAN /\ hook \in {"none", "broken", "ok"}
    /\ journal \subseteq Freezes
    /\ \A f \in Freezes : freezes[f].age \in {"none", "other", "frozen", "due", "expired"}
    /\ ledger \subseteq [freeze: Freezes, what: {"claim", "launched", "launch_failed"}]
    /\ \A t \in Tickers :
         /\ ticks[t].step \in {"idle", "journal", "ledger", "choose", "launch", "record"}
         /\ ticks[t].step \in {"launch", "record"} => ticks[t].freeze \in Already
    /\ toggle.step \in {"idle", "register", "clear", "unregister"}
    /\ launched \subseteq Freezes /\ forgotten \subseteq Freezes

\* The freeze that a step launches, by which tick.
Launches(t, f) == ticks[t].step = "launch" /\ ticks[t].freeze = f /\ ticks'[t].ok

\* However ticks are killed, a freeze is not launched by a tick that began after it
\* had been launched (resume.py:324-340).  Two overlapping ticks may both launch it.
OneLaunchPerFreeze ==
    [][\A t \in Tickers, f \in Freezes :
         Launches(t, f) => f \notin ticks[t].launchedBefore]_resumeVars

\* A freeze journaled before a disable that ran to its end is launched by no tick
\* that began later, even if the feature is on again (cli_resume.py:258-268).
DisableForgetsFreezes ==
    [][\A t \in Tickers, f \in Freezes :
         Launches(t, f) => f \notin ticks[t].forgotten]_resumeVars

\* A session that holds no task in progress from before a tick until its launch is
\* not launched, whatever its tasks said earlier (resume.py:295-311).
ParkedNotResumed ==
    [][\A t \in Tickers, f \in Freezes :
         Launches(t, f) => freezes[f].session \notin ticks[t].parked]_resumeVars

\* What a tick would serve.
Owed(f) ==
    /\ enabled /\ f \in journal
    /\ freezes[f].age = "due" /\ freezes[f].session \in ClaimedSessions
    /\ f \notin Already

\* A freeze that is owed a launch does not stay so: a tick claims it, or it expires
\* or loses its task, or the feature is switched off (resume.py:301-368).
FreezeIsServed == \A f \in Freezes : Owed(f) ~> ~Owed(f)

\* A scheduler keeps running ticks, and such a tick goes on once it has begun.
ResumeFairness == \A t \in Scheduled : WF_<<resumeVars, taskVars>>(Tick(t))
=============================================================================

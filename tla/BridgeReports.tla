----------------------------- MODULE BridgeReports -----------------------------
(***************************************************************************)
(* The periodic reports of the bridge: reminders of overdue tasks          *)
(* (dida-overdue-monitor.js), the nightly cleanup of completed ones        *)
(* (dida-completed-cleanup-monitor.js) and the weekly digest of the        *)
(* agent's conversations (xiaowei-insight-digest.js).                      *)
(*                                                                         *)
(* Each reads, sends and only then notes what it has done: what is sent    *)
(* again after a failure or a crash is recognised by its idempotency key.  *)
(***************************************************************************)
EXTENDS Integers, FiniteSets

CONSTANTS
  None,         \* null
  Tasks,        \* overdue tasks
  Prints,       \* fingerprints: due date and priority
  Horizon,      \* bound: the last instant of the clock, in half days
  MaxFailures,  \* bound: calls that fail
  MaxCrashes    \* bound: exits of the process

VARIABLES state, disk, run, env
vars == <<state, disk, run, env>>

\* Two instants a day, the second within the hours of notices; a week of two days in which
\* the last instant is the digest's slot
Day(t) == t \div 2
Daytime(t) == t % 2 = 1
Slot(t) == IF t % 4 = 3 THEN t ELSE None
Lookback == 4

Idle == [pc |-> "idle", pending |-> {}, at |-> 0, from |-> 0]

Init ==
  /\ state = [notified |-> [k \in Tasks |-> None], lastAt |-> [k \in Tasks |-> None], failing |-> 0, said |-> FALSE,
              cleaned |-> None, sentDay |-> None, windowEnd |-> None, retryAt |-> 0]
  /\ disk = state
  /\ run = [overdue |-> Idle, cleanup |-> Idle, insight |-> Idle]
  /\ env = [now |-> 0, overdue |-> [k \in Tasks |-> None], reminded |-> {}, covered |-> {}, slots |-> {},
            deleted |-> {}, failures |-> 0, crashes |-> 0]

Save(s) == state' = s /\ disk' = s
Same == UNCHANGED <<state, disk>>
Failing == env.failures < MaxFailures
Fails == [env EXCEPT !.failures = @ + 1]

-----------------------------------------------------------------------------
(* DidaOverdueMonitor.poll *)

StartOverdue ==
  /\ run.overdue.pc = "idle"
  /\ run' = [run EXCEPT !.overdue = [Idle EXCEPT !.pc = "list", !.at = env.now]]
  /\ Same /\ UNCHANGED env

\* What was said of a task is not repeated, and nothing within a day
ToRemind ==
  {k \in Tasks :
     /\ env.overdue[k] # None /\ env.overdue[k] # state.notified[k]
     /\ Daytime(run.overdue.at)
     /\ state.lastAt[k] = None \/ run.overdue.at - state.lastAt[k] >= 2}

\* A recovery is saved, and told if the failure had been
Recovered == [state EXCEPT !.failing = 0, !.said = FALSE]

Listed ==
  /\ run.overdue.pc = "list"
  /\ IF ToRemind = {}
       THEN Save(Recovered) /\ run' = [run EXCEPT !.overdue = Idle]
       ELSE /\ Same
            /\ run' = [run EXCEPT !.overdue = [@ EXCEPT !.pc = "send",
                         !.pending = {<<k, env.overdue[k]>> : k \in ToRemind}]]
  /\ UNCHANGED env

\* The digest's key is made of the day and its tasks
Reminder == [day |-> Day(run.overdue.at), tasks |-> {p[1] : p \in run.overdue.pending}, at |-> run.overdue.at]
Reminded(e) ==
  IF \E r \in e.reminded : r.day = Reminder.day /\ r.tasks = Reminder.tasks THEN e
  ELSE [e EXCEPT !.reminded = @ \cup {Reminder}]

\* Faulty variant: the instant of the reminder is not noted
OverdueSentUnnoted ==
  /\ run.overdue.pc = "send"
  /\ Save([Recovered EXCEPT
       !.notified = [k \in Tasks |-> IF k \in Reminder.tasks THEN (CHOOSE p \in run.overdue.pending : p[1] = k)[2] ELSE @[k]]])
  /\ run' = [run EXCEPT !.overdue = Idle]
  /\ env' = Reminded(env)

OverdueSent ==
  /\ run.overdue.pc = "send"
  /\ Save([Recovered EXCEPT
       !.notified = [k \in Tasks |-> IF k \in Reminder.tasks THEN (CHOOSE p \in run.overdue.pending : p[1] = k)[2] ELSE @[k]],
       !.lastAt = [k \in Tasks |-> IF k \in Reminder.tasks THEN run.overdue.at ELSE @[k]]])
  /\ run' = [run EXCEPT !.overdue = Idle]
  /\ env' = Reminded(env)

\* The list cannot be read, or the message fails, after it was delivered or before: the
\* third failure in a row is told once; scheduleRetry
OverdueFails ==
  /\ run.overdue.pc \in {"list", "send"} /\ Failing
  /\ Save([state EXCEPT !.failing = @ + 1, !.said = @ \/ state.failing + 1 >= 3])
  /\ run' = [run EXCEPT !.overdue = Idle]
  /\ env' \in {Fails} \cup IF run.overdue.pc = "send" THEN {Reminded(Fails)} ELSE {}

-----------------------------------------------------------------------------
(* DidaCompletedCleanupMonitor.poll *)

StartCleanup ==
  /\ run.cleanup.pc = "idle" /\ state.cleaned # Day(env.now)
  /\ run' = [run EXCEPT !.cleanup = [Idle EXCEPT !.pc = "clean", !.at = env.now]]
  /\ Same /\ UNCHANGED env

\* The day counts as done before it is told
Cleaned ==
  /\ run.cleanup.pc = "clean"
  /\ Save([state EXCEPT !.cleaned = Day(run.cleanup.at)])
  /\ run' = [run EXCEPT !.cleanup = Idle]
  /\ env' = [env EXCEPT !.deleted = @ \cup {Day(run.cleanup.at)}]

CleanupFails ==
  /\ run.cleanup.pc = "clean" /\ Failing
  /\ Save(state)
  /\ run' = [run EXCEPT !.cleanup = Idle]
  /\ env' = Fails

-----------------------------------------------------------------------------
(* XiaoweiInsightDigestMonitor.poll *)

StartInsight ==
  /\ run.insight.pc = "idle"
  /\ Slot(env.now) # None /\ state.sentDay # Slot(env.now) /\ env.now >= state.retryAt
  /\ LET from == IF state.windowEnd # None /\ state.windowEnd >= env.now - Lookback
                   THEN state.windowEnd ELSE env.now - Lookback
     IN run' = [run EXCEPT !.insight = [Idle EXCEPT !.pc = "send", !.at = env.now, !.from = from]]
  /\ Same /\ UNCHANGED env

\* Nothing to tell, or told: the window moves on
InsightSent ==
  /\ run.insight.pc = "send"
  /\ Save([state EXCEPT !.sentDay = Slot(run.insight.at), !.windowEnd = run.insight.at])
  /\ run' = [run EXCEPT !.insight = Idle]
  /\ env' = [env EXCEPT !.covered = @ \cup (run.insight.from .. run.insight.at), !.slots = @ \cup {run.insight.at}]

\* Faulty variant: a failure moves the window on, too
InsightFailsAhead ==
  /\ run.insight.pc = "send" /\ Failing
  /\ \E later \in {0, 1} : Save([state EXCEPT !.retryAt = run.insight.at + later, !.windowEnd = run.insight.at])
  /\ run' = [run EXCEPT !.insight = Idle]
  /\ env' = Fails

\* The window stays, the next attempt is an hour or more away
InsightFails ==
  /\ run.insight.pc = "send" /\ Failing
  /\ \E later \in {0, 1} : Save([state EXCEPT !.retryAt = run.insight.at + later])
  /\ run' = [run EXCEPT !.insight = Idle]
  /\ env' = Fails

-----------------------------------------------------------------------------
ChangeTask(k) ==
  /\ \E p \in Prints \cup {None} : p # env.overdue[k] /\ env' = [env EXCEPT !.overdue[k] = p]
  /\ Same /\ UNCHANGED run

\* An activity takes less than half a day
Tick ==
  /\ env.now < Horizon
  /\ run = [overdue |-> Idle, cleanup |-> Idle, insight |-> Idle]
  /\ env' = [env EXCEPT !.now = @ + 1]
  /\ Same /\ UNCHANGED run

Crash ==
  /\ env.crashes < MaxCrashes
  /\ env' = [env EXCEPT !.crashes = @ + 1]
  /\ state' = disk /\ UNCHANGED disk
  /\ run' = [overdue |-> Idle, cleanup |-> Idle, insight |-> Idle]

Next ==
  \/ StartOverdue \/ Listed \/ OverdueSent \/ OverdueFails \/ StartCleanup \/ Cleaned \/ CleanupFails
  \/ StartInsight \/ InsightSent \/ InsightFails \/ Tick \/ Crash
  \/ \E k \in Tasks : ChangeTask(k)

-----------------------------------------------------------------------------
(* Properties *)

\* "No repeated reminder of a task within 24 hours" (dida-overdue-monitor.js, the digest's
\* text), as long as no call fails and the process lives: the note follows the message.
RemindedOnceADay ==
  env.failures = 0 /\ env.crashes = 0 =>
    \A r, q \in env.reminded : r.tasks \cap q.tasks # {} /\ r # q => r.at - q.at \notin -1 .. 1

\* Every instant up to the end of the window has been reported on, unless a whole slot went
\* by without a digest: what is older than the lookback is lost then (poll's start).
DigestWithoutGap ==
  state.windowEnd # None /\ (\A t \in 0 .. state.windowEnd : Slot(t) # None => t \in env.slots) =>
    \A t \in 0 .. state.windowEnd : t \in env.covered

\* A day that counts as cleaned was, across failures and crashes
CleanedWhenDone == disk.cleaned # None => disk.cleaned \in env.deleted

ReportsInvariant == RemindedOnceADay /\ DigestWithoutGap /\ CleanedWhenDone
=============================================================================

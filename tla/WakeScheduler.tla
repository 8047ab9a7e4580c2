---------------------------- MODULE WakeScheduler ----------------------------
(***************************************************************************)
(* DurableWakeScheduler (src/src/runtime/wake-scheduler.ts) in front of a  *)
(* durable queue: the skeleton the event, workflow and action runtimes     *)
(* share.  The store (sqlite.ts through service.ts) is authoritative; a    *)
(* commit is followed by a hint, wake(at), which may be lost with the      *)
(* process.  The scheduler coalesces immediate hints into one drain loop,  *)
(* keeps one timer for the earliest future hint, and wakes itself every    *)
(* recovery interval.  One run of the loop claims one due item, as         *)
(* runOnce of the three runtimes does, and then completes it, defers it to *)
(* a later instant, or throws.                                             *)
(*                                                                         *)
(* Instants are kept relative to now: an item, timer or lease is due when  *)
(* its value is <= 0, and Tick lets one unit of time pass.                 *)
(***************************************************************************)
EXTENDS Integers, FiniteSets

CONSTANTS
  Items,         \* units of durable work
  Delays,        \* the delays after now at which work is committed (availableAt, wakeAt)
  RetryDelay,    \* retryDelayMs in ticks
  LeaseLen,      \* leaseMs in ticks
  Recovery,      \* recoveryIntervalMs in ticks
  MaxPasses,     \* maxPasses of one drain
  MaxAttempts,   \* attempts after which the runtime settles an item for good
  None,          \* no item; no instant
  RunLen,        \* bound: ticks a run may last
  Late,          \* bound: an instant more than Late ticks ago counts as Late ticks ago
  MaxFaults,     \* bound: runs that throw
  MaxCrashes,    \* bound: process restarts
  MaxDisposals   \* bound: times the plugin that owns the scheduler is unloaded

ASSUME SchedulerAssumption ==
  /\ None \notin Items
  /\ None \notin Int
  /\ Delays \subseteq Nat
  /\ RetryDelay \in Nat /\ LeaseLen \in Nat \ {0}
  /\ Recovery \in Nat \ {0} /\ MaxPasses \in Nat \ {0} /\ MaxAttempts \in Nat \ {0}
  /\ RunLen \in Nat /\ Late \in Nat /\ MaxFaults \in Nat /\ MaxCrashes \in Nat
  /\ MaxDisposals \in Nat

VARIABLES
  item,         \* the durable rows, with two history fields: `woken', an immediate wake came
                \* while it was due; `busy', the ticks since it was due with a run in progress
  hints,        \* hints on their way to the scheduler: the item committed and the instant
                \* its commit named, which a later change of the row does not alter
  wakePending,  \* wakePending
  drain,        \* the drain loop: where it stands, its passes, its run
  scheduledAt,  \* scheduledAt with its timer, or None
  recovery,     \* ticks to the next firing of recoveryTimer
  disposed,     \* disposed
  spent         \* what has been used of the bounds

schedVars == <<wakePending, drain, scheduledAt, recovery, disposed>>
vars == <<item, hints, schedVars, spent>>

\* "idle": not draining; "immediate": setImmediate is queued; "top": the condition of
\* the while loop; "running": inside await options.run(); "finally": the finally block
DrainPc == {"idle", "immediate", "top", "running", "finally"}
ItemState == {"absent", "waiting", "done"}

TypeOK ==
  /\ item \in [Items -> [st : ItemState, due : Int, attempt : Nat, woken : BOOLEAN, busy : Nat]]
  /\ hints \subseteq Items \X Int
  /\ wakePending \in BOOLEAN
  /\ drain \in [pc : DrainPc, passes : 0 .. MaxPasses, item : Items \cup {None}, elapsed : 0 .. RunLen]
  /\ scheduledAt \in Int \cup {None}
  /\ recovery \in 0 .. Recovery
  /\ disposed \in BOOLEAN
  /\ spent \in [faults : Nat, crashes : Nat, disposals : Nat]

IdleDrain == [pc |-> "idle", passes |-> 0, item |-> None, elapsed |-> 0]

Init ==
  /\ item = [i \in Items |-> [st |-> "absent", due |-> 0, attempt |-> 0,
                              woken |-> FALSE, busy |-> 0]]
  /\ hints = {}
  /\ wakePending = FALSE
  /\ drain = IdleDrain
  /\ scheduledAt = None
  /\ recovery = Recovery
  /\ disposed = FALSE
  /\ spent = [faults |-> 0, crashes |-> 0, disposals |-> 0]

-----------------------------------------------------------------------------
(* The scheduler *)

Draining == drain.pc # "idle"
Due(i) == item[i].st = "waiting" /\ item[i].due <= 0

\* wake() for now or the past: coalesced while a drain is in progress
WakeNow ==
  IF disposed THEN UNCHANGED <<wakePending, drain>>
  ELSE /\ wakePending' = TRUE
       /\ drain' = IF Draining THEN drain ELSE [IdleDrain EXCEPT !.pc = "immediate"]

Woken ==
  [i \in Items |-> IF Due(i) /\ ~disposed THEN [item[i] EXCEPT !.woken = TRUE] ELSE item[i]]

\* wake(at) for the future: only an earlier instant replaces the scheduled one
WakeAt(at) ==
  scheduledAt' = IF disposed \/ (scheduledAt # None /\ scheduledAt <= at)
                   THEN scheduledAt ELSE at

\* A commit hint arrives: wake(at) with the instant it was emitted for
DeliverHint(h) ==
  /\ h \in hints
  /\ hints' = hints \ {h}
  /\ IF h[2] <= 0
       THEN WakeNow /\ item' = Woken /\ UNCHANGED scheduledAt
       ELSE WakeAt(h[2]) /\ UNCHANGED <<item, wakePending, drain>>
  /\ UNCHANGED <<recovery, disposed, spent>>

\* The timer of scheduleFuture fires at its instant.  (A delay beyond the platform's
\* limit is waited for in pieces, which changes nothing here.)
TimerFires ==
  /\ scheduledAt # None /\ scheduledAt <= 0
  /\ ~disposed
  /\ scheduledAt' = None
  /\ WakeNow
  /\ item' = Woken
  /\ UNCHANGED <<hints, recovery, disposed, spent>>

\* Faulty variant: a recovery timer that wakes nobody
RecoveryIdles ==
  /\ recovery = 0
  /\ ~disposed
  /\ recovery' = Recovery
  /\ UNCHANGED <<item, hints, wakePending, drain, scheduledAt, disposed, spent>>

\* setInterval(() => this.wake(), recoveryIntervalMs)
RecoveryFires ==
  /\ recovery = 0
  /\ ~disposed
  /\ recovery' = Recovery
  /\ WakeNow
  /\ item' = Woken
  /\ UNCHANGED <<hints, scheduledAt, disposed, spent>>

\* The setImmediate callback enters drain(); dispose() clears it
DrainStarts ==
  /\ drain.pc = "immediate"
  /\ drain' = [drain EXCEPT !.pc = "top"]
  /\ UNCHANGED <<item, hints, wakePending, scheduledAt, recovery, disposed, spent>>

\* run() claims the item that has been due longest, if any, under a lease
Claim ==
  \/ /\ \A i \in Items : ~Due(i)
     /\ drain' = [drain EXCEPT !.pc = "running", !.item = None, !.elapsed = 0]
     /\ UNCHANGED item
  \/ \E i \in Items :
       /\ Due(i) /\ \A j \in Items : Due(j) => item[i].due <= item[j].due
       /\ item' = [item EXCEPT ![i].due = LeaseLen, ![i].attempt = @ + 1,
                                ![i].woken = FALSE, ![i].busy = 0]
       /\ drain' = [drain EXCEPT !.pc = "running", !.item = i, !.elapsed = 0]

\* Faulty variant: a while condition blind to dispose()
RunStartsDisposed ==
  /\ drain.pc = "top"
  /\ wakePending /\ drain.passes < MaxPasses
  /\ wakePending' = FALSE
  /\ Claim
  /\ UNCHANGED <<hints, scheduledAt, recovery, disposed, spent>>

\* The while condition holds: wakePending is consumed and run() is called
RunStarts ==
  /\ drain.pc = "top"
  /\ ~disposed /\ wakePending /\ drain.passes < MaxPasses
  /\ wakePending' = FALSE
  /\ Claim
  /\ UNCHANGED <<hints, scheduledAt, recovery, disposed, spent>>

\* run() resolves, and continueAfter(result) is true when something was claimed
AfterRun ==
  /\ wakePending' = (wakePending \/ drain.item # None)
  /\ drain' = [drain EXCEPT !.pc = "top", !.passes = @ + 1, !.item = None, !.elapsed = 0]

RunFindsNothing ==
  /\ drain.pc = "running" /\ drain.item = None
  /\ AfterRun
  /\ UNCHANGED <<item, hints, scheduledAt, recovery, disposed, spent>>

\* The item is settled for good
RunSettles ==
  /\ drain.pc = "running" /\ drain.item # None
  /\ item' = [item EXCEPT ![drain.item].st = "done", ![drain.item].due = 0, ![drain.item].busy = 0]
  /\ AfterRun
  /\ UNCHANGED <<hints, scheduledAt, recovery, disposed, spent>>

Positive(n) == IF n > 0 THEN n ELSE 0

\* The item is released for a retry, RetryDelay after the start of the run, and the
\* release emits its hint
RunDefers ==
  /\ drain.pc = "running" /\ drain.item # None
  /\ item[drain.item].attempt < MaxAttempts
  /\ item' = [item EXCEPT ![drain.item].due = RetryDelay - drain.elapsed,
                           ![drain.item].woken = FALSE,
                           ![drain.item].busy = Positive(drain.elapsed - RetryDelay)]
  /\ hints' = hints \cup {<<drain.item, RetryDelay - drain.elapsed>>}
  /\ AfterRun
  /\ UNCHANGED <<scheduledAt, recovery, disposed, spent>>

\* run() rejects: onError, and the loop is left; a claimed item keeps its lease
RunThrows ==
  /\ drain.pc = "running"
  /\ spent.faults < MaxFaults
  /\ spent' = [spent EXCEPT !.faults = @ + 1]
  /\ drain' = [drain EXCEPT !.pc = "finally", !.item = None, !.elapsed = 0]
  /\ UNCHANGED <<item, hints, wakePending, scheduledAt, recovery, disposed>>

LoopEnds ==
  /\ drain.pc = "top"
  /\ disposed \/ ~wakePending \/ drain.passes >= MaxPasses
  /\ drain' = [drain EXCEPT !.pc = "finally"]
  /\ UNCHANGED <<item, hints, wakePending, scheduledAt, recovery, disposed, spent>>

\* Faulty variant: what came in during the last pass is forgotten
FinallyRests ==
  /\ drain.pc = "finally"
  /\ drain' = IdleDrain
  /\ UNCHANGED <<item, hints, wakePending, scheduledAt, recovery, disposed, spent>>

\* draining = false, then wake() again when something is pending
Finally ==
  /\ drain.pc = "finally"
  /\ drain' = IF ~disposed /\ wakePending
                THEN [IdleDrain EXCEPT !.pc = "immediate"] ELSE IdleDrain
  /\ UNCHANGED <<item, hints, wakePending, scheduledAt, recovery, disposed, spent>>

\* dispose(): timers and the queued immediate are cleared; a run in flight goes on
Dispose ==
  /\ ~disposed
  /\ spent.disposals < MaxDisposals
  /\ spent' = [spent EXCEPT !.disposals = @ + 1]
  /\ disposed' = TRUE
  /\ wakePending' = FALSE
  /\ scheduledAt' = None
  /\ drain' = IF drain.pc = "immediate" THEN IdleDrain ELSE drain
  /\ UNCHANGED <<item, hints, recovery>>

-----------------------------------------------------------------------------
(* The store, the process and time *)

\* A commit that creates work, and emits its hint
Commit(i, delay) ==
  /\ item[i].st = "absent"
  /\ item' = [item EXCEPT ![i].st = "waiting", ![i].due = delay]
  /\ hints' = hints \cup {<<i, delay>>}
  /\ UNCHANGED <<schedVars, spent>>

\* Faulty variant: a new process that waits for its first hint
RestartQuietly ==
  /\ spent.crashes < MaxCrashes
  /\ spent' = [spent EXCEPT !.crashes = @ + 1]
  /\ hints' = {}
  /\ item' = [i \in Items |-> [item[i] EXCEPT !.woken = FALSE]]
  /\ wakePending' = FALSE
  /\ drain' = IdleDrain
  /\ scheduledAt' = None
  /\ recovery' = Recovery
  /\ disposed' = FALSE

\* The process dies and starts again: hints, timers and the run in flight are gone,
\* the new scheduler is woken when its worker starts or its consumers register
Restart ==
  /\ spent.crashes < MaxCrashes
  /\ spent' = [spent EXCEPT !.crashes = @ + 1]
  /\ hints' = {}
  /\ item' = [i \in Items |-> [item[i] EXCEPT !.woken = FALSE]]
  /\ wakePending' = TRUE
  /\ drain' = [IdleDrain EXCEPT !.pc = "immediate"]
  /\ scheduledAt' = None
  /\ recovery' = Recovery
  /\ disposed' = FALSE

Soon(t) == IF t < -Late THEN -Late ELSE t

\* The tick that passes is one more in which i is overdue and the scheduler runs something
Attended(i) == drain.pc = "running" /\ item[i].due <= 0 /\ item[i].due > -Late

\* One tick is long against everything the scheduler does by itself: it passes while
\* the scheduler rests or awaits a run, with no timer or hint ready to be served
Tick ==
  /\ hints = {}
  /\ \/ drain.pc = "idle" /\ UNCHANGED drain
     \/ /\ drain.pc = "running" /\ drain.elapsed < RunLen
        /\ drain' = [drain EXCEPT !.elapsed = @ + 1]
  /\ disposed \/ recovery > 0
  /\ scheduledAt # None => scheduledAt > 0
  /\ item' = [i \in Items |-> IF item[i].st = "waiting"
                                THEN [item[i] EXCEPT !.due = Soon(@ - 1),
                                        !.busy = IF Attended(i) THEN @ + 1 ELSE @]
                                ELSE item[i]]
  /\ recovery' = IF disposed THEN recovery ELSE recovery - 1
  /\ scheduledAt' = IF scheduledAt = None THEN None ELSE scheduledAt - 1
  /\ UNCHANGED <<hints, wakePending, disposed, spent>>

-----------------------------------------------------------------------------

Run == RunStarts \/ RunFindsNothing \/ RunSettles \/ RunDefers \/ RunThrows

Scheduler ==
  \/ \E h \in hints : DeliverHint(h)
  \/ TimerFires \/ RecoveryFires
  \/ DrainStarts \/ Run \/ LoopEnds \/ Finally

Next ==
  \/ \E i \in Items, delay \in Delays : Commit(i, delay)
  \/ Scheduler
  \/ Dispose \/ Restart \/ Tick

Spec == Init /\ [][Next]_vars

\* The event loop serves what is ready, a run settles, time passes
FairSpec == Spec /\ WF_vars(Scheduler) /\ WF_vars(Tick)

-----------------------------------------------------------------------------
(* Properties *)

\* A drain in progress claims again before it rests
Attending == (wakePending /\ Draining) \/ (drain.pc = "running" /\ drain.item # None)

\* No immediate wake is lost to coalescing: work that was due when the scheduler was
\* woken is seen by a later run of the drain in progress - also when the wake came
\* between the last claim of a drain and its finally block, or at the end of the pass
\* budget.  Holds as long as no run throws; after an exception the rest of the backlog
\* waits for the recovery scan.
DrainCoversBacklog ==
  spent.faults = 0 /\ ~disposed =>
    \A i \in Items : Due(i) /\ item[i].woken => Attending

\* What makes the property above, and the bound below, inductive: a run has passes left, a
\* pending wake has a drain, a woken item is due, and whatever is due has waited no longer
\* than the recovery timer lets it, unless a drain is on its way to it.
LateSound(i) ==
  LET slack == IF Attending THEN 0 ELSE recovery IN
  spent.disposals = 0 /\ Due(i) =>
    item[i].due + Recovery * (spent.faults + 1) + item[i].busy >= slack

WakeSound ==
  /\ drain.pc = "running" => drain.passes < MaxPasses
  /\ wakePending /\ ~disposed => Draining
  /\ spent.disposals = 0 => ~disposed
  /\ \A i \in Items : item[i].woken => item[i].st = "done" \/ Due(i)
  /\ \A i \in Items : LateSound(i)

\* The scheduler has its types and no wake is lost
WakeInvariant == TypeOK /\ DrainCoversBacklog /\ WakeSound

\* The recovery scan bounds how late anything can be: as long as the scheduler has not
\* been disposed of, nothing is overdue for longer than one recovery interval for a hint
\* lost or dropped and one more for each run that threw, the time in which the scheduler
\* was running something left aside.
OverdueBound ==
  spent.disposals = 0 =>
    \A i \in Items : item[i].st = "waiting" =>
      item[i].due >= -(Recovery * (spent.faults + 1) + item[i].busy)

\* After dispose() no run begins, whatever timers, hints and immediates were pending
NoRunAfterDispose == [][disposed /\ disposed' => (drain.pc # "running" => drain'.pc # "running")]_vars

\* Everything committed is settled in the end, across lost hints, restarts, runs that
\* throw and dropped deadlines, unless the scheduler is disposed of.
EventuallyDone == \A i \in Items : item[i].st = "waiting" ~> (item[i].st = "done" \/ disposed)
=============================================================================

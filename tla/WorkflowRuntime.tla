--------------------------- MODULE WorkflowRuntime ---------------------------
(***************************************************************************)
(* DurableWorkflowRuntime (src/src/workflow/runtime.ts) over the workflow  *)
(* tables of the durable store (src/src/storage/sqlite.ts): versioned      *)
(* instances advanced by idempotent events under optimistic concurrency,   *)
(* timers, and an outbox of effects delivered under leases.                *)
(*                                                                         *)
(* A runtime's pass (runOnce) first dispatches a timer event to every due  *)
(* instance it listed, then claims one effect, executes its handler and    *)
(* dispatches the outcome.  Features dispatch events of their own.  Every  *)
(* store operation is one transaction, and everything interleaves between  *)
(* them: a dispatch reads the instance in one step and commits what the    *)
(* reducer made of it in another.                                          *)
(*                                                                         *)
(* Reducers are the features' business: here any reducer may react with    *)
(* any wake-up, status and effects the store accepts.  The state of an     *)
(* instance is represented by the set of events folded into it.            *)
(*                                                                         *)
(* wakeAt is an instant of the model's clock, since a timer event is named *)
(* after it; leases and availability are kept relative to now.             *)
(***************************************************************************)
EXTENDS Integers, FiniteSets

CONSTANTS
  Instances,     \* workflow instances
  Effects,       \* effects the reducers may put into the outbox
  InstanceOf,    \* [Effects -> Instances]
  Handled,       \* effects whose kind has a registered handler
  External,      \* events the features dispatch
  TargetOf,      \* [External -> Instances]
  Runtimes,      \* processes that drain the tables; their names are the worker ids
  Features,      \* dispatches by features that may be in flight at the same time
  None,          \* SQL NULL
  Delays,        \* the instants, relative to now, at which new effects are made available
  Batch,         \* batchSize
  LeaseLen,      \* leaseMs in ticks
  RetryDelay,    \* retryDelayMs in ticks
  MaxAttempts,   \* maxAttempts
  Horizon,       \* bound: the last instant of the model's clock
  MaxAge,        \* bound: ticks a pass may last
  MaxOverruns,   \* bound: leases that may expire while their pass is still in flight
  MaxFaults,     \* bound: store operations that throw
  MaxCrashes,    \* bound: process crashes
  MaxRejects,    \* bound: events a reducer refuses, or meets without its definition
  MaxClaims      \* bound: the highest number of attempts that is counted

ASSUME WorkflowAssumption ==
  /\ IsFiniteSet(Instances) /\ IsFiniteSet(Effects) /\ IsFiniteSet(Runtimes)
  /\ InstanceOf \in [Effects -> Instances]
  /\ TargetOf \in [External -> Instances]
  /\ Handled \subseteq Effects
  /\ Runtimes \cap Features = {}
  /\ Delays \subseteq Int
  /\ None \notin Int \cup Instances \cup Effects \cup Runtimes
  /\ Batch \in Nat \ {0} /\ LeaseLen \in Nat \ {0} /\ RetryDelay \in Nat
  /\ MaxAttempts \in Nat \ {0} /\ Horizon \in Nat /\ MaxAge \in Nat
  /\ MaxOverruns \in Nat /\ MaxFaults \in Nat /\ MaxCrashes \in Nat /\ MaxRejects \in Nat
  /\ MaxClaims \in Nat /\ MaxClaims >= MaxAttempts

VARIABLES
  now,        \* the clock
  instance,   \* rows of workflow_instance
  events,     \* rows of workflow_event, by instance
  effect,     \* rows of workflow_effect
  proc,       \* the passes of the runtimes and the dispatches of the features
  spent       \* what has been used of the bounds

tables == <<instance, events, effect>>
vars == <<now, tables, proc, spent>>

\* In the configurations all effects and events belong to one workflow
EffectHome == [e \in Effects |-> CHOOSE i \in Instances : TRUE]
Targets == [x \in External |-> CHOOSE i \in Instances : TRUE]

Procs == Runtimes \cup Features
Instants == 0 .. Horizon

\* event_id: what makes a second dispatch of the same event a duplicate
EventId == ({"timer"} \X Instants) \cup ({"delivered", "failed"} \X Effects)
             \cup ({"external"} \X External)

\* status: "open" stands for running and waiting, "closed" for completed and failed
InstanceRow == [status : {"absent", "open", "closed"}, rev : Nat,
                wake : Instants \cup {None}, folded : SUBSET EventId]
EffectRow == [status : {"absent", "pending", "dispatching", "delivered", "failed"},
              owner : Runtimes \cup {None}, lease : Int, attempt : Nat, avail : Int]

\* "timers": between the timer dispatches of a pass; "handle": the handler runs;
\* "read" and "write": inside dispatch; "settle", "release": about to update the effect
ProcPc == {"idle", "timers", "handle", "read", "write", "settle", "release"}
Dispatch == [inst : Instances, event : EventId]
ProcState == [pc : ProcPc, due : SUBSET (Instances \X Instants), effect : Effects \cup {None},
              attempt : Nat, job : Dispatch \cup {None}, tries : 0 .. 3, rev : Nat,
              folded : SUBSET EventId, terminal : BOOLEAN, age : Nat]

IdleProc == [pc |-> "idle", due |-> {}, effect |-> None, attempt |-> 0, job |-> None,
             tries |-> 0, rev |-> 0, folded |-> {}, terminal |-> FALSE, age |-> 0]

TypeOK ==
  /\ now \in Instants
  /\ instance \in [Instances -> InstanceRow]
  /\ events \in [Instances -> SUBSET EventId]
  /\ effect \in [Effects -> EffectRow]
  /\ proc \in [Procs -> ProcState]
  /\ spent \in [overruns : Nat, faults : Nat, crashes : Nat, rejects : Nat]

Init ==
  /\ now = 0
  /\ instance = [i \in Instances |-> [status |-> "absent", rev |-> 0, wake |-> None, folded |-> {}]]
  /\ events = [i \in Instances |-> {}]
  /\ effect = [e \in Effects |-> [status |-> "absent", owner |-> None, lease |-> 0,
                                  attempt |-> 0, avail |-> 0]]
  /\ proc = [p \in Procs |-> IdleProc]
  /\ spent = [overruns |-> 0, faults |-> 0, crashes |-> 0, rejects |-> 0]

-----------------------------------------------------------------------------
(* Instances and the outbox *)

\* insertWorkflowEffects: the primary key refuses an effect that exists; each is available
\* from the instant its reducer names, now if it names none
Inserted(S) ==
  \E available \in [S -> Delays] :
    effect' = [e \in Effects |->
      IF e \in S THEN [effect[e] EXCEPT !.status = "pending", !.avail = available[e]] ELSE effect[e]]
NewEffects(i) == {e \in Effects : InstanceOf[e] = i /\ effect[e].status = "absent"}

\* start and ensure: createWorkflow with the decision of initialize.  For an id that
\* exists ensure returns the instance, and start throws unless everything is the same.
Start(i) ==
  /\ instance[i].status = "absent"
  /\ \E wake \in {None} \cup {t \in Instants : t >= now}, S \in SUBSET NewEffects(i) :
       /\ instance' = [instance EXCEPT ![i].status = "open", ![i].wake = wake]
       /\ Inserted(S)
  /\ UNCHANGED <<now, events, proc, spent>>

\* Faulty variant: a reducer that may leave the timer it answers in place
WakesKept(i, event) ==
  {instance[i].wake, None} \cup {t \in Instants : t >= now /\ <<"timer", t>> \notin events[i] \cup {event}}

\* What a reducer may decide for wakeAt: omitted (keep), null (clear), or an instant.
\* The answer to a timer never leaves that timer in place, and no reducer goes back to
\* an instant whose timer has fired: all of them add a positive delay to the present.
Wakes(i, event) ==
  LET later == {t \in Instants : t >= now /\ <<"timer", t>> \notin events[i] \cup {event}}
  IN IF event[1] = "timer" THEN {None} \cup later ELSE {instance[i].wake, None} \cup later

\* advanceWorkflow, committed: event, transition, instance and effects in one transaction
Advance(i, event, rev, folded) ==
  /\ events' = [events EXCEPT ![i] = @ \cup {event}]
  /\ \E wake \in Wakes(i, event), status \in {"open", "closed"}, S \in SUBSET NewEffects(i) :
       /\ instance' = [instance EXCEPT ![i] = [status |-> status, rev |-> rev + 1,
                                              wake |-> wake, folded |-> folded \cup {event}]]
       /\ Inserted(S)

-----------------------------------------------------------------------------
(* dispatch() *)

Begin(state, i, event) ==
  [state EXCEPT !.pc = "read", !.job = [inst |-> i, event |-> event], !.tries = 0]

\* A store operation that throws
Fault ==
  /\ spent.faults < MaxFaults
  /\ spent' = [spent EXCEPT !.faults = @ + 1]

\* Where a process goes on once its dispatch has returned, or thrown
Kind(p) == proc[p].job.event[1]
Done(p) == [proc[p] EXCEPT !.job = None, !.tries = 0, !.rev = 0, !.folded = {}]

Returned(p) ==
  proc' = [proc EXCEPT ![p] =
    CASE Kind(p) = "timer" -> [Done(p) EXCEPT !.pc = "timers"]
      [] Kind(p) = "delivered" -> [Done(p) EXCEPT !.pc = "settle"]
      [] Kind(p) = "failed" -> [Done(p) EXCEPT !.pc = "release", !.terminal = TRUE]
      [] Kind(p) = "external" -> IdleProc]

\* Faulty variant: one attempt too many
CaughtLate(state) ==
  IF state.attempt > MaxAttempts
    THEN Begin(state, InstanceOf[state.effect], <<"failed", state.effect>>)
    ELSE [state EXCEPT !.pc = "release"]

\* The catch block of a pass: the last attempt first tells the workflow
Caught(state) ==
  IF state.attempt >= MaxAttempts
    THEN Begin(state, InstanceOf[state.effect], <<"failed", state.effect>>)
    ELSE [state EXCEPT !.pc = "release"]

\* Faulty variant: a delivery is settled although the workflow could not be told
ThrewSwallowed(p) ==
  proc' = [proc EXCEPT ![p] =
    CASE Kind(p) = "delivered" -> [Done(p) EXCEPT !.pc = "settle"]
      [] Kind(p) = "failed" -> [Done(p) EXCEPT !.pc = "release", !.terminal = TRUE]
      [] OTHER -> IdleProc]

\* A timer's dispatch that throws ends the pass; a failure's that throws is remembered
\* and the effect is released all the same
Threw(p) ==
  proc' = [proc EXCEPT ![p] =
    CASE Kind(p) = "delivered" -> Caught(Done(p))
      [] Kind(p) = "failed" -> [Done(p) EXCEPT !.pc = "release", !.terminal = TRUE]
      [] OTHER -> IdleProc]

\* The instance is read and the reducer called on its state
Read(p) ==
  /\ proc[p].pc = "read"
  /\ LET row == instance[proc[p].job.inst] IN
     /\ row.status # "absent"
     /\ proc' = [proc EXCEPT ![p].pc = "write", ![p].rev = row.rev, ![p].folded = row.folded]
  /\ UNCHANGED <<now, tables, spent>>

\* The read throws: no such instance, a store fault, no matching definition, or a reducer
\* that refuses the event
ReadThrows(p) ==
  /\ proc[p].pc = "read"
  /\ \/ instance[proc[p].job.inst].status = "absent" /\ UNCHANGED spent
     \/ Fault
     \/ /\ spent.rejects < MaxRejects
        /\ spent' = [spent EXCEPT !.rejects = @ + 1]
  /\ Threw(p)
  /\ UNCHANGED <<now, tables>>

\* Faulty variant: no revision check
WriteBlindly(p) ==
  LET i == proc[p].job.inst
      event == proc[p].job.event
  IN
  /\ proc[p].pc = "write"
  /\ IF event \in events[i]
       THEN UNCHANGED tables
       ELSE Advance(i, event, instance[i].rev, proc[p].folded)
  /\ Returned(p)
  /\ UNCHANGED <<now, spent>>

\* advanceWorkflow: a recorded event commits nothing, otherwise the revision must be the
\* one that was read
Write(p) ==
  LET i == proc[p].job.inst
      event == proc[p].job.event
  IN
  /\ proc[p].pc = "write"
  /\ \/ event \in events[i] /\ UNCHANGED tables
     \/ /\ event \notin events[i]
        /\ instance[i].rev = proc[p].rev
        /\ Advance(i, event, proc[p].rev, proc[p].folded)
  /\ Returned(p)
  /\ UNCHANGED <<now, spent>>

\* A revision conflict is retried from the read, three tries in all; a fault is not
WriteFails(p) ==
  LET i == proc[p].job.inst
  IN
  /\ proc[p].pc = "write"
  /\ \/ /\ proc[p].job.event \notin events[i] /\ instance[i].rev # proc[p].rev
        /\ IF proc[p].tries < 2
             THEN proc' = [proc EXCEPT ![p].pc = "read", ![p].tries = @ + 1,
                                       ![p].rev = 0, ![p].folded = {}]
             ELSE Threw(p)
        /\ UNCHANGED spent
     \/ Fault /\ Threw(p)
  /\ UNCHANGED <<now, tables>>

\* A feature dispatches an event, possibly not for the first time
FeatureDispatch(f, x) ==
  /\ proc[f].pc = "idle"
  /\ proc' = [proc EXCEPT ![f] = Begin(IdleProc, TargetOf[x], <<"external", x>>)]
  /\ UNCHANGED <<now, tables, spent>>

-----------------------------------------------------------------------------
(* A pass of a runtime *)

IsDue(i) == instance[i].status = "open" /\ instance[i].wake # None /\ instance[i].wake <= now

\* dueWorkflows: ORDER BY wake_at, id LIMIT batch; instances with the same instant are
\* taken in any order
DueLists ==
  {S \in SUBSET {i \in Instances : IsDue(i)} :
     /\ Cardinality(S) <= Batch
     /\ \A i \in {j \in Instances : IsDue(j)} \ S :
          Cardinality(S) = Batch /\ \A j \in S : instance[j].wake <= instance[i].wake}

StartPass(r) ==
  /\ proc[r].pc = "idle"
  /\ \E S \in DueLists :
       proc' = [proc EXCEPT ![r] = [IdleProc EXCEPT !.pc = "timers",
                                     !.due = {<<i, instance[i].wake>> : i \in S}]]
  /\ UNCHANGED <<now, tables, spent>>

\* dueWorkflows or claimNextWorkflowEffect throws: the pass ends
PassThrows(r) ==
  /\ proc[r].pc = "timers"
  /\ Fault
  /\ proc' = [proc EXCEPT ![r] = IdleProc]
  /\ UNCHANGED <<now, tables>>

\* The next due instance of the list gets its timer event
NextTimer(r) ==
  /\ proc[r].pc = "timers"
  /\ \E d \in proc[r].due :
       /\ \A c \in proc[r].due : d[2] <= c[2]
       /\ proc' = [proc EXCEPT ![r] =
                    Begin([proc[r] EXCEPT !.due = @ \ {d}], d[1], <<"timer", d[2]>>)]
  /\ UNCHANGED <<now, tables, spent>>

\* Faulty variants: a claim that ignores leases; one that never takes over
ClaimableHeld(r, e) ==
  effect[e].avail <= -proc[r].age /\ effect[e].status \in {"pending", "dispatching"}
ClaimableOnce(r, e) ==
  effect[e].avail <= -proc[r].age /\ effect[e].status = "pending"

\* The WHERE clause of claimNextWorkflowEffect, at the instant the pass started
Claimable(r, e) ==
  /\ effect[e].avail <= -proc[r].age
  /\ \/ effect[e].status = "pending"
     \/ effect[e].status = "dispatching" /\ effect[e].lease <= -proc[r].age

\* An effect without a handler is claimed again and again: the count stops at MaxClaims
Counted(n) == IF n < MaxClaims THEN n + 1 ELSE n

\* claimNextWorkflowEffect; without a handler the effect is put back at once.  The lease
\* counts from the start of the pass: one that dawdled claims with an expired lease.
ClaimEffect(r) ==
  /\ proc[r].pc = "timers" /\ proc[r].due = {}
  /\ \E e \in Effects :
       /\ Claimable(r, e)
       /\ \A d \in Effects : Claimable(r, d) => effect[e].avail <= effect[d].avail
       /\ effect' = [effect EXCEPT ![e].status = "dispatching", ![e].owner = r,
                       ![e].attempt = Counted(@), ![e].lease = LeaseLen - proc[r].age]
       /\ proc' = [proc EXCEPT ![r].pc = IF e \in Handled THEN "handle" ELSE "release",
                       ![r].effect = e, ![r].attempt = Counted(effect[e].attempt)]
  /\ UNCHANGED <<now, instance, events, spent>>

ClaimNoEffect(r) ==
  /\ proc[r].pc = "timers" /\ proc[r].due = {}
  /\ \A e \in Effects : ~Claimable(r, e)
  /\ proc' = [proc EXCEPT ![r] = IdleProc]
  /\ UNCHANGED <<now, tables, spent>>

\* handler.execute resolves, or throws
HandlerEnds(r) ==
  LET e == proc[r].effect IN
  /\ proc[r].pc = "handle"
  /\ \/ proc' = [proc EXCEPT ![r] = Begin(proc[r], InstanceOf[e], <<"delivered", e>>)]
     \/ proc' = [proc EXCEPT ![r] = Caught(proc[r])]
  /\ UNCHANGED <<now, tables, spent>>

\* Faulty variant: the owner is left out of the WHERE clauses of settle and release
OwnsAnybody(r) == effect[proc[r].effect].status = "dispatching"

Owns(r) ==
  LET row == effect[proc[r].effect] IN row.status = "dispatching" /\ row.owner = r

Freed(e, status, avail) ==
  effect' = [effect EXCEPT ![e].status = status, ![e].owner = None, ![e].lease = 0, ![e].avail = avail]

\* settleWorkflowEffect
Settle(r) ==
  /\ proc[r].pc = "settle"
  /\ Owns(r)
  /\ Freed(proc[r].effect, "delivered", 0)
  /\ proc' = [proc EXCEPT ![r] = IdleProc]
  /\ UNCHANGED <<now, instance, events, spent>>

\* ... throws, inside the try block that catches handler failures
SettleThrows(r) ==
  /\ proc[r].pc = "settle"
  /\ \/ ~Owns(r) /\ UNCHANGED spent
     \/ Fault
  /\ proc' = [proc EXCEPT ![r] = Caught(proc[r])]
  /\ UNCHANGED <<now, tables>>

\* releaseWorkflowEffect: for a retry, or for good when the last attempt failed
Release(r) ==
  /\ proc[r].pc = "release"
  /\ Owns(r)
  /\ IF proc[r].terminal
       THEN Freed(proc[r].effect, "failed", 0)
       ELSE Freed(proc[r].effect, "pending", RetryDelay - proc[r].age)
  /\ proc' = [proc EXCEPT ![r] = IdleProc]
  /\ UNCHANGED <<now, instance, events, spent>>

ReleaseThrows(r) ==
  /\ proc[r].pc = "release"
  /\ \/ ~Owns(r) /\ UNCHANGED spent
     \/ Fault
  /\ proc' = [proc EXCEPT ![r] = IdleProc]
  /\ UNCHANGED <<now, tables>>

-----------------------------------------------------------------------------
(* Crashes and time *)

Crash(r) ==
  /\ spent.crashes < MaxCrashes
  /\ spent' = [spent EXCEPT !.crashes = @ + 1]
  /\ proc' = [proc EXCEPT ![r] = IdleProc]
  /\ UNCHANGED <<now, tables>>

\* The pass whose claim the row of e records
Claimant(r, e) ==
  /\ proc[r].effect = e
  /\ effect[e].status = "dispatching" /\ effect[e].owner = r
  /\ effect[e].attempt = proc[r].attempt

\* The leases that run out with the next tick under their pass, those included that a
\* pass is still to take and that will have expired by then
Overruns ==
  {r \in Runtimes :
     \/ \E e \in Effects : Claimant(r, e) /\ effect[e].lease = 1
     \/ proc[r].pc # "idle" /\ proc[r].effect = None /\ proc[r].age + 1 = LeaseLen}

\* Instants further back than a pass may last are all the same to it, but for the order
\* in which effects became available
Open == {e \in Effects : effect[e].status \in {"pending", "dispatching"}}
Newer(e) == {d \in Open : effect[d].avail > effect[e].avail}
Ago(t, floor) == IF t < floor THEN floor ELSE t

Tick ==
  /\ \A p \in Procs : proc[p].pc = "idle" \/ proc[p].age < MaxAge
  /\ spent.overruns + Cardinality(Overruns) <= MaxOverruns
  /\ spent' = [spent EXCEPT !.overruns = @ + Cardinality(Overruns)]
  /\ now' = IF now < Horizon THEN now + 1 ELSE now
  /\ effect' = [e \in Effects |->
       IF e \in Open
         THEN [effect[e] EXCEPT !.avail = Ago(@ - 1, -MaxAge - Cardinality(Newer(e))),
                                !.lease = Ago(@ - 1, -MaxAge)]
         ELSE effect[e]]
  /\ proc' = [p \in Procs |->
       IF proc[p].pc = "idle" THEN proc[p] ELSE [proc[p] EXCEPT !.age = @ + 1]]
  /\ UNCHANGED <<instance, events>>

-----------------------------------------------------------------------------

DispatchStep(p) == Read(p) \/ ReadThrows(p) \/ Write(p) \/ WriteFails(p)

PassStep(r) ==
  \/ StartPass(r) \/ PassThrows(r) \/ NextTimer(r)
  \/ ClaimEffect(r) \/ ClaimNoEffect(r) \/ HandlerEnds(r)
  \/ Settle(r) \/ SettleThrows(r) \/ Release(r) \/ ReleaseThrows(r)

Next ==
  \/ \E i \in Instances : Start(i)
  \/ \E f \in Features, x \in External : FeatureDispatch(f, x)
  \/ \E p \in Procs : DispatchStep(p)
  \/ \E r \in Runtimes : PassStep(r) \/ Crash(r)
  \/ Tick

Spec == Init /\ [][Next]_vars

\* The wake scheduler keeps starting passes, every await settles, and time passes:
\* strongly fair, since endless passes or feature calls stop the model's clock, not the
\* real one
Fairness ==
  /\ \A r \in Runtimes : WF_vars(PassStep(r) \/ DispatchStep(r))
  /\ \A f \in Features : WF_vars(DispatchStep(f))
  /\ SF_vars(Tick)

FairSpec == Spec /\ Fairness

-----------------------------------------------------------------------------
(* Properties *)

\* No lost update: the state of an instance is the fold of exactly the events recorded
\* for it, each once, and its revision counts them - however the dispatches of runtimes
\* and features interleave (dispatch's read and advanceWorkflow's revision check).
NoLostUpdate ==
  \A i \in Instances :
    /\ instance[i].folded = events[i]
    /\ instance[i].rev = Cardinality(events[i])

\* The rows have their types and no update is lost
WorkflowInvariant == TypeOK /\ NoLostUpdate

\* An effect counts as delivered only once its workflow has been told
DeliveryReported ==
  \A e \in Effects : effect[e].status = "delivered" => <<"delivered", e>> \in events[InstanceOf[e]]

\* Without a fault, a crash or a lease that ran out, a workflow hears one verdict on an
\* effect: delivered, or failed for good.
OneVerdictUndisturbed ==
  spent.faults = 0 /\ spent.crashes = 0 /\ spent.overruns = 0 =>
    \A e \in Effects : ~({<<"delivered", e>>, <<"failed", e>>} \subseteq events[InstanceOf[e]])

\* The cap on attempts: as long as no claim was lost to a crash, a lease or a fault, no
\* handled effect is claimed more than maxAttempts times.
AttemptsCapped ==
  \A e \in Handled : effect[e].attempt <= MaxAttempts + spent.faults + spent.crashes + spent.overruns

\* Only the pass whose claim the row records settles or releases an effect
CommitByClaimant ==
  [][\A e \in Effects :
       effect[e].status = "dispatching" /\ effect'[e].status # "dispatching" =>
         \E r \in Runtimes : Claimant(r, e) /\ proc'[r] # proc[r]]_vars

\* Every handled effect is settled in the end, through faults, crashes, refusals and lost
\* leases, and every due timer is dealt with
EffectsSettled ==
  \A e \in Handled : effect[e].status = "pending" ~> effect[e].status \in {"delivered", "failed"}
TimersServed == \A i \in Instances : IsDue(i) ~> ~IsDue(i)
=============================================================================

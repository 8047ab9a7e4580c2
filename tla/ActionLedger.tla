---------------------------- MODULE ActionLedger ----------------------------
(***************************************************************************)
(* The durable action ledger (src/src/storage/sqlite.ts: action_record,    *)
(* action_execution, approval_request, action_transition) together with    *)
(* the workers that drain it (src/src/execution/worker.ts, worker-plugin   *)
(* .ts) and the router they execute through (src/src/execution/router.ts). *)
(*                                                                         *)
(* Every ledger operation is one BEGIN IMMEDIATE transaction, hence one    *)
(* step.  A worker run is a sequence of awaits, hence a sequence of steps: *)
(* claim, acquire the DSH parent session, execute one provider of the      *)
(* route after the other, and then settle, defer or release.  Runs of      *)
(* several hosts, and overlapping runs of one host, interleave.            *)
(*                                                                         *)
(* Times are kept relative to the current instant: `avail' and `lease' are *)
(* the ticks that separate now from available_at and lease_expires_at, so  *)
(* a value <= 0 means the instant has come.  Tick lets one unit pass.      *)
(***************************************************************************)
EXTENDS Integers, FiniteSets

CONSTANTS
  Actions,        \* ids of the actions that may be enqueued
  ReadOnly,       \* the actions whose request.mode is 'read-only'
  Runs,           \* runOnce invocations that may be in flight at the same time
  Hosts,          \* processes: one ActionWorkerService and one router each
  Workspaces,     \* the configured workspaces: one worker per host and workspace
  HostOf,         \* [Runs -> Hosts]
  WorkspaceOf,    \* [Runs -> Workspaces], the workspace of the run's worker
  Home,           \* [Actions -> Workspaces], request.workspace
  ConfiguredId,   \* [Hosts -> worker ids], config.workerId of the host
  None,           \* the SQL NULL, and the action of an idle run
  LeaseLen,       \* leaseMs in ticks
  RetryDelay,     \* retryDelayMs in ticks
  MaxAttempts,    \* maxAttempts of the worker configuration
  RouteLen,       \* number of executors in a route
  Past,           \* bound: an instant more than Past ticks ago counts as Past ticks ago
  MaxOverruns,    \* bound: leases that may expire while their run is still in flight
  MaxCrashes,     \* bound: process crashes
  MaxFaults       \* bound: store operations that throw (busy, I/O, connection)

ASSUME LedgerAssumption ==
  /\ IsFiniteSet(Actions) /\ IsFiniteSet(Runs)
  /\ ReadOnly \subseteq Actions
  /\ HostOf \in [Runs -> Hosts]
  /\ WorkspaceOf \in [Runs -> Workspaces]
  /\ Home \in [Actions -> Workspaces]
  /\ None \notin Actions
  /\ \A h \in Hosts, w \in Workspaces : <<ConfiguredId[h], w>> # None
  /\ LeaseLen \in Nat \ {0}
  /\ RetryDelay \in Nat
  /\ MaxAttempts \in Nat \ {0}
  /\ RouteLen \in Nat \ {0}
  /\ Past \in Nat
  /\ MaxOverruns \in Nat /\ MaxCrashes \in Nat /\ MaxFaults \in Nat

VARIABLES
  execution,   \* rows of action_execution, by action id
  record,      \* action_record.state, by action id
  approval,    \* approval_request.status, by action id ("none": no approval row)
  journal,     \* rows of action_transition, by action id
  run,         \* the in-flight runOnce invocations
  running,     \* ActionWorkerService.running, by host
  spent        \* what the run of the model has used of its bounds

vars == <<execution, record, approval, journal, run, running, spent>>
ledger == <<execution, record, approval, journal>>

-----------------------------------------------------------------------------
(* Types *)

\* `${config.workerId}:${sha256(workspace)}', the lease_owner of a run's claims
Worker(r) == <<ConfiguredId[HostOf[r]], WorkspaceOf[r]>>
WorkerIds == {Worker(r) : r \in Runs}

Settled == {"completed", "needs-input", "failed"}
ExecutionStatus == {"absent", "pending", "executing"} \cup Settled
RecordState == {"absent", "awaiting-approval", "planned", "executing",
                "waiting-external", "completed", "failed"}
ApprovalStatus == {"none", "pending", "approved", "rejected"}

\* idempotency_key of a transition row, without the action id that prefixes it
KeyKind == {"enqueue", "approval", "claim", "settle", "retry", "fail"}
Key == KeyKind \X Nat
Row == [key : Key, from : RecordState, to : RecordState]

\* Where a runOnce stands.  "execute" is the time the action is in the router's
\* `active' set; "finish" precedes the settle or defer call, "catch" the release.
RunPc == {"idle", "claim", "acquire", "execute", "finish", "catch"}
Intent == Settled \cup {"none", "retry"}
IdleRun == [pc |-> "idle", action |-> None, attempt |-> 0, granted |-> FALSE,
            hop |-> 0, age |-> 0, intent |-> "none", inPass |-> FALSE]

AbsentExecution == [status |-> "absent", owner |-> None, lease |-> 0,
                    attempt |-> 0, avail |-> 0, created |-> 0]

ExecutionRow == [status : ExecutionStatus, owner : WorkerIds \cup {None},
                 lease : Int, attempt : Nat, avail : Int, created : Nat]
RunState == [pc : RunPc, action : Actions \cup {None}, attempt : Nat, granted : BOOLEAN,
             hop : Nat, age : Nat, intent : Intent, inPass : BOOLEAN]

TypeOK ==
  /\ execution \in [Actions -> ExecutionRow]
  /\ record \in [Actions -> RecordState]
  /\ approval \in [Actions -> ApprovalStatus]
  /\ journal \in [Actions -> SUBSET Row]
  /\ run \in [Runs -> RunState]
  /\ running \in [Hosts -> BOOLEAN]
  /\ spent \in [overruns : Nat, crashes : Nat, faults : Nat]

Init ==
  /\ execution = [a \in Actions |-> AbsentExecution]
  /\ record = [a \in Actions |-> "absent"]
  /\ approval = [a \in Actions |-> "none"]
  /\ journal = [a \in Actions |-> {}]
  /\ run = [r \in Runs |-> IdleRun]
  /\ running = [h \in Hosts |-> FALSE]
  /\ spent = [overruns |-> 0, crashes |-> 0, faults |-> 0]

-----------------------------------------------------------------------------
(* Ledger operations: what one committed transaction does *)

\* idempotency_key is UNIQUE: a second row with the key aborts the transaction
Fresh(a, key) == \A row \in journal[a] : row.key # key

\* UPDATE action_record together with INSERT INTO action_transition
Transition(a, from, to, key) ==
  /\ record' = [record EXCEPT ![a] = to]
  /\ journal' = [journal EXCEPT ![a] = @ \cup {[key |-> key, from |-> from, to |-> to]}]

\* enqueueAction.  An action that is not read-only is refused without an approval;
\* an id that is already present changes nothing (idempotent repeat or refusal).
Enqueue(a, gated) ==
  LET state == IF gated THEN "awaiting-approval" ELSE "planned" IN
  /\ a \notin ReadOnly => gated
  /\ execution[a].status = "absent"
  /\ execution' = [execution EXCEPT ![a].status = "pending",
                     ![a].created = Cardinality({b \in Actions : execution[b].status # "absent"})]
  /\ approval' = [approval EXCEPT ![a] = IF gated THEN "pending" ELSE "none"]
  /\ Transition(a, "absent", state, <<"enqueue", 0>>)
  /\ UNCHANGED <<run, running, spent>>

\* Faulty variant: a rejection that leaves the execution row pending
DecideLeavesExecution(a, decision) ==
  /\ approval[a] = "pending"
  /\ Fresh(a, <<"approval", 0>>)
  /\ approval' = [approval EXCEPT ![a] = decision]
  /\ Transition(a, "awaiting-approval",
                IF decision = "approved" THEN "planned" ELSE "failed", <<"approval", 0>>)
  /\ UNCHANGED <<execution, run, running, spent>>

\* decideApproval.  A repeated identical decision commits nothing; the opposite
\* decision on a decided approval is refused.
Decide(a, decision) ==
  /\ approval[a] = "pending"
  /\ Fresh(a, <<"approval", 0>>)
  /\ approval' = [approval EXCEPT ![a] = decision]
  /\ execution' = IF decision = "rejected"
                    THEN [execution EXCEPT ![a].status = "failed"] ELSE execution
  /\ Transition(a, "awaiting-approval",
                IF decision = "approved" THEN "planned" ELSE "failed", <<"approval", 0>>)
  /\ UNCHANGED <<run, running, spent>>

\* Faulty variants of the WHERE clause: without the approval, without the reclaim of
\* expired leases, and with actions that wait for the owner
ClaimableUngated(a, w) ==
  /\ Home[a] = w
  /\ execution[a].avail <= 0
  /\ \/ execution[a].status = "pending"
     \/ execution[a].status = "executing" /\ execution[a].lease <= 0
ClaimableOnce(a, w) ==
  /\ Home[a] = w
  /\ execution[a].avail <= 0 /\ execution[a].status = "pending"
  /\ approval[a] \in {"none", "approved"}
ClaimableWaiting(a, w) ==
  /\ Home[a] = w
  /\ execution[a].avail <= 0
  /\ \/ execution[a].status \in {"pending", "needs-input"}
     \/ execution[a].status = "executing" /\ execution[a].lease <= 0
  /\ approval[a] \in {"none", "approved"}

\* The WHERE clause of claimNextAction
Claimable(a, w) ==
  /\ Home[a] = w
  /\ execution[a].avail <= 0
  /\ \/ execution[a].status = "pending"
     \/ execution[a].status = "executing" /\ execution[a].lease <= 0
  /\ approval[a] \in {"none", "approved"}

\* ORDER BY e.available_at, e.created_at
Before(a, b) ==
  \/ execution[a].avail < execution[b].avail
  \/ execution[a].avail = execution[b].avail /\ execution[a].created < execution[b].created

\* The row claimNextAction selects
Selected(a, w) ==
  /\ Claimable(a, w)
  /\ \A b \in Actions : Claimable(b, w) => ~Before(b, a)

\* Faulty variant: the owner left out of the WHERE clause
OwnsAnybody(r, a) == execution[a].status = "executing"

\* settleAction and releaseActionClaim find their row by status and owner alone
Owns(r, a) == execution[a].status = "executing" /\ execution[a].owner = Worker(r)

ActionStateOf(status) ==
  CASE status = "completed" -> "completed"
    [] status = "needs-input" -> "waiting-external"
    [] status = "failed" -> "failed"
    [] status = "retry" -> "planned"

\* settleAction, committed: the execution takes the status of the result
Settle(r, a, status) ==
  /\ execution' = [execution EXCEPT ![a].status = status, ![a].owner = None, ![a].lease = 0]
  /\ Transition(a, "executing", ActionStateOf(status), <<"settle", execution[a].attempt>>)

\* An instant t ticks from now, kept within the horizon of the model
Clamp(t) == IF t < -Past THEN -Past ELSE t

\* nextRetry: min(2 ** (attempt - 1), 32) delays after the start of the run
Multiplier(attempt) ==
  <<1, 2, 4, 8, 16, 32>>[IF attempt < 1 THEN 1 ELSE IF attempt > 6 THEN 6 ELSE attempt]
RetryIn(r) == Clamp(RetryDelay * Multiplier(run[r].attempt) - run[r].age)

\* Faulty variant: the attempt is given back
ReleaseWithAttempt(r, a, disposition) ==
  LET retry == disposition = "retry" IN
  /\ execution' = [execution EXCEPT ![a].status = IF retry THEN "pending" ELSE "failed",
                     ![a].owner = None, ![a].lease = 0, ![a].attempt = @ - 1,
                     ![a].avail = IF retry THEN RetryIn(r) ELSE 0]
  /\ Transition(a, "executing", ActionStateOf(disposition),
                <<IF retry THEN "retry" ELSE "fail", execution[a].attempt>>)

\* releaseActionClaim, committed, with disposition 'retry' or 'failed'
Release(r, a, disposition) ==
  LET retry == disposition = "retry" IN
  /\ execution' = [execution EXCEPT ![a].status = IF retry THEN "pending" ELSE "failed",
                     ![a].owner = None, ![a].lease = 0,
                     ![a].avail = IF retry THEN RetryIn(r) ELSE 0]
  /\ Transition(a, "executing", ActionStateOf(disposition),
                <<IF retry THEN "retry" ELSE "fail", execution[a].attempt>>)

\* The transaction a run is about to commit would be refused: the row is not its
\* own any more, or the unique index rejects the transition
Refused(r, a, kind) == ~Owns(r, a) \/ ~Fresh(a, <<kind, execution[a].attempt>>)

-----------------------------------------------------------------------------
(* A pass of ActionWorkerService and the runs it starts *)

Idle(r) == run[r].pc = "idle"
InPass(h) == {r \in Runs : HostOf[r] = h /\ run[r].inPass}

\* runOnce of the service: one run per workspace, all started together
StartPass(h) ==
  /\ ~running[h]
  /\ \E S \in SUBSET {r \in Runs : HostOf[r] = h /\ Idle(r)} :
       /\ \A w \in Workspaces : \E r \in S : WorkspaceOf[r] = w
       /\ \A q, r \in S : WorkspaceOf[q] = WorkspaceOf[r] => q = r
       /\ run' = [r \in Runs |->
                    IF r \in S THEN [IdleRun EXCEPT !.pc = "claim", !.inPass = TRUE]
                               ELSE run[r]]
  /\ running' = [running EXCEPT ![h] = TRUE]
  /\ UNCHANGED <<ledger, spent>>

\* The run resolves; Promise.all resolves with the last run of the pass
Resolve(r) ==
  /\ run' = [run EXCEPT ![r] = IdleRun]
  /\ running' = [running EXCEPT ![HostOf[r]] =
                   IF run[r].inPass THEN InPass(HostOf[r]) # {r} ELSE @]

\* The run rejects: Promise.all rejects at once, `running' is reset, and the other
\* runs of the pass go on with nobody waiting for them
Reject(r) ==
  /\ run' = [q \in Runs |->
               IF q = r THEN IdleRun
               ELSE IF run[r].inPass /\ HostOf[q] = HostOf[r]
                      THEN [run[q] EXCEPT !.inPass = FALSE] ELSE run[q]]
  /\ running' = [running EXCEPT ![HostOf[r]] = IF run[r].inPass THEN FALSE ELSE @]

\* A store operation, or a dispose, that throws
Fault ==
  /\ spent.faults < MaxFaults
  /\ spent' = [spent EXCEPT !.faults = @ + 1]

\* Faulty variant: a transition row that always says `planned'
ClaimFromPlanned(r, a) ==
  LET n == execution[a].attempt + 1 IN
  /\ run[r].pc = "claim"
  /\ Selected(a, WorkspaceOf[r])
  /\ Fresh(a, <<"claim", n>>)
  /\ execution' = [execution EXCEPT ![a].status = "executing", ![a].owner = Worker(r),
                                    ![a].lease = LeaseLen, ![a].attempt = n]
  /\ Transition(a, "planned", "executing", <<"claim", n>>)
  /\ run' = [run EXCEPT ![r].pc = "acquire", ![r].action = a, ![r].attempt = n,
                        ![r].granted = (approval[a] = "approved")]
  /\ UNCHANGED <<approval, running, spent>>

\* claimNextAction commits for the run
ClaimAction(r, a) ==
  LET n == execution[a].attempt + 1 IN
  /\ run[r].pc = "claim"
  /\ Selected(a, WorkspaceOf[r])
  /\ Fresh(a, <<"claim", n>>)
  /\ execution' = [execution EXCEPT ![a].status = "executing", ![a].owner = Worker(r),
                                    ![a].lease = LeaseLen, ![a].attempt = n]
  /\ Transition(a, record[a], "executing", <<"claim", n>>)
  /\ run' = [run EXCEPT ![r].pc = "acquire", ![r].action = a, ![r].attempt = n,
                        ![r].granted = (approval[a] = "approved")]
  /\ UNCHANGED <<approval, running, spent>>

\* claimNextAction finds nothing: the run is idle
ClaimNothing(r) ==
  /\ run[r].pc = "claim"
  /\ \A a \in Actions : ~Claimable(a, WorkspaceOf[r])
  /\ Resolve(r)
  /\ UNCHANGED <<ledger, spent>>

\* claimNextAction throws outside the try block: the run rejects
ClaimThrows(r) ==
  /\ run[r].pc = "claim"
  /\ \/ Fault
     \/ /\ \E a \in Actions : /\ Selected(a, WorkspaceOf[r])
                              /\ ~Fresh(a, <<"claim", execution[a].attempt + 1>>)
        /\ UNCHANGED spent
  /\ Reject(r)
  /\ UNCHANGED ledger

\* Faulty variant: one retry too many
DispositionLate(r, infra) == IF infra /\ run[r].attempt <= MaxAttempts THEN "retry" ELSE "failed"

\* The disposition the catch block chooses; `infra' is isInfrastructureFailure(error)
Disposition(r, infra) == IF infra /\ run[r].attempt < MaxAttempts THEN "retry" ELSE "failed"

ToCatch(r, infra) == run' = [run EXCEPT ![r].pc = "catch", ![r].hop = 0,
                                        ![r].intent = Disposition(r, infra)]

\* agents.acquire throws: busy transport, abort, foreign workspace, provider failure
AcquireThrows(r) ==
  /\ run[r].pc = "acquire"
  /\ \E infra \in BOOLEAN : ToCatch(r, infra)
  /\ UNCHANGED <<ledger, running, spent>>

\* issueDurableExecutorAuthorization for what claimNextAction returned
Authorized(r) == run[r].action \in ReadOnly \/ run[r].granted

\* The router's `active' set of the run's host
Active(h) == {run[r].action : r \in {q \in Runs : HostOf[q] = h /\ run[q].pc = "execute"}}

\* Faulty variant: no `active' set
EnterRouterBlindly(r) ==
  /\ run[r].pc = "acquire"
  /\ \/ ~Authorized(r) /\ ToCatch(r, FALSE)
     \/ Authorized(r) /\ run' = [run EXCEPT ![r].pc = "execute", ![r].hop = 1]
  /\ UNCHANGED <<ledger, running, spent>>

\* routeRequest and the entry of router.execute.  The text of the second error
\* carries the action id, which the infrastructure pattern may match ("502").
EnterRouter(r) ==
  /\ run[r].pc = "acquire"
  /\ \/ ~Authorized(r) /\ ToCatch(r, FALSE)
     \/ /\ Authorized(r) /\ run[r].action \in Active(HostOf[r])
        /\ \E infra \in BOOLEAN : ToCatch(r, infra)
     \/ /\ Authorized(r) /\ run[r].action \notin Active(HostOf[r])
        /\ run' = [run EXCEPT ![r].pc = "execute", ![r].hop = 1]
  /\ UNCHANGED <<ledger, running, spent>>

\* The loop over the route: the result of the provider at the current hop.  Only an
\* infrastructure failure with executors left goes on to the next; a result whose
\* attempts are all infrastructure failures is retryable below maxAttempts.
Result(r, intent) == run' = [run EXCEPT ![r].pc = "finish", ![r].hop = 0, ![r].intent = intent]

ProviderEnds(r) ==
  /\ run[r].pc = "execute"
  /\ \/ \E status \in Settled : Result(r, status)
     \/ /\ run[r].hop < RouteLen
        /\ run' = [run EXCEPT ![r].hop = @ + 1]
     \/ /\ run[r].hop = RouteLen
        /\ Result(r, Disposition(r, TRUE))
  /\ UNCHANGED <<ledger, running, spent>>

\* The workspace policy or the dispose of a provider's run throws out of the router
RouterThrows(r) ==
  /\ run[r].pc = "execute"
  /\ \E infra \in BOOLEAN : ToCatch(r, infra)
  /\ UNCHANGED <<ledger, running, spent>>

\* The run ends after its transaction; lease.dispose() in the finally may throw
EndRun(r) ==
  \/ Resolve(r) /\ UNCHANGED spent
  \/ Reject(r) /\ Fault

\* settleAction, or releaseActionClaim of defer
Finish(r) ==
  LET a == run[r].action IN
  /\ run[r].pc = "finish"
  /\ IF run[r].intent = "retry"
       THEN ~Refused(r, a, "retry") /\ Release(r, a, "retry")
       ELSE ~Refused(r, a, "settle") /\ Settle(r, a, run[r].intent)
  /\ EndRun(r)
  /\ UNCHANGED approval

\* settleAction or defer throws; its text too may match the pattern
FinishThrows(r) ==
  /\ run[r].pc = "finish"
  /\ \/ /\ Refused(r, run[r].action, IF run[r].intent = "retry" THEN "retry" ELSE "settle")
        /\ UNCHANGED spent
     \/ Fault
  /\ \E infra \in BOOLEAN : ToCatch(r, infra)
  /\ UNCHANGED <<ledger, running>>

\* releaseActionClaim in the catch block
CatchRelease(r) ==
  LET a == run[r].action IN
  /\ run[r].pc = "catch"
  /\ ~Refused(r, a, IF run[r].intent = "retry" THEN "retry" ELSE "fail")
  /\ Release(r, a, run[r].intent)
  /\ EndRun(r)
  /\ UNCHANGED approval

\* releaseActionClaim throws: the run rejects and the row stays as it is
CatchThrows(r) ==
  /\ run[r].pc = "catch"
  /\ \/ /\ Refused(r, run[r].action, IF run[r].intent = "retry" THEN "retry" ELSE "fail")
        /\ UNCHANGED spent
     \/ Fault
  /\ Reject(r)
  /\ UNCHANGED ledger

\* The process of a host dies: its runs are gone, its claims stay in the ledger
Crash(h) ==
  /\ spent.crashes < MaxCrashes
  /\ spent' = [spent EXCEPT !.crashes = @ + 1]
  /\ run' = [r \in Runs |-> IF HostOf[r] = h THEN IdleRun ELSE run[r]]
  /\ running' = [running EXCEPT ![h] = FALSE]
  /\ UNCHANGED ledger

-----------------------------------------------------------------------------
(* Time *)

\* The run whose claim the row of a records, as opposed to one overtaken by a reclaim
Claimant(r, a) ==
  /\ run[r].action = a
  /\ execution[a].status = "executing"
  /\ execution[a].owner = Worker(r)
  /\ execution[a].attempt = run[r].attempt

\* The leases that run out with the next tick under a run still in flight
Overruns == {r \in Runs : \E a \in Actions : Claimant(r, a) /\ execution[a].lease = 1}

\* Beyond this age a retry is due at once whatever the age
AgeBound == RetryDelay * Multiplier(MaxAttempts) + Past

\* One unit of time.  runOnce reads `now' and claims with it at once, so here a run reads
\* it with its claim, and is young until then.  The instants of settled rows are not read
\* again.
Tick ==
  /\ spent.overruns + Cardinality(Overruns) <= MaxOverruns
  /\ spent' = [spent EXCEPT !.overruns = @ + Cardinality(Overruns)]
  /\ execution' = [a \in Actions |->
       IF execution[a].status \in {"pending", "executing"}
         THEN [execution[a] EXCEPT !.avail = Clamp(@ - 1),
                                   !.lease = IF @ > 0 THEN @ - 1 ELSE 0]
         ELSE execution[a]]
  /\ run' = [r \in Runs |->
       IF run[r].pc \in {"idle", "claim"} \/ run[r].age >= AgeBound THEN run[r] ELSE [run[r] EXCEPT !.age = @ + 1]]
  /\ UNCHANGED <<record, approval, journal, running>>

-----------------------------------------------------------------------------

RunStep(r) ==
  \/ \E a \in Actions : ClaimAction(r, a)
  \/ ClaimNothing(r)
  \/ ClaimThrows(r)
  \/ AcquireThrows(r)
  \/ EnterRouter(r)
  \/ ProviderEnds(r)
  \/ RouterThrows(r)
  \/ Finish(r)
  \/ FinishThrows(r)
  \/ CatchRelease(r)
  \/ CatchThrows(r)

Next ==
  \/ \E a \in Actions, gated \in BOOLEAN : Enqueue(a, gated)
  \/ \E a \in Actions, decision \in {"approved", "rejected"} : Decide(a, decision)
  \/ \E h \in Hosts : StartPass(h) \/ Crash(h)
  \/ \E r \in Runs : RunStep(r)
  \/ Tick

Spec == Init /\ [][Next]_vars

\* Commit hints and the recovery scan keep starting passes, every await of a run
\* settles in the end, and time passes: strongly fair, since the bound on overruns holds
\* the model's clock, not the real one.  Callers and the owner owe nothing.
Fairness ==
  /\ \A h \in Hosts : WF_vars(StartPass(h))
  /\ \A r \in Runs : WF_vars(RunStep(r))
  /\ SF_vars(Tick)

FairSpec == Spec /\ Fairness

-----------------------------------------------------------------------------
(* Properties *)

\* The three tables tell one story: the state the console shows for an action, the
\* status workers claim by and the decision of its approval always fit together, and
\* a row has an owner exactly while it is executing.
Consistent(a) ==
  LET e == execution[a] IN
  /\ e.owner # None <=> e.status = "executing"
  /\ e.status = "absent" <=> record[a] = "absent"
  /\ e.status = "executing" <=> record[a] = "executing"
  /\ e.status \in Settled => record[a] = ActionStateOf(e.status)
  /\ e.status = "pending" => record[a] = IF approval[a] = "pending"
                                          THEN "awaiting-approval" ELSE "planned"
  /\ approval[a] = "pending" => e.status = "pending" /\ e.attempt = 0
  /\ approval[a] = "rejected" => e.status = "failed" /\ e.attempt = 0

LedgerConsistent == \A a \in Actions : Consistent(a)

\* An action whose enqueue asked for an approval is in no worker's hands before the
\* approval is granted, and a writing action reaches the router only with a grant -
\* across retries, reclaims, overlapping runs and crashes (claimNextAction's WHERE
\* clause and the single-use authorization).
GateRespected ==
  \A r \in Runs :
    LET a == run[r].action IN
    a # None => /\ approval[a] \in {"none", "approved"}
                /\ run[r].pc = "execute" /\ a \notin ReadOnly => approval[a] = "approved"

\* No operation a worker may be about to commit is refused by the unique index on
\* idempotency_key: attempts are never reused, so a retry cannot be mistaken for a
\* repetition of an earlier attempt.
KeysAreFresh ==
  \A a \in Actions :
    LET n == execution[a].attempt IN
    /\ execution[a].status \in {"pending", "executing"} => Fresh(a, <<"claim", n + 1>>)
    /\ execution[a].status = "executing" =>
         \A kind \in {"settle", "retry", "fail"} : Fresh(a, <<kind, n>>)
    /\ approval[a] = "pending" => Fresh(a, <<"approval", 0>>)

\* What makes the three properties above inductive.  A run that holds an action holds
\* one that was enqueued and is not gated any more, carries the grant it may need, and
\* ends with a verdict its transaction understands ...
RunSound(r) ==
  LET a == run[r].action IN
  /\ run[r].pc \in {"acquire", "execute", "finish", "catch"} <=> a # None
  /\ a # None => approval[a] \in {"none", "approved"} /\ execution[a].status # "absent"
  /\ a # None /\ run[r].granted => approval[a] = "approved"
  /\ run[r].pc = "execute" => Authorized(r)
  /\ run[r].pc = "finish" => run[r].intent \in Settled \cup {"retry"}
  /\ run[r].pc = "catch" => run[r].intent \in {"retry", "failed"}

\* ... and the journal of an action is empty before it is enqueued, and never ahead of
\* the attempt, the approval or the status of its execution.
JournalSound(a) ==
  /\ execution[a].status = "absent" =>
       journal[a] = {} /\ approval[a] = "none" /\ execution[a].attempt = 0
  /\ \A row \in journal[a] :
       /\ row.key[2] <= execution[a].attempt
       /\ row.key[1] = "approval" => approval[a] \in {"approved", "rejected"}
       /\ row.key[1] \in {"settle", "retry", "fail"} /\ row.key[2] = execution[a].attempt
            => execution[a].status # "executing"

LedgerInvariant ==
  /\ TypeOK
  /\ LedgerConsistent
  /\ \A r \in Runs : RunSound(r)
  /\ \A a \in Actions : JournalSound(a)

\* The router of one process never has an action in its hands twice, even when a
\* rejected pass left a run behind and its lease has expired (the `active' set).
OneExecutorPerHost ==
  \A q, r \in Runs :
    q # r /\ HostOf[q] = HostOf[r] /\ run[q].pc = "execute" /\ run[r].pc = "execute"
      => run[q].action # run[r].action

\* The cap on retries holds in the ledger: as long as worker identities are not shared
\* by two runs, what waits for a retry has used fewer than maxAttempts attempts, so
\* only a reclaim after an expired lease can take an action beyond the cap.
RetryWithinCap ==
  \A a \in Actions :
    execution[a].status = "pending" => execution[a].attempt < MaxAttempts

\* The transition journal is a faithful audit trail: every change of an action's state
\* adds exactly one row, whose from_state - a literal in most statements - is the state
\* the action really had and whose to_state is the one it got, and no row is lost.
AuditTrail ==
  [][\A a \in Actions :
       record'[a] # record[a] \/ journal'[a] # journal[a] \/ execution'[a].status # execution[a].status =>
         /\ journal[a] \subseteq journal'[a]
         /\ \E row \in journal'[a] \ journal[a] :
              /\ journal'[a] \ journal[a] = {row}
              /\ row.from = record[a] /\ row.to = record'[a]]_vars

\* A settled action is never claimed, settled or released again, whatever late runs,
\* retries and reclaims are still under way.
SettledForGood ==
  [][\A a \in Actions :
       execution[a].status \in Settled =>
         execution'[a] = execution[a] /\ record'[a] = record[a] /\ journal'[a] = journal[a]]_vars

\* Only the run whose claim the ledger records takes the action out of `executing': a
\* run that lost its lease to another worker commits nothing (docs/architecture.md:388;
\* needs one run per worker identity).
CommitByClaimant ==
  [][\A a \in Actions :
       execution[a].status = "executing" /\ execution'[a].status # "executing" =>
         \E r \in Runs : Claimant(r, a) /\ run'[r] # run[r]]_vars

\* Every action that nothing holds back is settled in the end, through infrastructure
\* failures, rejected passes, crashes and lost leases.
Runnable(a) ==
  execution[a].status \in {"pending", "executing"} /\ approval[a] \in {"none", "approved"}
EventuallySettled ==
  \A a \in Actions : Runnable(a) ~> execution[a].status \in Settled

\* The tables implement the life of a job as the caller sees it: the job's phase is the
\* action's state in action_record, its epoch the attempt of action_execution.
PhaseOf(state) ==
  CASE state = "absent" -> "unknown"
    [] state = "awaiting-approval" -> "gated"
    [] state = "planned" -> "queued"
    [] state = "executing" -> "held"
    [] OTHER -> state

GateOf(status) ==
  CASE status = "pending" -> "closed"
    [] status = "approved" -> "open"
    [] status = "rejected" -> "refused"
    [] status = "none" -> "none"

Job == INSTANCE DurableJob WITH
  Jobs <- Actions,
  Free <- ReadOnly,
  Outcomes <- {"completed", "waiting-external", "failed"},
  phase <- [a \in Actions |-> PhaseOf(record[a])],
  epoch <- [a \in Actions |-> execution[a].attempt],
  gate <- [a \in Actions |-> GateOf(approval[a])]

ImplementsDurableJob == Job!JobSpec
=============================================================================

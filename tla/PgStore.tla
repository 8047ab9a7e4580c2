-------------------------------- MODULE PgStore --------------------------------
(***************************************************************************)
(* The durable store over PostgreSQL (src/src/storage/postgres.ts) under   *)
(* READ COMMITTED: a transaction locks or inserts its first row, waits or  *)
(* skips when another one holds it, and takes effect when it commits.      *)
(* Several hosts share the database; a connection may be lost at any time. *)
(* One action, one workflow and one policy.                                *)
(***************************************************************************)
EXTENDS Integers, Sequences, FiniteSets

CONSTANTS
  None,
  Tables,        \* what the clients use: "actions", "workflows", "effects", ...
  Clients, Contents, Events, Safe, Lease, RetryDelay, Files, Repeatable,
  Horizon, MaxCrashes, MaxAttempts, MaxFiles

VARIABLES
  state,   \* the committed rows
  run,     \* the transactions, and what a client keeps from an earlier call
  env      \* the clock and the bounds

Row(table) == <<table, 0>>
Absent == [content |-> None, state |-> "absent", approval |-> None, status |-> "absent",
           owner |-> None, lease |-> 0, attempt |-> 0, available |-> 0, trail |-> <<>>]
NoWorkflow == [content |-> None, revision |-> 0, events |-> {}, transitions |-> <<>>, effects |-> {}]
NoPolicy == [revisions |-> <<>>, approved |-> {}, active |-> 0]
NewEffect == [status |-> "pending", owner |-> None, lease |-> 0, attempt |-> 0, available |-> 0]
NoTransaction == [op |-> "none", arg |-> None, row |-> None]

Init ==
  /\ state = [action |-> Absent, workflow |-> NoWorkflow, policy |-> NoPolicy,
              effect |-> NewEffect, files |-> <<>>, versions |-> {}]
  /\ run = [c \in Clients |-> [tx |-> NoTransaction, hold |-> 0, seen |-> None]]
  /\ \E table \in Tables : env = [table |-> table, now |-> 0, crashes |-> 0, refused |-> {}]

Idle(c) == run[c].tx.op = "none"
Free(row) == \A c \in Clients : run[c].tx.row # row
Doing(c, op) == run[c].tx.op = op
Arg(c) == run[c].tx.arg

Begin(c, op, arg, row) ==
  /\ run' = [run EXCEPT ![c].tx = [op |-> op, arg |-> arg, row |-> row]]
  /\ UNCHANGED <<state, env>>

Commit(c, s) ==
  /\ state' = s
  /\ run' = [run EXCEPT ![c].tx = NoTransaction]
  /\ UNCHANGED env

\* A connection that is lost takes back what its transaction did; the host restarts
Crash(c) ==
  /\ env.crashes < MaxCrashes /\ run[c] # [tx |-> NoTransaction, hold |-> 0, seen |-> None]
  /\ run' = [run EXCEPT ![c] = [tx |-> NoTransaction, hold |-> 0, seen |-> None]]
  /\ env' = [env EXCEPT !.crashes = @ + 1]
  /\ UNCHANGED state

Tick == env.table \in {"actions", "effects"} /\ env.now < Horizon /\ env' = [env EXCEPT !.now = @ + 1] /\ UNCHANGED <<state, run>>

-----------------------------------------------------------------------------
(* Actions *)

Action == state.action

\* INSERT ... ON CONFLICT DO NOTHING waits for the other insert, and sees its row then
EnqueueAction(c, content, approval) ==
  /\ Idle(c) /\ Free(Row("action")) /\ Action = Absent
  /\ Begin(c, "enqueue", [content |-> content, approval |-> approval], Row("action"))

Enqueued(c) ==
  LET now == IF Arg(c).approval THEN "awaiting-approval" ELSE "planned" IN
  /\ Doing(c, "enqueue")
  /\ Commit(c, [state EXCEPT !.action =
       [Absent EXCEPT !.content = Arg(c).content, !.state = now, !.status = "pending",
                      !.approval = IF Arg(c).approval THEN "pending" ELSE None,
                      !.trail = <<<<"enqueue", 0>>>>]])

\* SELECT ... FOR UPDATE: one that was decided is returned or refused as it is
DecideApproval(c, decision) ==
  /\ Idle(c) /\ Free(Row("approval")) /\ Action.approval = "pending"
  /\ Begin(c, "decide", decision, Row("approval"))

Decided(c) ==
  /\ Doing(c, "decide")
  /\ Commit(c, [state EXCEPT !.action.approval = Arg(c),
                             !.action.state = IF Arg(c) = "approved" THEN "planned" ELSE "failed",
                             !.action.status = IF Arg(c) = "approved" THEN @ ELSE "failed",
                             !.action.trail = Append(@, <<Arg(c), 0>>)])

Claimable ==
  /\ Action.available <= env.now /\ Action.approval \in {None, "approved"}
  /\ \/ Action.status = "pending"
     \/ Action.status = "executing" /\ Action.lease <= env.now

\* FOR UPDATE OF e SKIP LOCKED
ClaimNextAction(c) ==
  /\ Idle(c) /\ run[c].hold = 0 /\ Action.attempt < MaxAttempts
  /\ Claimable /\ Free(Row("action"))
  /\ Begin(c, "claim", env.now + Lease, Row("action"))

Claimed(c) ==
  /\ Doing(c, "claim")
  /\ state' = [state EXCEPT !.action.state = "executing", !.action.status = "executing",
                            !.action.owner = c, !.action.lease = Arg(c), !.action.attempt = @ + 1,
                            !.action.trail = Append(@, <<"claim", Action.attempt + 1>>)]
  /\ run' = [run EXCEPT ![c] = [@ EXCEPT !.tx = NoTransaction, !.hold = Action.attempt + 1]]
  /\ UNCHANGED env

\* Faulty variant: by the state alone
OwnsAny(c) == Action.status = "executing"

Owns(c) == Action.status = "executing" /\ Action.owner = c

\* settleAction and releaseActionClaim wait for the row, and find its owner after that
SettleAction(c, outcome) ==
  /\ Idle(c) /\ run[c].hold # 0 /\ Free(Row("action")) /\ Owns(c)
  /\ Begin(c, "settle", [status |-> outcome, available |-> Action.available], Row("action"))

ReleaseActionClaim(c, retry) ==
  /\ Idle(c) /\ run[c].hold # 0 /\ Free(Row("action")) /\ Owns(c)
  /\ Begin(c, "settle", [status |-> IF retry THEN "pending" ELSE "failed", available |-> env.now + RetryDelay],
           Row("action"))

Settled(c) ==
  LET to == Arg(c).status IN
  /\ Doing(c, "settle")
  /\ state' = [state EXCEPT !.action.status = to, !.action.owner = None, !.action.lease = 0,
                            !.action.available = Arg(c).available,
                            !.action.state = CASE to = "pending" -> "planned"
                                               [] to = "needs-input" -> "waiting-external"
                                               [] OTHER -> to,
                            !.action.trail = Append(@, <<"settle", Action.attempt>>)]
  /\ run' = [run EXCEPT ![c] = [@ EXCEPT !.tx = NoTransaction, !.hold = 0]]
  /\ UNCHANGED env

LostClaim(c) ==
  /\ Idle(c) /\ run[c].hold # 0 /\ Free(Row("action")) /\ ~Owns(c)
  /\ run' = [run EXCEPT ![c].hold = 0]
  /\ UNCHANGED <<state, env>>

-----------------------------------------------------------------------------
(* Workflows *)

Workflow == state.workflow

\* One statement inserts and selects: it reads the snapshot it began with
CreateWorkflow(c, content) ==
  /\ Idle(c)
  /\ Begin(c, "create", [content |-> content, seen |-> Workflow], None)

InsertWorkflow(c) ==
  /\ Doing(c, "create") /\ Free(Row("workflow"))
  /\ IF Workflow = NoWorkflow
       THEN run' = [run EXCEPT ![c].tx.op = "insert", ![c].tx.row = Row("workflow")] /\ UNCHANGED env
       ELSE /\ run' = [run EXCEPT ![c].tx = NoTransaction]
            /\ env' = [env EXCEPT !.refused = IF Arg(c).seen = NoWorkflow \/ Arg(c).seen.content # Arg(c).content
                                                THEN @ \cup {Arg(c).content} ELSE @]
  /\ UNCHANGED state

WorkflowCreated(c) ==
  /\ Doing(c, "insert")
  /\ Commit(c, [state EXCEPT !.workflow = [NoWorkflow EXCEPT !.content = Arg(c).content, !.effects = {"start"}]])

\* The runtime reduces the instance that it has read before
ReadWorkflow(c) ==
  /\ Idle(c) /\ Workflow # NoWorkflow /\ run[c].seen # Workflow.revision + 1
  /\ run' = [run EXCEPT ![c].seen = Workflow.revision + 1]
  /\ UNCHANGED <<state, env>>

\* Faulty variant: the revision is not compared
AdvanceWorkflowAnyway(c, event) ==
  /\ Idle(c) /\ run[c].seen # None /\ Free(Row("workflow")) /\ event \notin Workflow.events
  /\ Begin(c, "advance", event, Row("workflow"))

\* FOR UPDATE: an event that is known returns, another revision is a conflict
AdvanceWorkflow(c, event) ==
  /\ Idle(c) /\ run[c].seen # None /\ Free(Row("workflow")) /\ event \notin Workflow.events
  /\ Workflow.revision + 1 = run[c].seen
  /\ Begin(c, "advance", event, Row("workflow"))

Advanced(c) ==
  LET from == run[c].seen - 1 IN
  /\ Doing(c, "advance")
  /\ state' = [state EXCEPT !.workflow = [@ EXCEPT !.revision = from + 1, !.events = @ \cup {Arg(c)},
                                                   !.transitions = Append(@, [from |-> from, event |-> Arg(c)]),
                                                   !.effects = @ \cup {Arg(c)}]]
  /\ run' = [run EXCEPT ![c] = [@ EXCEPT !.tx = NoTransaction, !.seen = None]]
  /\ UNCHANGED env

\* The effects' claims are single statements, with SKIP LOCKED and the owner's check
Effect == state.effect

ClaimNextWorkflowEffect(c) ==
  /\ run[c].hold = 0 /\ Effect.attempt < MaxAttempts /\ Effect.available <= env.now
  /\ \/ Effect.status = "pending"
     \/ Effect.status = "dispatching" /\ Effect.lease <= env.now
  /\ state' = [state EXCEPT !.effect = [@ EXCEPT !.status = "dispatching", !.owner = c, !.attempt = @ + 1,
                                                 !.lease = env.now + Lease]]
  /\ run' = [run EXCEPT ![c].hold = Effect.attempt + 1]
  /\ UNCHANGED env

EndWorkflowEffect(c, to) ==
  /\ run[c].hold # 0
  /\ run' = [run EXCEPT ![c].hold = 0]
  /\ state' = IF Effect.status = "dispatching" /\ Effect.owner = c
                THEN [state EXCEPT !.effect = [@ EXCEPT !.status = to, !.owner = None, !.lease = 0,
                        !.available = IF to = "delivered" THEN @ ELSE env.now + RetryDelay]]
                ELSE state
  /\ UNCHANGED env

-----------------------------------------------------------------------------
(* Policies *)

Policy == state.policy

SavePolicyDraft(c, content) ==
  /\ Idle(c) /\ Free(Row("policy"))
  /\ Begin(c, "save", [content |-> content, revisions |-> Policy.revisions], Row("policy"))

Known(content) == \E r \in DOMAIN Policy.revisions : Policy.revisions[r] = content

DraftSaved(c) ==
  /\ Doing(c, "save")
  /\ Commit(c, IF Known(Arg(c).content) THEN state
               ELSE [state EXCEPT !.policy.revisions = Append(Arg(c).revisions, Arg(c).content)])

\* The revision's row is locked, that of the policy is written behind it
ActivatePolicy(c, r) ==
  /\ Idle(c) /\ r \in DOMAIN Policy.revisions /\ Free(<<"revision", r>>)
  /\ Policy.revisions[r] \in Safe
  /\ Begin(c, "activate", r, <<"revision", r>>)

PolicyActivated(c) ==
  /\ Doing(c, "activate") /\ Free(Row("policy"))
  /\ Commit(c, [state EXCEPT !.policy.approved = @ \cup {Arg(c)}, !.policy.active = Arg(c)])

-----------------------------------------------------------------------------
(* Migrations: a file commits by itself, its version is inserted behind it *)

Pending == {f \in 1 .. Files : f \notin state.versions}
NextFile(after) == CHOOSE f \in Pending : f > after /\ \A g \in Pending : g > after => f <= g

Migrate(c) ==
  /\ Idle(c) /\ Free(Row("migrations")) /\ Pending # {}
  /\ Begin(c, "file", NextFile(0), Row("migrations"))

\* A file that was applied may be one that can be applied again
ApplyFile(c) ==
  LET f == Arg(c)
      again == \E i \in DOMAIN state.files : state.files[i] = f IN
  /\ Doing(c, "file") /\ Len(state.files) < MaxFiles
  /\ IF again /\ f \notin Repeatable
       THEN Commit(c, state)
       ELSE /\ state' = [state EXCEPT !.files = Append(@, f)]
            /\ run' = [run EXCEPT ![c].tx.op = "version"]
            /\ UNCHANGED env

RecordVersion(c) ==
  LET f == Arg(c)
      rest == {g \in Pending : g > f} IN
  /\ Doing(c, "version")
  /\ state' = [state EXCEPT !.versions = @ \cup {f}]
  /\ run' = [run EXCEPT ![c].tx = IF rest = {} THEN NoTransaction
                                  ELSE [op |-> "file", arg |-> NextFile(f), row |-> Row("migrations")]]
  /\ UNCHANGED env

-----------------------------------------------------------------------------

Next ==
  \/ \E c \in Clients :
       \/ /\ env.table = "actions"
          /\ \/ \E content \in Contents, approval \in BOOLEAN : EnqueueAction(c, content, approval)
             \/ \E d \in {"approved", "rejected"} : DecideApproval(c, d)
             \/ ClaimNextAction(c) \/ LostClaim(c)
             \/ \E o \in {"completed", "needs-input", "failed"} : SettleAction(c, o)
             \/ \E retry \in BOOLEAN : ReleaseActionClaim(c, retry)
       \/ Enqueued(c) \/ Decided(c) \/ Claimed(c) \/ Settled(c)
       \/ /\ env.table = "workflows"
          /\ \/ \E content \in Contents : CreateWorkflow(c, content)
             \/ ReadWorkflow(c)
             \/ \E e \in Events : AdvanceWorkflow(c, e)
       \/ /\ env.table = "effects"
          /\ ClaimNextWorkflowEffect(c) \/ \E to \in {"delivered", "pending", "failed"} : EndWorkflowEffect(c, to)
       \/ InsertWorkflow(c) \/ WorkflowCreated(c) \/ Advanced(c)
       \/ /\ env.table = "policies"
          /\ \/ \E content \in Contents : SavePolicyDraft(c, content)
             \/ \E r \in 1 .. Cardinality(Contents) : ActivatePolicy(c, r)
       \/ DraftSaved(c) \/ PolicyActivated(c)
       \/ env.table = "migrations" /\ Migrate(c)
       \/ ApplyFile(c) \/ RecordVersion(c)
       \/ Crash(c)
  \/ Tick

-----------------------------------------------------------------------------
(* Properties *)

Distinct(s) == \A i, j \in DOMAIN s : s[i] = s[j] => i = j

\* What the tables say of one another holds for every committed state: the keys of the
\* audit trail stay unique (a duplicate would fail its transaction), the action's two
\* rows agree, nothing runs that awaits an approval; every revision of a workflow comes
\* from the one before by one event; a policy has no revision twice, and the active one
\* was approved and is safe (settleAction, decideApproval, advanceWorkflow, savePolicyDraft)
StoreInvariant ==
  /\ Distinct(Action.trail)
  /\ (Action.status = "executing") = (Action.state = "executing")
  /\ Action.attempt > 0 => Action.approval \in {None, "approved"}
  /\ Cardinality({i \in DOMAIN Action.trail : Action.trail[i][1] = "claim"}) = Action.attempt
  /\ Len(Workflow.transitions) = Workflow.revision
  /\ Workflow.revision = Cardinality(Workflow.events)
  /\ \A i \in DOMAIN Workflow.transitions : Workflow.transitions[i].from = i - 1
  /\ env.refused # {} => Workflow # NoWorkflow
  /\ Distinct(Policy.revisions)
  /\ Policy.active # 0 => Policy.active \in Policy.approved /\ Policy.revisions[Policy.active] \in Safe

\* An attempt is ended by the client that claimed it, also after leases ran out and after
\* a crash: a worker's id alone says nothing of its attempt
StoreStep ==
  /\ Action.status = "executing" /\ state'.action.status # "executing" =>
       \E c \in Clients : Doing(c, "settle") /\ run[c].hold = Action.attempt
  /\ Effect.status = "dispatching" /\ state'.effect.status # "dispatching" =>
       \E c \in Clients : run[c].hold = Effect.attempt /\ run'[c].hold = 0

\* docs/storage/postgresql.md:31: a start applies the migrations idempotently, so that one
\* that follows an interrupted one completes
MigrationsComplete ==
  \A c \in Clients : Doing(c, "file") =>
    Arg(c) \in Repeatable \/ \A i \in DOMAIN state.files : state.files[i] # Arg(c)
=============================================================================

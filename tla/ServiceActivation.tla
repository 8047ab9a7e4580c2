--------------------------- MODULE ServiceActivation ---------------------------
(***************************************************************************)
(* Activation, reconciliation and deactivation of the installed client     *)
(* under the user's launchd (src/src/client-runtime/                       *)
(* client-service-activation.ts, launchctl-client-service-manager.ts,      *)
(* client-process-health.ts, client-entry.ts).  The transaction leaves its *)
(* traces as files; each of its steps may fail, before or after it took    *)
(* effect, and the administrator's command may die between any two.        *)
(***************************************************************************)
EXTENDS Integers, Sequences, FiniteSets

CONSTANTS MaxCommands, MaxFailures, MaxCrashes, MaxProcesses

VARIABLES
  state,     \* the service directory, launchd and the client's health file
  run,       \* the administrator's command
  env        \* the pids so far and the bounds

Records == {"intent", "receipt", "deactivation"}
Commit == <<"tmp", "rename", "clear">>
Undo == <<"stop", "health", "definition", "unlink">>
NoCommand == [cmd |-> "none", todo |-> <<>>, broken |-> FALSE, pid |-> 0, intent |-> "intent"]

Init ==
  /\ state = [files |-> {}, receiptPid |-> 0, definition |-> FALSE, registered |-> FALSE,
              process |-> 0, health |-> 0]
  /\ run = NoCommand
  /\ env = [pids |-> 0, published |-> {}, commands |-> 0, failures |-> 0, crashes |-> 0]

-----------------------------------------------------------------------------
(* The client process: published means that its no-effect worker was started *)

\* launchd starts a registered service, and starts it again when it failed
Launch ==
  /\ state.registered /\ state.process = 0 /\ env.pids < MaxProcesses
  /\ state' = [state EXCEPT !.process = env.pids + 1]
  /\ env' = [env EXCEPT !.pids = @ + 1]
  /\ UNCHANGED run

\* The receipt is created exclusively: one that a killed process left ends its successors
Publish ==
  /\ state.process \notin {0} \cup env.published
  /\ IF state.health = 0
       THEN /\ state' = [state EXCEPT !.health = state.process]
            /\ env' = [env EXCEPT !.published = @ \cup {state.process}]
       ELSE state' = [state EXCEPT !.process = 0] /\ UNCHANGED env
  /\ UNCHANGED run

ProcessDies ==
  /\ state.process # 0 /\ env.crashes < MaxCrashes
  /\ state' = [state EXCEPT !.process = 0]
  /\ env' = [env EXCEPT !.crashes = @ + 1]
  /\ UNCHANGED run

Ready == state.registered /\ state.process # 0 /\ state.health = state.process

-----------------------------------------------------------------------------
(* The commands *)

\* recoverPreparedClientUserServiceV1 accepts one extra file, and only a known one
LayoutValid == Cardinality(state.files) <= 1 /\ state.files \subseteq Records

Command(cmd, todo, intent, files) ==
  /\ run.cmd = "none" /\ env.commands < MaxCommands
  /\ run' = [NoCommand EXCEPT !.cmd = cmd, !.todo = todo, !.intent = intent]
  /\ state' = [state EXCEPT !.files = files]
  /\ env' = [env EXCEPT !.commands = @ + 1]

Activate ==
  /\ LayoutValid /\ {"intent", "receipt"} \cap state.files = {}
  /\ Command("activate", <<"install", "register", "start", "ready">> \o Commit, "intent",
             state.files \cup {"intent"})

\* A receipt that is there is checked and returned; without one the intent decides
Reconcile ==
  /\ LayoutValid /\ "intent" \in state.files
  /\ IF Ready THEN Command("reconcile", <<"ready">> \o Commit, "intent", state.files)
              ELSE Command("reconcile", Undo, "intent", state.files)

Deactivate ==
  /\ LayoutValid /\ {"deactivation", "receipt"} \cap state.files # {}
  /\ Command("deactivate", Undo, "deactivation", {"deactivation"})

Step == Head(run.todo)

\* Faulty variant: a running process counts as ready
PossibleRunning(step) ==
  CASE step = "register" -> ~state.registered
    [] step \in {"start", "ready"} -> state.process # 0
    [] step = "tmp" -> {"tmp", "receipt"} \cap state.files = {}
    [] OTHER -> TRUE

Possible(step) ==
  CASE step = "register" -> ~state.registered
    [] step = "start" -> state.process # 0
    [] step = "ready" -> Ready
    [] step = "tmp" -> {"tmp", "receipt"} \cap state.files = {}
    [] OTHER -> TRUE

\* bootout ends the process, which removes its health file unless it was killed
Stopped ==
  {[state EXCEPT !.registered = FALSE, !.process = 0, !.health = h] :
     h \in {state.health} \cup IF Ready THEN {0} ELSE {}}

Effects(step) ==
  CASE step = "install" -> {[state EXCEPT !.definition = TRUE]}
    [] step = "register" -> {[state EXCEPT !.registered = TRUE]}
    [] step \in {"start", "ready"} -> {state}
    [] step = "tmp" -> {[state EXCEPT !.files = @ \cup {"tmp"}]}
    [] step = "rename" -> {[state EXCEPT !.files = (@ \ {"tmp"}) \cup {"receipt"}, !.receiptPid = run.pid]}
    [] step = "stop" -> IF state.registered THEN Stopped ELSE {state}
    [] step = "health" -> {[state EXCEPT !.health = 0]}
    [] step = "definition" -> {[state EXCEPT !.definition = FALSE]}
    [] step \in {"clear", "unlink"} -> {[state EXCEPT !.files = @ \ {run.intent}]}

Done(todo) == IF todo = <<>> THEN NoCommand ELSE [run EXCEPT !.todo = todo]

\* A rollback that was not complete keeps its intent
Proceed ==
  /\ run.cmd # "none"
  /\ ~(Step = "unlink" /\ run.broken)
  /\ Possible(Step)
  /\ state' \in Effects(Step)
  /\ run' = IF Step = "ready" THEN [Done(Tail(run.todo)) EXCEPT !.pid = state.process] ELSE Done(Tail(run.todo))
  /\ UNCHANGED env

\* What a step that failed leaves: launchctl and the write may have done their work,
\* replacePrivate removes the temporary file after a failure of the other two
Remains(step) ==
  CASE step \in {"register", "stop", "tmp"} /\ Possible(step) -> {state} \cup Effects(step)
    [] step \in {"rename", "clear"} -> {[state EXCEPT !.files = @ \ {"tmp"}]}
    [] OTHER -> {state}

\* Faulty variant: the rollback forgets what did not work
AfterFailureForgetful(step) ==
  CASE run.cmd = "activate" \/ step \in {"ready", "tmp", "rename", "clear"} ->
         [run EXCEPT !.cmd = IF @ = "activate" THEN "rollback" ELSE @, !.todo = Undo]
    [] run.cmd = "rollback" /\ step # "unlink" -> Done(Tail(run.todo))
    [] OTHER -> NoCommand

\* activate rolls back, its rollback skips what depends on the stop, reconcile undoes
\* what it cannot commit; the others end at their first failure
AfterFailure(step) ==
  CASE run.cmd = "activate" \/ step \in {"ready", "tmp", "rename", "clear"} ->
         [run EXCEPT !.cmd = IF @ = "activate" THEN "rollback" ELSE @, !.todo = Undo]
    [] run.cmd = "rollback" /\ step \in {"health", "definition"} ->
         [Done(Tail(run.todo)) EXCEPT !.broken = TRUE]
    [] OTHER -> NoCommand

StepFails ==
  /\ run.cmd # "none"
  /\ IF Possible(Step)
       THEN env.failures < MaxFailures /\ env' = [env EXCEPT !.failures = @ + 1]
       ELSE UNCHANGED env
  /\ state' \in Remains(Step)
  /\ run' = AfterFailure(Step)

RollbackIncomplete ==
  /\ run.cmd # "none" /\ Step = "unlink" /\ run.broken
  /\ run' = NoCommand
  /\ UNCHANGED <<state, env>>

CommandDies ==
  /\ run.cmd # "none" /\ env.crashes < MaxCrashes
  /\ run' = NoCommand
  /\ env' = [env EXCEPT !.crashes = @ + 1]
  /\ UNCHANGED state

Next ==
  \/ Launch \/ Publish \/ ProcessDies
  \/ Activate \/ Reconcile \/ Deactivate
  \/ Proceed \/ StepFails \/ RollbackIncomplete \/ CommandDies

-----------------------------------------------------------------------------
(* Properties *)

\* docs/adr/0171: never an untracked registered process, or a definition that no record
\* accounts for; and a receipt names a process that had published its readiness, since
\* readiness is not inferred from a pid alone (docs/adr/0173)
ActivationInvariant ==
  /\ state.registered \/ state.definition => state.files # {}
  /\ "receipt" \in state.files => state.receiptPid \in env.published

\* No command takes the health file of a process that is running
HealthStep == state.health # 0 /\ state'.health = 0 => state'.process # state.health

\* docs/adr/0173-fail-closed-client-service-activation.md:15: an interrupted transaction
\* can be reconciled, to one active owner or back to the prepared state
InterruptedReconciles ==
  run.cmd = "none" /\ "intent" \in state.files => LayoutValid
=============================================================================

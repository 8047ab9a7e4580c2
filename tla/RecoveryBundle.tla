----------------------------- MODULE RecoveryBundle -----------------------------
(***************************************************************************)
(* Recovery bundles: capture while the assistant goes on, encryption,      *)
(* staging, and the restore-safe preparation of a fresh clone, over SQLite *)
(* or into an empty PostgreSQL database (src/scripts/recovery-bundle.ts).  *)
(* Commands may overlap, fail at each of their steps, or die.              *)
(***************************************************************************)
EXTENDS Integers, Sequences, FiniteSets

CONSTANTS
  None,
  Storages,      \* "sqlite", "postgres"
  Artifacts,     \* the manifest in its restore order, the database first
  Commands,      \* the administrator's terminals
  MaxWrites, MaxFailures, MaxCommands

VARIABLES
  state,     \* the assistant's data, the files of the bundles, the clone and its database
  run,       \* the commands
  env        \* the storage and the bounds

Primary == Artifacts[1]
NoCommand == [cmd |-> "none", next |-> 1, bundle |-> <<>>, schema |-> None, source |-> None, begun |-> None]

Init ==
  /\ state = [live |-> [a \in {Artifacts[i] : i \in DOMAIN Artifacts} |-> 0], schema |-> 0,
              output |-> None, staged |-> None, var |-> None, database |-> None]
  /\ run = [c \in Commands |-> NoCommand]
  /\ \E s \in Storages : env = [storage |-> s, writes |-> 0, failures |-> 0, commands |-> 0]

Doing(c, cmd) == run[c].cmd = cmd
Begin(c, command) ==
  /\ Doing(c, "none") /\ env.commands < MaxCommands
  /\ run' = [run EXCEPT ![c] = command]
  /\ env' = [env EXCEPT !.commands = @ + 1]
  /\ UNCHANGED state
Turn(c, command, s) == run' = [run EXCEPT ![c] = command] /\ state' = s /\ UNCHANGED env

\* The assistant writes its data, or is upgraded to another schema
Write ==
  /\ env.writes < MaxWrites
  /\ \E a \in DOMAIN state.live : state' = [state EXCEPT !.live[a] = @ + 1]
  /\ env' = [env EXCEPT !.writes = @ + 1]
  /\ UNCHANGED run

Upgrade ==
  /\ env.writes < MaxWrites
  /\ state' = [state EXCEPT !.schema = @ + 1, !.live[Primary] = @ + 1]
  /\ env' = [env EXCEPT !.writes = @ + 1]
  /\ UNCHANGED run

-----------------------------------------------------------------------------
(* create *)

StartCreate(c) ==
  state.output = None /\ Begin(c, [NoCommand EXCEPT !.cmd = "capture", !.begun = state.live])

\* pg_dump's snapshot lies between two looks at the migrations
LookAtSchema(c) ==
  /\ Doing(c, "capture") /\ env.storage = "postgres" /\ run[c].next = 1 /\ run[c].schema = None
  /\ Turn(c, [run[c] EXCEPT !.schema = state.schema], state)

Snapshot(c) ==
  LET i == run[c].next IN
  /\ Doing(c, "capture") /\ i <= Len(Artifacts)
  /\ env.storage = "postgres" => run[c].schema # None
  /\ Turn(c, [run[c] EXCEPT !.next = i + 1, !.cmd = IF i = 1 /\ env.storage = "postgres" THEN "look" ELSE @,
                            !.bundle = Append(@, [of |-> state.live[Artifacts[i]], schema |-> state.schema])],
             state)

SchemaKept(c) ==
  /\ Doing(c, "look") /\ run[c].schema = state.schema
  /\ Turn(c, [run[c] EXCEPT !.cmd = "capture"], state)

Captured(c) == Doing(c, "capture") /\ run[c].next > Len(Artifacts)
Bundle(c) == [entries |-> run[c].bundle, schema |-> run[c].schema, begun |-> run[c].begun, end |-> state.live]

\* age writes its output in place
Encrypt(c) ==
  /\ Captured(c)
  /\ Turn(c, NoCommand, [state EXCEPT !.output = [whole |-> TRUE, bundle |-> Bundle(c)]])

-----------------------------------------------------------------------------
(* stage *)

StartStage(c) ==
  /\ state.output # None /\ state.staged = None
  /\ Begin(c, [NoCommand EXCEPT !.cmd = "stage", !.source = state.output])

\* verifyStagedBundle, and the rename: not onto a directory that has files
Staged(c) ==
  /\ Doing(c, "stage") /\ run[c].source.whole /\ state.staged = None
  /\ Turn(c, NoCommand, [state EXCEPT !.staged = run[c].source])

\* The administrator takes the files away to make others
Discard ==
  /\ state.output # None /\ state.staged # None /\ \A c \in Commands : run[c].cmd \notin {"capture", "look", "stage"}
  /\ state' = [state EXCEPT !.output = None, !.staged = None]
  /\ UNCHANGED <<run, env>>

-----------------------------------------------------------------------------
(* prepare and prepare-postgres *)

StartPrepare(c) ==
  /\ state.staged # None /\ state.staged.whole /\ state.var = None
  /\ env.storage = "postgres" => state.database = None
  /\ Begin(c, [NoCommand EXCEPT !.cmd = IF env.storage = "postgres" THEN "restore" ELSE "publish",
                                !.source = state.staged])

\* Faulty variant: the restore replaces what it finds
RestoreOver(c) ==
  /\ Doing(c, "restore")
  /\ Turn(c, [run[c] EXCEPT !.cmd = "check"], [state EXCEPT !.database = run[c].source.bundle.entries[1]])

\* pg_restore --single-transaction fails on relations that are there
Restore(c) ==
  /\ Doing(c, "restore") /\ state.database = None
  /\ Turn(c, [run[c] EXCEPT !.cmd = "check"], [state EXCEPT !.database = run[c].source.bundle.entries[1]])

RestoreChecked(c) ==
  /\ Doing(c, "check") /\ state.database.schema = run[c].source.bundle.schema
  /\ Turn(c, [run[c] EXCEPT !.cmd = "publish"], state)

Publish(c) ==
  /\ Doing(c, "publish") /\ state.var = None
  /\ Turn(c, NoCommand, [state EXCEPT !.var = run[c].source.bundle])

-----------------------------------------------------------------------------
(* Failures *)

Impossible(c) ==
  \/ Doing(c, "look") /\ run[c].schema # state.schema
  \/ Doing(c, "stage") /\ (~run[c].source.whole \/ state.staged # None)
  \/ Doing(c, "restore") /\ state.database # None
  \/ Doing(c, "check") /\ state.database.schema # run[c].source.bundle.schema
  \/ Doing(c, "publish") /\ state.var # None

\* create and stage remove their output, whoever has made it
Removed(c) ==
  CASE run[c].cmd \in {"capture", "look"} -> [state EXCEPT !.output = None]
    [] Doing(c, "stage") -> [state EXCEPT !.staged = None]
    [] OTHER -> state

CommandFails(c) ==
  /\ ~Doing(c, "none")
  /\ IF Impossible(c) THEN UNCHANGED env
     ELSE env.failures < MaxFailures /\ env' = [env EXCEPT !.failures = @ + 1]
  /\ state' = Removed(c)
  /\ run' = [run EXCEPT ![c] = NoCommand]

\* A command that dies leaves what it has written: of its output perhaps a part
CommandDies(c) ==
  /\ ~Doing(c, "none") /\ env.failures < MaxFailures
  /\ state' \in {state} \cup IF Captured(c)
                              THEN {[state EXCEPT !.output = [whole |-> FALSE, bundle |-> Bundle(c)]]} ELSE {}
  /\ run' = [run EXCEPT ![c] = NoCommand]
  /\ env' = [env EXCEPT !.failures = @ + 1]

Next ==
  \/ Write \/ Upgrade \/ Discard
  \/ \E c \in Commands :
       \/ StartCreate(c) \/ LookAtSchema(c) \/ Snapshot(c) \/ SchemaKept(c) \/ Encrypt(c)
       \/ StartStage(c) \/ Staged(c)
       \/ StartPrepare(c) \/ Restore(c) \/ RestoreChecked(c) \/ Publish(c)
       \/ CommandFails(c) \/ CommandDies(c)

-----------------------------------------------------------------------------
(* Properties *)

Bounded(bundle) ==
  \A i \in DOMAIN Artifacts :
    bundle.begun[Artifacts[i]] <= bundle.entries[i].of /\ bundle.entries[i].of <= bundle.end[Artifacts[i]]

\* What a clone was prepared with is one whole bundle, each of its artifacts from between
\* the start and the end of the capture (captureMode online-bounded), the dump of one
\* schema; and over PostgreSQL the clone's database is the one of that bundle
RecoveryInvariant ==
  state.var # None =>
    /\ Len(state.var.entries) = Len(Artifacts) /\ Bounded(state.var)
    /\ env.storage = "postgres" =>
         /\ state.var.entries[1].schema = state.var.schema
         /\ state.database = state.var.entries[1]

\* A prepared clone, and a database that was filled, are never written again
RecoveryStep ==
  /\ state.var # None => state'.var = state.var
  /\ state.database # None => state'.database = state.database
=============================================================================

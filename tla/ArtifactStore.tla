------------------------------ MODULE ArtifactStore ------------------------------
(***************************************************************************)
(* The client's artifacts (src/src/client-runtime/                         *)
(* inactive-artifact-store.ts) and the capability tables they belong to    *)
(* (sqlite-client-state.ts): blobs by digest, a receipt and a row for each *)
(* version, and the selected version.  The instance lease admits one       *)
(* process, which runs one command at a time; it may die between any two   *)
(* writes, and the next one verifies what it finds.                        *)
(***************************************************************************)
EXTENDS Naturals, FiniteSets

CONSTANTS None, Versions, DigestOf, MaxCommands, MaxFailures, MaxCrashes

VARIABLES
  state,     \* rows, the selection, receipts and blobs, files of a copy
  run,       \* the command
  env        \* bounds

Idle == [pc |-> "idle"]
NoSelection == [current |-> None, previous |-> None]

Init ==
  /\ state = [rows |-> {}, selection |-> NoSelection, receipts |-> {}, blobs |-> {}, copies |-> {}]
  /\ run = Idle
  /\ env = [commands |-> 0, failures |-> 0, crashes |-> 0]

Goes(pc) == run' = [run EXCEPT !.pc = pc]
Command(c) ==
  /\ run = Idle /\ env.commands < MaxCommands
  /\ run' = c /\ env' = [env EXCEPT !.commands = @ + 1] /\ UNCHANGED state
Ends == run' = Idle

\* verifyInstalled: the row, its receipt and the blob with its digest
Whole(v) == v \in state.rows /\ v \in state.receipts /\ DigestOf[v] \in state.blobs

\* verifyRecovery: every row is whole, and nothing else lies in the directories
Recovers == (\A v \in state.rows : Whole(v)) /\ state.copies = {}
Used(rows) == {DigestOf[v] : v \in rows}

-----------------------------------------------------------------------------
(* install and upgrade *)

Install(v) == Command([pc |-> "blob", v |-> v, upgrade |-> FALSE])

Upgrade(v) ==
  /\ state.selection.current \notin {None, v}
  /\ Command([pc |-> "blob", v |-> v, upgrade |-> TRUE])

\* landBlob: a copy beside the blobs, which is linked and removed
FindBlob ==
  /\ run.pc = "blob"
  /\ Goes(IF DigestOf[run.v] \in state.blobs THEN "receipt" ELSE "copy")
  /\ UNCHANGED <<state, env>>

StageBlob ==
  /\ run.pc = "copy"
  /\ state' = [state EXCEPT !.copies = {"blob"}] /\ Goes("link") /\ UNCHANGED env

LinkBlob ==
  /\ run.pc = "link"
  /\ state' = [state EXCEPT !.blobs = @ \cup {DigestOf[run.v]}] /\ Goes("landed") /\ UNCHANGED env

DropCopy ==
  /\ run.pc = "landed"
  /\ state' = [state EXCEPT !.copies = {}] /\ Goes("receipt") /\ UNCHANGED env

\* persistReceipt: one that is there is kept
StageReceipt ==
  /\ run.pc = "receipt"
  /\ IF run.v \in state.receipts THEN Goes("save") /\ UNCHANGED state
     ELSE Goes("receipted") /\ state' = [state EXCEPT !.copies = {"receipt"}]
  /\ UNCHANGED env

LinkReceipt ==
  /\ run.pc = "receipted"
  /\ IF run.v \in state.receipts THEN state' = [state EXCEPT !.copies = {}] /\ Goes("save")
     ELSE state' = [state EXCEPT !.receipts = @ \cup {run.v}] /\ UNCHANGED run
  /\ UNCHANGED env

\* selectInactiveCapability
Selected(v) ==
  IF state.selection.current = v THEN state.selection ELSE [current |-> v, previous |-> state.selection.current]

\* Faulty variant: the row before the files
SaveEarly ==
  /\ run.pc \in {"copy", "save"}
  /\ state' = [state EXCEPT !.rows = @ \cup {run.v}, !.selection = IF @.current = None THEN Selected(run.v) ELSE @]
  /\ IF run.pc = "copy" THEN Goes("link") ELSE IF run.upgrade THEN Goes("select") ELSE Ends
  /\ UNCHANGED env

Save ==
  /\ run.pc = "save"
  /\ state' = [state EXCEPT !.rows = @ \cup {run.v}, !.selection = IF @.current = None THEN Selected(run.v) ELSE @]
  /\ IF run.upgrade THEN Goes("select") ELSE Ends
  /\ UNCHANGED env

Select ==
  /\ run.pc = "select"
  /\ state' = [state EXCEPT !.selection = Selected(run.v)]
  /\ Ends /\ UNCHANGED env

-----------------------------------------------------------------------------
(* rollback, uninstall and garbageCollect *)

Rollback ==
  LET s == state.selection IN
  /\ s.previous # None /\ Whole(s.previous)
  /\ run = Idle /\ env.commands < MaxCommands
  /\ state' = [state EXCEPT !.selection = [current |-> s.previous, previous |-> s.current]]
  /\ env' = [env EXCEPT !.commands = @ + 1] /\ UNCHANGED run

\* Faulty variant: the previous version stays selectable
RemovedOnlyCurrent(v) ==
  LET s == state.selection IN
  IF s.current = v THEN [current |-> s.previous, previous |-> None] ELSE s

\* removeInactiveCapability: the selection falls back in the same transaction
RemovedFrom(v) ==
  LET s == state.selection IN
  IF s.current = v THEN [current |-> s.previous, previous |-> None]
  ELSE IF s.previous = v THEN [s EXCEPT !.previous = None] ELSE s

Uninstall(v) ==
  /\ run = Idle /\ env.commands < MaxCommands /\ Whole(v)
  /\ state' = [state EXCEPT !.rows = @ \ {v}, !.selection = RemovedFrom(v)]
  /\ run' = [pc |-> "receipt gone", v |-> v]
  /\ env' = [env EXCEPT !.commands = @ + 1]

Fails == env.failures < MaxFailures /\ env' = [env EXCEPT !.failures = @ + 1]

\* A file that cannot be removed is left for the collection
RemoveReceipt ==
  /\ run.pc = "receipt gone"
  /\ \/ state' = [state EXCEPT !.receipts = @ \ {run.v}] /\ UNCHANGED env
     \/ Fails /\ UNCHANGED state
  /\ Goes("blob gone")

\* Faulty variant: another version may need the blob
RemoveBlobAlways ==
  /\ run.pc = "blob gone"
  /\ state' = [state EXCEPT !.blobs = @ \ {DigestOf[run.v]}] /\ UNCHANGED env
  /\ Ends

RemoveBlob ==
  /\ run.pc = "blob gone"
  /\ \/ state' = [state EXCEPT !.blobs = IF DigestOf[run.v] \in Used(state.rows) THEN @ ELSE @ \ {DigestOf[run.v]}] /\ UNCHANGED env
     \/ Fails /\ UNCHANGED state
  /\ Ends

Collect ==
  /\ Recovers /\ ~(state.receipts = state.rows /\ state.blobs = Used(state.rows))
  /\ run = Idle /\ env.commands < MaxCommands
  /\ state' = [state EXCEPT !.receipts = state.rows, !.blobs = Used(state.rows)]
  /\ env' = [env EXCEPT !.commands = @ + 1] /\ UNCHANGED run

-----------------------------------------------------------------------------
\* The process dies; the next one opens the store, or throws
Crash ==
  /\ env.crashes < MaxCrashes /\ run.pc # "idle"
  /\ env' = [env EXCEPT !.crashes = @ + 1]
  /\ run' = IF Recovers THEN Idle ELSE [pc |-> "refused"]
  /\ UNCHANGED state

Next ==
  \/ \E v \in Versions : Install(v) \/ Upgrade(v) \/ Uninstall(v)
  \/ FindBlob \/ StageBlob \/ LinkBlob \/ DropCopy \/ StageReceipt \/ LinkReceipt \/ Save \/ Select
  \/ Rollback \/ RemoveReceipt \/ RemoveBlob \/ Collect \/ Crash

-----------------------------------------------------------------------------
(* Properties *)

\* Whenever the process dies, a version that has a row has its receipt and its blob, so that
\* only a copy that was not removed keeps the store from opening; the selection names versions
\* that are installed, and goes back to another one
StoreInvariant ==
  /\ \A v \in state.rows : Whole(v)
  /\ run.pc = "refused" => state.copies # {}
  /\ {state.selection.current, state.selection.previous} \subseteq state.rows \cup {None}
  /\ state.selection.previous # None => state.selection.current \notin {None, state.selection.previous}
=============================================================================

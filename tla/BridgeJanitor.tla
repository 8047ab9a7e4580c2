----------------------------- MODULE BridgeJanitor -----------------------------
(***************************************************************************)
(* The sweep over the Codex sessions of automatic research                 *)
(* (packages/bridge-compat/src/session-janitor.js): sessions whose task is *)
(* completed are archived, sessions archived for long enough are deleted.  *)
(*                                                                         *)
(* One action is the code between two awaits.  The sweep decides on what   *)
(* it read from Codex, from the task list and from the state some awaits   *)
(* ago; meanwhile the owner uses the sessions in the Codex client.         *)
(***************************************************************************)
EXTENDS Integers, FiniteSets

CONSTANTS
  None,         \* null
  Sessions,     \* mentionResearchSessions
  DeleteAfter,  \* sessionDeleteAfterDays, in ticks
  Horizon,      \* bound: the last instant of the clock
  MaxFailures,  \* bound: calls of Codex, the task list and Lark that fail
  MaxTouches,   \* bound: times the owner archives or unarchives a session himself
  MaxCrashes    \* bound: exits of the process

VARIABLES state, disk, run, env
vars == <<state, disk, run, env>>

NoSweep == [phase |-> "idle", left |-> {}, pending |-> {}, pc |-> "next", on |-> None, at |-> None]

Init ==
  /\ state = [archivedAt |-> [s \in Sessions |-> None], deleted |-> {}]
  /\ disk = state
  /\ run = NoSweep
  /\ env = [now |-> 0, codex |-> [s \in Sessions |-> "live"], since |-> [s \in Sessions |-> None],
            completed |-> {}, waiting |-> {}, busy |-> {}, failures |-> 0, touches |-> 0, crashes |-> 0]

Save(s) == state' = s /\ disk' = s
Same == UNCHANGED <<state, disk>>
Failing == env.failures < MaxFailures
Fails == [env EXCEPT !.failures = @ + 1]

-----------------------------------------------------------------------------
(* deleteExpired *)

Expired ==
  {s \in Sessions \ (state.deleted \cup env.busy) :
     state.archivedAt[s] # None /\ env.now - state.archivedAt[s] >= DeleteAfter}

\* A session whose last attempt failed may have to wait
StartSweep ==
  /\ run.phase = "idle"
  /\ \E due \in SUBSET Expired : run' = [run EXCEPT !.phase = "delete", !.left = due, !.at = env.now]
  /\ Same /\ UNCHANGED env

Next1(s) == [run EXCEPT !.left = @ \ {s}, !.pc = "next", !.on = None]
Deleted(s) == [state EXCEPT !.deleted = @ \cup {s}]

\* sessionStatus: gone already, unarchived by the owner, or to be deleted
Inspect(s) ==
  /\ run.phase = "delete" /\ run.pc = "next" /\ s \in run.left
  /\ CASE env.codex[s] = "gone" -> Save(Deleted(s)) /\ run' = Next1(s)
       [] env.codex[s] = "live" -> Same /\ run' = Next1(s)
       [] OTHER -> Same /\ run' = [run EXCEPT !.pc = "deleting", !.on = s]
  /\ UNCHANGED env

\* codex delete --force
Delete ==
  /\ run.phase = "delete" /\ run.pc = "deleting"
  /\ Save(Deleted(run.on))
  /\ run' = Next1(run.on)
  /\ env' = [env EXCEPT !.codex[run.on] = "gone"]

\* The state of the session or its deletion cannot be had: recordDeleteFailure
DeleteFails(s) ==
  /\ run.phase = "delete" /\ s \in run.left /\ run.on \in {None, s} /\ Failing
  /\ Save(state)
  /\ run' = Next1(s)
  /\ env' = Fails

-----------------------------------------------------------------------------
(* The archive of what is completed *)

\* Nobody waits for an answer in it, it is not running, and it was not archived before
Candidates == {s \in Sessions \ (env.waiting \cup env.busy) : state.archivedAt[s] = None}

StartArchive ==
  /\ run.phase = "delete" /\ run.left = {}
  /\ \E due \in SUBSET Candidates : run' = [run EXCEPT !.phase = "check", !.left = due, !.pending = {}]
  /\ Same /\ UNCHANGED env

\* markArchived: the instant is that of the sweep
Archived(s) == [state EXCEPT !.archivedAt[s] = run.at]

\* Archived already, in the Codex client: noted without a word
Check(s) ==
  /\ run.phase = "check" /\ s \in run.left
  /\ IF env.codex[s] = "archived"
       THEN Save(Archived(s)) /\ run' = Next1(s)
       ELSE Same /\ run' = [Next1(s) EXCEPT !.pending = @ \cup {s}]
  /\ UNCHANGED env

\* Faulty variant: the answer of the task list is not looked at
ReadCompletedAll ==
  /\ run.phase = "check" /\ run.left = {}
  /\ run' = [run EXCEPT !.phase = "archive", !.left = run.pending]
  /\ Same /\ UNCHANGED env

\* getCompletedTaskIds, for all that are pending
ReadCompleted ==
  /\ run.phase = "check" /\ run.left = {}
  /\ run' = [run EXCEPT !.phase = "archive", !.left = run.pending \cap env.completed]
  /\ Same /\ UNCHANGED env

\* codex archive, unless the client was faster; then the notice
Archive(s) ==
  /\ run.phase = "archive" /\ run.pc = "next" /\ s \in run.left
  /\ \/ /\ env.codex[s] # "gone"
        /\ Save(Archived(s))
        /\ run' = [run EXCEPT !.pc = "telling", !.on = s]
        /\ env' = [env EXCEPT !.codex[s] = "archived", !.since[s] = IF env.codex[s] = "archived" THEN @ ELSE env.now]
     \/ /\ env.codex[s] = "gone"
        /\ Save(state)
        /\ run' = Next1(s)
        /\ UNCHANGED env

\* A notice that fails counts as a failure of the archive, which stands all the same
ArchiveTold(s) ==
  /\ run.pc = "telling" /\ s = run.on
  /\ Save(state)
  /\ run' = Next1(s)
  /\ env' \in {env} \cup IF Failing THEN {Fails} ELSE {}

ArchiveFails(s) ==
  /\ run.phase = "archive" /\ run.pc = "next" /\ s \in run.left /\ Failing
  /\ Save(state)
  /\ run' = Next1(s)
  /\ env' = Fails

SweepDone ==
  /\ run.phase = "archive" /\ run.left = {}
  /\ run' = NoSweep
  /\ Same /\ UNCHANGED env

\* The task list cannot be read: this sweep is over
SweepFails ==
  /\ run.phase = "check" /\ run.left = {} /\ Failing
  /\ run' = NoSweep
  /\ env' = Fails
  /\ Same

-----------------------------------------------------------------------------
(* The world *)

Other(e) == env' = e /\ UNCHANGED <<state, disk, run>>

CompleteTask(s) == s \notin env.completed /\ Other([env EXCEPT !.completed = @ \cup {s}])

\* A question to the sender is open or answered, a session runs or rests
Ask(s) == s \notin env.completed /\ env.codex[s] = "live"
          /\ Other([env EXCEPT !.waiting = (@ \ {s}) \cup ({s} \ @)])
Work(s) == env.codex[s] = "live" /\ Other([env EXCEPT !.busy = (@ \ {s}) \cup ({s} \ @)])

Touch(s) ==
  /\ env.touches < MaxTouches /\ env.codex[s] # "gone" /\ s \notin env.busy
  /\ LET live == env.codex[s] = "live" IN
     Other([env EXCEPT !.touches = @ + 1, !.codex[s] = IF live THEN "archived" ELSE "live",
                       !.since[s] = IF live THEN env.now ELSE None])

\* A sweep takes less than a tick, so that at most one falls into it
Tick ==
  /\ env.now < Horizon /\ run.at \in {None, env.now}
  /\ Other([env EXCEPT !.now = @ + 1])

Crash ==
  /\ env.crashes < MaxCrashes
  /\ env' = [env EXCEPT !.crashes = @ + 1, !.busy = {}]
  /\ state' = disk /\ UNCHANGED disk
  /\ run' = NoSweep

Next ==
  \/ StartSweep \/ Delete \/ StartArchive \/ ReadCompleted \/ SweepDone \/ SweepFails \/ Tick \/ Crash
  \/ \E s \in Sessions :
       \/ Inspect(s) \/ DeleteFails(s) \/ Check(s) \/ Archive(s) \/ ArchiveTold(s) \/ ArchiveFails(s)
       \/ CompleteTask(s) \/ Ask(s) \/ Work(s) \/ Touch(s)

-----------------------------------------------------------------------------
(* Properties *)

\* The sweep archives no session of an open task, and what it noted as archived or deleted
\* is, whatever fails in between: the note comes after the command, and a client that was
\* faster counts as the command.  (A question asked during the sweep is overlooked.)
OnlyCompletedArchived ==
  env.touches = 0 =>
    \A s \in Sessions :
      /\ env.codex[s] \in {"archived", "gone"} => s \in env.completed
      /\ state.archivedAt[s] # None => env.codex[s] # "live"
      /\ s \in state.deleted => env.codex[s] = "gone"

\* A session that the sweep deletes was archived for the retention, less the length of a
\* sweep, unless the owner unarchived it: archivedAt stays that of the first time, and an
\* unarchived session may be deleted between sessionStatus and the command.
DeletedAfterRetention ==
  \A s \in Sessions : env.codex[s] = "gone" /\ env.touches = 0 =>
    env.since[s] # None /\ env.now - env.since[s] >= DeleteAfter - 1

JanitorInvariant == OnlyCompletedArchived /\ DeletedAfterRetention
=============================================================================

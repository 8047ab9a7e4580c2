------------------------------- MODULE Lifecycle -------------------------------
(***************************************************************************)
(* The lifecycle supervisor of the assistant's process and the components  *)
(* it owns (src/src/platform/lifecycle.ts, bootstrap/run.ts,               *)
(* runtime/kernel.ts, runtime/compat.ts).  A component may hold its child  *)
(* process after a start that was rejected and after a stop that timed     *)
(* out; a child may exit at any time.                                      *)
(***************************************************************************)
EXTENDS Integers, Sequences, FiniteSets

CONSTANTS
  Components,    \* in the order of the composition, a sequence
  Critical,      \* those whose failure ends the process
  MaxFailures    \* bound on starts and stops that fail and on children that exit

VARIABLES
  state,         \* LifecycleSupervisor: its state, the statuses, started, the failure
  run,           \* start(), stop() and the loop of stopStarted() in their awaits
  env            \* the children, exits that were not seen yet, the bound

Nobody == 0
Ids == DOMAIN Components
Component(c) == Components[c]
Status == {"idle", "starting", "ready", "stopping", "stopped", "failed"}

Init ==
  /\ state = [is |-> "idle", status |-> [c \in Ids |-> "idle"], started |-> <<>>, failure |-> Nobody]
  /\ run = [start |-> "none", at |-> Nobody, stop |-> "none", loop |-> <<>>, asked |-> FALSE]
  /\ env = [alive |-> {}, exited |-> {}, failures |-> 0]

Fails == env.failures < MaxFailures
Failed(e) == [e EXCEPT !.failures = @ + 1]

-----------------------------------------------------------------------------
(* start() *)

Begin(c) ==
  /\ state' = [state EXCEPT !.is = IF c = 1 THEN "starting" ELSE @,
                            !.status[c] = "starting", !.started = Append(@, c)]
  /\ run' = [run EXCEPT !.start = "component", !.at = c]

Start == state.is = "idle" /\ run.start = "none" /\ Begin(1) /\ UNCHANGED env

ComponentStarts ==
  LET c == run.at IN
  /\ run.start = "component"
  /\ state' = [state EXCEPT !.status[c] = "ready"]
  /\ run' = [run EXCEPT !.start = "next"]
  /\ env' = [env EXCEPT !.alive = @ \cup {c}]

NextComponent ==
  /\ run.start = "next"
  /\ IF run.at < Len(Components) THEN Begin(run.at + 1)
     ELSE state' = [state EXCEPT !.is = "ready"] /\ run' = [run EXCEPT !.start = "done"]
  /\ UNCHANGED env

\* Faulty variant: the component that failed is not on the rollback stack
ComponentRejectsUnlisted ==
  /\ run.start = "component" /\ Fails
  /\ state' = [state EXCEPT !.is = "failed", !.started = <<>>]
  /\ run' = [run EXCEPT !.start = "rollback",
                        !.loop = SubSeq(state.started, 1, Len(state.started) - 1)]
  /\ \E alive \in BOOLEAN :
       env' = Failed([env EXCEPT !.alive = IF alive THEN @ \cup {run.at} ELSE @])

\* A start that rejects, with or without a child, rolls back what was started
ComponentRejects ==
  /\ run.start = "component" /\ Fails
  /\ state' = [state EXCEPT !.is = "failed", !.started = <<>>]
  /\ run' = [run EXCEPT !.start = "rollback", !.loop = state.started]
  /\ \E alive \in BOOLEAN :
       env' = Failed([env EXCEPT !.alive = IF alive THEN @ \cup {run.at} ELSE @])

-----------------------------------------------------------------------------
(* stopStarted(): the components in reverse, whatever their stops do *)

Last(s) == s[Len(s)]
Stopping == run.loop # <<>>

\* Faulty variant: in the order in which they were started
StopEndsInOrder ==
  LET c == Head(run.loop) IN
  /\ Stopping
  /\ \E ok \in {TRUE} \cup IF Fails /\ c \in env.alive THEN {FALSE} ELSE {} :
       /\ state' = [state EXCEPT !.status[c] = IF ok THEN "stopped" ELSE "failed"]
       /\ env' = IF ok THEN [env EXCEPT !.alive = @ \ {c}, !.exited = @ \ {c}] ELSE Failed(env)
  /\ run' = [run EXCEPT !.loop = Tail(@)]

\* A child that has exited needs no stop; one that does not end in time is kept
StopEnds ==
  LET c == Last(run.loop) IN
  /\ Stopping
  /\ \E ok \in {TRUE} \cup IF Fails /\ c \in env.alive THEN {FALSE} ELSE {} :
       /\ state' = [state EXCEPT !.status[c] = IF ok THEN "stopped" ELSE "failed"]
       /\ env' = IF ok THEN [env EXCEPT !.alive = @ \ {c}, !.exited = @ \ {c}] ELSE Failed(env)
  /\ run' = [run EXCEPT !.loop = SubSeq(@, 1, Len(@) - 1)]

RolledBack ==
  /\ run.start = "rollback" /\ ~Stopping
  /\ state' = [state EXCEPT !.status[run.at] = "failed"]
  /\ run' = [run EXCEPT !.start = "rejected"]
  /\ UNCHANGED env

-----------------------------------------------------------------------------
(* Failures, signals and stop() *)

\* A child exits on its own: its component sees it at once, its start rejects by it
ChildExits(c) ==
  /\ c \in env.alive /\ Fails
  /\ ~(Stopping /\ Last(run.loop) = c)
  /\ env' = Failed([env EXCEPT !.alive = @ \ {c},
                               !.exited = IF state.status[c] = "ready" THEN @ \cup {c} ELSE @])
  /\ UNCHANGED <<state, run>>

\* Faulty variant: a failure counts only when everything has started
ReportFailureReady(c) ==
  /\ c \in env.exited
  /\ env' = [env EXCEPT !.exited = @ \ {c}]
  /\ state' = IF Component(c) \notin Critical \/ state.is # "ready" \/ state.failure # Nobody
                THEN state
                ELSE [state EXCEPT !.is = "failed", !.status[c] = "failed", !.failure = c]
  /\ UNCHANGED run

\* waitForFailure of a component that start() has passed resolves: the first failure of a
\* critical one is kept for runAssistantApplication, while others are still starting too
ReportFailure(c) ==
  /\ c \in env.exited
  /\ env' = [env EXCEPT !.exited = @ \ {c}]
  /\ state' = IF Component(c) \notin Critical \/ state.is \in {"stopping", "stopped"} \/ state.failure # Nobody
                THEN state
                ELSE [state EXCEPT !.is = "failed", !.status[c] = "failed", !.failure = c]
  /\ UNCHANGED run

\* runAssistantApplication listens to signals and failures once start() has resolved,
\* and stops once
StopRequested ==
  /\ run.start = "done" /\ ~run.asked
  /\ state' = [state EXCEPT !.is = "stopping", !.started = <<>>]
  /\ run' = [run EXCEPT !.asked = TRUE, !.stop = "loop", !.loop = state.started]
  /\ UNCHANGED env

\* stopStarted() rejects when a component failed to stop, and the state stays stopping
Stopped ==
  /\ run.stop = "loop" /\ ~Stopping
  /\ IF \E c \in Ids : state.status[c] = "failed" /\ c \in env.alive
       THEN run' = [run EXCEPT !.stop = "rejected"] /\ UNCHANGED state
       ELSE run' = [run EXCEPT !.stop = "done"] /\ state' = [state EXCEPT !.is = "stopped"]
  /\ UNCHANGED env

Next ==
  \/ Start \/ ComponentStarts \/ NextComponent \/ ComponentRejects
  \/ StopEnds \/ RolledBack \/ StopRequested \/ Stopped
  \/ \E c \in Ids : ChildExits(c) \/ ReportFailure(c)

-----------------------------------------------------------------------------
(* Properties *)

\* Once start() was rejected, or stop() ended, no component holds a child but one whose
\* stop has failed.  While the application runs, a critical component without its child
\* has been reported or is about to be, also when it was lost while later components
\* were starting: runAssistantApplication learns of it.
LifecycleInvariant ==
  /\ run.start = "rejected" \/ run.stop \in {"done", "rejected"} =>
       \A c \in env.alive : state.status[c] = "failed"
  /\ run.stop = "done" => env.alive = {}
  /\ run.start = "done" /\ ~run.asked =>
       \A c \in Ids : Component(c) \in Critical =>
         c \in env.alive \cup env.exited \/ state.failure # Nobody

\* A component is stopped after everything that was started behind it
LifecycleStep ==
  \A c, d \in Ids :
    c < d /\ c \in env.alive /\ c \notin env'.alive /\ Stopping /\ run'.loop # run.loop =>
      d \notin env.alive \/ state.status[d] = "failed"
=============================================================================

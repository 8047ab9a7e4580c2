-------------------------------- MODULE Bridge --------------------------------
(***************************************************************************)
(* The compatibility bridge (packages/bridge-compat): how a private        *)
(* message or a card form of the owner becomes a job of the controller     *)
(* session, and how its result comes back (bridge.js), over the state file *)
(* (state-store.js) and the chain of command line executors                *)
(* (codex-runner.js, cli-failover.js).                                     *)
(*                                                                         *)
(* Node runs one callback at a time: an action is the code between two     *)
(* awaits, and any other callback may run at an await.  A save waits its   *)
(* turn in saveQueue, writes the state as it is when its turn comes, and   *)
(* becomes visible to the next process by the rename.  Whoever awaits a    *)
(* save goes on when that save is done.  An error nobody catches ends the  *)
(* process, and so does a crash; the service manager starts it again from  *)
(* the state file.                                                         *)
(*                                                                         *)
(* All jobs go to one session, the controller.  Left out: approvals of     *)
(* pending research, which handle() consumes before it enqueues, the other *)
(* card actions, which never touch the queue, and the counters and texts   *)
(* of notices that are sent inside try { } catch {}.                       *)
(***************************************************************************)
EXTENDS Integers, FiniteSets, SequencesExt

CONSTANTS
  Deliveries,  \* events handed to the bridge; one message may be delivered twice
  Messages,    \* ids of private messages
  Cards,       \* ids of card submissions
  Drains,      \* calls of drain(); bound: how many may be under way
  Requested,   \* executors the controller session may name
  Fallbacks,   \* fallbacks the configuration enables
  None,        \* no value
  MaxFaults,   \* bound: failed sends, lookups and attempts
  MaxSpawns,   \* bound: failed spawns of the Codex command line
  MaxCrashes   \* bound: crashes

Executors == {"codex", "claude", "dsh-native"}

\* The outcomes executionHistory keeps; the ids of messages and card events kept are more
Recorded == 200

\* The state file forgets the oldest outcome and the oldest ids above its limits, and an
\* event it has forgotten may be handled anew: what is said here is said of as many
\* deliveries as it remembers.
ASSUME BridgeAssumption ==
  /\ IsFiniteSet(Deliveries) /\ Cardinality(Deliveries) <= Recorded
  /\ Messages \cap Cards = {}
  /\ Requested \subseteq {"codex", "claude"} /\ Requested # {}
  /\ Fallbacks \subseteq {"claude", "dsh-native"}
  /\ Deliveries \cap Drains = {}
  /\ MaxFaults \in Nat /\ MaxSpawns \in Nat /\ MaxCrashes \in Nat

Ids == Messages \cup Cards

\* by tells apart the jobs two deliveries of one message enqueue; delayed says
\* that nextAttemptAt is in the future; final that finalResult is set.
Job == [by : Deliveries, id : Ids, requested : Requested, executor : Executors,
        final : BOOLEAN, delayed : BOOLEAN]

\* what the state file keeps of this: the queue, the ids of processed messages
\* and card events, and executionHistory
Store == [queue : Seq(Job), processed : SUBSET Ids,
          history : [Deliveries -> {"none", "completed", "failed"}]]

HandlerSteps == {"new", "reading", "marking", "updated", "enqueuing",
                 "queued", "refused", "ignored", "dead"}
Saving == {"savingResult", "savingRemoval", "savingFailure"}
DrainSteps == {"idle", "loop", "executing", "sending", "savingBusy", "savingRetry"} \cup Saving

VARIABLES
  state,     \* StateStore.state
  disk,      \* state.json
  saves,     \* saveQueue: who awaits a save, in order
  writing,   \* the state being written by the first of them, or None
  handler,   \* what became of each delivery
  draining,  \* Bridge.draining
  drain,     \* the calls of drain(): their step, the job they hold and its index
  running,   \* CodexRunner.running has the controller session
  shown,     \* external: the results Lark showed the owner
  faults, spawns, crashes

store == <<state, disk, saves, writing>>
bounds == <<faults, spawns, crashes>>
vars == <<store, handler, draining, drain, running, shown, bounds>>

NoHandler == [at |-> "new", id |-> None]
IdleDrain == [at |-> "idle", job |-> None, index |-> 0]
Empty == [queue |-> <<>>, processed |-> {}, history |-> [d \in Deliveries |-> "none"]]

TypeOK ==
  /\ state \in Store /\ disk \in Store
  /\ saves \in Seq(Deliveries \cup Drains)
  /\ writing \in Store \cup {None}
  /\ handler \in [Deliveries -> [at : HandlerSteps, id : Ids \cup {None}]]
  /\ draining \in BOOLEAN
  /\ drain \in [Drains -> [at : DrainSteps, job : Deliveries \cup {None}, index : Nat]]
  /\ running \in BOOLEAN
  /\ shown \in SUBSET Deliveries
  /\ faults \in 0..MaxFaults /\ spawns \in 0..MaxSpawns /\ crashes \in 0..MaxCrashes

Init ==
  /\ state = Empty /\ disk = Empty /\ saves = <<>> /\ writing = None
  /\ handler = [d \in Deliveries |-> NoHandler]
  /\ draining = FALSE /\ drain = [w \in Drains |-> IdleDrain]
  /\ running = FALSE /\ shown = {}
  /\ faults = 0 /\ spawns = 0 /\ crashes = 0

Fault == faults < MaxFaults /\ faults' = faults + 1 /\ UNCHANGED <<spawns, crashes>>
NoFault == UNCHANGED bounds

-----------------------------------------------------------------------------
(* StateStore.save *)

\* The state changes and p awaits a save.
Save(p, new) ==
  /\ state' = new
  /\ saves' = Append(saves, p)
  /\ UNCHANGED <<disk, writing>>

Saved(p) == ~Contains(saves, p)

\* The state is copied as it is now.  The copy is cut to the latest ids and entries,
\* which leaves alone what no more than Recorded deliveries put there.
StartWrite ==
  /\ saves # <<>> /\ writing = None
  /\ writing' = state
  /\ UNCHANGED <<state, disk, saves, handler, draining, drain, running, shown, bounds>>

FinishWrite ==
  /\ writing # None
  /\ disk' = writing
  /\ writing' = None
  /\ saves' = Tail(saves)
  /\ UNCHANGED <<state, handler, draining, drain, running, shown, bounds>>

\* The process ends and is started again: what was not renamed is gone, and so
\* are the callbacks, the flags and the children.
Restart ==
  /\ state' = disk /\ saves' = <<>> /\ writing' = None
  /\ handler' = [d \in Deliveries |->
       IF handler[d].at \in {"new", "queued", "refused", "ignored"} THEN handler[d]
       ELSE [handler[d] EXCEPT !.at = "dead"]]
  /\ draining' = FALSE /\ drain' = [w \in Drains |-> IdleDrain]
  /\ running' = FALSE
  /\ UNCHANGED <<disk, shown>>

Crash ==
  /\ crashes < MaxCrashes
  /\ crashes' = crashes + 1
  /\ Restart
  /\ UNCHANGED <<faults, spawns>>

-----------------------------------------------------------------------------
(* Bridge.handle, Bridge.handleCardAction, Bridge.enqueue *)

HandlerAt(d, at) == handler' = [handler EXCEPT ![d].at = at]

Seen(m) == m \in state.processed \/ \E i \in DOMAIN state.queue : state.queue[i].id = m

\* An event arrives.  For a message the check and the mark are awaits apart;
\* for a card the event id is recorded at once.
Deliver(d, m) ==
  /\ handler[d].at = "new"
  /\ \/ /\ Seen(m)
        /\ handler' = [handler EXCEPT ![d] = [at |-> "ignored", id |-> m]]
        /\ UNCHANGED store
     \/ /\ m \in Messages /\ ~Seen(m)
        /\ handler' = [handler EXCEPT ![d] = [at |-> "reading", id |-> m]]
        /\ UNCHANGED store
     \/ /\ m \in Cards /\ ~Seen(m)
        /\ handler' = [handler EXCEPT ![d] = [at |-> "marking", id |-> m]]
        /\ Save(d, [state EXCEPT !.processed = @ \cup {m}])
  /\ UNCHANGED <<draining, drain, running, shown>> /\ NoFault

\* Faulty variant: the mark is saved without the id
MarkNothing(d) ==
  /\ handler[d].at = "reading"
  /\ Save(d, state)
  /\ HandlerAt(d, "marking")
  /\ UNCHANGED <<draining, drain, running, shown>> /\ NoFault

MarkProcessed(d) ==
  /\ handler[d].at = "reading"
  /\ Save(d, [state EXCEPT !.processed = @ \cup {handler[d].id}])
  /\ HandlerAt(d, "marking")
  /\ UNCHANGED <<draining, drain, running, shown>> /\ NoFault

\* The card of a submission is updated before its request is enqueued.
UpdateCard(d) ==
  /\ handler[d].at = "marking" /\ Saved(d) /\ handler[d].id \in Cards
  /\ \/ HandlerAt(d, "updated") /\ NoFault
     \/ HandlerAt(d, "refused") /\ Fault
  /\ UNCHANGED <<store, draining, drain, running, shown>>

\* enqueue() looks the controller session up.
Looking(d) ==
  \/ handler[d].at = "marking" /\ Saved(d) /\ handler[d].id \in Messages
  \/ handler[d].at = "updated"

\* An error on the way: the owner is told, and when that fails as well a
\* message's handler throws, which ends the process; a card's is caught.
Complain(d) ==
  \/ /\ HandlerAt(d, "refused")
     /\ Fault
     /\ UNCHANGED <<store, draining, drain, running, shown>>
  \/ /\ handler[d].id \in Messages
     /\ Fault
     /\ Restart

\* sessions.get throws, or does not know the session.
LookupFails(d) == Looking(d) /\ Complain(d)

NewJob(d, e) == [by |-> d, id |-> handler[d].id, requested |-> e, executor |-> e,
                 final |-> FALSE, delayed |-> FALSE]

Enqueue(d) ==
  /\ Looking(d)
  /\ \E e \in Requested : Save(d, [state EXCEPT !.queue = Append(@, NewJob(d, e))])
  /\ HandlerAt(d, "enqueuing")
  /\ UNCHANGED <<draining, drain, running, shown>> /\ NoFault

\* Faulty variant: without the guard on draining
StartDrainAnyway ==
  /\ draining' = TRUE
  /\ \E w \in Drains : /\ drain[w].at = "idle"
                       /\ drain' = [drain EXCEPT ![w].at = "loop"]

\* drain() returns at once while another call of it is draining.
StartDrain ==
  IF draining THEN UNCHANGED <<draining, drain>>
  ELSE /\ draining' = TRUE
       /\ \E w \in Drains : /\ drain[w].at = "idle"
                            /\ drain' = [drain EXCEPT ![w].at = "loop"]

\* Faulty variant: the owner is told before the save
ReplyQueuedEarly(d) ==
  /\ handler[d].at = "enqueuing"
  /\ HandlerAt(d, "queued")
  /\ StartDrain
  /\ UNCHANGED <<store, running, shown>> /\ NoFault

ReplyQueued(d) ==
  /\ handler[d].at = "enqueuing" /\ Saved(d)
  /\ HandlerAt(d, "queued")
  /\ StartDrain
  /\ UNCHANGED <<store, running, shown>> /\ NoFault

ReplyFails(d) == handler[d].at = "enqueuing" /\ Saved(d) /\ Complain(d)

-----------------------------------------------------------------------------
(* Bridge.drain *)

\* the timer of index.js, every 15 seconds
RetryQueued ==
  /\ state.queue # <<>> /\ ~draining
  /\ StartDrain
  /\ UNCHANGED <<store, handler, running, shown>> /\ NoFault

DrainAt(w, at) == drain' = [drain EXCEPT ![w].at = at]

\* Faulty variant: without the finally
LeaveDraining(w) == drain' = [drain EXCEPT ![w] = IdleDrain] /\ UNCHANGED draining

\* break, return or throw: finally { this.draining = false }
Leave(w) == draining' = FALSE /\ drain' = [drain EXCEPT ![w] = IdleDrain]

Runnable(i) == ~running /\ ~state.queue[i].delayed

\* findIndex: the first runnable job
First(w) == {i \in DOMAIN state.queue :
               Runnable(i) /\ \A j \in 1..(i - 1) : ~Runnable(j)}

\* One turn of the loop: nothing to do, a result to send, or a job to execute.
\* The turn before ended with its save, and with a notice that may get lost.
Turn(w) ==
  /\ drain[w].at \in {"loop"} \cup Saving /\ Saved(w)
  /\ \/ First(w) = {} /\ Leave(w) /\ UNCHANGED running
     \/ \E i \in First(w) :
          LET job == state.queue[i] IN
          /\ drain' = [drain EXCEPT ![w] =
               [at |-> IF job.final THEN "sending" ELSE "executing", job |-> job.by, index |-> i]]
          /\ running' = ~job.final
          /\ UNCHANGED draining
  /\ UNCHANGED <<store, handler, shown>> /\ NoFault

\* The job object the call holds, wherever it is in the queue.
Held(w) == CHOOSE i \in DOMAIN state.queue : state.queue[i].by = drain[w].job
Holds(w) == \E i \in DOMAIN state.queue : state.queue[i].by = drain[w].job
Changed(w, job) == IF Holds(w) THEN [state.queue EXCEPT ![Held(w)] = job] ELSE state.queue
JobOf(w) == state.queue[Held(w)]

\* recordExecution and queue.splice(runnableIndex, 1): by the index of the turn
Removed(w, status) ==
  [state EXCEPT !.queue = RemoveAt(@, drain[w].index), !.history[drain[w].job] = status]

\* Faulty variant: without the reset to the requested executor
RetainedAsIs(w) == [state EXCEPT !.queue = Changed(w, [JobOf(w) EXCEPT !.delayed = TRUE])]

\* retainForRetry: later, and an execution again from the requested executor
Retained(w) == [state EXCEPT !.queue = Changed(w, [JobOf(w) EXCEPT !.delayed = TRUE,
                                !.executor = IF JobOf(w).final THEN @ ELSE JobOf(w).requested])]

RetainForRetry(w) == Save(w, Retained(w)) /\ DrainAt(w, "savingRetry")

SendFinal(w) ==
  /\ drain[w].at = "sending"
  /\ shown' = shown \cup {drain[w].job}
  /\ Save(w, Removed(w, "completed"))
  /\ DrainAt(w, "savingRemoval")
  /\ UNCHANGED <<handler, draining, running>> /\ NoFault

\* Faulty variant: a result is dropped when it cannot be sent
SendFailsForGood(w) ==
  /\ drain[w].at = "sending"
  /\ shown' \in {shown, shown \cup {drain[w].job}}
  /\ Save(w, Removed(w, "completed")) /\ DrainAt(w, "savingRemoval")
  /\ UNCHANGED <<handler, draining, running>> /\ Fault

\* Lark may have taken the message whose sending failed here.
SendFails(w) ==
  /\ drain[w].at = "sending"
  /\ shown' \in {shown, shown \cup {drain[w].job}}
  /\ RetainForRetry(w)
  /\ UNCHANGED <<handler, draining, running>> /\ Fault

\* Faulty variant: the result is sent before it was saved
AttemptSucceedsUnsaved(w) ==
  /\ drain[w].at = "executing"
  /\ state' = [state EXCEPT !.queue = Changed(w, [JobOf(w) EXCEPT !.final = TRUE, !.delayed = FALSE])]
  /\ DrainAt(w, "loop")
  /\ running' = FALSE
  /\ UNCHANGED <<disk, saves, writing, handler, draining, shown>> /\ NoFault

\* CodexRunner.execute returns
AttemptSucceeds(w) ==
  /\ drain[w].at = "executing"
  /\ Save(w, [state EXCEPT !.queue = Changed(w, [JobOf(w) EXCEPT !.final = TRUE, !.delayed = FALSE])])
  /\ DrainAt(w, "savingResult")
  /\ running' = FALSE
  /\ UNCHANGED <<handler, draining, shown>> /\ NoFault

\* The next executor after an infrastructure failure.
NextExecutors(e) ==
  IF e = "codex" /\ "claude" \in Fallbacks THEN {"claude"}
  ELSE IF e # "dsh-native" THEN {"dsh-native"} \cap Fallbacks ELSE {}

\* A fallback names itself the executor of the job before it starts.
FallBack(w) ==
  /\ drain[w].at = "executing"
  /\ \E e \in NextExecutors(JobOf(w).executor) :
       state' = [state EXCEPT !.queue = Changed(w, [JobOf(w) EXCEPT !.executor = e])]
  /\ UNCHANGED <<disk, saves, writing, handler, draining, drain, running, shown>> /\ Fault

\* The session is in use elsewhere; only Codex says so.
SessionBusy(w) ==
  /\ drain[w].at = "executing" /\ JobOf(w).executor = "codex"
  /\ Save(w, [state EXCEPT !.queue = Changed(w, [JobOf(w) EXCEPT !.delayed = TRUE])])
  /\ DrainAt(w, "savingBusy")
  /\ running' = FALSE
  /\ UNCHANGED <<handler, draining, shown>> /\ Fault

\* The last executor tried fails with an error whose words say retry.
AttemptFails(w) ==
  /\ drain[w].at = "executing"
  /\ RetainForRetry(w)
  /\ running' = FALSE
  /\ UNCHANGED <<handler, draining, shown>> /\ Fault

GiveUp(w) == Save(w, Removed(w, "failed")) /\ DrainAt(w, "savingFailure")

\* It fails with any other error.
AttemptRejected(w) ==
  /\ drain[w].at = "executing"
  /\ GiveUp(w)
  /\ running' = FALSE
  /\ UNCHANGED <<handler, draining, shown>> /\ Fault

\* The Codex child cannot be started: onSpawn has recorded it as running, and
\* run() rejects past the line that would forget it.
SpawnFails(w) ==
  /\ drain[w].at = "executing" /\ JobOf(w).executor = "codex"
  /\ spawns < MaxSpawns
  /\ spawns' = spawns + 1
  /\ GiveUp(w)
  /\ UNCHANGED <<handler, draining, running, shown, faults, crashes>>

\* The save and the notice of a retry are done.
Break(w) ==
  /\ drain[w].at = "savingRetry" /\ Saved(w)
  /\ Leave(w)
  /\ UNCHANGED <<store, handler, running, shown>> /\ NoFault

\* The notice of a busy session is sent outside any try.
BusyNotice(w) ==
  /\ drain[w].at = "savingBusy" /\ Saved(w)
  /\ \/ /\ Leave(w)
        /\ UNCHANGED <<store, handler, running, shown>> /\ NoFault
     \/ Restart /\ Fault

\* nextAttemptAt passes
Elapse(i) ==
  /\ i \in DOMAIN state.queue /\ state.queue[i].delayed
  /\ state' = [state EXCEPT !.queue[i].delayed = FALSE]
  /\ UNCHANGED <<disk, saves, writing, handler, draining, drain, running, shown, bounds>>

-----------------------------------------------------------------------------
HandlerStep(d) ==
  \/ MarkProcessed(d) \/ UpdateCard(d) \/ LookupFails(d) \/ Enqueue(d)
  \/ ReplyQueued(d) \/ ReplyFails(d)

DrainStep(w) ==
  \/ Turn(w) \/ SendFinal(w) \/ SendFails(w) \/ AttemptSucceeds(w) \/ FallBack(w)
  \/ SessionBusy(w) \/ AttemptFails(w) \/ AttemptRejected(w) \/ SpawnFails(w)
  \/ Break(w) \/ BusyNotice(w)

Next ==
  \/ StartWrite \/ FinishWrite \/ Crash \/ RetryQueued
  \/ \E d \in Deliveries : HandlerStep(d) \/ \E m \in Ids : Deliver(d, m)
  \/ \E w \in Drains : DrainStep(w)
  \/ \E i \in DOMAIN state.queue : Elapse(i)

Spec == Init /\ [][Next]_vars

\* Writes end, callbacks run, children end (or their timeout ends them), time
\* passes and the timer of retryQueued fires.  Nothing makes events arrive.
Fairness ==
  /\ WF_vars(StartWrite \/ FinishWrite)
  /\ WF_vars(RetryQueued)
  /\ \A d \in Deliveries : WF_vars(HandlerStep(d))
  /\ \A w \in Drains : WF_vars(DrainStep(w))
  /\ WF_vars(\E i \in DOMAIN state.queue : Elapse(i))

FairSpec == Spec /\ Fairness

-----------------------------------------------------------------------------
(* Properties *)

Queued(s) == {s.queue[i].by : i \in DOMAIN s.queue}
Settled(s) == {d \in Deliveries : s.history[d] # "none"}

\* A call of drain() past its choice of a job finds that job where it found it,
\* until it takes it out itself: the splice by index after minutes of awaiting
\* removes the job that was executed (bridge.js, drain).
DrainHoldsItsJob ==
  \A w \in Drains :
    drain[w].at \in {"executing", "sending", "savingResult", "savingBusy", "savingRetry"} =>
      /\ drain[w].index \in DOMAIN state.queue
      /\ state.queue[drain[w].index].by = drain[w].job

\* Whoever was told that the request is queued finds it in the state file, or
\* its outcome, whatever crashes afterwards (bridge.js, enqueue: save before reply).
AcceptedIsDurable ==
  \A d \in Deliveries :
    handler[d].at = "queued" => d \in Queued(disk) \cup Settled(disk)

\* A job leaves the state file only with its outcome: with its result shown to
\* the owner, or recorded as failed (bridge.js, drain: send, then record and remove).
LeavesWithOutcome ==
  [][\A d \in Queued(disk) \ Queued(disk') :
       \/ disk'.history[d] = "completed" /\ d \in shown
       \/ disk'.history[d] = "failed"]_vars

\* No job is executed again once its result was shown, although its sending
\* may have looked failed and the process may have crashed since (bridge.js,
\* drain: finalResult is saved before it is sent).
NoExecutionAfterResult ==
  \A w \in Drains : drain[w].at = "executing" => drain[w].job \notin shown

\* In the state file a queued job is never without the mark that keeps another
\* delivery of its message out (bridge.js, handle: mark before enqueue).
QueuedIsMarked ==
  \A i \in DOMAIN disk.queue : disk.queue[i].id \in disk.processed

\* A job that waits for a retry of its execution waits with the executor that
\* was requested, whichever fallback failed last (bridge.js, retainForRetry).
WaitsWithRequested ==
  \A i \in DOMAIN state.queue :
    LET job == state.queue[i] IN job.delayed /\ ~job.final => job.executor = job.requested

\* The bridge has its types, drains hold their jobs, jobs their marks and executors
BridgeInvariant == TypeOK /\ DrainHoldsItsJob /\ QueuedIsMarked /\ WaitsWithRequested

\* The session counts as running while no call executes anything.
Stuck == running /\ \A w \in Drains : drain[w].at # "executing"

\* A request in the state file is settled in the end, unless a failed spawn
\* left the session running for good (bridge.js, drain and retryQueued).
RequestsSettle ==
  \A d \in Deliveries : d \in Queued(disk) ~> d \in Settled(disk) \/ Stuck
=============================================================================

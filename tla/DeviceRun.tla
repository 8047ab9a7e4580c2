------------------------------ MODULE DeviceRun ------------------------------
(***************************************************************************)
(* One task's way from the control plane to a device and back: the device  *)
(* session provider (control-plane/sqlite-device-session-provider.ts) and  *)
(* the no-effect execution cycle of the client                             *)
(* (client-runtime/inactive-client-cycle.ts), with the client's run        *)
(* journal and the checkpoints it keeps in SQLite.                         *)
(*                                                                         *)
(* A pass opens a session, which supersedes the one before it, restores    *)
(* the journal from the checkpoints, and either resumes the first open run *)
(* or polls for a lease, saves it, acknowledges it, executes the plan,     *)
(* saves the result and submits it.  The client may crash at every step    *)
(* and every call may time out: its request is then still on its way, and  *)
(* the server may handle it at any later moment.  The worker              *)
(* (no-effect-client-worker.ts) runs one pass at a time, and the instance  *)
(* lease keeps other processes away; both are taken as given here.         *)
(*                                                                         *)
(* There is one device of one user.  Sessions are anonymous: what a call   *)
(* needs to know of its session is whether it is still the active one, so  *)
(* a pass and a request carry that flag and opening a session clears it    *)
(* everywhere else.  A lease token is named by its lease_attempt.          *)
(***************************************************************************)
EXTENDS Integers, Sequences, FiniteSets

CONSTANTS
  Tasks,         \* dispatches; numbers in the order of their task ids
  Executors,     \* the executors the plans allow; numbers in the plans' order of preference
  Outcomes,      \* outcomes an executor may return
  None,          \* SQL NULL, and null in the code
  MaxFaults,     \* bound: calls that time out, crashes and executions that throw
  MaxLapses,     \* bound: leases and sessions that expire
  MaxExpiries,   \* bound: plans that expire
  MaxOutages     \* bound: passes in which some executor is not ready

Waiting == {"opening", "polling", "acking", "submitting"}
OpenStates == {"accepted", "running", "paused", "completed-pending-sync"}

\* the state of a dispatch whose result reports an outcome
RowState(o) == IF o = "succeeded" THEN "completed" ELSE o

Dispatch == [state : {"absent", "queued", "leased"} \cup {RowState(o) : o \in Outcomes},
             attempt : Nat, fresh : BOOLEAN, acked : BOOLEAN]
Evidence == [outcome : Outcomes, run : Nat \ {0}]
Checkpoint == [state : {"leased", "synced"} \cup OpenStates,
               exec : Executors, result : Evidence \cup {None}]
Request == [op : {"open", "poll", "offer", "ack", "submit"}, mine : BOOLEAN, live : BOOLEAN,
            task : Tasks \cup {None}, attempt : Nat, evidence : Evidence \cup {None}]
Reply == [kind : {"opened", "empty", "refused", "accepted", "stored"}]
           \cup [kind : {"lease"}, task : Tasks, attempt : Nat]
Pass == [at : Waiting \cup {"idle", "starting", "executing", "completing"}, live : BOOLEAN,
         seen : SUBSET Tasks, ready : SUBSET Executors, task : Tasks \cup {None},
         attempt : Nat, evidence : Evidence \cup {None}, reply : Reply \cup {None}]

ASSUME DeviceAssumption ==
  /\ Tasks \subseteq Nat
  /\ Executors \subseteq Nat
  /\ None \notin Tasks \cup Evidence \cup Checkpoint \cup Reply
  /\ MaxFaults \in Nat /\ MaxLapses \in Nat /\ MaxExpiries \in Nat /\ MaxOutages \in Nat

VARIABLES
  dispatch,   \* rows of cp_device_dispatch
  queue,      \* the dispatched tasks in the order of created_at
  result,     \* rows of cp_device_result
  expired,    \* tasks whose signed plan is past its expiresAt
  disk,       \* rows of local_run_checkpoint
  pass,       \* the client's pass: its memory, lost when it ends
  wire,       \* requests the server has not answered
  runs,       \* executions that ran to their end, by task
  spent       \* what has been used of the bounds

server == <<dispatch, queue, result>>
vars == <<server, expired, disk, pass, wire, runs, spent>>

Idle == [at |-> "idle", live |-> FALSE, seen |-> {}, ready |-> {}, task |-> None,
         attempt |-> 0, evidence |-> None, reply |-> None]

Init ==
  /\ dispatch = [t \in Tasks |-> [state |-> "absent", attempt |-> 0, fresh |-> FALSE, acked |-> FALSE]]
  /\ queue = <<>>
  /\ result = [t \in Tasks |-> None]
  /\ expired = {}
  /\ disk = [t \in Tasks |-> None]
  /\ pass = Idle
  /\ wire = {}
  /\ runs = [t \in Tasks |-> 0]
  /\ spent = [faults |-> 0, lapses |-> 0, outages |-> 0]

-----------------------------------------------------------------------------
(* The control plane. *)

\* enqueue: the plan is verified, a task is dispatched once
Enqueue(t) ==
  /\ dispatch[t].state = "absent" /\ t \notin expired
  /\ dispatch' = [dispatch EXCEPT ![t].state = "queued"]
  /\ queue' = Append(queue, t)
  /\ UNCHANGED <<result, expired, disk, pass, wire, runs, spent>>

\* the row a poll selects
Oldest(t) ==
  \E i \in DOMAIN queue : /\ queue[i] = t /\ ~dispatch[t].acked
                         /\ \A j \in 1 .. i - 1 : dispatch[queue[j]].acked

\* the answer reaches the client only while the pass that asked is waiting for it
Answer(req, reply) ==
  /\ wire' = wire \ {req}
  /\ pass' = IF req.mine THEN [pass EXCEPT !.reply = reply] ELSE pass

Refuse(req) == Answer(req, [kind |-> "refused"]) /\ UNCHANGED server

\* openSession: consumes the challenge and supersedes the active session
HandleOpen(req) ==
  /\ req.op = "open"
  /\ wire' = {[r EXCEPT !.live = FALSE] : r \in wire \ {req}}
  /\ pass' = [pass EXCEPT !.live = req.mine,
                          !.reply = IF req.mine THEN [kind |-> "opened"] ELSE @]
  /\ UNCHANGED server

\* poll, up to its await: the session, the oldest row and its plan are read
HandlePoll(req) ==
  /\ req.op = "poll"
  /\ \/ /\ ~req.live \/ \E t \in expired : Oldest(t)
        /\ Refuse(req)
     \/ /\ req.live /\ \A t \in Tasks : ~Oldest(t)
        /\ Answer(req, [kind |-> "empty"]) /\ UNCHANGED server
     \/ \E t \in Tasks \ expired :
          /\ req.live /\ Oldest(t)
          /\ wire' = (wire \ {req}) \cup
                     {[req EXCEPT !.op = "offer", !.task = t,
                                  !.attempt = IF dispatch[t].fresh THEN dispatch[t].attempt ELSE 0]}
          /\ UNCHANGED <<server, pass>>

Lease(t, a) == [kind |-> "lease", task |-> t, attempt |-> a]

\* Faulty variant: the row is not read again after the await
HandleOfferUnchecked(req) ==
  LET t == req.task
      row == dispatch[t]
  IN  /\ req.op = "offer"
      /\ UNCHANGED <<queue, result>>
      /\ IF req.attempt # 0 THEN Answer(req, Lease(t, req.attempt)) /\ UNCHANGED dispatch
         ELSE /\ dispatch' = [dispatch EXCEPT ![t].state = "leased", ![t].attempt = @ + 1, ![t].fresh = TRUE]
              /\ Answer(req, Lease(t, row.attempt + 1))

\* poll, after its await: a lease that was live is returned as it was read, else the row is read again
HandleOffer(req) ==
  LET t == req.task
      row == dispatch[t]
  IN  /\ req.op = "offer"
      /\ UNCHANGED <<queue, result>>
      /\ \/ /\ req.attempt # 0
            /\ Answer(req, Lease(t, req.attempt)) /\ UNCHANGED dispatch
         \/ /\ req.attempt = 0 /\ (row.acked \/ row.state \notin {"queued", "leased"})
            /\ Answer(req, [kind |-> "empty"]) /\ UNCHANGED dispatch
         \/ /\ req.attempt = 0 /\ ~row.acked /\ row.state \in {"queued", "leased"} /\ row.fresh
            /\ Answer(req, Lease(t, row.attempt)) /\ UNCHANGED dispatch
         \/ /\ req.attempt = 0 /\ ~row.acked /\ row.state \in {"queued", "leased"} /\ ~row.fresh
            /\ dispatch' = [dispatch EXCEPT ![t].state = "leased", ![t].attempt = @ + 1, ![t].fresh = TRUE]
            /\ Answer(req, Lease(t, row.attempt + 1))

\* acknowledge: the token must be the row's and its lease must not have expired
HandleAck(req) ==
  LET row == dispatch[req.task]
  IN  /\ req.op = "ack"
      /\ IF req.live /\ row.attempt = req.attempt /\ row.fresh
         THEN /\ dispatch' = [dispatch EXCEPT ![req.task].acked = TRUE]
              /\ Answer(req, [kind |-> "accepted"])
              /\ UNCHANGED <<queue, result>>
         ELSE Refuse(req)

\* Faulty variant: a submission that was stored before is refused
HandleSubmitOnce(req) ==
  /\ req.op = "submit"
  /\ IF ~req.live \/ ~dispatch[req.task].acked \/ result[req.task] # None THEN Refuse(req)
     ELSE /\ result' = [result EXCEPT ![req.task] = req.evidence]
          /\ dispatch' = [dispatch EXCEPT ![req.task].state = RowState(req.evidence.outcome)]
          /\ Answer(req, [kind |-> "stored"])
          /\ UNCHANGED queue

\* submitResult: stored once; the same evidence again is answered, other evidence refused
HandleSubmit(req) ==
  LET t == req.task
  IN  /\ req.op = "submit"
      /\ IF ~req.live \/ ~dispatch[t].acked \/ result[t] \notin {None, req.evidence} THEN Refuse(req)
         ELSE /\ result' = [result EXCEPT ![t] = req.evidence]
              /\ dispatch' = IF result[t] # None THEN dispatch
                             ELSE [dispatch EXCEPT ![t].state = RowState(req.evidence.outcome)]
              /\ Answer(req, [kind |-> "stored"])
              /\ UNCHANGED queue

Handle(req) ==
  /\ HandleOpen(req) \/ HandlePoll(req) \/ HandleOffer(req) \/ HandleAck(req) \/ HandleSubmit(req)
  /\ UNCHANGED <<expired, disk, runs, spent>>

-----------------------------------------------------------------------------
(* The client's pass. *)

EndPass == pass' = Idle

Send(op, t, a, e) ==
  wire' = wire \cup {[op |-> op, mine |-> TRUE, live |-> pass.live, task |-> t, attempt |-> a, evidence |-> e]}

\* the pass begins: discovery, then a challenge and the proof that opens a session
StartPass(ready) ==
  /\ pass.at = "idle"
  /\ ready # Executors => spent.outages < MaxOutages
  /\ spent' = IF ready = Executors THEN spent ELSE [spent EXCEPT !.outages = @ + 1]
  /\ pass' = [Idle EXCEPT !.at = "opening", !.seen = expired, !.ready = ready]
  /\ Send("open", None, 0, None)
  /\ UNCHANGED <<server, expired, disk, runs>>

\* a checkpoint without a result is restored only while its plan is valid
Restorable == \A t \in Tasks : disk[t] # None /\ disk[t].result = None => t \notin pass.seen

\* Faulty variant: an interrupted run is forgotten
PendingUninterrupted == {t \in Tasks : disk[t] # None /\ disk[t].state \in OpenStates \ {"running"}}

\* the runs a pass resumes before it polls; running ones come back as paused
Pending == {t \in Tasks : disk[t] # None /\ disk[t].state \in OpenStates}

First(t) == t \in Pending /\ \A u \in Pending : t <= u

Opened == pass.at = "opening" /\ pass.reply = [kind |-> "opened"]

\* the journal cannot be restored: the pass throws
RestoreFails ==
  /\ Opened /\ ~Restorable
  /\ EndPass
  /\ UNCHANGED <<server, expired, disk, wire, runs, spent>>

\* Faulty variant: whatever is pending is executed
ResumeByExecuting(t) ==
  /\ Opened /\ Restorable /\ First(t)
  /\ pass' = [pass EXCEPT !.at = "starting", !.task = t, !.reply = None]
  /\ UNCHANGED <<server, expired, disk, wire, runs, spent>>

Resume(t) ==
  /\ Opened /\ Restorable /\ First(t)
  /\ IF disk[t].state = "completed-pending-sync"
     THEN /\ pass' = [pass EXCEPT !.at = "submitting", !.task = t, !.reply = None]
          /\ Send("submit", t, 0, disk[t].result)
     ELSE pass' = [pass EXCEPT !.at = "starting", !.task = t, !.reply = None] /\ UNCHANGED wire
  /\ UNCHANGED <<server, expired, disk, runs, spent>>

Poll ==
  /\ Opened /\ Restorable /\ Pending = {}
  /\ pass' = [pass EXCEPT !.at = "polling", !.reply = None]
  /\ Send("poll", None, 0, None)
  /\ UNCHANGED <<server, expired, disk, runs, spent>>

\* negotiateExecutor: the first executor in the plan's order that is ready
Negotiated(x, ready) == x \in ready /\ \A y \in ready : x <= y

\* the journal takes a lease it does not know, or knows under the same executor and still unacknowledged
Acceptable(t, x) ==
  Negotiated(x, pass.ready) /\ (disk[t] # None => disk[t].exec = x /\ disk[t].state = "leased")

LeaseOffered == pass.at = "polling" /\ pass.reply # None /\ pass.reply.kind = "lease"

\* acceptLease: saved on disk before it is acknowledged
AcceptLease(x) ==
  LET t == pass.reply.task
  IN  /\ LeaseOffered /\ Acceptable(t, x)
      /\ disk' = [disk EXCEPT ![t] = [state |-> "leased", exec |-> x, result |-> None]]
      /\ pass' = [pass EXCEPT !.at = "acking", !.task = t, !.attempt = pass.reply.attempt, !.reply = None]
      /\ Send("ack", t, pass.reply.attempt, None)
      /\ UNCHANGED <<server, expired, runs, spent>>

\* no executor is ready, or the journal holds the task for another one
LeaseRejected ==
  /\ LeaseOffered /\ \A x \in Executors : ~Acceptable(pass.reply.task, x)
  /\ EndPass
  /\ UNCHANGED <<server, expired, disk, wire, runs, spent>>

\* nothing to do, or the call was refused: the pass ends, with or without an error
PassEnds ==
  /\ pass.at \in Waiting /\ pass.reply # None /\ pass.reply.kind \in {"empty", "refused"}
  /\ EndPass
  /\ UNCHANGED <<server, expired, disk, wire, runs, spent>>

\* Faulty variant: any answer is taken for an acknowledgement
MarkAcknowledgedUnchecked ==
  /\ pass.at = "acking" /\ pass.reply # None
  /\ disk' = [disk EXCEPT ![pass.task].state = "accepted"]
  /\ pass' = [pass EXCEPT !.at = "starting", !.reply = None]
  /\ UNCHANGED <<server, expired, wire, runs, spent>>

MarkAcknowledged ==
  /\ pass.at = "acking" /\ pass.reply = [kind |-> "accepted"]
  /\ disk' = [disk EXCEPT ![pass.task].state = "accepted"]
  /\ pass' = [pass EXCEPT !.at = "starting", !.reply = None]
  /\ UNCHANGED <<server, expired, wire, runs, spent>>

Begin ==
  /\ pass.at = "starting"
  /\ disk' = [disk EXCEPT ![pass.task].state = "running"]
  /\ pass' = [pass EXCEPT !.at = "executing"]
  /\ UNCHANGED <<server, expired, wire, runs, spent>>

\* the executor returns; the result is only in memory
ExecutorReturns(o) ==
  LET t == pass.task
  IN  /\ pass.at = "executing"
      /\ runs' = [runs EXCEPT ![t] = @ + 1]
      /\ pass' = [pass EXCEPT !.at = "completing", !.evidence = [outcome |-> o, run |-> runs[t] + 1]]
      /\ UNCHANGED <<server, expired, disk, wire, spent>>

\* Faulty variant: the checkpoint takes the outcome for its state
ExecutorThrowsFailed ==
  /\ pass.at = "executing" /\ spent.faults < MaxFaults
  /\ disk' = [disk EXCEPT ![pass.task].state = "failed"]
  /\ spent' = [spent EXCEPT !.faults = @ + 1]
  /\ EndPass
  /\ UNCHANGED <<server, expired, wire, runs>>

\* the executor throws: the run is paused and the pass ends
ExecutorThrows ==
  /\ pass.at = "executing" /\ spent.faults < MaxFaults
  /\ disk' = [disk EXCEPT ![pass.task].state = "paused"]
  /\ spent' = [spent EXCEPT !.faults = @ + 1]
  /\ EndPass
  /\ UNCHANGED <<server, expired, wire, runs>>

\* Faulty variant: the result is submitted before it is saved
CompleteUnsaved ==
  /\ pass.at = "completing"
  /\ pass' = [pass EXCEPT !.at = "submitting", !.evidence = None]
  /\ Send("submit", pass.task, 0, pass.evidence)
  /\ UNCHANGED <<server, expired, disk, runs, spent>>

\* completePendingSync: the result is saved, then submitted
CompletePendingSync ==
  LET t == pass.task
  IN  /\ pass.at = "completing"
      /\ disk' = [disk EXCEPT ![t].state = "completed-pending-sync", ![t].result = pass.evidence]
      /\ pass' = [pass EXCEPT !.at = "submitting", !.evidence = None]
      /\ Send("submit", t, 0, pass.evidence)
      /\ UNCHANGED <<server, expired, runs, spent>>

MarkSynced ==
  /\ pass.at = "submitting" /\ pass.reply = [kind |-> "stored"]
  /\ disk' = [disk EXCEPT ![pass.task].state = "synced"]
  /\ EndPass
  /\ UNCHANGED <<server, expired, wire, runs, spent>>

-----------------------------------------------------------------------------
(* What goes wrong around them. *)

\* the pass is gone; a request it was waiting for stays on the wire
Abandon ==
  /\ spent.faults < MaxFaults
  /\ spent' = [spent EXCEPT !.faults = @ + 1]
  /\ EndPass
  /\ wire' = {[r EXCEPT !.mine = FALSE] : r \in wire}
  /\ UNCHANGED <<server, expired, disk, runs>>

\* the transport's timeout, before or after the server handled the call
CallTimesOut == pass.at \in Waiting /\ Abandon

\* the client's process dies between two of its own steps
ClientCrashes == pass.at \in {"starting", "executing", "completing"} /\ Abandon

LeaseLapses(t) ==
  /\ dispatch[t].fresh /\ spent.lapses < MaxLapses
  /\ dispatch' = [dispatch EXCEPT ![t].fresh = FALSE]
  /\ spent' = [spent EXCEPT !.lapses = @ + 1]
  /\ UNCHANGED <<queue, result, expired, disk, pass, wire, runs>>

SessionLapses ==
  /\ pass.live /\ spent.lapses < MaxLapses
  /\ pass' = [pass EXCEPT !.live = FALSE]
  /\ wire' = {[r EXCEPT !.live = FALSE] : r \in wire}
  /\ spent' = [spent EXCEPT !.lapses = @ + 1]
  /\ UNCHANGED <<server, expired, disk, runs>>

PlanExpires(t) ==
  /\ t \notin expired /\ Cardinality(expired) < MaxExpiries
  /\ expired' = expired \cup {t}
  /\ UNCHANGED <<server, disk, pass, wire, runs, spent>>

Answered == \E req \in wire : req.mine /\ Handle(req)
Strayed == \E req \in wire : ~req.mine /\ Handle(req)

PassStep ==
  \/ \E ready \in SUBSET Executors : StartPass(ready)
  \/ \E t \in Tasks : Resume(t)
  \/ \E x \in Executors : AcceptLease(x)
  \/ RestoreFails \/ Poll \/ LeaseRejected \/ PassEnds
  \/ MarkAcknowledged \/ Begin \/ CompletePendingSync \/ MarkSynced
  \/ \E o \in Outcomes : ExecutorReturns(o)

Next ==
  \/ \E t \in Tasks : Enqueue(t) \/ LeaseLapses(t) \/ PlanExpires(t)
  \/ Answered \/ Strayed \/ PassStep
  \/ ExecutorThrows \/ CallTimesOut \/ ClientCrashes \/ SessionLapses

Spec == Init /\ [][Next]_vars

\* the worker schedules a pass after every pass, and a server that is asked answers
FairSpec == Spec /\ WF_vars(PassStep) /\ WF_vars(Answered)

-----------------------------------------------------------------------------
\* Every variable has the shape of the rows and messages it stands for.
TypeOK ==
  /\ dispatch \in [Tasks -> Dispatch]
  /\ queue \in Seq(Tasks)
  /\ result \in [Tasks -> Evidence \cup {None}]
  /\ expired \subseteq Tasks
  /\ disk \in [Tasks -> Checkpoint \cup {None}]
  /\ pass \in Pass
  /\ wire \subseteq Request
  /\ runs \in [Tasks -> Nat]
  /\ spent \in [faults : Nat, lapses : Nat, outages : Nat]

\* A run goes beyond its lease, and so may execute, only when the control plane
\* has recorded the acknowledgement of that lease, whatever was lost between
\* the two commits: a lost acknowledgement is never a permission to execute.
ExecutionIsAcknowledged ==
  \A t \in Tasks : disk[t] # None /\ disk[t].state # "leased" => dispatch[t].acked

\* A device works on one run at a time: after any crash, every pass resumes
\* the open run before it asks for another lease.
OneOpenRun ==
  \A t, u \in Tasks :
    /\ disk[t] # None /\ disk[t].state \in OpenStates
    /\ disk[u] # None /\ disk[u].state \in OpenStates
    => t = u

\* Both sides hold the same evidence.  A result the control plane stored is the
\* one the client keeps, so a retried submission never conflicts with it; a
\* run marked as synced has its result stored.
ResultsAgree ==
  \A t \in Tasks :
    /\ result[t] # None => disk[t] # None /\ disk[t].result = result[t]
    /\ disk[t] # None /\ disk[t].state = "synced" => result[t] = disk[t].result

-----------------------------------------------------------------------------
(* Why they hold: what the pass, the wire and the two databases know of each other. *)

\* a pass waits for at most one request, and at the step that sent it
OneCall ==
  /\ \A r, q \in wire : r.mine /\ q.mine => r = q
  /\ \A r \in wire : r.mine =>
       /\ pass.reply = None
       /\ pass.at = CASE r.op = "open" -> "opening" [] r.op \in {"poll", "offer"} -> "polling"
                      [] r.op = "ack" -> "acking" [] r.op = "submit" -> "submitting"
       /\ r.op \in {"ack", "submit"} => r.task = pass.task

\* what is submitted, now or by a pass long gone, is what the client keeps
SubmitsWhatItKeeps ==
  \A r \in wire :
    /\ r.op \in {"offer", "ack", "submit"} => r.task \in Tasks
    /\ r.op = "submit" => /\ disk[r.task] # None /\ r.evidence # None
                          /\ disk[r.task].result = r.evidence

\* the checkpoint of the task a pass works on
WorkingState ==
  CASE pass.at = "acking" -> {"leased"}
    [] pass.at \in {"starting", "executing", "completing"} -> {"accepted", "running", "paused"}
    [] pass.at = "submitting" -> {"completed-pending-sync"}
    [] OTHER -> {}

PassKnowsItsTask ==
  /\ pass.at \in {"acking", "starting", "executing", "completing", "submitting"} =>
       /\ pass.task \in Tasks /\ disk[pass.task] # None
       /\ disk[pass.task].state \in WorkingState
  /\ pass.at \in {"starting", "executing", "completing"} => pass.reply = None
  /\ pass.at = "completing" => pass.evidence # None
  /\ pass.at = "acking" /\ pass.reply = [kind |-> "accepted"] => dispatch[pass.task].acked
  /\ pass.at = "submitting" /\ pass.reply = [kind |-> "stored"] =>
       result[pass.task] = disk[pass.task].result

ResultsWithCompletion ==
  \A t \in Tasks : disk[t] # None =>
    (disk[t].result # None <=> disk[t].state \in {"completed-pending-sync", "synced"})

\* nothing is open while the pass asks for work, and nothing but its task while it works
NothingElseOpen ==
  /\ pass.at \in {"polling", "acking"} => Pending = {}
  /\ pass.at \in {"starting", "executing", "completing", "submitting"} => Pending \subseteq {pass.task}

\* The inductive invariant: the safety properties above and the reasons for them.
DeviceInvariant ==
  /\ TypeOK /\ OneCall /\ SubmitsWhatItKeeps /\ PassKnowsItsTask
  /\ ResultsWithCompletion /\ NothingElseOpen
  /\ ExecutionIsAcknowledged /\ OneOpenRun /\ ResultsAgree

-----------------------------------------------------------------------------
\* A run whose result was saved is not executed again: what is pending is
\* submitted, however many passes it takes.
CompletedRunsStay ==
  [][\A t \in Tasks : disk[t] # None /\ disk[t].result # None => runs'[t] = runs[t]]_vars

\* Once acknowledged, a lease is final: no poll, however late it is handled and
\* whatever it read before its await, grants the task under another token.
AcknowledgedLeaseIsFinal ==
  [][\A t \in Tasks : dispatch[t].acked =>
       dispatch'[t].acked /\ dispatch'[t].attempt = dispatch[t].attempt]_vars

\* the result reached the control plane and the client knows it
Synced(t) == disk[t] # None /\ disk[t].state = "synced" /\ result[t] # None

\* the acknowledgement was recorded, and its answer lost: left to reconciliation
Ambiguous(t) == dispatch[t].acked /\ disk[t] # None /\ disk[t].state = "leased"

\* an expired plan keeps the journal from being restored, or the queue from being polled
ExpiryBlocks ==
  \/ \E t \in expired : disk[t] # None /\ disk[t].result = None
  \/ \E t \in expired : Oldest(t)

\* the journal holds the oldest task under an executor that is no longer the first choice
DriftBlocks ==
  \E t \in Tasks : Oldest(t) /\ disk[t] # None /\ ~Negotiated(disk[t].exec, Executors)

\* Every dispatched task is eventually executed and its result synced, unless
\* the device has come to a stop the code leaves to an operator: an ambiguous
\* acknowledgement, an expired plan, or an executor the lease no longer fits.
DispatchedTasksSettle ==
  \A t \in Tasks : <>[](\/ dispatch[t].state = "absent" \/ Synced(t)
                       \/ Ambiguous(t) \/ ExpiryBlocks \/ DriftBlocks)
=============================================================================

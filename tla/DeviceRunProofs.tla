--------------------------- MODULE DeviceRunProofs ---------------------------
(***************************************************************************)
(* Proofs about DeviceRun for every set of tasks, order of executors and   *)
(* set of outcomes, and every value of the bounds.                         *)
(***************************************************************************)
EXTENDS DeviceRun, TLAPS

-----------------------------------------------------------------------------
(* Type correctness *)

LEMMA IdleType == Idle \in Pass
BY DEF Idle, Pass, Waiting

\* What the statements of either side write into a row or a request
LEMMA DispatchUpdate ==
  ASSUME NEW row \in Dispatch
  PROVE  /\ [row EXCEPT !.state = "queued"] \in Dispatch
         /\ [row EXCEPT !.state = "leased", !.attempt = @ + 1, !.fresh = TRUE] \in Dispatch
         /\ [row EXCEPT !.acked = TRUE] \in Dispatch
         /\ [row EXCEPT !.fresh = FALSE] \in Dispatch
         /\ \A o \in Outcomes : [row EXCEPT !.state = RowState(o)] \in Dispatch
<1>1. [row EXCEPT !.state = "queued"] \in Dispatch
  BY DEF Dispatch
<1>2. [row EXCEPT !.state = "leased", !.attempt = @ + 1, !.fresh = TRUE] \in Dispatch
  <2>1. row.attempt + 1 \in Nat
    BY DEF Dispatch
  <2> QED BY <2>1 DEF Dispatch
<1>3. [row EXCEPT !.acked = TRUE] \in Dispatch
  BY DEF Dispatch
<1>4. [row EXCEPT !.fresh = FALSE] \in Dispatch
  BY DEF Dispatch
<1>5. \A o \in Outcomes : [row EXCEPT !.state = RowState(o)] \in Dispatch
  BY DEF Dispatch
<1> QED BY <1>1, <1>2, <1>3, <1>4, <1>5

LEMMA RequestUpdate ==
  ASSUME NEW req \in Request
  PROVE  /\ [req EXCEPT !.live = FALSE] \in Request
         /\ [req EXCEPT !.mine = FALSE] \in Request
         /\ \A t \in Tasks, a \in Nat :
              [req EXCEPT !.op = "offer", !.task = t, !.attempt = a] \in Request
BY DEF Request

LEMMA PassUpdate ==
  ASSUME NEW p \in Pass
  PROVE  /\ [p EXCEPT !.live = FALSE] \in Pass
         /\ \A reply \in Reply : [p EXCEPT !.reply = reply] \in Pass
         /\ \A live \in BOOLEAN, reply \in Reply \cup {None} :
              [p EXCEPT !.live = live, !.reply = reply] \in Pass
BY DEF Pass

\* Sending a request keeps the wire well-typed
LEMMA SendType ==
  ASSUME TypeOK, NEW op \in {"open", "poll", "ack", "submit"}, NEW t \in Tasks \cup {None},
         NEW a \in Nat, NEW e \in Evidence \cup {None}, Send(op, t, a, e)
  PROVE  wire' \subseteq Request
<1> DEFINE r == [op |-> op, mine |-> TRUE, live |-> pass.live, task |-> t, attempt |-> a, evidence |-> e]
<1>1. pass.live \in BOOLEAN
  BY DEF TypeOK, Pass
<1>2. r \in Request
  BY <1>1 DEF Request
<1> QED BY <1>2 DEF Send, TypeOK

\* Answering a request keeps the pass and the wire well-typed
LEMMA AnswerType ==
  ASSUME TypeOK, NEW req \in wire, NEW reply \in Reply, Answer(req, reply)
  PROVE  pass' \in Pass /\ wire' \subseteq Request
BY PassUpdate DEF Answer, TypeOK

LEMMA ReplyType ==
  /\ \A k \in {"opened", "empty", "refused", "accepted", "stored"} : [kind |-> k] \in Reply
  /\ \A t \in Tasks, a \in Nat : Lease(t, a) \in Reply
BY DEF Reply, Lease

LEMMA ReplyIsSome ==
  \A k \in {"opened", "empty", "refused", "accepted", "stored"} : [kind |-> k] # None
BY ReplyType, DeviceAssumption DEF DeviceAssumption

\* The server's steps keep the types
LEMMA HandleTypes ==
  ASSUME TypeOK, SubmitsWhatItKeeps, NEW req \in wire, Handle(req)
  PROVE  TypeOK'
<1>1. req \in Request /\ (req.op \in {"offer", "ack", "submit"} => req.task \in Tasks)
  BY DEF TypeOK, SubmitsWhatItKeeps
<1>2. UNCHANGED <<expired, disk, runs, spent>>
  BY DEF Handle
<1>3. SUFFICES /\ dispatch' \in [Tasks -> Dispatch]
               /\ queue' \in Seq(Tasks)
               /\ result' \in [Tasks -> Evidence \cup {None}]
               /\ pass' \in Pass /\ wire' \subseteq Request
  BY <1>2 DEF TypeOK, Pass
<1>4. CASE HandleOpen(req)
  <2>1. wire' \subseteq Request
    BY <1>4, RequestUpdate DEF HandleOpen, TypeOK
  <2>2. pass' \in Pass
    <3>1. req.mine \in BOOLEAN /\ pass.reply \in Reply \cup {None} /\ pass \in Pass
      BY <1>1 DEF TypeOK, Request, Pass
    <3> QED BY <1>4, <3>1, ReplyType, PassUpdate DEF HandleOpen
  <2> QED BY <1>4, <2>1, <2>2 DEF HandleOpen, server, TypeOK
<1>5. CASE HandlePoll(req)
  <2>1. CASE Refuse(req)
    BY <2>1, AnswerType, ReplyType DEF Refuse, server, TypeOK
  <2>2. CASE Answer(req, [kind |-> "empty"]) /\ UNCHANGED server
    BY <2>2, AnswerType, ReplyType DEF server, TypeOK
  <2>3. ASSUME NEW t \in Tasks, UNCHANGED <<server, pass>>,
               wire' = (wire \ {req}) \cup
                        {[req EXCEPT !.op = "offer", !.task = t,
                                     !.attempt = IF dispatch[t].fresh THEN dispatch[t].attempt ELSE 0]}
        PROVE  /\ UNCHANGED <<server, pass>> /\ wire' \subseteq Request
    <3>1. dispatch[t].attempt \in Nat
      BY DEF TypeOK, Dispatch
    <3>2. [req EXCEPT !.op = "offer", !.task = t,
                      !.attempt = IF dispatch[t].fresh THEN dispatch[t].attempt ELSE 0] \in Request
      BY <1>1, <3>1, RequestUpdate
    <3> QED BY <2>3, <3>2 DEF TypeOK
  <2> QED BY <1>5, <2>1, <2>2, <2>3 DEF HandlePoll, server, TypeOK, Pass
<1>6. CASE HandleOffer(req)
  <2>1. req.op = "offer" /\ req.task \in Tasks /\ req.attempt \in Nat /\ dispatch[req.task].attempt \in Nat
    BY <1>6, <1>1 DEF HandleOffer, TypeOK, Request, Dispatch
  <2>2. \E reply \in Reply : Answer(req, reply)
    BY <1>6, <2>1, ReplyType DEF HandleOffer
  <2>3. dispatch' \in [Tasks -> Dispatch]
    <3>1. CASE UNCHANGED dispatch
      BY <3>1 DEF TypeOK
    <3>2. CASE dispatch' = [dispatch EXCEPT ![req.task].state = "leased",
                                            ![req.task].attempt = @ + 1, ![req.task].fresh = TRUE]
      <4>1. dispatch[req.task] \in Dispatch
        BY <2>1 DEF TypeOK
      <4>2. dispatch' = [dispatch EXCEPT ![req.task] =
                           [dispatch[req.task] EXCEPT !.state = "leased", !.attempt = @ + 1, !.fresh = TRUE]]
        BY <3>2, <2>1, <4>1 DEF TypeOK, Dispatch
      <4> QED BY <4>1, <4>2, <2>1, DispatchUpdate DEF TypeOK
    <3> QED BY <1>6, <3>1, <3>2 DEF HandleOffer
  <2> QED BY <1>6, <2>2, <2>3, AnswerType DEF HandleOffer, TypeOK
<1>7. CASE HandleAck(req)
  <2>1. CASE Refuse(req)
    BY <2>1, AnswerType, ReplyType DEF Refuse, server, TypeOK
  <2>2. CASE /\ dispatch' = [dispatch EXCEPT ![req.task].acked = TRUE]
             /\ Answer(req, [kind |-> "accepted"])
             /\ UNCHANGED <<queue, result>>
    BY <2>2, AnswerType, ReplyType, DispatchUpdate DEF TypeOK
  <2> QED BY <1>7, <2>1, <2>2 DEF HandleAck
<1>8. CASE HandleSubmit(req)
  <2>1. CASE Refuse(req)
    BY <2>1, AnswerType, ReplyType DEF Refuse, server, TypeOK
  <2>2. CASE ~Refuse(req)
    <3>1. req.task \in Tasks /\ req.evidence \in Evidence /\ req.evidence.outcome \in Outcomes
      BY <1>8, <1>1 DEF HandleSubmit, SubmitsWhatItKeeps, Request, Evidence
    <3>2. Answer(req, [kind |-> "stored"]) /\ queue' = queue
      BY <1>8, <2>2 DEF HandleSubmit
    <3>3. result' \in [Tasks -> Evidence \cup {None}]
      BY <1>8, <2>2, <3>1 DEF HandleSubmit, TypeOK
    <3>4. dispatch' \in [Tasks -> Dispatch]
      <4>1. \/ dispatch' = dispatch
            \/ dispatch' = [dispatch EXCEPT ![req.task].state = RowState(req.evidence.outcome)]
        BY <1>8, <2>2 DEF HandleSubmit
      <4>2. dispatch[req.task] \in Dispatch
        BY <3>1 DEF TypeOK
      <4>3. [dispatch[req.task] EXCEPT !.state = RowState(req.evidence.outcome)] \in Dispatch
        BY <3>1, <4>2, DispatchUpdate
      <4> QED BY <4>1, <4>2, <4>3, <3>1 DEF TypeOK
    <3> QED BY <3>2, <3>3, <3>4, AnswerType, ReplyType DEF TypeOK
  <2> QED BY <2>1, <2>2
<1> QED BY <1>4, <1>5, <1>6, <1>7, <1>8 DEF Handle

\* What the client's steps write into its memory and its checkpoints
LEMMA CheckpointUpdate ==
  ASSUME NEW c \in Checkpoint
  PROVE  /\ \A s \in {"leased", "synced"} \cup OpenStates : [c EXCEPT !.state = s] \in Checkpoint
         /\ \A e \in Evidence : [c EXCEPT !.state = "completed-pending-sync", !.result = e] \in Checkpoint
<1>1. \A s \in {"leased", "synced"} \cup OpenStates : [c EXCEPT !.state = s] \in Checkpoint
  BY DEF Checkpoint
<1>2. \A e \in Evidence : [c EXCEPT !.state = "completed-pending-sync", !.result = e] \in Checkpoint
  BY DEF Checkpoint, OpenStates
<1> QED BY <1>1, <1>2

LEMMA PassSteps ==
  ASSUME NEW p \in Pass
  PROVE  /\ \A t \in Tasks, at \in {"starting", "submitting"} :
              [p EXCEPT !.at = at, !.task = t, !.reply = None] \in Pass
         /\ [p EXCEPT !.at = "polling", !.reply = None] \in Pass
         /\ \A t \in Tasks, a \in Nat :
              [p EXCEPT !.at = "acking", !.task = t, !.attempt = a, !.reply = None] \in Pass
         /\ [p EXCEPT !.at = "starting", !.reply = None] \in Pass
         /\ [p EXCEPT !.at = "executing"] \in Pass
         /\ \A e \in Evidence : [p EXCEPT !.at = "completing", !.evidence = e] \in Pass
         /\ [p EXCEPT !.at = "submitting", !.evidence = None] \in Pass
<1>1. \A t \in Tasks, at \in {"starting", "submitting"} :
        [p EXCEPT !.at = at, !.task = t, !.reply = None] \in Pass
  BY DEF Pass, Waiting
<1>2. [p EXCEPT !.at = "polling", !.reply = None] \in Pass
  BY DEF Pass, Waiting
<1>3. \A t \in Tasks, a \in Nat :
        [p EXCEPT !.at = "acking", !.task = t, !.attempt = a, !.reply = None] \in Pass
  BY DEF Pass, Waiting
<1>4. [p EXCEPT !.at = "starting", !.reply = None] \in Pass
  BY DEF Pass, Waiting
<1>5. [p EXCEPT !.at = "executing"] \in Pass
  BY DEF Pass, Waiting
<1>6. \A e \in Evidence : [p EXCEPT !.at = "completing", !.evidence = e] \in Pass
  BY DEF Pass, Waiting
<1>7. [p EXCEPT !.at = "submitting", !.evidence = None] \in Pass
  BY DEF Pass, Waiting
<1> QED BY <1>1, <1>2, <1>3, <1>4, <1>5, <1>6, <1>7

\* Charging a bound
LEMMA SpentUpdate ==
  ASSUME NEW b \in [faults : Nat, lapses : Nat, outages : Nat]
  PROVE  /\ [b EXCEPT !.faults = @ + 1] \in [faults : Nat, lapses : Nat, outages : Nat]
         /\ [b EXCEPT !.lapses = @ + 1] \in [faults : Nat, lapses : Nat, outages : Nat]
         /\ [b EXCEPT !.outages = @ + 1] \in [faults : Nat, lapses : Nat, outages : Nat]
<1>1. b.faults + 1 \in Nat /\ b.lapses + 1 \in Nat /\ b.outages + 1 \in Nat
  OBVIOUS
<1> QED BY <1>1

\* The client's steps keep the types
LEMMA PassStepTypes ==
  ASSUME TypeOK, PassKnowsItsTask, PassStep
  PROVE  TypeOK'
<1>1. pass \in Pass /\ DeviceAssumption
  BY DeviceAssumption DEF TypeOK
<1>2. ASSUME NEW ready \in SUBSET Executors, StartPass(ready) PROVE TypeOK'
  <2>1. pass' \in Pass
    BY <1>2, <1>1 DEF StartPass, Idle, Pass, Waiting, TypeOK
  <2>2. wire' \subseteq Request
    BY <1>2, SendType DEF StartPass
  <2>3. spent' \in [faults : Nat, lapses : Nat, outages : Nat]
    BY <1>2, SpentUpdate DEF StartPass, TypeOK
  <2> QED BY <1>2, <2>1, <2>2, <2>3 DEF StartPass, server, TypeOK
<1>3. ASSUME NEW t \in Tasks, Resume(t) PROVE TypeOK'
  <2>1. pass' \in Pass
    BY <1>3, <1>1, PassSteps DEF Resume
  <2>2. wire' \subseteq Request
    <3>1. CASE Send("submit", t, 0, disk[t].result)
      <4>1. disk[t] \in Checkpoint
        BY <1>3 DEF Resume, First, Pending, TypeOK
      <4>2. disk[t].result \in Evidence \cup {None}
        BY <4>1 DEF Checkpoint
      <4> QED BY <3>1, <4>2, SendType
    <3> QED BY <1>3, <3>1 DEF Resume, TypeOK
  <2> QED BY <1>3, <2>1, <2>2 DEF Resume, server, TypeOK
<1>4. ASSUME NEW x \in Executors, AcceptLease(x) PROVE TypeOK'
  <2>1. pass.reply.task \in Tasks /\ pass.reply.attempt \in Nat
    BY <1>4, <1>1 DEF AcceptLease, LeaseOffered, Pass, Reply
  <2>2. pass' \in Pass
    BY <1>4, <1>1, <2>1, PassSteps DEF AcceptLease
  <2>3. wire' \subseteq Request
    BY <1>4, <2>1, SendType DEF AcceptLease
  <2>4. disk' \in [Tasks -> Checkpoint \cup {None}]
    BY <1>4, <2>1 DEF AcceptLease, Checkpoint, TypeOK
  <2> QED BY <1>4, <2>2, <2>3, <2>4 DEF AcceptLease, server, TypeOK
<1>5. CASE RestoreFails \/ LeaseRejected \/ PassEnds
  BY <1>5, IdleType DEF RestoreFails, LeaseRejected, PassEnds, EndPass, server, TypeOK
<1>6. CASE Poll
  <2>1. pass' \in Pass
    BY <1>6, <1>1, PassSteps DEF Poll
  <2>2. wire' \subseteq Request
    BY <1>6, SendType DEF Poll
  <2> QED BY <1>6, <2>1, <2>2 DEF Poll, server, TypeOK
<1>7. ASSUME pass.task \in Tasks, disk[pass.task] # None
      PROVE  disk[pass.task] \in Checkpoint
  BY <1>7 DEF TypeOK
<1>8. CASE MarkAcknowledged
  <2>1. pass.task \in Tasks /\ disk[pass.task] \in Checkpoint
    BY <1>8, <1>7 DEF MarkAcknowledged, PassKnowsItsTask
  <2>2. [disk[pass.task] EXCEPT !.state = "accepted"] \in Checkpoint
    BY <2>1, CheckpointUpdate DEF OpenStates
  <2>3. disk' \in [Tasks -> Checkpoint \cup {None}]
    BY <1>8, <2>1, <2>2 DEF MarkAcknowledged, TypeOK
  <2>4. pass' \in Pass
    BY <1>8, <1>1, PassSteps DEF MarkAcknowledged
  <2> QED BY <1>8, <2>3, <2>4 DEF MarkAcknowledged, server, TypeOK
<1>9. CASE Begin
  <2>1. pass.task \in Tasks /\ disk[pass.task] \in Checkpoint
    BY <1>9, <1>7 DEF Begin, PassKnowsItsTask
  <2>2. [disk[pass.task] EXCEPT !.state = "running"] \in Checkpoint
    BY <2>1, CheckpointUpdate DEF OpenStates
  <2>3. disk' \in [Tasks -> Checkpoint \cup {None}]
    BY <1>9, <2>1, <2>2 DEF Begin, TypeOK
  <2>4. pass' \in Pass
    BY <1>9, <1>1, PassSteps DEF Begin
  <2> QED BY <1>9, <2>3, <2>4 DEF Begin, server, TypeOK
<1>10. CASE CompletePendingSync
  <2>1. pass.task \in Tasks /\ disk[pass.task] \in Checkpoint /\ pass.evidence \in Evidence
    BY <1>10, <1>1, <1>7 DEF CompletePendingSync, PassKnowsItsTask, Pass
  <2>2. [disk[pass.task] EXCEPT !.state = "completed-pending-sync", !.result = pass.evidence] \in Checkpoint
    BY <2>1, CheckpointUpdate
  <2>3. disk' = [disk EXCEPT ![pass.task] =
                   [disk[pass.task] EXCEPT !.state = "completed-pending-sync", !.result = pass.evidence]]
    BY <1>10, <2>1 DEF CompletePendingSync, TypeOK, Checkpoint
  <2>4. disk' \in [Tasks -> Checkpoint \cup {None}]
    BY <2>1, <2>2, <2>3 DEF TypeOK
  <2>5. pass' \in Pass
    BY <1>10, <1>1, PassSteps DEF CompletePendingSync
  <2>6. wire' \subseteq Request
    BY <1>10, <2>1, SendType DEF CompletePendingSync
  <2> QED BY <1>10, <2>4, <2>5, <2>6 DEF CompletePendingSync, server, TypeOK
<1>11. CASE MarkSynced
  <2>1. pass.task \in Tasks /\ disk[pass.task] \in Checkpoint
    BY <1>11, <1>7 DEF MarkSynced, PassKnowsItsTask
  <2>2. [disk[pass.task] EXCEPT !.state = "synced"] \in Checkpoint
    BY <2>1, CheckpointUpdate
  <2>3. disk' \in [Tasks -> Checkpoint \cup {None}]
    BY <1>11, <2>1, <2>2 DEF MarkSynced, TypeOK
  <2> QED BY <1>11, <2>3, IdleType DEF MarkSynced, EndPass, server, TypeOK
<1>12. ASSUME NEW o \in Outcomes, ExecutorReturns(o) PROVE TypeOK'
  <2>1. pass.task \in Tasks
    BY <1>12 DEF ExecutorReturns, PassKnowsItsTask
  <2>2. runs' \in [Tasks -> Nat]
    BY <1>12, <2>1 DEF ExecutorReturns, TypeOK
  <2>3. [outcome |-> o, run |-> runs[pass.task] + 1] \in Evidence
    BY <2>1 DEF Evidence, TypeOK
  <2>4. pass' \in Pass
    BY <1>12, <1>1, <2>3, PassSteps DEF ExecutorReturns
  <2> QED BY <1>12, <2>2, <2>4 DEF ExecutorReturns, server, TypeOK
<1> QED BY <1>2, <1>3, <1>4, <1>5, <1>6, <1>8, <1>9, <1>10, <1>11, <1>12 DEF PassStep

\* The steps around them keep the types
LEMMA DisturbanceTypes ==
  ASSUME TypeOK, PassKnowsItsTask,
         \/ \E t \in Tasks : Enqueue(t) \/ LeaseLapses(t) \/ PlanExpires(t)
         \/ ExecutorThrows \/ CallTimesOut \/ ClientCrashes \/ SessionLapses
  PROVE  TypeOK'
<1>1. ASSUME NEW t \in Tasks, Enqueue(t) PROVE TypeOK'
  <2>1. dispatch[t] \in Dispatch /\ dispatch' = [dispatch EXCEPT ![t] = [dispatch[t] EXCEPT !.state = "queued"]]
    BY <1>1 DEF Enqueue, TypeOK
  <2>2. dispatch' \in [Tasks -> Dispatch]
    BY <2>1, DispatchUpdate DEF TypeOK
  <2>3. queue' \in Seq(Tasks)
    BY <1>1 DEF Enqueue, TypeOK
  <2> QED BY <1>1, <2>2, <2>3 DEF Enqueue, TypeOK
<1>2. ASSUME NEW t \in Tasks, LeaseLapses(t) PROVE TypeOK'
  <2>1. dispatch[t] \in Dispatch /\ dispatch' = [dispatch EXCEPT ![t] = [dispatch[t] EXCEPT !.fresh = FALSE]]
    BY <1>2 DEF LeaseLapses, TypeOK
  <2>2. dispatch' \in [Tasks -> Dispatch]
    BY <2>1, DispatchUpdate DEF TypeOK
  <2>3. spent' \in [faults : Nat, lapses : Nat, outages : Nat]
    BY <1>2, SpentUpdate DEF LeaseLapses, TypeOK
  <2> QED BY <1>2, <2>2, <2>3 DEF LeaseLapses, TypeOK
<1>3. ASSUME NEW t \in Tasks, PlanExpires(t) PROVE TypeOK'
  BY <1>3 DEF PlanExpires, server, TypeOK
<1>4. CASE ExecutorThrows
  <2>1. pass.task \in Tasks /\ disk[pass.task] \in Checkpoint
    BY <1>4 DEF ExecutorThrows, PassKnowsItsTask, TypeOK
  <2>2. [disk[pass.task] EXCEPT !.state = "paused"] \in Checkpoint
    BY <2>1, CheckpointUpdate DEF OpenStates
  <2>3. disk' \in [Tasks -> Checkpoint \cup {None}]
    BY <1>4, <2>1, <2>2 DEF ExecutorThrows, TypeOK
  <2>4. spent' \in [faults : Nat, lapses : Nat, outages : Nat]
    BY <1>4, SpentUpdate DEF ExecutorThrows, TypeOK
  <2> QED BY <1>4, <2>3, <2>4, IdleType DEF ExecutorThrows, EndPass, server, TypeOK
<1>5. CASE Abandon
  <2>1. wire' \subseteq Request
    BY <1>5, RequestUpdate DEF Abandon, TypeOK
  <2>2. spent' \in [faults : Nat, lapses : Nat, outages : Nat]
    BY <1>5, SpentUpdate DEF Abandon, TypeOK
  <2> QED BY <1>5, <2>1, <2>2, IdleType DEF Abandon, EndPass, server, TypeOK
<1>6. CASE SessionLapses
  <2>1. wire' \subseteq Request
    BY <1>6, RequestUpdate DEF SessionLapses, TypeOK
  <2>2. spent' \in [faults : Nat, lapses : Nat, outages : Nat]
    BY <1>6, SpentUpdate DEF SessionLapses, TypeOK
  <2>3. pass' \in Pass
    BY <1>6, PassUpdate DEF SessionLapses, TypeOK
  <2> QED BY <1>6, <2>1, <2>2, <2>3 DEF SessionLapses, server, TypeOK
<1> QED BY <1>1, <1>2, <1>3, <1>4, <1>5, <1>6 DEF CallTimesOut, ClientCrashes

-----------------------------------------------------------------------------
(* What the two sides know of each other *)

Related ==
  /\ OneCall /\ SubmitsWhatItKeeps /\ PassKnowsItsTask
  /\ ResultsWithCompletion /\ NothingElseOpen
  /\ ExecutionIsAcknowledged /\ OneOpenRun /\ ResultsAgree

\* a result that is on disk stays there
ResultsStay ==
  \A t \in Tasks : disk[t] # None /\ disk[t].result # None =>
    disk'[t] # None /\ disk'[t].result = disk[t].result

\* A pass that is not waiting has no call under way
LEMMA NoCall ==
  ASSUME TypeOK, OneCall, pass.reply # None \/ pass.at \notin Waiting
  PROVE  \A r \in wire : ~r.mine
<1> SUFFICES ASSUME NEW r \in wire, r.mine PROVE FALSE
  OBVIOUS
<1>1. r.op \in {"open", "poll", "offer", "ack", "submit"}
  BY DEF TypeOK, Request
<1> QED BY <1>1 DEF OneCall, Waiting

\* A pass that has no call under way may send one
LEMMA OneCallSent ==
  ASSUME \A r \in wire : ~r.mine,
         NEW op \in {"open", "poll", "ack", "submit"}, NEW t, NEW a, NEW e, Send(op, t, a, e),
         pass'.reply = None,
         pass'.at = CASE op = "open" -> "opening" [] op = "poll" -> "polling"
                      [] op = "ack" -> "acking" [] op = "submit" -> "submitting",
         op \in {"ack", "submit"} => t = pass'.task
  PROVE  OneCall'
<1> DEFINE r == [op |-> op, mine |-> TRUE, live |-> pass.live, task |-> t, attempt |-> a, evidence |-> e]
<1>1. wire' = wire \cup {r}
  BY DEF Send
<1>2. \A q \in wire' : q.mine => q = r
  BY <1>1
<1>3. r.op = op /\ r.task = t
  OBVIOUS
<1> HIDE DEF r
<1> QED BY <1>2, <1>3 DEF OneCall

\* What is submitted stays what is kept
LEMMA SubmissionsStay ==
  ASSUME SubmitsWhatItKeeps, ResultsStay, wire' \subseteq wire
  PROVE  SubmitsWhatItKeeps'
BY DEF SubmitsWhatItKeeps, ResultsStay

LEMMA SubmissionsSent ==
  ASSUME SubmitsWhatItKeeps, ResultsStay,
         NEW op \in {"open", "poll", "ack", "submit"}, NEW t, NEW a, NEW e, Send(op, t, a, e),
         op \in {"ack", "submit"} => t \in Tasks,
         op = "submit" => disk'[t] # None /\ e # None /\ disk'[t].result = e
  PROVE  SubmitsWhatItKeeps'
<1> DEFINE r == [op |-> op, mine |-> TRUE, live |-> pass.live, task |-> t, attempt |-> a, evidence |-> e]
<1>1. wire' = wire \cup {r}
  BY DEF Send
<1>2. r.op = op /\ r.task = t /\ r.evidence = e
  OBVIOUS
<1> HIDE DEF r
<1> QED BY <1>1, <1>2 DEF SubmitsWhatItKeeps, ResultsStay

\* One checkpoint takes another state
LEMMA CheckpointMoved ==
  ASSUME TypeOK, NEW t \in Tasks, disk[t] # None, NEW s \in {"leased", "synced"} \cup OpenStates,
         disk' = [disk EXCEPT ![t].state = s]
  PROVE  /\ \A u \in Tasks : u # t => disk'[u] = disk[u]
         /\ disk'[t] # None /\ disk'[t].state = s /\ disk'[t].result = disk[t].result
<1>1. disk[t] \in Checkpoint
  BY DEF TypeOK
<1>2. disk'[t] = [disk[t] EXCEPT !.state = s]
  BY DEF TypeOK
<1>3. disk'[t] \in Checkpoint
  BY <1>1, <1>2, CheckpointUpdate
<1>4. disk'[t] # None
  BY <1>3, DeviceAssumption DEF DeviceAssumption
<1>5. disk'[t].state = s /\ disk'[t].result = disk[t].result
  BY <1>1, <1>2 DEF Checkpoint
<1> QED BY <1>4, <1>5 DEF TypeOK

\* A pass that ends without a write leaves everything related
LEMMA PassEnded ==
  ASSUME TypeOK, Related, EndPass, SubmitsWhatItKeeps', \A r \in wire' : ~r.mine,
         UNCHANGED <<dispatch, result, disk>>
  PROVE  Related'
<1>1. pass'.at = "idle" /\ OneCall'
  BY DEF EndPass, Idle, OneCall
<1>2. PassKnowsItsTask' /\ NothingElseOpen'
  BY <1>1 DEF PassKnowsItsTask, NothingElseOpen
<1>3. ResultsWithCompletion' /\ ExecutionIsAcknowledged' /\ OneOpenRun' /\ ResultsAgree'
  BY DEF Related, ResultsWithCompletion, ExecutionIsAcknowledged, OneOpenRun, ResultsAgree
<1> QED BY <1>1, <1>2, <1>3 DEF Related

\* A step that leaves the databases alone relates what it relates
LEMMA DatabasesKept ==
  ASSUME Related, UNCHANGED <<disk, dispatch, result>>
  PROVE  /\ ResultsStay
         /\ ResultsWithCompletion' /\ ExecutionIsAcknowledged' /\ OneOpenRun' /\ ResultsAgree'
BY DEF Related, ResultsStay, ResultsWithCompletion, ExecutionIsAcknowledged, OneOpenRun, ResultsAgree

-----------------------------------------------------------------------------
(* The client's steps *)

LEMMA StartPassRelates ==
  ASSUME TypeOK, Related, NEW ready \in SUBSET Executors, StartPass(ready)
  PROVE  Related'
<1>1. UNCHANGED <<disk, dispatch, result>> /\ Send("open", None, 0, None)
  BY DEF StartPass, server
<1>2. pass'.at = "opening" /\ pass'.reply = None
  BY DEF StartPass, Idle
<1>3. \A r \in wire : ~r.mine
  BY NoCall DEF StartPass, Waiting, Related
<1>4. OneCall'
  BY <1>1, <1>2, <1>3, OneCallSent
<1>5. SubmitsWhatItKeeps'
  BY <1>1, DatabasesKept, SubmissionsSent DEF Related
<1>6. PassKnowsItsTask' /\ NothingElseOpen'
  BY <1>2 DEF PassKnowsItsTask, NothingElseOpen
<1> QED BY <1>1, <1>4, <1>5, <1>6, DatabasesKept DEF Related

LEMMA ResumeRelates ==
  ASSUME TypeOK, Related, NEW t \in Tasks, Resume(t)
  PROVE  Related'
<1>1. UNCHANGED <<disk, dispatch, result>>
  BY DEF Resume, server
<1>2. \A r \in wire : ~r.mine
  BY NoCall, ReplyIsSome DEF Resume, Opened, Related
<1>3. disk[t] # None /\ disk[t].state \in OpenStates /\ t \in Pending /\ pass \in Pass
  BY DEF Resume, First, Pending, TypeOK
<1>4. Pending \subseteq {t}
  BY <1>3 DEF Related, OneOpenRun, Pending
<1>5. CASE disk[t].state = "completed-pending-sync"
  <2>1. pass'.at = "submitting" /\ pass'.task = t /\ pass'.reply = None /\ Send("submit", t, 0, disk[t].result)
    BY <1>3, <1>5 DEF Resume, Pass
  <2>2. disk[t].result # None
    BY <1>3, <1>5 DEF Related, ResultsWithCompletion
  <2>3. OneCall'
    BY <1>2, <2>1, OneCallSent
  <2>4. SubmitsWhatItKeeps'
    BY <1>1, <1>3, <2>1, <2>2, DatabasesKept, SubmissionsSent DEF Related
  <2>5. PassKnowsItsTask'
    BY <1>1, <1>3, <1>5, <2>1, ReplyIsSome DEF PassKnowsItsTask, WorkingState
  <2>6. NothingElseOpen'
    BY <1>1, <1>4, <2>1 DEF NothingElseOpen, Pending
  <2> QED BY <1>1, <2>3, <2>4, <2>5, <2>6, DatabasesKept DEF Related
<1>6. CASE disk[t].state # "completed-pending-sync"
  <2>1. pass'.at = "starting" /\ pass'.task = t /\ pass'.reply = None /\ wire' = wire
    BY <1>3, <1>6 DEF Resume, Pass
  <2>2. OneCall'
    BY <1>2, <2>1 DEF OneCall
  <2>3. SubmitsWhatItKeeps'
    BY <1>1, <2>1, DatabasesKept, SubmissionsStay DEF Related
  <2>4. disk[t].state \in {"accepted", "running", "paused"}
    BY <1>3, <1>6 DEF OpenStates
  <2>5. PassKnowsItsTask'
    BY <1>1, <1>3, <2>1, <2>4 DEF PassKnowsItsTask, WorkingState
  <2>6. NothingElseOpen'
    BY <1>1, <1>4, <2>1 DEF NothingElseOpen, Pending
  <2> QED BY <1>1, <2>2, <2>3, <2>5, <2>6, DatabasesKept DEF Related
<1> QED BY <1>5, <1>6

LEMMA PollRelates ==
  ASSUME TypeOK, Related, Poll
  PROVE  Related'
<1>1. UNCHANGED <<disk, dispatch, result>> /\ Send("poll", None, 0, None) /\ Pending = {}
  BY DEF Poll, server
<1>2. pass'.at = "polling" /\ pass'.reply = None
  BY DEF Poll, Pass, TypeOK
<1>3. \A r \in wire : ~r.mine
  BY NoCall, ReplyIsSome DEF Poll, Opened, Related
<1>4. OneCall'
  BY <1>1, <1>2, <1>3, OneCallSent
<1>5. SubmitsWhatItKeeps'
  BY <1>1, DatabasesKept, SubmissionsSent DEF Related
<1>6. PassKnowsItsTask' /\ NothingElseOpen'
  BY <1>1, <1>2 DEF PassKnowsItsTask, NothingElseOpen, Pending
<1> QED BY <1>1, <1>4, <1>5, <1>6, DatabasesKept DEF Related

LEMMA EndingsRelate ==
  ASSUME TypeOK, Related, RestoreFails \/ LeaseRejected \/ PassEnds
  PROVE  Related'
<1>1. /\ EndPass /\ UNCHANGED <<disk, dispatch, result, wire>>
      /\ pass.reply # None
  <2>1. CASE RestoreFails
    BY <2>1, ReplyIsSome DEF RestoreFails, Opened, server
  <2>2. CASE LeaseRejected
    BY <2>2 DEF LeaseRejected, LeaseOffered, server
  <2>3. CASE PassEnds
    BY <2>3 DEF PassEnds, server
  <2> QED BY <2>1, <2>2, <2>3
<1>2. \A r \in wire' : ~r.mine
  BY <1>1, NoCall DEF Related
<1>3. SubmitsWhatItKeeps'
  BY <1>1, DatabasesKept, SubmissionsStay DEF Related
<1> QED BY <1>1, <1>2, <1>3, PassEnded

LEMMA AcceptLeaseRelates ==
  ASSUME TypeOK, Related, NEW x \in Executors, AcceptLease(x)
  PROVE  Related'
<1> DEFINE t == pass.reply.task
           c == [state |-> "leased", exec |-> x, result |-> None]
<1>1. t \in Tasks /\ pass.at = "polling" /\ pass.reply # None /\ pass \in Pass
  BY DEF AcceptLease, LeaseOffered, Pass, Reply, TypeOK
<1>2. c \in Checkpoint /\ c # None /\ c.state = "leased" /\ c.result = None
  BY DeviceAssumption DEF DeviceAssumption, Checkpoint
<1>3. /\ disk'[t] = c /\ \A u \in Tasks : u # t => disk'[u] = disk[u]
      /\ UNCHANGED <<dispatch, result>>
  BY <1>1 DEF AcceptLease, TypeOK, server
<1>4. disk[t] # None => disk[t].state = "leased" /\ disk[t].result = None
  BY <1>1 DEF AcceptLease, Acceptable, Related, ResultsWithCompletion
<1>5. pass'.at = "acking" /\ pass'.task = t /\ pass'.reply = None
  BY <1>1 DEF AcceptLease, Pass
<1>6. ResultsStay
  BY <1>3, <1>4 DEF ResultsStay
<1>7. Pending = {} /\ Pending' = {}
  BY <1>1, <1>2, <1>3 DEF Related, NothingElseOpen, Pending, OpenStates
<1> HIDE DEF c
<1>8. OneCall'
  <2>1. \A r \in wire : ~r.mine
    BY <1>1, NoCall DEF Related
  <2> QED BY <1>5, <2>1, OneCallSent DEF AcceptLease
<1>9. SubmitsWhatItKeeps'
  BY <1>1, <1>6, SubmissionsSent DEF AcceptLease, Related
<1>10. PassKnowsItsTask'
  BY <1>1, <1>2, <1>3, <1>5, ReplyIsSome DEF PassKnowsItsTask, WorkingState
<1>11. ResultsWithCompletion' /\ ExecutionIsAcknowledged' /\ ResultsAgree'
  BY <1>1, <1>2, <1>3, <1>4
  DEF Related, ResultsWithCompletion, ExecutionIsAcknowledged, ResultsAgree
<1>12. NothingElseOpen' /\ OneOpenRun'
  BY <1>5, <1>7 DEF NothingElseOpen, OneOpenRun, Pending
<1> QED BY <1>8, <1>9, <1>10, <1>11, <1>12 DEF Related

\* The journal moves the acknowledged run of a pass that has no call under way
LEMMA RunMoves ==
  ASSUME TypeOK, Related, NEW s \in {"accepted", "running", "paused"},
         pass.at \in {"acking", "starting", "executing"}, dispatch[pass.task].acked,
         pass.reply # None \/ pass.at \notin Waiting,
         disk' = [disk EXCEPT ![pass.task].state = s],
         \/ EndPass
         \/ pass'.at \in {"starting", "executing"} /\ pass'.task = pass.task /\ pass'.reply = None,
         UNCHANGED <<dispatch, result, wire>>
  PROVE  Related'
<1> DEFINE t == pass.task
<1>1. t \in Tasks /\ disk[t] # None /\ disk[t].state \in {"leased", "accepted", "running", "paused"}
  BY DEF Related, PassKnowsItsTask, WorkingState
<1>2. /\ \A u \in Tasks : u # t => disk'[u] = disk[u]
      /\ disk'[t] # None /\ disk'[t].state = s /\ disk'[t].result = disk[t].result
  BY <1>1, CheckpointMoved DEF OpenStates
<1>3. disk[t].result = None
  BY <1>1 DEF Related, ResultsWithCompletion
<1>4. \A r \in wire : ~r.mine
  BY NoCall DEF Related
<1>5. ResultsStay
  BY <1>2 DEF ResultsStay
<1>6. pass'.at \in {"idle", "starting", "executing"} /\ (pass'.at # "idle" => pass'.task = t /\ pass'.reply = None)
  BY DEF EndPass, Idle
<1>7. Pending' \subseteq {t}
  BY <1>2 DEF Related, NothingElseOpen, Pending
<1> HIDE DEF t
<1>8. OneCall'
  BY <1>4 DEF OneCall
<1>9. SubmitsWhatItKeeps'
  BY <1>5, SubmissionsStay DEF Related
<1>10. PassKnowsItsTask'
  BY <1>1, <1>2, <1>6 DEF PassKnowsItsTask, WorkingState
<1>11. ResultsWithCompletion' /\ ResultsAgree'
  <2>1. \A u \in Tasks : disk'[u] # None => disk[u] # None /\ disk'[u].result = disk[u].result
    BY <1>1, <1>2
  <2>2. \A u \in Tasks : disk'[u] # None => disk'[u].state = disk[u].state \/ u = t
    BY <1>2
  <2>3. ResultsWithCompletion'
    BY <1>2, <1>3, <2>1, <2>2 DEF Related, ResultsWithCompletion
  <2>4. ResultsAgree'
    BY <1>2, <1>3, <1>5, <2>1, <2>2 DEF Related, ResultsAgree, ResultsStay
  <2> QED BY <2>3, <2>4
<1>12. ExecutionIsAcknowledged'
  BY <1>2 DEF Related, ExecutionIsAcknowledged, t
<1>13. NothingElseOpen' /\ OneOpenRun'
  BY <1>6, <1>7 DEF NothingElseOpen, OneOpenRun, Pending
<1> QED BY <1>8, <1>9, <1>10, <1>11, <1>12, <1>13 DEF Related

LEMMA RunStepsRelate ==
  ASSUME TypeOK, Related, MarkAcknowledged \/ Begin \/ ExecutorThrows
  PROVE  Related'
<1>1. CASE MarkAcknowledged
  <2>1. pass.reply # None /\ dispatch[pass.task].acked
    BY <1>1, ReplyIsSome DEF MarkAcknowledged, Related, PassKnowsItsTask
  <2>2. pass'.at = "starting" /\ pass'.task = pass.task /\ pass'.reply = None
    BY <1>1 DEF MarkAcknowledged, TypeOK, Pass
  <2> QED BY <1>1, <2>1, <2>2, RunMoves DEF MarkAcknowledged, server
<1>2. ASSUME pass.at \in {"starting", "executing"} PROVE dispatch[pass.task].acked
  BY <1>2 DEF Related, PassKnowsItsTask, WorkingState, ExecutionIsAcknowledged
<1>3. CASE Begin
  <2>1. pass'.at = "executing" /\ pass'.task = pass.task /\ pass'.reply = None
    BY <1>3 DEF Begin, TypeOK, Pass, Related, PassKnowsItsTask
  <2> QED BY <1>2, <1>3, <2>1, RunMoves DEF Begin, Waiting, server
<1>4. CASE ExecutorThrows
  BY <1>2, <1>4, RunMoves DEF ExecutorThrows, Waiting, server
<1> QED BY <1>1, <1>3, <1>4

LEMMA ExecutorReturnsRelates ==
  ASSUME TypeOK, Related, NEW o \in Outcomes, ExecutorReturns(o)
  PROVE  Related'
<1> DEFINE e == [outcome |-> o, run |-> runs[pass.task] + 1]
<1>1. UNCHANGED <<disk, dispatch, result, wire>>
  BY DEF ExecutorReturns, server
<1>2. /\ pass.at = "executing" /\ pass'.at = "completing" /\ pass'.task = pass.task
      /\ pass'.evidence = e /\ pass'.reply = None
  BY DEF ExecutorReturns, TypeOK, Pass, Related, PassKnowsItsTask
<1>3. \A r \in wire : ~r.mine
  BY <1>2, NoCall DEF Related, Waiting
<1>4. pass.task \in Tasks /\ disk[pass.task] # None /\ disk[pass.task].state \in {"accepted", "running", "paused"}
  BY <1>2 DEF Related, PassKnowsItsTask, WorkingState
<1>5. e # None
  <2>1. runs[pass.task] + 1 \in Nat \ {0}
    BY <1>4 DEF TypeOK
  <2>2. e \in Evidence
    BY <2>1 DEF Evidence
  <2> QED BY <2>2, DeviceAssumption DEF DeviceAssumption
<1> HIDE DEF e
<1>6. OneCall'
  BY <1>1, <1>3 DEF OneCall
<1>7. SubmitsWhatItKeeps'
  BY <1>1, DatabasesKept, SubmissionsStay DEF Related
<1>8. PassKnowsItsTask'
  BY <1>1, <1>2, <1>4, <1>5 DEF PassKnowsItsTask, WorkingState
<1>9. NothingElseOpen'
  BY <1>1, <1>2 DEF Related, NothingElseOpen, Pending
<1> QED BY <1>1, <1>6, <1>7, <1>8, <1>9, DatabasesKept DEF Related

LEMMA CompletePendingSyncRelates ==
  ASSUME TypeOK, Related, CompletePendingSync
  PROVE  Related'
<1> DEFINE t == pass.task
<1>1. /\ t \in Tasks /\ disk[t] # None /\ disk[t].state \in {"accepted", "running", "paused"}
      /\ pass.at = "completing" /\ pass.evidence # None
  BY DEF CompletePendingSync, Related, PassKnowsItsTask, WorkingState
<1>2. disk[t] \in Checkpoint /\ pass.evidence \in Evidence
  BY <1>1 DEF TypeOK, Pass
<1>3. disk'[t] = [disk[t] EXCEPT !.state = "completed-pending-sync", !.result = pass.evidence]
  BY <1>1, <1>2 DEF CompletePendingSync, TypeOK, Checkpoint
<1>4. disk'[t] # None
  <2>1. disk'[t] \in Checkpoint
    BY <1>2, <1>3, CheckpointUpdate
  <2> QED BY <2>1, DeviceAssumption DEF DeviceAssumption
<1>5. /\ \A u \in Tasks : u # t => disk'[u] = disk[u]
      /\ disk'[t].state = "completed-pending-sync" /\ disk'[t].result = pass.evidence
      /\ UNCHANGED <<dispatch, result>>
  BY <1>1, <1>2, <1>3 DEF CompletePendingSync, TypeOK, Checkpoint, server
<1>6. /\ pass'.at = "submitting" /\ pass'.task = t /\ pass'.reply = None
      /\ Send("submit", t, 0, pass.evidence)
  BY DEF CompletePendingSync, TypeOK, Pass, Related, PassKnowsItsTask
<1>7. disk[t].result = None
  BY <1>1 DEF Related, ResultsWithCompletion
<1>8. dispatch[t].acked /\ result[t] = None
  BY <1>1, <1>7 DEF Related, ExecutionIsAcknowledged, ResultsAgree
<1>9. \A r \in wire : ~r.mine
  BY <1>1, NoCall DEF Related, Waiting
<1>10. ResultsStay
  BY <1>5, <1>7 DEF ResultsStay
<1>11. Pending' \subseteq {t}
  BY <1>1, <1>5 DEF Related, NothingElseOpen, Pending
<1> HIDE DEF t
<1>12. SubmitsWhatItKeeps'
  BY <1>1, <1>4, <1>5, <1>6, <1>10, SubmissionsSent DEF Related
<1>13. ResultsWithCompletion' /\ ResultsAgree' /\ ExecutionIsAcknowledged'
  BY <1>1, <1>4, <1>5, <1>7, <1>8 DEF Related, ResultsWithCompletion, ResultsAgree, ExecutionIsAcknowledged
<1>14. NothingElseOpen' /\ OneOpenRun'
  BY <1>6, <1>11 DEF NothingElseOpen, OneOpenRun, Pending
<1>15. OneCall'
  BY <1>6, <1>9, OneCallSent
<1>16. PassKnowsItsTask'
  BY <1>1, <1>4, <1>5, <1>6, ReplyIsSome DEF PassKnowsItsTask, WorkingState
<1> QED BY <1>12, <1>13, <1>14, <1>15, <1>16 DEF Related

LEMMA MarkSyncedRelates ==
  ASSUME TypeOK, Related, MarkSynced
  PROVE  Related'
<1> DEFINE t == pass.task
<1>1. /\ t \in Tasks /\ disk[t] # None /\ disk[t].state = "completed-pending-sync"
      /\ result[t] = disk[t].result /\ pass.reply # None
  BY ReplyIsSome DEF MarkSynced, Related, PassKnowsItsTask, WorkingState
<1>2. disk[t].result # None
  BY <1>1 DEF Related, ResultsWithCompletion
<1>3. /\ \A u \in Tasks : u # t => disk'[u] = disk[u]
      /\ disk'[t] # None /\ disk'[t].state = "synced" /\ disk'[t].result = disk[t].result
  BY <1>1, CheckpointMoved DEF MarkSynced
<1>4. UNCHANGED <<dispatch, result, wire>> /\ pass'.at = "idle"
  BY DEF MarkSynced, EndPass, Idle, server
<1>5. \A r \in wire : ~r.mine
  BY <1>1, NoCall DEF Related
<1>6. ResultsStay
  BY <1>3 DEF ResultsStay
<1> HIDE DEF t
<1>7. OneCall'
  BY <1>4, <1>5 DEF OneCall
<1>8. SubmitsWhatItKeeps'
  BY <1>4, <1>6, SubmissionsStay DEF Related
<1>9. PassKnowsItsTask' /\ NothingElseOpen'
  BY <1>4 DEF PassKnowsItsTask, NothingElseOpen
<1>10. ResultsWithCompletion' /\ ResultsAgree'
  BY <1>1, <1>2, <1>3, <1>4 DEF Related, ResultsWithCompletion, ResultsAgree
<1>11. ExecutionIsAcknowledged' /\ OneOpenRun'
  BY <1>1, <1>3, <1>4 DEF Related, ExecutionIsAcknowledged, OneOpenRun, OpenStates
<1> QED BY <1>7, <1>8, <1>9, <1>10, <1>11 DEF Related

LEMMA PassStepRelates ==
  ASSUME TypeOK, Related, PassStep
  PROVE  Related'
BY StartPassRelates, ResumeRelates, PollRelates, EndingsRelate, AcceptLeaseRelates, RunStepsRelate,
   ExecutorReturnsRelates, CompletePendingSyncRelates, MarkSyncedRelates
DEF PassStep

-----------------------------------------------------------------------------
(* The steps around them *)

\* A request that only changes its flags submits what it did
LEMMA SubmissionsReflagged ==
  ASSUME SubmitsWhatItKeeps, disk' = disk,
         \A r \in wire' : \E q \in wire :
           r.op = q.op /\ r.task = q.task /\ r.evidence = q.evidence
  PROVE  SubmitsWhatItKeeps'
<1> SUFFICES ASSUME NEW r \in wire'
             PROVE  /\ r.op \in {"offer", "ack", "submit"} => r.task \in Tasks
                    /\ r.op = "submit" => /\ disk[r.task] # None /\ r.evidence # None
                                          /\ disk[r.task].result = r.evidence
  BY DEF SubmitsWhatItKeeps
<1>1. PICK q \in wire : r.op = q.op /\ r.task = q.task /\ r.evidence = q.evidence
  OBVIOUS
<1> QED BY <1>1 DEF SubmitsWhatItKeeps

LEMMA AbandonRelates ==
  ASSUME TypeOK, Related, Abandon
  PROVE  Related'
<1>1. UNCHANGED <<dispatch, result, disk>> /\ EndPass
  BY DEF Abandon, server
<1>2. \A r \in wire' : \E q \in wire : r = [q EXCEPT !.mine = FALSE]
  BY DEF Abandon
<1>3. \A q \in wire : LET r == [q EXCEPT !.mine = FALSE]
                       IN  ~r.mine /\ r.op = q.op /\ r.task = q.task /\ r.evidence = q.evidence
  BY DEF TypeOK, Request
<1>4. \A r \in wire' : ~r.mine
  BY <1>2, <1>3
<1>5. SubmitsWhatItKeeps'
  BY <1>1, <1>2, <1>3, SubmissionsReflagged DEF Related
<1> QED BY <1>1, <1>4, <1>5, PassEnded

\* The pass forgets its session, or learns it, and every request does too
LEMMA SessionForgotten ==
  ASSUME TypeOK, Related, UNCHANGED <<dispatch, result, disk>>,
         NEW kept \in SUBSET wire, wire' = {[r EXCEPT !.live = FALSE] : r \in kept},
         pass'.at = pass.at, pass'.task = pass.task, pass'.evidence = pass.evidence,
         \/ pass'.reply = pass.reply
         \/ pass'.reply = [kind |-> "opened"] /\ pass.at = "opening" /\ \A r \in kept : ~r.mine
  PROVE  Related'
<1>1. \A r \in wire' : \E q \in kept : r = [q EXCEPT !.live = FALSE]
  OBVIOUS
<1>2. \A q \in kept : LET r == [q EXCEPT !.live = FALSE]
                       IN  /\ r.mine = q.mine /\ r.op = q.op /\ r.task = q.task
                           /\ r.evidence = q.evidence
  <2>1. \A q \in kept : q \in Request
    BY DEF TypeOK
  <2> QED BY <2>1 DEF Request
<1>3. OneCall'
  <2>1. \A q \in kept : q.mine => pass'.reply = pass.reply
    OBVIOUS
  <2>2. \A r, q \in wire' : r.mine /\ q.mine => r = q
    <3> SUFFICES ASSUME NEW r \in wire', NEW q \in wire', r.mine, q.mine PROVE r = q
      OBVIOUS
    <3>1. PICK r0 \in kept : r = [r0 EXCEPT !.live = FALSE]
      BY <1>1
    <3>2. PICK q0 \in kept : q = [q0 EXCEPT !.live = FALSE]
      BY <1>1
    <3>3. r0.mine /\ q0.mine
      BY <1>2, <3>1, <3>2
    <3>4. r0 = q0
      BY <3>3 DEF Related, OneCall
    <3> QED BY <3>1, <3>2, <3>4
  <2>3. ASSUME NEW r \in wire', r.mine
        PROVE  /\ pass'.reply = None
               /\ pass'.at = CASE r.op = "open" -> "opening" [] r.op \in {"poll", "offer"} -> "polling"
                               [] r.op = "ack" -> "acking" [] r.op = "submit" -> "submitting"
               /\ r.op \in {"ack", "submit"} => r.task = pass'.task
    <3>1. PICK q \in kept : r = [q EXCEPT !.live = FALSE]
      BY <1>1, <2>3
    <3>2. q.mine /\ r.op = q.op /\ r.task = q.task /\ q \in wire
      BY <1>2, <2>3, <3>1
    <3>3. /\ pass.reply = None
          /\ pass.at = CASE q.op = "open" -> "opening" [] q.op \in {"poll", "offer"} -> "polling"
                          [] q.op = "ack" -> "acking" [] q.op = "submit" -> "submitting"
          /\ q.op \in {"ack", "submit"} => q.task = pass.task
      BY <3>2 DEF Related, OneCall
    <3> QED BY <2>1, <3>2, <3>3
  <2> QED BY <2>2, <2>3 DEF OneCall
<1>4. SubmitsWhatItKeeps'
  <2>1. ASSUME NEW r \in wire'
        PROVE  \E q \in wire : r.op = q.op /\ r.task = q.task /\ r.evidence = q.evidence
    <3>1. PICK q \in kept : r = [q EXCEPT !.live = FALSE]
      BY <1>1
    <3> QED BY <1>2, <3>1
  <2> QED BY <2>1, SubmissionsReflagged DEF Related
<1>5. PassKnowsItsTask'
  <2>1. WorkingState' = WorkingState
    BY DEF WorkingState
  <2>2. CASE pass'.reply = pass.reply
    BY <2>1, <2>2 DEF Related, PassKnowsItsTask
  <2>3. CASE pass.at = "opening"
    BY <2>3 DEF PassKnowsItsTask
  <2> QED BY <2>2, <2>3
<1>6. NothingElseOpen'
  BY DEF Related, NothingElseOpen, Pending
<1> QED BY <1>3, <1>4, <1>5, <1>6, DatabasesKept DEF Related

\* A step that leaves the client alone, and acknowledgements and results as they are
LEMMA ClientKept ==
  ASSUME TypeOK, Related, UNCHANGED <<disk, pass, wire, result>>,
         \A t \in Tasks : dispatch[t].acked => dispatch'[t].acked
  PROVE  Related'
<1>1. OneCall' /\ SubmitsWhatItKeeps'
  BY DEF Related, OneCall, SubmitsWhatItKeeps
<1>2. PassKnowsItsTask' /\ NothingElseOpen'
  BY DEF Related, PassKnowsItsTask, NothingElseOpen, WorkingState, Pending
<1>3. ResultsWithCompletion' /\ ExecutionIsAcknowledged' /\ OneOpenRun' /\ ResultsAgree'
  BY DEF Related, ResultsWithCompletion, ExecutionIsAcknowledged, OneOpenRun, ResultsAgree
<1> QED BY <1>1, <1>2, <1>3 DEF Related

LEMMA DisturbanceRelates ==
  ASSUME TypeOK, Related,
         \/ \E t \in Tasks : Enqueue(t) \/ LeaseLapses(t) \/ PlanExpires(t)
         \/ ExecutorThrows \/ CallTimesOut \/ ClientCrashes \/ SessionLapses
  PROVE  Related'
<1>1. ASSUME NEW t \in Tasks, Enqueue(t) PROVE Related'
  <2>1. \A u \in Tasks : dispatch'[u].acked = dispatch[u].acked
    BY <1>1 DEF Enqueue, TypeOK, Dispatch
  <2> QED BY <1>1, <2>1, ClientKept DEF Enqueue
<1>2. ASSUME NEW t \in Tasks, LeaseLapses(t) PROVE Related'
  <2>1. \A u \in Tasks : dispatch'[u].acked = dispatch[u].acked
    BY <1>2 DEF LeaseLapses, TypeOK, Dispatch
  <2> QED BY <1>2, <2>1, ClientKept DEF LeaseLapses
<1>3. ASSUME NEW t \in Tasks, PlanExpires(t) PROVE Related'
  BY <1>3, ClientKept DEF PlanExpires, server
<1>4. CASE SessionLapses
  <2>1. /\ pass'.at = pass.at /\ pass'.task = pass.task
        /\ pass'.evidence = pass.evidence /\ pass'.reply = pass.reply
    BY <1>4 DEF SessionLapses, TypeOK, Pass
  <2> QED BY <1>4, <2>1, SessionForgotten DEF SessionLapses, server
<1> QED BY <1>1, <1>2, <1>3, <1>4, RunStepsRelate, AbandonRelates DEF CallTimesOut, ClientCrashes

-----------------------------------------------------------------------------
(* The server's steps *)

\* An answer keeps what is related, if it says what the tables hold
LEMMA AnswerRelates ==
  ASSUME TypeOK, Related, NEW req \in wire, NEW reply \in Reply, Answer(req, reply), disk' = disk,
         \A t \in Tasks : dispatch[t].acked => dispatch'[t].acked,
         \A t \in Tasks : result[t] # None => result'[t] = result[t],
         \A t \in Tasks : result'[t] # None => disk[t] # None /\ disk[t].result = result'[t],
         reply = [kind |-> "accepted"] => req.op = "ack" /\ dispatch'[req.task].acked,
         reply = [kind |-> "stored"] => req.op = "submit" /\ result'[req.task] = disk[req.task].result
  PROVE  Related'
<1>1. wire' = wire \ {req} /\ pass'.at = pass.at /\ pass'.task = pass.task /\ pass'.evidence = pass.evidence
  BY DEF Answer, TypeOK, Pass
<1>2. IF req.mine THEN pass'.reply = reply ELSE pass' = pass
  BY DEF Answer, TypeOK, Pass
<1>3. OneCall'
  <2>1. CASE req.mine
    <3>1. \A r \in wire' : ~r.mine
      BY <1>1, <2>1 DEF Related, OneCall
    <3> QED BY <3>1 DEF OneCall
  <2>2. CASE ~req.mine
    BY <1>1, <1>2, <2>2 DEF Related, OneCall
  <2> QED BY <2>1, <2>2
<1>4. ResultsStay
  BY DEF ResultsStay
<1>5. SubmitsWhatItKeeps'
  BY <1>1, <1>4, SubmissionsStay DEF Related
<1>6. ResultsWithCompletion' /\ OneOpenRun' /\ ExecutionIsAcknowledged'
  BY DEF Related, ResultsWithCompletion, OneOpenRun, ExecutionIsAcknowledged
<1>7. NothingElseOpen'
  BY <1>1 DEF Related, NothingElseOpen, Pending
<1>8. ResultsAgree'
  <2>1. \A t \in Tasks : disk[t] # None /\ disk[t].state = "synced" => disk[t].result # None
    BY DEF Related, ResultsWithCompletion
  <2>2. \A t \in Tasks : disk[t] # None /\ disk[t].state = "synced" => result[t] = disk[t].result
    BY DEF Related, ResultsAgree
  <2> QED BY <2>1, <2>2 DEF ResultsAgree
<1>9. PassKnowsItsTask'
  <2>1. WorkingState' = WorkingState
    BY <1>1 DEF WorkingState
  <2>2. /\ pass'.at \in {"acking", "starting", "executing", "completing", "submitting"} =>
             /\ pass'.task \in Tasks /\ disk'[pass'.task] # None
             /\ disk'[pass'.task].state \in WorkingState'
        /\ pass'.at = "completing" => pass'.evidence # None
    BY <1>1, <2>1 DEF Related, PassKnowsItsTask
  <2>3. pass'.at \in {"starting", "executing", "completing"} => pass'.reply = None
    <3>1. req.op \in {"open", "poll", "offer", "ack", "submit"}
      BY DEF TypeOK, Request
    <3>2. req.mine => pass.at \notin {"starting", "executing", "completing"}
      BY <3>1 DEF Related, OneCall
    <3> QED BY <1>1, <1>2, <3>2 DEF Related, PassKnowsItsTask
  <2>4. pass'.at = "acking" /\ pass'.reply = [kind |-> "accepted"] => dispatch'[pass'.task].acked
    <3>1. CASE req.mine
      BY <1>1, <1>2, <3>1 DEF Related, OneCall
    <3>2. CASE ~req.mine
      BY <1>1, <1>2, <2>2, <3>2 DEF Related, PassKnowsItsTask
    <3> QED BY <3>1, <3>2
  <2>5. pass'.at = "submitting" /\ pass'.reply = [kind |-> "stored"] =>
          result'[pass'.task] = disk'[pass'.task].result
    <3>1. CASE req.mine
      BY <1>1, <1>2, <3>1 DEF Related, OneCall
    <3>2. CASE ~req.mine
      <4>1. ASSUME pass.at = "submitting", pass.reply = [kind |-> "stored"]
            PROVE  result'[pass.task] = disk[pass.task].result
        <5>1. /\ pass.task \in Tasks /\ disk[pass.task] # None
              /\ disk[pass.task].state = "completed-pending-sync"
              /\ result[pass.task] = disk[pass.task].result
          BY <4>1 DEF Related, PassKnowsItsTask, WorkingState
        <5>2. disk[pass.task].result # None
          BY <5>1 DEF Related, ResultsWithCompletion
        <5> QED BY <5>1, <5>2
      <4> QED BY <1>1, <1>2, <3>2, <4>1
    <3> QED BY <3>1, <3>2
  <2> QED BY <2>2, <2>3, <2>4, <2>5 DEF PassKnowsItsTask
<1> QED BY <1>3, <1>5, <1>6, <1>7, <1>8, <1>9 DEF Related

LEMMA RefuseRelates ==
  ASSUME TypeOK, Related, NEW req \in wire, disk' = disk, UNCHANGED server,
         NEW k \in {"refused", "empty"}, Answer(req, [kind |-> k])
  PROVE  Related'
<1>1. [kind |-> k] \in Reply /\ [kind |-> k] # [kind |-> "accepted"] /\ [kind |-> k] # [kind |-> "stored"]
  <2>1. [kind |-> k].kind # [kind |-> "accepted"].kind /\ [kind |-> k].kind # [kind |-> "stored"].kind
    OBVIOUS
  <2> QED BY <2>1, ReplyType
<1>2. \A t \in Tasks : result[t] # None => disk[t] # None /\ disk[t].result = result[t]
  BY DEF Related, ResultsAgree
<1> QED BY <1>1, <1>2, AnswerRelates DEF server

LEMMA HandleOpenRelates ==
  ASSUME TypeOK, Related, NEW req \in wire, disk' = disk, HandleOpen(req)
  PROVE  Related'
<1>1. /\ UNCHANGED <<dispatch, result, disk>>
      /\ wire' = {[r EXCEPT !.live = FALSE] : r \in wire \ {req}}
      /\ pass'.at = pass.at /\ pass'.task = pass.task /\ pass'.evidence = pass.evidence
  BY DEF HandleOpen, server, TypeOK, Pass
<1>2. CASE req.mine
  <2>1. pass'.reply = [kind |-> "opened"]
    BY <1>2 DEF HandleOpen, TypeOK, Pass
  <2>2. pass.at = "opening" /\ \A r \in wire \ {req} : ~r.mine
    BY <1>2 DEF HandleOpen, Related, OneCall
  <2> QED BY <1>1, <2>1, <2>2, SessionForgotten
<1>3. CASE ~req.mine
  <2>1. pass'.reply = pass.reply
    BY <1>3 DEF HandleOpen, TypeOK, Pass
  <2> QED BY <1>1, <2>1, SessionForgotten
<1> QED BY <1>2, <1>3

\* A poll goes on as an offer
LEMMA PollBecomesOffer ==
  ASSUME TypeOK, Related, UNCHANGED <<server, disk, pass>>,
         NEW req \in wire, req.op = "poll", NEW t \in Tasks, NEW a \in Nat,
         wire' = (wire \ {req}) \cup {[req EXCEPT !.op = "offer", !.task = t, !.attempt = a]}
  PROVE  Related'
<1> DEFINE offer == [req EXCEPT !.op = "offer", !.task = t, !.attempt = a]
<1>1. offer.op = "offer" /\ offer.task = t /\ offer.mine = req.mine
  BY DEF TypeOK, Request
<1>2. wire' = (wire \ {req}) \cup {offer} /\ UNCHANGED <<dispatch, result, disk>>
  BY DEF server
<1> HIDE DEF offer
<1>3. OneCall'
  <2>1. CASE req.mine
    <3>1. \A r \in wire \ {req} : ~r.mine
      BY <2>1 DEF Related, OneCall
    <3>2. pass.reply = None /\ pass.at = "polling"
      BY <2>1 DEF Related, OneCall
    <3> QED BY <1>1, <1>2, <3>1, <3>2 DEF OneCall
  <2>2. CASE ~req.mine
    BY <1>1, <1>2, <2>2 DEF Related, OneCall
  <2> QED BY <2>1, <2>2
<1>4. SubmitsWhatItKeeps'
  BY <1>1, <1>2 DEF Related, SubmitsWhatItKeeps
<1>5. PassKnowsItsTask' /\ NothingElseOpen'
  BY <1>2 DEF Related, PassKnowsItsTask, NothingElseOpen, WorkingState, Pending
<1> QED BY <1>2, <1>3, <1>4, <1>5, DatabasesKept DEF Related

LEMMA HandlePollRelates ==
  ASSUME TypeOK, Related, NEW req \in wire, disk' = disk, HandlePoll(req)
  PROVE  Related'
<1>1. CASE Refuse(req)
  BY <1>1, RefuseRelates DEF Refuse
<1>2. CASE Answer(req, [kind |-> "empty"]) /\ UNCHANGED server
  BY <1>2, RefuseRelates
<1>3. ASSUME NEW t \in Tasks, UNCHANGED <<server, pass>>,
             wire' = (wire \ {req}) \cup
                      {[req EXCEPT !.op = "offer", !.task = t,
                                   !.attempt = IF dispatch[t].fresh THEN dispatch[t].attempt ELSE 0]}
      PROVE  Related'
  <2>1. (IF dispatch[t].fresh THEN dispatch[t].attempt ELSE 0) \in Nat
    BY DEF TypeOK, Dispatch
  <2> QED BY <1>3, <2>1, PollBecomesOffer DEF HandlePoll
<1> QED BY <1>1, <1>2, <1>3 DEF HandlePoll

LEMMA HandleOfferRelates ==
  ASSUME TypeOK, Related, NEW req \in wire, disk' = disk, HandleOffer(req)
  PROVE  Related'
<1>1. req.task \in Tasks /\ req.attempt \in Nat /\ dispatch[req.task].attempt \in Nat
  BY DEF HandleOffer, Related, SubmitsWhatItKeeps, TypeOK, Request, Dispatch
<1>2. CASE Answer(req, [kind |-> "empty"]) /\ UNCHANGED dispatch
  BY <1>2, RefuseRelates DEF HandleOffer, server
<1>3. ASSUME NEW a \in Nat, Answer(req, Lease(req.task, a))
      PROVE  Related'
  <2>1. Lease(req.task, a) \in Reply
    BY <1>1, ReplyType
  <2>2. Lease(req.task, a) # [kind |-> "accepted"] /\ Lease(req.task, a) # [kind |-> "stored"]
    <3>1. /\ Lease(req.task, a).kind = "lease"
          /\ [kind |-> "accepted"].kind # "lease" /\ [kind |-> "stored"].kind # "lease"
      BY DEF Lease
    <3> QED BY <3>1
  <2>3. \A u \in Tasks : dispatch[u].acked => dispatch'[u].acked
    BY <1>1 DEF HandleOffer, TypeOK, Dispatch
  <2>4. \A u \in Tasks : result[u] # None => disk[u] # None /\ disk[u].result = result[u]
    BY DEF Related, ResultsAgree
  <2> QED BY <1>3, <2>1, <2>2, <2>3, <2>4, AnswerRelates DEF HandleOffer
<1> QED BY <1>1, <1>2, <1>3 DEF HandleOffer

LEMMA HandleAckRelates ==
  ASSUME TypeOK, Related, NEW req \in wire, disk' = disk, HandleAck(req)
  PROVE  Related'
<1>1. CASE Refuse(req)
  BY <1>1, RefuseRelates DEF Refuse
<1>2. CASE /\ dispatch' = [dispatch EXCEPT ![req.task].acked = TRUE]
           /\ Answer(req, [kind |-> "accepted"])
           /\ UNCHANGED <<queue, result>>
  <2>1. req.op = "ack" /\ req.task \in Tasks
    BY DEF HandleAck, Related, SubmitsWhatItKeeps
  <2>2. dispatch'[req.task].acked /\ \A u \in Tasks : dispatch[u].acked => dispatch'[u].acked
    BY <1>2, <2>1 DEF TypeOK, Dispatch
  <2>3. \A u \in Tasks : result[u] # None => disk[u] # None /\ disk[u].result = result[u]
    BY DEF Related, ResultsAgree
  <2>4. [kind |-> "accepted"] \in Reply /\ [kind |-> "accepted"] # [kind |-> "stored"]
    <3>1. [kind |-> "accepted"].kind # [kind |-> "stored"].kind
      OBVIOUS
    <3> QED BY <3>1, ReplyType
  <2> QED BY <1>2, <2>1, <2>2, <2>3, <2>4, AnswerRelates
<1> QED BY <1>1, <1>2 DEF HandleAck

LEMMA HandleSubmitRelates ==
  ASSUME TypeOK, Related, NEW req \in wire, disk' = disk, HandleSubmit(req)
  PROVE  Related'
<1> DEFINE t == req.task
<1>1. CASE Refuse(req)
  BY <1>1, RefuseRelates DEF Refuse
<1>2. CASE ~Refuse(req)
  <2>1. /\ req.op = "submit" /\ t \in Tasks /\ disk[t] # None
        /\ req.evidence # None /\ disk[t].result = req.evidence
    BY DEF HandleSubmit, Related, SubmitsWhatItKeeps
  <2>2. /\ result[t] \in {None, req.evidence}
        /\ result' = [result EXCEPT ![t] = req.evidence]
        /\ dispatch' = IF result[t] # None THEN dispatch
                       ELSE [dispatch EXCEPT ![t].state = RowState(req.evidence.outcome)]
        /\ Answer(req, [kind |-> "stored"])
    BY <1>2 DEF HandleSubmit
  <2>3. \A u \in Tasks : dispatch'[u].acked = dispatch[u].acked
    BY <2>1, <2>2 DEF TypeOK, Dispatch
  <2>4. result'[t] = req.evidence /\ \A u \in Tasks : u # t => result'[u] = result[u]
    BY <2>1, <2>2 DEF TypeOK
  <2>5. \A u \in Tasks : result'[u] # None => disk[u] # None /\ disk[u].result = result'[u]
    BY <2>1, <2>4 DEF Related, ResultsAgree
  <2>6. \A u \in Tasks : result[u] # None => result'[u] = result[u]
    BY <2>2, <2>4
  <2>7. [kind |-> "stored"] \in Reply /\ [kind |-> "stored"] # [kind |-> "accepted"]
    <3>1. [kind |-> "accepted"].kind # [kind |-> "stored"].kind
      OBVIOUS
    <3> QED BY <3>1, ReplyType
  <2> QED BY <2>1, <2>2, <2>3, <2>4, <2>5, <2>6, <2>7, AnswerRelates
<1> QED BY <1>1, <1>2

LEMMA HandleRelates ==
  ASSUME TypeOK, Related, NEW req \in wire, Handle(req)
  PROVE  Related'
BY HandleOpenRelates, HandlePollRelates, HandleOfferRelates, HandleAckRelates, HandleSubmitRelates
DEF Handle

-----------------------------------------------------------------------------
(* The theorems *)

LEMMA InvariantInit ==
  ASSUME Init
  PROVE  DeviceInvariant
<1>1. TypeOK
  <2>1. \A t \in Tasks : dispatch[t] \in Dispatch
    BY DEF Init, Dispatch
  <2>2. spent \in [faults : Nat, lapses : Nat, outages : Nat]
    BY DEF Init
  <2> QED BY <2>1, <2>2, IdleType DEF Init, TypeOK
<1>2. OneCall /\ SubmitsWhatItKeeps /\ PassKnowsItsTask /\ NothingElseOpen
  BY DEF Init, Idle, OneCall, SubmitsWhatItKeeps, PassKnowsItsTask, NothingElseOpen
<1>3. ResultsWithCompletion /\ ExecutionIsAcknowledged /\ OneOpenRun /\ ResultsAgree
  BY DEF Init, ResultsWithCompletion, ExecutionIsAcknowledged, OneOpenRun, ResultsAgree
<1> QED BY <1>1, <1>2, <1>3 DEF DeviceInvariant

LEMMA InvariantStep ==
  ASSUME DeviceInvariant, [Next]_vars
  PROVE  DeviceInvariant'
<1>1. TypeOK /\ Related /\ PassKnowsItsTask /\ SubmitsWhatItKeeps
  BY DEF DeviceInvariant, Related
<1>2. SUFFICES TypeOK' /\ Related'
  BY DEF DeviceInvariant, Related
<1>3. CASE \E req \in wire : Handle(req)
  BY <1>1, <1>3, HandleTypes, HandleRelates
<1>4. CASE PassStep
  BY <1>1, <1>4, PassStepTypes, PassStepRelates
<1>5. CASE \/ \E t \in Tasks : Enqueue(t) \/ LeaseLapses(t) \/ PlanExpires(t)
           \/ ExecutorThrows \/ CallTimesOut \/ ClientCrashes \/ SessionLapses
  BY <1>1, <1>5, DisturbanceTypes, DisturbanceRelates
<1>6. CASE UNCHANGED vars
  <2>1. TypeOK'
    BY <1>1, <1>6 DEF vars, server, TypeOK
  <2> QED BY <1>1, <1>6, <2>1, ClientKept DEF vars, server
<1> QED BY <1>3, <1>4, <1>5, <1>6 DEF Next, Answered, Strayed

\* The device and the control plane stay in agreement: every message, crash,
\* timeout and expiry preserves what they know of each other.
THEOREM InvariantHolds == Spec => []DeviceInvariant
<1>1. Init => DeviceInvariant
  BY InvariantInit
<1>2. DeviceInvariant /\ [Next]_vars => DeviceInvariant'
  BY InvariantStep
<1> QED BY <1>1, <1>2, PTL DEF Spec

\* A run executes only under a lease whose acknowledgement is recorded.
THEOREM ExecutionAcknowledged == Spec => []ExecutionIsAcknowledged
<1>1. DeviceInvariant => ExecutionIsAcknowledged
  BY DEF DeviceInvariant
<1> QED BY <1>1, InvariantHolds, PTL

\* A device never has two open runs.
THEOREM OneRunAtATime == Spec => []OneOpenRun
<1>1. DeviceInvariant => OneOpenRun
  BY DEF DeviceInvariant
<1> QED BY <1>1, InvariantHolds, PTL

\* The stored result is the one the client keeps, and a synced run's result is stored.
THEOREM ResultsAlwaysAgree == Spec => []ResultsAgree
<1>1. DeviceInvariant => ResultsAgree
  BY DEF DeviceInvariant
<1> QED BY <1>1, InvariantHolds, PTL

\* A run whose result was saved is not executed again: only the executor's return
\* counts an execution, and the run it works on has no result yet.
THEOREM NoSecondExecution == Spec => CompletedRunsStay
<1>1. ASSUME DeviceInvariant, [Next]_vars, NEW t \in Tasks, disk[t] # None, disk[t].result # None
      PROVE  runs'[t] = runs[t]
  <2>1. CASE UNCHANGED runs
    BY <2>1
  <2>2. ASSUME NEW o \in Outcomes, ExecutorReturns(o) PROVE runs'[t] = runs[t]
    <3>1. pass.task \in Tasks /\ disk[pass.task] # None /\ disk[pass.task].state \in {"accepted", "running", "paused"}
      BY <1>1, <2>2 DEF ExecutorReturns, DeviceInvariant, PassKnowsItsTask, WorkingState
    <3>2. t # pass.task
      BY <1>1, <3>1 DEF DeviceInvariant, ResultsWithCompletion
    <3> QED BY <1>1, <2>2, <3>1, <3>2 DEF ExecutorReturns, DeviceInvariant, TypeOK
  <2>3. [Next]_vars => UNCHANGED runs \/ \E o \in Outcomes : ExecutorReturns(o)
    BY DEF Next, vars, Answered, Strayed, Handle, PassStep, Enqueue, LeaseLapses, PlanExpires,
           StartPass, Resume, AcceptLease, RestoreFails, Poll, LeaseRejected, PassEnds,
           MarkAcknowledged, Begin, CompletePendingSync, MarkSynced, ExecutorThrows,
           CallTimesOut, ClientCrashes, Abandon, SessionLapses
  <2> QED BY <1>1, <2>1, <2>2, <2>3
<1>2. DeviceInvariant /\ [Next]_vars =>
        [\A t \in Tasks : disk[t] # None /\ disk[t].result # None => runs'[t] = runs[t]]_vars
  BY <1>1
<1>3. Spec => []DeviceInvariant /\ [][Next]_vars
  BY InvariantHolds, PTL DEF Spec
<1> QED BY <1>2, <1>3, PTL DEF CompletedRunsStay

\* Statements that leave acknowledgement and attempt of a row as they are
LEMMA RowKept ==
  ASSUME TypeOK, NEW t \in Tasks, NEW s,
         \/ dispatch' = [dispatch EXCEPT ![t].state = s]
         \/ dispatch' = [dispatch EXCEPT ![t].fresh = s]
         \/ dispatch' = [dispatch EXCEPT ![t].acked = TRUE]
  PROVE  \A u \in Tasks : dispatch[u].acked => dispatch'[u].acked /\ dispatch'[u].attempt = dispatch[u].attempt
<1> SUFFICES ASSUME NEW u \in Tasks, dispatch[u].acked
             PROVE  dispatch'[u].acked /\ dispatch'[u].attempt = dispatch[u].attempt
  OBVIOUS
<1>1. dispatch[u] \in Dispatch /\ DOMAIN dispatch = Tasks
  BY DEF TypeOK
<1>2. CASE u # t
  BY <1>1, <1>2
<1>3. CASE u = t
  BY <1>1, <1>3 DEF Dispatch
<1> QED BY <1>2, <1>3

\* Once acknowledged, a lease keeps its token, whatever a poll had read before its await.
THEOREM LeaseFinalOnceAcknowledged == Spec => AcknowledgedLeaseIsFinal
<1> DEFINE Final == \A t \in Tasks : dispatch[t].acked =>
                      dispatch'[t].acked /\ dispatch'[t].attempt = dispatch[t].attempt
<1>1. ASSUME DeviceInvariant, [Next]_vars PROVE Final
  <2>1. TypeOK
    BY <1>1 DEF DeviceInvariant
  <2>2. CASE UNCHANGED dispatch
    BY <2>2
  <2>3. ASSUME NEW t \in Tasks, Enqueue(t) \/ LeaseLapses(t) PROVE Final
    BY <2>1, <2>3, RowKept DEF Enqueue, LeaseLapses
  <2>4. ASSUME NEW req \in wire, Handle(req) PROVE Final
    <3>1. req.op \in {"offer", "ack", "submit"} => req.task \in Tasks
      BY <1>1 DEF DeviceInvariant, SubmitsWhatItKeeps
    <3>2. CASE HandleOpen(req) \/ HandlePoll(req)
      BY <2>2, <3>2 DEF HandleOpen, HandlePoll, Refuse, server
    <3>3. CASE HandleOffer(req)
      BY <2>1, <2>2, <3>1, <3>3 DEF HandleOffer, TypeOK, Dispatch
    <3>4. CASE HandleAck(req)
      BY <2>1, <2>2, <3>1, <3>4, RowKept DEF HandleAck, Refuse, server
    <3>5. CASE HandleSubmit(req)
      BY <2>1, <2>2, <3>1, <3>5, RowKept DEF HandleSubmit, Refuse, server
    <3> QED BY <2>4, <3>2, <3>3, <3>4, <3>5 DEF Handle
  <2>5. \/ UNCHANGED dispatch
        \/ \E t \in Tasks : Enqueue(t) \/ LeaseLapses(t)
        \/ \E req \in wire : Handle(req)
    BY <1>1
    DEF Next, vars, server, Answered, Strayed, PassStep, PlanExpires,
        StartPass, Resume, AcceptLease, RestoreFails, Poll, LeaseRejected, PassEnds,
        MarkAcknowledged, Begin, ExecutorReturns, CompletePendingSync, MarkSynced, ExecutorThrows,
        CallTimesOut, ClientCrashes, Abandon, SessionLapses
  <2> QED BY <2>2, <2>3, <2>4, <2>5
<1>2. DeviceInvariant /\ [Next]_vars => [Final]_vars
  BY <1>1
<1>3. Spec => []DeviceInvariant /\ [][Next]_vars
  BY InvariantHolds, PTL DEF Spec
<1> QED BY <1>2, <1>3, PTL DEF AcknowledgedLeaseIsFinal
=============================================================================

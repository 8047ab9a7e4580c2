---------------------------- MODULE XiaoweiChannel ----------------------------
(***************************************************************************)
(* The bridge's channel to the research agent                              *)
(* (packages/bridge-compat/src/xiaowei-research-channel.js).  Research on  *)
(* a task is requested in the agent's chat; its replies are read by a      *)
(* poll, matched to a request, told to the owner and written to the task.  *)
(* The owner also writes to the agent himself.                             *)
(*                                                                         *)
(* request() runs for the mention monitor while poll() runs on its timer:  *)
(* one action is the code between two awaits.                              *)
(***************************************************************************)
EXTENDS Integers, SequencesExt

CONSTANTS
  None,         \* null
  Delegated,    \* requests on behalf of tasks, one per task, by request id
  Notes,        \* messages that the owner writes to the agent himself
  Answers,      \* messages of the agent
  MaxFailures,  \* bound: calls that fail
  MaxCrashes    \* bound: exits of the process

VARIABLES state, disk, run, env
vars == <<state, disk, run, env>>

\* A request is named like the message that carries it; a note that is adopted is a request
\* of its own, and so is the message of a delegated request that nobody recorded as sent
Rows == Delegated \X {"task"} \cup (Delegated \cup Notes) \X {"manual"}
Task(r) == <<r, "task">>
Manual(x) == <<x, "manual">>

\* xiaoweiResearchRequests in its order, the status of each and whether its message is known
Init ==
  /\ state = [order |-> <<>>, status |-> [q \in Rows |-> "none"], known |-> {}, result |-> [q \in Rows |-> None],
              processed |-> {}, polled |-> {}]
  /\ disk = state
  /\ run = [poll |-> [pc |-> "idle", on |-> None, left |-> {}, batch |-> {}], requests |-> {}]
  /\ env = [chat |-> {}, answer |-> [a \in Answers |-> None], told |-> {}, written |-> {},
            approved |-> {}, failures |-> 0, crashes |-> 0]

-----------------------------------------------------------------------------
Save(s) == state' = s /\ disk' = s
Same == UNCHANGED <<state, disk>>
Poll(pc, on) == [run EXCEPT !.poll = [@ EXCEPT !.pc = pc, !.on = on]]
Failing == env.failures < MaxFailures
Fails == [env EXCEPT !.failures = @ + 1]

Waits(s, q) == s.status[q] \in {"waiting_reply", "progress_received"}
Index(s, q) == CHOOSE i \in DOMAIN s.order : s.order[i] = q
FirstOf(s, Q) == CHOOSE q \in Q : \A p \in Q : Index(s, q) <= Index(s, p)
Pushed(s, q, status) == [s EXCEPT !.order = Append(@, q), !.status[q] = status]

\* Does the message of the row exist, and is the row known to be about it
Carries(q) == IF q[2] = "manual" THEN TRUE ELSE q \in state.known

-----------------------------------------------------------------------------
(* request, sendRequest *)

\* request(): the task has no active request; the approval is the owner's
Request(r) ==
  /\ state.status[Task(r)] = "none"
  /\ Save(Pushed(state, Task(r), "new"))
  /\ run' = [run EXCEPT !.requests = @ \cup {r}]
  /\ env' = [env EXCEPT !.approved = @ \cup {r}]

\* sendAsUser puts the message into the chat, once for the idempotency key ...
Carried(r) == [env EXCEPT !.chat = @ \cup {r}]
Deliver(r) ==
  /\ \/ r \in run.requests
     \/ run.poll.on = Task(r) /\ run.poll.pc = "send"
  /\ r \notin env.chat
  /\ env' = Carried(r)
  /\ Same /\ UNCHANGED run

\* ... and answers; the request is recorded as sent
Sent(s, r) == [s EXCEPT !.status[Task(r)] = "waiting_reply", !.known = @ \cup {Task(r)}]
RequestSent(r) ==
  /\ r \in run.requests /\ r \in env.chat
  /\ Save(Sent(state, r))
  /\ run' = [run EXCEPT !.requests = @ \ {r}]
  /\ UNCHANGED env

RequestFails(r) ==
  /\ r \in run.requests /\ Failing
  /\ Save(state)
  /\ run' = [run EXCEPT !.requests = @ \ {r}]
  /\ env' = Fails

-----------------------------------------------------------------------------
(* poll *)

StartPoll ==
  /\ run.poll.pc = "idle"
  /\ \E due \in SUBSET {q \in Rows : state.status[q] = "new"} :
       run' = [run EXCEPT !.poll = [@ EXCEPT !.pc = "resend", !.left = due]]
  /\ Same /\ UNCHANGED env

Resend(q) ==
  /\ run.poll.pc = "resend" /\ q \in run.poll.left
  /\ \A p \in run.poll.left : Index(state, q) <= Index(state, p)
  /\ run' = [run EXCEPT !.poll = [@ EXCEPT !.left = @ \ {q},
               !.pc = IF state.status[q] = "new" THEN "send" ELSE "resend", !.on = q]]
  /\ Same /\ UNCHANGED env

Resent ==
  /\ run.poll.pc = "send" /\ run.poll.on[1] \in env.chat
  /\ Save(Sent(state, run.poll.on[1]))
  /\ run' = Poll("resend", None)
  /\ UNCHANGED env

StartFetch ==
  /\ run.poll.pc = "resend" /\ run.poll.left = {}
  /\ run' = Poll("fetch", None)
  /\ Same /\ UNCHANGED env

\* getChatMessagesSince(lastPollAt - 2 min): whatever the last poll has not seen yet, and
\* perhaps some of what it has seen; then adoptManualRequests
InChat == env.chat \cup {a \in Answers : env.answer[a] # None}
Unlinked(s, batch) ==
  {x \in batch \cap (Delegated \cup Notes) :
     /\ ~\E q \in s.known : q[1] = x
     /\ s.status[Manual(x)] = "none"}

Adopted(s, X) ==
  [s EXCEPT !.order = @ \o SetToSeq({Manual(x) : x \in X}),
            !.status = [q \in Rows |-> IF q[2] = "manual" /\ q[1] \in X THEN "waiting_reply" ELSE @[q]]]

Fetched ==
  /\ run.poll.pc = "fetch"
  /\ \E again \in {{}, state.polled} :
       LET batch == (InChat \ state.polled) \cup again IN
       /\ Save(Adopted(state, Unlinked(state, batch)))
       /\ run' = [run EXCEPT !.poll = [@ EXCEPT !.pc = "replies", !.batch = batch,
                                                !.left = (batch \cap Answers) \ state.processed]]
  /\ UNCHANGED env

\* processReplies: the request that the reply quotes, else the only one that waits
Quoting(s, a) == {q \in Rows : Waits(s, q) /\ Carries(q) /\ q[1] = env.answer[a].to}
Waiting(s) == {q \in Rows : Waits(s, q)}
Match(s, a) ==
  IF Quoting(s, a) # {} THEN FirstOf(s, Quoting(s, a))
  ELSE IF Cardinality(Waiting(s)) = 1 THEN CHOOSE q \in Waiting(s) : TRUE
  ELSE None

Processed(s, a) == [s EXCEPT !.processed = @ \cup {a}]
Answered(s, q, a) ==
  [s EXCEPT !.status[q] = IF q[2] = "task" THEN "reply_received" ELSE "completed", !.result[q] = a]

\* Faulty variant: any reply, progress too, ends the waiting
ReadReplyAsFinal(a) ==
  LET q == Match(state, a) IN
  /\ run.poll.pc = "replies" /\ a \in run.poll.left
  /\ IF q # None /\ q[2] = "task"
       THEN /\ state' = Answered(state, q, a) /\ UNCHANGED disk
            /\ run' = Poll("tell", a)
       ELSE /\ Save(Processed(IF q = None THEN state ELSE Answered(state, q, a), a))
            /\ run' = [run EXCEPT !.poll.left = @ \ {a}]
  /\ UNCHANGED env

ReadReply(a) ==
  LET q == Match(state, a) IN
  /\ run.poll.pc = "replies" /\ a \in run.poll.left
  /\ IF q # None /\ ~env.answer[a].final
       THEN /\ Save(Processed([state EXCEPT !.status[q] = "progress_received"], a))
            /\ run' = [run EXCEPT !.poll.left = @ \ {a}]
     ELSE IF q # None /\ q[2] = "task"
       THEN /\ state' = Answered(state, q, a) /\ UNCHANGED disk
            /\ run' = Poll("tell", a)
     ELSE /\ Save(Processed(IF q = None THEN state ELSE Answered(state, q, a), a))
          /\ run' = [run EXCEPT !.poll.left = @ \ {a}]
  /\ UNCHANGED env

\* The owner is told, and only then the reply counts as processed
OwnerTold ==
  LET a == run.poll.on IN
  /\ run.poll.pc = "tell"
  /\ Save(Processed(state, a))
  /\ run' = [run EXCEPT !.poll = [@ EXCEPT !.pc = "replies", !.on = None, !.left = @ \ {a}]]
  /\ env' = [env EXCEPT !.told = @ \cup {a}]

\* syncTaskResults: what is due of the results to be written
StartSync ==
  /\ run.poll.pc = "replies" /\ run.poll.left = {}
  /\ \E due \in SUBSET {q \in Rows : state.status[q] = "task_update_failed"} :
       run' = [run EXCEPT !.poll = [@ EXCEPT !.pc = "sync",
                 !.left = due \cup {q \in Rows : state.status[q] = "reply_received"}]]
  /\ Same /\ UNCHANGED env

Write(q) ==
  /\ run.poll.pc = "sync" /\ q \in run.poll.left
  /\ \/ Save([state EXCEPT !.status[q] = "completed"]) /\ env' = [env EXCEPT !.written = @ \cup {<<q, state.result[q]>>}]
     \/ /\ Failing
        /\ Save([state EXCEPT !.status[q] = "task_update_failed"])
        /\ env' \in {Fails, [Fails EXCEPT !.written = @ \cup {<<q, state.result[q]>>}]}
  /\ run' = [run EXCEPT !.poll.left = @ \ {q}]

PollDone ==
  /\ run.poll.pc = "sync" /\ run.poll.left = {}
  /\ Save([state EXCEPT !.polled = @ \cup run.poll.batch])
  /\ run' = [run EXCEPT !.poll = [pc |-> "idle", on |-> None, left |-> {}, batch |-> {}]]
  /\ UNCHANGED env

\* What throws ends the poll; the instant of the last one stays
PollFails ==
  /\ run.poll.pc \in {"send", "fetch", "tell"} /\ Failing
  /\ Save(state)
  /\ run' = [run EXCEPT !.poll = [pc |-> "idle", on |-> None, left |-> {}, batch |-> {}]]
  /\ env' = Fails

-----------------------------------------------------------------------------
(* The chat *)

WriteNote(n) ==
  /\ n \notin env.chat
  /\ env' = [env EXCEPT !.chat = @ \cup {n}]
  /\ Same /\ UNCHANGED run

\* The agent says something, about a request or in general
Reply(a) ==
  /\ env.answer[a] = None
  /\ \E to \in env.chat, final \in BOOLEAN : env' = [env EXCEPT !.answer[a] = [to |-> to, final |-> final]]
  /\ Same /\ UNCHANGED run

Crash ==
  /\ env.crashes < MaxCrashes
  /\ env' = [env EXCEPT !.crashes = @ + 1]
  /\ state' = disk
  /\ run' = [poll |-> [pc |-> "idle", on |-> None, left |-> {}, batch |-> {}], requests |-> {}]
  /\ UNCHANGED disk

Next ==
  \/ \E r \in Delegated : Request(r) \/ Deliver(r) \/ RequestSent(r) \/ RequestFails(r)
  \/ \E q \in Rows : Resend(q) \/ Write(q)
  \/ \E a \in Answers : ReadReply(a) \/ Reply(a)
  \/ \E n \in Notes : WriteNote(n)
  \/ StartPoll \/ Resent \/ StartFetch \/ Fetched \/ OwnerTold \/ StartSync \/ PollDone \/ PollFails \/ Crash

-----------------------------------------------------------------------------
(* Properties *)

\* A task gets a result only with the owner's approval, after a request in the chat, and
\* never an interim message for a result (classifyXiaoweiReply fails closed).
ResultsAreFinal ==
  \A q \in Rows : state.result[q] # None =>
    /\ env.answer[state.result[q]].final
    /\ q[2] = "task" => q[1] \in env.approved \cap env.chat

\* What counts as completed has been written to the task, with the answer that is recorded,
\* and the owner was told of it unless a call failed or was cut short - though a request
\* whose first sending is slow is sent a second time by the poll, and waits again when that
\* one returns after the answer.
CompletedIsWritten ==
  \A r \in Delegated :
    /\ state.status[Task(r)] = "completed" => <<Task(r), state.result[Task(r)]>> \in env.written
    /\ disk.status[Task(r)] = "completed" => <<Task(r), disk.result[Task(r)]>> \in env.written
    /\ env.failures = 0 /\ env.crashes = 0 => \A w \in env.written : w[2] \in env.told

ChannelInvariant == ResultsAreFinal /\ CompletedIsWritten
=============================================================================

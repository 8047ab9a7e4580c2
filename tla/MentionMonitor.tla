--------------------------- MODULE MentionMonitor ---------------------------
(***************************************************************************)
(* The monitor of important messages in the compatibility bridge           *)
(* (packages/bridge-compat/src/mention-monitor.js): messages found by a    *)
(* search or an event are queued, made into tasks, and may lead to a       *)
(* question to the sender, to research and to the execution of a plan,     *)
(* each with the owner's approval, and to a notice now or in a digest.     *)
(*                                                                         *)
(* One action is the code between two awaits.  The state is one object in  *)
(* memory; every mutation is followed by a save of the whole object, and   *)
(* a crash restores what was saved.  Instants of retries and settling are  *)
(* abstracted: what waits becomes due at any moment.                       *)
(***************************************************************************)
EXTENDS Integers, FiniteSets

CONSTANTS
  None,         \* null
  Messages,     \* messages of others, named by message_id
  ChatOf,       \* [Messages -> chats]
  TaskOf,       \* the task a message turns out to be about
  Explicit,     \* messages that mention the owner
  Verdicts,     \* what the task creator may answer, see Verdict
  Overlap,      \* mentionOverlapMinutes, in ticks
  Lag,          \* external: ticks until a message is in the search index
  Horizon,      \* bound: the last instant of the clock
  MaxFailures,  \* bound: calls of Lark, the task creator or Codex that fail
  MaxCrashes,   \* bound: exits of the process
  MaxSessions,  \* bound: Codex sessions per message
  MaxClicks     \* bound: approvals of one question in flight at once

VARIABLES state, disk, run, env
vars == <<state, disk, run, env>>

TaskIds == {TaskOf[x] : x \in Messages}
Plans == Messages \X (1 .. MaxSessions)

\* An answer of the task creator, as far as the monitor looks at it: is a question to the
\* sender needed, is research worth it ("staged": two approvals), how to tell the owner
Verdict == [ignored : BOOLEAN, ask : BOOLEAN, research : {"skip", "plain", "staged"},
            notice : {"now", "digest", "none"}]

\* mentionResearchConfirmations: at most one per source message; "gone" once removed
Confirmation == [status : {"gone", "pending", "approved", "later", "declined"},
                 staged : BOOLEAN, xiaowei : BOOLEAN, card : BOOLEAN, resume : 0 .. MaxSessions]
NoConfirmation == [status |-> "gone", staged |-> FALSE, xiaowei |-> FALSE, card |-> FALSE, resume |-> 0]

IdleLocal == [pc |-> "idle", tried |-> {}, batch |-> {}, head |-> None, verdict |-> None,
              plan |-> None]
IdleFlush == [on |-> FALSE, array |-> {}, items |-> {}, sent |-> {}, same |-> FALSE]
Quiet == [local |-> IdleLocal, search |-> None, flush |-> IdleFlush, clicks |-> [x \in Messages |-> 0]]

Init ==
  /\ state = [queue |-> [x \in Messages |-> "absent"], processed |-> {}, cursor |-> None,
              question |-> [x \in Messages |-> "none"], open |-> [x \in Messages |-> 0],
              research |-> [x \in Messages |-> NoConfirmation],
              sessions |-> {}, handed |-> {}, plan |-> [q \in Plans |-> "none"],
              digest |-> [t \in TaskIds |-> None]]
  /\ disk = state
  /\ run = Quiet
  /\ env = [now |-> 0, at |-> [x \in Messages |-> None], created |-> [x \in Messages |-> 0],
            granted |-> {}, executed |-> [q \in Plans |-> 0], failures |-> 0, crashes |-> 0]

-----------------------------------------------------------------------------
\* StateStore.save: the whole object, in which every array is replaced by a slice of itself
Saved(s, r) ==
  /\ state' = s /\ disk' = s
  /\ run' = [r EXCEPT !.flush.same = FALSE]

Failing(e) == e.failures < MaxFailures
Failed == [env EXCEPT !.failures = @ + 1]
Local(pc) == [run EXCEPT !.local = [@ EXCEPT !.pc = pc]]

Known(x) == x \in state.processed \/ state.queue[x] # "absent"
Queued(s, X) == [s EXCEPT !.queue = [x \in Messages |-> IF x \in X THEN "settling" ELSE @[x]]]

\* Somebody writes
Arrive(x) ==
  /\ env.at[x] = None
  /\ env' = [env EXCEPT !.at[x] = env.now]
  /\ UNCHANGED <<state, disk, run>>

\* ingestRealtime, enqueueSignal: the event of a message, perhaps late or again
IngestRealtime(x) ==
  /\ env.at[x] # None /\ ~Known(x)
  /\ Saved(Queued(state, {x}), run)
  /\ UNCHANGED env

\* poll: the window is fixed before the searches
StartPoll ==
  /\ run.search = None
  /\ run' = [run EXCEPT !.search = env.now]
  /\ UNCHANGED <<state, disk, env>>

\* What a search may return: of the messages of the window all that are in the index by now
Window(from) == {x \in Messages : env.at[x] # None /\ env.at[x] >= from /\ env.at[x] <= run.search}
Indexed == {x \in Messages : env.at[x] # None /\ env.at[x] + Lag <= env.now}
From == IF state.cursor = None THEN 0 ELSE state.cursor - Overlap

\* Faulty variant: the cursor is where the search ended, not where its window did
SearchReturnsLate ==
  /\ run.search # None
  /\ \E X \in SUBSET Window(From) :
       /\ Window(From) \cap Indexed \subseteq X
       /\ Saved([Queued(state, {x \in X : ~Known(x)}) EXCEPT !.cursor = env.now],
                [run EXCEPT !.search = None])
  /\ UNCHANGED env

SearchReturns ==
  /\ run.search # None
  /\ \E X \in SUBSET Window(From) :
       /\ Window(From) \cap Indexed \subseteq X
       /\ Saved([Queued(state, {x \in X : ~Known(x)}) EXCEPT !.cursor = run.search],
                [run EXCEPT !.search = None])
  /\ UNCHANGED env

\* ... or a search fails: the cursor stays, whatever the kind of failure
SearchFails ==
  /\ run.search # None /\ Failing(env)
  /\ Saved(state, [run EXCEPT !.search = None])
  /\ env' = Failed

\* readyAt or nextAttemptAt passes
FallDue(x) ==
  /\ state.queue[x] \in {"settling", "deferred"}
  /\ state' = [state EXCEPT !.queue[x] = "due"]
  /\ UNCHANGED <<disk, run, env>>

-----------------------------------------------------------------------------
(* processLocalQueues *)

StartLocal ==
  /\ run.local.pc = "idle"
  /\ run' = Local("pending")
  /\ UNCHANGED <<state, disk, env>>

\* conversationPendingBatch: a due message and what else of its chat is near enough in
\* time; explicit mentions join, and are joined, only when they are due themselves
Batches(seed) ==
  {B \in SUBSET {x \in Messages :
       /\ ChatOf[x] = ChatOf[seed] /\ state.queue[x] \in {"settling", "due"}
       /\ (seed \in Explicit \/ x \in Explicit) => state.queue[x] = "due"} : seed \in B}

TakeBatch ==
  /\ run.local.pc = "pending"
  /\ \E seed \in Messages \ run.local.tried :
       /\ state.queue[seed] = "due"
       /\ \E B \in Batches(seed) : \E head \in B :
            run' = [run EXCEPT !.local = [@ EXCEPT !.pc = "task", !.batch = B, !.head = head]]
  /\ UNCHANGED <<state, disk, env>>

\* getMentionContext, createFromMention and the observers
About(x, head) == x = head \/ TaskOf[x] = TaskOf[head]
Asked(head) == \E x \in Messages : About(x, head) /\ (state.question[x] # "none" \/ state.open[x] > 0)
Researched(head) ==
  \/ \E x \in Messages : About(x, head) /\ state.research[x].status # "gone"
  \/ \E q \in state.sessions : About(q[1], head)
  \/ TaskOf[head] \in state.handed

\* finishBatch
Finished(s, B) ==
  [s EXCEPT !.processed = @ \cup B, !.queue = [x \in Messages |-> IF x \in B THEN "absent" ELSE @[x]]]

\* Faulty variant: an existing session is not looked for
NextStepForgetful(head, v) ==
  IF v.ask /\ ~Asked(head) THEN "question"
  ELSE IF v.research # "skip" /\ state.research[head].status = "gone" THEN "research"
  ELSE "finish"

NextStep(head, v) ==
  IF v.ask /\ ~Asked(head) THEN "question"
  ELSE IF v.research # "skip" /\ ~Researched(head) THEN "research"
  ELSE "finish"

TaskCreated ==
  /\ run.local.pc = "task"
  /\ \E v \in Verdicts :
       IF v.ignored
         THEN Saved(Finished(state, run.local.batch), Local("pending"))
         ELSE /\ run' = [run EXCEPT !.local = [@ EXCEPT !.pc = NextStep(run.local.head, v), !.verdict = v]]
              /\ UNCHANGED <<state, disk>>
  /\ UNCHANGED env

\* A failure defers the whole batch; the loop goes on behind it
TaskFails ==
  /\ run.local.pc = "task" /\ Failing(env)
  /\ Saved([state EXCEPT !.queue = [x \in Messages |-> IF x \in run.local.batch THEN "deferred" ELSE @[x]]],
           [run EXCEPT !.local = [@ EXCEPT !.pc = "pending", !.tried = @ \cup run.local.batch]])
  /\ env' = Failed

\* interactionPolicy, then the card of requestClarificationApproval or a notice that the
\* question may not be sent; either way the owner has been notified
RequestClarificationApproval ==
  LET head == run.local.head
      told == [run.local.verdict EXCEPT !.ask = FALSE, !.notice = "none"]
      next == IF told.research # "skip" /\ ~Researched(head) THEN "research" ELSE "finish"
      r == [run EXCEPT !.local = [@ EXCEPT !.pc = next, !.verdict = told]]
  IN
  /\ run.local.pc = "question"
  /\ \/ Saved([state EXCEPT !.question[head] = "pending"], r)
     \/ run' = r /\ UNCHANGED <<state, disk>>
  /\ UNCHANGED env

\* requestResearchApproval: a card that could not be sent is recorded all the same,
\* without the message id its form is recognised by
RequestResearchApproval ==
  LET v == run.local.verdict
      asked(card) == [NoConfirmation EXCEPT !.status = "pending", !.staged = v.research = "staged", !.card = card]
      r == [run EXCEPT !.local = [@ EXCEPT !.pc = "finish", !.verdict.notice = "none"]]
  IN
  /\ run.local.pc = "research"
  /\ \/ Saved([state EXCEPT !.research[run.local.head] = asked(TRUE)], r) /\ UNCHANGED env
     \/ Failing(env) /\ Saved([state EXCEPT !.research[run.local.head] = asked(FALSE)], r) /\ env' = Failed

FinishBatch ==
  /\ run.local.pc = "finish"
  /\ Saved(Finished(state, run.local.batch),
           Local(IF run.local.verdict.notice = "none" THEN "pending" ELSE "notify"))
  /\ UNCHANGED env

\* queueDigestNotification: an item of the same task is overwritten in place, a new one is
\* pushed onto the array of the moment
QueueDigest ==
  LET t == TaskOf[run.local.head]
      pushed == IF run.flush.same THEN [run EXCEPT !.flush.array = @ \cup {t}] ELSE run
  IN
  /\ run.local.pc = "notify" /\ run.local.verdict.notice = "digest"
  /\ Saved([state EXCEPT !.digest[t] = run.local.head],
           [pushed EXCEPT !.local = [@ EXCEPT !.pc = "pending"]])
  /\ UNCHANGED env

\* safeSend: whether it fails makes no difference
NotifyNow ==
  /\ run.local.pc = "notify" /\ run.local.verdict.notice = "now"
  /\ run' = Local("pending")
  /\ UNCHANGED <<state, disk, env>>

PendingDone ==
  /\ run.local.pc = "pending"
  /\ \A x \in Messages \ run.local.tried : state.queue[x] # "due"
  /\ run' = [run EXCEPT !.local = [IdleLocal EXCEPT !.pc = "approved"]]
  /\ UNCHANGED <<state, disk, env>>

-----------------------------------------------------------------------------
(* processApprovedResearch, startResearch *)

NextSession(x) == env.created[x] + 1

\* startResearch with Xiaowei: request() keeps one active request per task
StartXiaowei(x) ==
  /\ run.local.pc = "approved"
  /\ state.research[x].status = "approved" /\ state.research[x].xiaowei
  /\ Saved([state EXCEPT !.handed = @ \cup {TaskOf[x]}, !.research[x] = NoConfirmation], run)
  /\ UNCHANGED env

StartResearch(x) ==
  /\ run.local.pc = "approved"
  /\ state.research[x].status = "approved" /\ ~state.research[x].xiaowei
  /\ IF state.research[x].resume = 0
       THEN /\ NextSession(x) <= MaxSessions
            /\ run' = [run EXCEPT !.local = [@ EXCEPT !.pc = "session", !.head = x, !.plan = <<x, NextSession(x)>>]]
            /\ env' = [env EXCEPT !.created[x] = @ + 1]
       ELSE /\ run' = [run EXCEPT !.local = [@ EXCEPT !.pc = "session", !.head = x,
                                                     !.plan = <<x, state.research[x].resume>>]]
            /\ UNCHANGED env
  /\ UNCHANGED <<state, disk>>

\* The session is recorded; a staged one then asks for the approval of its plan
SessionDone ==
  LET q == run.local.plan
      s == [state EXCEPT !.sessions = @ \cup {q}]
  IN
  /\ run.local.pc = "session"
  /\ Saved(s, Local(IF state.research[q[1]].staged THEN "plan" ELSE "started"))
  /\ UNCHANGED env

\* runner.create or execute rejects; the session it had created may be known
SessionFails ==
  LET q == run.local.plan
      later == [state.research[q[1]] EXCEPT !.status = "later"]
  IN
  /\ run.local.pc = "session" /\ Failing(env)
  /\ \E n \in {later.resume, q[2]} :
       Saved([state EXCEPT !.research[q[1]] = [later EXCEPT !.resume = n]],
             [run EXCEPT !.local = [IdleLocal EXCEPT !.pc = "approved"]])
  /\ env' = Failed

\* requestExecutionApproval
RequestExecutionApproval ==
  /\ run.local.pc = "plan"
  /\ Saved([state EXCEPT !.plan[run.local.plan] = "pending"], Local("started"))
  /\ UNCHANGED env

\* recordResearchDecision and the removal of the confirmation
ResearchStarted ==
  /\ run.local.pc = "started"
  /\ Saved([state EXCEPT !.research[run.local.plan[1]] = NoConfirmation],
           [run EXCEPT !.local = [IdleLocal EXCEPT !.pc = "approved"]])
  /\ UNCHANGED env

ResearchDone ==
  /\ run.local.pc = "approved"
  /\ \A x \in Messages : state.research[x].status # "approved"
  /\ run' = Local("execute")
  /\ UNCHANGED <<state, disk, env>>

-----------------------------------------------------------------------------
(* processApprovedExecution, processClarificationReplies *)

\* Faulty variant: a plan is executed as soon as it is there
StartExecutionAtOnce(q) ==
  /\ run.local.pc = "execute"
  /\ state.plan[q] \in {"pending", "approved"}
  /\ Saved([state EXCEPT !.plan[q] = "executing"],
           [run EXCEPT !.local = [@ EXCEPT !.pc = "executing", !.plan = q]])
  /\ env' = [env EXCEPT !.executed[q] = @ + 1]

StartExecution(q) ==
  /\ run.local.pc = "execute"
  /\ state.plan[q] = "approved"
  /\ Saved([state EXCEPT !.plan[q] = "executing"],
           [run EXCEPT !.local = [@ EXCEPT !.pc = "executing", !.plan = q]])
  /\ env' = [env EXCEPT !.executed[q] = @ + 1]

ExecutionDone ==
  /\ run.local.pc = "executing"
  /\ \/ Saved([state EXCEPT !.plan[run.local.plan] = "completed"], Local("execute")) /\ UNCHANGED env
     \/ /\ Failing(env) /\ env' = Failed
        /\ Saved([state EXCEPT !.plan[run.local.plan] = "later"], Local("execute"))

RepliesChecked ==
  /\ run.local.pc = "execute"
  /\ \A q \in Plans : state.plan[q] # "approved"
  /\ \/ \E x \in Messages :
          /\ state.open[x] > 0
          /\ Saved([state EXCEPT !.open[x] = @ - 1], [run EXCEPT !.local = IdleLocal])
     \/ run' = [run EXCEPT !.local = IdleLocal] /\ UNCHANGED <<state, disk>>
  /\ UNCHANGED env

\* nextAttemptAt of a confirmation or a plan passes
RetryDue ==
  /\ \/ \E x \in Messages : state.research[x].status = "later"
                            /\ state' = [state EXCEPT !.research[x].status = "approved"]
     \/ \E q \in Plans : state.plan[q] = "later" /\ state' = [state EXCEPT !.plan[q] = "approved"]
  /\ UNCHANGED <<disk, run, env>>

-----------------------------------------------------------------------------
(* The owner's decisions *)

\* approveAnalysisFromCard, applyResearchDecision: the form needs its card, a text reply
\* or a button of the plain card does not, and may turn to the other channel
DecideResearch(x) ==
  /\ state.research[x].status = "pending"
  /\ \/ /\ state.research[x].staged /\ state.research[x].card
        /\ Saved([state EXCEPT !.research[x].status = "approved"], run)
        /\ env' = [env EXCEPT !.granted = @ \cup {x}]
     \/ \E xiaowei \in BOOLEAN, staged \in IF state.research[x].staged THEN {TRUE} ELSE BOOLEAN :
          /\ Saved([state EXCEPT !.research[x] = [@ EXCEPT !.status = "approved", !.xiaowei = xiaowei,
                                                          !.staged = staged]], run)
          /\ env' = [env EXCEPT !.granted = @ \cup {x}]
     \/ Saved([state EXCEPT !.research[x].status = "declined"], run) /\ UNCHANGED env

\* applyExecutionDecision: source, approval and digest of the plan must be the card's
ApplyExecutionDecision(q) ==
  /\ state.plan[q] = "pending"
  /\ \/ Saved([state EXCEPT !.plan[q] = "approved"], run) /\ env' = [env EXCEPT !.granted = @ \cup {q}]
     \/ Saved([state EXCEPT !.plan[q] = "declined"], run) /\ UNCHANGED env

\* applyClarificationDecision: the policy and the reply are awaited before the status changes
ApproveClarification(x) ==
  /\ state.question[x] = "pending" /\ run.clicks[x] < MaxClicks
  /\ run' = [run EXCEPT !.clicks[x] = @ + 1]
  /\ UNCHANGED <<state, disk, env>>
ClarificationSent(x) ==
  /\ run.clicks[x] > 0
  /\ Saved([state EXCEPT !.question[x] = "sent", !.open[x] = @ + 1], [run EXCEPT !.clicks[x] = @ - 1])
  /\ UNCHANGED env
ClarificationRefused(x) ==
  /\ run.clicks[x] > 0 /\ Failing(env)
  /\ run' = [run EXCEPT !.clicks[x] = @ - 1]
  /\ env' = Failed
  /\ UNCHANGED <<state, disk>>
DeclineClarification(x) ==
  /\ state.question[x] = "pending"
  /\ Saved([state EXCEPT !.question[x] = "declined"], run)
  /\ UNCHANGED env

-----------------------------------------------------------------------------
(* flushNotificationDigest *)

Waiting == {t \in TaskIds : state.digest[t] # None}

\* Some items are due: what is sent is fixed here, and so is the array that is filtered
\* and written back after the send
FlushDigest ==
  /\ ~run.flush.on
  /\ \E items \in SUBSET Waiting \ {{}} :
       run' = [run EXCEPT !.flush = [on |-> TRUE, array |-> Waiting, items |-> items,
                                     sent |-> {state.digest[t] : t \in items}, same |-> TRUE]]
  /\ UNCHANGED <<state, disk, env>>

\* Faulty variant: the queue is emptied by what was sent of it
DigestSentAll ==
  /\ run.flush.on
  /\ Saved([state EXCEPT !.digest = [t \in TaskIds |-> None]], [run EXCEPT !.flush = IdleFlush])
  /\ UNCHANGED env

DigestSent ==
  LET kept == run.flush.array \ run.flush.items
  IN
  /\ run.flush.on
  /\ Saved([state EXCEPT !.digest = [t \in TaskIds |-> IF t \in kept THEN @[t] ELSE None]],
           [run EXCEPT !.flush = IdleFlush])
  /\ UNCHANGED env

DigestFails ==
  /\ run.flush.on /\ Failing(env)
  /\ Saved(state, [run EXCEPT !.flush = IdleFlush])
  /\ env' = Failed

-----------------------------------------------------------------------------
\* StateStore.load: an execution under way counts as approved again
Loaded == [disk EXCEPT !.plan = [q \in Plans |-> IF @[q] = "executing" THEN "approved" ELSE @[q]]]

Crash ==
  /\ env.crashes < MaxCrashes
  /\ env' = [env EXCEPT !.crashes = @ + 1]
  /\ state' = Loaded
  /\ disk' = Loaded
  /\ run' = Quiet

Tick ==
  /\ env.now < Horizon
  /\ env' = [env EXCEPT !.now = @ + 1]
  /\ UNCHANGED <<state, disk, run>>

LocalStep ==
  \/ StartLocal \/ TakeBatch \/ TaskCreated \/ TaskFails \/ RequestClarificationApproval
  \/ RequestResearchApproval \/ FinishBatch \/ QueueDigest \/ NotifyNow \/ PendingDone
  \/ SessionDone \/ SessionFails \/ RequestExecutionApproval \/ ResearchStarted \/ ResearchDone
  \/ ExecutionDone \/ RepliesChecked
  \/ \E x \in Messages : StartXiaowei(x) \/ StartResearch(x)
  \/ \E q \in Plans : StartExecution(q)

Next ==
  \/ LocalStep \/ StartPoll \/ SearchReturns \/ SearchFails \/ RetryDue
  \/ FlushDigest \/ DigestSent \/ DigestFails \/ Crash \/ Tick
  \/ \E x \in Messages :
       \/ Arrive(x) \/ IngestRealtime(x) \/ FallDue(x) \/ DecideResearch(x)
       \/ ApproveClarification(x) \/ ClarificationSent(x) \/ ClarificationRefused(x)
       \/ DeclineClarification(x)
  \/ \E q \in Plans : ApplyExecutionDecision(q)

-----------------------------------------------------------------------------
(* Properties *)

\* No message slips through between the search windows: whatever is older than the next
\* window is queued or processed, in the state file too (poll's window and cursor).
NoSearchGap ==
  \A x \in Messages :
    env.at[x] # None /\ disk.cursor # None /\ env.at[x] < disk.cursor - Overlap =>
      x \in disk.processed \/ disk.queue[x] # "absent"

\* Research and plans take the owner's approval, and without a crash no task is researched
\* in a second session and no plan executed twice, but for executions that failed.
ApprovedOnly ==
  /\ \A q \in state.sessions : q[1] \in env.granted
  /\ \A q \in Plans :
       /\ state.plan[q] \in {"approved", "executing", "completed", "later"} => q \in env.granted
       /\ env.executed[q] > 0 => q \in env.granted /\ q[1] \in env.granted
       /\ env.crashes = 0 => env.executed[q] <= 1 + env.failures
ResearchedOnce ==
  env.crashes = 0 => \A t \in TaskIds : Cardinality({q \in state.sessions : TaskOf[q[1]] = t}) <= 1

MentionInvariant == NoSearchGap /\ ApprovedOnly /\ ResearchedOnce

\* A notice leaves the digest only when it was sent, as long as nothing else was saved
\* while the digest was being sent (flushNotificationDigest writes back an old array).
DigestStep ==
  \A t \in TaskIds :
    state.digest[t] # None /\ state'.digest[t] = None /\ run.flush.same =>
      state.digest[t] \in run.flush.sent
=============================================================================

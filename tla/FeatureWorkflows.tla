--------------------------- MODULE FeatureWorkflows ---------------------------
(***************************************************************************)
(* The feature workflows on the durable workflow runtime.                  *)
(*                                                                         *)
(* The runtime appears here as what WorkflowRuntime shows of it: a dispatch *)
(* is one step, an event counts once, an effect is executed until it has   *)
(* been delivered or failed for good and the workflow is told which.  What *)
(* the features add are their reducers, the ids they give their effects -  *)
(* a transition that inserts an id again is rolled back and its dispatch   *)
(* throws (insertWorkflowEffects, src/src/storage/sqlite.ts) - and the     *)
(* world the effects act on: the owner who answers cards, the contact and  *)
(* the agent who reply, the task list, the Codex session.                  *)
(*                                                                         *)
(* They may also begin from the instances a handoff of the bridge creates: *)
(* ImportInit instead of Init.                                             *)
(*                                                                         *)
(* An approval.response only makes the intake and collaboration reducers   *)
(* keep the text of the answer (src/src/intake/workflow.ts:123-127,        *)
(* src/src/collaboration/workflow.ts:102-106): status, wake-up and effects *)
(* stay as they are, and the event is left out.                            *)
(***************************************************************************)
EXTENDS Features, FiniteSets

CONSTANTS
  Flows,         \* the workflows that may be started, one instance of each kind
  Together,      \* the sets of workflows started together
  Contacts,      \* people a follow-up may be about
  Tasks,         \* tasks of the automation list
  Prints,        \* fingerprints (due date and priority) of an overdue task
  FlowHorizon(_),    \* bound: the last instant at which a workflow is looked at
  MaxAnswers(_), \* bound: answers and replies from outside to a workflow
  MaxFlowFailures(_),\* bound: effects of a workflow that fail for good
  MaxFaults,     \* bound: executions that are repeated, because the handler throws or
                 \* because the settlement fails after the workflow was told
  MaxTouches,    \* bound: times the owner unarchives or archives the session himself
  FrozenAt       \* the instant at which a handoff froze the bridge's state

FlowKinds == {"outreach", "review", "intake-message", "intake-command", "intake-card", "discovery",
              "session", "research", "research-untracked", "overdue", "cleanup", "brief", "policy"}

ASSUME FeatureAssumption ==
  /\ None \notin Int /\ Keep \notin Int \cup {None}
  /\ Flows \subseteq FlowKinds /\ Together \subseteq SUBSET Flows
  /\ {RetryBase, RetryMax, NotifyAfter, ReviewPoll, DiscoveryInterval, DiscoveryRetry, SessionPoll,
      SessionRetryBase, SessionRetryMax, SessionNotifyAfter, ResearchRetryBase, ResearchRetryMax,
      ResearchNotifyAfter, OverdueInterval, OverdueRetry, OverdueNotifyAfter, CleanupPoll,
      CleanupNotifyAfter, EvaluationInterval} \subseteq Nat \ {0}
  /\ DiscoveryOverlap \in Nat /\ DiscoveryOverlap < DiscoveryInterval
  /\ MinArchived \in Nat /\ DeleteAfter \in Nat /\ MinArchived <= DeleteAfter
  /\ {MaxFaults, MaxTouches, FrozenAt} \cup {MaxAnswers(f) : f \in Flows}
       \cup {MaxFlowFailures(f) : f \in Flows} \cup {FlowHorizon(f) : f \in Flows} \subseteq Nat

VARIABLES
  now,      \* the clock
  flow,     \* rows of workflow_instance, by workflow
  outbox,   \* rows of workflow_effect, by workflow and effect id: an id tells the instances apart
  session,  \* the Codex session
  heard,    \* what the owner, the contact and the agent have answered
  spent     \* what has been used of the bounds

vars == <<now, flow, outbox, session, heard, spent>>

Absent == [status |-> "absent", state |-> None, wake |-> None, fired |-> FALSE]

FlowRow == [status : {"absent", "waiting", "completed", "failed"}, wake : Int \cup {None},
            fired : BOOLEAN]
EffectStatus == {"pending", "executed", "told", "delivered", "failed"}

TypeOK ==
  /\ now \in Nat
  /\ DOMAIN flow = Flows
  /\ \A f \in Flows : [status |-> flow[f].status, wake |-> flow[f].wake, fired |-> flow[f].fired] \in FlowRow
  /\ \A id \in DOMAIN outbox :
       /\ outbox[id].status \in EffectStatus /\ outbox[id].of \in Flows
       /\ id = <<outbox[id].of, outbox[id].effect.id>> /\ outbox[id].at \in 0 .. now + 1 /\ outbox[id].tried \in BOOLEAN
  /\ session.exists \in BOOLEAN
  /\ spent \in [answers : Nat, failures : Nat, retries : 0 .. MaxFaults, faults : 0 .. MaxFaults, touches : 0 .. MaxTouches]

-----------------------------------------------------------------------------
(* Definitions *)

Starting(f) ==
  CASE f = "outreach" -> OutreachStart(now)
    [] f = "review" -> ReviewStart(now)
    [] f = "intake-message" -> IntakeStart("focus")
    [] f = "intake-command" -> IntakeStart("owner-command")
    [] f = "intake-card" -> IntakeStart("interaction")
    [] f = "discovery" -> DiscoveryStart(now)
    [] f = "session" -> SessionStart(now)
    [] f = "research" -> ResearchStart(TRUE, now)
    [] f = "research-untracked" -> ResearchStart(FALSE, now)
    [] f = "overdue" -> OverdueStart(now)
    [] f = "cleanup" -> CleanupStart(now)
    [] f = "brief" -> ScheduleStart(now)
    [] f = "policy" -> PolicyStart

Reduce(f, state, event) ==
  CASE f = "outreach" -> Outreach(state, event)
    [] f = "review" -> Review(state, event)
    [] f \in {"intake-message", "intake-command", "intake-card"} -> MessageIntake(state, event)
    [] f = "discovery" -> Discovery(state, event)
    [] f = "session" -> Session(state, event)
    [] f \in {"research", "research-untracked"} -> ResearchFlow(state, event)
    [] f = "overdue" -> Overdue(state, event)
    [] f = "cleanup" -> Cleanup(state, event)
    [] f = "brief" -> Schedule(state, event)
    [] f = "policy" -> Policy(state, event)

\* initialize, createWorkflow and, for a new instance, its first effects
NewRow(f, effect) ==
  [of |-> f, effect |-> effect, status |-> "pending", at |-> now, data |-> None, tried |-> FALSE]
Ids(f, effects) == {<<f, e.id>> : e \in effects}
RowFor(f, effects, id) == NewRow(f, CHOOSE e \in effects : <<f, e.id>> = id)
Created(f) ==
  [status |-> Starting(f).status, state |-> Starting(f).state, wake |-> Starting(f).wake, fired |-> FALSE]

Init ==
  /\ now = 0
  /\ \E S \in Together :
       /\ flow = [f \in Flows |-> IF f \in S THEN Created(f) ELSE Absent]
       /\ outbox = [id \in UNION {Ids(f, Starting(f).effects) : f \in S} |->
                      RowFor(id[1], Starting(id[1]).effects, id)]
  /\ session = SessionLive
  /\ heard = {}
  /\ spent = [answers |-> 0, failures |-> 0, retries |-> 0, faults |-> 0, touches |-> 0]

-----------------------------------------------------------------------------
(* dispatch(), in one step *)

Kept(wake, old) == IF wake = Keep THEN old ELSE wake

\* Whether the transition commits: the reducer accepts the event, the ids are new
Commits(f, event) ==
  LET d == Reduce(f, flow[f].state, event) IN
  /\ d # Refused
  /\ Ids(f, d.effects) \cap DOMAIN outbox = {}

\* What it commits, next to the row that the event settles.  A timer counts once for an
\* instant; a wake-up that is set anew is a new instant.
Transition(f, event, rows) ==
  LET d == Reduce(f, flow[f].state, event) IN
  /\ flow' = [flow EXCEPT ![f] =
       [status |-> d.status, state |-> d.state, wake |-> Kept(d.wake, flow[f].wake),
        fired |-> d.wake = Keep /\ (flow[f].fired \/ event.type = "timer")]]
  /\ outbox' = [id \in DOMAIN rows \cup Ids(f, d.effects) |->
                  IF id \in DOMAIN rows THEN rows[id] ELSE RowFor(f, d.effects, id)]

-----------------------------------------------------------------------------
(* Timers *)

\* dueWorkflows, without the instances whose timer would be a duplicate
Due(f) ==
  /\ flow[f].status = "waiting"
  /\ flow[f].wake # None /\ flow[f].wake <= now /\ ~flow[f].fired

Timer(f) == TimerEvent(flow[f].wake, now)

\* A pass is under way from the timers to the end of the one effect it executes
Idle == \A id \in DOMAIN outbox : outbox[id].status # "executed"

\* A pass dispatches the timers in the order of their instants; one that throws ends it
FireTimer(f) ==
  /\ Idle /\ Due(f)
  /\ \A g \in Flows : Due(g) => flow[f].wake <= flow[g].wake
  /\ Commits(f, Timer(f))
  /\ Transition(f, Timer(f), outbox)
  /\ UNCHANGED <<now, session, heard, spent>>

-----------------------------------------------------------------------------
(* Effects *)

\* What executing an effect does to the session, and what it may return
Results(effect) ==
  LET same(S) == {[session |-> session, data |-> d] : d \in S} IN
  CASE effect.kind = "resolveContact" -> same(SUBSET Contacts)
    [] effect.kind = "evaluateFollowups" ->
         same([updates : SUBSET Tasks, remind : BOOLEAN, open : SUBSET Tasks])
    [] effect.kind = "evaluateFocus" -> same(IntakeDecisions)
    [] effect.kind = "listOverdue" -> same(UNION {[S -> Prints] : S \in SUBSET Tasks})
    [] effect.kind \in {"cleanupCompleted", "evaluateCollaboration", "isTaskCompleted"} -> same(BOOLEAN)
    [] effect.kind = "inspectSession" ->
         same([exists : {session.exists}, archived : {session.archivedAt # None}, running : BOOLEAN])
    [] effect.kind = "archiveSession" ->
         IF session.exists THEN {SessionArchiveResult(session, now)} ELSE {}
    [] effect.kind = "deleteSession" ->
         IF MayDelete(effect) THEN {SessionDeleteResult(session)} ELSE {}
    [] OTHER -> same({None})

\* claimNextWorkflowEffect, once the due timers have been dispatched: the effect that has
\* been available for longest, one in a pass
Available(id) == outbox[id].status \in {"pending", "told"} /\ outbox[id].at <= now
Claimed(id) ==
  /\ Idle /\ \A f \in Flows : ~Due(f)
  /\ Available(id)
  /\ \A other \in DOMAIN outbox : Available(other) => outbox[id].at <= outbox[other].at

\* handler.execute
Execute(id) ==
  LET row == outbox[id] IN
  /\ Claimed(id) /\ row.status = "pending"
  /\ \E r \in Results(row.effect) :
       /\ session' = r.session
       /\ outbox' = [outbox EXCEPT ![id].status = "executed", ![id].data = r.data, ![id].tried = TRUE]
  /\ UNCHANGED <<now, flow, heard, spent>>

DeliveredEvent(id) == Verdict("delivered", outbox[id].effect, outbox[id].data, now)
FailedEvent(id) == Verdict("failed", outbox[id].effect, None, now)
Settled(id, status) == [outbox EXCEPT ![id].status = status, ![id].data = None, ![id].at = 0]
Postponed(id, status) == [outbox EXCEPT ![id].status = status, ![id].data = None, ![id].at = now + 1]

\* The workflow is told, and the effect settled
Deliver(id) ==
  LET f == outbox[id].of IN
  /\ outbox[id].status = "executed"
  /\ Commits(f, DeliveredEvent(id))
  /\ Transition(f, DeliveredEvent(id), Settled(id, "delivered"))
  /\ UNCHANGED <<now, session, heard, spent>>

\* ... or the settlement fails, and the effect will be executed again
DeliverUnsettled(id) ==
  LET f == outbox[id].of IN
  /\ spent.retries + spent.faults < MaxFaults
  /\ outbox[id].status = "executed"
  /\ Commits(f, DeliveredEvent(id))
  /\ Transition(f, DeliveredEvent(id), Postponed(id, "told"))
  /\ spent' = [spent EXCEPT !.faults = @ + 1]
  /\ UNCHANGED <<now, session, heard>>

\* A workflow that has been told does not hear it again
SettleTold(id) ==
  /\ Claimed(id) /\ outbox[id].status = "told"
  /\ outbox' = Settled(id, "delivered")
  /\ UNCHANGED <<now, flow, session, heard, spent>>

\* The handler throws, or the dispatch of its result does: another attempt ...
TryAgain(id) ==
  /\ spent.retries + spent.faults < MaxFaults
  /\ outbox[id].status = "executed"
  /\ outbox' = Postponed(id, "pending")
  /\ spent' = [spent EXCEPT !.retries = @ + 1]
  /\ UNCHANGED <<now, flow, session, heard>>

\* ... or that was the last one, and the workflow is told of the failure if it listens
FailFinally(id) ==
  LET f == outbox[id].of IN
  /\ spent.failures < MaxFlowFailures(f)
  /\ outbox[id].status = "executed" \/ Claimed(id)
  /\ spent' = [spent EXCEPT !.failures = @ + 1]
  /\ IF Commits(f, FailedEvent(id))
       THEN Transition(f, FailedEvent(id), Settled(id, "failed"))
       ELSE outbox' = Settled(id, "failed") /\ UNCHANGED flow
  /\ UNCHANGED <<now, session, heard>>

-----------------------------------------------------------------------------
(* The world *)

\* The answers a card takes, and the events the follow-up and research services dispatch
CardAnswers(id) ==
  LET about == outbox[id].effect.about IN
  {Answer(t, about.of, now) : t \in about.asks \cap {"approved", "declined", "contact-query"}}
    \cup (IF "contact-selected" \in about.asks
            THEN {Answer("contact-selected", c, now) : c \in about.of} ELSE {})

\* A message of the workflow is out: its own, or the bridge's (ImportInit)
Sent(f) ==
  \/ <<f, "sent", None>> \in heard
  \/ \E id \in DOMAIN outbox :
       outbox[id].of = f /\ outbox[id].tried /\ outbox[id].effect.kind = "sendAsUser"

Clicks ==
  UNION {{<<outbox[id].of, a>> : a \in CardAnswers(id)} :
           id \in {i \in DOMAIN outbox : outbox[i].tried /\ outbox[i].effect.kind = "requestInteraction"}}
Replies(flows, stages) ==
  UNION {{<<f, Answer("reply", stage, now)>> : stage \in stages} : f \in {g \in flows \cap Flows : Sent(g)}}
Answers ==
  UNION {Clicks, Replies({"outreach"}, {None}), Replies({"research", "research-untracked"}, {"progress", "final"}),
         {<<f, Answer("eligible", None, now)>> : f \in {"session"} \cap Flows}}

\* An answer reaches its workflow (InteractionEffectAdapter.execute for cards): every one
\* is an event of its own
Hear(f, answer) ==
  /\ spent.answers < MaxAnswers(f)
  /\ flow[f].status # "absent"
  /\ Commits(f, answer)
  /\ Transition(f, answer, outbox)
  /\ heard' = heard \cup {<<f, answer.type, answer.data>>}
  /\ spent' = [spent EXCEPT !.answers = @ + 1]
  /\ UNCHANGED <<now, session>>

\* The owner unarchives the session, or archives it, in the Codex client
TouchSession ==
  /\ spent.touches < MaxTouches
  /\ "session" \in Flows /\ flow["session"].status # "absent"
  /\ session.exists
  /\ session' = [session EXCEPT !.archivedAt = IF @ = None THEN now ELSE None]
  /\ spent' = [spent EXCEPT !.touches = @ + 1]
  /\ UNCHANGED <<now, flow, outbox, heard>>

Tick ==
  /\ \E f \in Flows : flow[f].status # "absent" /\ now < FlowHorizon(f)
  /\ now' = now + 1
  /\ UNCHANGED <<flow, outbox, session, heard, spent>>

-----------------------------------------------------------------------------

EffectStep(id) ==
  Execute(id) \/ Deliver(id) \/ DeliverUnsettled(id) \/ SettleTold(id) \/ TryAgain(id) \/ FailFinally(id)

Next ==
  \/ \E f \in Flows : FireTimer(f)
  \/ \E id \in DOMAIN outbox : EffectStep(id)
  \/ \E a \in Answers : Hear(a[1], a[2])
  \/ TouchSession
  \/ Tick

-----------------------------------------------------------------------------
(* The handoff of the bridge's unfinished work (src/src/migration/*-handoff.ts): what an
   instance is created with for each thing the bridge's frozen state may say, and how the
   workflows go on from there.  Applying a handoff inserts the instances without any
   effect; the outside world is as the bridge left it. *)

\* A timestamp of the frozen state, such as that of the next attempt, or frozenAt
Instants == FrozenAt .. FrozenAt + 1
Later(a, b) == IF a > b THEN a ELSE b
Import(f, d, marks, s) == [of |-> f, row |-> d, marks |-> marks, session |-> s]
Finished(s) == Decision("completed", s, None, {})
WaitingSince(states, instants) == UNION {{Waiting(s, t, {}) : s \in states} : t \in instants}

ResearchAt(phase, n, hasTask) == [ResearchStart(hasTask, FrozenAt).state EXCEPT !.phase = phase, !.seq = n]
ResearchTold(hasTask) == [ResearchAt("syncing", 0, hasTask) EXCEPT !.told = TRUE]
ResearchOver(hasTask) == [ResearchAt("completed", 0, hasTask) EXCEPT !.told = TRUE, !.updated = TRUE]

\* Faulty variant: the reply the bridge has reported waits for nobody
ResearchImportsUnwoken(hasTask) ==
  WaitingSince({ResearchAt("ready", n, hasTask) : n \in 0 .. 1}, Instants)
    \cup {Waiting(ResearchAt("waiting-reply", 0, hasTask), None, {})}
    \cup {Waiting(ResearchTold(hasTask), None, {}) : x \in {TRUE} \cap {hasTask}}

\* prepareXiaoweiResearchHandoff: a reply the bridge keeps has been shown to the owner, and
\* only the task is behind
ResearchImports(hasTask) ==
  WaitingSince({ResearchAt("ready", n, hasTask) : n \in 0 .. 1}, Instants)
    \cup {Waiting(ResearchAt("waiting-reply", 0, hasTask), None, {})}
    \cup WaitingSince({ResearchTold(hasTask)}, {t \in Instants : hasTask})
    \cup {Finished(ResearchOver(hasTask))}

\* Faulty variant: the retention starts with the handoff, whatever the retry says
SessionWakeRetry(archivedAt, retry) == Later(FrozenAt, retry)

\* A retry never comes before the retention is over
SessionWake(archivedAt, retry) == Later(Later(FrozenAt, archivedAt + DeleteAfter), retry)

\* prepareSessionLifecycleHandoff
OnceFailed(op) == {NoFailure, [op |-> op, at |-> 0, count |-> 1]}
SessionReady(eligible, failure) == [SessionStart(FrozenAt).state EXCEPT !.eligible = eligible, !.failure = failure]
SessionAway(phase, at, failure) ==
  [SessionStart(FrozenAt).state EXCEPT !.phase = phase, !.archivedAt = at, !.failure = failure]
ArchivedSession(at) == [exists |-> TRUE, archivedAt |-> at]
SessionImports ==
  {Import("session", d, {}, SessionLive) :
     d \in WaitingSince(UNION {{SessionReady(e, x) : x \in OnceFailed("archiveSession")} : e \in BOOLEAN}, Instants)}
    \cup {Import("session", Finished(SessionAway("completed", 0, NoFailure)), {}, [exists |-> FALSE, archivedAt |-> 0])}
    \cup (UNION {{Import("session", d, {}, ArchivedSession(a)) :
                    d \in WaitingSince({SessionAway("archived", a, x) : x \in OnceFailed("deleteSession")},
                                       {SessionWake(a, t) : t \in Instants})} : a \in 0 .. FrozenAt})

\* prepareFollowupHandoff: the bridge has sent the cards of those that wait for the owner
OutreachTried(n) == [OutreachStart(FrozenAt).state EXCEPT !.seq = n]
ChoiceAsked(S) == [OutreachTried(0) EXCEPT !.phase = "awaiting-contact", !.candidates = S]
ApprovalAsked(c) == [OutreachTried(0) EXCEPT !.phase = "awaiting-approval", !.contact = c]
ReplyAwaited(c) == [OutreachTried(0) EXCEPT !.phase = "waiting-reply", !.contact = c]
OutreachOver == [OutreachTried(0) EXCEPT !.phase = "completed"]
OutreachImports ==
  {Import("outreach", d, {}, SessionLive) : d \in WaitingSince({OutreachTried(n) : n \in 0 .. 1}, Instants)}
    \cup {Import("outreach", Waiting(s, None, {}), {"old card"}, SessionLive) :
            s \in {ChoiceAsked(S) : S \in SUBSET Contacts} \cup {ApprovalAsked(c) : c \in Contacts}}
    \cup {Import("outreach", Waiting(ReplyAwaited(c), None, {}), {"sent"}, SessionLive) : c \in Contacts}
    \cup {Import("outreach", Finished(OutreachOver), {"sent"}, SessionLive)}

ReviewReady(last) == [ReviewStart(FrozenAt).state EXCEPT !.last = last]
ReviewImports == WaitingSince({ReviewReady(d) : d \in {None, DayOf(FrozenAt)}}, {FrozenAt})

\* prepareDidaMaintenanceHandoff: legacyFailure keeps who was told
LegacyFailures == {None} \cup {[at |-> 0, count |-> 1, told |-> b] : b \in BOOLEAN}
OverdueReady(S, print, failure) ==
  [OverdueStart(FrozenAt).state EXCEPT !.notified = [t \in S |-> [print |-> print, at |-> FrozenAt]], !.failure = failure]
OverdueImports ==
  WaitingSince(UNION {UNION {{OverdueReady(S, p, x) : S \in SUBSET Tasks} : p \in Prints} : x \in LegacyFailures}, {FrozenAt})
CleanupReady(day, failure) == [CleanupStart(FrozenAt).state EXCEPT !.last = day, !.failure = failure]
CleanupImports ==
  WaitingSince(UNION {{CleanupReady(d, x) : d \in {None, LocalDay(FrozenAt)}} : x \in LegacyFailures}, {FrozenAt})

Imports ==
  UNION {SessionImports, OutreachImports,
         {Import("review", d, {}, SessionLive) : d \in ReviewImports},
         {Import("overdue", d, {}, SessionLive) : d \in OverdueImports},
         {Import("cleanup", d, {}, SessionLive) : d \in CleanupImports},
         UNION {{Import(f, d, IF d.state.phase = "ready" THEN {} ELSE {"sent"}, SessionLive) :
                   d \in ResearchImports(f = "research")} : f \in {"research", "research-untracked"}}}

\* applyXHandoff: createWorkflow
ImportInit ==
  \E i \in {x \in Imports : x.of \in Flows} :
    /\ now = FrozenAt
    /\ flow = [f \in Flows |-> IF f # i.of THEN Absent
                 ELSE [status |-> i.row.status, state |-> i.row.state, wake |-> i.row.wake, fired |-> FALSE]]
    /\ outbox = << >>
    /\ session = i.session
    /\ heard = {<<i.of, m, None>> : m \in i.marks}
    /\ spent = [answers |-> 0, failures |-> 0, retries |-> 0, faults |-> 0, touches |-> 0]

Spec == (Init \/ ImportInit) /\ [][Next]_vars

-----------------------------------------------------------------------------
(* Properties *)

Phase(f) == flow[f].state.phase
Over(f) == Phase(f) \in {"completed", "failed"}
Running == {f \in Flows : flow[f].status # "absent" /\ ~Over(f)}
RowsOf(f) == {id \in DOMAIN outbox : outbox[id].of = f}
Open(id) == outbox[id].status \in {"pending", "executed", "told"}
Marked(f, mark) == <<f, mark, None>> \in heard
Executed(f, kind) == {id \in RowsOf(f) : outbox[id].tried /\ outbox[id].effect.kind = kind}

\* A workflow that is not over is never left to itself: it has a wake-up to come, an
\* effect under way that its phase is about, or asks somebody who has been reached
\* (wakeAt's three states, docs/adr/0006, and every null the reducers return).  Of what a
\* handoff imports, only what the bridge has asked the owner by a card of its own waits for
\* ever: those cards carry no correlation.
Expects(f) ==
  \/ /\ Phase(f) \in {"awaiting-approval", "awaiting-contact"}
     /\ \E id \in Executed(f, "requestInteraction") : TRUE
  \/ Phase(f) = "waiting-reply" /\ Sent(f)
Forgotten(f) ==
  /\ ~(flow[f].status = "waiting" /\ flow[f].wake # None /\ ~flow[f].fired)
  /\ \A id \in RowsOf(f) : Open(id) => /\ outbox[id].effect.kind = "notifyOwner"
                             /\ Phase(f) \notin {"notifying", "reporting", "syncing", "distributing", "projecting"}
  /\ ~Expects(f)
NothingForgotten == \A f \in Running : Marked(f, "old card") \/ ~Forgotten(f)

\* A due timer can be dispatched: one that cannot ends every pass before any effect is
\* claimed (DurableWorkflowRuntime.runOnce)
TimerCommits(f) == Due(f) => Commits(f, Timer(f))
TimersCommit == \A f \in Flows \ {"cleanup"} : TimerCommits(f)

\* ... and so should the cleanup's, which "will keep retrying in the background"
\* (src/src/task-maintenance/workflows.ts:247)
CleanupRetries == "cleanup" \in Flows => TimerCommits("cleanup")

\* What the world sees as messages of a workflow is one message, and the owner approved
\* of its receiver (sendEffect's idempotency key, approvalId); what the bridge has sent
\* before a handoff is not sent again
OneApprovedMessage ==
  \A f \in Flows : \A i, j \in Executed(f, "sendAsUser") :
    /\ outbox[i].effect.key = outbox[j].effect.key
    /\ outbox[i].effect.about = outbox[j].effect.about
    /\ f = "outreach" => <<f, "approved", outbox[i].effect.about>> \in heard
    /\ ~Marked(f, "sent")

\* The scans leave no gap: from the start of the first window to the end of the last
\* successful one, every instant lies in a window that was scanned
Scanned == {outbox[id].effect.about : id \in {i \in Executed("discovery", "discoverSignals") :
                                                outbox[i].status \in {"told", "delivered"}}}
NoScanGap ==
  "discovery" \in Running /\ spent.faults = 0 /\ flow["discovery"].state.last # None =>
    \A v \in Scanned : \A t \in v.from .. flow["discovery"].state.last :
      \E w \in Scanned : w.from <= t /\ t <= w.until

\* A session the owner leaves alone is deleted only after the authorized retention, and,
\* without faults, after the configured one
RetentionKept ==
  [][session.exists /\ ~session'.exists /\ spent.touches = 0 =>
       now - session.archivedAt >= IF spent.faults = 0 THEN DeleteAfter ELSE MinArchived]_vars

\* A workflow that is over has done what it was for, unless the bridge had begun it
CompletedMeansDone ==
  \A f \in Flows : flow[f].status # "absent" /\ Phase(f) = "completed" /\ ~Marked(f, "sent") =>
    CASE f = "outreach" ->
           \/ \E c \in Contacts : <<f, "declined", c>> \in heard
           \/ /\ Executed(f, "sendAsUser") # {} /\ <<f, "reply", None>> \in heard
              /\ Executed(f, "recordFollowupReply") # {} /\ Executed(f, "notifyOwner") # {}
      [] f \in {"research", "research-untracked"} ->
           /\ <<f, "reply", "final">> \in heard /\ Executed(f, "notifyOwner") # {}
           /\ f = "research" => Executed(f, "recordResearchResult") # {}
      [] f = "session" -> ~session.exists
      [] f = "policy" -> Cardinality(Executed(f, "applyDecision")) = 1
      [] OTHER -> \A id \in RowsOf(f) : outbox[id].tried

\* Together: the tables and timers are as the runtime needs them (runOnce, dispatch), the
\* scans leave no gap (startDiscovery), and what a workflow says of itself and of what the
\* owner approved is true of the world
FeatureInvariant == TypeOK /\ TimersCommit /\ NoScanGap /\ OneApprovedMessage /\ CompletedMeansDone

\* A workflow that is over stays so
OutcomeStands ==
  [][\A f \in Flows : flow[f].status # "absent" /\ Over(f) =>
       flow'[f].state.phase = Phase(f) \/ spent.faults > 0]_vars
=============================================================================

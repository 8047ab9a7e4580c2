-------------------------------- MODULE Features --------------------------------
(***************************************************************************)
(* The feature workflows: the vocabulary they share with the runtime       *)
(* (src/src/workflow/contracts.ts), that is the events a reducer gets and  *)
(* the decisions it returns, and the reducers of every feature.            *)
(*                                                                         *)
(* A reducer is an operator  Decide(s, event)  from the state of an        *)
(* instance and an event to a decision, or to Refused when the code throws. *)
(* An effect is a record: its row id (the primary key of workflow_effect,  *)
(* hashed in the code), its kind, the idempotency key under which the      *)
(* outside world sees it, and what the properties need of its payload.     *)
(***************************************************************************)
EXTENDS Integers

CONSTANTS
  None,     \* null: no wake-up, no value
  Keep      \* undefined: the wake-up stays as it is

\* WorkflowEvent: type, the effect a verdict is about, the rest of the payload, occurredAt
TimerEvent(wake, now) == [type |-> "timer", effect |-> None, data |-> wake, at |-> now]
Verdict(type, effect, data, now) == [type |-> type, effect |-> effect, data |-> data, at |-> now]
Answer(type, data, now) == [type |-> type, effect |-> None, data |-> data, at |-> now]

IsVerdict(event) == event.type \in {"delivered", "failed"}
Delivered(event, kind) == event.type = "delivered" /\ event.effect.kind = kind
Failed(event, kind) == event.type = "failed" /\ event.effect.kind = kind

\* WorkflowDecision, and what stands for the absence of one
Refused == [status |-> "refused"]
Decision(status, state, wake, effects) ==
  [status |-> status, state |-> state, wake |-> wake, effects |-> effects]
Waiting(state, wake, effects) == Decision("waiting", state, wake, effects)
Unchanged(state) == Waiting(state, Keep, {})

Effect(kind, id, key, about) == [kind |-> kind, id |-> id, key |-> key, about |-> about]

\* FailureState: the operation that keeps failing, since when and how often
NoFailure == [op |-> "none", at |-> 0, count |-> 0]
Again(failure, op, now) ==
  [op |-> op, at |-> IF failure.op = op THEN failure.at ELSE now,
   count |-> IF failure.op = op THEN failure.count + 1 ELSE 1]

Doublings == <<1, 2, 4, 8, 16, 32, 64, 128, 256, 512, 1024>>
\* Math.min(retryMaxMs, retryBaseMs * 2 ** min(count - 1, 10))
Backoff(base, max, count) ==
  LET delay == base * Doublings[IF count - 1 < 10 THEN count ELSE 11]
  IN IF delay < max THEN delay ELSE max

OwnerNotice(id) == Effect("notifyOwner", id, id, None)

-----------------------------------------------------------------------------
(***************************************************************************)
(* The follow-up feature: one outreach to a contact                        *)
(* (src/src/followup/outreach-workflow.ts) and the review of every working *)
(* day that opens outreaches (src/src/followup/review-workflow.ts).        *)
(***************************************************************************)

CONSTANTS
  RetryBase, RetryMax,    \* retryBaseMs, retryMaxMs
  NotifyAfter,            \* failureNotifyThreshold
  ReviewPoll,             \* pollIntervalMs of the review
  DayOf(_), WorkHours(_)  \* slot(): the local day of an instant, and whether it is due

-----------------------------------------------------------------------------
(* followup.outreach *)

OutreachStart(now) ==
  Waiting([phase |-> "ready", seq |-> 0, contact |-> None, candidates |-> {},
           approved |-> FALSE, failure |-> NoFailure], now, {})

ResolveContact(s) == Effect("resolveContact", <<"followup-resolve", s.seq>>, <<"resolve", s.seq>>, None)

\* interactionEffect: the card that the phase calls for
Interaction(s) ==
  IF s.phase = "awaiting-approval"
    THEN Effect("requestInteraction", <<"followup-approval", s.contact, s.seq>>,
                <<"approval", s.contact>>, [asks |-> {"approved", "declined"}, of |-> s.contact])
  ELSE IF s.candidates # {}
    THEN Effect("requestInteraction", <<"followup-contact-choice", s.seq>>,
                <<"choice", s.seq>>, [asks |-> {"contact-selected"}, of |-> s.candidates])
    ELSE Effect("requestInteraction", <<"followup-contact-input", s.seq>>,
                <<"input", s.seq>>, [asks |-> {"contact-query"}, of |-> None])

\* Faulty variant: every attempt has an idempotency key of its own
SendMessageAnew(s) == Effect("sendAsUser", <<"followup-send", s.seq>>, <<"send", s.seq>>, s.contact)

SendMessage(s) == Effect("sendAsUser", <<"followup-send", s.seq>>, <<"send">>, s.contact)
RecordReply(s) == Effect("recordFollowupReply", <<"followup-task-update", s.seq>>, <<"reply">>, None)
ResultNotice(s) == Effect("notifyOwner", <<"followup-result-notify", s.seq>>, <<"result">>, None)

\* Instants are finer than the ticks of a model: the sequence tells two of a tick apart
OutreachRetry(s, op, now) ==
  LET failure == Again(s.failure, op, <<now, s.seq>>) IN
  Waiting([s EXCEPT !.failure = failure], now + Backoff(RetryBase, RetryMax, failure.count),
          IF failure.count = NotifyAfter
            THEN {OwnerNotice(<<"followup-failure-notice", op, failure.at>>)} ELSE {})

OutreachTimer(s) ==
  LET next == [s EXCEPT !.seq = @ + 1] IN
  CASE s.phase \in {"ready", "resolving"} ->
         Waiting([next EXCEPT !.phase = "resolving"], None, {ResolveContact(next)})
    [] s.phase \in {"awaiting-contact", "awaiting-approval"} -> Waiting(next, None, {Interaction(next)})
    [] s.phase = "sending" -> Waiting(next, None, {SendMessage(next)})
    [] s.phase = "updating-task" -> Waiting(next, None, {RecordReply(next)})
    [] s.phase = "notifying" -> Waiting(next, None, {ResultNotice(next)})
    [] s.phase = "waiting-reply" -> Unchanged(s)
    [] s.phase = "completed" -> Decision("completed", s, Keep, {})

AskApproval(s, contact) ==
  LET next == [s EXCEPT !.phase = "awaiting-approval", !.contact = contact, !.candidates = {}]
  IN Waiting(next, None, {Interaction(next)})

OutreachResolved(s, found) ==
  LET ok == [s EXCEPT !.failure = NoFailure]
      unclear == [ok EXCEPT !.phase = "awaiting-contact", !.candidates = found]
  IN IF \E c \in found : found = {c}
       THEN AskApproval(ok, CHOOSE c \in found : TRUE)
       ELSE Waiting(unclear, None, {Interaction(unclear)})

\* What the owner and the contact answer.  An approval carries the id of its card, which
\* names the contact; a reply, the message it answers.
OutreachAnswered(s, event) ==
  LET sending == [s EXCEPT !.phase = "sending", !.seq = @ + 1, !.approved = TRUE]
      searching == [s EXCEPT !.phase = "resolving", !.candidates = {}, !.seq = @ + 1]
      updating == [s EXCEPT !.phase = "updating-task", !.seq = @ + 1]
  IN
  CASE event.type = "contact-selected" /\ s.phase = "awaiting-contact" ->
         IF event.data \in s.candidates THEN AskApproval(s, event.data) ELSE Refused
    [] event.type = "contact-query" /\ s.phase = "awaiting-contact" ->
         Waiting(searching, None, {ResolveContact(searching)})
    [] event.type \in {"approved", "declined"} /\ s.phase = "awaiting-approval" ->
         IF event.data # s.contact THEN Refused
         ELSE IF event.type = "declined"
           THEN Decision("completed", [s EXCEPT !.phase = "completed"], None, {})
           ELSE Waiting(sending, None, {SendMessage(sending)})
    [] event.type = "reply" /\ s.phase = "waiting-reply" -> Waiting(updating, None, {RecordReply(updating)})
    [] OTHER -> Decision(IF s.phase = "completed" THEN "completed" ELSE "waiting", s, Keep, {})

IsFailureNotice(event) == event.effect.id[1] = "followup-failure-notice"

OutreachVerdict(s, event) ==
  LET ok == [s EXCEPT !.failure = NoFailure]
      notifying == [ok EXCEPT !.phase = "notifying", !.seq = @ + 1]
  IN
  CASE Delivered(event, "resolveContact") /\ s.phase = "resolving" -> OutreachResolved(s, event.data)
    [] Delivered(event, "sendAsUser") /\ s.phase = "sending" ->
         Waiting([ok EXCEPT !.phase = "waiting-reply"], None, {})
    [] Delivered(event, "recordFollowupReply") /\ s.phase = "updating-task" ->
         Waiting(notifying, None, {ResultNotice(notifying)})
    [] IsFailureNotice(event) -> Unchanged(s)
    [] Delivered(event, "notifyOwner") /\ s.phase = "notifying" /\ ~IsFailureNotice(event) ->
         Decision("completed", [ok EXCEPT !.phase = "completed"], None, {})
    [] Delivered(event, "requestInteraction") -> Unchanged(s)
    [] Failed(event, "resolveContact") /\ s.phase = "resolving" ->
         OutreachRetry([s EXCEPT !.phase = "ready"], "resolve-contact", event.at)
    [] Failed(event, "sendAsUser") /\ s.phase = "sending" -> OutreachRetry(s, "send", event.at)
    [] Failed(event, "recordFollowupReply") /\ s.phase = "updating-task" ->
         OutreachRetry(s, "task-update", event.at)
    [] Failed(event, "notifyOwner") /\ s.phase = "notifying" /\ ~IsFailureNotice(event) ->
         OutreachRetry(s, "notify", event.at)
    [] Failed(event, "requestInteraction") -> OutreachRetry(s, "interaction", event.at)
    [] OTHER -> Decision(IF s.phase = "completed" THEN "completed" ELSE "waiting", s, Keep, {})

Outreach(s, event) ==
  CASE event.type = "timer" -> OutreachTimer(s)
    [] IsVerdict(event) -> OutreachVerdict(s, event)
    [] OTHER -> OutreachAnswered(s, event)

-----------------------------------------------------------------------------
(* followup.workday-review *)

ReviewStart(now) ==
  Waiting([phase |-> "scheduled", seq |-> 0, last |-> None, pending |-> {}, plan |-> None], now, {})

\* The plan of an evaluation: the tasks to update, whether to remind, the outreaches to open
ReviewDone(s, now) ==
  Waiting([s EXCEPT !.phase = "scheduled", !.last = DayOf(now), !.pending = {}, !.plan = None],
          now + ReviewPoll, {})

Digests(plan, now) ==
  {OwnerNotice(<<"followup-updates", DayOf(now)>>) : t \in plan.updates}
    \cup (IF plan.remind THEN {OwnerNotice(<<"followup-reminders", DayOf(now)>>)} ELSE {})
    \cup {Effect("openOutreach", <<"followup-open-outreach", t>>, <<"open", t>>, t) : t \in plan.open}

ReviewDistribute(s, plan, now) ==
  LET effects == Digests(plan, now) IN
  IF effects = {} THEN ReviewDone(s, now)
  ELSE Waiting([s EXCEPT !.phase = "distributing", !.plan = plan, !.pending = {e.id : e \in effects}],
               None, effects)

ReviewTimer(s, now) ==
  LET next == [s EXCEPT !.phase = "loading", !.seq = @ + 1] IN
  IF ~WorkHours(now) \/ s.last = DayOf(now)
    THEN Waiting(s, now + ReviewPoll, {})
    ELSE Waiting(next, None,
           {Effect("listActive", <<"followup-list-active", DayOf(now), next.seq>>, <<"list">>, None)})

Updates(plan, now) ==
  {Effect("applyFollowupUpdate", <<"followup-apply-update", t, DayOf(now)>>, <<"update", t, DayOf(now)>>, t)
     : t \in plan.updates}

ReviewEvaluated(s, plan, now) ==
  IF plan.updates = {} THEN ReviewDistribute(s, plan, now)
  ELSE Waiting([s EXCEPT !.phase = "applying", !.plan = plan,
                         !.pending = {e.id : e \in Updates(plan, now)}], None, Updates(plan, now))

\* One of the effects a phase waits for has been settled
Settles(s, event) == event.effect.id \in s.pending
LastOf(s, event) == s.pending = {event.effect.id}
Fewer(s, event) == [s EXCEPT !.pending = @ \ {event.effect.id}]

ReviewVerdict(s, event) ==
  CASE Delivered(event, "listActive") /\ s.phase = "loading" ->
         Waiting([s EXCEPT !.phase = "evaluating"], None,
           {Effect("evaluateFollowups", <<"followup-evaluate", DayOf(event.at), s.seq>>, <<"evaluate">>, None)})
    [] Delivered(event, "evaluateFollowups") /\ s.phase = "evaluating" ->
         ReviewEvaluated(s, event.data, event.at)
    [] Delivered(event, "applyFollowupUpdate") /\ s.phase = "applying" ->
         IF ~Settles(s, event) THEN Unchanged(s)
         ELSE IF LastOf(s, event) THEN ReviewDistribute(Fewer(s, event), s.plan, event.at)
         ELSE Unchanged(Fewer(s, event))
    [] s.phase = "distributing" ->
         IF ~Settles(s, event) THEN Unchanged(s)
         ELSE IF LastOf(s, event) THEN ReviewDone(s, event.at)
         ELSE Unchanged(Fewer(s, event))
    [] event.type = "failed" /\ s.phase \in {"loading", "evaluating", "applying"} ->
         Waiting([s EXCEPT !.phase = "scheduled", !.pending = {}], event.at + ReviewPoll, {})
    [] OTHER -> Unchanged(s)

Review(s, event) ==
  CASE event.type = "timer" /\ s.phase = "scheduled" -> ReviewTimer(s, event.at)
    [] IsVerdict(event) -> ReviewVerdict(s, event)
    [] OTHER -> Unchanged(s)

-----------------------------------------------------------------------------
(***************************************************************************)
(* Message intake: what becomes of one inbound message or card action      *)
(* (src/src/intake/workflow.ts), and the periodic discovery of messages    *)
(* the channel did not push (src/src/intake/discovery-workflow.ts).        *)
(***************************************************************************)

CONSTANTS
  DiscoveryInterval, DiscoveryOverlap, DiscoveryRetry   \* intervalMs, overlapMs, retryMs

-----------------------------------------------------------------------------
(* message-intake.v1 *)

IntakeEffect(kind, suffix, about) == Effect(kind, <<"intake", suffix>>, <<"intake", suffix>>, about)

\* initialize: a card action goes straight to the workflow that asked, a message needs
\* its context first.  Intake never sets a wake-up.
IntakeStart(route) ==
  LET first == IF route = "interaction" THEN IntakeEffect("applyInteraction", "interaction", None)
               ELSE IntakeEffect("loadMessageContext", "context", None)
  IN Waiting([phase |-> IF route = "interaction" THEN "projecting" ELSE "loading-context",
              route |-> route, pending |-> {first.id}, approval |-> FALSE, decided |-> None],
             None, {first})

IntakeStatus(s) == IF s.phase = "completed" THEN "completed" ELSE "waiting"

AfterContext(s) ==
  LET effect == IF s.route = "owner-command" THEN IntakeEffect("dispatchConversation", "delegate", None)
                ELSE IntakeEffect("evaluateFocus", "evaluate", None)
  IN Waiting([s EXCEPT !.phase = IF s.route = "owner-command" THEN "projecting" ELSE "evaluating",
                       !.pending = {effect.id}], Keep, {effect})

AfterDelegation(s) ==
  LET report == IntakeEffect("notifyOwner", "delegation-result", None)
  IN Waiting([s EXCEPT !.phase = "reporting", !.pending = {report.id}], Keep, {report})

\* The decision of the evaluation: outcome, and whether to notify the owner or ask for an
\* approval, as far as validateIntakeDecision lets them combine
IntakeDecisions ==
  {d \in [outcome : {"ignored", "task", "notify"}, notify : BOOLEAN, approval : BOOLEAN] :
     /\ d.outcome = "ignored" => ~d.notify
     /\ d.approval => d.notify}

Projections(d) ==
  (IF d.outcome = "task" THEN {IntakeEffect("upsertIntake", "task", None)} ELSE {})
    \cup (IF d.approval
            THEN {IntakeEffect("requestInteraction", "approval-card",
                               [asks |-> {"approved", "declined"}, of |-> "intake"])}
          ELSE IF d.notify THEN {IntakeEffect("notifyOwner", "notification", None)} ELSE {})

AfterEvaluation(s, d) ==
  LET effects == IF d.outcome = "ignored" THEN {} ELSE Projections(d) IN
  IF effects = {}
    THEN Decision("completed", [s EXCEPT !.phase = "completed", !.pending = {}], None, {})
    ELSE Waiting([s EXCEPT !.phase = "projecting", !.pending = {e.id : e \in effects},
                           !.approval = d.approval], Keep, effects)

SettleProjection(s, event) ==
  LET rest == s.pending \ {event.effect.id}
      next == [s EXCEPT !.pending = rest,
                 !.phase = CASE rest # {} -> "projecting"
                             [] rest = {} /\ s.approval -> "awaiting-approval"
                             [] OTHER -> "completed"]
  IN Decision(IntakeStatus(next), next, IF rest = {} THEN None ELSE Keep, {})

IntakeVerdict(s, event) ==
  CASE event.type = "failed" -> Decision("failed", [s EXCEPT !.phase = "failed"], None, {})
    [] Delivered(event, "loadMessageContext") /\ s.phase = "loading-context" -> AfterContext(s)
    [] Delivered(event, "evaluateFocus") /\ s.phase = "evaluating" -> AfterEvaluation(s, event.data)
    [] Delivered(event, "dispatchConversation") /\ s.phase = "projecting" /\ s.route = "owner-command" ->
         AfterDelegation(s)
    [] event.type = "delivered" /\ s.phase \in {"projecting", "reporting"}
         /\ ~(s.phase = "projecting" /\ s.route = "owner-command"
              /\ event.effect.kind = "dispatchConversation") -> SettleProjection(s, event)
    [] OTHER -> Decision(IntakeStatus(s), s, Keep, {})

\* An approval only counts once everything has been projected
IntakeAnswered(s, event) ==
  IF s.phase = "awaiting-approval" /\ event.type \in {"approved", "declined"}
    THEN IF event.data # "intake" THEN Refused
         ELSE Decision("completed", [s EXCEPT !.phase = "completed", !.decided = event.type], None, {})
    ELSE Decision(IntakeStatus(s), s, Keep, {})

MessageIntake(s, event) ==
  IF IsVerdict(event) THEN IntakeVerdict(s, event) ELSE IntakeAnswered(s, event)

-----------------------------------------------------------------------------
(* focus-discovery.v1 *)

DiscoveryStart(now) ==
  Waiting([phase |-> "scheduled", seq |-> 0, last |-> None, until |-> None], now, {})

\* Faulty variant: the window starts with the last attempt
DiscoveryWindowMoved(s, now) ==
  [from |-> (IF s.until = None THEN now - DiscoveryInterval ELSE s.until) - DiscoveryOverlap,
   until |-> now]

\* The window of a scan: from the end of the last successful one, with an overlap
DiscoveryWindow(s, now) ==
  [from |-> (IF s.last = None THEN now - DiscoveryInterval ELSE s.last) - DiscoveryOverlap,
   until |-> now]

\* Faulty variant: the scans are not told apart
StartDiscoveryAgain(s, now) ==
  Waiting([s EXCEPT !.phase = "discovering", !.until = now], None,
    {Effect("discoverSignals", <<"focus-discovery", s.seq + 1>>, <<"discovery", s.seq + 1>>,
            DiscoveryWindow(s, now))})

StartDiscovery(s, now) ==
  Waiting([s EXCEPT !.phase = "discovering", !.seq = @ + 1, !.until = now], None,
    {Effect("discoverSignals", <<"focus-discovery", s.seq + 1>>, <<"discovery", s.seq + 1>>,
            DiscoveryWindow(s, now))})

Discovery(s, event) ==
  CASE event.type = "timer" /\ s.phase = "scheduled" -> StartDiscovery(s, event.at)
    [] Delivered(event, "discoverSignals") /\ s.phase = "discovering" ->
         Waiting([s EXCEPT !.phase = "scheduled", !.last = s.until], event.at + DiscoveryInterval, {})
    [] Failed(event, "discoverSignals") /\ s.phase = "discovering" ->
         Waiting([s EXCEPT !.phase = "scheduled"], event.at + DiscoveryRetry, {})
    [] OTHER -> Unchanged(s)

-----------------------------------------------------------------------------
(***************************************************************************)
(* codex.session-lifecycle (src/src/session-lifecycle/workflow.ts): the    *)
(* archiving and, after a retention, the deletion of a research session,   *)
(* and the effects that carry it out (codex-effect-plugin.ts).             *)
(***************************************************************************)

CONSTANTS
  SessionPoll,                        \* pollIntervalMs
  SessionRetryBase, SessionRetryMax,  \* retryBaseMs, retryMaxMs
  DeleteAfter,                        \* deleteAfterMs
  MinArchived,                        \* minimumArchivedDays of the authorization
  SessionNotifyAfter, SessionCooldown \* failureNotifyThreshold, failureNotifyCooldownMs

SessionStart(now) ==
  Waiting([phase |-> "waiting", seq |-> 0, eligible |-> FALSE, archivedAt |-> None,
           failure |-> NoFailure, noticeAt |-> None], now, {})

SessionEffect(kind, s, about) == Effect(kind, <<kind, s.seq>>, <<kind, s.seq>>, about)
Recovered(s) == [s EXCEPT !.failure = NoFailure, !.noticeAt = None]
SessionNotice(s, suffix) == OwnerNotice(<<"session-notification", suffix, s.seq>>)

\* retryDecision: back off, and tell the owner once per cooldown
SessionRetry(s, op, now) ==
  LET failure == Again(s.failure, op, now)
      notice == IF s.failure.op = op THEN s.noticeAt ELSE None
      tell == failure.count >= SessionNotifyAfter /\ (notice = None \/ now - notice >= SessionCooldown)
  IN Waiting([s EXCEPT !.phase = IF op = "deleteSession" THEN "archived" ELSE "waiting",
                       !.failure = failure, !.noticeAt = IF tell THEN now ELSE notice],
             now + Backoff(SessionRetryBase, SessionRetryMax, failure.count),
             IF tell THEN {SessionNotice(s, op)} ELSE {})

SessionTimer(s, now) ==
  LET next == [s EXCEPT !.seq = @ + 1] IN
  CASE s.phase = "waiting" /\ ~s.eligible -> Waiting(s, now + SessionPoll, {})
    [] s.phase = "waiting" /\ s.eligible ->
         Waiting([next EXCEPT !.phase = "inspecting"], None, {SessionEffect("inspectSession", next, None)})
    [] s.phase = "archived" ->
         Waiting([next EXCEPT !.phase = "deleting"], None,
                 {SessionEffect("deleteSession", next, [archivedAt |-> s.archivedAt, at |-> now])})
    [] OTHER -> Decision(IF s.phase = "completed" THEN "completed" ELSE "waiting", s, Keep, {})

\* Faulty variant: the deletion is due at once
ArchivedDue(s, archivedAt, now, effects) ==
  Waiting([Recovered(s) EXCEPT !.phase = "archived", !.archivedAt = archivedAt], now, effects)

Archived(s, archivedAt, now, effects) ==
  Waiting([Recovered(s) EXCEPT !.phase = "archived", !.archivedAt = archivedAt],
          archivedAt + DeleteAfter, effects)

\* found.running: anything but a confirmed "not running"
SessionInspected(s, found, now) ==
  CASE ~found.exists -> Decision("completed", [Recovered(s) EXCEPT !.phase = "completed"], None, {})
    [] found.exists /\ found.running ->
         Waiting([Recovered(s) EXCEPT !.phase = "waiting"], now + SessionPoll, {})
    [] found.exists /\ ~found.running /\ found.archived -> Archived(s, now, now, {})
    [] OTHER -> Waiting([Recovered(s) EXCEPT !.phase = "checking-task"], None,
                        {SessionEffect("isTaskCompleted", s, None)})

SessionTaskChecked(s, completed, now) ==
  IF completed
    THEN Waiting([Recovered(s) EXCEPT !.phase = "archiving"], None, {SessionEffect("archiveSession", s, None)})
    ELSE Waiting([Recovered(s) EXCEPT !.phase = "waiting"], now + SessionPoll, {})

SessionDeleted(s, outcome, now) ==
  IF outcome \in {"deleted", "missing"}
    THEN Decision("completed", [Recovered(s) EXCEPT !.phase = "completed"], Keep, {})
    ELSE Waiting([Recovered(s) EXCEPT !.phase = "archived"], now + SessionPoll, {})

OperationOf == [inspecting |-> "inspectSession", archiving |-> "archiveSession",
                deleting |-> "deleteSession"]
\* operationFor: a failure counts in the phase that waits for it
SessionFails(s, event) ==
  /\ event.type = "failed"
  /\ \/ s.phase = "checking-task" /\ event.effect.kind = "isTaskCompleted"
     \/ s.phase \in DOMAIN OperationOf /\ event.effect.kind = OperationOf[s.phase]

\* Whatever else arrives while the session waits or is archived moves the wake-up
SessionOther(s, now) ==
  Decision(IF s.phase = "completed" THEN "completed" ELSE "waiting", s,
           IF s.phase \in {"waiting", "archived"} THEN now + SessionPoll ELSE Keep, {})

SessionVerdict(s, event) ==
  CASE Delivered(event, "inspectSession") /\ s.phase = "inspecting" ->
         SessionInspected(s, event.data, event.at)
    [] Delivered(event, "isTaskCompleted") /\ s.phase = "checking-task" ->
         SessionTaskChecked(s, event.data, event.at)
    [] Delivered(event, "archiveSession") /\ s.phase = "archiving" ->
         Archived(s, event.data.archivedAt, event.at,
                  IF event.data.already THEN {} ELSE {OwnerNotice(<<"session-notification", "archived">>)})
    [] Delivered(event, "deleteSession") /\ s.phase = "deleting" -> SessionDeleted(s, event.data, event.at)
    [] event.effect.kind = "notifyOwner" -> Unchanged(s)
    [] SessionFails(s, event) -> SessionRetry(s, event.effect.kind, event.at)
    [] OTHER -> SessionOther(s, event.at)

Session(s, event) ==
  CASE event.type = "eligible" ->
         IF s.phase = "waiting" THEN Waiting([s EXCEPT !.eligible = TRUE], event.at, {}) ELSE Refused
    [] event.type = "timer" /\ s.phase \in {"waiting", "archived"} -> SessionTimer(s, event.at)
    [] IsVerdict(event) -> SessionVerdict(s, event)
    [] OTHER -> SessionOther(s, event.at)

-----------------------------------------------------------------------------
(* CodexSessionEffectAdapter: what the session is, and what an effect does to it *)

\* A session: whether it exists, since when it is archived
SessionLive == [exists |-> TRUE, archivedAt |-> None]

\* delete(): refused before the authorized retention is over
MayDelete(effect) == effect.about.at - effect.about.archivedAt >= MinArchived

\* execute: the session afterwards, and what is returned
SessionArchiveResult(session, now) ==
  [session |-> IF session.archivedAt = None THEN [session EXCEPT !.archivedAt = now] ELSE session,
   data |-> [archivedAt |-> IF session.archivedAt = None THEN now ELSE session.archivedAt,
             already |-> session.archivedAt # None]]
SessionDeleteResult(session) ==
  IF session.exists /\ session.archivedAt # None
    THEN [session |-> [session EXCEPT !.exists = FALSE], data |-> "deleted"]
    ELSE [session |-> session, data |-> IF session.exists THEN "not-archived" ELSE "missing"]

-----------------------------------------------------------------------------
(***************************************************************************)
(* xiaowei.research (src/src/xiaowei/workflow.ts): an approved question to *)
(* the research agent, its answer, and the two places the answer goes to.  *)
(***************************************************************************)

CONSTANTS
  ResearchRetryBase, ResearchRetryMax,  \* retryBaseMs, retryMaxMs
  ResearchNotifyAfter                   \* failureNotifyThreshold

\* The task is optional: without one there is nothing to update
ResearchStart(hasTask, now) ==
  Waiting([phase |-> "ready", seq |-> 0, told |-> FALSE, updated |-> ~hasTask,
           failure |-> NoFailure], now, {})

SendRequest(s) == Effect("sendAsUser", <<"xiaowei-send", s.seq>>, <<"xiaowei-request">>, "agent")

\* pendingSyncEffects: first the owner, then the task
SyncEffects(s) ==
  CASE ~s.told -> {Effect("notifyOwner", <<"xiaowei-notify", s.seq>>, <<"xiaowei-result">>, None)}
    [] s.told /\ ~s.updated ->
         {Effect("recordResearchResult", <<"xiaowei-task-update", s.seq>>, <<"xiaowei-task-result">>, None)}
    [] OTHER -> {}

ResearchRetry(s, op, now) ==
  LET failure == Again(s.failure, op, now) IN
  Waiting([s EXCEPT !.phase = IF op = "send" THEN "ready" ELSE "syncing", !.failure = failure],
          now + Backoff(ResearchRetryBase, ResearchRetryMax, failure.count),
          IF failure.count = ResearchNotifyAfter
            THEN {OwnerNotice(<<"xiaowei-failure-notify", op, failure.at>>)} ELSE {})

ResearchTimer(s) ==
  LET next == [s EXCEPT !.seq = @ + 1] IN
  CASE s.phase = "ready" -> Waiting([next EXCEPT !.phase = "sending"], None, {SendRequest(next)})
    [] s.phase = "syncing" -> Waiting(next, None, SyncEffects(next))
    [] OTHER -> Decision(IF s.phase = "completed" THEN "completed" ELSE "waiting", s, Keep, {})

\* Faulty variant: the second half is forgotten once the first has been delivered
ResearchSyncedOnce(s, kind) ==
  LET next == [s EXCEPT !.failure = NoFailure, !.told = @ \/ kind = "notifyOwner",
                        !.updated = @ \/ kind = "recordResearchResult"]
  IN IF next.told /\ next.updated THEN Decision("completed", [next EXCEPT !.phase = "completed"], Keep, {})
     ELSE Waiting(next, None, {})

ResearchSynced(s, kind) ==
  LET next == [s EXCEPT !.failure = NoFailure, !.told = @ \/ kind = "notifyOwner",
                        !.updated = @ \/ kind = "recordResearchResult"]
  IN IF next.told /\ next.updated THEN Decision("completed", [next EXCEPT !.phase = "completed"], Keep, {})
     ELSE Waiting(next, None, SyncEffects(next))

IsResearchNotice(event) == event.effect.id[1] = "xiaowei-failure-notify"

ResearchVerdict(s, event) ==
  LET kind == event.effect.kind IN
  CASE IsResearchNotice(event) -> Unchanged(s)
    [] Delivered(event, "sendAsUser") /\ s.phase = "sending" ->
         Waiting([s EXCEPT !.phase = "waiting-reply", !.failure = NoFailure], None, {})
    [] event.type = "delivered" /\ s.phase = "syncing" /\ ~IsResearchNotice(event) ->
         IF kind \in {"notifyOwner", "recordResearchResult"} THEN ResearchSynced(s, kind) ELSE Unchanged(s)
    [] Failed(event, "sendAsUser") /\ s.phase = "sending" -> ResearchRetry(s, "send", event.at)
    [] Failed(event, "notifyOwner") /\ s.phase = "syncing" /\ ~IsResearchNotice(event) ->
         ResearchRetry(s, "notify", event.at)
    [] Failed(event, "recordResearchResult") /\ s.phase = "syncing" ->
         ResearchRetry(s, "task-update", event.at)
    [] OTHER -> Decision(IF s.phase = "completed" THEN "completed" ELSE "waiting", s, Keep, {})

\* A reply is progress or final
ResearchReply(s, stage) ==
  LET next == [s EXCEPT !.phase = "syncing", !.seq = @ + 1, !.failure = NoFailure] IN
  IF stage = "progress" THEN Waiting([s EXCEPT !.failure = NoFailure], None, {})
  ELSE Waiting(next, None, SyncEffects(next))

ResearchFlow(s, event) ==
  CASE event.type = "timer" -> ResearchTimer(s)
    [] IsVerdict(event) -> ResearchVerdict(s, event)
    [] event.type = "reply" /\ s.phase = "waiting-reply" -> ResearchReply(s, event.data)
    [] OTHER -> Decision(IF s.phase = "completed" THEN "completed" ELSE "waiting", s, Keep, {})

-----------------------------------------------------------------------------
(***************************************************************************)
(* Maintenance of the automation tasks (src/src/task-maintenance/workflows.ts): *)
(* the reminders of overdue tasks, and the daily deletion of tasks         *)
(* completed long ago.                                                     *)
(***************************************************************************)

CONSTANTS
  OverdueInterval, OverdueRetry,  \* overdueIntervalMs, overdueRetryMs
  OverdueNotifyAfter,             \* failureNotifyThreshold
  ReminderInterval,               \* overdueReminderMinimumIntervalMs
  RemindersKept,                  \* the 180 days of pruneFingerprints
  CleanupPoll,                    \* cleanupPollIntervalMs
  CleanupNotifyAfter,             \* cleanupFailureNotifyThreshold
  LocalDay(_), CleanupDue(_),     \* localSlot: the local day, and whether its hour has come
  ReminderWindow(_),              \* localWindow
  SameDue(_, _)                   \* two fingerprints of one due day and priority

\* failure(): how often in a row, since when, and whether the owner knows
Failing(failure, now) ==
  [at |-> IF failure = None THEN now ELSE failure.at,
   count |-> IF failure = None THEN 1 ELSE failure.count + 1,
   told |-> failure # None /\ failure.told]
ToldNow(failure, threshold) == ~failure.told /\ failure.count >= threshold
Notices(name, failure, tell) == IF tell THEN {OwnerNotice(<<name, failure.at>>)} ELSE {}

-----------------------------------------------------------------------------
(* dida.overdue-monitor *)

\* notified: the fingerprint (due date and priority) a task was last reminded of, and when
OverdueStart(now) ==
  Waiting([phase |-> "scheduled", notified |-> << >>, failure |-> None], now, {})

\* A reminder is due unless the task was reminded of the same due day, or lately
Remind(s, task, print, now) ==
  /\ ReminderWindow(now)
  /\ task \in DOMAIN s.notified =>
       /\ s.notified[task].print # print /\ ~SameDue(s.notified[task].print, print)
       /\ now - s.notified[task].at >= ReminderInterval

\* found: the overdue tasks, a function from tasks to fingerprints
OverdueListed(s, found, now) ==
  LET due == {t \in DOMAIN found : Remind(s, t, found[t], now)}
      known == [t \in due \cup DOMAIN s.notified |->
                  IF t \in due THEN [print |-> found[t], at |-> now] ELSE s.notified[t]]
      kept == {t \in DOMAIN known : known[t].at >= now - RemindersKept}
  IN Waiting([s EXCEPT !.phase = "scheduled", !.failure = None,
                       !.notified = [t \in kept |-> known[t]]],
             now + OverdueInterval,
             {OwnerNotice(<<"dida-overdue-notification", t, found[t]>>) : t \in due}
               \cup (IF s.failure # None
                       THEN Notices("dida-overdue-recovered", s.failure, s.failure.told) ELSE {}))

OverdueFailed(s, now) ==
  LET failure == Failing(s.failure, now)
      tell == ToldNow(failure, OverdueNotifyAfter)
  IN Waiting([s EXCEPT !.phase = "scheduled", !.failure = [failure EXCEPT !.told = @ \/ tell]],
             now + OverdueRetry, Notices("dida-overdue-failed", failure, tell))

Overdue(s, event) ==
  CASE event.type = "timer" /\ s.phase = "scheduled" ->
         Waiting([s EXCEPT !.phase = "scanning"], None,
                 {Effect("listOverdue", <<"dida-overdue-scan", event.data>>, <<"scan">>, None)})
    [] IsVerdict(event) /\ event.effect.kind = "notifyOwner" -> Unchanged(s)
    [] Delivered(event, "listOverdue") -> OverdueListed(s, event.data, event.at)
    [] Failed(event, "listOverdue") -> OverdueFailed(s, event.at)
    [] OTHER -> Waiting(s, IF s.phase = "scheduled" THEN event.at + OverdueInterval ELSE Keep, {})

-----------------------------------------------------------------------------
(* dida.completed-cleanup *)

CleanupStart(now) ==
  Waiting([phase |-> "scheduled", day |-> None, last |-> None, failure |-> None], now, {})

CleanupTimer(s, now) ==
  IF ~CleanupDue(now) \/ s.last = LocalDay(now)
    THEN Waiting(s, now + CleanupPoll, {})
    ELSE Waiting([s EXCEPT !.phase = "cleaning", !.day = LocalDay(now)], None,
           {Effect("cleanupCompleted", <<"dida-completed-cleanup", LocalDay(now)>>, <<"cleanup">>, None)})

CleanupDone(s, deleted, now) ==
  Waiting([s EXCEPT !.phase = "scheduled", !.day = None, !.failure = None,
                    !.last = IF s.day = None THEN @ ELSE s.day],
          now + CleanupPoll,
          CASE deleted -> {OwnerNotice(<<"dida-cleanup-result", IF s.day = None THEN now ELSE s.day>>)}
            [] ~deleted /\ s.failure # None ->
                 Notices("dida-cleanup-recovered", s.failure, s.failure.told)
            [] OTHER -> {})

CleanupFailed(s, now) ==
  LET failure == Failing(s.failure, now)
      tell == ToldNow(failure, CleanupNotifyAfter)
  IN Waiting([s EXCEPT !.phase = "scheduled", !.day = None, !.failure = [failure EXCEPT !.told = @ \/ tell]],
             now + CleanupPoll, Notices("dida-cleanup-failed", failure, tell))

Cleanup(s, event) ==
  CASE event.type = "timer" /\ s.phase = "scheduled" -> CleanupTimer(s, event.at)
    [] IsVerdict(event) /\ event.effect.kind = "notifyOwner" -> Unchanged(s)
    [] Delivered(event, "cleanupCompleted") -> CleanupDone(s, event.data, event.at)
    [] Failed(event, "cleanupCompleted") -> CleanupFailed(s, event.at)
    [] OTHER -> Waiting(s, IF s.phase = "scheduled" THEN event.at + CleanupPoll ELSE Keep, {})

-----------------------------------------------------------------------------
(***************************************************************************)
(* Collaboration learning (src/src/collaboration/workflow.ts): the daily   *)
(* evaluation with its brief, and the approval of a policy it proposes.    *)
(***************************************************************************)

CONSTANT EvaluationInterval   \* intervalMs

-----------------------------------------------------------------------------
(* The schedule *)

ScheduleStart(now) == Waiting([phase |-> "scheduled", seq |-> 0], now, {})

NextEvaluation(s, now) ==
  Waiting([s EXCEPT !.phase = "scheduled", !.seq = @ + 1], now + EvaluationInterval, {})

Schedule(s, event) ==
  CASE event.type = "timer" /\ s.phase = "scheduled" ->
         Waiting([s EXCEPT !.phase = "evaluating"], None,
                 {Effect("evaluateCollaboration", <<"collaboration-evaluate", s.seq>>, <<"evaluate">>, None)})
    [] Delivered(event, "evaluateCollaboration") /\ s.phase = "evaluating" /\ event.data ->
         Waiting([s EXCEPT !.phase = "reporting"], None,
                 {Effect("notifyOwner", <<"collaboration-daily-brief", s.seq>>, <<"brief">>, None)})
    [] Delivered(event, "evaluateCollaboration") /\ s.phase = "evaluating" /\ ~event.data ->
         NextEvaluation(s, event.at)
    [] Failed(event, "evaluateCollaboration") /\ s.phase = "evaluating" -> NextEvaluation(s, event.at)
    [] IsVerdict(event) /\ s.phase = "reporting" /\ event.effect.kind = "notifyOwner" ->
         NextEvaluation(s, event.at)
    [] OTHER -> Unchanged(s)

-----------------------------------------------------------------------------
(* The approval of a policy *)

PolicyStart ==
  Waiting([phase |-> "awaiting-approval", decision |-> None], None,
          {Effect("requestInteraction", <<"collaboration-policy-card">>, <<"policy">>,
                  [asks |-> {"approved", "declined"}, of |-> "policy"])})

PolicyStatus(s) == IF s.phase \in {"completed", "failed"} THEN s.phase ELSE "waiting"

\* Faulty variant: a second answer replaces the first
PolicyAnsweredAgain(s, event) ==
  LET next == [s EXCEPT !.phase = "applying", !.decision = event.type] IN
  IF s.phase \in {"awaiting-approval", "applying"} /\ event.type \in {"approved", "declined"}
    THEN Waiting(next, Keep,
           {Effect("applyDecision", <<"collaboration-policy-decision", event.type>>, <<"decision">>, event.type)})
    ELSE Decision(PolicyStatus(s), s, Keep, {})

PolicyAnswered(s, event) ==
  LET next == [s EXCEPT !.phase = "applying", !.decision = event.type] IN
  IF s.phase = "awaiting-approval" /\ event.type \in {"approved", "declined"}
    THEN IF event.data # "policy" THEN Refused
         ELSE Waiting(next, Keep,
           {Effect("applyDecision", <<"collaboration-policy-decision", event.type>>, <<"decision">>, event.type)})
    ELSE Decision(PolicyStatus(s), s, Keep, {})

\* Faulty variant: a failure counts whatever the phase
PolicyFailedLate(s, event) ==
  CASE Delivered(event, "applyDecision") /\ s.phase = "applying" ->
         Decision("completed", [s EXCEPT !.phase = "completed"], Keep, {})
    [] event.type = "failed" -> Decision("failed", [s EXCEPT !.phase = "failed"], Keep, {})
    [] OTHER -> Decision(PolicyStatus(s), s, Keep, {})

PolicyVerdict(s, event) ==
  CASE Delivered(event, "applyDecision") /\ s.phase = "applying" ->
         Decision("completed", [s EXCEPT !.phase = "completed"], Keep, {})
    [] event.type = "failed" /\ s.phase \in {"awaiting-approval", "applying"} ->
         Decision("failed", [s EXCEPT !.phase = "failed"], Keep, {})
    [] OTHER -> Decision(PolicyStatus(s), s, Keep, {})

Policy(s, event) == IF IsVerdict(event) THEN PolicyVerdict(s, event) ELSE PolicyAnswered(s, event)
=============================================================================

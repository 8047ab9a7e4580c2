---------------------------- MODULE BridgeFollowup ----------------------------
(***************************************************************************)
(* The workday follow-up of the compatibility bridge                       *)
(* (packages/bridge-compat/src/weekly-followup-monitor.js): questions to   *)
(* people that a daily evaluation asks for.  Each is resolved to a contact,*)
(* approved by the owner, sent in his name, and recorded with its reply.   *)
(*                                                                         *)
(* One action is the code between two awaits.  The poll is one activity,   *)
(* every card the owner clicks starts another; they meet in the requests,  *)
(* whose status a handler checks when it starts and sets when it ends.     *)
(***************************************************************************)
EXTENDS Integers, FiniteSets

CONSTANTS
  None,         \* null
  Requests,     \* followupOutreachRequests, by outreachId
  Contacts,     \* people a search may find
  Handlers,     \* bound: card handlers that may run at once
  MaxDay,       \* bound: the last workday
  MaxFailures,  \* bound: calls that fail
  MaxCrashes    \* bound: exits of the process

VARIABLES state, disk, run, env
vars == <<state, disk, run, env>>

Open == {"new", "resolution_failed", "selecting_contact", "awaiting_contact_input", "pending_approval",
         "waiting_reply"}
NoRequest == [status |-> "none", contact |-> None, candidates |-> {}]
Resting == [pc |-> "idle", req |-> None, contact |-> None]
NoPoll == [phase |-> "idle", left |-> {}]
Actors == {"poll"} \cup Handlers
Quiet == [poll |-> NoPoll, act |-> [a \in Actors |-> Resting]]

Init ==
  /\ state = [req |-> [r \in Requests |-> NoRequest], checked |-> 0]
  /\ disk = state
  /\ run = Quiet
  /\ env = [day |-> 1, cards |-> {}, confirmed |-> {}, sent |-> [r \in Requests |-> None],
            replied |-> {}, lost |-> {}, failures |-> 0, crashes |-> 0]

-----------------------------------------------------------------------------
Save(s) == state' = s /\ disk' = s
Unsaved(s) == state' = s /\ UNCHANGED disk
Same == UNCHANGED <<state, disk>>
With(r, f) == [state EXCEPT !.req[r] = f]
Acts(a, pc, r, c) == [run EXCEPT !.act[a] = [pc |-> pc, req |-> r, contact |-> c]]
Rests(a) == [run EXCEPT !.act[a] = Resting]
Failing == env.failures < MaxFailures
Fails == [env EXCEPT !.failures = @ + 1]
Card(kind, r, cs) == [kind |-> kind, req |-> r, contacts |-> cs]
Asks(a) == run.act[a].pc \in {"choice", "input", "approval"}

-----------------------------------------------------------------------------
(* poll *)

Phase(p, left) == [run EXCEPT !.poll = [phase |-> p, left |-> left]]
PollRests == run.act["poll"].pc = "idle"

\* What waits for its next attempt is due or not
StartPoll ==
  /\ run.poll.phase = "idle"
  /\ \E due \in SUBSET Requests : run' = Phase("setup", due)
  /\ Same /\ UNCHANGED env

\* processOutreachSetup, resolveContact: the status counts when the loop gets there
SetUp(r) ==
  /\ run.poll.phase \in {"setup", "setup-again"} /\ PollRests
  /\ r \in run.poll.left
  /\ state.req[r].status \in {"new", "resolution_failed"}
  /\ run' = [Acts("poll", "search", r, None) EXCEPT !.poll.left = @ \ {r}]
  /\ Same /\ UNCHANGED env

NothingToSetUp ==
  PollRests /\ \A r \in run.poll.left : state.req[r].status \notin {"new", "resolution_failed"}

SetUpDone ==
  /\ run.poll.phase = "setup" /\ NothingToSetUp
  /\ \E due \in SUBSET Requests : run' = Phase("replies", due)
  /\ Same /\ UNCHANGED env

\* processOutreachReplies
CheckReply(r) ==
  /\ run.poll.phase = "replies" /\ PollRests
  /\ r \in run.poll.left /\ state.req[r].status = "waiting_reply"
  /\ run' = [Acts("poll", "fetch", r, state.req[r].contact) EXCEPT !.poll.left = @ \ {r}]
  /\ Same /\ UNCHANGED env

\* workdaySlot: the evaluation of the day, once it has been completed, is not repeated
RepliesDone ==
  /\ run.poll.phase = "replies" /\ PollRests
  /\ \A r \in run.poll.left : state.req[r].status # "waiting_reply"
  /\ run' = Phase(IF state.checked = env.day THEN "idle" ELSE "evaluate", {})
  /\ Same /\ UNCHANGED env

\* evaluateWorkdayFollowups, its notices and registerOutreachRequests: an id counts once
Evaluated ==
  /\ run.poll.phase = "evaluate"
  /\ \E R \in SUBSET {r \in Requests : state.req[r].status = "none"} :
       Save([state EXCEPT !.req = [r \in Requests |-> IF r \in R THEN [NoRequest EXCEPT !.status = "new"] ELSE @[r]]])
  /\ \E due \in SUBSET Requests : run' = Phase("setup-again", due)
  /\ UNCHANGED env

EvaluationFails ==
  /\ run.poll.phase = "evaluate" /\ Failing
  /\ Save(state)
  /\ run' = Phase("idle", {})
  /\ env' = Fails

DayDone ==
  /\ run.poll.phase = "setup-again" /\ NothingToSetUp
  /\ Save([state EXCEPT !.checked = env.day])
  /\ run' = Phase("idle", {})
  /\ UNCHANGED env

-----------------------------------------------------------------------------
(* resolveContact and sendApproval, for the poll or for a form *)

\* The search is back: who was found decides how it goes on
Resolved(a) ==
  LET r == run.act[a].req
      old == state.req[r]
  IN
  /\ run.act[a].pc = "search"
  /\ \E found \in SUBSET Contacts :
       CASE Cardinality(found) = 1 ->
              LET c == CHOOSE x \in found : TRUE
              IN Unsaved(With(r, [old EXCEPT !.contact = c, !.candidates = {}])) /\ run' = Acts(a, "approval", r, c)
         [] Cardinality(found) > 1 ->
              /\ Unsaved(With(r, [old EXCEPT !.status = "selecting_contact", !.candidates = found]))
              /\ run' = Acts(a, "choice", r, None)
         [] OTHER ->
              /\ Unsaved(With(r, [old EXCEPT !.status = "awaiting_contact_input", !.candidates = {}]))
              /\ run' = Acts(a, "input", r, None)
  /\ UNCHANGED env

\* The card is there
CardSent(a) ==
  LET act == run.act[a]
      r == act.req
  IN
  /\ Asks(a)
  /\ IF act.pc = "approval"
       THEN /\ Save(With(r, [state.req[r] EXCEPT !.status = "pending_approval"]))
            /\ env' = [env EXCEPT !.cards = @ \cup {Card("approval", r, {act.contact})}]
       ELSE /\ Save(state)
            /\ env' = [env EXCEPT !.cards = @ \cup
                 {IF act.pc = "choice" THEN Card("choice", r, state.req[r].candidates) ELSE Card("input", r, {})}]
  /\ run' = Rests(a)

\* Faulty variant: the poll, too, leaves a request whose card could not be sent as it is
StepFailsForgotten(a) ==
  /\ Asks(a) \/ run.act[a].pc = "search"
  /\ Failing
  /\ Same
  /\ run' = Rests(a)
  /\ env' = [Fails EXCEPT !.lost = IF a # "poll" /\ Asks(a) THEN @ \cup {run.act[a].req} ELSE @]

\* The search or the card fails: the poll will try again, a click is lost
StepFails(a) ==
  LET r == run.act[a].req IN
  /\ Asks(a) \/ run.act[a].pc = "search"
  /\ Failing
  /\ IF a = "poll" THEN Save(With(r, [state.req[r] EXCEPT !.status = "resolution_failed"])) ELSE Same
  /\ run' = Rests(a)
  /\ env' = [Fails EXCEPT !.lost = IF a # "poll" /\ Asks(a) THEN @ \cup {r} ELSE @]

-----------------------------------------------------------------------------
(* handleCardAction: a card can be clicked as long as the status fits *)

Clickable(k, card, status) ==
  /\ run.act[k].pc = "idle" /\ card \in env.cards
  /\ state.req[card.req].status = status

\* The candidates are those of the latest choice, whichever card is clicked
ChooseContact(k, card) ==
  /\ Clickable(k, card, "selecting_contact") /\ card.kind = "choice"
  /\ \E c \in card.contacts \cap state.req[card.req].candidates :
       /\ Save(With(card.req, [state.req[card.req] EXCEPT !.contact = c, !.candidates = {}]))
       /\ run' = Acts(k, "approval", card.req, c)
  /\ UNCHANGED env

EnterContact(k, card) ==
  /\ Clickable(k, card, "awaiting_contact_input") /\ card.kind = "input"
  /\ run' = Acts(k, "search", card.req, None)
  /\ Same /\ UNCHANGED env

Decline(card) ==
  /\ card \in env.cards /\ card.kind = "approval" /\ state.req[card.req].status = "pending_approval"
  /\ Save(With(card.req, [state.req[card.req] EXCEPT !.status = "declined"]))
  /\ UNCHANGED <<run, env>>

\* The message goes to the contact of the request, the card says whom that was about
Approve(k, card) ==
  /\ Clickable(k, card, "pending_approval") /\ card.kind = "approval"
  /\ run' = Acts(k, "sending", card.req, state.req[card.req].contact)
  /\ env' = [env EXCEPT !.confirmed = @ \cup {<<card.req, c>> : c \in card.contacts}]
  /\ Same

\* sendAsUser: one idempotency key, so that a second message is the first one again
Message(a, e) == [e EXCEPT !.sent[run.act[a].req] = IF @ = None THEN run.act[a].contact ELSE @]

MessageSent(k) ==
  LET r == run.act[k].req IN
  /\ run.act[k].pc = "sending"
  /\ Save(With(r, [state.req[r] EXCEPT !.status = "waiting_reply"]))
  /\ run' = Rests(k)
  /\ env' = Message(k, env)

MessageFails(k) ==
  /\ run.act[k].pc = "sending" /\ Failing
  /\ run' = Rests(k)
  /\ env' \in {Fails, Message(k, Fails)}
  /\ Same

-----------------------------------------------------------------------------
(* The reply *)

Replies(r) ==
  /\ env.sent[r] # None
  /\ env' = [env EXCEPT !.replied = @ \cup {r}]
  /\ Same /\ UNCHANGED run

Fetched ==
  LET r == run.act["poll"].req IN
  /\ run.act["poll"].pc = "fetch"
  /\ \/ /\ r \in env.replied /\ run.act["poll"].contact = env.sent[r]
        /\ run' = Acts("poll", "record", r, None)
        /\ Same
     \/ Save(state) /\ run' = Rests("poll")
  /\ UNCHANGED env

\* recordFollowupReply, then a notice whose failure makes no difference any more
ReplyRecorded ==
  LET r == run.act["poll"].req IN
  /\ run.act["poll"].pc = "record"
  /\ Save(With(r, [state.req[r] EXCEPT !.status = "completed"]))
  /\ run' = Rests("poll")
  /\ UNCHANGED env

ReplyFails ==
  /\ run.act["poll"].pc \in {"fetch", "record"} /\ Failing
  /\ Save(state)
  /\ run' = Rests("poll")
  /\ env' = Fails

-----------------------------------------------------------------------------
\* The state file is everybody's: another monitor saves it
SaveElsewhere == Save(state) /\ UNCHANGED <<run, env>>

Crash ==
  /\ env.crashes < MaxCrashes
  /\ env' = [env EXCEPT !.crashes = @ + 1]
  /\ state' = disk
  /\ run' = Quiet
  /\ UNCHANGED disk

NextDay ==
  /\ env.day < MaxDay
  /\ env' = [env EXCEPT !.day = @ + 1]
  /\ Same /\ UNCHANGED run

Next ==
  \/ StartPoll \/ SetUpDone \/ RepliesDone \/ Evaluated \/ EvaluationFails \/ DayDone
  \/ Fetched \/ ReplyRecorded \/ ReplyFails \/ SaveElsewhere \/ Crash \/ NextDay
  \/ \E r \in Requests : SetUp(r) \/ CheckReply(r) \/ Replies(r)
  \/ \E a \in Actors : Resolved(a) \/ CardSent(a) \/ StepFails(a)
  \/ \E card \in env.cards : Decline(card)
  \/ \E k \in Handlers :
       \/ MessageSent(k) \/ MessageFails(k)
       \/ \E card \in env.cards : ChooseContact(k, card) \/ EnterContact(k, card) \/ Approve(k, card)

-----------------------------------------------------------------------------
(* Properties *)

Busy(r) == \E a \in Actors : run.act[a].req = r
Asked(r, kind) == \E card \in env.cards : card.kind = kind /\ card.req = r

\* A request that is not over is due for the poll, in the hands of an activity, or asks the
\* owner by a card that can still be answered - unless a click led to a card that could not
\* be sent (handleCardAction has no retry), or a crash came between.
NothingForgotten ==
  env.crashes = 0 =>
    \A r \in Requests \ env.lost :
      LET q == state.req[r] IN
      \/ q.status \in {"none", "new", "resolution_failed", "completed", "declined"} \/ Busy(r)
      \/ q.status = "pending_approval" /\ Asked(r, "approval")
      \/ q.status = "awaiting_contact_input" /\ Asked(r, "input")
      \/ /\ q.status = "selecting_contact"
         /\ \E card \in env.cards : card.kind = "choice" /\ card.req = r /\ card.contacts \cap q.candidates # {}
      \/ q.status = "waiting_reply" /\ env.sent[r] # None

\* What is completed was sent to an approved contact, and answered, whatever crashes
CompletedWasAnswered ==
  \A r \in Requests : "completed" \in {state.req[r].status, disk.req[r].status} =>
    r \in env.replied /\ \E c \in Contacts : <<r, c>> \in env.confirmed

\* The message goes to the person that the card the owner confirmed names
\* (`confirm`, weekly-followup-monitor.js: "a private message from your account to <name>"), as
\* long as one card action is handled at a time: with two Handlers whose lookups overlap
\* it may go to another contact
SentAsConfirmed ==
  \A r \in Requests : env.sent[r] # None => <<r, env.sent[r]>> \in env.confirmed

FollowupInvariant == NothingForgotten /\ CompletedWasAnswered /\ SentAsConfirmed
=============================================================================

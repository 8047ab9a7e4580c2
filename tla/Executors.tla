------------------------------- MODULE Executors -------------------------------
(***************************************************************************)
(* Who carries out what was decided.  "conversation": an owner's request   *)
(* handed to an agent's session, of its own or one he named                *)
(* (src/src/conversation/dsh-effect-plugin.ts).  "focus": a model's        *)
(* judgement of a message, what is learned from it, and the card that      *)
(* tells the owner (src/src/reasoning/dsh-effect-plugin.ts,                *)
(* src/src/intake/types.ts, src/src/lark/effect-plugin.ts).  "plan": a     *)
(* signed plan run by a child process, and its result kept under its       *)
(* digest (src/src/client-runtime/reasoning-executor-adapter.ts).          *)
(* An effect that fails, or whose process dies, is tried again.            *)
(***************************************************************************)
EXTENDS Naturals, Sequences, FiniteSets

CONSTANTS
  None,
  Requests, SessionOf,           \* requests, and the session each is for
  Sessions, Foreign,             \* sessions there are from the start; those of another workspace
  Runs, AnswerOf,                \* runs of a plan, and the answer its child prints
  Length, Limit,                 \* parts of an answer; parts that are kept of one
  MaxTalks, MaxAborts, MaxCrashes, MaxTampers    \* bounds

VARIABLES
  state,     \* the sessions; what was decided, learned and sent; the files
  run,       \* the effect that is carried out; the runs
  env        \* the bounds

Crashed == [env EXCEPT !.crashes = @ + 1]

-----------------------------------------------------------------------------
(* Conversation *)

AllSessions == Sessions \cup {SessionOf[q] : q \in Requests}

InitConversation ==
  /\ state = [exists |-> Sessions, live |-> {}, log |-> [s \in AllSessions |-> <<>>], queue |-> [s \in AllSessions |-> <<>>],
              answer |-> [q \in Requests |-> None]]
  /\ run = [kind |-> "conversation", pc |-> "idle", of |-> None, held |-> FALSE, output |-> None]
  /\ env = [talks |-> 0, aborts |-> 0, crashes |-> 0]

Said(by, of) == [by |-> by, of |-> of]
Submits(st, s, of) ==
  [st EXCEPT !.live = @ \cup {s}, !.exists = @ \cup {s}, !.log[s] = Append(@, Said("user", of)), !.queue[s] = Append(@, of)]

\* The marker of a request in a session's messages
AlreadySubmitted(q) == \E i \in 1..Len(state.log[SessionOf[q]]) : state.log[SessionOf[q]][i] = Said("user", q)

\* Faulty variant: a request that is tried again is said again
FollowupAgain(q, held) ==
  LET s == SessionOf[q] IN
  /\ s \notin Foreign
  /\ state' = Submits(state, s, q)
  /\ run' = [run EXCEPT !.pc = "wait", !.of = q, !.held = held]

\* The agent's workspace must be the request's; what was said is not said again
Followup(q, held) ==
  LET s == SessionOf[q] IN
  /\ s \notin Foreign
  /\ state' = IF AlreadySubmitted(q) THEN [state EXCEPT !.live = @ \cup {s}] ELSE Submits(state, s, q)
  /\ run' = [run EXCEPT !.pc = "wait", !.of = q, !.held = held]

\* Faulty variant: a session at work is given another request
DispatchBusy(q) ==
  /\ SessionOf[q] \in state.live /\ Followup(q, FALSE)

\* A session that is live is used as it is, unless it is at work: then the effect fails
DispatchLive(q) ==
  /\ SessionOf[q] \in state.live /\ state.queue[SessionOf[q]] = <<>>
  /\ Followup(q, FALSE)

\* One that is not is resumed, or, when there is none, created; then the handle is the effect's
Dispatch(q) ==
  /\ run.pc = "idle" /\ state.answer[q] = None
  /\ \/ DispatchLive(q) /\ UNCHANGED env
     \/ SessionOf[q] \notin state.live /\ run' = [run EXCEPT !.pc = "resume", !.of = q] /\ UNCHANGED <<state, env>>

Resume ==
  /\ run.pc = "resume" /\ SessionOf[run.of] \notin state.live
  /\ Followup(run.of, TRUE)
  /\ UNCHANGED env

\* A session that is there but cannot be resumed fails the effect, as one that has come alive meanwhile does
ResumeFails ==
  /\ run.pc = "resume"
  /\ run' = [run EXCEPT !.pc = "idle", !.of = None]
  /\ UNCHANGED <<state, env>>

\* The agent's turn ends, with an answer or without; the owner talks in a session himself
Turn(s) ==
  /\ s \in state.live /\ state.queue[s] # <<>>
  /\ state' = [state EXCEPT !.log[s] = Append(@, Said("agent", Head(state.queue[s]))), !.queue[s] = Tail(@)]
  /\ UNCHANGED <<run, env>>
TurnAborts(s) ==
  /\ s \in state.live /\ state.queue[s] # <<>> /\ env.aborts < MaxAborts
  /\ state' = [state EXCEPT !.queue[s] = Tail(@)]
  /\ env' = [env EXCEPT !.aborts = @ + 1] /\ UNCHANGED run
Talks(s) ==
  /\ s \in state.exists /\ env.talks < MaxTalks
  /\ state' = Submits(state, s, "owner")
  /\ env' = [env EXCEPT !.talks = @ + 1] /\ UNCHANGED run

\* finalAssistantOutput: the last there is in the session, whomever it answered
FinalOutput(s) ==
  LET outs == {i \in 1..Len(state.log[s]) : state.log[s][i].by = "agent"} IN
  IF outs = {} THEN None ELSE state.log[s][CHOOSE i \in outs : \A j \in outs : j <= i].of

\* The agent is idle: its last output is the answer; the handle is disposed of in any case
Idle ==
  LET s == SessionOf[run.of] IN
  /\ run.pc = "wait" /\ state.queue[s] = <<>>
  /\ state' = [state EXCEPT !.live = IF run.held THEN @ \ {s} ELSE @]
  /\ run' = IF FinalOutput(s) = None THEN [run EXCEPT !.pc = "idle", !.of = None, !.held = FALSE]
            ELSE [run EXCEPT !.pc = "settle", !.held = FALSE, !.output = FinalOutput(s)]
  /\ UNCHANGED env

Settle ==
  /\ run.pc = "settle"
  /\ state' = [state EXCEPT !.answer[run.of] = run.output]
  /\ run' = [run EXCEPT !.pc = "idle", !.of = None, !.output = None]
  /\ UNCHANGED env

\* The host dies: sessions keep what was said in them, turns are given up
HostDies ==
  /\ env.crashes < MaxCrashes
  /\ state' = [state EXCEPT !.live = {}, !.queue = [s \in AllSessions |-> <<>>]]
  /\ run' = [run EXCEPT !.pc = "idle", !.of = None, !.held = FALSE, !.output = None]
  /\ env' = Crashed

NextConversation ==
  \/ \E q \in Requests : Dispatch(q)
  \/ \E s \in AllSessions : Turn(s) \/ TurnAborts(s) \/ Talks(s)
  \/ Resume \/ ResumeFails \/ Idle \/ Settle \/ HostDies

-----------------------------------------------------------------------------
(* Focus *)

\* What a model may answer; mode "none": it is left out
Drafts == [outcome : {"ignored", "task", "notify"}, change : BOOLEAN, notify : BOOLEAN, approval : BOOLEAN,
           mode : {"none", "realtime", "digest", "silent"}, delay : 0..1, priority : {1, 2}]

\* Faulty variant: what needs approval may wait, like all the rest
ValidLoosely(d) ==
  /\ d.outcome = "ignored" => ~d.notify /\ ~d.approval
  /\ ~d.change => ~d.notify
  /\ d.mode # "none" => (~d.notify <=> d.mode = "silent") /\ (d.mode # "digest" => d.delay = 0)
  /\ d.outcome = "task" => d.priority = 1

\* validateIntakeDecision
Valid(d) ==
  /\ d.outcome = "ignored" => ~d.notify /\ ~d.approval
  /\ ~d.change => ~d.notify
  /\ d.approval => d.notify
  /\ d.mode # "none" =>
       /\ ~d.notify <=> d.mode = "silent"
       /\ d.mode # "digest" => d.delay = 0
       /\ d.approval => d.mode = "realtime" /\ d.delay = 0
  /\ d.outcome = "task" => d.priority = 1

InitFocus ==
  /\ state = [decision |-> None, failed |-> FALSE, learned |-> None, cards |-> {}, told |-> FALSE]
  /\ run = [kind |-> "focus", pc |-> "idle", draft |-> None, attempt |-> 1]
  /\ env = [crashes |-> 0]

\* The model's answer, whatever it is
Generate(d) ==
  /\ run.pc = "idle" /\ state.decision = None /\ ~state.failed
  /\ run' = [run EXCEPT !.pc = "check", !.draft = d]
  /\ UNCHANGED <<state, env>>

\* An attempt that fails is followed by another, unless it was the last
Failed(st) == \E last \in BOOLEAN : state' = [st EXCEPT !.failed = last] /\ run' = [run EXCEPT !.pc = "idle", !.draft = None]

\* It is JSON and makes sense, or the attempt has failed
Check ==
  /\ run.pc = "check"
  /\ IF Valid(run.draft) THEN run' = [run EXCEPT !.pc = "observe"] /\ UNCHANGED state ELSE Failed(state)
  /\ UNCHANGED env

\* decisionForLearning, and observe: an observation is kept with its time, so that one more of the same message throws
Learning(d) == [notify |-> d.notify, approval |-> d.approval, task |-> d.outcome = "task"]
Observe ==
  /\ run.pc = "observe"
  /\ IF state.learned = None
       THEN state' = [state EXCEPT !.learned = Learning(run.draft)] /\ run' = [run EXCEPT !.pc = "decide"]
       ELSE Failed(state)
  /\ UNCHANGED env

\* The decision reaches the workflow, which lets the owner know of it or not
Decide ==
  /\ run.pc = "decide"
  /\ state' = [state EXCEPT !.decision = run.draft, !.told = ~run.draft.notify]
  /\ run' = [run EXCEPT !.pc = "idle", !.draft = None]
  /\ UNCHANGED env

\* Faulty variant: every attempt sends under a key of its own
KeyOfAttempt == <<"card", run.attempt>>

\* The idempotency key of a card is the effect's; a card that was sent under a key is not sent again
Key == <<"card", 1>>

SendCard ==
  /\ run.pc = "idle" /\ state.decision # None /\ ~state.told
  /\ state' = [state EXCEPT !.cards = @ \cup {Key}]
  /\ run' = [run EXCEPT !.pc = "sent"]
  /\ UNCHANGED env

CardSettled ==
  /\ run.pc = "sent"
  /\ state' = [state EXCEPT !.told = TRUE]
  /\ run' = [run EXCEPT !.pc = "idle"]
  /\ UNCHANGED env

\* Before the effect is settled its answer is lost, or its process dies
EffectFails ==
  /\ run.pc # "idle" /\ env.crashes < MaxCrashes
  /\ run' = [run EXCEPT !.pc = "idle", !.draft = None, !.attempt = @ + 1]
  /\ env' = Crashed
  /\ UNCHANGED state

NextFocus == (\E d \in Drafts : Generate(d)) \/ Check \/ Observe \/ Decide \/ SendCard \/ CardSettled \/ EffectFails

-----------------------------------------------------------------------------
(* Plan *)

Answers == {AnswerOf[r] : r \in Runs}

\* A file is "none", "good", "loose" (not yet on the disk) or "bad"
InitPlan ==
  /\ state = [file |-> [a \in Answers |-> "none"], made |-> {}, litter |-> {}]
  /\ run = [kind |-> "plan", of |-> [r \in Runs |-> [pc |-> "idle", child |-> "none", verdict |-> "completed", printed |-> 0, kept |-> 0, temp |-> "none"]]]
  /\ env = [crashes |-> 0, tampers |-> 0]

At(r, pc) == run.of[r].pc = pc
Now(r, next) == run' = [run EXCEPT !.of[r] = next]
Goes(r, pc) == Now(r, [run.of[r] EXCEPT !.pc = pc])

\* A plan that is not what was signed, is out of date or asks for more than thought is not run
Refuse(r) == At(r, "idle") /\ Goes(r, "failed") /\ UNCHANGED <<state, env>>

\* The directory of the run is looked at, then the child is started, or cannot be
Launch(r) ==
  /\ At(r, "idle")
  /\ \/ Now(r, [run.of[r] EXCEPT !.pc = "running", !.child = "live"])
     \/ Now(r, [run.of[r] EXCEPT !.pc = "failed", !.verdict = "failed"])
  /\ UNCHANGED <<state, env>>

\* Faulty variant: what does not fit is cut off
PrintedCut(r) == [run.of[r] EXCEPT !.printed = @ + 1, !.kept = IF @ < Limit THEN @ + 1 ELSE @]

\* Output that does not fit fails the run, whatever is printed after it
Printed(r) ==
  IF run.of[r].kept < Limit THEN [run.of[r] EXCEPT !.printed = @ + 1, !.kept = @ + 1]
  ELSE [run.of[r] EXCEPT !.printed = @ + 1, !.verdict = "output-limit", !.child = "told"]

Outputs(r) ==
  /\ At(r, "running") /\ run.of[r].child # "exited" /\ run.of[r].printed < Length[AnswerOf[r]]
  /\ Now(r, Printed(r))
  /\ UNCHANGED <<state, env>>

\* The child ends well when all is printed, or any way when it was told to; its end settles the run, if nothing has before
Closes(r, code) ==
  /\ run.of[r].child \in {"live", "told"} /\ code \in {0, 1}
  /\ code = 0 => run.of[r].printed = Length[AnswerOf[r]] \/ run.of[r].child = "told"
  /\ LET next == [run.of[r] EXCEPT !.child = "exited"] IN
     Now(r, IF At(r, "running") THEN [next EXCEPT !.pc = IF next.verdict = "completed" /\ code = 0 THEN "parse" ELSE "failed"] ELSE next)
  /\ UNCHANGED <<state, env>>

\* Out of time: the run is settled at once, the child told to end
TimesOut(r) ==
  /\ At(r, "running")
  /\ Now(r, [run.of[r] EXCEPT !.pc = "failed", !.verdict = "timed-out", !.child = "told"])
  /\ UNCHANGED <<state, env>>

\* What was printed is an answer in the executor's form, or the run fails
Parse(r) ==
  /\ At(r, "parse")
  /\ Goes(r, "persist") \/ Goes(r, "failed")
  /\ UNCHANGED <<state, env>>

\* Faulty variant: a file of that name will do
VerifiedByName(a) == IF state.file[a] = "none" THEN "missing" ELSE "same"

\* verifyExistingResult
Verified(a) == CASE state.file[a] = "none" -> "missing" [] state.file[a] = "bad" -> "drifted" [] OTHER -> "same"

Persist(r) ==
  /\ At(r, "persist")
  /\ Goes(r, CASE Verified(AnswerOf[r]) = "missing" -> "write" [] Verified(AnswerOf[r]) = "same" -> "succeeded" [] OTHER -> "failed")
  /\ UNCHANGED <<state, env>>

\* A temporary file that cannot be written is left behind
Write(r) ==
  /\ At(r, "write")
  /\ \/ Now(r, [run.of[r] EXCEPT !.pc = "sync", !.temp = "loose"]) /\ UNCHANGED <<state, env>>
     \/ Goes(r, "failed") /\ state' = [state EXCEPT !.litter = @ \cup {r}] /\ UNCHANGED env

\* Faulty variant: the file is linked before it is on the disk
SyncedLater(r) == [run.of[r] EXCEPT !.pc = "link"]

Synced(r) == [run.of[r] EXCEPT !.pc = "link", !.temp = "good"]

Sync(r) == At(r, "sync") /\ Now(r, Synced(r)) /\ UNCHANGED <<state, env>>

\* The name is given to the file unless there is one of that name; the temporary name goes, if it can
Link(r) ==
  LET a == AnswerOf[r] IN
  /\ At(r, "link")
  /\ Now(r, [run.of[r] EXCEPT !.pc = "verify", !.temp = "none"])
  /\ \E left \in BOOLEAN :
       state' = [state EXCEPT !.file[a] = IF @ = "none" THEN run.of[r].temp ELSE @, !.made = IF state.file[a] = "none" THEN @ \cup {a} ELSE @,
                              !.litter = IF left THEN @ \cup {r} ELSE @]
  /\ UNCHANGED env

Verify(r) ==
  /\ At(r, "verify")
  /\ Goes(r, IF Verified(AnswerOf[r]) = "same" THEN "succeeded" ELSE "failed")
  /\ UNCHANGED <<state, env>>

\* A file is changed by another hand; the machine stops: what is not on the disk may be lost, names made since then as well
Tampers(a) ==
  /\ state.file[a] = "good" /\ env.tampers < MaxTampers
  /\ state' = [state EXCEPT !.file[a] = "bad"]
  /\ env' = [env EXCEPT !.tampers = @ + 1] /\ UNCHANGED run
MachineStops(lost) ==
  /\ env.crashes < MaxCrashes /\ lost \subseteq state.made
  /\ state' = [state EXCEPT !.file = [a \in Answers |-> IF a \in lost THEN "none" ELSE IF @[a] = "loose" THEN "bad" ELSE @[a]], !.made = {},
                            !.litter = @ \cup {r \in Runs : run.of[r].temp # "none"}]
  /\ run' = [run EXCEPT !.of = [r \in Runs |->
       [@[r] EXCEPT !.pc = IF @ = "succeeded" THEN @ ELSE "failed", !.child = IF @ = "none" THEN @ ELSE "exited", !.temp = "none"]]]
  /\ env' = Crashed

NextPlan ==
  \/ \E r \in Runs : Refuse(r) \/ Launch(r) \/ Outputs(r) \/ TimesOut(r) \/ Parse(r) \/ Persist(r) \/ Write(r) \/ Sync(r) \/ Link(r) \/ Verify(r)
  \/ \E r \in Runs, code \in 0..1 : Closes(r, code)
  \/ \E a \in Answers : Tampers(a)
  \/ \E lost \in SUBSET Answers : MachineStops(lost)

Init == InitConversation \/ InitFocus \/ InitPlan
Next ==
  \/ run.kind = "conversation" /\ NextConversation
  \/ run.kind = "focus" /\ NextFocus
  \/ run.kind = "plan" /\ NextPlan

-----------------------------------------------------------------------------
(* Properties *)

\* A request is said once in its session, however often its effect is tried, and never in a session of another workspace; and
\* the answer that is given is the request's, unless a turn was given up or the owner talked in the session meanwhile.
\* (Then it may be the answer to another: the last output of the session is taken for it.)
ConversationInvariant ==
  /\ \A s \in AllSessions, q \in Requests :
       Cardinality({i \in 1..Len(state.log[s]) : state.log[s][i] = Said("user", q)}) <= IF s = SessionOf[q] /\ s \notin Foreign THEN 1 ELSE 0
  /\ \A q \in Requests :
       /\ state.answer[q] # None => state.answer[q] = q \/ env.aborts + env.talks + env.crashes > 0
       /\ state.answer[q] \notin {None, "owner"} => \E i \in 1..Len(state.log[SessionOf[q]]) : state.log[SessionOf[q]][i] = Said("agent", state.answer[q])

\* What needs the owner's approval reaches him, at once and with one card however often its effect is tried; what is to be
\* silent never does; what is learned from a message is what was decided of it; and a message about which something was
\* learned is left undecided only when its attempt was cut off before the decision arrived.
FocusInvariant ==
  /\ Cardinality(state.cards) <= 1
  /\ state.decision # None =>
       /\ state.decision.approval => state.decision.mode \in {"none", "realtime"} /\ (state.told => state.cards # {})
       /\ state.cards # {} => state.decision.notify
       /\ state.learned = Learning(state.decision)
  /\ state.failed /\ state.learned # None => env.crashes > 0

\* A result's file holds the whole of it or is another hand's; no run persists a result that was cut, or one it gave up.
PlanInvariant ==
  /\ \A a \in Answers : state.file[a] = "bad" => env.tampers > 0
  /\ \A r \in Runs : run.of[r].pc \in {"parse", "persist", "write", "sync", "link", "verify", "succeeded"} =>
       run.of[r].kept = Length[AnswerOf[r]] /\ run.of[r].child = "exited" /\ run.of[r].verdict = "completed"

ExecutorsInvariant ==
  CASE run.kind = "conversation" -> ConversationInvariant
    [] run.kind = "focus" -> FocusInvariant
    [] OTHER -> PlanInvariant

\* A request never enters a session that is at work; a run succeeds only with its result in its file at that moment, and a
\* result that is in its file is never written over.
ExecutorsStep ==
  /\ run.kind = "conversation" /\ run'.pc = "wait" /\ run.pc # "wait" => state.queue[SessionOf[run'.of]] = <<>>
  /\ run.kind = "plan" =>
       /\ \A r \in Runs : run'.of[r].pc = "succeeded" /\ ~At(r, "succeeded") => state.file[AnswerOf[r]] \in {"good", "loose"}
       /\ \A a \in Answers : state.file[a] = "bad" => state'.file[a] \in {"bad", "none"}
=============================================================================

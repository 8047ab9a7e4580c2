---------------------------- MODULE PolicyLearning ----------------------------
(***************************************************************************)
(* How the assistant learns when to be quiet: what it observes of every    *)
(* message, the daily review that tunes its guidance and may propose a     *)
(* policy, the drafts and their simulation over past messages, and the     *)
(* owner's decision (src/src/collaboration/engine.ts, plugin.ts,           *)
(* policy-model.ts, policy-authoring.ts, policy-samples.ts,                *)
(* src/src/policy/engine.ts).  The review is an effect of a workflow: one  *)
(* that fails or whose process dies is tried again with the same time,     *)
(* until its attempts are over and the next interval's comes.              *)
(***************************************************************************)
EXTENDS Naturals, Sequences, FiniteSets

CONSTANTS
  None, Messages,
  ChatOf, SenderOf,               \* [Messages -> where it is from]
  DecisionOf,                     \* [Messages -> what was decided about it]
  UrgentOf,                       \* [Messages -> None, "urgent" or "normal", as its event says]
  Authored,                       \* policies the owner words himself: [when, attention]
  MinimumSamples, MinimumScope, TuneSamples, Coverage,    \* numbers of samples that are enough
  Interval, Cooldown,
  Horizon, MaxCrashes             \* bounds

VARIABLES
  state,     \* signals, checkpoints, policies, approvals
  run,       \* the review that is being made, and the effect it is made for
  env        \* what was published in the middle of a failing review; the first review that was noted; crashes

\* classifyAttention
Tier(d) ==
  IF d.priority = 5 \/ (d.priority >= 3 /\ d.soon) THEN "realtime"
  ELSE IF d.notify \/ d.priority >= 3 \/ d.asks \/ d.research # "skip" \/ d.mine THEN "today" ELSE "silent"

\* A notification that could have waited, and what must not be quieted
Reducible(m) == DecisionOf[m].notify /\ Tier(DecisionOf[m]) \in {"silent", "today"}
Missed(m) == ~DecisionOf[m].notify /\ Tier(DecisionOf[m]) = "realtime"
Protected(m) ==
  \/ Tier(DecisionOf[m]) = "realtime" \/ Missed(m)
  \/ DecisionOf[m].approval \/ DecisionOf[m].research # "skip" \/ DecisionOf[m].mentioned

-----------------------------------------------------------------------------
(* Conditions of a policy, and their simulation *)

\* What an event tells of a message; "mentionsOwner" is none of it
Value(m, fact) ==
  CASE fact = "chat" -> ChatOf[m] [] fact = "sender" -> SenderOf[m] [] fact = "urgency" -> UrgentOf[m] [] OTHER -> None

RECURSIVE MatchesPolicy(_, _)
\* matchesPolicy
MatchesPolicy(when, m) ==
  CASE when.op = "eq" -> Value(m, when.fact) = when.value
    [] when.op = "exists" -> Value(m, when.fact) # None
    [] when.op = "all" -> \A c \in when.of : MatchesPolicy(c, m)
    [] when.op = "any" -> \E c \in when.of : MatchesPolicy(c, m)
    [] when.op = "not" -> ~MatchesPolicy(when.of, m)

RECURSIVE PolicyConditionFacts(_)
\* policyConditionFacts
PolicyConditionFacts(when) ==
  CASE when.op \in {"eq", "exists"} -> {when.fact}
    [] when.op = "not" -> PolicyConditionFacts(when.of)
    [] OTHER -> UNION {PolicyConditionFacts(c) : c \in when.of}

RequiresApproval(attention) == attention \in {"silent", "batch"}

\* Faulty variant: facts that no sample has are taken for covered
SafeUncovered(when, attention, samples) ==
  /\ \A m \in samples : MatchesPolicy(when, m) /\ RequiresApproval(attention) => UrgentOf[m] # "urgent"
  /\ RequiresApproval(attention) => Cardinality(samples) >= Coverage

\* simulateAssistantPolicy: safeToActivate
Safe(when, attention, samples) ==
  /\ \A m \in samples : MatchesPolicy(when, m) /\ RequiresApproval(attention) => UrgentOf[m] # "urgent"
  /\ RequiresApproval(attention) =>
       /\ Cardinality(samples) >= Coverage
       /\ \A fact \in PolicyConditionFacts(when) : \E m \in samples : Value(m, fact) # None

-----------------------------------------------------------------------------

\* appendSignal: what is kept under a key stays; the very same is welcome again, anything else throws
Appendable(signals, key, value) == \A s \in signals : s[1] = key => s[2] = value

Idle == [pc |-> "idle", effect |-> None, seen |-> {}, from |-> 0, tuned |-> {}, scope |-> None, id |-> None, rev |-> 0]

Init ==
  /\ state = [now |-> 1, asked |-> 0, received |-> {}, observed |-> [m \in Messages |-> None], evaluated |-> None, proposed |-> None,
              told |-> {}, profiles |-> {}, drafted |-> {}, published |-> {}, policies |-> <<>>, approvals |-> <<>>, decided |-> {}, reviews |-> {}]
  /\ run = Idle
  /\ env = [partial |-> FALSE, first |-> None, crashes |-> 0]

Tick ==
  /\ state.now < Horizon
  /\ state' = [state EXCEPT !.now = @ + 1]
  /\ UNCHANGED <<run, env>>

\* The event of the message is kept; it is observed when something was decided about it, and once only
Receive(m) ==
  /\ m \notin state.received
  /\ state' = [state EXCEPT !.received = @ \cup {m}]
  /\ UNCHANGED <<run, env>>

Observe(m) ==
  /\ m \in state.received
  /\ state.observed[m] = None
  /\ state' = [state EXCEPT !.observed[m] = state.now]
  /\ UNCHANGED <<run, env>>

Observed == {m \in Messages : state.observed[m] # None}

-----------------------------------------------------------------------------
(* The review *)

\* The schedule asks for a review an interval after the last; a failed one is taken up again, unless it was noted as made
BeginReview ==
  LET at == IF run.effect = None THEN state.now ELSE run.effect
      noted == state.evaluated # None IN
  /\ run.pc = "idle"
  /\ run.effect = None => state.now >= state.asked + Interval
  /\ state' = [state EXCEPT !.asked = at]
  /\ run' = IF noted /\ at - state.evaluated < Interval THEN Idle
            ELSE [Idle EXCEPT !.pc = "observations", !.effect = at,
                              !.from = IF noted THEN state.evaluated ELSE IF at > Interval THEN at - Interval ELSE 0]
  /\ UNCHANGED env

At(pc) == run.pc = pc
Goes(next) == run' = [run EXCEPT !.pc = next]

\* A call throws: the effect is tried again with the same time, or that was its last attempt
Throws == \E again \in BOOLEAN : run' = [Idle EXCEPT !.effect = IF again THEN run.effect ELSE None]

ReadObservations ==
  /\ At("observations")
  /\ run' = [run EXCEPT !.pc = "tune", !.seen = Observed]
  /\ UNCHANGED <<state, env>>

\* Signals that were nearly always ignored in silence are to be met with less ado
Profiles(seen) ==
  LET safe == {m \in seen : DecisionOf[m].signal # None /\ ~Protected(m)}
      group(k) == {m \in safe : DecisionOf[m].signal = k}
      quiet(k) == {m \in group(k) : DecisionOf[m].action = "ignored" /\ ~DecisionOf[m].notify} IN
  {k \in {DecisionOf[m].signal : m \in safe} :
     Cardinality(group(k)) >= TuneSamples /\ 20 * Cardinality(quiet(k)) >= 17 * Cardinality(group(k))}

Scopes == {<<"chat", ChatOf[m]>> : m \in Messages} \cup {<<"sender", SenderOf[m]>> : m \in Messages}
In(scope, m) == scope \in {<<"chat", ChatOf[m]>>, <<"sender", SenderOf[m]>>}

Published == {signal[2].scope : signal \in state.published}

\* Faulty variant: what must not be quieted is not counted
CandidatesUnprotected(seen) ==
  LET all(s) == {m \in seen : In(s, m)}
      less(s) == {m \in all(s) : Reducible(m)} IN
  {s \in Scopes \ Published :
     Cardinality(all(s)) >= MinimumScope /\ 4 * Cardinality(less(s)) >= 3 * Cardinality(all(s))}

\* evaluateScopes: chats and senders to be quieted, and not proposed before
Candidates(seen) ==
  LET all(s) == {m \in seen : In(s, m)}
      less(s) == {m \in all(s) : Reducible(m)} IN
  {s \in Scopes \ Published :
     /\ Cardinality(all(s)) >= MinimumScope /\ 4 * Cardinality(less(s)) >= 3 * Cardinality(all(s))
     /\ \A m \in all(s) : ~Protected(m)}

CanPropose ==
  /\ Cardinality(run.seen) >= MinimumSamples
  /\ state.proposed # None => run.effect - state.proposed >= Cooldown

\* The guidance is written; then the scope with the most to reduce is chosen: among equals the order of the samples decides
TuneAndChoose ==
  /\ At("tune")
  /\ state' = [state EXCEPT !.profiles = Profiles(run.seen)]
  /\ LET less(s) == Cardinality({m \in run.seen : In(s, m) /\ Reducible(m)}) IN
     IF CanPropose /\ Candidates(run.seen) # {}
     THEN \E s \in Candidates(run.seen) :
            /\ \A other \in Candidates(run.seen) : less(other) <= less(s)
            /\ run' = [run EXCEPT !.pc = "draft", !.scope = s, !.tuned = Profiles(run.seen) \ state.profiles]
     ELSE run' = [run EXCEPT !.pc = "record", !.tuned = Profiles(run.seen) \ state.profiles]
  /\ UNCHANGED env

\* savePolicyDraft: the same text, document and simulation are one revision
Revised(id, when, attention, samples) ==
  LET old == {i \in 1..Len(state.policies) : state.policies[i].id = id}
      rev == [id |-> id, when |-> when, attention |-> attention, samples |-> samples, safe |-> Safe(when, attention, samples), active |-> FALSE]
      same == {i \in old : state.policies[i].samples = samples} IN
  IF same # {} THEN <<state.policies, CHOOSE i \in same : TRUE>>
  ELSE <<Append(state.policies, rev), Len(state.policies) + 1>>

\* The numbers of its samples are part of the document, and so of its identifier
SaveDraft ==
  /\ At("draft")
  /\ LET s == run.scope
         id == [scope |-> s, all |-> Cardinality({m \in run.seen : In(s, m)}),
                less |-> Cardinality({m \in run.seen : In(s, m) /\ Reducible(m)})]
         saved == Revised(id, [op |-> "eq", fact |-> s[1], value |-> s[2]], "batch", state.received) IN
     /\ state' = [state EXCEPT !.policies = saved[1]]
     /\ run' = [run EXCEPT !.pc = "drafted", !.id = id, !.rev = saved[2]]
  /\ UNCHANGED env

\* The draft is noted with the time of its review: a draft that another review has noted throws.  One that is not safe is let be
NoteDraft ==
  /\ At("drafted")
  /\ IF Appendable(state.drafted, run.rev, run.effect)
       THEN /\ state' = [state EXCEPT !.drafted = @ \cup {<<run.rev, run.effect>>}]
            /\ run' = IF state.policies[run.rev].safe THEN [run EXCEPT !.pc = "publish"] ELSE [run EXCEPT !.pc = "record", !.scope = None]
       ELSE Throws /\ UNCHANGED state
  /\ UNCHANGED env

\* A policy's approval is asked for once, whatever its revision
Publish ==
  /\ At("publish")
  /\ state' = [state EXCEPT !.approvals =
                 IF \E i \in 1..Len(@) : @[i].id = run.id THEN @
                 ELSE Append(@, [id |-> run.id, rev |-> run.rev, scope |-> run.scope, seen |-> run.seen, at |-> run.effect])]
  /\ Goes("published")
  /\ UNCHANGED env

\* The note is this review's alone, since the draft was
MarkPublished ==
  /\ At("published")
  /\ state' = [state EXCEPT !.published = @ \cup {<<run.rev, [scope |-> run.scope, at |-> run.effect]>>}]
  /\ Goes("proposed")
  /\ UNCHANGED env

MarkProposed ==
  /\ At("proposed")
  /\ state' = [state EXCEPT !.proposed = run.effect]
  /\ Goes("record")
  /\ UNCHANGED env

\* Faulty variant: what was observed when the last review was due is taken for reviewed
WindowLater == {m \in run.seen : state.observed[m] > run.from}

Window == {m \in run.seen : state.observed[m] >= run.from}

\* What a review says: what it was made of, what it tuned and what it proposed
Review == [window |-> Window, tuned |-> run.tuned, scope |-> run.scope]

\* The review is kept under its time: one that is tried again and comes out otherwise throws
RecordReview ==
  /\ At("record")
  /\ IF Appendable(state.reviews, run.effect, Review)
       THEN state' = [state EXCEPT !.reviews = @ \cup {<<run.effect, Review>>}] /\ Goes("evaluated")
       ELSE Throws /\ UNCHANGED state
  /\ UNCHANGED env

MarkEvaluated ==
  /\ At("evaluated")
  /\ state' = [state EXCEPT !.evaluated = run.effect]
  /\ Goes("reviewed")
  /\ env' = [env EXCEPT !.first = IF @ = None THEN run.effect ELSE @]

\* The effect is settled with the review: the owner is told of one that changed something
SettleReview ==
  /\ At("reviewed")
  /\ IF run.tuned # {} \/ run.scope # None THEN Goes("brief") ELSE run' = Idle
  /\ UNCHANGED <<state, env>>

Brief ==
  /\ At("brief")
  /\ state' = [state EXCEPT !.told = @ \cup {run.effect}]
  /\ run' = Idle
  /\ UNCHANGED env

\* The brief, an effect of its own, is not sent for all its attempts
BriefFails ==
  /\ At("brief") /\ env.crashes < MaxCrashes
  /\ run' = Idle
  /\ env' = [env EXCEPT !.crashes = @ + 1]
  /\ UNCHANGED state

\* A call of the store fails or the process dies
Fail ==
  /\ run.pc \notin {"idle", "brief"} /\ env.crashes < MaxCrashes
  /\ Throws
  /\ env' = [env EXCEPT !.partial = @ \/ run.pc \in {"published", "proposed"}, !.crashes = @ + 1]
  /\ UNCHANGED state

-----------------------------------------------------------------------------
(* Decisions *)

\* The owner's own policy, compiled from his words, is simulated and kept as a draft
Author(p) ==
  /\ \A i \in 1..Len(state.policies) : state.policies[i].id # p
  /\ state' = [state EXCEPT !.policies = Revised(p, p.when, p.attention, state.received)[1]]
  /\ UNCHANGED <<run, env>>

\* Faulty variant: the simulation of the revision is not looked at
ActivatedAny(i) == [state EXCEPT !.policies[i].active = TRUE]

\* activatePolicy: one revision of a policy is active, and only one that was safe
Activated(i) ==
  IF ~state.policies[i].safe THEN state
  ELSE [state EXCEPT !.policies = [j \in DOMAIN @ |-> [@[j] EXCEPT !.active = j = i \/ (@ /\ state.policies[j].id # state.policies[i].id)]]]

Confirm(i) ==
  /\ state.policies[i].id \in Authored
  /\ ~state.policies[i].active
  /\ state' = Activated(i)
  /\ UNCHANGED <<run, env>>

\* The card is answered once; its effect is tried until the policy is active and the decision kept
Decide(i, decision) ==
  /\ state.approvals[i].id \notin {d[1] : d \in state.decided}
  /\ state' = [(IF decision = "approve" THEN Activated(state.approvals[i].rev) ELSE state)
               EXCEPT !.decided = @ \cup {<<state.approvals[i].id, decision>>}]
  /\ UNCHANGED <<run, env>>

Next ==
  \/ Tick
  \/ \E m \in Messages : Receive(m) \/ Observe(m)
  \/ BeginReview \/ ReadObservations \/ TuneAndChoose \/ SaveDraft \/ NoteDraft \/ Publish \/ MarkPublished \/ MarkProposed
  \/ RecordReview \/ MarkEvaluated \/ SettleReview \/ Brief \/ BriefFails \/ Fail
  \/ \E p \in Authored : Author(p)
  \/ \E i \in 1..Len(state.policies) : Confirm(i)
  \/ \E i \in 1..Len(state.approvals), d \in {"approve", "decline"} : Decide(i, d)

-----------------------------------------------------------------------------
(* Properties *)

\* The messages a condition is about, written as a set
RECURSIVE About(_)
About(when) ==
  CASE when.op = "eq" -> {m \in Messages : Value(m, when.fact) = when.value}
    [] when.op = "exists" -> {m \in Messages : Value(m, when.fact) # None}
    [] when.op = "not" -> Messages \ About(when.of)
    [] when.op = "all" -> {m \in Messages : \A c \in when.of : m \in About(c)}
    [] when.op = "any" -> UNION {About(c) : c \in when.of}

\* An active policy that quiets something quieted nothing urgent of what it was tried on, which told enough about what it
\* asks; the owner is asked about a scope once, a cooldown apart and about nothing that must not be quieted, but for a
\* review cut off between its question and its notes; once a review was noted, every observation is in one;
\* and a review that changed something is told of, unless an attempt of it was cut off.
LearningInvariant ==
  /\ \A i \in 1..Len(state.policies) :
       LET p == state.policies[i] IN
       p.active /\ p.attention \in {"silent", "batch"} =>
         /\ \A m \in About(p.when) \cap p.samples : UrgentOf[m] # "urgent"
         /\ \A fact \in PolicyConditionFacts(p.when) : {Value(m, fact) : m \in p.samples} \ {None} # {}
  /\ \A i, j \in 1..Len(state.policies) : i # j /\ state.policies[i].active /\ state.policies[j].active =>
       state.policies[i].id # state.policies[j].id
  /\ \A i \in 1..Len(state.approvals) :
       LET a == state.approvals[i] IN
       /\ \A m \in a.seen : In(a.scope, m) => ~Protected(m)
       /\ \A j \in (i + 1)..Len(state.approvals) :
            \/ env.partial
            \/ state.approvals[j].scope # a.scope /\ state.approvals[j].at - a.at >= Cooldown
  /\ \A m \in Observed : env.first # None /\ env.first <= state.observed[m] /\ state.observed[m] < state.evaluated =>
       \E r \in state.reviews : m \in r[2].window
  /\ \A r \in state.reviews :
       r[1] # run.effect /\ (r[2].tuned # {} \/ r[2].scope # None) => r[1] \in state.told \/ env.crashes > 0

\* What was answered stays answered, and a policy becomes active by an answer or by the owner's word only
LearningStep ==
  /\ state.decided \subseteq state'.decided
  /\ \A i \in 1..Len(state.policies) :
       state'.policies[i].active /\ ~state.policies[i].active =>
         state.policies[i].id \in Authored \/ \E a \in {state.approvals[k] : k \in 1..Len(state.approvals)} :
           a.rev = i /\ <<a.id, "approve">> \in state'.decided
=============================================================================

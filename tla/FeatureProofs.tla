------------------------------ MODULE FeatureProofs ------------------------------
(***************************************************************************)
(* Theorems about the feature workflows, for every choice of the workflows *)
(* that run together, every bound and every beginning: started by the      *)
(* runtime or imported by a handoff.                                       *)
(*                                                                         *)
(* The proofs have two layers.  The first, about the runtime, says what a  *)
(* step means for one workflow: nothing, a change of one of its rows, or a *)
(* turn, in which its reducer decides on a timer, an answer, a delivery or *)
(* a failure.  The second goes through the reducers: what a workflow's     *)
(* state says of its rows and of the world survives every such step.       *)
(***************************************************************************)
EXTENDS FeatureWorkflows, FiniteSetTheorems, TLAPS

-----------------------------------------------------------------------------
(* Rows and instances are well-formed *)

AnswerTypes == {"approved", "declined", "contact-query", "contact-selected", "reply", "eligible"}
Statuses == {"absent", "waiting", "completed", "failed"}

Instance(r) ==
  /\ DOMAIN r = {"status", "state", "wake", "fired"}
  /\ r.status \in Statuses /\ r.wake \in Int \cup {None} /\ r.fired \in BOOLEAN

EffectRow(r) ==
  /\ DOMAIN r = {"of", "effect", "status", "at", "data", "tried"}
  /\ r.of \in Flows /\ r.status \in EffectStatus /\ r.at \in Nat /\ r.tried \in BOOLEAN
  /\ r.status \in {"executed", "told", "delivered"} => r.tried

Tables ==
  /\ now \in Nat
  /\ DOMAIN flow = Flows /\ \A f \in Flows : Instance(flow[f])
  /\ \A id \in DOMAIN outbox :
       /\ EffectRow(outbox[id]) /\ outbox[id].at <= now + 1
       /\ id = <<outbox[id].of, outbox[id].effect.id>>
       /\ flow[outbox[id].of].status # "absent"
  /\ DOMAIN session = {"exists", "archivedAt"} /\ session.exists \in BOOLEAN
  /\ session.archivedAt = None \/ session.archivedAt \in 0 .. now
  /\ spent \in [answers : Nat, failures : Nat, retries : 0 .. MaxFaults, faults : 0 .. MaxFaults, touches : 0 .. MaxTouches]

\* What a reducer returns when it does not throw
Decided(d) ==
  /\ d.status \in Statuses \ {"absent"} /\ d.wake \in Int \cup {None, Keep}

-----------------------------------------------------------------------------
(* What a step means for a workflow *)

SameEffect(id) ==
  /\ outbox'[id].of = outbox[id].of /\ outbox'[id].effect = outbox[id].effect
  /\ outbox[id].tried => outbox'[id].tried

RowsStay(f, touched) ==
  \A id \in RowsOf(f) : id \in RowsOf(f)' /\ (id \notin touched => outbox'[id] = outbox[id])

\* The reducer decides: the new instance, and the rows of the effects
Decides(f, event) ==
  LET d == Reduce(f, flow[f].state, event) IN
  /\ d # Refused
  /\ flow'[f] = [status |-> d.status, state |-> d.state, wake |-> Kept(d.wake, flow[f].wake),
                 fired |-> d.wake = Keep /\ (flow[f].fired \/ event.type = "timer")]
  /\ \A e \in d.effects : <<f, e.id>> \in RowsOf(f)' \ RowsOf(f)
  /\ \A id \in RowsOf(f)' \ RowsOf(f) :
       /\ outbox'[id].effect \in d.effects /\ id = <<f, outbox'[id].effect.id>>
       /\ outbox'[id] = NewRow(f, outbox'[id].effect)

Onward ==
  /\ now' \in Nat /\ now <= now' /\ heard \subseteq heard'
  /\ spent'.faults \in Nat /\ spent'.touches \in Nat
  /\ spent.faults <= spent'.faults /\ spent.touches <= spent'.touches
  /\ \A f \in Flows : Marked(f, "sent")' <=> Marked(f, "sent")

\* Who may be heard, and when
CardTypes == {"approved", "declined", "contact-query", "contact-selected"}
Asked(f, a) ==
  /\ a.type \in CardTypes => Executed(f, "requestInteraction") # {}
  /\ a.type = "reply" =>
       /\ f \in {"outreach", "research", "research-untracked"}
       /\ a.data \in (IF f = "outreach" THEN {None} ELSE {"progress", "final"})
  /\ a.type = "eligible" => f = "session"

TimerTurn(f) == Due(f) /\ Decides(f, Timer(f)) /\ RowsStay(f, {}) /\ UNCHANGED <<session, spent>>
AnswerTurn(f, a) ==
  /\ flow[f].status # "absent"
  /\ a.type \in AnswerTypes /\ a.effect = None /\ a.at = now
  /\ Asked(f, a)
  /\ Decides(f, a) /\ RowsStay(f, {})
  /\ <<f, a.type, a.data>> \in heard' /\ UNCHANGED session
DeliverTurn(f, id) ==
  /\ id \in RowsOf(f) /\ outbox[id].status = "executed"
  /\ Decides(f, DeliveredEvent(id)) /\ RowsStay(f, {id}) /\ SameEffect(id)
  /\ \/ outbox'[id].status = "delivered"
     \/ outbox'[id].status = "told" /\ spent'.faults > 0
  /\ UNCHANGED session
FailTurn(f, id) ==
  /\ id \in RowsOf(f) /\ Open(id)
  /\ Decides(f, FailedEvent(id)) /\ RowsStay(f, {id}) /\ SameEffect(id)
  /\ outbox'[id].status = "failed" /\ UNCHANGED session

\* No turn: a row of the workflow is executed, put off, or settled behind its back
RowChange(f, id) ==
  /\ id \in RowsOf(f) /\ flow'[f] = flow[f] /\ RowsOf(f)' = RowsOf(f)
  /\ RowsStay(f, {id}) /\ SameEffect(id)
  /\ \/ /\ outbox[id].status = "pending" /\ outbox'[id].status = "executed"
        /\ \E r \in Results(outbox[id].effect) : outbox'[id].data = r.data /\ session' = r.session
     \/ outbox[id].status = "told" /\ outbox'[id].status = "delivered" /\ UNCHANGED session
     \/ outbox[id].status = "executed" /\ outbox'[id].status = "pending" /\ UNCHANGED session
     \/ /\ Open(id) /\ outbox'[id].status = "failed" /\ UNCHANGED session
        /\ ~Commits(f, FailedEvent(id))

Rest(f) == flow'[f] = flow[f] /\ RowsOf(f)' = RowsOf(f) /\ RowsStay(f, {})

FlowStep(f) ==
  \/ Rest(f)
  \/ TimerTurn(f)
  \/ \E a : AnswerTurn(f, a)
  \/ \E id \in RowsOf(f) : DeliverTurn(f, id) \/ FailTurn(f, id) \/ RowChange(f, id)

-----------------------------------------------------------------------------
(* The runtime: from the actions to the steps of a workflow *)

\* The table a transition starts from differs in the touched rows
Amends(rows, touched) ==
  /\ DOMAIN rows = DOMAIN outbox
  /\ \A id \in DOMAIN outbox : rows[id].of = outbox[id].of /\ (id \notin touched => rows[id] = outbox[id])

\* A transition decides for its workflow and leaves the others at rest
LEMMA TransitionDecides ==
  ASSUME Tables, NEW f \in Flows, flow[f].status # "absent", NEW event, NEW rows, NEW touched \in SUBSET RowsOf(f),
         Commits(f, event), Transition(f, event, rows), Amends(rows, touched)
  PROVE  /\ Decides(f, event) /\ RowsStay(f, touched)
         /\ \A id \in touched : outbox'[id] = rows[id]
         /\ \A g \in Flows \ {f} : Rest(g)
<1> DEFINE d == Reduce(f, flow[f].state, event)
<1>0. /\ DOMAIN rows = DOMAIN outbox
      /\ \A id \in DOMAIN outbox : rows[id].of = outbox[id].of /\ (id \notin touched => rows[id] = outbox[id])
  BY DEF Amends
<1>1. /\ d # Refused /\ Ids(f, d.effects) \cap DOMAIN outbox = {}
      /\ DOMAIN outbox' = DOMAIN outbox \cup Ids(f, d.effects)
      /\ \A id \in DOMAIN outbox : outbox'[id] = rows[id]
      /\ \A id \in Ids(f, d.effects) : outbox'[id] = RowFor(f, d.effects, id)
  BY <1>0 DEF Commits, Transition
<1>2. ASSUME NEW id \in Ids(f, d.effects)
      PROVE  /\ outbox'[id].effect \in d.effects /\ outbox'[id] = NewRow(f, outbox'[id].effect)
             /\ outbox'[id].of = f /\ id = <<f, outbox'[id].effect.id>>
  <2>1. PICK e \in d.effects : id = <<f, e.id>>
    BY DEF Ids
  <2> DEFINE c == CHOOSE x \in d.effects : <<f, x.id>> = id
  <2>2. c \in d.effects /\ <<f, c.id>> = id
    BY <2>1
  <2>3. outbox'[id] = NewRow(f, c)
    BY <1>1 DEF RowFor
  <2> QED BY <2>2, <2>3 DEF NewRow
<1>3. RowsOf(f)' = RowsOf(f) \cup Ids(f, d.effects)
  BY <1>0, <1>1, <1>2 DEF RowsOf
<1>4. \A g \in Flows \ {f} : RowsOf(g)' = RowsOf(g)
  BY <1>0, <1>1, <1>2 DEF RowsOf
<1>5. Decides(f, event)
  <2>1. \A e \in d.effects : <<f, e.id>> \in Ids(f, d.effects)
    BY DEF Ids
  <2>2. Ids(f, d.effects) \cap RowsOf(f) = {}
    BY <1>1 DEF RowsOf
  <2>3. flow'[f] = [status |-> d.status, state |-> d.state, wake |-> Kept(d.wake, flow[f].wake),
                    fired |-> d.wake = Keep /\ (flow[f].fired \/ event.type = "timer")]
    BY DEF Transition, Tables
  <2> QED BY <1>1, <1>2, <1>3, <2>1, <2>2, <2>3 DEF Decides
<1>6. RowsStay(f, touched)
  BY <1>0, <1>1, <1>3 DEF RowsStay, RowsOf
<1>7. ASSUME NEW g \in Flows \ {f} PROVE Rest(g)
  <2>1. flow'[g] = flow[g]
    BY DEF Transition, Tables
  <2>2. \A id \in RowsOf(g) : id \notin touched
    BY DEF RowsOf
  <2> QED BY <1>0, <1>1, <1>4, <2>1, <2>2 DEF Rest, RowsStay, RowsOf
<1>8. \A id \in touched : outbox'[id] = rows[id]
  BY <1>1 DEF RowsOf
<1> QED BY <1>5, <1>6, <1>7, <1>8

LEMMA AnswerShape ==
  ASSUME Tables, NEW a \in Answers
  PROVE  /\ a[1] \in Flows /\ a[2].type \in AnswerTypes /\ a[2].effect = None /\ a[2].at = now
         /\ a = <<a[1], a[2]>>
         /\ Asked(a[1], a[2])
<1>1. CASE a \in Clicks
  <2>0. PICK id \in DOMAIN outbox : /\ outbox[id].tried /\ outbox[id].effect.kind = "requestInteraction"
                                    /\ \E x \in CardAnswers(id) : a = <<outbox[id].of, x>>
    BY <1>1, Zenon DEF Clicks
  <2>1. PICK x \in CardAnswers(id) : a = <<outbox[id].of, x>>
    BY <2>0
  <2>2. x.type \in {"approved", "declined", "contact-query", "contact-selected"} /\ x.effect = None /\ x.at = now
    BY DEF CardAnswers, Answer
  <2>3. a[1] \in Flows /\ id \in RowsOf(a[1]) /\ a[2] = x /\ a[1] = outbox[id].of
    BY <2>0, <2>1 DEF Tables, EffectRow, RowsOf
  <2>4. Executed(a[1], "requestInteraction") # {}
    BY <2>0, <2>3 DEF Executed
  <2> QED BY <2>0, <2>1, <2>2, <2>3, <2>4 DEF AnswerTypes, CardTypes, Asked
<1>2. ASSUME NEW flows, NEW stages, a \in Replies(flows, stages)
      PROVE  \E f \in flows \cap Flows : \E stage \in stages : a = <<f, Answer("reply", stage, now)>>
  BY <1>2, Zenon DEF Replies
<1>3. CASE a \in Replies({"outreach"}, {None})
  <2>1. a = <<"outreach", Answer("reply", None, now)>> /\ "outreach" \in Flows
    BY <1>2, <1>3
  <2> QED BY <2>1 DEF Answer, AnswerTypes, CardTypes, Asked
<1>4. CASE a \in Replies({"research", "research-untracked"}, {"progress", "final"})
  <2>1. PICK f \in {"research", "research-untracked"} \cap Flows, stage \in {"progress", "final"} :
          a = <<f, Answer("reply", stage, now)>>
    BY <1>2, <1>4
  <2> QED BY <2>1 DEF Answer, AnswerTypes, CardTypes, Asked
<1>5. CASE a \in {<<f, Answer("eligible", None, now)>> : f \in {"session"} \cap Flows}
  <2>1. a = <<"session", Answer("eligible", None, now)>> /\ "session" \in Flows
    BY <1>5, Zenon
  <2> QED BY <2>1 DEF Answer, AnswerTypes, CardTypes, Asked
<1>6. \/ a \in Clicks \/ a \in Replies({"outreach"}, {None})
      \/ a \in Replies({"research", "research-untracked"}, {"progress", "final"})
      \/ a \in {<<f, Answer("eligible", None, now)>> : f \in {"session"} \cap Flows}
  BY Zenon DEF Answers
<1> QED BY <1>1, <1>3, <1>4, <1>5, <1>6

\* What the six steps of an effect do to its row
LEMMA SettledRow ==
  ASSUME Tables, NEW id \in DOMAIN outbox, NEW status
  PROVE  /\ DOMAIN Settled(id, status) = DOMAIN outbox /\ DOMAIN Postponed(id, status) = DOMAIN outbox
         /\ \A o \in DOMAIN outbox \ {id} : Settled(id, status)[o] = outbox[o] /\ Postponed(id, status)[o] = outbox[o]
         /\ \A r \in {Settled(id, status)[id], Postponed(id, status)[id]} :
              /\ DOMAIN r = {"of", "effect", "status", "at", "data", "tried"} /\ r.status = status /\ r.data = None
              /\ r.of = outbox[id].of /\ r.effect = outbox[id].effect /\ r.tried = outbox[id].tried
         /\ Settled(id, status)[id].at = 0 /\ Postponed(id, status)[id].at = now + 1
BY DEF Settled, Postponed, Tables, EffectRow

\* A turn in which a row is settled, or put off
LEMMA SettlingDecides ==
  ASSUME Tables, NEW id \in DOMAIN outbox, NEW f \in Flows, f = outbox[id].of, NEW status, NEW event,
         NEW rows \in {Settled(id, status), Postponed(id, status)},
         Commits(f, event), Transition(f, event, rows)
  PROVE  /\ Decides(f, event) /\ RowsStay(f, {id}) /\ SameEffect(id)
         /\ outbox'[id].status = status
         /\ \A h \in Flows \ {f} : Rest(h)
<1>1. /\ {id} \in SUBSET RowsOf(f) /\ flow[f].status # "absent" /\ EffectRow(outbox[id])
  BY DEF Tables, EffectRow, RowsOf
<1>2. /\ DOMAIN rows = DOMAIN outbox
      /\ \A o \in DOMAIN outbox : rows[o].of = outbox[o].of /\ (o \notin {id} => rows[o] = outbox[o])
      /\ rows[id].status = status /\ rows[id].of = outbox[id].of /\ rows[id].effect = outbox[id].effect
      /\ rows[id].tried = outbox[id].tried
  BY SettledRow
<1>3. Amends(rows, {id})
  BY <1>2 DEF Amends
<1>4. /\ Decides(f, event) /\ RowsStay(f, {id}) /\ \A o \in {id} : outbox'[o] = rows[o]
      /\ \A h \in Flows \ {f} : Rest(h)
  BY <1>1, <1>3, TransitionDecides
<1> QED BY <1>2, <1>4 DEF SameEffect

LEMMA ExecutedRow ==
  ASSUME Tables, NEW id \in DOMAIN outbox, NEW data,
         outbox' = [outbox EXCEPT ![id].status = "executed", ![id].data = data, ![id].tried = TRUE]
  PROVE  /\ DOMAIN outbox' = DOMAIN outbox /\ \A o \in DOMAIN outbox \ {id} : outbox'[o] = outbox[o]
         /\ DOMAIN outbox'[id] = {"of", "effect", "status", "at", "data", "tried"} /\ outbox'[id].status = "executed"
         /\ outbox'[id].data = data /\ outbox'[id].tried = TRUE /\ outbox'[id].at = outbox[id].at
         /\ outbox'[id].of = outbox[id].of /\ outbox'[id].effect = outbox[id].effect
BY DEF Tables, EffectRow

LEMMA StepOfAFlow ==
  ASSUME Tables, [Next]_vars, NEW f \in Flows
  PROVE  Onward /\ FlowStep(f)
<1>1. CASE UNCHANGED vars
  <2>1. Onward
    BY <1>1 DEF Onward, Marked, vars, Tables
  <2>2. Rest(f)
    BY <1>1 DEF Rest, RowsStay, RowsOf, vars
  <2> QED BY <2>1, <2>2 DEF FlowStep
<1>2. ASSUME NEW g \in Flows, FireTimer(g) PROVE Onward /\ FlowStep(f)
  <2>1. Onward
    BY <1>2 DEF FireTimer, Onward, Marked, Tables
  <2>2. flow[g].status # "absent" /\ Amends(outbox, {})
    BY <1>2 DEF FireTimer, Due, Amends
  <2>3. Decides(g, Timer(g)) /\ RowsStay(g, {}) /\ \A h \in Flows \ {g} : Rest(h)
    BY <1>2, <2>2, TransitionDecides DEF FireTimer
  <2> QED BY <1>2, <2>1, <2>3 DEF FireTimer, FlowStep, TimerTurn
<1>3. ASSUME NEW id \in DOMAIN outbox, EffectStep(id) PROVE Onward /\ FlowStep(f)
  <2> PICK g \in Flows : g = outbox[id].of
    BY DEF Tables, EffectRow
  <2>0. g \in Flows /\ id \in RowsOf(g) /\ {id} \in SUBSET RowsOf(g) /\ flow[g].status # "absent" /\ EffectRow(outbox[id])
    BY DEF Tables, EffectRow, RowsOf
  <2>a. \A h \in Flows : Marked(h, "sent")' <=> Marked(h, "sent")
    BY <1>3 DEF EffectStep, Execute, Deliver, DeliverUnsettled, SettleTold, TryAgain, FailFinally, Marked
  <2>z. /\ now' = now /\ heard' = heard
        /\ spent'.faults \in Nat /\ spent'.touches \in Nat
        /\ spent.faults <= spent'.faults /\ spent.touches <= spent'.touches
    <3>1. now' = now /\ heard' = heard
      BY <1>3, Zenon DEF EffectStep, Execute, Deliver, DeliverUnsettled, SettleTold, TryAgain, FailFinally
    <3>2. \/ spent' = spent \/ spent' = [spent EXCEPT !.faults = @ + 1] \/ spent' = [spent EXCEPT !.retries = @ + 1]
          \/ spent' = [spent EXCEPT !.failures = @ + 1]
      BY <1>3, Zenon DEF EffectStep, Execute, Deliver, DeliverUnsettled, SettleTold, TryAgain, FailFinally
    <3> QED BY <3>1, <3>2 DEF Tables
  <2>b. Onward
    BY <2>z, <2>a DEF Onward, Tables
  <2>c. ASSUME flow' = flow, DOMAIN outbox' = DOMAIN outbox, SameEffect(id),
               \A o \in DOMAIN outbox \ {id} : outbox'[o] = outbox[o]
        PROVE  /\ \A h \in Flows \ {g} : Rest(h)
               /\ flow'[g] = flow[g] /\ RowsOf(g)' = RowsOf(g) /\ RowsStay(g, {id})
    BY <2>0, <2>c DEF Rest, RowsStay, RowsOf, SameEffect
  <2>1. CASE Execute(id)
    <3>0. PICK r \in Results(outbox[id].effect) :
            /\ session' = r.session
            /\ outbox' = [outbox EXCEPT ![id].status = "executed", ![id].data = r.data, ![id].tried = TRUE]
      BY <2>1 DEF Execute
    <3>1. flow' = flow /\ DOMAIN outbox' = DOMAIN outbox /\ SameEffect(id) /\ \A o \in DOMAIN outbox \ {id} : outbox'[o] = outbox[o]
      BY <2>1, <3>0, ExecutedRow DEF Execute, SameEffect
    <3>2. outbox[id].status = "pending" /\ outbox'[id].status = "executed" /\ outbox'[id].data = r.data /\ session' = r.session
      BY <2>1, <3>0, ExecutedRow DEF Execute
    <3>3. RowChange(g, id)
      BY <2>0, <2>c, <3>1, <3>2 DEF RowChange
    <3> QED BY <2>0, <2>b, <2>c, <3>1, <3>3 DEF FlowStep
  <2>6. CASE Deliver(id)
    <3>1. /\ Decides(g, DeliveredEvent(id)) /\ RowsStay(g, {id}) /\ SameEffect(id) /\ outbox'[id].status = "delivered"
          /\ \A h \in Flows \ {g} : Rest(h)
      BY <2>6, SettlingDecides DEF Deliver
    <3>3. DeliverTurn(g, id)
      BY <2>0, <2>6, <3>1 DEF DeliverTurn, Deliver
    <3> QED BY <2>0, <2>b, <3>1, <3>3 DEF FlowStep
  <2>7. CASE DeliverUnsettled(id)
    <3>1. /\ Decides(g, DeliveredEvent(id)) /\ RowsStay(g, {id}) /\ SameEffect(id) /\ outbox'[id].status = "told"
          /\ \A h \in Flows \ {g} : Rest(h)
      BY <2>7, SettlingDecides DEF DeliverUnsettled
    <3>2. spent'.faults > 0
      BY <2>7 DEF DeliverUnsettled, Tables
    <3>3. DeliverTurn(g, id)
      BY <2>0, <2>7, <3>1, <3>2 DEF DeliverTurn, DeliverUnsettled
    <3> QED BY <2>0, <2>b, <3>1, <3>3 DEF FlowStep
  <2>8. CASE FailFinally(id) /\ Commits(g, FailedEvent(id))
    <3>0. Open(id)
      BY <2>8 DEF FailFinally, Open, Claimed, Available
    <3>1. /\ Decides(g, FailedEvent(id)) /\ RowsStay(g, {id}) /\ SameEffect(id) /\ outbox'[id].status = "failed"
          /\ \A h \in Flows \ {g} : Rest(h)
      BY <2>8, SettlingDecides DEF FailFinally
    <3>3. FailTurn(g, id)
      BY <2>0, <2>8, <3>0, <3>1 DEF FailTurn, FailFinally
    <3> QED BY <2>0, <2>b, <3>1, <3>3 DEF FlowStep
  <2>3. CASE SettleTold(id) \/ TryAgain(id) \/ (FailFinally(id) /\ ~Commits(g, FailedEvent(id)))
    <3>1. flow' = flow /\ session' = session
      BY <2>3 DEF SettleTold, TryAgain, FailFinally
    <3>2. \/ outbox' = Settled(id, "delivered") /\ outbox[id].status = "told"
          \/ outbox' = Postponed(id, "pending") /\ outbox[id].status = "executed"
          \/ outbox' = Settled(id, "failed") /\ Open(id) /\ ~Commits(g, FailedEvent(id))
      BY <2>3 DEF SettleTold, TryAgain, FailFinally, Open, Claimed, Available
    <3>3. DOMAIN outbox' = DOMAIN outbox /\ SameEffect(id) /\ \A o \in DOMAIN outbox \ {id} : outbox'[o] = outbox[o]
      BY <2>0, <3>2, SettledRow DEF SameEffect, EffectRow
    <3>4. RowChange(g, id)
      <4>1. \/ outbox[id].status = "told" /\ outbox'[id].status = "delivered"
            \/ outbox[id].status = "executed" /\ outbox'[id].status = "pending"
            \/ Open(id) /\ outbox'[id].status = "failed" /\ ~Commits(g, FailedEvent(id))
        BY <2>0, <3>2, SettledRow DEF EffectRow
      <4> QED BY <2>0, <2>c, <3>1, <3>3, <4>1 DEF RowChange
    <3> QED BY <2>0, <2>b, <2>c, <3>1, <3>3, <3>4 DEF FlowStep
  <2>4. Execute(id) \/ Deliver(id) \/ DeliverUnsettled(id) \/ SettleTold(id) \/ TryAgain(id) \/ FailFinally(id)
    BY <1>3, Zenon DEF EffectStep
  <2> QED BY <2>1, <2>3, <2>4, <2>6, <2>7, <2>8
<1>4. ASSUME NEW a \in Answers, Hear(a[1], a[2]) PROVE Onward /\ FlowStep(f)
  <2>0. /\ a[1] \in Flows /\ a[2].type \in AnswerTypes /\ a[2].effect = None /\ a[2].at = now
        /\ Asked(a[1], a[2])
    BY AnswerShape
  <2>a. \A h \in Flows : Marked(h, "sent")' <=> Marked(h, "sent")
    BY <1>4, <2>0 DEF Hear, Marked, AnswerTypes
  <2>b. Onward
    BY <1>4, <2>a DEF Hear, Onward, Tables
  <2>c. Amends(outbox, {})
    BY DEF Amends
  <2>1. Decides(a[1], a[2]) /\ RowsStay(a[1], {}) /\ \A h \in Flows \ {a[1]} : Rest(h)
    BY <1>4, <2>0, <2>c, TransitionDecides DEF Hear
  <2>2. AnswerTurn(a[1], a[2])
    BY <1>4, <2>0, <2>1 DEF Hear, AnswerTurn
  <2> QED BY <2>0, <2>b, <2>1, <2>2 DEF FlowStep
<1>5. CASE TouchSession
  <2>1. Onward
    BY <1>5 DEF Onward, Marked, TouchSession, Tables
  <2>2. Rest(f)
    BY <1>5 DEF Rest, RowsStay, RowsOf, TouchSession
  <2> QED BY <2>1, <2>2 DEF FlowStep
<1>6. CASE Tick
  <2>1. Onward
    BY <1>6 DEF Onward, Marked, Tick, Tables
  <2>2. Rest(f)
    BY <1>6 DEF Rest, RowsStay, RowsOf, Tick
  <2> QED BY <2>1, <2>2 DEF FlowStep
<1> QED BY <1>1, <1>2, <1>3, <1>4, <1>5, <1>6 DEF Next

-----------------------------------------------------------------------------
(* The turns of a workflow, seen alike *)

\* A turn: the reducer decides on an event; the touched rows keep their effects, and none
\* of them is left executed.  What an event stands for is out in the world.
Turn(f, event, touched) ==
  /\ flow[f].status # "absent" /\ event.at = now
  /\ Decides(f, event) /\ RowsStay(f, touched) /\ touched \subseteq RowsOf(f)
  /\ \A id \in touched : SameEffect(id) /\ outbox'[id].status # "executed" /\ Open(id)
  /\ event.type \in {"timer"} \cup AnswerTypes => touched = {}
  /\ event.type \in AnswerTypes => <<f, event.type, event.data>> \in heard'
  /\ Asked(f, event)
  /\ event.type = "timer" => Due(f) /\ event.data = flow[f].wake
  /\ \A kind : Delivered(event, kind) => Executed(f, kind)' # {}
  /\ IsVerdict(event) => \E id \in touched :
       /\ touched = {id} /\ event.effect = outbox[id].effect
       /\ event.type = "delivered" =>
            /\ outbox[id].status = "executed" /\ event.data = outbox[id].data
            /\ outbox'[id].status = "delivered" \/ (outbox'[id].status = "told" /\ spent'.faults > 0)
       /\ event.type = "failed" => outbox'[id].status = "failed"
  /\ UNCHANGED session

\* ... or no turn
Quiet(f) ==
  Rest(f) \/ \E id \in RowsOf(f) : RowChange(f, id)

LEMMA TurnOrQuiet ==
  ASSUME Tables, NEW f \in Flows, FlowStep(f)
  PROVE  \/ Quiet(f)
         \/ \E event, touched : event.type \in {"timer", "delivered", "failed"} \cup AnswerTypes /\ Turn(f, event, touched)
<1>0. \A id \in RowsOf(f) : id \in DOMAIN outbox /\ outbox[id].of = f /\ flow[f].status # "absent" /\ EffectRow(outbox[id])
  BY DEF Tables, RowsOf
<1>1. CASE TimerTurn(f)
  <2>1. Timer(f).type = "timer" /\ Timer(f).at = now /\ Timer(f).effect = None /\ Timer(f).data = flow[f].wake
    BY DEF Timer, TimerEvent
  <2>2. flow[f].status # "absent"
    BY <1>1 DEF TimerTurn, Due
  <2>3. \A kind : ~Delivered(Timer(f), kind)
    BY <2>1 DEF Delivered
  <2>4. Turn(f, Timer(f), {})
    BY <1>1, <2>1, <2>2, <2>3 DEF TimerTurn, Turn, AnswerTypes, IsVerdict, CardTypes, Asked
  <2> QED BY <2>1, <2>4
<1>2. ASSUME NEW a, AnswerTurn(f, a) PROVE \E event, touched : event.type \in AnswerTypes /\ Turn(f, event, touched)
  <2>1. \A kind : ~Delivered(a, kind)
    BY <1>2 DEF Delivered, AnswerTurn, AnswerTypes
  <2>2. Turn(f, a, {})
    BY <1>2, <2>1 DEF AnswerTurn, Turn, AnswerTypes, IsVerdict
  <2> QED BY <1>2, <2>2 DEF AnswerTurn
<1>3. ASSUME NEW id \in RowsOf(f), DeliverTurn(f, id)
      PROVE  \E event, touched : event.type = "delivered" /\ Turn(f, event, touched)
  <2>1. /\ DeliveredEvent(id).type = "delivered" /\ DeliveredEvent(id).at = now
        /\ DeliveredEvent(id).effect = outbox[id].effect /\ DeliveredEvent(id).data = outbox[id].data
    BY DEF DeliveredEvent, Verdict
  <2>2. \A kind : Delivered(DeliveredEvent(id), kind) => id \in Executed(f, kind)'
    BY <1>0, <1>3, <2>1 DEF Delivered, DeliverTurn, Executed, SameEffect, EffectRow, RowsStay
  <2>3. Turn(f, DeliveredEvent(id), {id})
    BY <1>0, <1>3, <2>1, <2>2 DEF DeliverTurn, Turn, AnswerTypes, IsVerdict, Open, CardTypes, Asked
  <2> QED BY <2>1, <2>3
<1>4. ASSUME NEW id \in RowsOf(f), FailTurn(f, id)
      PROVE  \E event, touched : event.type = "failed" /\ Turn(f, event, touched)
  <2>1. /\ FailedEvent(id).type = "failed" /\ FailedEvent(id).at = now /\ FailedEvent(id).effect = outbox[id].effect
    BY DEF FailedEvent, Verdict
  <2>2. \A kind : ~Delivered(FailedEvent(id), kind)
    BY <2>1 DEF Delivered
  <2>3. Turn(f, FailedEvent(id), {id})
    BY <1>0, <1>4, <2>1, <2>2 DEF FailTurn, Turn, AnswerTypes, IsVerdict, CardTypes, Asked
  <2> QED BY <2>1, <2>3
<1> QED BY <1>1, <1>2, <1>3, <1>4 DEF FlowStep, Quiet

\* An instance goes on to be one
Lives(f) == Instance(flow'[f]) /\ (flow[f].status # "absent" => flow'[f].status # "absent")

\* What a turn leaves
LEMMA AfterTurn ==
  ASSUME Tables, NEW f \in Flows, NEW event, NEW touched, Turn(f, event, touched),
         event.type \in {"timer", "delivered", "failed"} \cup AnswerTypes, Decided(Reduce(f, flow[f].state, event))
  PROVE  LET d == Reduce(f, flow[f].state, event) IN
         /\ Lives(f) /\ flow'[f].status # "absent" /\ flow'[f].state = d.state
         /\ flow'[f].wake = Kept(d.wake, flow[f].wake)
         /\ \A id \in RowsOf(f) : id \in RowsOf(f)' /\ SameEffect(id)
         /\ \A id \in RowsOf(f)' :
              \/ id \in RowsOf(f) /\ SameEffect(id) /\ (id \in touched => outbox'[id].status # "executed")
                   /\ (id \notin touched => outbox'[id] = outbox[id]) /\ (Open(id)' => Open(id))
                   /\ (id \in touched /\ spent'.faults = 0 => ~Open(id)')
              \/ id \notin RowsOf(f) /\ outbox'[id].effect \in d.effects /\ outbox'[id].status = "pending" /\ ~outbox'[id].tried
                   /\ id = <<f, outbox'[id].effect.id>>
         /\ \A kind : Executed(f, kind) \subseteq Executed(f, kind)'
<1> DEFINE d == Reduce(f, flow[f].state, event)
<1>1. Lives(f) /\ flow'[f].status # "absent" /\ flow'[f].state = d.state /\ flow'[f].wake = Kept(d.wake, flow[f].wake)
  BY DEF Turn, Decides, Decided, Lives, Instance, Kept, Tables, Statuses
<1>2. \A id \in RowsOf(f) : id \in RowsOf(f)' /\ SameEffect(id) /\ (id \notin touched => outbox'[id] = outbox[id])
  BY DEF Turn, RowsStay, SameEffect
<1>3. ASSUME NEW id \in RowsOf(f)', id \notin RowsOf(f)
      PROVE  /\ outbox'[id].effect \in d.effects /\ outbox'[id].status = "pending" /\ ~outbox'[id].tried
             /\ id = <<f, outbox'[id].effect.id>>
  <2>1. outbox'[id].effect \in d.effects /\ id = <<f, outbox'[id].effect.id>> /\ outbox'[id] = NewRow(f, outbox'[id].effect)
    BY <1>3 DEF Turn, Decides
  <2> QED BY <2>1 DEF NewRow
<1>4. \A id \in touched : outbox'[id].status # "executed" /\ Open(id)
  BY DEF Turn
<1>6. ASSUME spent'.faults = 0, NEW id \in touched PROVE ~Open(id)'
  <2>1. IsVerdict(event) /\ touched = {id} /\ outbox'[id].status \in {"delivered", "failed"}
    BY <1>6 DEF Turn, IsVerdict
  <2> QED BY <2>1 DEF Open
<1>7. \A id \in RowsOf(f) : Open(id)' => Open(id)
  BY <1>2, <1>4 DEF Open
<1>5. ASSUME NEW kind PROVE Executed(f, kind) \subseteq Executed(f, kind)'
  BY <1>2 DEF Executed, SameEffect
<1> QED BY <1>1, <1>2, <1>3, <1>4, <1>5, <1>6, <1>7

\* What a step without a turn leaves
LEMMA AfterQuiet ==
  ASSUME Tables, NEW f \in Flows, Quiet(f)
  PROVE  /\ flow'[f] = flow[f] /\ RowsOf(f)' = RowsOf(f) /\ Lives(f)
         /\ \A id \in RowsOf(f) :
              /\ SameEffect(id) /\ (Open(id)' => Open(id))
              /\ outbox'[id].status = "executed" =>
                   \/ outbox'[id] = outbox[id]
                   \/ outbox[id].status = "pending" /\ \E r \in Results(outbox[id].effect) : outbox'[id].data = r.data /\ session' = r.session
         /\ \A kind : Executed(f, kind) \subseteq Executed(f, kind)'
<1>1. flow'[f] = flow[f] /\ RowsOf(f)' = RowsOf(f) /\ \A id \in RowsOf(f) : SameEffect(id)
  BY DEF Quiet, Rest, RowChange, RowsStay, SameEffect
<1>2. \A id \in RowsOf(f) : outbox'[id].status = "executed" =>
        \/ outbox'[id] = outbox[id]
        \/ outbox[id].status = "pending" /\ \E r \in Results(outbox[id].effect) : outbox'[id].data = r.data /\ session' = r.session
  BY DEF Quiet, Rest, RowChange, RowsStay
<1>4. \A id \in RowsOf(f) : Open(id)' => Open(id)
  BY DEF Quiet, Rest, RowChange, RowsStay, Open
<1>3. ASSUME NEW kind PROVE Executed(f, kind) \subseteq Executed(f, kind)'
  BY <1>1 DEF Executed, SameEffect
<1>5. Lives(f)
  BY <1>1 DEF Lives, Tables
<1> QED BY <1>1, <1>2, <1>3, <1>4, <1>5

-----------------------------------------------------------------------------
(* followup.outreach *)

FailureState(x) == DOMAIN x = {"op", "at", "count"} /\ x.count \in Nat

\* Before the owner has approved of a message, and from then on
Asking == {"ready", "resolving", "awaiting-contact", "awaiting-approval"}
Committed == {"sending", "waiting-reply", "updating-task", "notifying", "completed"}

OutreachState(s) ==
  /\ DOMAIN s = {"phase", "seq", "contact", "candidates", "approved", "failure"}
  /\ s.phase \in Asking \cup Committed /\ s.seq \in Nat /\ s.candidates \subseteq Contacts
  /\ s.phase = "awaiting-approval" => s.contact \in Contacts
  /\ FailureState(s.failure)

\* No id carries a number the instance has not reached
OutreachId(id, seq) ==
  /\ \A k : id \in {<<"followup-resolve", k>>, <<"followup-contact-choice", k>>, <<"followup-contact-input", k>>,
                    <<"followup-send", k>>, <<"followup-task-update", k>>, <<"followup-result-notify", k>>} =>
              k \in Nat /\ k <= seq
  /\ \A c, k : id = <<"followup-approval", c, k>> => k \in Nat /\ k <= seq

\* What is true of every effect of an instance in state s
OutreachEffect(e, s) ==
  /\ e.kind \in {"resolveContact", "requestInteraction", "sendAsUser", "recordFollowupReply", "notifyOwner"}
  /\ e.kind = "sendAsUser" => e.key = <<"send">> /\ e.about = s.contact /\ s.phase \in Committed
  /\ e.id[1] = "followup-failure-notice" => e.kind = "notifyOwner"
  /\ OutreachId(e.id, s.seq)

\* The moves from one phase to the next that matter
OutreachMoves(s, event, t) ==
  \/ s.phase \in Asking /\ t.phase \in Asking
  \/ t.contact = s.contact /\
     \/ t.phase = s.phase
     \/ /\ s.phase = "awaiting-approval" /\ event.type = "approved" /\ event.data = s.contact /\ t.phase = "sending"
     \/ /\ s.phase = "awaiting-approval" /\ event.type = "declined" /\ event.data = s.contact /\ t.phase = "completed"
     \/ s.phase = "sending" /\ Delivered(event, "sendAsUser") /\ t.phase = "waiting-reply"
     \/ s.phase = "waiting-reply" /\ event.type = "reply" /\ t.phase = "updating-task"
     \/ s.phase = "updating-task" /\ Delivered(event, "recordFollowupReply") /\ t.phase = "notifying"
     \/ s.phase = "notifying" /\ Delivered(event, "notifyOwner") /\ t.phase = "completed"

OutreachTurn(s, event, d) ==
  /\ Decided(d) /\ OutreachState(d.state) /\ s.seq <= d.state.seq
  /\ OutreachMoves(s, event, d.state)
  /\ \A e \in d.effects : OutreachEffect(e, d.state) /\ (e.kind = "sendAsUser" => d.state.phase = "sending")

LEMMA OutreachTimed ==
  ASSUME NEW s, OutreachState(s), NEW event, event.type = "timer"
  PROVE  /\ Outreach(s, event) # Refused
         /\ OutreachTurn(s, event, Outreach(s, event))
         /\ \A e \in Outreach(s, event).effects : ~OutreachId(e.id, s.seq)
<1>1. Outreach(s, event) = OutreachTimer(s)
  BY DEF Outreach, IsVerdict
<1>2. CASE s.phase \in {"ready", "resolving"}
  BY <1>1, <1>2 DEF OutreachTimer, OutreachState, FailureState, OutreachTurn, Decided, Statuses, OutreachMoves, Asking, Committed,
       OutreachEffect, OutreachId, ResolveContact, Effect, Waiting, Decision, Refused
<1>3. CASE s.phase \in {"awaiting-contact", "awaiting-approval"}
  BY <1>1, <1>3 DEF OutreachTimer, OutreachState, FailureState, OutreachTurn, Decided, Statuses, OutreachMoves, Asking, Committed,
       OutreachEffect, OutreachId, Interaction, Effect, Waiting, Decision, Refused
<1>4. CASE s.phase \in {"sending", "updating-task", "notifying"}
  BY <1>1, <1>4 DEF OutreachTimer, OutreachState, FailureState, OutreachTurn, Decided, Statuses, OutreachMoves, Asking, Committed,
       OutreachEffect, OutreachId, SendMessage, RecordReply, ResultNotice, OwnerNotice, Effect, Waiting, Decision, Refused
<1>5. CASE s.phase \in {"waiting-reply", "completed"}
  BY <1>1, <1>5 DEF OutreachTimer, OutreachState, FailureState, OutreachTurn, Decided, Statuses, OutreachMoves, Asking, Committed,
       Unchanged, Waiting, Decision, Refused
<1> QED BY <1>2, <1>3, <1>4, <1>5 DEF OutreachState, Asking, Committed

LEMMA OutreachHears ==
  ASSUME NEW s, OutreachState(s), NEW event, event.type \in AnswerTypes, Outreach(s, event) # Refused
  PROVE  OutreachTurn(s, event, Outreach(s, event))
<1>1. Outreach(s, event) = OutreachAnswered(s, event)
  BY DEF Outreach, AnswerTypes, IsVerdict
<1>2. CASE s.phase = "awaiting-contact"
  BY <1>1, <1>2 DEF OutreachAnswered, AskApproval, OutreachState, FailureState, OutreachTurn, Decided, Statuses, OutreachMoves, Asking, Committed,
       OutreachEffect, OutreachId, Interaction, ResolveContact, Effect, Waiting, Decision, Refused, AnswerTypes
<1>3. CASE s.phase = "awaiting-approval"
  BY <1>1, <1>3 DEF OutreachAnswered, OutreachState, FailureState, OutreachTurn, Decided, Statuses, OutreachMoves, Asking, Committed,
       OutreachEffect, OutreachId, SendMessage, Effect, Waiting, Decision, Refused, AnswerTypes
<1>4. CASE s.phase \notin {"awaiting-contact", "awaiting-approval"}
  BY <1>1, <1>4 DEF OutreachAnswered, OutreachState, FailureState, OutreachTurn, Decided, Statuses, OutreachMoves, Asking, Committed,
       OutreachEffect, OutreachId, RecordReply, Effect, Waiting, Decision, Refused, AnswerTypes
<1> QED BY <1>2, <1>3, <1>4

LEMMA RetryDelay ==
  ASSUME NEW base \in Nat, NEW max \in Nat, NEW count \in Nat \ {0}
  PROVE  Backoff(base, max, count) \in Nat
BY DEF Backoff, Doublings

LEMMA OutreachRetries ==
  ASSUME NEW s, OutreachState(s), NEW op, NEW at \in Nat, NEW event, FeatureAssumption
  PROVE  LET d == OutreachRetry(s, op, at) IN
         /\ d # Refused /\ Decided(d) /\ OutreachState(d.state) /\ s.seq = d.state.seq
         /\ d.state.phase = s.phase /\ d.state.contact = s.contact
         /\ \A e \in d.effects : OutreachEffect(e, d.state) /\ e.kind # "sendAsUser"
<1> DEFINE failure == Again(s.failure, op, <<at, s.seq>>)
<1>1. failure.count \in Nat \ {0} /\ FailureState(failure)
  BY DEF Again, OutreachState, FailureState
<1> HIDE DEF failure
<1>2. Backoff(RetryBase, RetryMax, failure.count) \in Nat
  BY <1>1, RetryDelay, FeatureAssumption DEF FeatureAssumption
<1>3. OutreachRetry(s, op, at) = Waiting([s EXCEPT !.failure = failure], at + Backoff(RetryBase, RetryMax, failure.count),
          IF failure.count = NotifyAfter THEN {OwnerNotice(<<"followup-failure-notice", op, failure.at>>)} ELSE {})
  BY DEF OutreachRetry, failure
<1> QED BY <1>1, <1>2, <1>3 DEF Waiting, Decision, Refused, Decided, Statuses, OutreachState, OutreachEffect, OutreachId, OwnerNotice, Effect

LEMMA OutreachAsks ==
  ASSUME NEW s, OutreachState(s), s.phase \in Asking, NEW c \in Contacts, NEW event
  PROVE  OutreachTurn(s, event, AskApproval(s, c)) /\ AskApproval(s, c) # Refused /\ AskApproval(s, c).state.phase \in Asking
<1> DEFINE u == [s EXCEPT !.phase = "awaiting-approval", !.contact = c, !.candidates = {}]
<1>1. AskApproval(s, c) = Waiting(u, None, {Interaction(u)})
  BY DEF AskApproval
<1>2. OutreachState(u) /\ u.phase = "awaiting-approval" /\ u.seq = s.seq
  BY DEF OutreachState, Asking
<1> HIDE DEF u
<1> QED BY <1>1, <1>2 DEF OutreachState, OutreachTurn, Decided, Statuses, OutreachMoves,
         Asking, OutreachEffect, OutreachId, Interaction, Effect, Waiting, Decision, Refused

LEMMA OutreachJudged ==
  ASSUME NEW s, OutreachState(s), NEW event, IsVerdict(event), event.at \in Nat,
         IsFailureNotice(event) => event.effect.kind = "notifyOwner",
         Delivered(event, "resolveContact") => event.data \subseteq Contacts
  PROVE  OutreachTurn(s, event, Outreach(s, event)) /\ Outreach(s, event) # Refused
<1>1. Outreach(s, event) = OutreachVerdict(s, event)
  BY DEF Outreach, IsVerdict
<1>2. CASE event.type = "delivered"
  <2>1. CASE Delivered(event, "resolveContact") /\ s.phase = "resolving"
    <3>1. Outreach(s, event) = OutreachResolved(s, event.data)
      BY <1>1, <2>1 DEF OutreachVerdict, Delivered, Failed
    <3>2. CASE \E c \in event.data : event.data = {c}
      <4> DEFINE ok == [s EXCEPT !.failure = NoFailure]
      <4>1. PICK c \in Contacts : Outreach(s, event) = AskApproval(ok, c)
        BY <2>1, <3>1, <3>2 DEF OutreachResolved
      <4>2. OutreachState(ok) /\ ok.phase = s.phase /\ ok.seq = s.seq
        BY DEF OutreachState, FailureState, NoFailure
      <4> HIDE DEF ok
      <4>3. OutreachTurn(ok, event, AskApproval(ok, c)) /\ AskApproval(ok, c) # Refused /\ AskApproval(ok, c).state.phase \in Asking
        BY <2>1, <4>2, OutreachAsks DEF Asking
      <4> QED BY <2>1, <4>1, <4>2, <4>3 DEF OutreachTurn, OutreachMoves, Asking
    <3>3. CASE ~\E c \in event.data : event.data = {c}
      <4> DEFINE u == [[s EXCEPT !.failure = NoFailure] EXCEPT !.phase = "awaiting-contact", !.candidates = event.data]
      <4>1. Outreach(s, event) = Waiting(u, None, {Interaction(u)})
        BY <3>1, <3>3 DEF OutreachResolved
      <4>2. OutreachState(u) /\ u.phase = "awaiting-contact" /\ u.seq = s.seq
        BY <2>1 DEF OutreachState, FailureState, NoFailure, Asking, Committed
      <4> HIDE DEF u
      <4> QED BY <2>1, <4>1, <4>2 DEF OutreachState, OutreachTurn, Decided, Statuses, OutreachMoves,
               Asking, OutreachEffect, OutreachId, Interaction, Effect, Waiting, Decision, Refused
    <3> QED BY <3>2, <3>3
  <2>2. CASE ~(Delivered(event, "resolveContact") /\ s.phase = "resolving")
    BY <1>1, <1>2, <2>2 DEF OutreachVerdict, Delivered, Failed, OutreachState, FailureState, NoFailure, OutreachTurn, Decided, Statuses,
         OutreachMoves, Asking, Committed, OutreachEffect, OutreachId, ResultNotice, Effect, Waiting, Unchanged, Decision, Refused
  <2> QED BY <2>1, <2>2
<1>3. CASE event.type = "failed"
  <2>1. ASSUME NEW r, OutreachState(r), NEW op, Outreach(s, event) = OutreachRetry(r, op, event.at), r.seq = s.seq, r.contact = s.contact,
               r.phase = s.phase \/ (r.phase \in Asking /\ s.phase \in Asking)
        PROVE  OutreachTurn(s, event, Outreach(s, event)) /\ Outreach(s, event) # Refused
    BY <2>1, OutreachRetries, FeatureAssumption DEF OutreachTurn, OutreachMoves, OutreachState
  <2>2. \/ /\ s.phase = "resolving"
           /\ Outreach(s, event) = OutreachRetry([s EXCEPT !.phase = "ready"], "resolve-contact", event.at)
        \/ \E op : Outreach(s, event) = OutreachRetry(s, op, event.at)
        \/ Outreach(s, event) = Unchanged(s)
        \/ Outreach(s, event) = Decision(IF s.phase = "completed" THEN "completed" ELSE "waiting", s, Keep, {})
    BY <1>1, <1>3 DEF OutreachVerdict, Delivered, Failed
  <2>3. CASE /\ s.phase = "resolving"
             /\ Outreach(s, event) = OutreachRetry([s EXCEPT !.phase = "ready"], "resolve-contact", event.at)
    <3>1. OutreachState([s EXCEPT !.phase = "ready"])
      BY DEF OutreachState, Asking
    <3> QED BY <2>1, <2>3, <3>1 DEF OutreachState, Asking
  <2>4. CASE \E op : Outreach(s, event) = OutreachRetry(s, op, event.at)
    BY <2>1, <2>4
  <2>5. CASE \/ Outreach(s, event) = Unchanged(s)
             \/ Outreach(s, event) = Decision(IF s.phase = "completed" THEN "completed" ELSE "waiting", s, Keep, {})
    BY <2>5 DEF OutreachTurn, OutreachState, OutreachMoves, Decided, Statuses, Unchanged, Waiting, Decision, Refused
  <2> QED BY <2>2, <2>3, <2>4, <2>5
<1> QED BY <1>2, <1>3 DEF IsVerdict

\* Together: the phase says what the world has seen of the outreach
OutreachInv ==
  flow["outreach"].status # "absent" =>
    LET s == flow["outreach"].state
        did(kind) == Executed("outreach", kind) # {}
        answered(type, data) == <<"outreach", type, data>> \in heard
        begun == Marked("outreach", "sent")
    IN
    /\ OutreachState(s)
    /\ \A id \in RowsOf("outreach") :
         /\ OutreachEffect(outbox[id].effect, s)
         /\ outbox[id].effect.kind = "sendAsUser" => answered("approved", s.contact) /\ ~begun
         /\ outbox[id].effect.kind = "resolveContact" /\ outbox[id].status = "executed" => outbox[id].data \subseteq Contacts
    /\ s.phase = "sending" => answered("approved", s.contact)
    /\ begun => s.phase \in Committed \ {"sending"}
    /\ s.phase \in {"waiting-reply", "updating-task", "notifying"} => begun \/ did("sendAsUser")
    /\ s.phase \in {"updating-task", "notifying"} => answered("reply", None)
    /\ s.phase = "notifying" => did("recordFollowupReply")
    /\ s.phase = "completed" =>
         \/ begun \/ \E c \in Contacts : answered("declined", c)
         \/ did("sendAsUser") /\ answered("reply", None) /\ did("recordFollowupReply") /\ did("notifyOwner")

LEMMA OutreachTakesTurn ==
  ASSUME Tables, "outreach" \in Flows, OutreachInv, FeatureAssumption, NEW event, NEW touched, Turn("outreach", event, touched),
         event.type \in {"timer", "delivered", "failed"} \cup AnswerTypes
  PROVE  OutreachTurn(flow["outreach"].state, event, Outreach(flow["outreach"].state, event))
<1> DEFINE s == flow["outreach"].state
<1>1. flow["outreach"].status # "absent" /\ OutreachState(s) /\ event.at \in Nat
  BY DEF Turn, OutreachInv, Tables
<1>2. Outreach(s, event) # Refused
  BY DEF Turn, Decides, Reduce
<1>3. CASE event.type = "timer"
  BY <1>1, <1>3, OutreachTimed
<1>4. CASE event.type \in AnswerTypes
  BY <1>1, <1>2, <1>4, OutreachHears
<1>5. CASE IsVerdict(event)
  <2>1. PICK id \in RowsOf("outreach") : /\ event.effect = outbox[id].effect
                                         /\ event.type = "delivered" => outbox[id].status = "executed" /\ event.data = outbox[id].data
    BY <1>5 DEF Turn
  <2>2. IsFailureNotice(event) => event.effect.kind = "notifyOwner"
    BY <1>1, <2>1 DEF OutreachInv, OutreachEffect, IsFailureNotice
  <2>3. Delivered(event, "resolveContact") => event.data \subseteq Contacts
    BY <1>1, <2>1 DEF OutreachInv, Delivered
  <2> QED BY <1>1, <1>5, <2>2, <2>3, OutreachJudged
<1> QED BY <1>3, <1>4, <1>5 DEF IsVerdict

LEMMA OutreachStep ==
  ASSUME Tables, "outreach" \in Flows, FeatureAssumption, OutreachInv, Onward, FlowStep("outreach")
  PROVE  OutreachInv' /\ Lives("outreach")
<1> DEFINE f == "outreach"
           s == flow[f].state
<1>1. CASE Quiet(f)
  <2>1. /\ flow'[f] = flow[f] /\ RowsOf(f)' = RowsOf(f) /\ Lives(f) /\ \A kind : Executed(f, kind) \subseteq Executed(f, kind)'
        /\ \A id \in RowsOf(f) : SameEffect(id)
    BY <1>1, AfterQuiet
  <2>2. ASSUME NEW id \in RowsOf(f), outbox'[id].effect.kind = "resolveContact", outbox'[id].status = "executed", OutreachInv,
               flow[f].status # "absent"
        PROVE  outbox'[id].data \subseteq Contacts
    <3>1. outbox'[id].effect = outbox[id].effect
      BY <2>1 DEF SameEffect
    <3>2. CASE outbox'[id] = outbox[id]
      BY <2>2, <3>2 DEF OutreachInv
    <3>3. CASE \E r \in Results(outbox[id].effect) : outbox'[id].data = r.data
      BY <2>2, <3>1, <3>3 DEF Results
    <3> QED BY <1>1, <2>2, <3>2, <3>3, AfterQuiet
  <2> QED BY <2>1, <2>2 DEF OutreachInv, Onward, Marked, SameEffect
<1>2. ASSUME NEW event, NEW touched, Turn(f, event, touched), event.type \in {"timer", "delivered", "failed"} \cup AnswerTypes
      PROVE  OutreachInv' /\ Lives(f)
  <2> DEFINE d == Outreach(s, event)
  <2>1. OutreachTurn(s, event, d) /\ Reduce(f, s, event) = d /\ flow[f].status # "absent"
    BY <1>2, OutreachTakesTurn DEF Reduce, Turn
  <2>2. Decided(d) /\ OutreachState(d.state) /\ s.seq <= d.state.seq /\ OutreachMoves(s, event, d.state)
        /\ \A e \in d.effects : OutreachEffect(e, d.state) /\ (e.kind = "sendAsUser" => d.state.phase = "sending")
    BY <2>1 DEF OutreachTurn
  <2> HIDE DEF d
  <2>3. /\ Lives(f) /\ flow'[f].state = d.state
        /\ \A id \in RowsOf(f)' :
              \/ id \in RowsOf(f) /\ SameEffect(id) /\ (id \in touched => outbox'[id].status # "executed")
                   /\ (id \notin touched => outbox'[id] = outbox[id])
              \/ id \notin RowsOf(f) /\ outbox'[id].effect \in d.effects /\ outbox'[id].status = "pending" /\ ~outbox'[id].tried
        /\ \A kind : Executed(f, kind) \subseteq Executed(f, kind)'
    BY <1>2, <2>1, <2>2, AfterTurn
  <2>4. /\ event.type \in AnswerTypes => <<f, event.type, event.data>> \in heard'
        /\ event.type = "reply" => event.data = None
        /\ \A kind : Delivered(event, kind) => Executed(f, kind)' # {}
    BY <1>2 DEF Turn, Asked
  <2>5. heard \subseteq heard' /\ (Marked(f, "sent")' <=> Marked(f, "sent"))
    BY DEF Onward
  <2>7. d.state.phase = "sending" => <<f, "approved", d.state.contact>> \in heard' /\ ~Marked(f, "sent")'
    BY <2>1, <2>2, <2>4, <2>5 DEF OutreachInv, OutreachMoves, Asking, Committed, AnswerTypes
  <2>6. ASSUME NEW id \in RowsOf(f)'
        PROVE  /\ OutreachEffect(outbox'[id].effect, d.state)
               /\ outbox'[id].effect.kind = "sendAsUser" => <<f, "approved", d.state.contact>> \in heard' /\ ~Marked(f, "sent")'
               /\ outbox'[id].effect.kind = "resolveContact" /\ outbox'[id].status = "executed" => outbox'[id].data \subseteq Contacts
    <3>1. CASE id \in RowsOf(f)
      <4>1. outbox'[id].effect = outbox[id].effect /\ OutreachEffect(outbox[id].effect, s)
            /\ (outbox'[id].status = "executed" => outbox'[id] = outbox[id])
        BY <2>1, <2>3, <3>1 DEF SameEffect, OutreachInv
      <4>2. OutreachEffect(outbox[id].effect, d.state)
        BY <2>1, <2>2, <4>1 DEF OutreachEffect, OutreachId, OutreachMoves, Asking, Committed, OutreachInv, OutreachState
      <4>3. outbox[id].effect.kind = "sendAsUser" => d.state.contact = s.contact
        BY <2>2, <4>1 DEF OutreachEffect, OutreachMoves, Asking, Committed
      <4> QED BY <2>1, <2>5, <3>1, <4>1, <4>2, <4>3 DEF OutreachInv
    <3>2. CASE id \notin RowsOf(f)
      <4>1. OutreachEffect(outbox'[id].effect, d.state) /\ outbox'[id].status = "pending"
        BY <2>2, <2>3, <3>2
      <4>2. outbox'[id].effect.kind = "sendAsUser" => d.state.phase = "sending"
        BY <2>2, <2>3, <3>2
      <4> QED BY <2>7, <4>1, <4>2
    <3> QED BY <3>1, <3>2
  <2> DEFINE t == d.state
             did(kind) == Executed(f, kind)' # {}
             answered(type, data) == <<f, type, data>> \in heard'
             begun == Marked(f, "sent")'
  <2>8. begun => t.phase \in Committed \ {"sending"}
    BY <2>1, <2>2, <2>5 DEF OutreachInv, OutreachMoves, Asking, Committed
  <2>9. t.phase \in {"waiting-reply", "updating-task", "notifying"} => begun \/ did("sendAsUser")
    BY <2>1, <2>2, <2>3, <2>4, <2>5 DEF OutreachInv, OutreachMoves, Asking, Committed
  <2>10. t.phase \in {"updating-task", "notifying"} => answered("reply", None)
    BY <2>1, <2>2, <2>4, <2>5 DEF OutreachInv, OutreachMoves, Asking, Committed, AnswerTypes
  <2>11. t.phase = "notifying" => did("recordFollowupReply")
    BY <2>1, <2>2, <2>3, <2>4 DEF OutreachInv, OutreachMoves, Asking, Committed
  <2>12. t.phase = "completed" =>
           \/ begun \/ \E c \in Contacts : answered("declined", c)
           \/ did("sendAsUser") /\ answered("reply", None) /\ did("recordFollowupReply") /\ did("notifyOwner")
    <3>1. CASE s.phase = "completed" \/ s.phase \in Asking
      BY <2>1, <2>2, <2>3, <2>4, <2>5, <3>1 DEF OutreachInv, OutreachMoves, Asking, Committed, AnswerTypes, OutreachState
    <3>2. CASE s.phase = "notifying"
      BY <2>1, <2>2, <2>3, <2>4, <2>5, <3>2 DEF OutreachInv, OutreachMoves, Asking, Committed
    <3> QED BY <2>1, <2>2, <3>1, <3>2 DEF OutreachMoves, Asking, Committed
  <2>13. OutreachState(flow'[f].state) /\ flow'[f].state = t
    BY <2>2, <2>3
  <2> HIDE DEF t, did, answered, begun
  <2> QED BY <2>3, <2>6, <2>7, <2>8, <2>9, <2>10, <2>11, <2>12, <2>13 DEF OutreachInv, t, did, answered, begun
<1> QED BY <1>1, <1>2, TurnOrQuiet

-----------------------------------------------------------------------------
(* xiaowei.research *)

ResearchState(s) ==
  /\ DOMAIN s = {"phase", "seq", "told", "updated", "failure"}
  /\ s.phase \in {"ready", "sending", "waiting-reply", "syncing", "completed"} /\ s.seq \in Nat
  /\ s.told \in BOOLEAN /\ s.updated \in BOOLEAN /\ FailureState(s.failure)

ResearchId(id, seq) ==
  \A k : id \in {<<"xiaowei-send", k>>, <<"xiaowei-notify", k>>, <<"xiaowei-task-update", k>>} => k \in Nat /\ k <= seq

ResearchEffect(e, s) ==
  /\ e.kind \in {"sendAsUser", "notifyOwner", "recordResearchResult"}
  /\ e.kind = "sendAsUser" => e.key = <<"xiaowei-request">> /\ e.about = "agent"
  /\ e.id[1] = "xiaowei-failure-notify" => e.kind = "notifyOwner"
  /\ ResearchId(e.id, s.seq)

ResearchMoves(s, event, t) ==
  /\ \/ t.phase = s.phase
     \/ s.phase = "ready" /\ t.phase = "sending"
     \/ s.phase = "sending" /\ t.phase \in {"ready", "waiting-reply"}
     \/ s.phase = "waiting-reply" /\ event.type = "reply" /\ event.data # "progress" /\ t.phase = "syncing"
     \/ s.phase = "syncing" /\ t.phase = "completed" /\ t.told /\ t.updated
  /\ s.told => t.told
  /\ t.told => s.told \/ Delivered(event, "notifyOwner")
  /\ s.updated => t.updated
  /\ t.updated => s.updated \/ Delivered(event, "recordResearchResult")

ResearchTurn(s, event, d) ==
  /\ Decided(d) /\ ResearchState(d.state) /\ s.seq <= d.state.seq
  /\ ResearchMoves(s, event, d.state)
  /\ \A e \in d.effects : ResearchEffect(e, d.state) /\ (e.kind = "sendAsUser" => s.phase = "ready")

LEMMA ResearchTimed ==
  ASSUME NEW s, ResearchState(s), NEW event, event.type = "timer"
  PROVE  /\ ResearchFlow(s, event) # Refused
         /\ ResearchTurn(s, event, ResearchFlow(s, event))
         /\ \A e \in ResearchFlow(s, event).effects : ~ResearchId(e.id, s.seq)
<1>1. ResearchFlow(s, event) = ResearchTimer(s)
  BY DEF ResearchFlow, IsVerdict
<1>2. CASE s.phase = "ready"
  <2> DEFINE u == [[s EXCEPT !.seq = @ + 1] EXCEPT !.phase = "sending"]
  <2>1. ResearchFlow(s, event) = Waiting(u, None, {SendRequest([s EXCEPT !.seq = @ + 1])})
    BY <1>1, <1>2 DEF ResearchTimer
  <2>2. ResearchState(u) /\ u.phase = "sending" /\ u.seq = s.seq + 1 /\ u.told = s.told /\ u.updated = s.updated
        /\ SendRequest([s EXCEPT !.seq = @ + 1]) = Effect("sendAsUser", <<"xiaowei-send", u.seq>>, <<"xiaowei-request">>, "agent")
    BY DEF ResearchState, FailureState, SendRequest
  <2> HIDE DEF u
  <2> QED BY <1>2, <2>1, <2>2 DEF ResearchState, ResearchTurn, Decided, Statuses, ResearchMoves,
       ResearchEffect, ResearchId, Effect, Waiting, Decision, Refused
<1>3. CASE s.phase = "syncing"
  BY <1>1, <1>3 DEF ResearchTimer, ResearchState, FailureState, ResearchTurn, Decided, Statuses, ResearchMoves,
       ResearchEffect, ResearchId, SyncEffects, Effect, Waiting, Decision, Refused
<1>4. CASE s.phase \notin {"ready", "syncing"}
  BY <1>1, <1>4 DEF ResearchTimer, ResearchState, FailureState, ResearchTurn, Decided, Statuses, ResearchMoves, Decision, Refused
<1> QED BY <1>2, <1>3, <1>4

LEMMA ResearchHears ==
  ASSUME NEW s, ResearchState(s), NEW event, event.type \in AnswerTypes
  PROVE  ResearchTurn(s, event, ResearchFlow(s, event))
<1>1. CASE event.type = "reply" /\ s.phase = "waiting-reply"
  <2>1. ResearchFlow(s, event) = ResearchReply(s, event.data)
    BY <1>1 DEF ResearchFlow, IsVerdict
  <2> QED BY <1>1, <2>1 DEF ResearchReply, ResearchState, FailureState, NoFailure, ResearchTurn, Decided, Statuses, ResearchMoves,
       ResearchEffect, ResearchId, SyncEffects, Effect, Waiting, Decision, Refused
<1>2. CASE ~(event.type = "reply" /\ s.phase = "waiting-reply")
  <2>1. ResearchFlow(s, event) = Decision(IF s.phase = "completed" THEN "completed" ELSE "waiting", s, Keep, {})
    BY <1>2 DEF ResearchFlow, AnswerTypes, IsVerdict
  <2> QED BY <2>1 DEF ResearchState, ResearchTurn, Decided, Statuses, ResearchMoves, Decision, Refused
<1> QED BY <1>1, <1>2

LEMMA ResearchRetries ==
  ASSUME NEW s, ResearchState(s), NEW op, NEW at \in Nat, NEW event, FeatureAssumption,
         s.phase = IF op = "send" THEN "sending" ELSE "syncing"
  PROVE  ResearchTurn(s, event, ResearchRetry(s, op, at))
<1> DEFINE failure == Again(s.failure, op, at)
<1>1. failure.count \in Nat \ {0} /\ FailureState(failure)
  BY DEF Again, ResearchState, FailureState
<1> HIDE DEF failure
<1>2. Backoff(ResearchRetryBase, ResearchRetryMax, failure.count) \in Nat
  BY <1>1, RetryDelay, FeatureAssumption DEF FeatureAssumption
<1>3. ResearchRetry(s, op, at) =
        Waiting([s EXCEPT !.phase = IF op = "send" THEN "ready" ELSE "syncing", !.failure = failure],
                at + Backoff(ResearchRetryBase, ResearchRetryMax, failure.count),
                IF failure.count = ResearchNotifyAfter THEN {OwnerNotice(<<"xiaowei-failure-notify", op, failure.at>>)} ELSE {})
  BY DEF ResearchRetry, failure
<1> DEFINE u == [s EXCEPT !.phase = IF op = "send" THEN "ready" ELSE "syncing", !.failure = failure]
<1>4. /\ ResearchState(u) /\ u.seq = s.seq /\ u.told = s.told /\ u.updated = s.updated
      /\ u.phase = IF op = "send" THEN "ready" ELSE "syncing"
  BY <1>1 DEF ResearchState
<1>5. ResearchMoves(s, event, u)
  BY <1>4 DEF ResearchMoves
<1>6. ASSUME NEW e, e = OwnerNotice(<<"xiaowei-failure-notify", op, failure.at>>)
      PROVE  ResearchEffect(e, u) /\ e.kind # "sendAsUser"
  BY <1>4, <1>6 DEF ResearchEffect, ResearchId, OwnerNotice, Effect, ResearchState
<1>7. ResearchRetry(s, op, at) =
        Waiting(u, at + Backoff(ResearchRetryBase, ResearchRetryMax, failure.count),
                IF failure.count = ResearchNotifyAfter THEN {OwnerNotice(<<"xiaowei-failure-notify", op, failure.at>>)} ELSE {})
  BY <1>3
<1> HIDE DEF u
<1> QED BY <1>2, <1>4, <1>5, <1>6, <1>7 DEF Waiting, Decision, Decided, Statuses, ResearchTurn, ResearchState

LEMMA ResearchSyncs ==
  ASSUME NEW s, ResearchState(s), s.phase = "syncing", NEW event, event.type = "delivered", NEW kind, kind = event.effect.kind
  PROVE  ResearchTurn(s, event, ResearchSynced(s, kind))
<1> DEFINE next == [s EXCEPT !.failure = NoFailure, !.told = @ \/ kind = "notifyOwner",
                             !.updated = @ \/ kind = "recordResearchResult"]
<1>1. /\ ResearchState(next) /\ next.phase = "syncing" /\ next.seq = s.seq /\ (s.told => next.told) /\ (s.updated => next.updated)
      /\ next.told => s.told \/ Delivered(event, "notifyOwner")
      /\ next.updated => s.updated \/ Delivered(event, "recordResearchResult")
  BY DEF ResearchState, FailureState, NoFailure, Delivered
<1>2. ResearchSynced(s, kind) = IF next.told /\ next.updated THEN Decision("completed", [next EXCEPT !.phase = "completed"], Keep, {})
                                ELSE Waiting(next, None, SyncEffects(next))
  BY DEF ResearchSynced
<1> HIDE DEF next
<1> QED BY <1>1, <1>2 DEF ResearchState, FailureState, ResearchTurn, Decided, Statuses, ResearchMoves,
       ResearchEffect, ResearchId, SyncEffects, Effect, Waiting, Decision, Refused

LEMMA ResearchJudged ==
  ASSUME NEW s, ResearchState(s), NEW event, IsVerdict(event), event.at \in Nat, FeatureAssumption,
         IsResearchNotice(event) => event.effect.kind = "notifyOwner"
  PROVE  ResearchTurn(s, event, ResearchFlow(s, event))
<1> DEFINE d == ResearchFlow(s, event)
<1>1. d = ResearchVerdict(s, event)
  BY DEF ResearchFlow, IsVerdict
<1>2. CASE d = Unchanged(s) \/ d = Decision(IF s.phase = "completed" THEN "completed" ELSE "waiting", s, Keep, {})
  BY <1>2 DEF ResearchState, ResearchTurn, Decided, Statuses, ResearchMoves, Unchanged, Waiting, Decision, Refused
<1>3. CASE s.phase = "sending" /\ d = Waiting([s EXCEPT !.phase = "waiting-reply", !.failure = NoFailure], None, {})
  <2> DEFINE u == [s EXCEPT !.phase = "waiting-reply", !.failure = NoFailure]
  <2>1. ResearchState(u) /\ u.phase = "waiting-reply" /\ u.seq = s.seq /\ u.told = s.told /\ u.updated = s.updated
    BY DEF ResearchState, FailureState, NoFailure
  <2>2. d = Waiting(u, None, {}) /\ s.phase = "sending"
    BY <1>3
  <2> HIDE DEF u
  <2>3. ResearchMoves(s, event, u)
    BY <2>1, <2>2 DEF ResearchMoves
  <2> QED BY <2>1, <2>2, <2>3 DEF ResearchState, ResearchTurn, Decided, Statuses, Waiting, Decision
<1>4. CASE event.type = "delivered" /\ s.phase = "syncing" /\ d = ResearchSynced(s, event.effect.kind)
  BY <1>4, ResearchSyncs
<1>5. CASE \E op : d = ResearchRetry(s, op, event.at) /\ s.phase = IF op = "send" THEN "sending" ELSE "syncing"
  BY <1>5, ResearchRetries
<1>6. CASE event.type = "delivered"
  BY <1>1, <1>2, <1>3, <1>4, <1>6 DEF ResearchVerdict, Delivered, Failed
<1>7. CASE event.type = "failed"
  <2>1. CASE s.phase = "sending" /\ event.effect.kind = "sendAsUser"
    <3>1. d = ResearchRetry(s, "send", event.at)
      BY <1>1, <1>7, <2>1 DEF ResearchVerdict, Delivered, Failed
    <3> QED BY <1>5, <2>1, <3>1
  <2>2. CASE s.phase = "syncing"
    <3>1. \/ d = ResearchRetry(s, "notify", event.at) \/ d = ResearchRetry(s, "task-update", event.at)
          \/ d = Unchanged(s) \/ d = Decision(IF s.phase = "completed" THEN "completed" ELSE "waiting", s, Keep, {})
      BY <1>1, <1>7, <2>2 DEF ResearchVerdict, Delivered, Failed
    <3> QED BY <1>2, <1>5, <2>2, <3>1
  <2>3. CASE s.phase # "syncing" /\ ~(s.phase = "sending" /\ event.effect.kind = "sendAsUser")
    <3>1. d = Unchanged(s) \/ d = Decision(IF s.phase = "completed" THEN "completed" ELSE "waiting", s, Keep, {})
      BY <1>1, <1>7, <2>3 DEF ResearchVerdict, Delivered, Failed
    <3> QED BY <1>2, <3>1
  <2> QED BY <2>1, <2>2, <2>3
<1> QED BY <1>6, <1>7 DEF IsVerdict

ResearchInv(f) ==
  flow[f].status # "absent" =>
    LET s == flow[f].state
        did(kind) == Executed(f, kind) # {}
        begun == Marked(f, "sent")
    IN
    /\ ResearchState(s)
    /\ \A id \in RowsOf(f) : ResearchEffect(outbox[id].effect, s) /\ (outbox[id].effect.kind = "sendAsUser" => ~begun)
    /\ begun => s.phase \notin {"ready", "sending"}
    /\ s.phase \in {"syncing", "completed"} => begun \/ <<f, "reply", "final">> \in heard
    /\ s.told => begun \/ did("notifyOwner")
    /\ s.updated /\ f = "research" => begun \/ did("recordResearchResult")
    /\ s.phase = "completed" => s.told /\ s.updated

LEMMA ResearchTakesTurn ==
  ASSUME Tables, NEW f \in Flows, f \in {"research", "research-untracked"}, ResearchInv(f), FeatureAssumption,
         NEW event, NEW touched, Turn(f, event, touched),
         event.type \in {"timer", "delivered", "failed"} \cup AnswerTypes
  PROVE  ResearchTurn(flow[f].state, event, ResearchFlow(flow[f].state, event))
<1> DEFINE s == flow[f].state
<1>1. flow[f].status # "absent" /\ ResearchState(s) /\ event.at \in Nat
  BY DEF Turn, ResearchInv, Tables
<1>3. CASE event.type = "timer"
  BY <1>1, <1>3, ResearchTimed
<1>4. CASE event.type \in AnswerTypes
  BY <1>1, <1>4, ResearchHears
<1>5. CASE IsVerdict(event)
  <2>1. PICK id \in RowsOf(f) : event.effect = outbox[id].effect
    BY <1>5 DEF Turn
  <2>2. IsResearchNotice(event) => event.effect.kind = "notifyOwner"
    BY <1>1, <2>1 DEF ResearchInv, ResearchEffect, IsResearchNotice
  <2> QED BY <1>1, <1>5, <2>2, ResearchJudged
<1> QED BY <1>3, <1>4, <1>5 DEF IsVerdict

LEMMA ResearchStep ==
  ASSUME Tables, NEW f \in Flows, f \in {"research", "research-untracked"}, FeatureAssumption, ResearchInv(f), Onward, FlowStep(f)
  PROVE  ResearchInv(f)' /\ Lives(f)
<1> DEFINE s == flow[f].state
<1>1. CASE Quiet(f)
  <2>1. /\ flow'[f] = flow[f] /\ RowsOf(f)' = RowsOf(f) /\ Lives(f) /\ \A kind : Executed(f, kind) \subseteq Executed(f, kind)'
        /\ \A id \in RowsOf(f) : SameEffect(id)
    BY <1>1, AfterQuiet
  <2> QED BY <2>1 DEF ResearchInv, Onward, Marked, SameEffect
<1>2. ASSUME NEW event, NEW touched, Turn(f, event, touched), event.type \in {"timer", "delivered", "failed"} \cup AnswerTypes
      PROVE  ResearchInv(f)' /\ Lives(f)
  <2> DEFINE d == ResearchFlow(s, event)
  <2>1. ResearchTurn(s, event, d) /\ Reduce(f, s, event) = d /\ flow[f].status # "absent"
    BY <1>2, ResearchTakesTurn DEF Reduce, Turn
  <2>2. /\ Decided(d) /\ ResearchState(d.state) /\ s.seq <= d.state.seq /\ ResearchMoves(s, event, d.state)
        /\ \A e \in d.effects : ResearchEffect(e, d.state) /\ (e.kind = "sendAsUser" => s.phase = "ready")
    BY <2>1 DEF ResearchTurn
  <2> HIDE DEF d
  <2>3. /\ Lives(f) /\ flow'[f].state = d.state
        /\ \A id \in RowsOf(f)' : (id \in RowsOf(f) /\ SameEffect(id)) \/ outbox'[id].effect \in d.effects
        /\ \A kind : Executed(f, kind) \subseteq Executed(f, kind)'
    BY <1>2, <2>1, <2>2, AfterTurn
  <2>4. /\ event.type \in AnswerTypes => <<f, event.type, event.data>> \in heard'
        /\ event.type = "reply" => event.data \in {"progress", "final"}
        /\ \A kind : Delivered(event, kind) => Executed(f, kind)' # {}
    BY <1>2 DEF Turn, Asked
  <2>5. heard \subseteq heard' /\ (Marked(f, "sent")' <=> Marked(f, "sent"))
    BY DEF Onward
  <2>6. ASSUME NEW id \in RowsOf(f)'
        PROVE  ResearchEffect(outbox'[id].effect, d.state) /\ (outbox'[id].effect.kind = "sendAsUser" => ~Marked(f, "sent")')
    <3>1. CASE id \in RowsOf(f) /\ SameEffect(id)
      BY <2>1, <2>2, <2>5, <3>1 DEF SameEffect, ResearchInv, ResearchEffect, ResearchId, ResearchState
    <3>2. CASE outbox'[id].effect \in d.effects
      BY <2>1, <2>2, <2>5, <3>2 DEF ResearchInv
    <3> QED BY <2>3, <3>1, <3>2
  <2>7. Marked(f, "sent")' => d.state.phase \notin {"ready", "sending"}
    BY <2>1, <2>2, <2>5 DEF ResearchInv, ResearchMoves
  <2>8. d.state.phase \in {"syncing", "completed"} => Marked(f, "sent")' \/ <<f, "reply", "final">> \in heard'
    BY <2>1, <2>2, <2>4, <2>5 DEF ResearchInv, ResearchMoves, AnswerTypes
  <2>9. /\ d.state.told => Marked(f, "sent")' \/ Executed(f, "notifyOwner")' # {}
        /\ d.state.updated /\ f = "research" => Marked(f, "sent")' \/ Executed(f, "recordResearchResult")' # {}
    BY <2>1, <2>2, <2>3, <2>4, <2>5 DEF ResearchInv, ResearchMoves
  <2>10. d.state.phase = "completed" => d.state.told /\ d.state.updated
    BY <2>1, <2>2 DEF ResearchInv, ResearchMoves
  <2> QED BY <2>2, <2>3, <2>6, <2>7, <2>8, <2>9, <2>10 DEF ResearchInv
<1> QED BY <1>1, <1>2, TurnOrQuiet

-----------------------------------------------------------------------------
(* codex.session-lifecycle *)

\* What a step may do to the session itself
SessionTable(x, instant) ==
  /\ DOMAIN x = {"exists", "archivedAt"} /\ x.exists \in BOOLEAN
  /\ x.archivedAt = None \/ x.archivedAt \in 0 .. instant
SessionChange ==
  /\ SessionTable(session', now')
  /\ session'.exists => session.exists
  /\ session.archivedAt # None /\ spent'.touches = 0 => session'.archivedAt = session.archivedAt
  /\ session.exists /\ ~session'.exists =>
       \E id \in DOMAIN outbox :
         /\ outbox[id].status = "pending" /\ outbox[id].effect.kind = "deleteSession" /\ MayDelete(outbox[id].effect)
         /\ session.archivedAt # None

\* What the effects on the session return
LEMMA SessionResults ==
  ASSUME Tables, NEW e, NEW r \in Results(e)
  PROVE  /\ SessionTable(r.session, now) /\ (r.session.exists => session.exists)
         /\ session.archivedAt # None => r.session.archivedAt = session.archivedAt
         /\ session.exists /\ ~r.session.exists => e.kind = "deleteSession" /\ MayDelete(e) /\ session.archivedAt # None
         /\ e.kind = "inspectSession" =>
              /\ r.session = session /\ r.data.exists = session.exists
              /\ r.data.archived = (session.archivedAt # None)
         /\ e.kind = "archiveSession" => r.data.archivedAt \in 0 .. now /\ r.session.archivedAt = r.data.archivedAt
         /\ e.kind = "deleteSession" => (r.data \in {"deleted", "missing"} => ~r.session.exists)
<1>1. CASE e.kind = "inspectSession"
  BY <1>1 DEF Results, Tables, SessionTable
<1>2. CASE e.kind = "archiveSession"
  <2>1. r = SessionArchiveResult(session, now)
    BY <1>2 DEF Results
  <2> QED BY <1>2, <2>1, FeatureAssumption DEF FeatureAssumption, SessionArchiveResult, Tables, SessionTable
<1>3. CASE e.kind = "deleteSession"
  <2>1. r = SessionDeleteResult(session) /\ MayDelete(e)
    BY <1>3 DEF Results
  <2> QED BY <1>3, <2>1 DEF SessionDeleteResult, Tables, SessionTable
<1>4. CASE e.kind \notin {"inspectSession", "archiveSession", "deleteSession"}
  <2>1. r.session = session
    BY <1>4 DEF Results
  <2> QED BY <1>4, <2>1 DEF Tables, SessionTable
<1> QED BY <1>1, <1>2, <1>3, <1>4

LEMMA StepOfTheSession ==
  ASSUME Tables, [Next]_vars
  PROVE  SessionChange
<1>1. CASE session' = session /\ now' \in Nat /\ now <= now'
  BY <1>1 DEF SessionChange, SessionTable, Tables
<1>2. CASE TouchSession
  <2>1. session' = [session EXCEPT !.archivedAt = IF session.archivedAt = None THEN now ELSE None] /\ now' = now
        /\ spent'.touches = spent.touches + 1
    BY <1>2 DEF TouchSession, Tables
  <2> QED BY <2>1 DEF SessionChange, SessionTable, Tables
<1>3. ASSUME NEW id \in DOMAIN outbox, Execute(id) PROVE SessionChange
  <2>1. PICK r \in Results(outbox[id].effect) : session' = r.session
    BY <1>3 DEF Execute
  <2>2. now' = now /\ outbox[id].status = "pending"
    BY <1>3 DEF Execute
  <2>3. /\ SessionTable(r.session, now) /\ (r.session.exists => session.exists)
        /\ session.archivedAt # None => r.session.archivedAt = session.archivedAt
        /\ session.exists /\ ~r.session.exists =>
             outbox[id].effect.kind = "deleteSession" /\ MayDelete(outbox[id].effect) /\ session.archivedAt # None
    BY SessionResults
  <2> QED BY <2>1, <2>2, <2>3 DEF SessionChange
<1>4. TouchSession \/ (\E id \in DOMAIN outbox : Execute(id)) \/ (session' = session /\ now' \in Nat /\ now <= now')
  <2>1. ASSUME NEW id \in DOMAIN outbox, EffectStep(id)
        PROVE  Execute(id) \/ (session' = session /\ now' = now)
    BY <2>1, Zenon DEF EffectStep, Deliver, DeliverUnsettled, SettleTold, TryAgain, FailFinally
  <2>2. now \in Nat
    BY DEF Tables
  <2> QED BY <2>1, <2>2 DEF Next, vars, FireTimer, Hear, Tick
<1> QED BY <1>1, <1>2, <1>3, <1>4

\* The effect a phase waits for
SessionWork == {<<"inspecting", "inspectSession">>, <<"checking-task", "isTaskCompleted">>,
                <<"archiving", "archiveSession">>, <<"deleting", "deleteSession">>}

SessionState(s) ==
  /\ DOMAIN s = {"phase", "seq", "eligible", "archivedAt", "failure", "noticeAt"}
  /\ s.phase \in {"waiting", "inspecting", "checking-task", "archiving", "archived", "deleting", "completed"}
  /\ s.seq \in Nat /\ s.eligible \in BOOLEAN /\ FailureState(s.failure)
  /\ s.phase \in {"archived", "deleting"} => s.archivedAt \in Nat

SessionId(id, seq) ==
  \A k : id \in {<<"inspectSession", k>>, <<"isTaskCompleted", k>>, <<"archiveSession", k>>, <<"deleteSession", k>>} =>
           k \in Nat /\ k <= seq

SessionKind(e, s) ==
  /\ e.kind \in {"inspectSession", "isTaskCompleted", "archiveSession", "deleteSession", "notifyOwner"}
  /\ e.kind = "deleteSession" => e.about.archivedAt \in Nat /\ e.about.at \in Nat
  /\ SessionId(e.id, s.seq)

\* The moves of a session, with the wake-up they set
SessionMoves(s, event, d) ==
  LET t == d.state
      done(kind) == Delivered(event, kind) /\ <<s.phase, kind>> \in SessionWork
  IN
  \/ /\ t.phase = s.phase /\ t.archivedAt = s.archivedAt /\ \A e \in d.effects : e.kind = "notifyOwner"
     /\ s.phase = "archived" /\ d.wake # Keep =>
          (IsVerdict(event) /\ event.effect.kind # "notifyOwner") \/ event.type \in AnswerTypes \ {"eligible"}
     /\ IsVerdict(event) /\ <<s.phase, event.effect.kind>> \in SessionWork => FALSE
  \/ s.phase = "waiting" /\ event.type = "timer" /\ t.phase = "inspecting"
  \/ /\ s.phase = "archived" /\ event.type = "timer" /\ t.phase = "deleting" /\ t.archivedAt = s.archivedAt
     /\ \A e \in d.effects : e.kind = "deleteSession" => e.about = [archivedAt |-> s.archivedAt, at |-> event.at]
  \/ /\ IsVerdict(event) /\ <<s.phase, event.effect.kind>> \in SessionWork /\ s.phase # "deleting"
     /\ t.phase \in {"waiting", "checking-task", "archiving"}
  \/ /\ t.phase = "completed" /\ d.effects = {}
     /\ (done("inspectSession") /\ ~event.data.exists) \/ (done("deleteSession") /\ event.data \in {"deleted", "missing"})
  \/ /\ t.phase = "archived" /\ d.wake = t.archivedAt + DeleteAfter /\ \A e \in d.effects : e.kind = "notifyOwner"
     /\ \/ done("inspectSession") /\ event.data.archived /\ t.archivedAt = event.at
        \/ done("archiveSession") /\ t.archivedAt = event.data.archivedAt
  \/ /\ t.phase = "archived" /\ t.archivedAt = s.archivedAt /\ d.wake \in Int /\ d.wake >= event.at
     /\ s.phase = "deleting" /\ IsVerdict(event) /\ event.effect.kind = "deleteSession"
     /\ \A e \in d.effects : e.kind = "notifyOwner"

SessionTurn(s, event, d) ==
  /\ Decided(d) /\ SessionState(d.state) /\ s.seq <= d.state.seq
  /\ SessionMoves(s, event, d)
  /\ \A e \in d.effects : SessionKind(e, d.state) /\ (e.kind # "notifyOwner" => <<d.state.phase, e.kind>> \in SessionWork)
  /\ \A e1, e2 \in d.effects : e1.kind # "notifyOwner" /\ e2.kind # "notifyOwner" => e1 = e2

LEMMA SessionTimed ==
  ASSUME NEW s, SessionState(s), NEW event, event.type = "timer", event.at \in Nat, FeatureAssumption,
         s.phase \in {"waiting", "archived"}
  PROVE  /\ Session(s, event) # Refused
         /\ SessionTurn(s, event, Session(s, event))
         /\ \A e \in Session(s, event).effects : ~SessionId(e.id, s.seq)
<1> DEFINE d == Session(s, event)
<1>1. d = SessionTimer(s, event.at)
  BY DEF Session, IsVerdict
<1>2. CASE s.phase = "waiting" /\ ~s.eligible
  BY <1>1, <1>2, FeatureAssumption DEF FeatureAssumption, SessionTimer, SessionState, SessionTurn, SessionMoves, Decided, Statuses,
       Waiting, Decision, Refused, SessionWork, IsVerdict
<1>3. CASE s.phase = "waiting" /\ s.eligible
  <2> DEFINE u == [[s EXCEPT !.seq = @ + 1] EXCEPT !.phase = "inspecting"]
             e == SessionEffect("inspectSession", [s EXCEPT !.seq = @ + 1], None)
  <2>1. d = Waiting(u, None, {e})
    BY <1>1, <1>3 DEF SessionTimer
  <2>2. SessionState(u) /\ u.phase = "inspecting" /\ u.seq = s.seq + 1
    BY DEF SessionState, FailureState
  <2>3. e = Effect("inspectSession", <<"inspectSession", u.seq>>, <<"inspectSession", u.seq>>, None)
    BY <2>2 DEF SessionEffect, SessionState
  <2> HIDE DEF u, e
  <2>4. SessionKind(e, u) /\ <<u.phase, e.kind>> \in SessionWork /\ ~SessionId(e.id, s.seq)
    BY <2>2, <2>3 DEF SessionKind, SessionId, SessionWork, Effect, SessionState
  <2>5. SessionMoves(s, event, d) /\ d.state = u /\ d.effects = {e} /\ Decided(d) /\ d # Refused
    BY <1>3, <2>1, <2>2 DEF SessionMoves, Waiting, Decision, Decided, Statuses, Refused
  <2> QED BY <2>2, <2>4, <2>5 DEF SessionTurn, SessionState
<1>4. CASE s.phase = "archived"
  <2> DEFINE u == [[s EXCEPT !.seq = @ + 1] EXCEPT !.phase = "deleting"]
             e == SessionEffect("deleteSession", [s EXCEPT !.seq = @ + 1], [archivedAt |-> s.archivedAt, at |-> event.at])
  <2>1. d = Waiting(u, None, {e})
    BY <1>1, <1>4 DEF SessionTimer
  <2>2. SessionState(u) /\ u.phase = "deleting" /\ u.seq = s.seq + 1 /\ u.archivedAt = s.archivedAt
    BY <1>4 DEF SessionState, FailureState
  <2>3. e = Effect("deleteSession", <<"deleteSession", u.seq>>, <<"deleteSession", u.seq>>, [archivedAt |-> s.archivedAt, at |-> event.at])
    BY <2>2 DEF SessionEffect, SessionState
  <2> HIDE DEF u, e
  <2>4. SessionKind(e, u) /\ <<u.phase, e.kind>> \in SessionWork /\ ~SessionId(e.id, s.seq)
        /\ e.about = [archivedAt |-> s.archivedAt, at |-> event.at]
    BY <1>4, <2>2, <2>3 DEF SessionKind, SessionId, SessionWork, Effect, SessionState
  <2>5. SessionMoves(s, event, d) /\ d.state = u /\ d.effects = {e} /\ Decided(d) /\ d # Refused
    BY <1>4, <2>1, <2>2, <2>4 DEF SessionMoves, Waiting, Decision, Decided, Statuses, Refused
  <2> QED BY <2>2, <2>4, <2>5 DEF SessionTurn, SessionState
<1> QED BY <1>2, <1>3, <1>4

\* What is heard without a phase waiting for it
LEMMA SessionStays ==
  ASSUME NEW s, SessionState(s), NEW event, NEW d, d = SessionOther(s, event.at) \/ d = Unchanged(s), event.at \in Nat, FeatureAssumption,
         IsVerdict(event) => <<s.phase, event.effect.kind>> \notin SessionWork,
         s.phase = "archived" /\ d.wake # Keep =>
           (IsVerdict(event) /\ event.effect.kind # "notifyOwner") \/ event.type \in AnswerTypes \ {"eligible"}
  PROVE  SessionTurn(s, event, d)
<1>1. d.state = s /\ d.effects = {} /\ Decided(d)
  BY FeatureAssumption DEF FeatureAssumption, SessionOther, Unchanged, Waiting, Decision, Decided, Statuses
<1>2. SessionMoves(s, event, d)
  BY <1>1 DEF SessionMoves
<1> QED BY <1>1, <1>2 DEF SessionTurn, SessionState

LEMMA SessionHears ==
  ASSUME NEW s, SessionState(s), NEW event, event.type \in AnswerTypes \cup {"timer"}, event.at \in Nat, FeatureAssumption,
         event.type = "timer" => s.phase \notin {"waiting", "archived"}, Session(s, event) # Refused
  PROVE  SessionTurn(s, event, Session(s, event))
<1>1. CASE event.type = "eligible"
  <2> DEFINE u == [s EXCEPT !.eligible = TRUE]
  <2>1. s.phase = "waiting" /\ Session(s, event) = Waiting(u, event.at, {})
    BY <1>1 DEF Session, IsVerdict
  <2>2. SessionState(u) /\ u.phase = s.phase /\ u.seq = s.seq /\ u.archivedAt = s.archivedAt
    BY DEF SessionState, FailureState
  <2> HIDE DEF u
  <2> QED BY <1>1, <2>1, <2>2 DEF SessionTurn, SessionMoves, SessionState, Waiting, Decision, Decided, Statuses, IsVerdict
<1>2. CASE event.type # "eligible"
  <2>1. Session(s, event) = SessionOther(s, event.at) /\ ~IsVerdict(event)
    BY <1>2 DEF Session, AnswerTypes, IsVerdict
  <2> QED BY <1>2, <2>1, SessionStays
<1> QED BY <1>1, <1>2

LEMMA SessionRetries ==
  ASSUME NEW s, SessionState(s), NEW event, IsVerdict(event), event.at \in Nat, FeatureAssumption,
         <<s.phase, event.effect.kind>> \in SessionWork
  PROVE  SessionTurn(s, event, SessionRetry(s, event.effect.kind, event.at))
<1> DEFINE op == event.effect.kind
           failure == Again(s.failure, op, event.at)
           notice == IF s.failure.op = op THEN s.noticeAt ELSE None
           tell == failure.count >= SessionNotifyAfter /\ (notice = None \/ event.at - notice >= SessionCooldown)
           u == [s EXCEPT !.phase = IF op = "deleteSession" THEN "archived" ELSE "waiting",
                          !.failure = failure, !.noticeAt = IF tell THEN event.at ELSE notice]
           wake == event.at + Backoff(SessionRetryBase, SessionRetryMax, failure.count)
           d == SessionRetry(s, op, event.at)
<1>1. failure.count \in Nat \ {0} /\ FailureState(failure)
  BY DEF Again, SessionState, FailureState
<1>2. Backoff(SessionRetryBase, SessionRetryMax, failure.count) \in Nat
  <2> HIDE DEF failure
  <2> QED BY <1>1, RetryDelay, FeatureAssumption DEF FeatureAssumption
<1>3. d = Waiting(u, wake, IF tell THEN {SessionNotice(s, op)} ELSE {})
  BY DEF SessionRetry
<1>4. s.phase \in {"inspecting", "checking-task", "archiving", "deleting"} /\ (op = "deleteSession" <=> s.phase = "deleting")
  BY DEF SessionWork
<1>5. /\ SessionState(u) /\ u.seq = s.seq /\ u.archivedAt = s.archivedAt
      /\ u.phase = IF op = "deleteSession" THEN "archived" ELSE "waiting"
  <2> HIDE DEF failure, tell, notice
  <2> QED BY <1>1, <1>4 DEF SessionState
<1>6. wake \in Int /\ wake >= event.at
  BY <1>2
<1>7. SessionKind(SessionNotice(s, op), u) /\ SessionNotice(s, op).kind = "notifyOwner"
  BY DEF SessionKind, SessionNotice, OwnerNotice, Effect, SessionId
<1> HIDE DEF u, wake, tell, d
<1>8. /\ d.state = u /\ d.wake = wake /\ Decided(d) /\ d.effects \subseteq {SessionNotice(s, op)}
  BY <1>3, <1>6 DEF Waiting, Decision, Decided, Statuses
<1>9. SessionMoves(s, event, d)
  BY <1>4, <1>5, <1>6, <1>7, <1>8 DEF SessionMoves
<1>10. SessionTurn(s, event, d)
  BY <1>5, <1>7, <1>8, <1>9 DEF SessionTurn, SessionState
<1> QED BY <1>10 DEF d

LEMMA SessionJudged ==
  ASSUME NEW s, SessionState(s), NEW event, IsVerdict(event), event.at \in Nat, FeatureAssumption,
         Delivered(event, "archiveSession") => event.data.archivedAt \in Nat
  PROVE  SessionTurn(s, event, Session(s, event))
<1> DEFINE d == Session(s, event)
<1>1. d = SessionVerdict(s, event)
  BY DEF Session, IsVerdict
<1>2. CASE <<s.phase, event.effect.kind>> \notin SessionWork
  <2>1. d = Unchanged(s) \/ d = SessionOther(s, event.at)
    BY <1>1, <1>2 DEF SessionVerdict, Delivered, SessionFails, OperationOf, SessionWork
  <2>2. event.effect.kind = "notifyOwner" => d = Unchanged(s)
    BY <1>1, <1>2 DEF SessionVerdict, Delivered, SessionFails, OperationOf, SessionWork
  <2>3. d.wake # Keep => event.effect.kind # "notifyOwner"
    BY <2>2 DEF Unchanged, Waiting, Decision
  <2> QED BY <1>2, <2>1, <2>3, SessionStays
<1>3. CASE <<s.phase, event.effect.kind>> \in SessionWork /\ event.type = "failed"
  <2>1. d = SessionRetry(s, event.effect.kind, event.at)
    BY <1>1, <1>3 DEF SessionVerdict, Delivered, SessionFails, OperationOf, SessionWork
  <2> QED BY <1>3, <2>1, SessionRetries
<1>4. CASE <<s.phase, event.effect.kind>> \in SessionWork /\ event.type = "delivered"
  <2> DEFINE u(phase) == [Recovered(s) EXCEPT !.phase = phase]
             v(at) == [Recovered(s) EXCEPT !.phase = "archived", !.archivedAt = at]
  <2>1. \A phase \in {"waiting", "checking-task", "archiving", "completed"} :
          SessionState(u(phase)) /\ u(phase).phase = phase /\ u(phase).seq = s.seq
    BY DEF Recovered, SessionState, FailureState, NoFailure
  <2>2. \A at \in Nat : SessionState(v(at)) /\ v(at).phase = "archived" /\ v(at).seq = s.seq /\ v(at).archivedAt = at
    BY DEF Recovered, SessionState, FailureState, NoFailure
  <2>3. s.archivedAt \in Nat => /\ SessionState(u("archived")) /\ u("archived").phase = "archived" /\ u("archived").seq = s.seq
                                /\ u("archived").archivedAt = s.archivedAt
    BY DEF Recovered, SessionState, FailureState, NoFailure
  <2>4. ASSUME NEW e, e = SessionEffect("isTaskCompleted", s, None) \/ e = SessionEffect("archiveSession", s, None),
               NEW t, SessionState(t), t.seq = s.seq
        PROVE  SessionKind(e, t) /\ e.kind \in {"isTaskCompleted", "archiveSession"}
    BY <2>4 DEF SessionKind, SessionEffect, Effect, SessionId, SessionState
  <2>5. ASSUME NEW t, SessionState(t)
        PROVE  LET e == OwnerNotice(<<"session-notification", "archived">>) IN SessionKind(e, t) /\ e.kind = "notifyOwner"
    BY DEF SessionKind, OwnerNotice, Effect, SessionId
  <2> HIDE DEF u, v
  <2>6. CASE s.phase = "inspecting"
    <3>0. event.effect.kind = "inspectSession" /\ d = SessionInspected(s, event.data, event.at)
      BY <1>1, <1>4, <2>6 DEF SessionVerdict, Delivered, SessionWork, SessionFails
    <3>1. CASE ~event.data.exists
      <4>1. d = Decision("completed", u("completed"), None, {})
        BY <3>0, <3>1 DEF SessionInspected, u
      <4> QED BY <1>4, <2>1, <2>6, <3>0, <3>1, <4>1 DEF SessionTurn, SessionMoves, Delivered, SessionWork, Decision, Decided, Statuses, SessionState
    <3>2. CASE event.data.exists /\ event.data.running
      <4>1. d = Waiting(u("waiting"), event.at + SessionPoll, {})
        BY <3>0, <3>2 DEF SessionInspected, u
      <4> QED BY <1>4, <2>1, <2>6, <3>0, <4>1, FeatureAssumption DEF FeatureAssumption, SessionTurn, SessionMoves, Waiting, Decision, Decided, Statuses, SessionState
    <3>3. CASE event.data.exists /\ ~event.data.running /\ event.data.archived
      <4>1. d = Waiting(v(event.at), event.at + DeleteAfter, {})
        BY <3>0, <3>3 DEF SessionInspected, Archived, v
      <4> QED BY <1>4, <2>2, <2>6, <3>0, <3>3, <4>1, FeatureAssumption
              DEF FeatureAssumption, SessionTurn, SessionMoves, Delivered, SessionWork, Waiting, Decision, Decided, Statuses, SessionState
    <3>4. CASE event.data.exists /\ ~event.data.running /\ ~event.data.archived
      <4>1. d = Waiting(u("checking-task"), None, {SessionEffect("isTaskCompleted", s, None)})
        BY <3>0, <3>4 DEF SessionInspected, u
      <4>2. LET e == SessionEffect("isTaskCompleted", s, None) IN SessionKind(e, u("checking-task")) /\ e.kind = "isTaskCompleted"
        BY <2>1, <2>4 DEF SessionEffect, Effect
      <4> QED BY <1>4, <2>1, <2>6, <3>0, <4>1, <4>2 DEF SessionTurn, SessionMoves, SessionWork, Waiting, Decision, Decided, Statuses, SessionState
    <3> QED BY <3>1, <3>2, <3>3, <3>4
  <2>7. CASE s.phase = "checking-task"
    <3>0. event.effect.kind = "isTaskCompleted" /\ d = SessionTaskChecked(s, event.data, event.at)
      BY <1>1, <1>4, <2>7 DEF SessionVerdict, Delivered, SessionWork, SessionFails
    <3>1. CASE event.data
      <4>1. d = Waiting(u("archiving"), None, {SessionEffect("archiveSession", s, None)})
        BY <3>0, <3>1 DEF SessionTaskChecked, u
      <4>2. LET e == SessionEffect("archiveSession", s, None) IN SessionKind(e, u("archiving")) /\ e.kind = "archiveSession"
        BY <2>1, <2>4 DEF SessionEffect, Effect
      <4> QED BY <1>4, <2>1, <2>7, <3>0, <4>1, <4>2 DEF SessionTurn, SessionMoves, SessionWork, Waiting, Decision, Decided, Statuses, SessionState
    <3>2. CASE ~event.data
      <4>1. d = Waiting(u("waiting"), event.at + SessionPoll, {})
        BY <3>0, <3>2 DEF SessionTaskChecked, u
      <4> QED BY <1>4, <2>1, <2>7, <3>0, <4>1, FeatureAssumption DEF FeatureAssumption, SessionTurn, SessionMoves, Waiting, Decision, Decided, Statuses, SessionState
    <3> QED BY <3>1, <3>2
  <2>8. CASE s.phase = "archiving"
    <3>0. event.effect.kind = "archiveSession" /\ event.data.archivedAt \in Nat
          /\ d = Archived(s, event.data.archivedAt, event.at,
                          IF event.data.already THEN {} ELSE {OwnerNotice(<<"session-notification", "archived">>)})
      BY <1>1, <1>4, <2>8 DEF SessionVerdict, Delivered, SessionWork, SessionFails
    <3>1. d = Waiting(v(event.data.archivedAt), event.data.archivedAt + DeleteAfter,
                      IF event.data.already THEN {} ELSE {OwnerNotice(<<"session-notification", "archived">>)})
      BY <3>0 DEF Archived, v
    <3>5. event.data.archivedAt + DeleteAfter \in Int
      BY <3>0, FeatureAssumption DEF FeatureAssumption
    <3>2. /\ d.state = v(event.data.archivedAt) /\ d.wake = event.data.archivedAt + DeleteAfter /\ Decided(d)
          /\ d.effects \subseteq {OwnerNotice(<<"session-notification", "archived">>)}
      BY <3>1, <3>5 DEF Waiting, Decision, Decided, Statuses
    <3>6. event.effect.kind = "archiveSession" /\ event.data.archivedAt \in Nat
      BY <3>0
    <3>3. \A e \in d.effects : SessionKind(e, d.state) /\ e.kind = "notifyOwner"
      BY <2>2, <2>5, <3>0, <3>2
    <3>4. SessionMoves(s, event, d)
      <4> HIDE DEF d
      <4> QED BY <1>4, <2>2, <2>8, <3>6, <3>2, <3>3 DEF SessionMoves, Delivered, SessionWork
    <3>7. SessionTurn(s, event, d)
      <4> HIDE DEF d
      <4> QED BY <2>2, <3>6, <3>2, <3>3, <3>4 DEF SessionTurn, SessionState
    <3> QED BY <3>7
  <2>9. CASE s.phase = "deleting"
    <3>0. event.effect.kind = "deleteSession" /\ d = SessionDeleted(s, event.data, event.at)
      BY <1>1, <1>4, <2>9 DEF SessionVerdict, Delivered, SessionWork, SessionFails
    <3>1. CASE event.data \in {"deleted", "missing"}
      <4>1. d = Decision("completed", u("completed"), Keep, {})
        BY <3>0, <3>1 DEF SessionDeleted, u
      <4> QED BY <1>4, <2>1, <2>9, <3>0, <3>1, <4>1 DEF SessionTurn, SessionMoves, Delivered, SessionWork, Decision, Decided, Statuses, SessionState
    <3>2. CASE event.data \notin {"deleted", "missing"}
      <4>1. d = Waiting(u("archived"), event.at + SessionPoll, {})
        BY <3>0, <3>2 DEF SessionDeleted, u
      <4>2. s.archivedAt \in Nat
        BY <2>9 DEF SessionState
      <4> QED BY <1>4, <2>3, <2>9, <3>0, <4>1, <4>2, FeatureAssumption
              DEF FeatureAssumption, SessionTurn, SessionMoves, Waiting, Decision, Decided, Statuses, SessionState
    <3> QED BY <3>1, <3>2
  <2> QED BY <1>4, <2>6, <2>7, <2>8, <2>9 DEF SessionWork
<1> QED BY <1>2, <1>3, <1>4 DEF IsVerdict

\* What a row says of the session and of time
SessionRow(id, s) ==
  LET e == outbox[id].effect
      data == outbox[id].data
      left == spent.touches = 0
  IN
  /\ SessionKind(e, s)
  /\ e.kind = "deleteSession" =>
       /\ e.about.at <= now
       /\ left => session.archivedAt # None /\ session.archivedAt <= e.about.archivedAt
  /\ outbox[id].status = "executed" =>
       /\ e.kind = "inspectSession" =>
            (~data.exists => ~session.exists) /\ (data.archived /\ left => session.archivedAt # None)
       /\ e.kind = "archiveSession" => data.archivedAt \in Nat /\ (left => session.archivedAt = data.archivedAt)
       /\ e.kind = "deleteSession" => (data \in {"deleted", "missing"} => ~session.exists)

\* Nobody hears of an effect twice: one effect is under way, the one the phase waits for
SessionUndisturbed(s) ==
  /\ \A id \in RowsOf("session") : Open(id) /\ outbox[id].effect.kind # "notifyOwner" =>
       /\ <<s.phase, outbox[id].effect.kind>> \in SessionWork
       /\ outbox[id].effect.kind = "deleteSession" =>
            /\ outbox[id].effect.about.archivedAt = s.archivedAt
            /\ outbox[id].effect.about.at >= s.archivedAt + DeleteAfter
  /\ \A i, j \in RowsOf("session") :
       Open(i) /\ Open(j) /\ outbox[i].effect.kind # "notifyOwner" /\ outbox[j].effect.kind # "notifyOwner" => i = j
  /\ s.phase = "archived" => flow["session"].wake = None \/ flow["session"].wake >= s.archivedAt + DeleteAfter

SessionInv ==
  flow["session"].status # "absent" =>
    LET s == flow["session"].state IN
    /\ SessionState(s)
    /\ \A id \in RowsOf("session") : SessionRow(id, s)
    /\ s.phase = "completed" => ~session.exists
    /\ s.phase \in {"archived", "deleting"} /\ spent.touches = 0 => session.archivedAt # None /\ session.archivedAt <= s.archivedAt
    /\ spent.faults = 0 => SessionUndisturbed(s)

LEMMA SessionTakesTurn ==
  ASSUME Tables, "session" \in Flows, SessionInv, FeatureAssumption, NEW event, NEW touched, Turn("session", event, touched),
         event.type \in {"timer", "delivered", "failed"} \cup AnswerTypes
  PROVE  SessionTurn(flow["session"].state, event, Session(flow["session"].state, event))
<1> DEFINE s == flow["session"].state
<1>1. flow["session"].status # "absent" /\ SessionState(s) /\ event.at \in Nat /\ Session(s, event) # Refused
  BY DEF Turn, SessionInv, Tables, Decides, Reduce
<1>3. CASE event.type = "timer" /\ s.phase \in {"waiting", "archived"}
  BY <1>1, <1>3, SessionTimed
<1>4. CASE event.type \in AnswerTypes \cup {"timer"} /\ ~(event.type = "timer" /\ s.phase \in {"waiting", "archived"})
  BY <1>1, <1>4, SessionHears
<1>5. CASE IsVerdict(event)
  <2>1. PICK id \in RowsOf("session") : /\ event.effect = outbox[id].effect
                                        /\ event.type = "delivered" => outbox[id].status = "executed" /\ event.data = outbox[id].data
    BY <1>5 DEF Turn
  <2>2. Delivered(event, "archiveSession") => event.data.archivedAt \in Nat
    BY <1>1, <2>1 DEF SessionInv, SessionRow, Delivered
  <2> QED BY <1>1, <1>5, <2>2, SessionJudged
<1> QED BY <1>3, <1>4, <1>5 DEF IsVerdict

LEMMA SessionRests ==
  ASSUME Tables, "session" \in Flows, FeatureAssumption, SessionInv, Onward, SessionChange, Quiet("session"), flow["session"].status # "absent"
  PROVE  SessionInv'
<1> DEFINE f == "session"
           s == flow[f].state
<1>1. /\ flow'[f] = flow[f] /\ RowsOf(f)' = RowsOf(f)
      /\ \A id \in RowsOf(f) :
              /\ SameEffect(id) /\ (Open(id)' => Open(id))
              /\ outbox'[id].status = "executed" =>
                   \/ outbox'[id] = outbox[id]
                   \/ outbox[id].status = "pending" /\ \E r \in Results(outbox[id].effect) : outbox'[id].data = r.data /\ session' = r.session
  BY AfterQuiet
<1>2. /\ now \in Nat /\ now' \in Nat /\ now <= now' /\ (spent'.touches = 0 => spent.touches = 0) /\ (spent'.faults = 0 => spent.faults = 0)
      /\ (session'.exists => session.exists)
      /\ (session.archivedAt # None /\ spent'.touches = 0 => session'.archivedAt = session.archivedAt)
  BY DEF Onward, SessionChange, Tables
<1>3. ASSUME NEW id \in RowsOf(f) PROVE SessionRow(id, s)'
  <2>1. SessionRow(id, s) /\ outbox'[id].effect = outbox[id].effect
    BY <1>1 DEF SessionInv, SameEffect
  <2>2. SessionKind(outbox'[id].effect, s) /\ (outbox'[id].effect.kind = "deleteSession" =>
          /\ outbox'[id].effect.about.at <= now'
          /\ spent'.touches = 0 => session'.archivedAt # None /\ session'.archivedAt <= outbox'[id].effect.about.archivedAt)
    BY <1>2, <2>1 DEF SessionRow, SessionKind
  <2>3. CASE outbox'[id].status = "executed" /\ outbox'[id] = outbox[id]
    <3>1. None \notin Int
      BY FeatureAssumption DEF FeatureAssumption
    <3> QED BY <1>1, <1>2, <2>1, <2>2, <2>3, <3>1 DEF SessionRow
  <2>4. CASE outbox'[id].status # "executed"
    BY <1>1, <2>2, <2>4 DEF SessionRow
  <2>5. ASSUME outbox'[id].status = "executed",
               NEW r \in Results(outbox[id].effect), outbox'[id].data = r.data, session' = r.session
        PROVE  SessionRow(id, s)'
    <3> DEFINE e == outbox[id].effect
    <3>1. /\ e.kind = "inspectSession" =>
              /\ r.session = session /\ r.data.exists = session.exists
              /\ r.data.archived = (session.archivedAt # None)
          /\ e.kind = "archiveSession" => r.data.archivedAt \in 0 .. now /\ r.session.archivedAt = r.data.archivedAt
          /\ e.kind = "deleteSession" => (r.data \in {"deleted", "missing"} => ~r.session.exists)
      BY SessionResults
    <3>2. e.kind = "inspectSession" =>
            /\ ~outbox'[id].data.exists => ~session'.exists
            /\ outbox'[id].data.archived /\ spent'.touches = 0 => session'.archivedAt # None
      BY <2>5, <3>1
    <3>3. e.kind = "archiveSession" =>
            outbox'[id].data.archivedAt \in Nat /\ (spent'.touches = 0 => session'.archivedAt = outbox'[id].data.archivedAt)
      BY <1>2, <2>5, <3>1
    <3>4. e.kind = "deleteSession" => (outbox'[id].data \in {"deleted", "missing"} => ~session'.exists)
      BY <2>5, <3>1
    <3>5. outbox'[id].effect = e
      BY <2>1
    <3>6. flow'[f].state = s
      BY <1>1
    <3> HIDE DEF e
    <3> QED BY <2>2, <3>2, <3>3, <3>4, <3>5, <3>6, Zenon DEF SessionRow
  <2> QED BY <1>1, <2>3, <2>4, <2>5
<1>4. s.phase \in {"archived", "deleting"} /\ spent'.touches = 0 => session'.archivedAt # None /\ session'.archivedAt <= s.archivedAt
  BY <1>2 DEF SessionInv
<1>5. spent'.faults = 0 => SessionUndisturbed(s)'
  <2>1. \A id \in RowsOf(f) : outbox'[id].effect = outbox[id].effect /\ (Open(id)' => Open(id))
    BY <1>1 DEF SameEffect
  <2> QED BY <1>1, <1>2, <2>1 DEF SessionInv, SessionUndisturbed
<1> QED BY <1>1, <1>2, <1>3, <1>4, <1>5 DEF SessionInv

LEMMA SessionTurns ==
  ASSUME Tables, "session" \in Flows, FeatureAssumption, SessionInv, Onward, NEW event, NEW touched, Turn("session", event, touched),
         event.type \in {"timer", "delivered", "failed"} \cup AnswerTypes
  PROVE  SessionInv' /\ Lives("session")
<1> DEFINE f == "session"
           s == flow[f].state
           d == Session(s, event)
           t == d.state
<1>1. SessionTurn(s, event, d) /\ Reduce(f, s, event) = d
  BY SessionTakesTurn DEF Reduce
<1>2. Decided(d) /\ SessionState(t) /\ s.seq <= t.seq /\ SessionMoves(s, event, d)
  BY <1>1 DEF SessionTurn
<1>3. /\ flow[f].status # "absent" /\ SessionState(s) /\ \A id \in RowsOf(f) : SessionRow(id, s)
      /\ (s.phase = "completed" => ~session.exists)
      /\ (s.phase \in {"archived", "deleting"} /\ spent.touches = 0 => session.archivedAt # None /\ session.archivedAt <= s.archivedAt)
      /\ (spent.faults = 0 => SessionUndisturbed(s))
  BY DEF SessionInv, Turn
<1>4. /\ Lives(f) /\ flow'[f].state = t /\ flow'[f].wake = Kept(d.wake, flow[f].wake)
      /\ \A id \in RowsOf(f)' :
              \/ id \in RowsOf(f) /\ SameEffect(id) /\ (id \in touched => outbox'[id].status # "executed")
                   /\ (id \notin touched => outbox'[id] = outbox[id]) /\ (Open(id)' => Open(id))
                   /\ (id \in touched /\ spent'.faults = 0 => ~Open(id)')
              \/ id \notin RowsOf(f) /\ outbox'[id].effect \in d.effects /\ outbox'[id].status = "pending" /\ ~outbox'[id].tried
                   /\ id = <<f, outbox'[id].effect.id>>
  BY <1>1, <1>2, AfterTurn
<1>5. /\ now \in Nat /\ now' \in Nat /\ now <= now' /\ (spent'.touches = 0 => spent.touches = 0) /\ (spent'.faults = 0 => spent.faults = 0)
      /\ session' = session /\ event.at = now /\ None \notin Int /\ Keep \notin Int \cup {None}
      /\ (session.archivedAt = None \/ session.archivedAt \in 0 .. now)
  BY FeatureAssumption DEF Onward, Turn, Tables, FeatureAssumption
<1>6. \A e \in d.effects : SessionKind(e, t) /\ (e.kind # "notifyOwner" => <<t.phase, e.kind>> \in SessionWork)
  BY <1>1 DEF SessionTurn
<1>7. \A e1, e2 \in d.effects : e1.kind # "notifyOwner" /\ e2.kind # "notifyOwner" => e1 = e2
  BY <1>1 DEF SessionTurn
<1>8. IsVerdict(event) => \E id \in touched :
        /\ touched = {id} /\ id \in RowsOf(f) /\ event.effect = outbox[id].effect /\ Open(id)
        /\ event.type = "delivered" => outbox[id].status = "executed" /\ event.data = outbox[id].data
  BY DEF Turn
<1>9. event.type = "timer" => flow[f].wake # None /\ flow[f].wake <= now
  BY DEF Turn, Due
<1>10. event.type \in AnswerTypes => event.type = "eligible"
  <2>1. Executed(f, "requestInteraction") = {}
    BY <1>3 DEF Executed, SessionRow, SessionKind
  <2> QED BY <2>1 DEF Turn, Asked, AnswerTypes, CardTypes
<1> HIDE DEF d
\* A deletion is asked for when the wake-up of the archived session has come
<1>11. ASSUME NEW e \in d.effects, e.kind = "deleteSession"
       PROVE  /\ s.phase = "archived" /\ event.type = "timer" /\ t.phase = "deleting" /\ t.archivedAt = s.archivedAt
              /\ e.about.archivedAt = s.archivedAt /\ e.about.at = now
  <2>1. t.phase = "deleting"
    BY <1>6, <1>11 DEF SessionWork
  <2>2. /\ s.phase = "archived" /\ event.type = "timer" /\ t.archivedAt = s.archivedAt
        /\ e.about = [archivedAt |-> s.archivedAt, at |-> event.at]
    BY <1>2, <1>11, <2>1 DEF SessionMoves
  <2> QED BY <1>5, <2>1, <2>2
<1>12. ASSUME NEW id \in RowsOf(f)' PROVE SessionRow(id, s)'
  <2>0. flow'[f].state = t
    BY <1>4
  <2>1. CASE id \in RowsOf(f)
    <3>1. /\ SessionRow(id, s) /\ outbox'[id].effect = outbox[id].effect
          /\ outbox'[id].status = "executed" => outbox[id].status = "executed" /\ outbox'[id].data = outbox[id].data
      BY <1>3, <1>4, <2>1 DEF SameEffect
    <3>2. SessionKind(outbox'[id].effect, t)
      <4>1. s.seq \in Nat /\ t.seq \in Nat
        BY <1>2, <1>3 DEF SessionState
      <4> QED BY <1>2, <3>1, <4>1 DEF SessionRow, SessionKind, SessionId
    <3> DEFINE e == outbox[id].effect
    <3>3. /\ e.kind = "deleteSession" => e.about.at <= now'
          /\ e.kind = "deleteSession" /\ spent'.touches = 0 => session'.archivedAt # None /\ session'.archivedAt <= e.about.archivedAt
      BY <1>2, <1>5, <3>1 DEF SessionRow, SessionKind
    <3>4. outbox'[id].status = "executed" =>
             /\ e.kind = "inspectSession" =>
                  (~outbox'[id].data.exists => ~session'.exists)
                  /\ (outbox'[id].data.archived /\ spent'.touches = 0 => session'.archivedAt # None)
             /\ e.kind = "archiveSession" =>
                  outbox'[id].data.archivedAt \in Nat /\ (spent'.touches = 0 => session'.archivedAt = outbox'[id].data.archivedAt)
             /\ e.kind = "deleteSession" => (outbox'[id].data \in {"deleted", "missing"} => ~session'.exists)
      BY <1>5, <3>1 DEF SessionRow
    <3>5. outbox'[id].effect = e
      BY <3>1
    <3> HIDE DEF e
    <3> QED BY <2>0, <3>2, <3>3, <3>4, <3>5, Zenon DEF SessionRow
  <2>2. CASE id \notin RowsOf(f)
    <3>1. outbox'[id].effect \in d.effects /\ outbox'[id].status = "pending"
      BY <1>4, <2>2
    <3> DEFINE e == outbox'[id].effect
    <3>2. SessionKind(e, t)
      BY <1>6, <3>1
    <3>3. e.kind = "deleteSession" =>
             /\ e.about.at <= now'
             /\ spent'.touches = 0 => session'.archivedAt # None /\ session'.archivedAt <= e.about.archivedAt
      BY <1>3, <1>5, <1>11, <3>1
    <3> QED BY <2>0, <3>1, <3>2, <3>3 DEF SessionRow
  <2> QED BY <2>1, <2>2
<1>13. t.phase = "completed" => ~session.exists
  <2>1. CASE s.phase = "completed"
    BY <1>3, <2>1
  <2>2. CASE s.phase # "completed" /\ t.phase = "completed"
    <3>1. \/ Delivered(event, "inspectSession") /\ ~event.data.exists
          \/ Delivered(event, "deleteSession") /\ event.data \in {"deleted", "missing"}
      BY <1>2, <2>2 DEF SessionMoves
    <3>2. PICK id \in RowsOf(f) : event.effect = outbox[id].effect /\ outbox[id].status = "executed" /\ event.data = outbox[id].data
      BY <1>8, <3>1 DEF Delivered, IsVerdict
    <3> QED BY <1>3, <3>1, <3>2 DEF SessionRow, Delivered
  <2> QED BY <2>1, <2>2
<1>14. ASSUME t.phase \in {"archived", "deleting"}, spent'.touches = 0
       PROVE  session.archivedAt # None /\ session.archivedAt <= t.archivedAt
  <2>1. CASE s.phase \in {"archived", "deleting"} /\ t.archivedAt = s.archivedAt
    BY <1>3, <1>5, <1>14, <2>1
  <2>2. CASE Delivered(event, "inspectSession") /\ event.data.archived /\ t.archivedAt = event.at
    <3>1. PICK id \in RowsOf(f) : event.effect = outbox[id].effect /\ outbox[id].status = "executed" /\ event.data = outbox[id].data
      BY <1>8, <2>2 DEF Delivered, IsVerdict
    <3>2. session.archivedAt # None
      BY <1>3, <1>5, <1>14, <2>2, <3>1 DEF SessionRow, Delivered
    <3> QED BY <1>5, <2>2, <3>2
  <2>3. CASE Delivered(event, "archiveSession") /\ t.archivedAt = event.data.archivedAt
    <3>1. PICK id \in RowsOf(f) : event.effect = outbox[id].effect /\ outbox[id].status = "executed" /\ event.data = outbox[id].data
      BY <1>8, <2>3 DEF Delivered, IsVerdict
    <3>2. session.archivedAt = event.data.archivedAt /\ event.data.archivedAt \in Nat
      BY <1>3, <1>5, <1>14, <2>3, <3>1 DEF SessionRow, Delivered
    <3> QED BY <1>5, <2>3, <3>2
  <2> QED BY <1>2, <1>14, <2>1, <2>2, <2>3 DEF SessionMoves

<1>15. ASSUME spent'.faults = 0 PROVE SessionUndisturbed(s)'
  <2>0. flow'[f].state = t /\ SessionUndisturbed(s) /\ RowsOf(f)' = RowsOf(f)' /\ flow'[f].wake = Kept(d.wake, flow[f].wake)
    BY <1>3, <1>4, <1>5, <1>15
  <2> DEFINE busy(id) == Open(id) /\ outbox[id].effect.kind # "notifyOwner"
  <2>1. ASSUME NEW id \in RowsOf(f), busy(id)
        PROVE  /\ <<s.phase, outbox[id].effect.kind>> \in SessionWork
               /\ outbox[id].effect.kind = "deleteSession" =>
                    outbox[id].effect.about.archivedAt = s.archivedAt /\ outbox[id].effect.about.at >= s.archivedAt + DeleteAfter
    BY <2>0, <2>1 DEF SessionUndisturbed
  <2>2. \A i, j \in RowsOf(f) : busy(i) /\ busy(j) => i = j
    BY <2>0 DEF SessionUndisturbed
  \* Old rows under way: the phase has stayed
  <2>3. ASSUME NEW id \in RowsOf(f), id \notin touched, busy(id)
        PROVE  t.phase = s.phase /\ t.archivedAt = s.archivedAt /\ \A e \in d.effects : e.kind = "notifyOwner"
    <3>1. s.phase \notin {"waiting", "archived"}
      BY <2>1, <2>3 DEF SessionWork
    <3>2. ~(IsVerdict(event) /\ <<s.phase, event.effect.kind>> \in SessionWork)
      <4>1. SUFFICES ASSUME IsVerdict(event), <<s.phase, event.effect.kind>> \in SessionWork PROVE FALSE
        OBVIOUS
      <4>2. PICK o \in RowsOf(f) : touched = {o} /\ event.effect = outbox[o].effect /\ Open(o)
        BY <1>8, <4>1
      <4>3. busy(o)
        BY <4>1, <4>2 DEF SessionWork
      <4> QED BY <2>2, <2>3, <4>2, <4>3
    <3>3. \A kind : ~(Delivered(event, kind) /\ <<s.phase, kind>> \in SessionWork)
      BY <3>2 DEF Delivered, IsVerdict
    <3>4. s.phase = "deleting" /\ event.effect.kind = "deleteSession" => <<s.phase, event.effect.kind>> \in SessionWork
      BY DEF SessionWork
    <3> QED BY <1>2, <3>1, <3>2, <3>3, <3>4 DEF SessionMoves
  <2>4. ASSUME NEW id \in RowsOf(f)', Open(id)', outbox'[id].effect.kind # "notifyOwner"
        PROVE  \/ id \in RowsOf(f) /\ id \notin touched /\ busy(id) /\ outbox'[id].effect = outbox[id].effect
               \/ id \notin RowsOf(f) /\ outbox'[id].effect \in d.effects /\ id = <<f, outbox'[id].effect.id>>
    BY <1>4, <1>15, <2>4 DEF SameEffect
  <2>5. ASSUME NEW id \in RowsOf(f)', Open(id)', outbox'[id].effect.kind # "notifyOwner"
        PROVE  /\ <<t.phase, outbox'[id].effect.kind>> \in SessionWork
               /\ outbox'[id].effect.kind = "deleteSession" =>
                    outbox'[id].effect.about.archivedAt = t.archivedAt /\ outbox'[id].effect.about.at >= t.archivedAt + DeleteAfter
    <3>1. CASE id \in RowsOf(f) /\ id \notin touched /\ busy(id) /\ outbox'[id].effect = outbox[id].effect
      BY <2>1, <2>3, <3>1
    <3>2. CASE outbox'[id].effect \in d.effects
      <4>1. <<t.phase, outbox'[id].effect.kind>> \in SessionWork
        BY <1>6, <2>5, <3>2
      <4>2. CASE outbox'[id].effect.kind = "deleteSession"
        <5>1. /\ s.phase = "archived" /\ event.type = "timer" /\ t.archivedAt = s.archivedAt
              /\ outbox'[id].effect.about.archivedAt = s.archivedAt /\ outbox'[id].effect.about.at = now
          BY <1>11, <3>2, <4>2
        <5>2. flow[f].wake >= s.archivedAt + DeleteAfter /\ flow[f].wake <= now
          BY <1>9, <2>0, <5>1 DEF SessionUndisturbed
        <5>3. flow[f].wake \in Int /\ s.archivedAt \in Nat /\ DeleteAfter \in Nat
          BY <1>3, <1>9, <5>1, FeatureAssumption DEF Tables, Instance, SessionState, FeatureAssumption
        <5> QED BY <1>5, <4>1, <5>1, <5>2, <5>3
      <4> QED BY <4>1, <4>2
    <3> QED BY <2>4, <2>5, <3>1, <3>2
  <2>6. ASSUME NEW i \in RowsOf(f)', NEW j \in RowsOf(f)', Open(i)', Open(j)', outbox'[i].effect.kind # "notifyOwner",
               outbox'[j].effect.kind # "notifyOwner"
        PROVE  i = j
    <3>1. CASE i \in RowsOf(f) /\ j \in RowsOf(f)
      BY <2>2, <2>4, <2>6, <3>1
    <3>2. CASE i \notin RowsOf(f) /\ j \notin RowsOf(f)
      BY <1>7, <2>4, <2>6, <3>2
    <3>3. CASE i \in RowsOf(f) /\ j \notin RowsOf(f)
      BY <2>3, <2>4, <2>6, <3>3
    <3>4. CASE i \notin RowsOf(f) /\ j \in RowsOf(f)
      BY <2>3, <2>4, <2>6, <3>4
    <3> QED BY <3>1, <3>2, <3>3, <3>4
  <2>7. ASSUME t.phase = "archived" PROVE flow'[f].wake = None \/ flow'[f].wake >= t.archivedAt + DeleteAfter
    <3>1. CASE s.phase = "archived" /\ t.archivedAt = s.archivedAt /\ d.wake = Keep
      BY <2>0, <3>1 DEF SessionUndisturbed, Kept
    <3>2. CASE /\ s.phase = "archived" /\ t.phase = s.phase
               /\ (IsVerdict(event) /\ event.effect.kind # "notifyOwner") \/ event.type \in AnswerTypes \ {"eligible"}
      <4>1. IsVerdict(event) /\ event.effect.kind # "notifyOwner"
        BY <1>10, <3>2
      <4>2. PICK o \in RowsOf(f) : event.effect = outbox[o].effect /\ Open(o)
        BY <1>8, <4>1
      <4>3. <<s.phase, outbox[o].effect.kind>> \in SessionWork
        BY <2>1, <4>1, <4>2
      <4> QED BY <3>2, <4>3 DEF SessionWork
    <3>3. CASE d.wake = t.archivedAt + DeleteAfter /\ (t.archivedAt = event.at \/ t.archivedAt = event.data.archivedAt)
      <4>1. t.archivedAt \in Nat /\ DeleteAfter \in Nat
        BY <1>2, <2>7, FeatureAssumption DEF SessionState, FeatureAssumption
      <4>2. d.wake \in Int /\ d.wake # Keep
        BY <1>5, <3>3, <4>1
      <4> QED BY <2>0, <3>3, <4>1, <4>2 DEF Kept
    <3>4. CASE /\ t.archivedAt = s.archivedAt /\ d.wake \in Int /\ d.wake >= event.at
               /\ s.phase = "deleting" /\ IsVerdict(event) /\ event.effect.kind = "deleteSession"
      <4>1. PICK o \in RowsOf(f) : event.effect = outbox[o].effect /\ Open(o)
        BY <1>8, <3>4
      <4>2. outbox[o].effect.about.archivedAt = s.archivedAt /\ outbox[o].effect.about.at >= s.archivedAt + DeleteAfter
        BY <2>1, <3>4, <4>1
      <4>3. outbox[o].effect.about.at <= now /\ outbox[o].effect.about.at \in Nat /\ s.archivedAt \in Nat /\ DeleteAfter \in Nat
        BY <1>3, <3>4, <4>1, FeatureAssumption DEF SessionRow, SessionKind, SessionState, FeatureAssumption
      <4>4. flow'[f].wake = d.wake
        BY <1>5, <2>0, <3>4 DEF Kept
      <4> QED BY <1>5, <3>4, <4>2, <4>3, <4>4
    <3> QED BY <1>2, <2>7, <3>1, <3>2, <3>3, <3>4 DEF SessionMoves
  <2> QED BY <2>0, <2>5, <2>6, <2>7, Zenon DEF SessionUndisturbed
<1>16. flow'[f].status # "absent" /\ Lives(f) /\ flow'[f].state = t
  BY <1>1, <1>2, <1>4, AfterTurn
<1>17. /\ t.phase = "completed" => ~session'.exists
       /\ t.phase \in {"archived", "deleting"} /\ spent'.touches = 0 => session'.archivedAt # None /\ session'.archivedAt <= t.archivedAt
  BY <1>5, <1>13, <1>14
<1>18. SessionInv'
  BY <1>2, <1>12, <1>15, <1>16, <1>17, Zenon DEF SessionInv
<1> QED BY <1>16, <1>18

LEMMA SessionStep ==
  ASSUME Tables, "session" \in Flows, FeatureAssumption, SessionInv, Onward, SessionChange, FlowStep("session")
  PROVE  SessionInv' /\ Lives("session")
<1>1. CASE Quiet("session")
  <2>1. flow'["session"] = flow["session"] /\ Lives("session")
    BY <1>1, AfterQuiet
  <2>2. CASE flow["session"].status = "absent"
    BY <2>1, <2>2 DEF SessionInv
  <2> QED BY <1>1, <2>1, <2>2, SessionRests
<1> QED BY <1>1, TurnOrQuiet, SessionTurns

-----------------------------------------------------------------------------
(* focus-discovery.v1 *)

DiscoveryState(s) ==
  /\ DOMAIN s = {"phase", "seq", "last", "until"} /\ s.phase \in {"scheduled", "discovering"} /\ s.seq \in Nat
  /\ s.last \in Int \cup {None} /\ s.until \in Int \cup {None}
  /\ s.phase = "discovering" => s.until \in Int

DiscoveryId(id, seq) == \A k : id = <<"focus-discovery", k>> => k \in Nat /\ k <= seq

DiscoveryEffect(e, s) ==
  /\ e.kind = "discoverSignals" /\ e.about.from \in Int /\ e.about.until \in Int
  /\ DiscoveryId(e.id, s.seq)

ScannedRows == {i \in Executed("discovery", "discoverSignals") : outbox[i].status \in {"told", "delivered"}}

\* Nobody hears of a scan twice: one is under way, of the window that follows the last one,
\* and the windows scanned so far overlap
DiscoveryUndisturbed(s) ==
  /\ \A id \in RowsOf("discovery") : Open(id) =>
       s.phase = "discovering" /\ outbox[id].effect.about = DiscoveryWindow(s, s.until) /\ outbox[id].status # "told"
  /\ \A i, j \in RowsOf("discovery") : Open(i) /\ Open(j) => i = j
  /\ s.last = None => Scanned = {}
  /\ s.last # None =>
       \A v \in Scanned : \A t \in v.from .. s.last : \E w \in Scanned : w.from <= t /\ t <= w.until

DiscoveryInv ==
  flow["discovery"].status # "absent" =>
    LET s == flow["discovery"].state IN
    /\ DiscoveryState(s)
    /\ \A id \in RowsOf("discovery") : DiscoveryEffect(outbox[id].effect, s)
    /\ spent.faults = 0 => DiscoveryUndisturbed(s)

LEMMA DiscoveryTimed ==
  ASSUME NEW s, DiscoveryState(s), NEW event, event.type = "timer", event.at \in Nat, FeatureAssumption, s.phase = "scheduled"
  PROVE  LET d == Discovery(s, event)
             e == Effect("discoverSignals", <<"focus-discovery", s.seq + 1>>, <<"discovery", s.seq + 1>>, DiscoveryWindow(s, event.at))
         IN /\ d # Refused /\ Decided(d) /\ DiscoveryState(d.state) /\ d.state.phase = "discovering"
            /\ d.state.seq = s.seq + 1 /\ d.state.last = s.last
            /\ d.effects = {e} /\ DiscoveryEffect(e, d.state) /\ ~DiscoveryId(e.id, s.seq)
            /\ DiscoveryWindow(d.state, d.state.until) = e.about
<1> DEFINE u == [s EXCEPT !.phase = "discovering", !.seq = @ + 1, !.until = event.at]
           w == DiscoveryWindow(s, event.at)
           e == Effect("discoverSignals", <<"focus-discovery", s.seq + 1>>, <<"discovery", s.seq + 1>>, w)
<1>1. Discovery(s, event) = Waiting(u, None, {e})
  BY DEF Discovery, StartDiscovery
<1>2. DiscoveryState(u) /\ u.phase = "discovering" /\ u.seq = s.seq + 1 /\ u.last = s.last /\ u.until = event.at
  BY DEF DiscoveryState
<1>3. DiscoveryWindow(u, u.until) = w
  BY <1>2 DEF DiscoveryWindow
<1>4. w.from \in Int /\ w.until \in Int
  BY FeatureAssumption DEF DiscoveryWindow, FeatureAssumption, DiscoveryState
<1> HIDE DEF u, w
<1>5. e.about = w /\ e.kind = "discoverSignals" /\ e.id = <<"focus-discovery", s.seq + 1>>
  BY DEF Effect
<1>6. DiscoveryEffect(e, u) /\ ~DiscoveryId(e.id, s.seq)
  BY <1>2, <1>4, <1>5 DEF DiscoveryEffect, DiscoveryId, DiscoveryState
<1> QED BY <1>1, <1>2, <1>3, <1>5, <1>6 DEF Waiting, Decision, Decided, Statuses, Refused, w

\* What else a scan may come to
DiscoveryTurn(s, event, d) ==
  /\ Decided(d) /\ DiscoveryState(d.state) /\ d.state.seq = s.seq /\ d.effects = {}
  /\ \/ d.state = s /\ ~(IsVerdict(event) /\ event.effect.kind = "discoverSignals" /\ s.phase = "discovering")
     \/ Delivered(event, "discoverSignals") /\ s.phase = "discovering" /\ d.state.phase = "scheduled" /\ d.state.last = s.until
     \/ Failed(event, "discoverSignals") /\ s.phase = "discovering" /\ d.state.phase = "scheduled" /\ d.state.last = s.last

LEMMA DiscoveryJudged ==
  ASSUME NEW s, DiscoveryState(s), NEW event, event.at \in Nat, FeatureAssumption, ~(event.type = "timer" /\ s.phase = "scheduled")
  PROVE  DiscoveryTurn(s, event, Discovery(s, event))
<1> DEFINE u == [s EXCEPT !.phase = "scheduled", !.last = s.until]
           v == [s EXCEPT !.phase = "scheduled"]
<1>1. /\ DiscoveryState(u) /\ u.phase = "scheduled" /\ u.last = s.until /\ u.seq = s.seq
      /\ DiscoveryState(v) /\ v.phase = "scheduled" /\ v.last = s.last /\ v.seq = s.seq
  BY DEF DiscoveryState
<1>2. CASE Delivered(event, "discoverSignals") /\ s.phase = "discovering"
  <2>1. Discovery(s, event) = Waiting(u, event.at + DiscoveryInterval, {})
    BY <1>2 DEF Discovery, Delivered, Failed
  <2> HIDE DEF u, v
  <2> QED BY <1>1, <1>2, <2>1, FeatureAssumption DEF FeatureAssumption, DiscoveryTurn, Waiting, Decision, Decided, Statuses
<1>3. CASE Failed(event, "discoverSignals") /\ s.phase = "discovering"
  <2>1. Discovery(s, event) = Waiting(v, event.at + DiscoveryRetry, {})
    BY <1>3 DEF Discovery, Delivered, Failed
  <2> HIDE DEF u, v
  <2> QED BY <1>1, <1>3, <2>1, FeatureAssumption DEF FeatureAssumption, DiscoveryTurn, Waiting, Decision, Decided, Statuses
<1>4. CASE ~(Delivered(event, "discoverSignals") /\ s.phase = "discovering") /\ ~(Failed(event, "discoverSignals") /\ s.phase = "discovering")
  <2>1. Discovery(s, event) = Unchanged(s)
    BY <1>4 DEF Discovery
  <2> QED BY <1>4, <2>1 DEF DiscoveryTurn, Unchanged, Waiting, Decision, Decided, Statuses, IsVerdict, Delivered, Failed
<1> QED BY <1>2, <1>3, <1>4

\* Without faults, what has been scanned changes with a delivery only
LEMMA ScansStay ==
  ASSUME Tables, "discovery" \in Flows, NEW event, NEW touched, Turn("discovery", event, touched), event.type # "delivered",
         event.type \in {"timer", "delivered", "failed"} \cup AnswerTypes,
         \A id \in touched : outbox[id].status # "told", Decided(Reduce("discovery", flow["discovery"].state, event))
  PROVE  Scanned' = Scanned
<1> DEFINE f == "discovery"
<1>1. \A id \in RowsOf(f)' :
         \/ id \in RowsOf(f) /\ SameEffect(id) /\ (id \notin touched => outbox'[id] = outbox[id])
         \/ id \notin RowsOf(f) /\ ~outbox'[id].tried
  BY AfterTurn
<1>2. \A id \in RowsOf(f) : id \in RowsOf(f)' /\ SameEffect(id)
  BY AfterTurn
<1>3. \A id \in touched : id \in RowsOf(f) /\ outbox'[id].status = "failed" /\ outbox[id].status \in {"pending", "executed"}
  BY DEF Turn, IsVerdict, Open
<1>4. ScannedRows' = ScannedRows
  <2>1. \A id : id \in ScannedRows' <=> id \in RowsOf(f)' /\ outbox'[id].tried /\ outbox'[id].effect.kind = "discoverSignals"
                  /\ outbox'[id].status \in {"told", "delivered"}
    BY DEF ScannedRows, Executed
  <2>2. \A id : id \in ScannedRows <=> id \in RowsOf(f) /\ outbox[id].tried /\ outbox[id].effect.kind = "discoverSignals"
                  /\ outbox[id].status \in {"told", "delivered"}
    BY DEF ScannedRows, Executed
  <2>3. ASSUME NEW id PROVE id \in ScannedRows' <=> id \in ScannedRows
    BY <1>1, <1>2, <1>3, <2>1, <2>2
  <2> QED BY <2>3
<1>5. \A id \in ScannedRows : outbox'[id].effect = outbox[id].effect
  BY <1>2 DEF ScannedRows, Executed, SameEffect
<1>6. Scanned = {outbox[id].effect.about : id \in ScannedRows} /\ Scanned' = {outbox'[id].effect.about : id \in ScannedRows'}
  BY DEF Scanned, ScannedRows
<1> QED BY <1>4, <1>5, <1>6

\* The windows overlap, and the next one begins where the last one ended
LEMMA NextWindow ==
  ASSUME NEW s, DiscoveryState(s), s.phase = "discovering", FeatureAssumption, NEW S, NEW T,
         \A v \in S : v.from \in Int /\ v.until \in Int,
         T = S \cup {DiscoveryWindow(s, s.until)},
         s.last = None => S = {},
         s.last # None => \A v \in S : \A t \in v.from .. s.last : \E w \in S : w.from <= t /\ t <= w.until
  PROVE  \A v \in T : \A t \in v.from .. s.until : \E w \in T : w.from <= t /\ t <= w.until
<1> DEFINE n == DiscoveryWindow(s, s.until)
<1>1. n \in T /\ n.until = s.until /\ n.from \in Int /\ s.until \in Int
      /\ (s.last # None => s.last \in Int /\ n.from <= s.last)
  BY FeatureAssumption DEF DiscoveryWindow, DiscoveryState, FeatureAssumption
<1> HIDE DEF n
<1>2. TAKE v \in T
<1>3. TAKE t \in v.from .. s.until
<1>4. CASE v = n
  BY <1>1, <1>4
<1>5. CASE v \in S
  <2>1. s.last # None /\ t \in Int /\ v.from <= t /\ t <= s.until
    BY <1>1, <1>5
  <2>2. CASE t <= s.last
    <3>1. t \in v.from .. s.last
      BY <1>1, <1>5, <2>1, <2>2
    <3> QED BY <1>5, <2>1, <3>1
  <2>3. CASE ~(t <= s.last)
    BY <1>1, <2>1, <2>3
  <2> QED BY <2>2, <2>3
<1> QED BY <1>4, <1>5 DEF n

LEMMA DiscoveryTurns ==
  ASSUME Tables, "discovery" \in Flows, FeatureAssumption, DiscoveryInv, Onward, NEW event, NEW touched, Turn("discovery", event, touched),
         event.type \in {"timer", "delivered", "failed"} \cup AnswerTypes
  PROVE  DiscoveryInv' /\ Lives("discovery")
<1> DEFINE f == "discovery"
           s == flow[f].state
           d == Discovery(s, event)
           t == d.state
<1>1. /\ flow[f].status # "absent" /\ DiscoveryState(s) /\ \A id \in RowsOf(f) : DiscoveryEffect(outbox[id].effect, s)
      /\ (spent.faults = 0 => DiscoveryUndisturbed(s)) /\ event.at = now /\ now \in Nat /\ None \notin Int
      /\ (spent'.faults = 0 => spent.faults = 0) /\ Reduce(f, s, event) = d
  BY FeatureAssumption DEF DiscoveryInv, Turn, Reduce, Tables, Onward, FeatureAssumption
<1>2. IsVerdict(event) => \E id \in touched :
        /\ touched = {id} /\ id \in RowsOf(f) /\ event.effect = outbox[id].effect /\ Open(id)
        /\ event.type = "delivered" => outbox'[id].status = "delivered" \/ (outbox'[id].status = "told" /\ spent'.faults > 0)
        /\ event.type = "delivered" => outbox[id].status = "executed" /\ outbox[id].tried
        /\ event.type = "failed" => outbox'[id].status = "failed"
  BY DEF Turn, Tables, RowsOf, EffectRow
<1>3. ~IsVerdict(event) => touched = {}
  BY DEF Turn, IsVerdict
<1>4. ASSUME Decided(d), DiscoveryState(t), s.seq <= t.seq, \A e \in d.effects : DiscoveryEffect(e, t),
             spent'.faults = 0 => DiscoveryUndisturbed(s)'
      PROVE  DiscoveryInv' /\ Lives(f)
  <2>1. /\ Lives(f) /\ flow'[f].state = t
        /\ \A id \in RowsOf(f)' : \/ id \in RowsOf(f) /\ SameEffect(id)
                                  \/ outbox'[id].effect \in d.effects
    BY <1>1, <1>4, AfterTurn
  <2>2. \A id \in RowsOf(f)' : DiscoveryEffect(outbox'[id].effect, t)
    BY <1>1, <1>4, <2>1 DEF DiscoveryEffect, DiscoveryId, DiscoveryState, SameEffect
  <2> HIDE DEF d
  <2> QED BY <1>4, <2>1, <2>2 DEF DiscoveryInv
<1>5. CASE event.type = "timer" /\ s.phase = "scheduled"
  <2>1. PICK e : /\ Decided(d) /\ DiscoveryState(t) /\ t.phase = "discovering" /\ t.seq = s.seq + 1 /\ t.last = s.last
                 /\ d.effects = {e} /\ DiscoveryEffect(e, t) /\ DiscoveryWindow(t, t.until) = e.about
    <3> DEFINE n == Effect("discoverSignals", <<"focus-discovery", s.seq + 1>>, <<"discovery", s.seq + 1>>, DiscoveryWindow(s, event.at))
    <3>1. /\ Decided(d) /\ DiscoveryState(t) /\ t.phase = "discovering" /\ t.seq = s.seq + 1 /\ t.last = s.last
          /\ d.effects = {n} /\ DiscoveryEffect(n, t) /\ DiscoveryWindow(t, t.until) = n.about
      BY <1>1, <1>5, DiscoveryTimed
    <3> HIDE DEF n, d
    <3> QED BY <3>1
  <2>2. ASSUME spent'.faults = 0 PROVE DiscoveryUndisturbed(s)'
    <3>1. /\ flow'[f].state = t
          /\ \A id \in RowsOf(f)' :
                 \/ id \in RowsOf(f) /\ (Open(id)' => Open(id))
                 \/ id \notin RowsOf(f) /\ outbox'[id].effect = e /\ outbox'[id].status = "pending"
                      /\ id = <<f, outbox'[id].effect.id>>
      BY <1>1, <2>1, AfterTurn
    <3>2. \A id \in RowsOf(f) : ~Open(id)
      BY <1>1, <1>5, <2>2 DEF DiscoveryUndisturbed
    <3>3. Scanned' = Scanned
      BY <1>1, <1>3, <1>5, <2>1, ScansStay DEF IsVerdict
    <3> HIDE DEF d
    <3> QED BY <1>1, <2>1, <2>2, <3>1, <3>2, <3>3 DEF DiscoveryUndisturbed
  <2>3. s.seq <= t.seq
    <3> HIDE DEF d
    <3> QED BY <1>1, <2>1 DEF DiscoveryState
  <2> QED BY <1>4, <2>1, <2>2, <2>3
<1>6. CASE ~(event.type = "timer" /\ s.phase = "scheduled")
  <2>1. DiscoveryTurn(s, event, d)
    BY <1>1, <1>6, DiscoveryJudged
  <2>2. Decided(d) /\ DiscoveryState(t) /\ t.seq = s.seq /\ d.effects = {}
    BY <2>1 DEF DiscoveryTurn
  <2>3. ASSUME spent'.faults = 0 PROVE DiscoveryUndisturbed(s)'
    <3>0. DiscoveryUndisturbed(s)
      BY <1>1, <2>3
    <3>1. /\ flow'[f].state = t
          /\ \A id \in RowsOf(f)' : id \in RowsOf(f) /\ SameEffect(id) /\ (Open(id)' => Open(id))
                 /\ (id \notin touched => outbox'[id] = outbox[id]) /\ (id \in touched => ~Open(id)')
          /\ \A id \in RowsOf(f) : id \in RowsOf(f)'
      BY <1>1, <2>2, <2>3, AfterTurn
    <3> HIDE DEF d
    <3>2. CASE ~IsVerdict(event)
      <4>1. t = s
        BY <2>1, <3>2 DEF DiscoveryTurn, IsVerdict, Delivered, Failed
      <4>2. Scanned' = Scanned
        BY <1>1, <1>3, <2>2, <3>2, ScansStay DEF IsVerdict
      <4>3. \A id \in RowsOf(f)' : id \in RowsOf(f) /\ outbox'[id] = outbox[id]
        BY <1>3, <3>1, <3>2
      <4> QED BY <3>0, <3>1, <4>1, <4>2, <4>3 DEF DiscoveryUndisturbed, Open
    <3>3. CASE IsVerdict(event)
      <4>1. PICK id \in RowsOf(f) :
              /\ touched = {id} /\ event.effect = outbox[id].effect /\ Open(id)
              /\ event.type = "delivered" => outbox'[id].status = "delivered" /\ outbox[id].status = "executed" /\ outbox[id].tried
        BY <1>2, <2>3, <3>3
      <4>2. /\ s.phase = "discovering" /\ outbox[id].effect.about = DiscoveryWindow(s, s.until) /\ outbox[id].status # "told"
            /\ event.effect.kind = "discoverSignals"
        BY <1>1, <3>0, <4>1 DEF DiscoveryUndisturbed, DiscoveryEffect
      <4>3. \A o \in RowsOf(f)' : ~Open(o)'
        BY <3>0, <3>1, <4>1 DEF DiscoveryUndisturbed
      <4>4. CASE event.type = "failed"
        <5>1. t.last = s.last
          BY <2>1, <3>3, <4>2, <4>4 DEF DiscoveryTurn, Delivered
        <5>2. Scanned' = Scanned
          BY <1>1, <2>2, <4>1, <4>2, <4>4, ScansStay
        <5> QED BY <3>0, <3>1, <4>3, <5>1, <5>2 DEF DiscoveryUndisturbed
      <4>5. CASE event.type = "delivered"
        <5>1. t.last = s.until /\ s.until \in Int
          BY <1>1, <2>1, <3>3, <4>2, <4>5 DEF DiscoveryTurn, Failed, DiscoveryState
        <5>2. Scanned' = Scanned \cup {outbox[id].effect.about}
          <6>1. \A o : o \in ScannedRows' <=> o \in RowsOf(f)' /\ outbox'[o].tried /\ outbox'[o].effect.kind = "discoverSignals"
                          /\ outbox'[o].status \in {"told", "delivered"}
            BY DEF ScannedRows, Executed
          <6>2. \A o : o \in ScannedRows <=> o \in RowsOf(f) /\ outbox[o].tried /\ outbox[o].effect.kind = "discoverSignals"
                          /\ outbox[o].status \in {"told", "delivered"}
            BY DEF ScannedRows, Executed
          <6>3. ASSUME NEW o PROVE o \in ScannedRows' <=> o \in ScannedRows \/ o = id
            BY <3>1, <4>1, <4>2, <4>5, <6>1, <6>2 DEF SameEffect
          <6>4. \A o \in RowsOf(f) : outbox'[o].effect = outbox[o].effect
            BY <3>1 DEF SameEffect
          <6>5. ScannedRows \subseteq RowsOf(f)
            BY <6>2
          <6>6. Scanned = {outbox[o].effect.about : o \in ScannedRows} /\ Scanned' = {outbox'[o].effect.about : o \in ScannedRows'}
            BY DEF Scanned, ScannedRows
          <6>7. ScannedRows' = ScannedRows \cup {id}
            BY <6>3
          <6> QED BY <4>1, <6>4, <6>5, <6>6, <6>7
        <5>3. \A v \in Scanned : v.from \in Int /\ v.until \in Int
          BY <1>1 DEF Scanned, Executed, DiscoveryEffect
        <5>4. \A v \in Scanned' : \A x \in v.from .. s.until : \E w \in Scanned' : w.from <= x /\ x <= w.until
          BY <1>1, <3>0, <4>2, <5>2, <5>3, NextWindow DEF DiscoveryUndisturbed
        <5> QED BY <1>1, <3>1, <4>3, <5>1, <5>4 DEF DiscoveryUndisturbed
      <4> QED BY <3>3, <4>4, <4>5 DEF IsVerdict
    <3> QED BY <3>2, <3>3
  <2>4. s.seq <= t.seq /\ \A e \in d.effects : DiscoveryEffect(e, t)
    <3> HIDE DEF d
    <3> QED BY <1>1, <2>2 DEF DiscoveryState
  <2> QED BY <1>4, <2>2, <2>3, <2>4
<1> QED BY <1>5, <1>6

LEMMA DiscoveryRests ==
  ASSUME Tables, "discovery" \in Flows, DiscoveryInv, Onward, Quiet("discovery"), flow["discovery"].status # "absent"
  PROVE  DiscoveryInv'
<1> DEFINE f == "discovery"
           s == flow[f].state
<1>1. /\ flow'[f] = flow[f] /\ RowsOf(f)' = RowsOf(f)
      /\ \A id \in RowsOf(f) : SameEffect(id) /\ (Open(id)' => Open(id))
  BY AfterQuiet
<1>2. DiscoveryState(s) /\ (\A id \in RowsOf(f) : DiscoveryEffect(outbox[id].effect, s))
      /\ (spent.faults = 0 => DiscoveryUndisturbed(s)) /\ (spent'.faults = 0 => spent.faults = 0)
  BY DEF DiscoveryInv, Onward, Tables
<1>3. ASSUME spent'.faults = 0 PROVE DiscoveryUndisturbed(s)'
  <2>1. DiscoveryUndisturbed(s)
    BY <1>2, <1>3
  <2>2. ASSUME NEW id \in RowsOf(f)
        PROVE  /\ outbox'[id].status \in {"told", "delivered"} /\ outbox'[id].tried
                    <=> outbox[id].status \in {"told", "delivered"} /\ outbox[id].tried
               /\ outbox'[id].status = "told" => outbox[id].status = "told"
    <3>1. Open(id) => outbox[id].status # "told"
      BY <2>1 DEF DiscoveryUndisturbed
    <3>2. outbox[id].status # "told"
      BY <3>1 DEF Open
    <3> QED BY <3>2 DEF Quiet, Rest, RowChange, RowsStay, SameEffect, Open
  <2>3. ScannedRows' = ScannedRows
    <3>1. \A o : o \in ScannedRows' <=> o \in RowsOf(f)' /\ outbox'[o].tried /\ outbox'[o].effect.kind = "discoverSignals"
                    /\ outbox'[o].status \in {"told", "delivered"}
      BY DEF ScannedRows, Executed
    <3>2. \A o : o \in ScannedRows <=> o \in RowsOf(f) /\ outbox[o].tried /\ outbox[o].effect.kind = "discoverSignals"
                    /\ outbox[o].status \in {"told", "delivered"}
      BY DEF ScannedRows, Executed
    <3>3. ASSUME NEW o PROVE o \in ScannedRows' <=> o \in ScannedRows
      BY <1>1, <2>2, <3>1, <3>2 DEF SameEffect
    <3> QED BY <3>3
  <2>4. Scanned' = Scanned
    <3>1. \A id \in ScannedRows : outbox'[id].effect = outbox[id].effect
      BY <1>1 DEF ScannedRows, Executed, SameEffect
    <3>2. Scanned = {outbox[o].effect.about : o \in ScannedRows} /\ Scanned' = {outbox'[o].effect.about : o \in ScannedRows'}
      BY DEF Scanned, ScannedRows
    <3> QED BY <2>3, <3>1, <3>2
  <2>5. \A id \in RowsOf(f) : outbox'[id].effect = outbox[id].effect
    BY <1>1 DEF SameEffect
  <2> QED BY <1>1, <2>1, <2>2, <2>4, <2>5 DEF DiscoveryUndisturbed
<1>4. \A id \in RowsOf(f)' : DiscoveryEffect(outbox'[id].effect, s)
  BY <1>1, <1>2 DEF SameEffect
<1> QED BY <1>1, <1>2, <1>3, <1>4 DEF DiscoveryInv

LEMMA DiscoveryStep ==
  ASSUME Tables, "discovery" \in Flows, FeatureAssumption, DiscoveryInv, Onward, FlowStep("discovery")
  PROVE  DiscoveryInv' /\ Lives("discovery")
<1>1. CASE Quiet("discovery")
  <2>1. flow'["discovery"] = flow["discovery"] /\ Lives("discovery")
    BY <1>1, AfterQuiet
  <2>2. CASE flow["discovery"].status = "absent"
    BY <2>1, <2>2 DEF DiscoveryInv
  <2> QED BY <1>1, <2>1, <2>2, DiscoveryRests
<1> QED BY <1>1, TurnOrQuiet, DiscoveryTurns

-----------------------------------------------------------------------------
(* The workflows that begin again, day after day: the review of the working *)
(* days, the reminders, the cleanup, and the evaluation with its brief     *)

DailyFlows == {"review", "overdue", "cleanup", "brief"}

DailyState(f, s) ==
  /\ f = "review" => /\ DOMAIN s = {"phase", "seq", "last", "pending", "plan"} /\ s.seq \in Nat
                     /\ s.phase \in {"scheduled", "loading", "evaluating", "applying", "distributing"}
  /\ f = "overdue" => DOMAIN s = {"phase", "notified", "failure"} /\ s.phase \in {"scheduled", "scanning"}
  /\ f = "cleanup" => DOMAIN s = {"phase", "day", "last", "failure"} /\ s.phase \in {"scheduled", "cleaning"}
  /\ f = "brief" => DOMAIN s = {"phase", "seq"} /\ s.seq \in Nat /\ s.phase \in {"scheduled", "evaluating", "reporting"}

DailyKinds(f) ==
  CASE f = "review" -> {"listActive", "evaluateFollowups", "applyFollowupUpdate", "notifyOwner", "openOutreach"}
    [] f = "overdue" -> {"listOverdue", "notifyOwner"}
    [] f = "cleanup" -> {"cleanupCompleted", "notifyOwner"}
    [] f = "brief" -> {"evaluateCollaboration", "notifyOwner"}

\* The ids of the effects that a timer asks for: what a later timer asks for is new, but
\* for the cleanup, which counts the days only
DailyId(f, id, s, wake, n) ==
  /\ f = "review" => \A d, k : id = <<"followup-list-active", d, k>> => k \in Nat /\ k <= s.seq
  /\ f = "overdue" => \A w : id = <<"dida-overdue-scan", w>> =>
       w \in Int /\ w <= n /\ (s.phase = "scheduled" /\ wake # None => w < wake)
  /\ f = "brief" => \A k : id = <<"collaboration-evaluate", k>> =>
       k \in Nat /\ k <= s.seq /\ (s.phase = "scheduled" => k < s.seq)

DailyInv(f) ==
  flow[f].status # "absent" =>
    /\ DailyState(f, flow[f].state)
    /\ \A id \in RowsOf(f) : /\ outbox[id].effect.kind \in DailyKinds(f)
                             /\ DailyId(f, outbox[id].effect.id, flow[f].state, flow[f].wake, now)

DailyTurn(f, s, wake, event, d) ==
  /\ d # Refused /\ Decided(d) /\ DailyState(f, d.state)
  /\ \A e \in d.effects : e.kind \in DailyKinds(f) /\ DailyId(f, e.id, d.state, Kept(d.wake, wake), event.at)
  /\ \A id : DailyId(f, id, s, wake, event.at) => DailyId(f, id, d.state, Kept(d.wake, wake), event.at)
  /\ event.type = "timer" /\ f # "cleanup" => \A e \in d.effects : ~DailyId(f, e.id, s, wake, event.at)

\* Nothing but a phase may have changed
LEMMA DailyStays ==
  ASSUME NEW f \in DailyFlows, NEW s, DailyState(f, s), NEW wake, NEW event, NEW d, d = Unchanged(s)
  PROVE  DailyTurn(f, s, wake, event, d)
<1>1. d.state = s /\ d.effects = {} /\ d.wake = Keep /\ Decided(d) /\ d # Refused
  BY DEF Unchanged, Waiting, Decision, Decided, Statuses, Refused
<1> QED BY <1>1 DEF DailyTurn, Kept

LEMMA BriefTurn ==
  ASSUME NEW s, DailyState("brief", s), NEW wake, NEW event, event.at \in Nat, FeatureAssumption
  PROVE  DailyTurn("brief", s, wake, event, Schedule(s, event))
<1> DEFINE d == Schedule(s, event)
<1>1. CASE d = Unchanged(s)
  BY <1>1, DailyStays DEF DailyFlows
<1>2. CASE d = NextEvaluation(s, event.at) /\ s.phase # "scheduled" /\ event.type # "timer"
  <2> DEFINE u == [s EXCEPT !.phase = "scheduled", !.seq = @ + 1]
  <2>1. DailyState("brief", u) /\ u.phase = "scheduled" /\ u.seq = s.seq + 1 /\ s.seq \in Nat
    BY DEF DailyState
  <2>2. d = Waiting(u, event.at + EvaluationInterval, {})
    BY <1>2 DEF NextEvaluation
  <2> HIDE DEF u, d
  <2>3. d.state = u /\ d.effects = {} /\ Decided(d) /\ d # Refused
    BY <2>2, FeatureAssumption DEF FeatureAssumption, Waiting, Decision, Decided, Statuses, Refused
  <2>4. DailyTurn("brief", s, wake, event, d)
    BY <1>2, <2>1, <2>3 DEF DailyTurn, DailyId
  <2> QED BY <2>4 DEF d
<1>3. ASSUME NEW phase \in {"evaluating", "reporting"}, NEW kind \in {"evaluateCollaboration", "notifyOwner"}, NEW id,
             \/ id = <<"collaboration-evaluate", s.seq>> /\ s.phase = "scheduled"
             \/ id = <<"collaboration-daily-brief", s.seq>> /\ event.type # "timer",
             NEW key, d = Waiting([s EXCEPT !.phase = phase], None, {Effect(kind, id, key, None)})
      PROVE  DailyTurn("brief", s, wake, event, d)
  <2> DEFINE u == [s EXCEPT !.phase = phase]
             e == Effect(kind, id, key, None)
  <2>1. DailyState("brief", u) /\ u.phase = phase /\ u.seq = s.seq /\ s.seq \in Nat
    BY DEF DailyState
  <2>2. d = Waiting(u, None, {e}) /\ e.kind = kind /\ e.id = id
    BY <1>3 DEF Effect
  <2> HIDE DEF u, e, d
  <2>3. d.state = u /\ d.effects = {e} /\ Decided(d) /\ d # Refused
    BY <2>2 DEF Waiting, Decision, Decided, Statuses, Refused
  <2>4. e.kind \in DailyKinds("brief")
    BY <2>2 DEF DailyKinds
  <2>5. \A n : DailyId("brief", e.id, u, Kept(d.wake, wake), n)
    BY <1>3, <2>1, <2>2 DEF DailyId
  <2>6. \A n : event.type = "timer" => ~DailyId("brief", e.id, s, wake, n)
    BY <1>3, <2>1, <2>2 DEF DailyId
  <2>7. \A i, n : DailyId("brief", i, s, wake, n) => DailyId("brief", i, u, Kept(d.wake, wake), n)
    BY <2>1 DEF DailyId
  <2>8. DailyTurn("brief", s, wake, event, d)
    BY <2>1, <2>3, <2>4, <2>5, <2>6, <2>7 DEF DailyTurn
  <2> QED BY <2>8 DEF d
<1>4. CASE event.type = "timer" /\ s.phase = "scheduled"
  <2>1. d = Waiting([s EXCEPT !.phase = "evaluating"], None,
                    {Effect("evaluateCollaboration", <<"collaboration-evaluate", s.seq>>, <<"evaluate">>, None)})
    BY <1>4 DEF Schedule
  <2> QED BY <1>3, <1>4, <2>1
<1>5. CASE Delivered(event, "evaluateCollaboration") /\ s.phase = "evaluating" /\ event.data
  <2>1. d = Waiting([s EXCEPT !.phase = "reporting"], None,
                    {Effect("notifyOwner", <<"collaboration-daily-brief", s.seq>>, <<"brief">>, None)})
    BY <1>5 DEF Schedule, Delivered, Failed, IsVerdict
  <2> QED BY <1>3, <1>5, <2>1 DEF Delivered
<1>6. CASE ~(event.type = "timer" /\ s.phase = "scheduled") /\ ~(Delivered(event, "evaluateCollaboration") /\ s.phase = "evaluating" /\ event.data)
  <2>1. d = Unchanged(s) \/ (d = NextEvaluation(s, event.at) /\ s.phase # "scheduled" /\ event.type # "timer")
    BY <1>6 DEF Schedule, Delivered, Failed, IsVerdict
  <2> QED BY <1>1, <1>2, <2>1
<1> QED BY <1>4, <1>5, <1>6

LEMMA CleanupTurn ==
  ASSUME NEW s, DailyState("cleanup", s), NEW wake, NEW event, event.at \in Nat, FeatureAssumption
  PROVE  DailyTurn("cleanup", s, wake, event, Cleanup(s, event))
<1> DEFINE d == Cleanup(s, event)
<1>1. ASSUME NEW u, DailyState("cleanup", u), NEW w \in Int \cup {None, Keep}, NEW S, d = Waiting(u, w, S),
             \A e \in S : e.kind \in DailyKinds("cleanup")
      PROVE  DailyTurn("cleanup", s, wake, event, d)
  <2> HIDE DEF d
  <2>1. d.state = u /\ d.effects = S /\ Decided(d) /\ d # Refused
    BY <1>1 DEF Waiting, Decision, Decided, Statuses, Refused
  <2>2. DailyTurn("cleanup", s, wake, event, d)
    BY <1>1, <2>1 DEF DailyTurn, DailyId
  <2> QED BY <2>2 DEF d
<1>2. \A id : OwnerNotice(id).kind \in DailyKinds("cleanup")
  BY DEF OwnerNotice, Effect, DailyKinds
<1>3. \A name, failure, tell : \A e \in Notices(name, failure, tell) : e.kind \in DailyKinds("cleanup")
  BY <1>2 DEF Notices
<1>4. event.at + CleanupPoll \in Int
  BY FeatureAssumption DEF FeatureAssumption
<1>5. CASE event.type = "timer" /\ s.phase = "scheduled"
  <2>1. d = CleanupTimer(s, event.at)
    BY <1>5 DEF Cleanup, Delivered, Failed, IsVerdict
  <2>2. CASE ~CleanupDue(event.at) \/ s.last = LocalDay(event.at)
    BY <1>1, <1>4, <2>1, <2>2 DEF CleanupTimer
  <2>3. CASE ~(~CleanupDue(event.at) \/ s.last = LocalDay(event.at))
    <3> DEFINE u == [s EXCEPT !.phase = "cleaning", !.day = LocalDay(event.at)]
               e == Effect("cleanupCompleted", <<"dida-completed-cleanup", LocalDay(event.at)>>, <<"cleanup">>, None)
    <3>1. d = Waiting(u, None, {e})
      BY <2>1, <2>3 DEF CleanupTimer
    <3>2. DailyState("cleanup", u) /\ e.kind \in DailyKinds("cleanup")
      BY DEF DailyState, Effect, DailyKinds
    <3> HIDE DEF u, e, d
    <3>3. DailyTurn("cleanup", s, wake, event, Cleanup(s, event))
      BY <1>1, <3>1, <3>2 DEF d
    <3> QED BY <3>3
  <2> QED BY <2>2, <2>3
<1>6. CASE Delivered(event, "cleanupCompleted")
  <2> DEFINE u == [s EXCEPT !.phase = "scheduled", !.day = None, !.failure = None,
                            !.last = IF s.day = None THEN @ ELSE s.day]
             S == CASE event.data -> {OwnerNotice(<<"dida-cleanup-result", IF s.day = None THEN event.at ELSE s.day>>)}
                    [] ~event.data /\ s.failure # None -> Notices("dida-cleanup-recovered", s.failure, s.failure.told)
                    [] OTHER -> {}
  <2>1. d = CleanupDone(s, event.data, event.at)
    BY <1>6 DEF Cleanup, Delivered, Failed, IsVerdict
  <2>2. d = Waiting(u, event.at + CleanupPoll, S)
    BY <2>1 DEF CleanupDone
  <2>3. DailyState("cleanup", u) /\ \A e \in S : e.kind \in DailyKinds("cleanup")
    BY <1>2, <1>3 DEF DailyState
  <2> HIDE DEF u, S
  <2> QED BY <1>1, <1>4, <2>2, <2>3
<1>7. CASE Failed(event, "cleanupCompleted")
  <2> DEFINE failure == Failing(s.failure, event.at)
             tell == ToldNow(failure, CleanupNotifyAfter)
             u == [s EXCEPT !.phase = "scheduled", !.day = None, !.failure = [failure EXCEPT !.told = @ \/ tell]]
  <2>1. d = CleanupFailed(s, event.at)
    BY <1>7 DEF Cleanup, Delivered, Failed, IsVerdict
  <2>2. d = Waiting(u, event.at + CleanupPoll, Notices("dida-cleanup-failed", failure, tell))
    BY <2>1 DEF CleanupFailed
  <2>3. DailyState("cleanup", u)
    BY DEF DailyState
  <2> HIDE DEF failure, tell, u
  <2> QED BY <1>1, <1>3, <1>4, <2>2, <2>3
<1>8. CASE ~(event.type = "timer" /\ s.phase = "scheduled") /\ ~Delivered(event, "cleanupCompleted") /\ ~Failed(event, "cleanupCompleted")
  <2>1. \E w \in {Keep, event.at + CleanupPoll} : d = Waiting(s, w, {})
    BY <1>8 DEF Cleanup, Unchanged
  <2> QED BY <1>1, <1>4, <2>1
<1> QED BY <1>5, <1>6, <1>7, <1>8

LEMMA OverdueTurn ==
  ASSUME NEW s, DailyState("overdue", s), NEW wake \in Int \cup {None}, NEW event, event.at \in Nat, FeatureAssumption,
         event.type = "timer" => event.data = wake /\ wake \in Int /\ wake <= event.at
  PROVE  DailyTurn("overdue", s, wake, event, Overdue(s, event))
<1> DEFINE d == Overdue(s, event)
<1>0. None \notin Int /\ Keep \notin Int \cup {None} /\ OverdueInterval \in Nat \ {0} /\ OverdueRetry \in Nat \ {0}
  BY FeatureAssumption DEF FeatureAssumption
\* Whatever sets a wake-up sets one to come
<1>1. ASSUME NEW u, DailyState("overdue", u), NEW w \in Int, w > event.at, NEW S, d = Waiting(u, w, S),
             \A e \in S : e.kind = "notifyOwner" /\ e.id[1] # "dida-overdue-scan", event.type # "timer" \/ S = {}
      PROVE  DailyTurn("overdue", s, wake, event, d)
  <2> HIDE DEF d
  <2>1. d.state = u /\ d.effects = S /\ d.wake = w /\ Decided(d) /\ d # Refused /\ Kept(d.wake, wake) = w
    BY <1>0, <1>1 DEF Waiting, Decision, Decided, Statuses, Refused, Kept
  <2>2. \A id : DailyId("overdue", id, s, wake, event.at) => DailyId("overdue", id, u, w, event.at)
    BY <1>1 DEF DailyId
  <2>3. \A e \in S : DailyId("overdue", e.id, u, w, event.at)
    BY <1>1 DEF DailyId
  <2>4. \A e \in S : e.kind \in DailyKinds("overdue")
    BY <1>1 DEF DailyKinds
  <2>5. DailyTurn("overdue", s, wake, event, d)
    BY <1>1, <2>1, <2>2, <2>3, <2>4 DEF DailyTurn
  <2> QED BY <2>5 DEF d
<1>2. \A name, x : LET e == OwnerNotice(<<name, x>>) IN e.kind = "notifyOwner" /\ e.id[1] = name
  BY DEF OwnerNotice, Effect
<1>3. ASSUME NEW name, name # "dida-overdue-scan", NEW failure, NEW tell, NEW e \in Notices(name, failure, tell)
      PROVE  e.kind = "notifyOwner" /\ e.id[1] # "dida-overdue-scan"
  BY <1>2, <1>3 DEF Notices
<1>4. CASE d = Unchanged(s)
  BY <1>4, DailyStays DEF DailyFlows
<1>5. CASE event.type = "timer" /\ s.phase = "scheduled"
  <2> DEFINE u == [s EXCEPT !.phase = "scanning"]
             e == Effect("listOverdue", <<"dida-overdue-scan", event.data>>, <<"scan">>, None)
  <2>1. d = Waiting(u, None, {e})
    BY <1>5 DEF Overdue, IsVerdict, Delivered, Failed
  <2>2. DailyState("overdue", u) /\ u.phase = "scanning"
    BY DEF DailyState
  <2>3. e.kind = "listOverdue" /\ e.id = <<"dida-overdue-scan", event.data>>
    BY DEF Effect
  <2> HIDE DEF u, e, d
  <2>4. d.state = u /\ d.effects = {e} /\ d.wake = None /\ Decided(d) /\ d # Refused /\ Kept(d.wake, wake) = None
    BY <1>0, <2>1 DEF Waiting, Decision, Decided, Statuses, Refused, Kept
  <2>5. \A id : DailyId("overdue", id, s, wake, event.at) => DailyId("overdue", id, u, None, event.at)
    BY <2>2 DEF DailyId
  <2>6. DailyId("overdue", e.id, u, None, event.at) /\ ~DailyId("overdue", e.id, s, wake, event.at)
    BY <1>0, <1>5, <2>2, <2>3 DEF DailyId
  <2>7. e.kind \in DailyKinds("overdue")
    BY <2>3 DEF DailyKinds
  <2>8. DailyTurn("overdue", s, wake, event, d)
    BY <2>2, <2>4, <2>5, <2>6, <2>7 DEF DailyTurn
  <2> QED BY <2>8 DEF d
<1>6. CASE Delivered(event, "listOverdue")
  <2> DEFINE found == event.data
             due == {x \in DOMAIN found : Remind(s, x, found[x], event.at)}
             known == [x \in due \cup DOMAIN s.notified |->
                         IF x \in due THEN [print |-> found[x], at |-> event.at] ELSE s.notified[x]]
             kept == {x \in DOMAIN known : known[x].at >= event.at - RemindersKept}
             u == [s EXCEPT !.phase = "scheduled", !.failure = None, !.notified = [x \in kept |-> known[x]]]
             R == {OwnerNotice(<<"dida-overdue-notification", x, found[x]>>) : x \in due}
             N == IF s.failure # None THEN Notices("dida-overdue-recovered", s.failure, s.failure.told) ELSE {}
  <2>1. d = OverdueListed(s, event.data, event.at)
    BY <1>6 DEF Overdue, IsVerdict, Delivered, Failed
  <2>2. d = Waiting(u, event.at + OverdueInterval, R \cup N)
    BY <2>1 DEF OverdueListed
  <2>3. DailyState("overdue", u)
    BY DEF DailyState
  <2>4. \A e \in R : e.kind = "notifyOwner" /\ e.id[1] # "dida-overdue-scan"
    BY DEF OwnerNotice, Effect
  <2>5. \A e \in N : e.kind = "notifyOwner" /\ e.id[1] # "dida-overdue-scan"
    BY <1>3
  <2>6. \A e \in R \cup N : e.kind = "notifyOwner" /\ e.id[1] # "dida-overdue-scan"
    BY <2>4, <2>5
  <2>7. event.at + OverdueInterval \in Int /\ event.at + OverdueInterval > event.at /\ event.type # "timer"
    BY <1>0, <1>6 DEF Delivered
  <2>8. PICK w : w = event.at + OverdueInterval
    OBVIOUS
  <2>9. PICK S : S = R \cup N
    OBVIOUS
  <2> HIDE DEF u, R, N, due, known, kept, found, d
  <2>10. d = Waiting(u, w, S) /\ w \in Int /\ w > event.at /\ event.type # "timer"
         /\ \A e \in S : e.kind = "notifyOwner" /\ e.id[1] # "dida-overdue-scan"
    BY <2>2, <2>6, <2>7, <2>8, <2>9
  <2>11. DailyTurn("overdue", s, wake, event, d)
    BY <1>1, <2>3, <2>10, Zenon
  <2> QED BY <2>11 DEF d
<1>7. CASE Failed(event, "listOverdue")
  <2> DEFINE failure == Failing(s.failure, event.at)
             tell == ToldNow(failure, OverdueNotifyAfter)
             u == [s EXCEPT !.phase = "scheduled", !.failure = [failure EXCEPT !.told = @ \/ tell]]
             N == Notices("dida-overdue-failed", failure, tell)
  <2>1. d = OverdueFailed(s, event.at)
    BY <1>7 DEF Overdue, IsVerdict, Delivered, Failed
  <2>2. d = Waiting(u, event.at + OverdueRetry, N)
    BY <2>1 DEF OverdueFailed
  <2>3. DailyState("overdue", u)
    BY DEF DailyState
  <2>4. \A e \in N : e.kind = "notifyOwner" /\ e.id[1] # "dida-overdue-scan"
    BY <1>3
  <2> HIDE DEF u, N, failure, tell
  <2> QED BY <1>0, <1>1, <1>7, <2>2, <2>3, <2>4 DEF Failed
<1>8. CASE ~(event.type = "timer" /\ s.phase = "scheduled") /\ ~Delivered(event, "listOverdue") /\ ~Failed(event, "listOverdue")
  <2>1. \/ d = Unchanged(s)
        \/ d = Waiting(s, event.at + OverdueInterval, {})
    BY <1>8 DEF Overdue, Unchanged
  <2>2. CASE d = Waiting(s, event.at + OverdueInterval, {})
    BY <1>0, <1>1, <2>2
  <2> QED BY <1>4, <2>1, <2>2
<1> QED BY <1>5, <1>6, <1>7, <1>8

LEMMA ReviewTurn ==
  ASSUME NEW s, DailyState("review", s), NEW wake, NEW event, event.at \in Nat, FeatureAssumption
  PROVE  DailyTurn("review", s, wake, event, Review(s, event))
<1> DEFINE d == Review(s, event)
\* Only a timer lists the tasks again
<1>1. ASSUME NEW u, DailyState("review", u), u.seq = s.seq, NEW w \in Int \cup {None, Keep}, NEW S, d = Waiting(u, w, S),
             \A e \in S : e.kind \in DailyKinds("review") /\ e.id[1] # "followup-list-active", event.type # "timer" \/ S = {}
      PROVE  DailyTurn("review", s, wake, event, d)
  <2> HIDE DEF d
  <2>1. d.state = u /\ d.effects = S /\ Decided(d) /\ d # Refused
    BY <1>1 DEF Waiting, Decision, Decided, Statuses, Refused
  <2>2. \A id, v, n : DailyId("review", id, s, wake, n) => DailyId("review", id, u, v, n)
    BY <1>1 DEF DailyId
  <2>3. \A e \in S : \A v, n : DailyId("review", e.id, u, v, n)
    BY <1>1 DEF DailyId
  <2>5. DailyTurn("review", s, wake, event, d)
    BY <1>1, <2>1, <2>2, <2>3 DEF DailyTurn
  <2> QED BY <2>5 DEF d
<1>2. event.at + ReviewPoll \in Int
  BY FeatureAssumption DEF FeatureAssumption
<1>3. ASSUME NEW r, DailyState("review", r), r.seq = s.seq, d = ReviewDone(r, event.at)
      PROVE  DailyTurn("review", s, wake, event, d)
  <2> DEFINE u == [r EXCEPT !.phase = "scheduled", !.last = DayOf(event.at), !.pending = {}, !.plan = None]
  <2>1. d = Waiting(u, event.at + ReviewPoll, {})
    BY <1>3 DEF ReviewDone
  <2>2. DailyState("review", u) /\ u.seq = s.seq
    BY <1>3 DEF DailyState
  <2> HIDE DEF u
  <2> QED BY <1>1, <1>2, <2>1, <2>2
<1>4. ASSUME NEW r, DailyState("review", r), r.seq = s.seq, NEW plan, d = ReviewDistribute(r, plan, event.at), event.type # "timer"
      PROVE  DailyTurn("review", s, wake, event, d)
  <2> DEFINE S == Digests(plan, event.at)
             u == [r EXCEPT !.phase = "distributing", !.plan = plan, !.pending = {e.id : e \in S}]
  <2>1. \A e \in S : e.kind \in DailyKinds("review") /\ e.id[1] # "followup-list-active"
    <3>1. ASSUME NEW e \in {OwnerNotice(<<"followup-updates", DayOf(event.at)>>) : x \in plan.updates}
          PROVE  e.kind \in DailyKinds("review") /\ e.id[1] # "followup-list-active"
      BY DEF OwnerNotice, Effect, DailyKinds
    <3>2. ASSUME NEW e, e = OwnerNotice(<<"followup-reminders", DayOf(event.at)>>)
          PROVE  e.kind \in DailyKinds("review") /\ e.id[1] # "followup-list-active"
      BY <3>2 DEF OwnerNotice, Effect, DailyKinds
    <3>3. ASSUME NEW e \in {Effect("openOutreach", <<"followup-open-outreach", x>>, <<"open", x>>, x) : x \in plan.open}
          PROVE  e.kind \in DailyKinds("review") /\ e.id[1] # "followup-list-active"
      BY DEF Effect, DailyKinds
    <3> QED BY <3>1, <3>2, <3>3 DEF Digests
  <2>2. DailyState("review", u) /\ u.seq = s.seq
    BY <1>4 DEF DailyState
  <2>3. d = ReviewDone(r, event.at) \/ d = Waiting(u, None, S)
    BY <1>4 DEF ReviewDistribute
  <2> HIDE DEF u, S
  <2>4. CASE d = Waiting(u, None, S)
    BY <1>1, <1>4, <2>1, <2>2, <2>4
  <2> QED BY <1>3, <1>4, <2>3, <2>4
<1>5. CASE event.type = "timer" /\ s.phase = "scheduled"
  <2>1. d = ReviewTimer(s, event.at)
    BY <1>5 DEF Review, IsVerdict
  <2>2. CASE ~WorkHours(event.at) \/ s.last = DayOf(event.at)
    <3>1. d = Waiting(s, event.at + ReviewPoll, {})
      BY <2>1, <2>2 DEF ReviewTimer
    <3> QED BY <1>1, <1>2, <3>1
  <2>3. CASE ~(~WorkHours(event.at) \/ s.last = DayOf(event.at))
    <3> DEFINE u == [s EXCEPT !.phase = "loading", !.seq = @ + 1]
               e == Effect("listActive", <<"followup-list-active", DayOf(event.at), u.seq>>, <<"list">>, None)
    <3>1. d = Waiting(u, None, {e})
      BY <2>1, <2>3 DEF ReviewTimer
    <3>2. DailyState("review", u) /\ u.seq = s.seq + 1 /\ s.seq \in Nat
      BY DEF DailyState
    <3>3. e.kind = "listActive" /\ e.id = <<"followup-list-active", DayOf(event.at), u.seq>>
      BY DEF Effect
    <3> HIDE DEF u, e, d
    <3>4. d.state = u /\ d.effects = {e} /\ Decided(d) /\ d # Refused
      BY <3>1 DEF Waiting, Decision, Decided, Statuses, Refused
    <3>5. \A id, v, n : DailyId("review", id, s, wake, n) => DailyId("review", id, u, v, n)
      BY <3>2 DEF DailyId
    <3>6. \A v, n : DailyId("review", e.id, u, v, n) /\ ~DailyId("review", e.id, s, wake, n)
      BY <3>2, <3>3 DEF DailyId
    <3>7. e.kind \in DailyKinds("review")
      BY <3>3 DEF DailyKinds
    <3>8. DailyTurn("review", s, wake, event, d)
      BY <3>2, <3>4, <3>5, <3>6, <3>7 DEF DailyTurn
    <3> QED BY <3>8 DEF d
  <2> QED BY <2>2, <2>3
<1>6. CASE d = Unchanged(s)
  BY <1>6, DailyStays DEF DailyFlows
<1>7. CASE IsVerdict(event)
  <2>0. d = ReviewVerdict(s, event) /\ event.type # "timer"
    BY <1>7 DEF Review, IsVerdict
  <2> DEFINE r == Fewer(s, event)
  <2>1. DailyState("review", r) /\ r.seq = s.seq
    BY DEF DailyState, Fewer
  <2>2. CASE Delivered(event, "listActive") /\ s.phase = "loading"
    <3> DEFINE u == [s EXCEPT !.phase = "evaluating"]
               e == Effect("evaluateFollowups", <<"followup-evaluate", DayOf(event.at), s.seq>>, <<"evaluate">>, None)
    <3>1. d = Waiting(u, None, {e})
      BY <2>0, <2>2 DEF ReviewVerdict, Delivered, Failed
    <3>2. DailyState("review", u) /\ u.seq = s.seq
      BY DEF DailyState
    <3>3. e.kind \in DailyKinds("review") /\ e.id[1] # "followup-list-active"
      BY DEF Effect, DailyKinds
    <3> HIDE DEF u, e
    <3> QED BY <1>1, <2>0, <3>1, <3>2, <3>3
  <2>3. CASE Delivered(event, "evaluateFollowups") /\ s.phase = "evaluating"
    <3> DEFINE plan == event.data
               S == Updates(plan, event.at)
               u == [s EXCEPT !.phase = "applying", !.plan = plan, !.pending = {e.id : e \in S}]
    <3>1. d = ReviewEvaluated(s, plan, event.at)
      BY <2>0, <2>3 DEF ReviewVerdict, Delivered, Failed
    <3>2. DailyState("review", u) /\ u.seq = s.seq
      BY DEF DailyState
    <3>3. \A e \in S : e.kind \in DailyKinds("review") /\ e.id[1] # "followup-list-active"
      BY DEF Updates, Effect, DailyKinds
    <3>4. d = ReviewDistribute(s, plan, event.at) \/ d = Waiting(u, None, S)
      BY <3>1 DEF ReviewEvaluated
    <3> HIDE DEF u, S
    <3>5. CASE d = Waiting(u, None, S)
      BY <1>1, <2>0, <3>2, <3>3, <3>5
    <3>6. CASE d = ReviewDistribute(s, plan, event.at)
      BY <1>4, <2>0, <3>6
    <3> QED BY <3>4, <3>5, <3>6
  <2>4. ASSUME d = Unchanged(Fewer(s, event)) PROVE DailyTurn("review", s, wake, event, d)
    <3>1. d = Waiting(r, Keep, {})
      BY <2>4 DEF Unchanged
    <3>2. PICK w : w = Keep
      OBVIOUS
    <3>3. PICK S : S = {}
      OBVIOUS
    <3> HIDE DEF r, d
    <3>4. d = Waiting(r, w, S) /\ w \in Int \cup {None, Keep} /\ S = {}
          /\ \A e \in S : e.kind \in DailyKinds("review") /\ e.id[1] # "followup-list-active"
      BY <3>1, <3>2, <3>3
    <3> QED BY <1>1, <2>1, <3>4, Zenon
  <2>5. CASE Delivered(event, "applyFollowupUpdate") /\ s.phase = "applying"
    <3>1. d = Unchanged(s) \/ d = ReviewDistribute(r, s.plan, event.at) \/ d = Unchanged(r)
      BY <2>0, <2>5 DEF ReviewVerdict, Delivered, Failed
    <3> HIDE DEF r
    <3>2. CASE d = ReviewDistribute(r, s.plan, event.at)
      BY <1>4, <2>0, <2>1, <3>2
    <3> QED BY <1>6, <2>4, <3>1, <3>2 DEF r
  <2>6. CASE s.phase = "distributing"
    <3>1. d = Unchanged(s) \/ d = ReviewDone(s, event.at) \/ d = Unchanged(r)
      BY <2>0, <2>6 DEF ReviewVerdict, Delivered, Failed
    <3> QED BY <1>3, <1>6, <2>4, <3>1 DEF r
  <2>7. CASE event.type = "failed" /\ s.phase \in {"loading", "evaluating", "applying"}
    <3> DEFINE u == [s EXCEPT !.phase = "scheduled", !.pending = {}]
    <3>1. d = Waiting(u, event.at + ReviewPoll, {})
      BY <2>0, <2>7 DEF ReviewVerdict, Delivered, Failed
    <3>2. DailyState("review", u) /\ u.seq = s.seq
      BY DEF DailyState
    <3> HIDE DEF u
    <3> QED BY <1>1, <1>2, <3>1, <3>2
  <2>8. CASE /\ ~(Delivered(event, "listActive") /\ s.phase = "loading")
             /\ ~(Delivered(event, "evaluateFollowups") /\ s.phase = "evaluating")
             /\ ~(Delivered(event, "applyFollowupUpdate") /\ s.phase = "applying") /\ s.phase # "distributing"
             /\ ~(event.type = "failed" /\ s.phase \in {"loading", "evaluating", "applying"})
    <3>1. d = Unchanged(s)
      BY <2>0, <2>8 DEF ReviewVerdict
    <3> QED BY <1>6, <3>1
  <2> QED BY <2>2, <2>3, <2>5, <2>6, <2>7, <2>8
<1>8. CASE ~IsVerdict(event) /\ ~(event.type = "timer" /\ s.phase = "scheduled")
  <2>1. d = Unchanged(s)
    BY <1>8 DEF Review
  <2> QED BY <1>6, <2>1
<1> QED BY <1>5, <1>7, <1>8

LEMMA DailyTakesTurn ==
  ASSUME Tables, NEW f \in DailyFlows, f \in Flows, DailyInv(f), FeatureAssumption, NEW event, NEW touched, Turn(f, event, touched)
  PROVE  DailyTurn(f, flow[f].state, flow[f].wake, event, Reduce(f, flow[f].state, event))
<1>1. /\ flow[f].status # "absent" /\ DailyState(f, flow[f].state) /\ event.at = now /\ now \in Nat /\ flow[f].wake \in Int \cup {None}
  BY DEF Turn, DailyInv, Tables, Instance
<1>2. event.type = "timer" => event.data = flow[f].wake /\ flow[f].wake \in Int /\ flow[f].wake <= event.at
  BY <1>1 DEF Turn, Due
<1>3. CASE f = "review"
  BY <1>1, <1>3, ReviewTurn DEF Reduce
<1>4. CASE f = "overdue"
  <2>1. DailyTurn("overdue", flow[f].state, flow[f].wake, event, Overdue(flow[f].state, event))
    BY <1>1, <1>2, <1>4, OverdueTurn
  <2> QED BY <1>4, <2>1 DEF Reduce
<1>5. CASE f = "cleanup"
  BY <1>1, <1>5, CleanupTurn DEF Reduce
<1>6. CASE f = "brief"
  BY <1>1, <1>6, BriefTurn DEF Reduce
<1> QED BY <1>3, <1>4, <1>5, <1>6 DEF DailyFlows

LEMMA DailyStep ==
  ASSUME Tables, NEW f \in DailyFlows, f \in Flows, FeatureAssumption, DailyInv(f), Onward, FlowStep(f)
  PROVE  DailyInv(f)' /\ Lives(f)
<1>0. now \in Nat /\ now' \in Nat /\ now <= now'
  BY DEF Tables, Onward
<1>1. ASSUME NEW id, NEW s, NEW wake, DailyId(f, id, s, wake, now) PROVE DailyId(f, id, s, wake, now')
  BY <1>0, <1>1 DEF DailyId
<1>2. CASE Quiet(f)
  <2>1. /\ flow'[f] = flow[f] /\ RowsOf(f)' = RowsOf(f) /\ Lives(f)
        /\ \A id \in RowsOf(f) : outbox'[id].effect = outbox[id].effect
    BY <1>2, AfterQuiet DEF SameEffect
  <2>2. DailyInv(f)'
    BY <1>1, <2>1 DEF DailyInv
  <2> QED BY <2>1, <2>2
<1>3. ASSUME NEW event, NEW touched, Turn(f, event, touched), event.type \in {"timer", "delivered", "failed"} \cup AnswerTypes
      PROVE  DailyInv(f)' /\ Lives(f)
  <2> DEFINE d == Reduce(f, flow[f].state, event)
  <2>1. DailyTurn(f, flow[f].state, flow[f].wake, event, d)
    BY <1>3, DailyTakesTurn
  <2>2. /\ Decided(d) /\ DailyState(f, d.state)
        /\ \A e \in d.effects : e.kind \in DailyKinds(f) /\ DailyId(f, e.id, d.state, Kept(d.wake, flow[f].wake), event.at)
        /\ \A id : DailyId(f, id, flow[f].state, flow[f].wake, event.at) => DailyId(f, id, d.state, Kept(d.wake, flow[f].wake), event.at)
    BY <2>1 DEF DailyTurn
  <2>3. /\ Lives(f) /\ flow'[f].state = d.state /\ flow'[f].wake = Kept(d.wake, flow[f].wake)
        /\ \A id \in RowsOf(f)' : \/ id \in RowsOf(f) /\ outbox'[id].effect = outbox[id].effect
                                  \/ outbox'[id].effect \in d.effects
    BY <1>3, <2>2, AfterTurn DEF SameEffect
  <2>4. event.at = now /\ flow[f].status # "absent"
    BY <1>3 DEF Turn
  <2> HIDE DEF d
  <2>5. ASSUME NEW id \in RowsOf(f)'
        PROVE  outbox'[id].effect.kind \in DailyKinds(f) /\ DailyId(f, outbox'[id].effect.id, d.state, flow'[f].wake, now')
    <3>1. outbox'[id].effect.kind \in DailyKinds(f) /\ DailyId(f, outbox'[id].effect.id, d.state, flow'[f].wake, now)
      BY <2>2, <2>3, <2>4 DEF DailyInv
    <3> QED BY <1>1, <3>1
  <2> QED BY <2>2, <2>3, <2>5 DEF DailyInv
<1> QED BY <1>2, <1>3, TurnOrQuiet

-----------------------------------------------------------------------------
(* message-intake.v1 *)

IntakeFlows == {"intake-message", "intake-command", "intake-card"}
IntakeKinds == {"loadMessageContext", "applyInteraction", "dispatchConversation", "evaluateFocus", "notifyOwner",
                "upsertIntake", "requestInteraction"}

IntakeState(s) ==
  /\ DOMAIN s = {"phase", "route", "pending", "approval", "decided"}
  /\ s.phase \in {"loading-context", "evaluating", "projecting", "reporting", "awaiting-approval", "completed", "failed"}
  /\ s.phase \in {"loading-context", "evaluating", "reporting"} => \E x : s.pending = {x}
  /\ s.route = "owner-command" => s.phase # "evaluating" /\ (s.phase = "projecting" => \E x : s.pending = {x})
  /\ s.phase \in {"awaiting-approval", "completed"} => s.pending = {}

\* What the workflow has not been told of yet is pending, for as long as nothing has failed
IntakeInv(f) ==
  flow[f].status # "absent" =>
    LET s == flow[f].state IN
    /\ IntakeState(s) /\ flow[f].wake = None
    /\ \A id \in RowsOf(f) :
         /\ outbox[id].effect.kind \in IntakeKinds
         /\ outbox[id].status = "told" => spent.faults > 0
         /\ s.phase # "failed" => /\ outbox[id].status # "failed"
                                  /\ outbox[id].status \in {"pending", "executed"} => outbox[id].effect.id \in s.pending

IntakeTurn(s, event, d) ==
  LET t == d.state IN
  /\ Decided(d) /\ d.wake \in {None, Keep} /\ IntakeState(t)
  /\ \A e \in d.effects : e.kind \in IntakeKinds /\ (t.phase # "failed" => e.id \in t.pending)
  /\ event.type = "failed" \/ s.phase = "failed" => t.phase = "failed"
  /\ s.phase = "completed" /\ event.type # "failed" => t.phase = "completed"
  /\ t.phase # "failed" =>
       IF event.type = "delivered" THEN s.pending \ {event.effect.id} \subseteq t.pending ELSE s.pending \subseteq t.pending

LEMMA IntakeStays ==
  ASSUME NEW s, IntakeState(s), NEW event, event.type # "failed", NEW d, d = Decision(IntakeStatus(s), s, Keep, {})
  PROVE  IntakeTurn(s, event, d)
BY DEF IntakeTurn, Decision, Decided, IntakeStatus, Statuses

LEMMA IntakeSettles ==
  ASSUME NEW s, IntakeState(s), NEW event, event.type = "delivered", s.phase \in {"projecting", "reporting"},
         event.effect.id \in s.pending
  PROVE  IntakeTurn(s, event, SettleProjection(s, event))
<1> DEFINE rest == s.pending \ {event.effect.id}
           phase == CASE rest # {} -> "projecting" [] rest = {} /\ s.approval -> "awaiting-approval" [] OTHER -> "completed"
           u == [s EXCEPT !.pending = rest, !.phase = phase]
           w == IF rest = {} THEN None ELSE Keep
           d == SettleProjection(s, event)
<1>1. d = Decision(IntakeStatus(u), u, w, {})
  BY DEF SettleProjection
<1>2. /\ phase \in {"projecting", "awaiting-approval", "completed"} /\ (phase # "projecting" => rest = {})
      /\ (phase = "projecting" => rest # {})
  OBVIOUS
<1>3. s.phase = "reporting" \/ s.route = "owner-command" => rest = {}
  BY DEF IntakeState
<1> HIDE DEF rest, phase
<1>4. DOMAIN u = DOMAIN s /\ u.phase = phase /\ u.pending = rest /\ u.route = s.route
  BY DEF IntakeState
<1>5. IntakeState(u)
  BY <1>2, <1>3, <1>4 DEF IntakeState
<1> HIDE DEF u
<1>6. /\ d.state = u /\ d.effects = {} /\ Decided(d) /\ d.wake \in {None, Keep}
  BY <1>1 DEF Decision, Decided, IntakeStatus, Statuses
<1> HIDE DEF d
<1>7. IntakeTurn(s, event, d)
  BY <1>2, <1>4, <1>5, <1>6 DEF IntakeTurn, rest
<1> QED BY <1>7 DEF d

LEMMA IntakeJudged ==
  ASSUME NEW s, IntakeState(s), NEW event, event.type = "delivered", event.effect.id \in s.pending \/ s.phase = "failed"
  PROVE  IntakeTurn(s, event, MessageIntake(s, event))
<1> DEFINE d == MessageIntake(s, event)
<1>0. d = IntakeVerdict(s, event)
  BY DEF MessageIntake, IsVerdict
\* A phase that waits for one effect is followed by one that waits for others
<1>1. ASSUME NEW u, IntakeState(u), u.phase # "failed", NEW S, \A e \in S : e.kind \in IntakeKinds /\ e.id \in u.pending,
             NEW w \in {None, Keep}, NEW status \in {"waiting", "completed"}, d = Decision(status, u, w, S),
             \E x : s.pending = {x}, s.phase \notin {"failed", "completed"}
      PROVE  IntakeTurn(s, event, d)
  <2> HIDE DEF d
  <2>1. d.state = u /\ d.effects = S /\ Decided(d) /\ d.wake \in {None, Keep}
    BY <1>1 DEF Decision, Decided, Statuses
  <2>2. s.pending \ {event.effect.id} = {}
    BY <1>1
  <2> QED BY <1>1, <2>1, <2>2 DEF IntakeTurn
<1>2. \A kind \in IntakeKinds : \A suffix, about :
        LET e == IntakeEffect(kind, suffix, about) IN e.kind \in IntakeKinds /\ e.id = <<"intake", suffix>>
  BY DEF IntakeEffect, Effect
<1>3. CASE Delivered(event, "loadMessageContext") /\ s.phase = "loading-context"
  <2>1. PICK e : e = IF s.route = "owner-command" THEN IntakeEffect("dispatchConversation", "delegate", None)
                     ELSE IntakeEffect("evaluateFocus", "evaluate", None)
    OBVIOUS
  <2> DEFINE u == [s EXCEPT !.phase = IF s.route = "owner-command" THEN "projecting" ELSE "evaluating", !.pending = {e.id}]
             S == {e}
  <2>2. d = Decision("waiting", u, Keep, S)
    BY <1>0, <1>3, <2>1 DEF IntakeVerdict, AfterContext, Delivered, Waiting
  <2>3. IntakeState(u) /\ u.phase # "failed" /\ u.pending = {e.id}
    BY DEF IntakeState
  <2>4. \A x \in S : x.kind \in IntakeKinds /\ x.id \in {e.id}
    BY <1>2, <2>1 DEF IntakeKinds
  <2>5. \E x : s.pending = {x}
    BY <1>3 DEF IntakeState
  <2> HIDE DEF u, S, d
  <2>6. IntakeTurn(s, event, d)
    BY <1>1, <1>3, <2>2, <2>3, <2>4, <2>5
  <2> QED BY <2>6 DEF d
<1>4. CASE Delivered(event, "evaluateFocus") /\ s.phase = "evaluating"
  <2> DEFINE S == IF event.data.outcome = "ignored" THEN {} ELSE Projections(event.data)
             u == [s EXCEPT !.phase = "completed", !.pending = {}]
             v == [s EXCEPT !.phase = "projecting", !.pending = {e.id : e \in S}, !.approval = event.data.approval]
  <2>1. d = AfterEvaluation(s, event.data)
    BY <1>0, <1>4 DEF IntakeVerdict, Delivered
  <2>2. \/ S = {} /\ d = Decision("completed", u, None, S)
        \/ d = Decision("waiting", v, Keep, S)
    BY <2>1 DEF AfterEvaluation, Waiting
  <2>3. IntakeState(u) /\ u.phase = "completed"
    BY DEF IntakeState
  <2>4. IntakeState(v) /\ v.phase = "projecting" /\ v.pending = {e.id : e \in S}
    BY <1>4 DEF IntakeState
  <2>5. \A e \in S : e.kind \in IntakeKinds
    BY <1>2 DEF Projections, IntakeKinds
  <2>6. \A e \in S : e.id \in {x.id : x \in S}
    OBVIOUS
  <2>7. \E x : s.pending = {x}
    BY <1>4 DEF IntakeState
  <2> HIDE DEF u, v, S, d
  <2>8. ASSUME S = {} /\ d = Decision("completed", u, None, S) PROVE IntakeTurn(s, event, d)
    BY <1>1, <1>4, <2>3, <2>7, <2>8
  <2>9. ASSUME d = Decision("waiting", v, Keep, S) PROVE IntakeTurn(s, event, d)
    BY <1>1, <1>4, <2>4, <2>5, <2>6, <2>7, <2>9
  <2>10. IntakeTurn(s, event, d)
    BY <2>2, <2>8, <2>9
  <2> QED BY <2>10 DEF d
<1>5. CASE Delivered(event, "dispatchConversation") /\ s.phase = "projecting" /\ s.route = "owner-command"
  <2>1. PICK e : e = IntakeEffect("notifyOwner", "delegation-result", None)
    OBVIOUS
  <2> DEFINE u == [s EXCEPT !.phase = "reporting", !.pending = {e.id}]
             S == {e}
  <2>2. d = Decision("waiting", u, Keep, S)
    BY <1>0, <1>5, <2>1 DEF IntakeVerdict, AfterDelegation, Delivered, Waiting
  <2>3. IntakeState(u) /\ u.phase # "failed" /\ u.pending = {e.id}
    BY DEF IntakeState
  <2>4. \A x \in S : x.kind \in IntakeKinds /\ x.id \in {e.id}
    BY <1>2, <2>1 DEF IntakeKinds
  <2>5. \E x : s.pending = {x}
    BY <1>5 DEF IntakeState
  <2> HIDE DEF u, S, d
  <2>6. IntakeTurn(s, event, d)
    BY <1>1, <1>5, <2>2, <2>3, <2>4, <2>5
  <2> QED BY <2>6 DEF d
<1>6. CASE s.phase \in {"projecting", "reporting"} /\ ~(Delivered(event, "dispatchConversation") /\ s.phase = "projecting" /\ s.route = "owner-command")
  <2>1. d = SettleProjection(s, event)
    BY <1>0, <1>6 DEF IntakeVerdict, Delivered
  <2> QED BY <1>6, <2>1, IntakeSettles
<1>7. CASE /\ s.phase \notin {"projecting", "reporting"} /\ ~(Delivered(event, "loadMessageContext") /\ s.phase = "loading-context")
           /\ ~(Delivered(event, "evaluateFocus") /\ s.phase = "evaluating")
  <2>1. d = Decision(IntakeStatus(s), s, Keep, {})
    BY <1>0, <1>7 DEF IntakeVerdict
  <2> QED BY <2>1, IntakeStays
<1> QED BY <1>3, <1>4, <1>5, <1>6, <1>7

LEMMA IntakeDecides ==
  ASSUME NEW s, IntakeState(s), NEW event, event.type \in {"timer", "delivered", "failed"} \cup AnswerTypes,
         MessageIntake(s, event) # Refused,
         event.type = "delivered" => event.effect.id \in s.pending \/ s.phase = "failed"
  PROVE  IntakeTurn(s, event, MessageIntake(s, event))
<1> DEFINE d == MessageIntake(s, event)
<1>1. CASE event.type = "failed"
  <2> DEFINE u == [s EXCEPT !.phase = "failed"]
  <2>1. d = Decision("failed", u, None, {})
    BY <1>1 DEF MessageIntake, IntakeVerdict, IsVerdict, Delivered
  <2>2. IntakeState(u) /\ u.phase = "failed"
    BY DEF IntakeState
  <2> HIDE DEF u
  <2> QED BY <1>1, <2>1, <2>2 DEF IntakeTurn, Decision, Decided, Statuses
<1>2. CASE event.type = "delivered"
  BY <1>2, IntakeJudged
<1>3. CASE event.type \in {"timer"} \cup AnswerTypes
  <2>0. d = IntakeAnswered(s, event) /\ event.type # "failed" /\ event.type # "delivered"
    BY <1>3 DEF MessageIntake, IsVerdict, AnswerTypes
  <2>1. CASE s.phase = "awaiting-approval" /\ event.type \in {"approved", "declined"}
    <3> DEFINE u == [s EXCEPT !.phase = "completed", !.decided = event.type]
    <3>1. d = Decision("completed", u, None, {})
      BY <2>0, <2>1 DEF IntakeAnswered
    <3>2. IntakeState(u) /\ u.phase = "completed" /\ s.pending = {}
      BY <2>1 DEF IntakeState
    <3> HIDE DEF u
    <3> QED BY <2>0, <2>1, <3>1, <3>2 DEF IntakeTurn, Decision, Decided, Statuses
  <2>2. CASE ~(s.phase = "awaiting-approval" /\ event.type \in {"approved", "declined"})
    <3>1. d = Decision(IntakeStatus(s), s, Keep, {})
      BY <2>0, <2>2 DEF IntakeAnswered
    <3> QED BY <2>0, <3>1, IntakeStays
  <2> QED BY <2>1, <2>2
<1> QED BY <1>1, <1>2, <1>3

LEMMA IntakeTakesTurn ==
  ASSUME Tables, NEW f \in IntakeFlows, f \in Flows, IntakeInv(f), NEW event, NEW touched, Turn(f, event, touched),
         event.type \in {"timer", "delivered", "failed"} \cup AnswerTypes
  PROVE  /\ IntakeTurn(flow[f].state, event, Reduce(f, flow[f].state, event)) /\ flow[f].status # "absent"
         /\ event.type = "delivered" => event.effect.id \in flow[f].state.pending \/ flow[f].state.phase = "failed"
<1> DEFINE s == flow[f].state
<1>1. flow[f].status # "absent" /\ Reduce(f, s, event) = MessageIntake(s, event) /\ MessageIntake(s, event) # Refused
  BY DEF Turn, Decides, Reduce, IntakeFlows
<1>2. ASSUME event.type = "delivered" PROVE event.effect.id \in s.pending \/ s.phase = "failed"
  <2>1. PICK id \in RowsOf(f) : event.effect = outbox[id].effect /\ outbox[id].status = "executed"
    BY <1>2 DEF Turn, IsVerdict
  <2> QED BY <1>1, <2>1 DEF IntakeInv
<1>3. IntakeState(s)
  BY <1>1 DEF IntakeInv
<1> QED BY <1>1, <1>2, <1>3, IntakeDecides

LEMMA IntakeTurns ==
  ASSUME Tables, NEW f \in IntakeFlows, f \in Flows, FeatureAssumption, IntakeInv(f), Onward, NEW event, NEW touched,
         Turn(f, event, touched), event.type \in {"timer", "delivered", "failed"} \cup AnswerTypes
  PROVE  IntakeInv(f)' /\ Lives(f)
<1> DEFINE s == flow[f].state
           d == Reduce(f, s, event)
           t == d.state
<1>1. IntakeTurn(s, event, d) /\ flow[f].status # "absent" /\ Decided(d)
  BY IntakeTakesTurn DEF IntakeTurn
<1>2. /\ Lives(f) /\ flow'[f].state = t /\ flow'[f].wake = Kept(d.wake, flow[f].wake)
      /\ \A id \in RowsOf(f)' :
             \/ id \in RowsOf(f) /\ SameEffect(id) /\ (id \notin touched => outbox'[id] = outbox[id])
             \/ outbox'[id].effect \in d.effects /\ outbox'[id].status = "pending"
  BY <1>1, AfterTurn
<1>3. /\ ~IsVerdict(event) => touched = {}
      /\ IsVerdict(event) => \E id \in touched :
           /\ touched = {id} /\ id \in RowsOf(f) /\ event.effect = outbox[id].effect
           /\ event.type = "delivered" => outbox'[id].status = "delivered" \/ (outbox'[id].status = "told" /\ spent'.faults > 0)
           /\ event.type = "failed" => outbox'[id].status = "failed"
  BY DEF Turn, IsVerdict
<1>4. spent.faults > 0 => spent'.faults > 0
  BY DEF Onward, Tables
<1>5. \A id \in RowsOf(f) : id = <<f, outbox[id].effect.id>>
  BY DEF Tables, RowsOf
<1>6. IntakeState(t) /\ d.wake \in {None, Keep} /\ flow[f].wake = None
  BY <1>1 DEF IntakeTurn, IntakeInv
<1> HIDE DEF d
<1>7. ASSUME NEW id \in RowsOf(f)'
      PROVE  /\ outbox'[id].effect.kind \in IntakeKinds /\ (outbox'[id].status = "told" => spent'.faults > 0)
             /\ t.phase # "failed" => /\ outbox'[id].status # "failed"
                                      /\ outbox'[id].status \in {"pending", "executed"} => outbox'[id].effect.id \in t.pending
  <2>1. CASE outbox'[id].effect \in d.effects /\ outbox'[id].status = "pending"
    BY <1>1, <2>1 DEF IntakeTurn
  <2>2. CASE id \in RowsOf(f) /\ id \notin touched /\ outbox'[id] = outbox[id]
    <3>1. t.phase # "failed" => s.phase # "failed" /\ event.type # "failed"
      BY <1>1 DEF IntakeTurn
    <3>2. event.type = "delivered" => event.effect.id # outbox[id].effect.id
      BY <1>3, <1>5, <2>2 DEF IsVerdict
    <3>3. t.phase # "failed" /\ outbox[id].effect.id \in s.pending => outbox[id].effect.id \in t.pending
      BY <1>1, <3>2 DEF IntakeTurn
    <3> QED BY <1>1, <1>4, <2>2, <3>1, <3>3 DEF IntakeInv
  <2>3. CASE id \in RowsOf(f) /\ id \in touched /\ SameEffect(id)
    <3>1. \/ event.type = "delivered" /\ (outbox'[id].status = "delivered" \/ (outbox'[id].status = "told" /\ spent'.faults > 0))
          \/ event.type = "failed" /\ outbox'[id].status = "failed"
      BY <1>3, <2>3 DEF IsVerdict
    <3>2. event.type = "failed" => t.phase = "failed"
      BY <1>1 DEF IntakeTurn
    <3>3. outbox'[id].effect.kind \in IntakeKinds
      BY <1>1, <2>3 DEF IntakeInv, SameEffect
    <3> QED BY <3>1, <3>2, <3>3
  <2> QED BY <1>2, <2>1, <2>2, <2>3
<1>8. flow'[f].wake = None
  BY <1>2, <1>6 DEF Kept
<1> QED BY <1>2, <1>6, <1>7, <1>8 DEF IntakeInv

\* A failure is always heard
LEMMA IntakeListens ==
  ASSUME NEW f \in IntakeFlows, NEW id \in RowsOf(f)
  PROVE  Commits(f, FailedEvent(id))
<1> DEFINE s == flow[f].state
           event == FailedEvent(id)
           d == Reduce(f, s, event)
<1>1. event.type = "failed"
  BY DEF FailedEvent, Verdict
<1> HIDE DEF event
<1>2. d = Decision("failed", [s EXCEPT !.phase = "failed"], None, {})
  BY <1>1 DEF Reduce, IntakeFlows, MessageIntake, IntakeVerdict, IsVerdict, Delivered
<1>3. d # Refused /\ d.effects = {}
  BY <1>2 DEF Decision, Refused
<1>4. Ids(f, {}) = {}
  BY DEF Ids
<1> HIDE DEF d
<1>5. Ids(f, d.effects) \cap DOMAIN outbox = {}
  BY <1>3, <1>4
<1> QED BY <1>3, <1>5 DEF Commits, d, event

LEMMA IntakeStep ==
  ASSUME Tables, NEW f \in IntakeFlows, f \in Flows, FeatureAssumption, IntakeInv(f), Onward, FlowStep(f)
  PROVE  IntakeInv(f)' /\ Lives(f)
<1>1. CASE Quiet(f)
  <2>1. /\ flow'[f] = flow[f] /\ RowsOf(f)' = RowsOf(f) /\ Lives(f) /\ \A id \in RowsOf(f) : outbox'[id].effect = outbox[id].effect
    BY <1>1, AfterQuiet DEF SameEffect
  <2>2. spent.faults > 0 => spent'.faults > 0
    BY DEF Onward, Tables
  <2>3. ASSUME NEW id \in RowsOf(f)
        PROVE  \/ outbox'[id] = outbox[id]
               \/ outbox'[id].status \in {"pending", "executed"} /\ outbox[id].status \in {"pending", "executed"}
               \/ outbox'[id].status = "delivered"
    BY <1>1, IntakeListens DEF Quiet, Rest, RowChange, RowsStay
  <2> QED BY <2>1, <2>2, <2>3 DEF IntakeInv
<1> QED BY <1>1, TurnOrQuiet, IntakeTurns

-----------------------------------------------------------------------------
(* The approval of a policy *)

PolicyState(s) ==
  DOMAIN s = {"phase", "decision"} /\ s.phase \in {"awaiting-approval", "applying", "completed", "failed"}

Applications == {id \in RowsOf("policy") : outbox[id].effect.kind = "applyDecision"}

\* One application follows the one answer that counts
PolicyInv ==
  flow["policy"].status # "absent" =>
    LET s == flow["policy"].state IN
    /\ PolicyState(s) /\ flow["policy"].wake = None
    /\ \A id \in RowsOf("policy") : outbox[id].effect.kind \in {"requestInteraction", "applyDecision"}
    /\ s.phase = "awaiting-approval" => Applications = {}
    /\ \A i, j \in Applications : i = j
    /\ s.phase = "completed" => Executed("policy", "applyDecision") # {}

PolicyTurn(s, event, d) ==
  LET t == d.state IN
  /\ Decided(d) /\ d.wake = Keep /\ PolicyState(t)
  /\ \/ t.phase = s.phase /\ d.effects = {}
     \/ /\ s.phase = "awaiting-approval" /\ t.phase = "applying"
        /\ \E e : d.effects = {e} /\ e.kind = "applyDecision"
     \/ s.phase = "applying" /\ t.phase = "completed" /\ d.effects = {} /\ Delivered(event, "applyDecision")
     \/ s.phase \in {"awaiting-approval", "applying"} /\ t.phase = "failed" /\ d.effects = {}

LEMMA PolicyDecides ==
  ASSUME NEW s, PolicyState(s), NEW event, event.type \in {"timer", "delivered", "failed"} \cup AnswerTypes, Policy(s, event) # Refused
  PROVE  PolicyTurn(s, event, Policy(s, event))
<1> DEFINE d == Policy(s, event)
           u(phase) == [s EXCEPT !.phase = phase]
<1>0. \A phase \in {"completed", "failed"} : PolicyState(u(phase)) /\ u(phase).phase = phase
  BY DEF PolicyState
<1> HIDE DEF u
<1>1. CASE d = Decision(PolicyStatus(s), s, Keep, {})
  BY <1>1 DEF PolicyTurn, Decision, Decided, PolicyStatus, Statuses
<1>2. CASE Delivered(event, "applyDecision") /\ s.phase = "applying"
  <2>1. d = Decision("completed", u("completed"), Keep, {})
    BY <1>2 DEF Policy, PolicyVerdict, IsVerdict, Delivered, u
  <2> QED BY <1>0, <1>2, <2>1 DEF PolicyTurn, Decision, Decided, Statuses
<1>3. CASE event.type = "failed" /\ s.phase \in {"awaiting-approval", "applying"}
  <2>1. d = Decision("failed", u("failed"), Keep, {})
    BY <1>3 DEF Policy, PolicyVerdict, IsVerdict, Delivered, u
  <2> QED BY <1>0, <1>3, <2>1 DEF PolicyTurn, Decision, Decided, Statuses
<1>4. CASE ~IsVerdict(event) /\ s.phase = "awaiting-approval" /\ event.type \in {"approved", "declined"}
  <2> DEFINE v == [s EXCEPT !.phase = "applying", !.decision = event.type]
             e == Effect("applyDecision", <<"collaboration-policy-decision", event.type>>, <<"decision">>, event.type)
  <2>1. d = Decision("waiting", v, Keep, {e})
    BY <1>4 DEF Policy, PolicyAnswered, Waiting
  <2>2. PolicyState(v) /\ v.phase = "applying" /\ e.kind = "applyDecision"
    BY DEF PolicyState, Effect
  <2> HIDE DEF v, e
  <2> QED BY <1>4, <2>1, <2>2 DEF PolicyTurn, Decision, Decided, Statuses
<1>5. CASE ~(Delivered(event, "applyDecision") /\ s.phase = "applying") /\ ~(event.type = "failed" /\ s.phase \in {"awaiting-approval", "applying"})
           /\ ~(~IsVerdict(event) /\ s.phase = "awaiting-approval" /\ event.type \in {"approved", "declined"})
  <2>1. d = Decision(PolicyStatus(s), s, Keep, {})
    BY <1>5 DEF Policy, PolicyVerdict, PolicyAnswered
  <2> QED BY <1>1, <2>1
<1> QED BY <1>2, <1>3, <1>4, <1>5

LEMMA PolicyStep ==
  ASSUME Tables, "policy" \in Flows, FeatureAssumption, PolicyInv, Onward, FlowStep("policy")
  PROVE  PolicyInv' /\ Lives("policy")
<1> DEFINE f == "policy"
           s == flow[f].state
<1>1. CASE Quiet(f)
  <2>1. /\ flow'[f] = flow[f] /\ RowsOf(f)' = RowsOf(f) /\ Lives(f) /\ \A id \in RowsOf(f) : outbox'[id].effect = outbox[id].effect
        /\ \A kind : Executed(f, kind) \subseteq Executed(f, kind)'
    BY <1>1, AfterQuiet DEF SameEffect
  <2>2. Applications' = Applications
    BY <2>1 DEF Applications
  <2> QED BY <2>1, <2>2 DEF PolicyInv
<1>2. ASSUME NEW event, NEW touched, Turn(f, event, touched), event.type \in {"timer", "delivered", "failed"} \cup AnswerTypes
      PROVE  PolicyInv' /\ Lives(f)
  <2> DEFINE d == Policy(s, event)
             t == d.state
  <2>1. /\ Reduce(f, s, event) = d /\ d # Refused /\ flow[f].status # "absent" /\ PolicyState(s) /\ flow[f].wake = None
        /\ (\A kind : Delivered(event, kind) => Executed(f, kind)' # {})
        /\ \A e \in d.effects : <<f, e.id>> \in RowsOf(f)' \ RowsOf(f)
    BY <1>2 DEF Turn, Decides, Reduce, PolicyInv
  <2>2. PolicyTurn(s, event, d)
    BY <1>2, <2>1, PolicyDecides
  <2>3. /\ Lives(f) /\ flow'[f].state = t /\ flow'[f].wake = Kept(d.wake, flow[f].wake)
        /\ \A id \in RowsOf(f) : id \in RowsOf(f)' /\ outbox'[id].effect = outbox[id].effect
        /\ \A id \in RowsOf(f)' : id \in RowsOf(f) \/ (outbox'[id].effect \in d.effects /\ id = <<f, outbox'[id].effect.id>>)
        /\ \A kind : Executed(f, kind) \subseteq Executed(f, kind)'
    BY <1>2, <2>1, <2>2, AfterTurn DEF SameEffect, PolicyTurn
  <2> HIDE DEF d
  <2>4. flow'[f].wake = None /\ PolicyState(t)
    BY <2>1, <2>2, <2>3 DEF Kept, PolicyTurn
  <2>5. \A e \in d.effects : e.kind = "applyDecision"
    BY <2>2 DEF PolicyTurn
  <2>6. \A id \in RowsOf(f)' : outbox'[id].effect.kind \in {"requestInteraction", "applyDecision"}
    BY <2>1, <2>3, <2>5 DEF PolicyInv
  <2>7. /\ t.phase = "awaiting-approval" => s.phase = "awaiting-approval" /\ d.effects = {}
        /\ d.effects # {} => s.phase = "awaiting-approval" /\ \E e : d.effects = {e}
        /\ t.phase = "completed" => s.phase = "completed" \/ Delivered(event, "applyDecision")
    BY <2>2 DEF PolicyTurn
  <2>8. \A id \in Applications' : id \in Applications \/ (outbox'[id].effect \in d.effects /\ id = <<f, outbox'[id].effect.id>>)
    BY <2>3 DEF Applications
  <2>9. t.phase = "awaiting-approval" => Applications' = {}
    BY <2>1, <2>7, <2>8 DEF PolicyInv
  <2>10. \A i, j \in Applications' : i = j
    BY <2>1, <2>7, <2>8 DEF PolicyInv
  <2>11. t.phase = "completed" => Executed(f, "applyDecision")' # {}
    BY <2>1, <2>3, <2>7 DEF PolicyInv
  <2> QED BY <2>3, <2>4, <2>6, <2>9, <2>10, <2>11 DEF PolicyInv
<1> QED BY <1>1, <1>2, TurnOrQuiet

-----------------------------------------------------------------------------
(* All workflows together *)

FlowInv(f) ==
  /\ f = "outreach" => OutreachInv
  /\ f \in {"research", "research-untracked"} => ResearchInv(f)
  /\ f = "session" => SessionInv
  /\ f = "discovery" => DiscoveryInv
  /\ f \in DailyFlows => DailyInv(f)
  /\ f \in IntakeFlows => IntakeInv(f)
  /\ f = "policy" => PolicyInv

FlowsInv == Tables /\ \A f \in Flows : FlowInv(f)

LEMMA FlowInvStep ==
  ASSUME FlowsInv, [Next]_vars, FeatureAssumption, NEW f \in Flows
  PROVE  FlowInv(f)' /\ Lives(f)
<1>1. Tables /\ FlowInv(f)
  BY DEF FlowsInv
<1>2. Onward /\ FlowStep(f)
  BY <1>1, StepOfAFlow
<1>3. SessionChange
  BY <1>1, StepOfTheSession
<1>4. f \in FlowKinds
  BY DEF FeatureAssumption
<1>5. CASE f = "outreach"
  BY <1>1, <1>2, <1>5, OutreachStep DEF FlowInv, DailyFlows, IntakeFlows
<1>6. CASE f \in {"research", "research-untracked"}
  BY <1>1, <1>2, <1>6, ResearchStep DEF FlowInv, DailyFlows, IntakeFlows
<1>7. CASE f = "session"
  BY <1>1, <1>2, <1>3, <1>7, SessionStep DEF FlowInv, DailyFlows, IntakeFlows
<1>8. CASE f = "discovery"
  BY <1>1, <1>2, <1>8, DiscoveryStep DEF FlowInv, DailyFlows, IntakeFlows
<1>9. CASE f \in DailyFlows
  <2>1. DailyInv(f)' /\ Lives(f)
    BY <1>1, <1>2, <1>9, DailyStep DEF FlowInv
  <2> QED BY <1>9, <2>1 DEF FlowInv, DailyFlows, IntakeFlows
<1>10. CASE f \in IntakeFlows
  <2>1. IntakeInv(f)' /\ Lives(f)
    BY <1>1, <1>2, <1>10, IntakeStep DEF FlowInv
  <2> QED BY <1>10, <2>1 DEF FlowInv, DailyFlows, IntakeFlows
<1>11. CASE f = "policy"
  BY <1>1, <1>2, <1>11, PolicyStep DEF FlowInv, DailyFlows, IntakeFlows
<1> QED BY <1>4, <1>5, <1>6, <1>7, <1>8, <1>9, <1>10, <1>11 DEF FlowKinds, DailyFlows, IntakeFlows

\* The tables after a step
RowFits(id) ==
  EffectRow(outbox[id]) /\ outbox[id].at <= now + 1 /\ id = <<outbox[id].of, outbox[id].effect.id>>

LEMMA TransitionRows ==
  ASSUME Tables, NEW f \in Flows, flow[f].status # "absent", NEW event, NEW rows, NEW touched \in SUBSET RowsOf(f),
         Commits(f, event), Transition(f, event, rows), Amends(rows, touched), now' = now,
         \A id \in touched : EffectRow(rows[id]) /\ rows[id].at <= now + 1 /\ rows[id].effect = outbox[id].effect
  PROVE  DOMAIN flow' = Flows /\ \A id \in DOMAIN outbox' : RowFits(id)'
<1> DEFINE d == Reduce(f, flow[f].state, event)
<1>1. /\ Decides(f, event) /\ RowsStay(f, touched) /\ \A id \in touched : outbox'[id] = rows[id]
  BY TransitionDecides
<1>2. DOMAIN outbox' = DOMAIN outbox \cup Ids(f, d.effects)
  BY DEF Transition, Amends
<1>3. \A id \in DOMAIN outbox : outbox'[id] = rows[id] /\ rows[id].of = outbox[id].of /\ (id \notin touched => rows[id] = outbox[id])
  BY DEF Transition, Amends
<1>4. ASSUME NEW id \in DOMAIN outbox PROVE RowFits(id)'
  BY <1>3 DEF RowFits, Tables, EffectRow
<1>5. ASSUME NEW id \in Ids(f, d.effects) PROVE RowFits(id)'
  <2>1. PICK e \in d.effects : id = <<f, e.id>>
    BY DEF Ids
  <2>2. id \in RowsOf(f)' \ RowsOf(f)
    BY <1>1, <2>1 DEF Decides
  <2>3. id = <<f, outbox'[id].effect.id>> /\ outbox'[id] = NewRow(f, outbox'[id].effect)
    BY <1>1, <2>2 DEF Decides
  <2>4. PICK e2 : outbox'[id].effect = e2 /\ outbox'[id] = [of |-> f, effect |-> e2, status |-> "pending", at |-> now, data |-> None, tried |-> FALSE]
    BY <2>3 DEF NewRow
  <2>5. EffectRow(outbox'[id]) /\ outbox'[id].at = now /\ outbox'[id].of = f
    BY <2>4 DEF EffectRow, EffectStatus, Tables
  <2>6. outbox'[id].at <= now' + 1
    BY <2>5 DEF Tables
  <2> QED BY <2>3, <2>5, <2>6 DEF RowFits
<1>6. DOMAIN flow' = Flows
  BY DEF Transition, Tables
<1> QED BY <1>2, <1>4, <1>5, <1>6

LEMMA SettlingRows ==
  ASSUME Tables, NEW id \in DOMAIN outbox, NEW f \in Flows, f = outbox[id].of, NEW status \in EffectStatus, NEW event,
         NEW rows \in {Settled(id, status), Postponed(id, status)}, outbox[id].tried \/ status = "failed",
         Commits(f, event), Transition(f, event, rows), now' = now
  PROVE  DOMAIN flow' = Flows /\ \A o \in DOMAIN outbox' : RowFits(o)'
<1>1. /\ {id} \in SUBSET RowsOf(f) /\ flow[f].status # "absent" /\ EffectRow(outbox[id])
  BY DEF Tables, EffectRow, RowsOf
<1>2. /\ DOMAIN rows = DOMAIN outbox
      /\ \A o \in DOMAIN outbox : rows[o].of = outbox[o].of /\ (o \notin {id} => rows[o] = outbox[o])
      /\ rows[id].effect = outbox[id].effect
  BY SettledRow
<1>3. EffectRow(rows[id]) /\ rows[id].at <= now + 1
  BY <1>1, SettledRow DEF EffectRow, Tables
<1>4. Amends(rows, {id})
  BY <1>2 DEF Amends
<1>5. \A o \in {id} : EffectRow(rows[o]) /\ rows[o].at <= now + 1 /\ rows[o].effect = outbox[o].effect
  BY <1>2, <1>3
<1> QED BY <1>1, <1>4, <1>5, TransitionRows

LEMMA RowsStep ==
  ASSUME Tables, [Next]_vars
  PROVE  DOMAIN flow' = Flows /\ \A o \in DOMAIN outbox' : RowFits(o)'
<1>0. now \in Nat /\ \A o \in DOMAIN outbox : RowFits(o)
  BY DEF Tables, RowFits
<1>a. ASSUME flow' = flow, outbox' = outbox, now' = now \/ now' = now + 1
      PROVE  DOMAIN flow' = Flows /\ \A o \in DOMAIN outbox' : RowFits(o)'
  BY <1>0, <1>a DEF RowFits, EffectRow, Tables
<1>1. CASE UNCHANGED vars \/ TouchSession \/ Tick
  <2>1. flow' = flow /\ outbox' = outbox /\ (now' = now \/ now' = now + 1)
    BY <1>1 DEF vars, TouchSession, Tick
  <2> QED BY <1>a, <2>1
<1>2. ASSUME NEW g \in Flows, FireTimer(g) PROVE DOMAIN flow' = Flows /\ \A o \in DOMAIN outbox' : RowFits(o)'
  <2>1. flow[g].status # "absent" /\ Amends(outbox, {}) /\ now' = now /\ {} \in SUBSET RowsOf(g)
    BY <1>2 DEF FireTimer, Due, Amends
  <2> QED BY <1>2, <2>1, TransitionRows DEF FireTimer
<1>3. ASSUME NEW id \in DOMAIN outbox, EffectStep(id) PROVE DOMAIN flow' = Flows /\ \A o \in DOMAIN outbox' : RowFits(o)'
  <2> PICK g \in Flows : g = outbox[id].of
    BY DEF Tables, EffectRow
  <2>0. EffectRow(outbox[id]) /\ RowFits(id)
    BY <1>0 DEF RowFits
  <2>1. CASE Execute(id)
    <3>1. PICK r \in Results(outbox[id].effect) :
            outbox' = [outbox EXCEPT ![id].status = "executed", ![id].data = r.data, ![id].tried = TRUE]
      BY <2>1 DEF Execute
    <3>2. flow' = flow /\ now' = now
      BY <2>1 DEF Execute
    <3>3. /\ DOMAIN outbox' = DOMAIN outbox /\ \A o \in DOMAIN outbox \ {id} : outbox'[o] = outbox[o]
          /\ DOMAIN outbox'[id] = {"of", "effect", "status", "at", "data", "tried"} /\ outbox'[id].status = "executed"
          /\ outbox'[id].tried = TRUE /\ outbox'[id].at = outbox[id].at
          /\ outbox'[id].of = outbox[id].of /\ outbox'[id].effect = outbox[id].effect
      BY <3>1, ExecutedRow
    <3>4. EffectRow(outbox'[id]) /\ outbox'[id].at <= now + 1
      BY <2>0, <3>3 DEF RowFits, EffectRow, EffectStatus
    <3>5. RowFits(id)'
      BY <2>0, <3>2, <3>3, <3>4 DEF RowFits
    <3>6. \A o \in DOMAIN outbox \ {id} : RowFits(o)'
      BY <1>0, <3>2, <3>3 DEF RowFits
    <3> QED BY <3>2, <3>3, <3>5, <3>6 DEF Tables
  <2>2. CASE Deliver(id)
    <3>1. outbox[id].tried /\ "delivered" \in EffectStatus /\ now' = now
      BY <2>0, <2>2 DEF Deliver, EffectRow, EffectStatus
    <3> QED BY <2>2, <3>1, SettlingRows DEF Deliver
  <2>3. CASE DeliverUnsettled(id)
    <3>1. outbox[id].tried /\ "told" \in EffectStatus /\ now' = now
      BY <2>0, <2>3 DEF DeliverUnsettled, EffectRow, EffectStatus
    <3> QED BY <2>3, <3>1, SettlingRows DEF DeliverUnsettled
  <2>4. CASE FailFinally(id) /\ Commits(g, FailedEvent(id))
    <3>1. "failed" \in EffectStatus /\ now' = now
      BY <2>4 DEF FailFinally, EffectStatus
    <3> QED BY <2>4, <3>1, SettlingRows DEF FailFinally
  <2>5. CASE SettleTold(id) \/ TryAgain(id) \/ (FailFinally(id) /\ ~Commits(g, FailedEvent(id)))
    <3>1. flow' = flow /\ now' = now
      BY <2>5 DEF SettleTold, TryAgain, FailFinally
    <3>2. \/ outbox' = Settled(id, "delivered") /\ outbox[id].status = "told"
          \/ outbox' = Postponed(id, "pending")
          \/ outbox' = Settled(id, "failed")
      BY <2>5 DEF SettleTold, TryAgain, FailFinally
    <3>3. /\ DOMAIN outbox' = DOMAIN outbox /\ \A o \in DOMAIN outbox \ {id} : outbox'[o] = outbox[o]
          /\ DOMAIN outbox'[id] = {"of", "effect", "status", "at", "data", "tried"} /\ outbox'[id].tried = outbox[id].tried
          /\ outbox'[id].status \in {"delivered", "pending", "failed"} /\ (outbox'[id].status = "delivered" => outbox[id].status = "told")
          /\ outbox'[id].at \in {0, now + 1} /\ outbox'[id].of = outbox[id].of /\ outbox'[id].effect = outbox[id].effect
      BY <3>2, SettledRow
    <3> QED BY <1>0, <2>0, <3>1, <3>3 DEF RowFits, EffectRow, EffectStatus, Tables
  <2>6. Execute(id) \/ Deliver(id) \/ DeliverUnsettled(id) \/ SettleTold(id) \/ TryAgain(id) \/ FailFinally(id)
    BY <1>3, Zenon DEF EffectStep
  <2> QED BY <2>1, <2>2, <2>3, <2>4, <2>5, <2>6
<1>4. ASSUME NEW a \in Answers, Hear(a[1], a[2]) PROVE DOMAIN flow' = Flows /\ \A o \in DOMAIN outbox' : RowFits(o)'
  <2>0. a[1] \in Flows
    BY AnswerShape
  <2>1. flow[a[1]].status # "absent" /\ Amends(outbox, {}) /\ now' = now /\ {} \in SUBSET RowsOf(a[1])
    BY <1>4 DEF Hear, Amends
  <2> QED BY <1>4, <2>0, <2>1, TransitionRows DEF Hear
<1> QED BY <1>1, <1>2, <1>3, <1>4 DEF Next

LEMMA SpentStep ==
  ASSUME Tables, [Next]_vars, FeatureAssumption
  PROVE  spent' \in [answers : Nat, failures : Nat, retries : 0 .. MaxFaults, faults : 0 .. MaxFaults, touches : 0 .. MaxTouches]
<1>1. /\ spent \in [answers : Nat, failures : Nat, retries : 0 .. MaxFaults, faults : 0 .. MaxFaults, touches : 0 .. MaxTouches]
      /\ MaxFaults \in Nat /\ MaxTouches \in Nat
  BY DEF Tables, FeatureAssumption
<1>2. \/ spent' = spent
      \/ spent.retries + spent.faults < MaxFaults /\ spent' = [spent EXCEPT !.faults = @ + 1]
      \/ spent.retries + spent.faults < MaxFaults /\ spent' = [spent EXCEPT !.retries = @ + 1]
      \/ spent' = [spent EXCEPT !.failures = @ + 1]
      \/ spent' = [spent EXCEPT !.answers = @ + 1]
      \/ spent.touches < MaxTouches /\ spent' = [spent EXCEPT !.touches = @ + 1]
  <2>1. \A id : EffectStep(id) =>
          \/ spent' = spent
          \/ spent.retries + spent.faults < MaxFaults /\ spent' = [spent EXCEPT !.faults = @ + 1]
          \/ spent.retries + spent.faults < MaxFaults /\ spent' = [spent EXCEPT !.retries = @ + 1]
          \/ spent' = [spent EXCEPT !.failures = @ + 1]
    BY Zenon DEF EffectStep, Execute, Deliver, DeliverUnsettled, SettleTold, TryAgain, FailFinally
  <2>2. \A g : FireTimer(g) => spent' = spent
    BY DEF FireTimer
  <2>3. \A f, a : Hear(f, a) => spent' = [spent EXCEPT !.answers = @ + 1]
    BY DEF Hear
  <2>4. TouchSession => spent.touches < MaxTouches /\ spent' = [spent EXCEPT !.touches = @ + 1]
    BY DEF TouchSession
  <2>5. Tick \/ UNCHANGED vars => spent' = spent
    BY DEF Tick, vars
  <2> QED BY <2>1, <2>2, <2>3, <2>4, <2>5, Zenon DEF Next
<1> QED BY <1>1, <1>2

LEMMA FlowsStep ==
  ASSUME FlowsInv, [Next]_vars, FeatureAssumption
  PROVE  FlowsInv'
<1>1. Tables
  BY DEF FlowsInv
<1>2. \A f \in Flows : FlowInv(f)' /\ Lives(f)
  BY FlowInvStep
<1>3. DOMAIN flow' = Flows /\ \A o \in DOMAIN outbox' : RowFits(o)'
  BY <1>1, RowsStep
<1>4. spent' \in [answers : Nat, failures : Nat, retries : 0 .. MaxFaults, faults : 0 .. MaxFaults, touches : 0 .. MaxTouches]
  BY <1>1, SpentStep
<1>5. SessionTable(session', now')
  BY <1>1, StepOfTheSession DEF SessionChange
<1>6. \A f \in Flows : Onward /\ FlowStep(f)
  BY <1>1, StepOfAFlow
<1>7. now' \in Nat
  <2>1. CASE Flows # {}
    BY <1>6, <2>1 DEF Onward
  <2>2. CASE Flows = {}
    <3>1. DOMAIN outbox = {}
      BY <1>1, <2>2 DEF Tables, EffectRow
    <3>2. UNCHANGED vars
      BY <1>1, <2>2, <3>1, AnswerShape DEF Next, TouchSession, Tick
    <3> QED BY <1>1, <3>2 DEF vars, Tables
  <2> QED BY <2>1, <2>2
<1>8. ASSUME NEW o \in DOMAIN outbox' PROVE flow'[outbox'[o].of].status # "absent"
  <2>1. PICK g \in Flows : g = outbox'[o].of
    BY <1>3 DEF RowFits, EffectRow
  <2>2. o \in RowsOf(g)'
    BY <2>1 DEF RowsOf
  <2>3. flow[g].status # "absent"
    <3>1. CASE o \in RowsOf(g)
      BY <1>1, <3>1 DEF RowsOf, Tables
    <3>2. CASE o \notin RowsOf(g)
      <4>1. ~Quiet(g)
        BY <1>1, <2>2, <3>2, AfterQuiet
      <4> QED BY <1>1, <1>6, <4>1, TurnOrQuiet DEF Turn
    <3> QED BY <3>1, <3>2
  <2> QED BY <1>2, <2>1, <2>3 DEF Lives
<1>9. Tables'
  BY <1>2, <1>3, <1>4, <1>5, <1>7, <1>8 DEF Tables, SessionTable, RowFits, Lives
<1> QED BY <1>2, <1>9 DEF FlowsInv

-----------------------------------------------------------------------------
(* The beginnings *)

\* A beginning: what a workflow starts with is pending, and nothing has been answered
LEMMA FirstRows ==
  ASSUME Init, FeatureAssumption
  PROVE  \E S \in Together :
           /\ S \subseteq Flows /\ flow = [f \in Flows |-> IF f \in S THEN Created(f) ELSE Absent]
           /\ \A id \in DOMAIN outbox :
                \E f \in S : \E e \in Starting(f).effects : id = <<f, e.id>> /\ outbox[id] = NewRow(f, e)
<1>1. PICK S \in Together :
        /\ flow = [f \in Flows |-> IF f \in S THEN Created(f) ELSE Absent]
        /\ outbox = [id \in UNION {Ids(f, Starting(f).effects) : f \in S} |-> RowFor(id[1], Starting(id[1]).effects, id)]
  BY DEF Init
<1>2. S \subseteq Flows
  BY FeatureAssumption DEF FeatureAssumption
<1>3. ASSUME NEW id \in DOMAIN outbox
      PROVE  \E f \in S : \E e \in Starting(f).effects : id = <<f, e.id>> /\ outbox[id] = NewRow(f, e)
  <2>1. PICK f \in S : id \in Ids(f, Starting(f).effects)
    BY <1>1
  <2> DEFINE E == Starting(f).effects
  <2>2. PICK e \in E : id = <<f, e.id>>
    BY <2>1 DEF Ids
  <2>3. outbox[id] = RowFor(f, E, id)
    BY <1>1, <2>2
  <2> HIDE DEF E
  <2> DEFINE c == CHOOSE x \in E : <<f, x.id>> = id
  <2>4. c \in E /\ <<f, c.id>> = id
    BY <2>2
  <2>5. outbox[id] = NewRow(f, c)
    BY <2>3 DEF RowFor
  <2> HIDE DEF c
  <2> QED BY <2>4, <2>5 DEF E
<1> QED BY <1>1, <1>2, <1>3

LEMMA Started ==
  ASSUME NEW f \in FlowKinds, now = 0, FeatureAssumption, flow[f] = Created(f), heard = {}, session = SessionLive,
         spent.faults = 0,
         \A id \in RowsOf(f) : /\ outbox[id].effect \in Starting(f).effects /\ outbox[id].status = "pending"
                               /\ id = <<f, outbox[id].effect.id>> /\ ~outbox[id].tried
  PROVE  FlowInv(f) /\ Instance(flow[f]) /\ flow[f].status # "absent"
<1>0. ~Marked(f, "sent") /\ None \notin Int
  BY FeatureAssumption DEF Marked, FeatureAssumption
<1>1. CASE f = "outreach"
  <2>1. Starting(f) = OutreachStart(0)
    BY <1>1 DEF Starting
  <2> QED BY <1>0, <1>1, <2>1 DEF Created, OutreachStart, Waiting, Decision, FlowInv, DailyFlows, IntakeFlows, OutreachInv, OutreachState,
            Asking, Committed, FailureState, NoFailure, Instance, Statuses
<1>2. CASE f \in {"research", "research-untracked"}
  <2>1. Starting(f) = ResearchStart(f = "research", 0)
    BY <1>2 DEF Starting
  <2>2. RowsOf(f) = {}
    BY <2>1 DEF ResearchStart, Waiting, Decision
  <2>3. Instance(flow[f]) /\ flow[f].status # "absent"
    BY <2>1 DEF Created, ResearchStart, Waiting, Decision, Instance, Statuses
  <2>4. ResearchState(flow[f].state) /\ flow[f].state.phase = "ready" /\ ~flow[f].state.told /\ (flow[f].state.updated => f # "research")
    <3>1. CASE f = "research"
      <4>1. flow[f].state = [phase |-> "ready", seq |-> 0, told |-> FALSE, updated |-> FALSE, failure |-> NoFailure]
        <5>1. Starting(f) = ResearchStart(TRUE, 0)
          BY <1>2, <3>1 DEF Starting
        <5>2. flow[f].state = [phase |-> "ready", seq |-> 0, told |-> FALSE, updated |-> ~TRUE, failure |-> NoFailure]
          BY <5>1 DEF Created, ResearchStart, Waiting, Decision
        <5> QED BY <5>2
      <4> QED BY <4>1 DEF ResearchState, FailureState, NoFailure
    <3>2. CASE f # "research"
      <4>1. flow[f].state = [phase |-> "ready", seq |-> 0, told |-> FALSE, updated |-> TRUE, failure |-> NoFailure]
        <5>1. Starting(f) = ResearchStart(FALSE, 0)
          BY <1>2, <3>2 DEF Starting
        <5>2. flow[f].state = [phase |-> "ready", seq |-> 0, told |-> FALSE, updated |-> ~FALSE, failure |-> NoFailure]
          BY <5>1 DEF Created, ResearchStart, Waiting, Decision
        <5> QED BY <5>2
      <4> QED BY <3>2, <4>1 DEF ResearchState, FailureState, NoFailure
    <3> QED BY <3>1, <3>2
  <2>5. ResearchInv(f)
    BY <1>0, <2>2, <2>4 DEF ResearchInv
  <2> QED BY <1>2, <2>3, <2>5 DEF FlowInv, DailyFlows, IntakeFlows
<1>3. CASE f = "session"
  <2>1. Starting(f) = SessionStart(0)
    BY <1>3 DEF Starting
  <2>2. RowsOf(f) = {}
    BY <2>1 DEF SessionStart, Waiting, Decision
  <2>3. /\ flow[f].state = [phase |-> "waiting", seq |-> 0, eligible |-> FALSE, archivedAt |-> None, failure |-> NoFailure, noticeAt |-> None]
        /\ Instance(flow[f]) /\ flow[f].status # "absent"
    BY <2>1 DEF Created, SessionStart, Waiting, Decision, Instance, Statuses
  <2>4. SessionState(flow[f].state) /\ flow[f].state.phase = "waiting"
    BY <2>3 DEF SessionState, FailureState, NoFailure
  <2>5. SessionInv
    BY <1>3, <2>2, <2>4 DEF SessionInv, SessionUndisturbed
  <2> QED BY <1>3, <2>3, <2>5 DEF FlowInv, DailyFlows, IntakeFlows
<1>4. CASE f = "discovery"
  <2>1. Starting(f) = DiscoveryStart(0)
    BY <1>4 DEF Starting
  <2>2. RowsOf(f) = {}
    BY <2>1 DEF DiscoveryStart, Waiting, Decision
  <2>3. Scanned = {}
    BY <1>4, <2>2 DEF Scanned, Executed
  <2> QED BY <1>0, <1>4, <2>1, <2>2, <2>3 DEF Created, DiscoveryStart, Waiting, Decision, FlowInv, DailyFlows, IntakeFlows, DiscoveryInv,
            DiscoveryState, DiscoveryUndisturbed, Instance, Statuses
<1>a. ASSUME f \in DailyFlows PROVE RowsOf(f) = {} /\ DailyState(f, flow[f].state) /\ Instance(flow[f]) /\ flow[f].status # "absent"
  <2>1. CASE f = "review"
    <3>1. Starting(f) = ReviewStart(0)
      BY <2>1 DEF Starting
    <3> QED BY <2>1, <3>1 DEF ReviewStart, Waiting, Decision, Created, DailyState, Instance, Statuses
  <2>2. CASE f = "overdue"
    <3>1. Starting(f) = OverdueStart(0)
      BY <2>2 DEF Starting
    <3> QED BY <2>2, <3>1 DEF OverdueStart, Waiting, Decision, Created, DailyState, Instance, Statuses
  <2>3. CASE f = "cleanup"
    <3>1. Starting(f) = CleanupStart(0)
      BY <2>3 DEF Starting
    <3> QED BY <2>3, <3>1 DEF CleanupStart, Waiting, Decision, Created, DailyState, Instance, Statuses
  <2>4. CASE f = "brief"
    <3>1. Starting(f) = ScheduleStart(0)
      BY <2>4 DEF Starting
    <3> QED BY <2>4, <3>1 DEF ScheduleStart, Waiting, Decision, Created, DailyState, Instance, Statuses
  <2> QED BY <1>a, <2>1, <2>2, <2>3, <2>4 DEF DailyFlows
<1>5. CASE f \in DailyFlows
  BY <1>5, <1>a DEF FlowInv, DailyFlows, IntakeFlows, DailyInv
<1>6. CASE f \in IntakeFlows
  <2>1. PICK route : Starting(f) = IntakeStart(route)
    BY <1>6 DEF Starting, IntakeFlows
  <2> DEFINE first == IF route = "interaction" THEN IntakeEffect("applyInteraction", "interaction", None)
                      ELSE IntakeEffect("loadMessageContext", "context", None)
  <2>2. first.kind \in IntakeKinds
    BY DEF IntakeEffect, Effect, IntakeKinds
  <2> HIDE DEF first
  <2>3. Starting(f) = Waiting([phase |-> IF route = "interaction" THEN "projecting" ELSE "loading-context",
                               route |-> route, pending |-> {first.id}, approval |-> FALSE, decided |-> None], None, {first})
    BY <2>1 DEF IntakeStart, first
  <2>4. /\ IntakeState(flow[f].state) /\ flow[f].wake = None /\ flow[f].state.pending = {first.id}
        /\ \A id \in RowsOf(f) : outbox[id].effect = first
    <3>1. flow[f].state = [phase |-> IF route = "interaction" THEN "projecting" ELSE "loading-context",
                           route |-> route, pending |-> {first.id}, approval |-> FALSE, decided |-> None]
          /\ flow[f].wake = None /\ Starting(f).effects = {first}
      BY <2>3 DEF Created, Waiting, Decision
    <3>2. flow[f].state.phase \in {"projecting", "loading-context"} /\ flow[f].state.pending = {first.id}
          /\ (flow[f].state.phase = "projecting" => flow[f].state.route = "interaction")
          /\ DOMAIN flow[f].state = {"phase", "route", "pending", "approval", "decided"}
      BY <3>1
    <3>3. IntakeState(flow[f].state)
      BY <3>2 DEF IntakeState
    <3> QED BY <3>1, <3>2, <3>3
  <2>5. Instance(flow[f]) /\ flow[f].status # "absent"
    BY <2>3 DEF Created, Waiting, Decision, Instance, Statuses
  <2> QED BY <1>6, <2>2, <2>4, <2>5 DEF FlowInv, DailyFlows, IntakeFlows, IntakeInv
<1>7. CASE f = "policy"
  <2>1. Starting(f) = PolicyStart
    BY <1>7 DEF Starting
  <2> DEFINE card == Effect("requestInteraction", <<"collaboration-policy-card">>, <<"policy">>,
                            [asks |-> {"approved", "declined"}, of |-> "policy"])
  <2>2. card.kind = "requestInteraction"
    BY DEF Effect
  <2>3. Starting(f) = Waiting([phase |-> "awaiting-approval", decision |-> None], None, {card})
    BY <2>1 DEF PolicyStart
  <2> HIDE DEF card
  <2>4. PolicyState(flow[f].state) /\ flow[f].wake = None /\ flow[f].state.phase = "awaiting-approval"
        /\ \A id \in RowsOf(f) : outbox[id].effect = card
    BY <2>3 DEF Created, Waiting, Decision, PolicyState
  <2>5. Instance(flow[f]) /\ flow[f].status # "absent"
    BY <2>3 DEF Created, Waiting, Decision, Instance, Statuses
  <2>6. Applications = {}
    BY <1>7, <2>2, <2>4 DEF Applications
  <2> QED BY <1>7, <2>2, <2>4, <2>5, <2>6 DEF FlowInv, DailyFlows, IntakeFlows, PolicyInv
<1> QED BY <1>1, <1>2, <1>3, <1>4, <1>5, <1>6, <1>7 DEF FlowKinds, DailyFlows, IntakeFlows

LEMMA FlowsBegin ==
  ASSUME Init, FeatureAssumption
  PROVE  FlowsInv
<1>1. PICK S \in Together :
        /\ S \subseteq Flows /\ flow = [f \in Flows |-> IF f \in S THEN Created(f) ELSE Absent]
        /\ \A id \in DOMAIN outbox : \E f \in S : \E e \in Starting(f).effects : id = <<f, e.id>> /\ outbox[id] = NewRow(f, e)
  BY FirstRows
<1>2. /\ now = 0 /\ heard = {} /\ session = SessionLive
      /\ spent = [answers |-> 0, failures |-> 0, retries |-> 0, faults |-> 0, touches |-> 0]
  BY DEF Init
<1>3. ASSUME NEW id \in DOMAIN outbox, NEW f \in S, NEW e \in Starting(f).effects, id = <<f, e.id>>, outbox[id] = NewRow(f, e)
      PROVE  /\ EffectRow(outbox[id]) /\ outbox[id].at = 0 /\ id = <<outbox[id].of, outbox[id].effect.id>> /\ outbox[id].of = f
             /\ outbox[id].effect = e /\ outbox[id].status = "pending" /\ ~outbox[id].tried
  BY <1>1, <1>2, <1>3 DEF NewRow, EffectRow, EffectStatus
<1>4. ASSUME NEW f \in S PROVE FlowInv(f) /\ Instance(flow[f]) /\ flow[f].status # "absent"
  <2>1. f \in Flows /\ f \in FlowKinds /\ flow[f] = Created(f) /\ spent.faults = 0
    BY <1>1, <1>2, FeatureAssumption DEF FeatureAssumption
  <2>2. \A id \in RowsOf(f) : /\ outbox[id].effect \in Starting(f).effects /\ outbox[id].status = "pending"
                              /\ id = <<f, outbox[id].effect.id>> /\ ~outbox[id].tried
    BY <1>1, <1>3 DEF RowsOf
  <2> QED BY <1>2, <2>1, <2>2, Started
<1>5. ASSUME NEW f \in Flows \ S PROVE FlowInv(f) /\ Instance(flow[f])
  <2>1. flow[f] = Absent
    BY <1>1
  <2>2. flow[f].status = "absent" /\ Instance(flow[f])
    BY <2>1 DEF Absent, Instance, Statuses
  <2> QED BY <2>2 DEF FlowInv, OutreachInv, ResearchInv, SessionInv, DiscoveryInv, DailyInv, IntakeInv, PolicyInv
<1>6. spent \in [answers : Nat, failures : Nat, retries : 0 .. MaxFaults, faults : 0 .. MaxFaults, touches : 0 .. MaxTouches]
  BY <1>2, FeatureAssumption DEF FeatureAssumption
<1>7. DOMAIN session = {"exists", "archivedAt"} /\ session.exists \in BOOLEAN /\ session.archivedAt = None
  BY <1>2 DEF SessionLive
<1>8. \A id \in DOMAIN outbox : /\ EffectRow(outbox[id]) /\ outbox[id].at <= now + 1
                                /\ id = <<outbox[id].of, outbox[id].effect.id>>
                                /\ flow[outbox[id].of].status # "absent"
  BY <1>1, <1>2, <1>3, <1>4
<1>9. Tables
  BY <1>1, <1>2, <1>4, <1>5, <1>6, <1>7, <1>8 DEF Tables
<1> QED BY <1>4, <1>5, <1>9 DEF FlowsInv

\* An instance of the bridge that a handoff creates has no rows yet
Imported(i) ==
  /\ now = FrozenAt /\ outbox = << >> /\ session = i.session /\ heard = {<<i.of, m, None>> : m \in i.marks}
  /\ flow[i.of] = [status |-> i.row.status, state |-> i.row.state, wake |-> i.row.wake, fired |-> FALSE]
  /\ spent = [answers |-> 0, failures |-> 0, retries |-> 0, faults |-> 0, touches |-> 0]

LEMMA ImportedMarks ==
  ASSUME NEW i, Imported(i), i.of \in FlowKinds
  PROVE  /\ \A f : Marked(f, "sent") <=> f = i.of /\ "sent" \in i.marks
         /\ \A f : RowsOf(f) = {}
         /\ DOMAIN outbox = {}
<1>1. \A f : Marked(f, "sent") <=> <<f, "sent", None>> \in {<<i.of, m, None>> : m \in i.marks}
  BY DEF Imported, Marked
<1>2. DOMAIN outbox = {}
  BY DEF Imported
<1> QED BY <1>1, <1>2 DEF RowsOf

LEMMA WaitsSince ==
  ASSUME NEW states, NEW instants, NEW d \in WaitingSince(states, instants)
  PROVE  \E s \in states, t \in instants : d = Waiting(s, t, {})
<1>1. PICK t \in instants : d \in {Waiting(s, t, {}) : s \in states}
  BY DEF WaitingSince
<1>2. \E s \in states : d = Waiting(s, t, {})
  BY <1>1, Zenon
<1> QED BY <1>2

LEMMA FollowupImported ==
  ASSUME NEW i \in OutreachImports, FeatureAssumption, Imported(i)
  PROVE  FlowInv(i.of) /\ Instance(flow[i.of]) /\ SessionTable(session, FrozenAt) /\ i.of = "outreach"
<1>0. FrozenAt \in Nat /\ None \notin Int
  BY FeatureAssumption DEF FeatureAssumption
<1>1. OutreachStart(FrozenAt).state = [phase |-> "ready", seq |-> 0, contact |-> None, candidates |-> {}, approved |-> FALSE, failure |-> NoFailure]
  BY DEF OutreachStart, Waiting, Decision
<1>2. ASSUME NEW s, NEW status \in {"waiting", "completed"}, NEW wake \in Int \cup {None}, NEW marks,
             i = Import("outreach", Decision(status, s, wake, {}), marks, SessionLive),
             OutreachState(s), "sent" \in marks => s.phase \in {"waiting-reply", "completed"},
             s.phase \in Asking \/ "sent" \in marks
      PROVE  FlowInv(i.of) /\ Instance(flow[i.of]) /\ SessionTable(session, FrozenAt) /\ i.of = "outreach"
  <2>1. /\ i.of = "outreach" /\ i.marks = marks /\ i.session = SessionLive
        /\ i.row.status = status /\ i.row.state = s /\ i.row.wake = wake
    BY <1>2 DEF Import, Decision
  <2>2. flow["outreach"] = [status |-> status, state |-> s, wake |-> wake, fired |-> FALSE] /\ session = SessionLive
    BY <2>1 DEF Imported
  <2>3. (Marked("outreach", "sent") <=> "sent" \in marks) /\ RowsOf("outreach") = {}
    BY <2>1, ImportedMarks DEF FlowKinds
  <2>4. OutreachInv
    <3>1. flow["outreach"].state = s
      BY <2>2
    <3>2. CASE "sent" \in marks
      <4>1. Marked("outreach", "sent") /\ s.phase \in {"waiting-reply", "completed"}
        BY <1>2, <2>3, <3>2
      <4> QED BY <1>2, <2>3, <3>1, <4>1 DEF OutreachInv, Committed
    <3>3. CASE "sent" \notin marks
      BY <1>2, <2>3, <3>1, <3>3 DEF OutreachInv, Asking
    <3> QED BY <3>2, <3>3
  <2> QED BY <1>0, <2>1, <2>2, <2>4 DEF FlowInv, DailyFlows, IntakeFlows, Instance, Statuses, SessionTable, SessionLive
<1>3. ASSUME NEW n \in 0 .. 1, NEW t \in Instants, i = Import("outreach", Waiting(OutreachTried(n), t, {}), {}, SessionLive)
      PROVE  FlowInv(i.of) /\ Instance(flow[i.of]) /\ SessionTable(session, FrozenAt) /\ i.of = "outreach"
  <2> DEFINE s == OutreachTried(n)
  <2>1. OutreachState(s) /\ s.phase = "ready"
    BY <1>1 DEF OutreachTried, ChoiceAsked, ApprovalAsked, ReplyAwaited, OutreachOver, OutreachState, Asking, Committed, FailureState, NoFailure
  <2>2. t \in Int
    BY <1>0, <1>3 DEF Instants
  <2> HIDE DEF s
  <2>3. i = Import("outreach", Decision("waiting", s, t, {}), {}, SessionLive)
    BY <1>3 DEF Waiting, s
  <2>4. s.phase \in Asking
    BY <2>1 DEF Asking
  <2> QED BY <1>2, <2>1, <2>2, <2>3, <2>4
<1>4. ASSUME NEW S \in SUBSET Contacts,
             i = Import("outreach", Waiting(ChoiceAsked(S), None, {}), {"old card"}, SessionLive)
      PROVE  FlowInv(i.of) /\ Instance(flow[i.of]) /\ SessionTable(session, FrozenAt) /\ i.of = "outreach"
  <2> DEFINE s == ChoiceAsked(S)
  <2>1. OutreachState(s) /\ s.phase \in Asking
    BY <1>1 DEF OutreachTried, ChoiceAsked, ApprovalAsked, ReplyAwaited, OutreachOver, OutreachState, Asking, Committed, FailureState, NoFailure
  <2> HIDE DEF s
  <2>3. i = Import("outreach", Decision("waiting", s, None, {}), {"old card"}, SessionLive)
    BY <1>4 DEF Waiting, s
  <2> QED BY <1>2, <2>1, <2>3
<1>5. ASSUME NEW c \in Contacts,
             i = Import("outreach", Waiting(ApprovalAsked(c), None, {}), {"old card"}, SessionLive)
      PROVE  FlowInv(i.of) /\ Instance(flow[i.of]) /\ SessionTable(session, FrozenAt) /\ i.of = "outreach"
  <2> DEFINE s == ApprovalAsked(c)
  <2>1. OutreachState(s) /\ s.phase \in Asking
    BY <1>1 DEF OutreachTried, ChoiceAsked, ApprovalAsked, ReplyAwaited, OutreachOver, OutreachState, Asking, Committed, FailureState, NoFailure
  <2> HIDE DEF s
  <2>3. i = Import("outreach", Decision("waiting", s, None, {}), {"old card"}, SessionLive)
    BY <1>5 DEF Waiting, s
  <2> QED BY <1>2, <2>1, <2>3
<1>6. ASSUME NEW c \in Contacts,
             i = Import("outreach", Waiting(ReplyAwaited(c), None, {}), {"sent"}, SessionLive)
      PROVE  FlowInv(i.of) /\ Instance(flow[i.of]) /\ SessionTable(session, FrozenAt) /\ i.of = "outreach"
  <2> DEFINE s == ReplyAwaited(c)
  <2>1. OutreachState(s) /\ s.phase \in {"waiting-reply", "completed"}
    BY <1>1 DEF OutreachTried, ChoiceAsked, ApprovalAsked, ReplyAwaited, OutreachOver, OutreachState, Asking, Committed, FailureState, NoFailure
  <2> HIDE DEF s
  <2>3. i = Import("outreach", Decision("waiting", s, None, {}), {"sent"}, SessionLive)
    BY <1>6 DEF Waiting, s
  <2> QED BY <1>2, <2>1, <2>3
<1>7. ASSUME i = Import("outreach", Finished(OutreachOver), {"sent"}, SessionLive)
      PROVE  FlowInv(i.of) /\ Instance(flow[i.of]) /\ SessionTable(session, FrozenAt) /\ i.of = "outreach"
  <2> DEFINE s == OutreachOver
  <2>1. OutreachState(s) /\ s.phase \in {"waiting-reply", "completed"}
    BY <1>1 DEF OutreachTried, ChoiceAsked, ApprovalAsked, ReplyAwaited, OutreachOver, OutreachState, Asking, Committed, FailureState, NoFailure
  <2> HIDE DEF s
  <2>3. i = Import("outreach", Decision("completed", s, None, {}), {"sent"}, SessionLive)
    BY <1>7 DEF Finished, s
  <2> QED BY <1>2, <2>1, <2>3
<1> DEFINE asked == {ChoiceAsked(S) : S \in SUBSET Contacts}
                        \cup {ApprovalAsked(c) : c \in Contacts}
           A == {Import("outreach", d, {}, SessionLive) : d \in WaitingSince({OutreachTried(n) : n \in 0 .. 1}, Instants)}
           B == {Import("outreach", Waiting(s, None, {}), {"old card"}, SessionLive) : s \in asked}
           C == {Import("outreach", Waiting(ReplyAwaited(c), None, {}), {"sent"}, SessionLive) : c \in Contacts}
           D == {Import("outreach", Finished(OutreachOver), {"sent"}, SessionLive)}
<1>a. OutreachImports = A \cup B \cup C \cup D
  BY Zenon DEF OutreachImports
<1>b. i \in A => \E n \in 0 .. 1, t \in Instants : i = Import("outreach", Waiting(OutreachTried(n), t, {}), {}, SessionLive)
  <2>1. ASSUME NEW d \in WaitingSince({OutreachTried(n) : n \in 0 .. 1}, Instants)
        PROVE  \E n \in 0 .. 1, t \in Instants : d = Waiting(OutreachTried(n), t, {})
    <3>1. PICK s \in {OutreachTried(n) : n \in 0 .. 1}, t \in Instants : d = Waiting(s, t, {})
      BY WaitsSince
    <3> QED BY <3>1, Zenon
  <2>2. i \in A => \E d \in WaitingSince({OutreachTried(n) : n \in 0 .. 1}, Instants) : i = Import("outreach", d, {}, SessionLive)
    BY Zenon
  <2> QED BY <2>1, <2>2
<1>c. i \in B => \E s \in asked : i = Import("outreach", Waiting(s, None, {}), {"old card"}, SessionLive)
  BY Zenon
<1>d. i \in C => \E c \in Contacts :
                   i = Import("outreach", Waiting(ReplyAwaited(c), None, {}), {"sent"}, SessionLive)
  BY Zenon
<1>e. i \in D => i = Import("outreach", Finished(OutreachOver), {"sent"}, SessionLive)
  BY Zenon
<1>f. i \in A \/ i \in B \/ i \in C \/ i \in D
  <2> HIDE DEF A, B, C, D
  <2> QED BY <1>a
<1>9. ASSUME NEW s \in asked,
             i = Import("outreach", Waiting(s, None, {}), {"old card"}, SessionLive)
      PROVE  \/ \E S \in SUBSET Contacts :
                  i = Import("outreach", Waiting(ChoiceAsked(S), None, {}), {"old card"}, SessionLive)
             \/ \E c \in Contacts :
                  i = Import("outreach", Waiting(ApprovalAsked(c), None, {}), {"old card"}, SessionLive)
  BY <1>9, Zenon
<1> HIDE DEF A, B, C, D, asked
<1> QED BY <1>3, <1>4, <1>5, <1>6, <1>7, <1>9, <1>b, <1>c, <1>d, <1>e, <1>f, Zenon

LEMMA ResearchImported ==
  ASSUME NEW f \in {"research", "research-untracked"}, NEW d \in ResearchImports(f = "research"), FeatureAssumption,
         NEW i, i = Import(f, d, IF d.state.phase = "ready" THEN {} ELSE {"sent"}, SessionLive), Imported(i)
  PROVE  FlowInv(i.of) /\ Instance(flow[i.of]) /\ SessionTable(session, FrozenAt) /\ i.of = f
<1>0. FrozenAt \in Nat /\ None \notin Int
  BY FeatureAssumption DEF FeatureAssumption
<1> DEFINE tasked == f = "research"
           marks == IF d.state.phase = "ready" THEN {} ELSE {"sent"}
<1>1. PICK h \in BOOLEAN : h <=> tasked
  OBVIOUS
<1>2. d \in ResearchImports(h)
  BY <1>1
<1>3. i.of = f /\ i.marks = marks /\ i.session = SessionLive /\ i.row = d
  BY DEF Import
<1>4. /\ flow[f] = [status |-> d.status, state |-> d.state, wake |-> d.wake, fired |-> FALSE] /\ session = SessionLive
      /\ Marked(f, "sent") <=> "sent" \in marks
      /\ RowsOf(f) = {}
  <2>1. flow[f] = [status |-> d.status, state |-> d.state, wake |-> d.wake, fired |-> FALSE] /\ session = SessionLive
    BY <1>3 DEF Imported
  <2>2. i.of \in FlowKinds
    BY <1>3 DEF FlowKinds
  <2>3. RowsOf(f) = {} /\ (Marked(f, "sent") <=> f = i.of /\ "sent" \in i.marks)
    BY <2>2, ImportedMarks
  <2> HIDE DEF marks
  <2>4. i.of = f /\ i.marks = marks
    BY <1>3
  <2> QED BY <2>1, <2>3, <2>4
<1>5. ResearchStart(h, FrozenAt).state = [phase |-> "ready", seq |-> 0, told |-> FALSE, updated |-> ~h, failure |-> NoFailure]
  BY DEF ResearchStart, Waiting, Decision
<1> HIDE DEF marks, tasked
<1>6. ASSUME NEW s, NEW status \in {"waiting", "completed"}, NEW wake \in Int \cup {None}, d = Decision(status, s, wake, {}),
             ResearchState(s), s.phase \in {"ready", "waiting-reply", "syncing", "completed"},
             s.phase = "ready" => ~s.told /\ (s.updated => f # "research"),
             s.phase = "completed" => s.told /\ s.updated
      PROVE  FlowInv(i.of) /\ Instance(flow[i.of]) /\ SessionTable(session, FrozenAt) /\ i.of = f
  <2>1. d.state = s /\ d.status = status /\ d.wake = wake
    BY <1>6 DEF Decision
  <2>2. flow[f].state = s /\ (Marked(f, "sent") <=> s.phase # "ready")
    BY <1>4, <2>1 DEF marks
  <2>3. ResearchInv(f)
    BY <1>4, <1>6, <2>2 DEF ResearchInv
  <2>4. Instance(flow[f]) /\ SessionTable(session, FrozenAt)
    BY <1>0, <1>4, <1>6, <2>1 DEF Instance, Statuses, SessionTable, SessionLive
  <2> QED BY <1>3, <2>3, <2>4 DEF FlowInv, DailyFlows, IntakeFlows
<1>7. ASSUME NEW n \in 0 .. 1, NEW t \in Instants, d = Waiting(ResearchAt("ready", n, h), t, {})
      PROVE  FlowInv(i.of) /\ Instance(flow[i.of]) /\ SessionTable(session, FrozenAt) /\ i.of = f
  <2> DEFINE s == ResearchAt("ready", n, h)
  <2>1. ResearchState(s) /\ s.phase = "ready" /\ ~s.told /\ (s.updated => f # "research")
    <3>1. CASE h = TRUE
      <4>1. (~h) = FALSE
        BY <3>1
      <4>2. ResearchStart(h, FrozenAt).state = [phase |-> "ready", seq |-> 0, told |-> FALSE, updated |-> FALSE, failure |-> NoFailure]
        BY <1>5, <4>1, Zenon
      <4>3. /\ DOMAIN s = {"phase", "seq", "told", "updated", "failure"} /\ s.phase = "ready" /\ s.seq = n /\ s.failure = NoFailure
            /\ s.told = FALSE /\ s.updated = FALSE
        BY <4>2 DEF ResearchAt
      <4> HIDE DEF s
      <4>4. s.phase = "ready" /\ ~s.told /\ ~s.updated
        BY <4>3
      <4>5. ResearchState(s)
        <5>1. FailureState(NoFailure)
          BY DEF FailureState, NoFailure
        <5>2. s.told \in BOOLEAN /\ s.updated \in BOOLEAN
          BY <4>3
        <5>3. s.seq \in Nat
          BY <4>3
        <5> QED BY <4>3, <5>1, <5>2, <5>3 DEF ResearchState
      <4> QED BY <4>4, <4>5
    <3>2. CASE h = FALSE
      BY <1>1, <1>5, <3>2 DEF ResearchAt, ResearchState, FailureState, NoFailure, tasked
    <3> QED BY <3>1, <3>2
  <2>2. t \in Int
    BY <1>0 DEF Instants
  <2> HIDE DEF s
  <2>3. d = Decision("waiting", s, t, {})
    BY <1>7 DEF Waiting, s
  <2> QED BY <1>6, <2>1, <2>2, <2>3
<1>8. ASSUME d = Waiting(ResearchAt("waiting-reply", 0, h), None, {})
      PROVE  FlowInv(i.of) /\ Instance(flow[i.of]) /\ SessionTable(session, FrozenAt) /\ i.of = f
  <2> DEFINE s == ResearchAt("waiting-reply", 0, h)
  <2>1. ResearchState(s) /\ s.phase = "waiting-reply"
    BY <1>5 DEF ResearchAt, ResearchState, FailureState, NoFailure
  <2> HIDE DEF s
  <2>3. d = Decision("waiting", s, None, {})
    BY <1>8 DEF Waiting, s
  <2> QED BY <1>6, <2>1, <2>3
<1>9. ASSUME NEW t \in Instants, d = Waiting(ResearchTold(h), t, {})
      PROVE  FlowInv(i.of) /\ Instance(flow[i.of]) /\ SessionTable(session, FrozenAt) /\ i.of = f
  <2> DEFINE s == ResearchTold(h)
  <2>1. ResearchState(s) /\ s.phase = "syncing"
    BY <1>5 DEF ResearchTold, ResearchAt, ResearchState, FailureState, NoFailure
  <2>2. t \in Int
    BY <1>0 DEF Instants
  <2> HIDE DEF s
  <2>3. d = Decision("waiting", s, t, {})
    BY <1>9 DEF Waiting, s
  <2> QED BY <1>6, <2>1, <2>2, <2>3
<1>10. ASSUME d = Finished(ResearchOver(h))
       PROVE  FlowInv(i.of) /\ Instance(flow[i.of]) /\ SessionTable(session, FrozenAt) /\ i.of = f
  <2> DEFINE s == ResearchOver(h)
  <2>1. ResearchState(s) /\ s.phase = "completed" /\ s.told /\ s.updated
    BY <1>5 DEF ResearchOver, ResearchAt, ResearchState, FailureState, NoFailure
  <2> HIDE DEF s
  <2>3. d = Decision("completed", s, None, {})
    BY <1>10 DEF Finished, s
  <2> QED BY <1>6, <2>1, <2>3
<1>11. \/ d \in WaitingSince({ResearchAt("ready", n, h) : n \in 0 .. 1}, Instants)
       \/ d = Waiting(ResearchAt("waiting-reply", 0, h), None, {})
       \/ d \in WaitingSince({ResearchTold(h)}, {t \in Instants : h})
       \/ d = Finished(ResearchOver(h))
  BY <1>2 DEF ResearchImports
<1>12. CASE d \in WaitingSince({ResearchAt("ready", n, h) : n \in 0 .. 1}, Instants)
  <2>1. PICK s \in {ResearchAt("ready", n, h) : n \in 0 .. 1}, t \in Instants : d = Waiting(s, t, {})
    BY <1>12, WaitsSince
  <2>2. PICK n \in 0 .. 1 : s = ResearchAt("ready", n, h)
    BY Zenon
  <2> QED BY <1>7, <2>1, <2>2
<1>13. CASE d \in WaitingSince({ResearchTold(h)}, {t \in Instants : h})
  <2>1. PICK s \in {ResearchTold(h)}, t \in {x \in Instants : h} : d = Waiting(s, t, {})
    BY <1>13, WaitsSince
  <2> QED BY <1>9, <2>1
<1> QED BY <1>8, <1>10, <1>11, <1>12, <1>13

LEMMA SessionImported ==
  ASSUME NEW i \in SessionImports, FeatureAssumption, Imported(i)
  PROVE  FlowInv(i.of) /\ Instance(flow[i.of]) /\ SessionTable(session, FrozenAt) /\ i.of = "session"
<1>0. FrozenAt \in Nat /\ None \notin Int /\ DeleteAfter \in Nat
  BY FeatureAssumption DEF FeatureAssumption
<1>1. SessionStart(FrozenAt).state =
        [phase |-> "waiting", seq |-> 0, eligible |-> FALSE, archivedAt |-> None, failure |-> NoFailure, noticeAt |-> None]
  BY DEF SessionStart, Waiting, Decision
<1>2. ASSUME NEW s, NEW status \in {"waiting", "completed"}, NEW wake \in Int \cup {None}, NEW x,
             i = Import("session", Decision(status, s, wake, {}), {}, x),
             SessionTable(x, FrozenAt), SessionState(s), s.phase \in {"waiting", "archived", "completed"},
             s.phase = "completed" => ~x.exists,
             s.phase = "archived" => x.archivedAt = s.archivedAt /\ wake \in Int /\ wake >= s.archivedAt + DeleteAfter
      PROVE  FlowInv(i.of) /\ Instance(flow[i.of]) /\ SessionTable(session, FrozenAt) /\ i.of = "session"
  <2>1. /\ i.of = "session" /\ i.session = x
        /\ i.row.status = status /\ i.row.state = s /\ i.row.wake = wake
    BY <1>2 DEF Import, Decision
  <2>2. /\ flow["session"] = [status |-> status, state |-> s, wake |-> wake, fired |-> FALSE] /\ session = x
        /\ RowsOf("session") = {}
    BY <2>1, ImportedMarks DEF Imported, FlowKinds
  <2>3. flow["session"].state = s /\ flow["session"].wake = wake
    BY <2>2
  <2>4. s.phase = "archived" => s.archivedAt \in Nat
    BY <1>2 DEF SessionState
  <2>5. SessionInv
    BY <1>0, <1>2, <2>2, <2>3, <2>4 DEF SessionInv, SessionUndisturbed
  <2>6. Instance(flow["session"])
    BY <1>2, <2>2 DEF Instance, Statuses
  <2> QED BY <1>2, <2>1, <2>2, <2>5, <2>6 DEF FlowInv, DailyFlows, IntakeFlows
<1>3. ASSUME NEW op, NEW x \in OnceFailed(op) PROVE FailureState(x)
  BY <1>3 DEF OnceFailed, FailureState, NoFailure
<1>4. ASSUME NEW e \in BOOLEAN, NEW x \in OnceFailed("archiveSession"), NEW t \in Instants,
             i = Import("session", Waiting(SessionReady(e, x), t, {}), {}, SessionLive)
      PROVE  FlowInv(i.of) /\ Instance(flow[i.of]) /\ SessionTable(session, FrozenAt) /\ i.of = "session"
  <2> DEFINE s == SessionReady(e, x)
  <2>1. SessionState(s) /\ s.phase = "waiting"
    BY <1>1, <1>3 DEF SessionReady, SessionState
  <2>2. t \in Int
    BY <1>0 DEF Instants
  <2>3. SessionTable(SessionLive, FrozenAt)
    BY DEF SessionTable, SessionLive
  <2> HIDE DEF s
  <2>4. i = Import("session", Decision("waiting", s, t, {}), {}, SessionLive)
    BY <1>4 DEF Waiting, s
  <2> QED BY <1>2, <2>1, <2>2, <2>3, <2>4
<1>5. ASSUME NEW a \in 0 .. FrozenAt, NEW x \in OnceFailed("deleteSession"), NEW t \in Instants,
             i = Import("session", Waiting(SessionAway("archived", a, x), SessionWake(a, t), {}), {}, ArchivedSession(a))
      PROVE  FlowInv(i.of) /\ Instance(flow[i.of]) /\ SessionTable(session, FrozenAt) /\ i.of = "session"
  <2> DEFINE s == SessionAway("archived", a, x)
             w == SessionWake(a, t)
  <2>1. SessionState(s) /\ s.phase = "archived" /\ s.archivedAt = a
    BY <1>0, <1>1, <1>3 DEF SessionAway, SessionState
  <2>2. w \in Int /\ w >= a + DeleteAfter
    BY <1>0 DEF SessionWake, Later, Instants
  <2>3. SessionTable(ArchivedSession(a), FrozenAt) /\ ArchivedSession(a).archivedAt = a
    BY DEF SessionTable, ArchivedSession
  <2> HIDE DEF s, w
  <2>4. i = Import("session", Decision("waiting", s, w, {}), {}, ArchivedSession(a))
    BY <1>5 DEF Waiting, s, w
  <2> QED BY <1>2, <2>1, <2>2, <2>3, <2>4
<1>6. ASSUME i = Import("session", Finished(SessionAway("completed", 0, NoFailure)), {}, [exists |-> FALSE, archivedAt |-> 0])
      PROVE  FlowInv(i.of) /\ Instance(flow[i.of]) /\ SessionTable(session, FrozenAt) /\ i.of = "session"
  <2> DEFINE s == SessionAway("completed", 0, NoFailure)
             x == [exists |-> FALSE, archivedAt |-> 0]
  <2>1. SessionState(s) /\ s.phase = "completed"
    BY <1>1 DEF SessionAway, SessionState, FailureState, NoFailure
  <2>2. SessionTable(x, FrozenAt) /\ ~x.exists
    BY <1>0 DEF SessionTable
  <2> HIDE DEF s, x
  <2>3. i = Import("session", Decision("completed", s, None, {}), {}, x)
    BY <1>6 DEF Finished, s, x
  <2> QED BY <1>2, <2>1, <2>2, <2>3
<1> DEFINE ready == UNION {{SessionReady(e, x) : x \in OnceFailed("archiveSession")} : e \in BOOLEAN}
           away(a) == {SessionAway("archived", a, x) : x \in OnceFailed("deleteSession")}
           late(a) == {SessionWake(a, t) : t \in Instants}
           A == {Import("session", d, {}, SessionLive) : d \in WaitingSince(ready, Instants)}
           B(a) == {Import("session", d, {}, ArchivedSession(a)) : d \in WaitingSince(away(a), late(a))}
<1>7. \/ i \in A \/ \E a \in 0 .. FrozenAt : i \in B(a)
      \/ i = Import("session", Finished(SessionAway("completed", 0, NoFailure)), {}, [exists |-> FALSE, archivedAt |-> 0])
  <2> DEFINE C == {Import("session", Finished(SessionAway("completed", 0, NoFailure)), {}, [exists |-> FALSE, archivedAt |-> 0])}
  <2>1. SessionImports = A \cup C \cup (UNION {B(a) : a \in 0 .. FrozenAt})
    BY Zenon DEF SessionImports
  <2> HIDE DEF A, B
  <2>2. i \in UNION {B(a) : a \in 0 .. FrozenAt} => \E a \in 0 .. FrozenAt : i \in B(a)
    BY Zenon
  <2> QED BY <2>1, <2>2
<1>8. CASE i \in A
  <2>1. PICK d \in WaitingSince(ready, Instants) : i = Import("session", d, {}, SessionLive)
    BY <1>8, Zenon
  <2>2. PICK s \in ready, t \in Instants : d = Waiting(s, t, {})
    BY WaitsSince
  <2>3. PICK e \in BOOLEAN : s \in {SessionReady(e, x) : x \in OnceFailed("archiveSession")}
    BY <2>2, Zenon
  <2>4. PICK x \in OnceFailed("archiveSession") : s = SessionReady(e, x)
    BY <2>3, Zenon
  <2> QED BY <1>4, <2>1, <2>2, <2>4
<1>9. CASE \E a \in 0 .. FrozenAt : i \in B(a)
  <2>1. PICK a \in 0 .. FrozenAt : i \in B(a)
    BY <1>9
  <2>2. PICK d \in WaitingSince(away(a), late(a)) : i = Import("session", d, {}, ArchivedSession(a))
    BY <2>1, Zenon
  <2>3. PICK s \in away(a), w \in late(a) : d = Waiting(s, w, {})
    BY WaitsSince
  <2>4. PICK x \in OnceFailed("deleteSession") : s = SessionAway("archived", a, x)
    BY <2>3, Zenon
  <2>5. PICK t \in Instants : w = SessionWake(a, t)
    BY <2>3, Zenon
  <2> QED BY <1>5, <2>2, <2>3, <2>4, <2>5
<1> QED BY <1>6, <1>7, <1>8, <1>9

LEMMA DailyImported ==
  ASSUME NEW f \in {"review", "overdue", "cleanup"}, FeatureAssumption,
         NEW d \in IF f = "review" THEN ReviewImports ELSE IF f = "overdue" THEN OverdueImports ELSE CleanupImports,
         NEW i, i = Import(f, d, {}, SessionLive), Imported(i)
  PROVE  FlowInv(i.of) /\ Instance(flow[i.of]) /\ SessionTable(session, FrozenAt) /\ i.of = f
<1>0. FrozenAt \in Nat /\ None \notin Int
  BY FeatureAssumption DEF FeatureAssumption
<1>1. i.of = f /\ i.session = SessionLive /\ i.row = d
  BY DEF Import
<1>2. flow[f] = [status |-> d.status, state |-> d.state, wake |-> d.wake, fired |-> FALSE] /\ session = SessionLive
  BY <1>1 DEF Imported
<1>3. RowsOf(f) = {}
  BY <1>1, ImportedMarks DEF FlowKinds
<1>4. ASSUME NEW s, d = Waiting(s, FrozenAt, {}), DailyState(f, s)
      PROVE  FlowInv(i.of) /\ Instance(flow[i.of]) /\ SessionTable(session, FrozenAt) /\ i.of = f
  <2>1. d.state = s /\ d.status = "waiting" /\ d.wake = FrozenAt
    BY <1>4 DEF Waiting, Decision
  <2>2. DailyInv(f) /\ Instance(flow[f])
    BY <1>0, <1>2, <1>3, <1>4, <2>1 DEF DailyInv, Instance, Statuses
  <2>3. SessionTable(session, FrozenAt)
    BY <1>2 DEF SessionTable, SessionLive
  <2> QED BY <1>1, <2>2, <2>3 DEF FlowInv, DailyFlows, IntakeFlows
<1>5. CASE f = "review"
  <2>1. PICK s \in {ReviewReady(day) : day \in {None, DayOf(FrozenAt)}}, t \in {FrozenAt} : d = Waiting(s, t, {})
    BY <1>5, WaitsSince DEF ReviewImports
  <2>2. PICK day : s = ReviewReady(day)
    BY Zenon
  <2>3. DailyState(f, s)
    BY <1>5, <2>2 DEF ReviewReady, ReviewStart, Waiting, Decision, DailyState
  <2> QED BY <1>4, <2>1, <2>3
<1>6. CASE f = "overdue"
  <2> DEFINE Q(x) == UNION {{OverdueReady(S, p, x) : S \in SUBSET Tasks} : p \in Prints}
             R == UNION {Q(x) : x \in LegacyFailures}
  <2>1. PICK s \in R, t \in {FrozenAt} : d = Waiting(s, t, {})
    BY <1>6, WaitsSince DEF OverdueImports
  <2>2. PICK x : s \in Q(x)
    <3> HIDE DEF Q
    <3> QED BY <2>1
  <2>3. PICK p : s \in {OverdueReady(S, p, x) : S \in SUBSET Tasks}
    BY <2>2, Zenon
  <2>4. PICK S : s = OverdueReady(S, p, x)
    BY <2>3, Zenon
  <2>5. DailyState(f, s)
    BY <1>6, <2>4 DEF OverdueReady, OverdueStart, Waiting, Decision, DailyState
  <2> QED BY <1>4, <2>1, <2>5
<1>7. CASE f = "cleanup"
  <2> DEFINE R == UNION {{CleanupReady(day, x) : day \in {None, LocalDay(FrozenAt)}} : x \in LegacyFailures}
  <2>1. PICK s \in R, t \in {FrozenAt} : d = Waiting(s, t, {})
    BY <1>7, WaitsSince DEF CleanupImports
  <2>2. PICK x : s \in {CleanupReady(day, x) : day \in {None, LocalDay(FrozenAt)}}
    BY <2>1, Zenon
  <2>3. PICK day : s = CleanupReady(day, x)
    BY <2>2, Zenon
  <2>4. DailyState(f, s)
    BY <1>7, <2>3 DEF CleanupReady, CleanupStart, Waiting, Decision, DailyState
  <2> QED BY <1>4, <2>1, <2>4
<1> QED BY <1>5, <1>6, <1>7

LEMMA ImportStarts ==
  ASSUME NEW i \in Imports, FeatureAssumption, Imported(i)
  PROVE  FlowInv(i.of) /\ Instance(flow[i.of]) /\ SessionTable(session, FrozenAt)
<1> DEFINE R(f) == {Import(f, d, IF d.state.phase = "ready" THEN {} ELSE {"sent"}, SessionLive) : d \in ResearchImports(f = "research")}
           D(f, S) == {Import(f, d, {}, SessionLive) : d \in S}
<1>1. \/ i \in SessionImports \/ i \in OutreachImports
      \/ i \in D("review", ReviewImports) \/ i \in D("overdue", OverdueImports) \/ i \in D("cleanup", CleanupImports)
      \/ i \in UNION {R(f) : f \in {"research", "research-untracked"}}
  BY Zenon DEF Imports
<1>2. CASE i \in SessionImports
  BY <1>2, SessionImported
<1>3. CASE i \in OutreachImports
  BY <1>3, FollowupImported
<1>4. CASE i \in D("review", ReviewImports)
  <2>1. PICK d \in ReviewImports : i = Import("review", d, {}, SessionLive)
    BY <1>4, Zenon
  <2> QED BY <2>1, DailyImported
<1>5. CASE i \in D("overdue", OverdueImports)
  <2>1. PICK d \in OverdueImports : i = Import("overdue", d, {}, SessionLive)
    BY <1>5, Zenon
  <2> QED BY <2>1, DailyImported
<1>6. CASE i \in D("cleanup", CleanupImports)
  <2>1. PICK d \in CleanupImports : i = Import("cleanup", d, {}, SessionLive)
    BY <1>6, Zenon
  <2> QED BY <2>1, DailyImported
<1>7. CASE i \in UNION {R(f) : f \in {"research", "research-untracked"}}
  <2>1. PICK f \in {"research", "research-untracked"} : i \in R(f)
    BY <1>7, Zenon
  <2>2. PICK d \in ResearchImports(f = "research") :
          i = Import(f, d, IF d.state.phase = "ready" THEN {} ELSE {"sent"}, SessionLive)
    BY <2>1, Zenon
  <2> QED BY <2>2, ResearchImported
<1> QED BY <1>1, <1>2, <1>3, <1>4, <1>5, <1>6, <1>7

LEMMA ImportsBegin ==
  ASSUME ImportInit, FeatureAssumption
  PROVE  FlowsInv
<1>1. PICK i \in {x \in Imports : x.of \in Flows} :
        /\ now = FrozenAt
        /\ flow = [f \in Flows |-> IF f # i.of THEN Absent
                     ELSE [status |-> i.row.status, state |-> i.row.state, wake |-> i.row.wake, fired |-> FALSE]]
        /\ outbox = << >> /\ session = i.session /\ heard = {<<i.of, m, None>> : m \in i.marks}
        /\ spent = [answers |-> 0, failures |-> 0, retries |-> 0, faults |-> 0, touches |-> 0]
  BY Zenon DEF ImportInit
<1>2. i \in Imports /\ i.of \in Flows
  BY Zenon
<1>3. Imported(i)
  BY <1>1, <1>2 DEF Imported
<1>4. FlowInv(i.of) /\ Instance(flow[i.of]) /\ SessionTable(session, FrozenAt)
  BY <1>2, <1>3, ImportStarts
<1>5. ASSUME NEW f \in Flows \ {i.of} PROVE FlowInv(f) /\ Instance(flow[f])
  <2>1. flow[f] = Absent
    BY <1>1
  <2>2. flow[f].status = "absent" /\ Instance(flow[f])
    BY <2>1 DEF Absent, Instance, Statuses
  <2> QED BY <2>2 DEF FlowInv, OutreachInv, ResearchInv, SessionInv, DiscoveryInv, DailyInv, IntakeInv, PolicyInv
<1>6. now \in Nat /\ now = FrozenAt /\ DOMAIN flow = Flows /\ DOMAIN outbox = {}
      /\ spent \in [answers : Nat, failures : Nat, retries : 0 .. MaxFaults, faults : 0 .. MaxFaults, touches : 0 .. MaxTouches]
  <2>1. FrozenAt \in Nat /\ MaxFaults \in Nat /\ MaxTouches \in Nat
    BY FeatureAssumption DEF FeatureAssumption
  <2>2. now = FrozenAt /\ outbox = << >>
        /\ spent = [answers |-> 0, failures |-> 0, retries |-> 0, faults |-> 0, touches |-> 0]
    BY <1>1, Zenon
  <2>3. DOMAIN flow = Flows
    BY <1>1
  <2>4. spent \in [answers : Nat, failures : Nat, retries : 0 .. MaxFaults, faults : 0 .. MaxFaults, touches : 0 .. MaxTouches]
    BY <2>1, <2>2
  <2> QED BY <2>1, <2>2, <2>3, <2>4
<1>7. Tables
  BY <1>4, <1>5, <1>6 DEF Tables, SessionTable
<1> QED BY <1>4, <1>5, <1>7 DEF FlowsInv

\* Every workflow keeps what its state says of its rows and of the world
THEOREM FlowsKept ==
  Spec => []FlowsInv
<1> USE FeatureAssumption
<1>1. Init \/ ImportInit => FlowsInv
  BY FlowsBegin, ImportsBegin
<1>2. FlowsInv /\ [Next]_vars => FlowsInv'
  BY FlowsStep
<1> QED BY <1>1, <1>2, PTL DEF Spec

-----------------------------------------------------------------------------
(* What follows of them *)

LEMMA FlowFacts ==
  ASSUME FlowsInv, FeatureAssumption, NEW f \in Flows
  PROVE  /\ Tables /\ FlowInv(f) /\ f \in FlowKinds
         /\ \A id \in RowsOf(f) : /\ id \in DOMAIN outbox /\ flow[f].status # "absent" /\ outbox[id].of = f
                                  /\ EffectRow(outbox[id]) /\ id = <<f, outbox[id].effect.id>>
<1>1. Tables /\ FlowInv(f) /\ f \in FlowKinds
  BY DEF FlowsInv, FeatureAssumption
<1> QED BY <1>1 DEF Tables, RowsOf

\* The kinds of effects tell the workflows apart
LEMMA KindsOfRows ==
  ASSUME FlowsInv, FeatureAssumption, NEW f \in Flows, NEW id \in RowsOf(f)
  PROVE  /\ outbox[id].effect.kind = "sendAsUser" => f \in {"outreach", "research", "research-untracked"}
         /\ outbox[id].effect.kind = "deleteSession" => f = "session"
<1>1. FlowInv(f) /\ f \in FlowKinds /\ flow[f].status # "absent"
  BY FlowFacts
<1>2. CASE f = "outreach"
  BY <1>1, <1>2 DEF FlowInv, OutreachInv, OutreachEffect
<1>3. CASE f \in {"research", "research-untracked"}
  BY <1>1, <1>3 DEF FlowInv, ResearchInv, ResearchEffect
<1>4. CASE f = "session"
  BY <1>1, <1>4 DEF FlowInv, SessionInv, SessionRow, SessionKind
<1>5. CASE f = "discovery"
  BY <1>1, <1>5 DEF FlowInv, DiscoveryInv, DiscoveryEffect
<1>6. CASE f \in DailyFlows
  BY <1>1, <1>6 DEF FlowInv, DailyInv, DailyKinds, DailyFlows
<1>7. CASE f \in IntakeFlows
  BY <1>1, <1>7 DEF FlowInv, IntakeInv, IntakeKinds, IntakeFlows
<1>8. CASE f = "policy"
  BY <1>1, <1>8 DEF FlowInv, PolicyInv
<1> QED BY <1>1, <1>2, <1>3, <1>4, <1>5, <1>6, <1>7, <1>8 DEF FlowKinds, DailyFlows, IntakeFlows

\* The world sees one message of an outreach, and of a research request, whatever is
\* executed again, and the owner approved of its receiver (sendEffect's idempotency key)
LEMMA MessageApproved ==
  ASSUME FlowsInv, FeatureAssumption
  PROVE  OneApprovedMessage
<1> SUFFICES ASSUME NEW f \in Flows, NEW i \in Executed(f, "sendAsUser"), NEW j \in Executed(f, "sendAsUser")
             PROVE  /\ outbox[i].effect.key = outbox[j].effect.key
                    /\ outbox[i].effect.about = outbox[j].effect.about
                    /\ f = "outreach" => <<f, "approved", outbox[i].effect.about>> \in heard
                    /\ ~Marked(f, "sent")
  BY DEF OneApprovedMessage
<1>1. /\ i \in RowsOf(f) /\ j \in RowsOf(f)
      /\ outbox[i].effect.kind = "sendAsUser" /\ outbox[j].effect.kind = "sendAsUser"
  BY DEF Executed
<1>2. FlowInv(f) /\ flow[f].status # "absent"
  BY <1>1, FlowFacts
<1>3. f \in {"outreach", "research", "research-untracked"}
  BY <1>1, KindsOfRows
<1>4. CASE f = "outreach"
  BY <1>1, <1>2, <1>4 DEF FlowInv, OutreachInv, OutreachEffect
<1>5. CASE f \in {"research", "research-untracked"}
  BY <1>1, <1>2, <1>5 DEF FlowInv, ResearchInv, ResearchEffect
<1> QED BY <1>3, <1>4, <1>5

LEMMA DoneWhenCompleted ==
  ASSUME FlowsInv, FeatureAssumption
  PROVE  CompletedMeansDone
<1> SUFFICES ASSUME NEW f \in Flows, flow[f].status # "absent", Phase(f) = "completed", ~Marked(f, "sent")
             PROVE  CASE f = "outreach" ->
                           \/ \E c \in Contacts : <<f, "declined", c>> \in heard
                           \/ /\ Executed(f, "sendAsUser") # {} /\ <<f, "reply", None>> \in heard
                              /\ Executed(f, "recordFollowupReply") # {} /\ Executed(f, "notifyOwner") # {}
                      [] f \in {"research", "research-untracked"} ->
                           /\ <<f, "reply", "final">> \in heard /\ Executed(f, "notifyOwner") # {}
                           /\ f = "research" => Executed(f, "recordResearchResult") # {}
                      [] f = "session" -> ~session.exists
                      [] f = "policy" -> Cardinality(Executed(f, "applyDecision")) = 1
                      [] OTHER -> \A id \in RowsOf(f) : outbox[id].tried
  BY DEF CompletedMeansDone
<1>1. FlowInv(f) /\ f \in FlowKinds /\ flow[f].state.phase = "completed"
  BY FlowFacts DEF Phase
<1>2. CASE f = "outreach"
  BY <1>1, <1>2 DEF FlowInv, OutreachInv
<1>3. CASE f \in {"research", "research-untracked"}
  BY <1>1, <1>3 DEF FlowInv, ResearchInv
<1>4. CASE f = "session"
  BY <1>1, <1>4 DEF FlowInv, SessionInv
<1>5. CASE f = "policy"
  <2>1. PICK x : x \in Executed(f, "applyDecision")
    BY <1>1, <1>5 DEF FlowInv, PolicyInv
  <2>2. \A i \in Executed(f, "applyDecision") : i = x
    BY <1>1, <1>5, <2>1 DEF FlowInv, PolicyInv, Applications, Executed
  <2>3. Executed(f, "applyDecision") = {x}
    BY <2>1, <2>2
  <2>4. Cardinality(Executed(f, "applyDecision")) = 1
    BY <2>3, FS_Singleton
  <2> QED BY <1>5, <2>4
<1>6. CASE f \in DailyFlows \cup {"discovery"}
  BY <1>1, <1>6 DEF FlowInv, DailyFlows, DailyInv, DailyState, DiscoveryInv, DiscoveryState
<1>7. CASE f \in IntakeFlows
  <2>1. IntakeInv(f) /\ flow[f].state.pending = {}
    BY <1>1, <1>7 DEF FlowInv, IntakeInv, IntakeState
  <2>2. ASSUME NEW id \in RowsOf(f) PROVE outbox[id].tried
    <3>1. EffectRow(outbox[id])
      BY FlowFacts
    <3>2. outbox[id].status \notin {"failed", "pending", "executed"}
      BY <1>1, <2>1 DEF IntakeInv
    <3> QED BY <3>1, <3>2 DEF EffectRow, EffectStatus
  <2> QED BY <1>7, <2>2 DEF IntakeFlows
<1> QED BY <1>1, <1>2, <1>3, <1>4, <1>5, <1>6, <1>7 DEF FlowKinds, DailyFlows, IntakeFlows

LEMMA ScansOverlap ==
  ASSUME FlowsInv, FeatureAssumption
  PROVE  NoScanGap
<1> SUFFICES ASSUME "discovery" \in Flows, flow["discovery"].status # "absent", spent.faults = 0, flow["discovery"].state.last # None
             PROVE  \A v \in Scanned : \A t \in v.from .. flow["discovery"].state.last :
                      \E w \in Scanned : w.from <= t /\ t <= w.until
  BY DEF NoScanGap, Running
<1>1. FlowInv("discovery")
  BY FlowFacts
<1> QED BY <1>1 DEF FlowInv, DiscoveryInv, DiscoveryUndisturbed

LEMMA TypesOfTables ==
  ASSUME Tables
  PROVE  TypeOK
<1>1. \A f \in Flows : [status |-> flow[f].status, wake |-> flow[f].wake, fired |-> flow[f].fired] \in FlowRow
  BY DEF Tables, Instance, FlowRow, Statuses
<1>2. \A id \in DOMAIN outbox :
       /\ outbox[id].status \in EffectStatus /\ outbox[id].of \in Flows
       /\ id = <<outbox[id].of, outbox[id].effect.id>> /\ outbox[id].at \in 0 .. now + 1 /\ outbox[id].tried \in BOOLEAN
  BY DEF Tables, EffectRow
<1> QED BY <1>1, <1>2 DEF Tables, TypeOK

\* A transition commits if the ids of its effects are new to its instance
LEMMA NewIdsCommit ==
  ASSUME Tables, NEW f \in Flows, NEW event, NEW d, d = Reduce(f, flow[f].state, event), d # Refused,
         \A e \in d.effects : \A id \in RowsOf(f) : outbox[id].effect.id # e.id
  PROVE  Commits(f, event)
<1>1. ASSUME NEW id \in DOMAIN outbox, id \in Ids(f, d.effects) PROVE FALSE
  <2>1. PICK e \in d.effects : id = <<f, e.id>>
    BY <1>1 DEF Ids
  <2>2. id = <<outbox[id].of, outbox[id].effect.id>>
    BY DEF Tables
  <2>3. outbox[id].of = f /\ outbox[id].effect.id = e.id
    BY <2>1, <2>2
  <2> QED BY <2>1, <2>3 DEF RowsOf
<1> QED BY <1>1 DEF Commits

\* A due timer is never refused, and never repeats an id: it is dispatched, and the pass
\* goes on to the effects (DurableWorkflowRuntime.runOnce)
LEMMA DueTimersCommit ==
  ASSUME FlowsInv, FeatureAssumption
  PROVE  TimersCommit
<1> SUFFICES ASSUME NEW f \in Flows, f # "cleanup", Due(f)
             PROVE  Commits(f, Timer(f))
  BY DEF TimersCommit, TimerCommits
<1> DEFINE s == flow[f].state
           event == Timer(f)
           d == Reduce(f, s, event)
<1>1. Tables /\ FlowInv(f) /\ f \in FlowKinds
  BY FlowFacts
<1>2. /\ flow[f].status # "absent" /\ flow[f].wake # None /\ flow[f].wake <= now /\ now \in Nat
      /\ flow[f].wake \in Int
  BY <1>1 DEF Due, Tables, Instance
<1>3. event.type = "timer" /\ event.at = now /\ event.data = flow[f].wake
  BY DEF Timer, TimerEvent
<1> HIDE DEF event
<1>4. CASE f = "outreach"
  <2>1. d = Outreach(s, event) /\ OutreachInv
    BY <1>1, <1>4 DEF Reduce, FlowInv
  <2>2. OutreachState(s) /\ \A id \in RowsOf(f) : OutreachId(outbox[id].effect.id, s.seq)
    BY <1>2, <1>4, <2>1 DEF OutreachInv, OutreachEffect
  <2>3. d # Refused /\ \A e \in d.effects : ~OutreachId(e.id, s.seq)
    BY <1>3, <2>1, <2>2, OutreachTimed
  <2> HIDE DEF d
  <2>4. \A e \in d.effects : \A id \in RowsOf(f) : outbox[id].effect.id # e.id
    BY <2>2, <2>3
  <2> QED BY <1>1, <2>3, <2>4, NewIdsCommit DEF d, event
<1>5. CASE f \in {"research", "research-untracked"}
  <2>1. d = ResearchFlow(s, event) /\ ResearchInv(f)
    BY <1>1, <1>5 DEF Reduce, FlowInv
  <2>2. ResearchState(s) /\ \A id \in RowsOf(f) : ResearchId(outbox[id].effect.id, s.seq)
    BY <1>2, <2>1 DEF ResearchInv, ResearchEffect
  <2>3. d # Refused /\ \A e \in d.effects : ~ResearchId(e.id, s.seq)
    BY <1>3, <2>1, <2>2, ResearchTimed
  <2> HIDE DEF d
  <2>4. \A e \in d.effects : \A id \in RowsOf(f) : outbox[id].effect.id # e.id
    BY <2>2, <2>3
  <2> QED BY <1>1, <2>3, <2>4, NewIdsCommit DEF d, event
<1>6. CASE f = "session"
  <2>1. d = Session(s, event) /\ SessionInv
    BY <1>1, <1>6 DEF Reduce, FlowInv
  <2>2. SessionState(s) /\ \A id \in RowsOf(f) : SessionId(outbox[id].effect.id, s.seq)
    BY <1>2, <1>6, <2>1 DEF SessionInv, SessionRow, SessionKind
  <2>3. CASE s.phase \in {"waiting", "archived"}
    <3>1. d # Refused /\ \A e \in d.effects : ~SessionId(e.id, s.seq)
      BY <1>2, <1>3, <2>1, <2>2, <2>3, SessionTimed
    <3> HIDE DEF d
    <3>2. \A e \in d.effects : \A id \in RowsOf(f) : outbox[id].effect.id # e.id
      BY <2>2, <3>1
    <3> QED BY <1>1, <3>1, <3>2, NewIdsCommit DEF d, event
  <2>4. CASE s.phase \notin {"waiting", "archived"}
    <3>1. d # Refused /\ d.effects = {}
      BY <1>3, <2>1, <2>4 DEF Session, SessionTimer, SessionOther, IsVerdict, Unchanged, Waiting, Decision, Refused
    <3> HIDE DEF d
    <3> QED BY <1>1, <3>1, NewIdsCommit DEF d, event
  <2> QED BY <2>3, <2>4
<1>7. CASE f = "discovery"
  <2>1. d = Discovery(s, event) /\ DiscoveryInv
    BY <1>1, <1>7 DEF Reduce, FlowInv
  <2>2. DiscoveryState(s) /\ \A id \in RowsOf(f) : DiscoveryId(outbox[id].effect.id, s.seq)
    BY <1>2, <1>7, <2>1 DEF DiscoveryInv, DiscoveryEffect
  <2>3. CASE s.phase = "scheduled"
    <3>0. /\ Discovery(s, event) # Refused
          /\ \E e : Discovery(s, event).effects = {e} /\ ~DiscoveryId(e.id, s.seq)
      BY <1>2, <1>3, <2>2, <2>3, DiscoveryTimed
    <3>1. d # Refused /\ \A e \in d.effects : ~DiscoveryId(e.id, s.seq)
      BY <2>1, <3>0
    <3> HIDE DEF d
    <3>2. \A e \in d.effects : \A id \in RowsOf(f) : outbox[id].effect.id # e.id
      BY <2>2, <3>1
    <3> QED BY <1>1, <3>1, <3>2, NewIdsCommit DEF d, event
  <2>4. CASE s.phase # "scheduled"
    <3>1. d # Refused /\ d.effects = {}
      BY <1>3, <2>1, <2>4 DEF Discovery, Delivered, Failed, IsVerdict, Unchanged, Waiting, Decision, Refused
    <3> HIDE DEF d
    <3> QED BY <1>1, <3>1, NewIdsCommit DEF d, event
  <2> QED BY <2>3, <2>4
<1>8. CASE f \in DailyFlows
  <2>1. DailyInv(f)
    BY <1>1, <1>8 DEF FlowInv
  <2>2. /\ DailyState(f, s)
        /\ \A id \in RowsOf(f) : DailyId(f, outbox[id].effect.id, s, flow[f].wake, now)
    BY <1>2, <2>1 DEF DailyInv
  <2>3. DailyTurn(f, s, flow[f].wake, event, d)
    <3>1. CASE f = "review"
      BY <1>2, <1>3, <2>2, <3>1, ReviewTurn DEF Reduce
    <3>2. CASE f = "overdue"
      <4>1. DailyTurn("overdue", s, flow[f].wake, event, Overdue(s, event))
        BY <1>2, <1>3, <2>2, <3>2, OverdueTurn
      <4> QED BY <3>2, <4>1 DEF Reduce
    <3>3. CASE f = "brief"
      BY <1>2, <1>3, <2>2, <3>3, BriefTurn DEF Reduce
    <3> QED BY <1>8, <3>1, <3>2, <3>3 DEF DailyFlows
  <2> HIDE DEF d
  <2>4. d # Refused /\ \A e \in d.effects : ~DailyId(f, e.id, s, flow[f].wake, now)
    BY <1>3, <2>3 DEF DailyTurn
  <2>5. \A e \in d.effects : \A id \in RowsOf(f) : outbox[id].effect.id # e.id
    BY <2>2, <2>4
  <2> QED BY <1>1, <2>4, <2>5, NewIdsCommit DEF d, event
<1>9. CASE f \in IntakeFlows \cup {"policy"}
  <2>1. flow[f].wake = None
    BY <1>1, <1>2, <1>9 DEF FlowInv, IntakeInv, PolicyInv
  <2> QED BY <1>2, <2>1
<1> QED BY <1>1, <1>4, <1>5, <1>6, <1>7, <1>8, <1>9 DEF FlowKinds, DailyFlows, IntakeFlows

\* A session is deleted by an effect that names the moment it was asked for and the instant
\* since when the workflow believes the session archived; an untouched session has been
\* archived for at least as long (CodexSessionEffectAdapter.delete)
LEMMA RetentionOver ==
  ASSUME FlowsInv, FeatureAssumption, [Next]_vars, session.exists, ~session'.exists, spent.touches = 0
  PROVE  now - session.archivedAt >= IF spent.faults = 0 THEN DeleteAfter ELSE MinArchived
<1>1. Tables
  BY DEF FlowsInv
<1>2. PICK id \in DOMAIN outbox : /\ outbox[id].status = "pending" /\ outbox[id].effect.kind = "deleteSession"
                                  /\ MayDelete(outbox[id].effect) /\ session.archivedAt # None
  BY <1>1, StepOfTheSession DEF SessionChange
<1> DEFINE f == outbox[id].of
           e == outbox[id].effect
           s == flow[f].state
<1>3. f \in Flows /\ id \in RowsOf(f)
  BY <1>1 DEF Tables, EffectRow, RowsOf
<1>4. f = "session"
  BY <1>2, <1>3, KindsOfRows
<1>5. SessionInv /\ flow[f].status # "absent"
  BY <1>3, <1>4, FlowFacts DEF FlowInv
<1>6. SessionRow(id, s) /\ SessionState(s) /\ (spent.faults = 0 => SessionUndisturbed(s))
  BY <1>3, <1>4, <1>5 DEF SessionInv
<1>7. /\ e.about.archivedAt \in Nat /\ e.about.at \in Nat /\ e.about.at <= now
      /\ session.archivedAt <= e.about.archivedAt
  BY <1>2, <1>6 DEF SessionRow, SessionKind
<1>8. now \in Nat /\ session.archivedAt \in Nat /\ MinArchived \in Nat /\ DeleteAfter \in Nat
  BY <1>1, <1>2, FeatureAssumption DEF Tables, FeatureAssumption
<1>9. e.about.at - e.about.archivedAt >= MinArchived
  BY <1>2 DEF MayDelete
<1>10. CASE spent.faults = 0
  <2>1. Open(id)
    BY <1>2 DEF Open
  <2>2. e.about.archivedAt = s.archivedAt /\ e.about.at >= s.archivedAt + DeleteAfter
    BY <1>2, <1>3, <1>4, <1>6, <1>10, <2>1 DEF SessionUndisturbed
  <2> HIDE DEF e, s
  <2> QED BY <1>7, <1>8, <1>10, <2>2
<1>11. CASE spent.faults # 0
  <2> HIDE DEF e
  <2> QED BY <1>7, <1>8, <1>9, <1>11
<1> QED BY <1>10, <1>11

\* What comes late finds the workflow over (the reducers' default arms), unless a fault has
\* made it hear of an effect before its row was settled
LEMMA OverStaysOver ==
  ASSUME FlowsInv, FeatureAssumption, [Next]_vars, NEW f \in Flows, flow[f].status # "absent", Over(f)
  PROVE  flow'[f].state.phase = Phase(f) \/ spent.faults > 0
<1> DEFINE s == flow[f].state
<1>1. Tables /\ FlowInv(f) /\ f \in FlowKinds /\ s.phase \in {"completed", "failed"}
  BY FlowFacts DEF Over, Phase
<1>2. FlowStep(f)
  BY <1>1, StepOfAFlow
<1>3. CASE Quiet(f)
  BY <1>1, <1>3, AfterQuiet DEF Phase
<1>4. ASSUME NEW event, NEW touched, Turn(f, event, touched), event.type \in {"timer", "delivered", "failed"} \cup AnswerTypes
      PROVE  flow'[f].state.phase = s.phase \/ spent.faults > 0
  <2> DEFINE d == Reduce(f, s, event)
  <2>1. flow'[f].state = d.state
    BY <1>4 DEF Turn, Decides
  <2>2. CASE f = "outreach"
    <3>1. OutreachTurn(s, event, Outreach(s, event)) /\ d = Outreach(s, event)
      BY <1>1, <1>4, <2>2, OutreachTakesTurn DEF FlowInv, Reduce
    <3> HIDE DEF d
    <3>2. OutreachMoves(s, event, d.state)
      BY <3>1 DEF OutreachTurn
    <3> QED BY <1>1, <2>1, <3>2 DEF OutreachMoves, Asking
  <2>3. CASE f \in {"research", "research-untracked"}
    <3>1. ResearchTurn(s, event, ResearchFlow(s, event)) /\ d = ResearchFlow(s, event)
      BY <1>1, <1>4, <2>3, ResearchTakesTurn DEF FlowInv, Reduce
    <3> HIDE DEF d
    <3> QED BY <1>1, <2>1, <3>1 DEF ResearchTurn, ResearchMoves
  <2>4. CASE f = "session"
    <3>1. SessionTurn(s, event, Session(s, event)) /\ d = Session(s, event)
      BY <1>1, <1>4, <2>4, SessionTakesTurn DEF FlowInv, Reduce
    <3>2. SessionState(s)
      BY <1>1, <1>4, <2>4 DEF FlowInv, SessionInv, Turn
    <3> HIDE DEF d
    <3>3. SessionMoves(s, event, d) /\ s.phase = "completed"
      BY <1>1, <3>1, <3>2 DEF SessionTurn, SessionState
    <3> QED BY <2>1, <3>3 DEF SessionMoves, SessionWork
  <2>5. CASE f = "policy"
    <3>1. PolicyState(s) /\ d = Policy(s, event) /\ d # Refused
      BY <1>1, <1>4, <2>5 DEF FlowInv, PolicyInv, Turn, Decides, Reduce
    <3>2. PolicyTurn(s, event, d)
      BY <1>4, <3>1, PolicyDecides
    <3> HIDE DEF d
    <3> QED BY <1>1, <2>1, <3>2 DEF PolicyTurn
  <2>6. CASE f \in IntakeFlows
    <3>1. IntakeInv(f)
      BY <1>1, <2>6 DEF FlowInv
    <3>2. IntakeTurn(s, event, d) /\ flow[f].status # "absent"
      BY <1>1, <1>4, <2>6, <3>1, IntakeTakesTurn
    <3> HIDE DEF d
    <3>3. CASE s.phase = "failed" \/ event.type # "failed"
      BY <1>1, <2>1, <3>2, <3>3 DEF IntakeTurn
    <3>4. CASE s.phase = "completed" /\ event.type = "failed"
      <4>1. PICK id \in touched : id \in RowsOf(f) /\ Open(id)
        BY <1>4, <3>4 DEF Turn, IsVerdict
      <4>2. s.pending = {}
        BY <3>1, <3>2, <3>4 DEF IntakeInv, IntakeState
      <4>3. outbox[id].status = "told"
        BY <3>1, <3>2, <3>4, <4>1, <4>2 DEF IntakeInv, Open
      <4> QED BY <3>1, <3>2, <4>1, <4>3 DEF IntakeInv
    <3> QED BY <1>1, <3>3, <3>4
  <2>7. CASE f \in DailyFlows
    <3>1. DailyInv(f) /\ flow[f].status # "absent"
      BY <1>1, <1>4, <2>7 DEF FlowInv, Turn
    <3>2. DailyState(f, s)
      BY <3>1 DEF DailyInv
    <3> HIDE DEF d
    <3> QED BY <1>1, <2>7, <3>2 DEF DailyState, DailyFlows
  <2>8. CASE f = "discovery"
    <3>1. DiscoveryState(s)
      BY <1>1, <1>4, <2>8 DEF FlowInv, DiscoveryInv, Turn
    <3> QED BY <1>1, <3>1 DEF DiscoveryState
  <2> QED BY <1>1, <2>2, <2>3, <2>4, <2>5, <2>6, <2>7, <2>8 DEF FlowKinds, DailyFlows, IntakeFlows
<1> QED BY <1>1, <1>2, <1>3, <1>4, TurnOrQuiet DEF Phase

-----------------------------------------------------------------------------
(* The theorems *)

\* One message goes out, to the contact the owner approved of (sendEffect in the outreach and
\* research reducers), and none after the bridge's
THEOREM OneMessage ==
  Spec => []OneApprovedMessage
<1> USE FeatureAssumption
<1>1. FlowsInv => OneApprovedMessage
  BY MessageApproved
<1> QED BY <1>1, FlowsKept, PTL

\* No workflow calls itself completed before the world has seen what it is for
THEOREM CompletedIsDone ==
  Spec => []CompletedMeansDone
<1> USE FeatureAssumption
<1>1. FlowsInv => CompletedMeansDone
  BY DoneWhenCompleted
<1> QED BY <1>1, FlowsKept, PTL

\* The scans of the discovery overlap, whatever fails in between, as long as no effect is
\* executed twice (startDiscovery's window)
THEOREM NoGapBetweenScans ==
  Spec => []NoScanGap
<1> USE FeatureAssumption
<1>1. FlowsInv => NoScanGap
  BY ScansOverlap
<1> QED BY <1>1, FlowsKept, PTL

\* Whatever the interleaving: rows belong to the instance that asked for them and no bound is
\* overdrawn, no due timer but the cleanup's stops the passes of the runtime
\* (DurableWorkflowRuntime.runOnce, dispatch; insertWorkflowEffects), scans leave no gap, one
\* message goes out as approved, and what is completed has been done
THEOREM FeaturesAreSound ==
  Spec => []FeatureInvariant
<1> USE FeatureAssumption
<1>1. FlowsInv => FeatureInvariant
  BY TypesOfTables, DueTimersCommit, ScansOverlap, MessageApproved, DoneWhenCompleted DEF FlowsInv, FeatureInvariant
<1> QED BY <1>1, FlowsKept, PTL

\* A session the owner leaves alone lives as long as the retention says
\* (CodexSessionEffectAdapter.delete, the reducer's archived phase)
THEOREM RetentionIsKept ==
  Spec => RetentionKept
<1> USE FeatureAssumption
<1>1. FlowsInv /\ [Next]_vars =>
        [session.exists /\ ~session'.exists /\ spent.touches = 0 =>
           now - session.archivedAt >= IF spent.faults = 0 THEN DeleteAfter ELSE MinArchived]_vars
  BY RetentionOver
<1> QED BY <1>1, FlowsKept, PTL DEF Spec, RetentionKept

\* A workflow that is over stays so, whatever is delivered, fails or is answered later
\* (the reducers' default arms)
THEOREM OutcomesStand ==
  Spec => OutcomeStands
<1> USE FeatureAssumption
<1>1. FlowsInv /\ [Next]_vars =>
        [\A f \in Flows : flow[f].status # "absent" /\ Over(f) =>
           flow'[f].state.phase = Phase(f) \/ spent.faults > 0]_vars
  BY OverStaysOver
<1> QED BY <1>1, FlowsKept, PTL DEF Spec, OutcomeStands
=============================================================================

---------------------------- MODULE OwnerEngagement ----------------------------
(***************************************************************************)
(* What the owner writes and reacts to (src/packages/bridge-compat/src/    *)
(* owner-engagement-monitor.js): a poll over a window that overlaps the    *)
(* last one, the events of reactions with their queue, and the snapshots   *)
(* of reactions that stand in for lost events.  All become signals of the  *)
(* mention monitor.                                                        *)
(***************************************************************************)
EXTENDS Integers, Sequences, SequencesExt

CONSTANTS
  Messages,        \* messages of the owner
  LowSignal,       \* those that only acknowledge something
  Events, KeyOf,   \* events of reactions: message, operator and emoji
  OperationOf,     \* "created" or "deleted"
  Relevant,        \* events by the owner or about a message of the owner
  Overlap, Lag, Limit, Horizon, MaxFailures, MaxCrashes

VARIABLES
  state,     \* memory and the state file
  run,       \* the poll, and the reaction queue
  env        \* messages and reactions in Lark, time, bounds

NoPoll == [pc |-> "idle", at |-> 0, messages |-> <<>>, keys |-> <<>>]
NoPass == [pc |-> "idle", i |-> 1]
Fresh == [owned |-> {}, signals |-> {}, pending |-> <<>>, handled |-> {}, shown |-> {}, last |-> 0]

Init ==
  /\ state = [mem |-> Fresh, disk |-> Fresh]
  /\ run = [poll |-> NoPoll, queue |-> NoPass]
  /\ env = [now |-> 0, posted |-> [m \in Messages |-> -1], there |-> {}, sent |-> {}, failures |-> 0, crashes |-> 0]

Mem == state.mem
Poll == run.poll
Queue == run.queue

\* save: the list of pending events is cut to its limit, the oldest go
Save(mem) ==
  LET n == Len(mem.pending)
      kept == [mem EXCEPT !.pending = SubSeq(@, IF n > Limit THEN n - Limit + 1 ELSE 1, n)] IN
  state' = [mem |-> kept, disk |-> kept]

\* enqueueSignal: an id is queued once
Signal(mem, id) == [mem EXCEPT !.signals = @ \cup {id}]
ToPoll(p) == run' = [run EXCEPT !.poll = p]
ToQueue(q) == run' = [run EXCEPT !.queue = q]
Fails == env.failures < MaxFailures /\ env' = [env EXCEPT !.failures = @ + 1]

-----------------------------------------------------------------------------
(* Lark *)

Post(m) ==
  /\ env.posted[m] < 0
  /\ env' = [env EXCEPT !.posted[m] = env.now]
  /\ UNCHANGED <<state, run>>

React(e) ==
  /\ e \notin env.sent /\ (OperationOf[e] = "created") = (KeyOf[e] \notin env.there)
  /\ env' = [env EXCEPT !.sent = @ \cup {e},
                        !.there = IF OperationOf[e] = "created" THEN @ \cup {KeyOf[e]} ELSE @ \ {KeyOf[e]}]
  /\ UNCHANGED <<state, run>>

-----------------------------------------------------------------------------
(* The events of reactions *)

Waiting(e) == \E i \in DOMAIN Mem.pending : Mem.pending[i].e = e

\* ingestReaction: an event may be delivered again, or never
IngestReaction(e) ==
  /\ e \in env.sent /\ e \notin Mem.handled /\ ~Waiting(e)
  /\ Save([Mem EXCEPT !.pending = Append(@, [e |-> e, rests |-> FALSE])])
  /\ UNCHANGED <<run, env>>

StartQueue ==
  /\ Queue.pc = "idle" /\ \E i \in DOMAIN Mem.pending : ~Mem.pending[i].rests
  /\ ToQueue([pc |-> "next", i |-> 1])
  /\ UNCHANGED <<state, env>>

Item == Mem.pending[Queue.i]

NextItem ==
  /\ Queue.pc = "next"
  /\ ToQueue(IF Queue.i > Len(Mem.pending) THEN NoPass
             ELSE IF Item.rests THEN [Queue EXCEPT !.i = @ + 1]
             ELSE [pc |-> "target", i |-> Queue.i, e |-> Item.e])
  /\ UNCHANGED <<state, env>>

\* enqueueReactionSignal: the state of the reaction, and the owner's signal is learned from
Shown(mem, key, operation) ==
  [mem EXCEPT !.shown = IF operation = "deleted" THEN @ \ {key} ELSE @ \cup {key}]

TargetFound ==
  /\ Queue.pc = "target"
  /\ IF Queue.e \in Relevant
     THEN /\ Save(Shown(Mem, KeyOf[Queue.e], OperationOf[Queue.e]))
          /\ ToQueue([Queue EXCEPT !.pc = "signal"])
     ELSE ToQueue([Queue EXCEPT !.pc = "handled"]) /\ UNCHANGED state
  /\ UNCHANGED env

SignalReaction ==
  /\ Queue.pc = "signal"
  /\ Save(Signal(Mem, Queue.e))
  /\ ToQueue([Queue EXCEPT !.pc = "handled"])
  /\ UNCHANGED env

\* Faulty variant: the first of the list is taken off
HandledFirst ==
  /\ Queue.pc = "handled"
  /\ Save([Mem EXCEPT !.handled = @ \cup {Queue.e}, !.pending = Tail(@)])
  /\ ToQueue([pc |-> "next", i |-> Queue.i])
  /\ UNCHANGED env

\* splice(index, 1): what stands there by now, since a save during the awaits of the pass
\* may have cut the list and shifted it
Handled ==
  /\ Queue.pc = "handled"
  /\ Save([Mem EXCEPT !.handled = @ \cup {Queue.e},
                      !.pending = IF Queue.i \in DOMAIN @ THEN RemoveAt(@, Queue.i) ELSE @])
  /\ ToQueue([pc |-> "next", i |-> Queue.i])
  /\ UNCHANGED env

TargetFails ==
  /\ Queue.pc = "target" /\ Fails
  /\ Save([Mem EXCEPT !.pending = [i \in DOMAIN @ |-> [@[i] EXCEPT !.rests = @ \/ Mem.pending[i].e = Queue.e]]])
  /\ ToQueue([pc |-> "next", i |-> Queue.i + 1])

-----------------------------------------------------------------------------
(* The poll *)

StartPoll ==
  /\ Poll.pc = "idle" /\ env.now > Mem.last
  /\ ToPoll([NoPoll EXCEPT !.pc = "search", !.at = env.now])
  /\ UNCHANGED <<state, env>>

\* A message is in the search index at the latest Lag after it was posted
SearchReturns ==
  LET within == {m \in Messages : env.posted[m] >= 0 /\ env.posted[m] >= Mem.last - Overlap /\ env.posted[m] <= Poll.at} IN
  /\ Poll.pc = "search"
  /\ \E found \in SUBSET within :
       /\ {m \in within : env.posted[m] <= env.now - Lag} \subseteq found
       /\ ToPoll([Poll EXCEPT !.pc = "message", !.messages = SetToSeq(found)])
  /\ UNCHANGED <<state, env>>

\* Processed before it is signalled; an acknowledgement is only saved
RecordOwnerMessage ==
  LET m == Head(Poll.messages) IN
  /\ Poll.pc = "message" /\ Poll.messages # <<>>
  /\ IF m \in Mem.owned THEN UNCHANGED state ELSE Save([Mem EXCEPT !.owned = @ \cup {m}])
  /\ ToPoll(IF m \in Mem.owned \cup LowSignal THEN [Poll EXCEPT !.messages = Tail(@)] ELSE [Poll EXCEPT !.pc = "learned"])
  /\ UNCHANGED env

SignalOwnerMessage ==
  /\ Poll.pc = "learned"
  /\ Save(Signal(Mem, Head(Poll.messages)))
  /\ ToPoll([Poll EXCEPT !.pc = "message", !.messages = Tail(@)])
  /\ UNCHANGED env

\* searchEngagedConversationMessages: the reactions of the moment
Snapshot ==
  /\ Poll.pc = "message" /\ Poll.messages = <<>>
  /\ ToPoll([Poll EXCEPT !.pc = "reactions", !.keys = SetToSeq(env.there)])
  /\ UNCHANGED <<state, env>>

\* reconcileMessageReactions: a reaction that is not known
Reconcile ==
  LET key == Head(Poll.keys) IN
  /\ Poll.pc = "reactions" /\ Poll.keys # <<>>
  /\ IF key \in Mem.shown THEN ToPoll([Poll EXCEPT !.keys = Tail(@)]) /\ UNCHANGED state
     ELSE Save(Shown(Mem, key, "created")) /\ ToPoll([Poll EXCEPT !.pc = "shown"])
  /\ UNCHANGED env

SignalReconciled ==
  /\ Poll.pc = "shown"
  /\ Save(Signal(Mem, <<"snapshot", Head(Poll.keys)>>))
  /\ ToPoll([Poll EXCEPT !.pc = "reactions", !.keys = Tail(@)])
  /\ UNCHANGED env

\* Faulty variant: the window ends when the poll does
PolledNow ==
  /\ Poll.pc = "reactions" /\ Poll.keys = <<>>
  /\ Save([Mem EXCEPT !.last = env.now])
  /\ ToPoll(NoPoll) /\ UNCHANGED env

Polled ==
  /\ Poll.pc = "reactions" /\ Poll.keys = <<>>
  /\ Save([Mem EXCEPT !.last = Poll.at])
  /\ ToPoll(NoPoll) /\ UNCHANGED env

\* What was recorded before stays
PollFails ==
  /\ Poll.pc \in {"search", "message"} /\ Fails
  /\ Save(Mem) /\ ToPoll(NoPoll)

-----------------------------------------------------------------------------
Tick ==
  /\ env.now < Horizon
  /\ env' = [env EXCEPT !.now = @ + 1]
  /\ state' = [state EXCEPT !.mem.pending = [i \in DOMAIN @ |-> [@[i] EXCEPT !.rests = FALSE]]]
  /\ UNCHANGED run

Crash ==
  /\ env.crashes < MaxCrashes
  /\ env' = [env EXCEPT !.crashes = @ + 1]
  /\ state' = [state EXCEPT !.mem = state.disk]
  /\ run' = [poll |-> NoPoll, queue |-> NoPass]

Next ==
  \/ \E m \in Messages : Post(m)
  \/ \E e \in Events : React(e) \/ IngestReaction(e)
  \/ StartQueue \/ NextItem \/ TargetFound \/ SignalReaction \/ Handled \/ TargetFails
  \/ StartPoll \/ SearchReturns \/ RecordOwnerMessage \/ SignalOwnerMessage
  \/ Snapshot \/ Reconcile \/ SignalReconciled \/ Polled \/ PollFails
  \/ Tick \/ Crash

-----------------------------------------------------------------------------
(* Properties *)

Signalled(key) == \E e \in Events : KeyOf[e] = key /\ e \in Mem.signals

\* No message leaves the window of the poll before it was recorded; what was recorded and a
\* reaction that is known became a signal, unless the process died in between; an event that
\* was handled became one even then
EngagementInvariant ==
  /\ \A m \in Messages : env.posted[m] >= 0 /\ env.posted[m] < Mem.last - Overlap => m \in Mem.owned
  /\ env.crashes = 0 =>
       /\ Mem.owned \subseteq LowSignal \cup Mem.signals \cup (IF Poll.pc = "learned" THEN {Head(Poll.messages)} ELSE {})
       /\ \A key \in Mem.shown : \/ Signalled(key) \/ <<"snapshot", key>> \in Mem.signals
                                 \/ Poll.pc = "shown" /\ key = Head(Poll.keys)
                                 \/ Queue.pc = "signal" /\ key = KeyOf[Queue.e]
  /\ Mem.handled \cap Relevant \subseteq Mem.signals
  /\ state.disk.handled \cap Relevant \subseteq state.disk.signals

\* The event the pass works on is where its index says
Steady == Queue.i \in DOMAIN Mem.pending /\ Item.e = Queue.e

\* An event that was accepted stays pending until it is handled itself, with two exceptions
\* once the list has reached its limit: the next event pushes the oldest out, and a pass
\* under which that happened removes whatever has moved to its index
EngagementStep ==
  \A e \in Events :
    Waiting(e) /\ env'.crashes = env.crashes =>
      \/ Waiting(e)' \/ e \in state'.mem.handled
      \/ e = Head(Mem.pending).e /\ Len(Mem.pending) = Limit /\ Len(state'.mem.pending) = Limit
      \/ Queue.pc = "handled" /\ ~Steady
=============================================================================

---------------------------- MODULE EventDelivery ----------------------------
(***************************************************************************)
(* Durable events: their append by the channels, and the delivery of each  *)
(* to every consumer by DurableEventRuntime (src/src/events/runtime.ts) in *)
(* one or more processes.                                                  *)
(*                                                                         *)
(* The store is either of two: PostgreSQL (src/src/storage/postgres.ts),   *)
(* whose statements each see the snapshot of their start, or SQLite        *)
(* (src/src/storage/sqlite.ts), whose claim is one transaction that no     *)
(* other comes between.                                                    *)
(***************************************************************************)
EXTENDS Integers, SequencesExt, SequenceTheorems, TLAPS

CONSTANTS
  None,         \* NULL
  Events,       \* deduplication keys
  Consumers,    \* the consumers registered, in their order
  Workers,      \* processes with an event runtime
  Channels,     \* processes that append
  Lease,        \* leaseMs, in ticks
  RetryDelay,   \* retryDelayMs, in ticks
  MaxAttempts,  \* maxAttempts
  Horizon,      \* bound: the last instant of the clock
  MaxFailures,  \* bound: handlers that throw
  MaxCrashes,   \* bound: processes that die
  MaxAppends    \* bound: times a channel reports something

VARIABLES state, run, env
vars == <<state, run, env>>

Pairs == ToSet(Consumers) \X Events
NoRow == [status |-> "none", attempt |-> 0, worker |-> None, lease |-> 0, available |-> 0]
Resting == [pc |-> "idle", at |-> 0, left |-> <<>>, seen |-> {}, on |-> None, attempt |-> 0]

\* assistant_event in the order of received_at, event_delivery by consumer and event
Init ==
  /\ state = [events |-> <<>>, delivery |-> [p \in Pairs |-> NoRow]]
  /\ run = [worker |-> [w \in Workers |-> Resting], channel |-> [c \in Channels |-> None]]
  /\ \E store \in {"postgres", "sqlite"} :
       env = [store |-> store, now |-> 0, handled |-> {}, appends |-> 0, failures |-> 0, crashes |-> 0]

Worker(w, r) == [run EXCEPT !.worker[w] = r]
Me(w) == run.worker[w]
Pair(w) == <<Head(Me(w).left), Me(w).on>>

-----------------------------------------------------------------------------
(* appendEvent: the row that is there is read on the snapshot of the insert *)

AppendEvent(c, e) ==
  /\ env.store = "postgres" /\ run.channel[c] = None /\ env.appends < MaxAppends
  /\ run' = [run EXCEPT !.channel[c] = e]
  /\ env' = [env EXCEPT !.appends = @ + 1]
  /\ UNCHANGED state

Inserted(e) ==
  IF e \in ToSet(state.events) THEN state ELSE [state EXCEPT !.events = Append(@, e)]

\* A channel that came second reads the row of the first, or throws "not persisted or
\* found" when that row is not yet in its snapshot: the table is the same either way
AppendDone(c) ==
  LET e == run.channel[c] IN
  /\ e # None
  /\ state' = Inserted(e)
  /\ run' = [run EXCEPT !.channel[c] = None]
  /\ UNCHANGED env

\* On SQLite nothing comes between the two statements
AppendAtOnce(e) ==
  /\ env.store = "sqlite" /\ env.appends < MaxAppends
  /\ state' = Inserted(e)
  /\ env' = [env EXCEPT !.appends = @ + 1]
  /\ UNCHANGED run

-----------------------------------------------------------------------------
(* runOnce: one event for each consumer, all by the time at which the pass started *)

StartPass(w) ==
  /\ Me(w).pc = "idle"
  /\ run' = Worker(w, [Resting EXCEPT !.pc = "look", !.at = env.now, !.left = Consumers])
  /\ UNCHANGED <<state, env>>

Claimable(row, now) ==
  \/ row.status = "none"
  \/ row.status = "pending" /\ row.available <= now
  \/ row.status = "processing" /\ row.lease <= now

NextConsumer(r) ==
  IF Len(r.left) = 1 THEN Resting ELSE [r EXCEPT !.pc = "look", !.left = Tail(@), !.on = None, !.seen = {}]

Candidates(c, now) == {e \in ToSet(state.events) : Claimable(state.delivery[<<c, e>>], now)}

\* ORDER BY received_at LIMIT 1
First(e, S) == \E i \in DOMAIN state.events : /\ state.events[i] = e /\ e \in S
                                            /\ \A j \in 1 .. i - 1 : state.events[j] \notin S

\* claimNextEvent, its SELECT: the candidates of the snapshot ...
Look(w) ==
  LET c == Head(Me(w).left) IN
  /\ env.store = "postgres" /\ Me(w).pc = "look"
  /\ run' = Worker(w, [Me(w) EXCEPT !.pc = "lock", !.seen = Candidates(c, Me(w).at)])
  /\ UNCHANGED <<state, env>>

\* ... of which the first is locked that nobody has locked (FOR UPDATE OF e SKIP LOCKED)
Locked == {Me(v).on : v \in {u \in Workers : Me(u).pc = "upsert"}}
Lock(w) ==
  LET free == Me(w).seen \ Locked IN
  /\ Me(w).pc = "lock"
  /\ \/ free = {} /\ run' = Worker(w, NextConsumer(Me(w)))
     \/ \E e \in free : First(e, free) /\ run' = Worker(w, [Me(w) EXCEPT !.pc = "upsert", !.on = e, !.seen = {}])
  /\ UNCHANGED <<state, env>>

Taken(w, p) ==
  LET row == state.delivery[p] IN
  [row EXCEPT !.status = "processing", !.attempt = @ + 1, !.worker = w, !.lease = Me(w).at + Lease,
              !.available = IF row.status = "none" THEN Me(w).at ELSE @]

Claims(w, p) ==
  /\ state' = [state EXCEPT !.delivery[p] = Taken(w, p)]
  /\ run' = Worker(w, [Me(w) EXCEPT !.pc = "handle", !.on = p[2], !.attempt = Taken(w, p).attempt])

\* Faulty variant: the upsert does not ask again whether the row may be taken
UpsertAnyway(w) == Me(w).pc = "upsert" /\ Claims(w, Pair(w)) /\ UNCHANGED env

\* The upsert sees what has been committed by now; the row may be taken no more
Upsert(w) ==
  /\ Me(w).pc = "upsert"
  /\ IF Claimable(state.delivery[Pair(w)], Me(w).at)
       THEN Claims(w, Pair(w))
       ELSE run' = Worker(w, NextConsumer(Me(w))) /\ UNCHANGED state
  /\ UNCHANGED env

\* claimNextEvent on SQLite: the first candidate, looked for and taken under BEGIN IMMEDIATE
ClaimAtOnce(w) ==
  LET c == Head(Me(w).left)
      found == Candidates(c, Me(w).at) IN
  /\ env.store = "sqlite" /\ Me(w).pc = "look"
  /\ \/ found = {} /\ run' = Worker(w, NextConsumer(Me(w))) /\ UNCHANGED state
     \/ \E e \in found : First(e, found) /\ Claims(w, <<c, e>>)
  /\ UNCHANGED env

\* consumer.handle
Handle(w) ==
  /\ Me(w).pc = "handle"
  /\ \/ /\ run' = Worker(w, [Me(w) EXCEPT !.pc = "settle"])
        /\ env' = [env EXCEPT !.handled = @ \cup {Pair(w)}]
     \/ /\ env.failures < MaxFailures
        /\ run' = Worker(w, [Me(w) EXCEPT !.pc = "release"])
        /\ env' = [env EXCEPT !.failures = @ + 1]
  /\ UNCHANGED state

Owns(w) == state.delivery[Pair(w)].status = "processing" /\ state.delivery[Pair(w)].worker = w

\* settleEvent and releaseEvent, their UPDATEs
Settled(row) == [row EXCEPT !.status = "delivered", !.worker = None, !.lease = 0]
Released(row, terminal, at) ==
  [row EXCEPT !.status = IF terminal THEN "failed" ELSE "pending", !.worker = None, !.lease = 0, !.available = at]

\* settleEvent; one whose claim is gone is released, as if the handler had thrown
Settle(w) ==
  /\ Me(w).pc = "settle"
  /\ IF Owns(w)
       THEN /\ state' = [state EXCEPT !.delivery[Pair(w)] = Settled(@)]
            /\ run' = Worker(w, NextConsumer(Me(w)))
       ELSE /\ run' = Worker(w, [Me(w) EXCEPT !.pc = "release"])
            /\ UNCHANGED state
  /\ UNCHANGED env

\* releaseEvent; without the claim it throws, and the pass is over
Release(w) ==
  /\ Me(w).pc = "release"
  /\ IF Owns(w)
       THEN /\ state' = [state EXCEPT !.delivery[Pair(w)] = Released(@, Me(w).attempt >= MaxAttempts, Me(w).at + RetryDelay)]
            /\ run' = Worker(w, NextConsumer(Me(w)))
       ELSE /\ run' = Worker(w, Resting)
            /\ UNCHANGED state
  /\ UNCHANGED env

-----------------------------------------------------------------------------
\* A process dies; its locks and its transaction go with it
Crash(w) ==
  /\ env.crashes < MaxCrashes /\ Me(w).pc # "idle"
  /\ run' = Worker(w, Resting)
  /\ env' = [env EXCEPT !.crashes = @ + 1]
  /\ UNCHANGED state

Tick ==
  /\ env.now < Horizon
  /\ env' = [env EXCEPT !.now = @ + 1]
  /\ UNCHANGED <<state, run>>

Next ==
  \/ Tick
  \/ \E c \in Channels : AppendDone(c) \/ \E e \in Events : AppendEvent(c, e)
  \/ \E e \in Events : AppendAtOnce(e)
  \/ \E w \in Workers :
       \/ StartPass(w) \/ Look(w) \/ Lock(w) \/ Upsert(w) \/ ClaimAtOnce(w) \/ Handle(w) \/ Settle(w) \/ Release(w) \/ Crash(w)

Spec == Init /\ [][Next]_vars

-----------------------------------------------------------------------------
(* Properties *)

Handles(w) == Me(w).pc \in {"handle", "settle", "release"}

\* An event is in the hands of two processes for one consumer only when the lease of one of
\* them has run out, and then that one cannot settle it any more (claimNextEvent's guard,
\* which the lock of the event alone does not replace).
OneHandler ==
  \A w, v \in Workers : w # v /\ Handles(w) /\ Handles(v) /\ Pair(w) = Pair(v) =>
    /\ Me(w).at + Lease <= env.now \/ Me(v).at + Lease <= env.now
    /\ ~(Owns(w) /\ Owns(v))

\* What counts as delivered was handled, and what was given up had its attempts, across
\* crashes and leases that ran out; an event that was reported is there.
DeliveryEarned ==
  \A p \in Pairs :
    /\ state.delivery[p].status = "delivered" => p \in env.handled
    /\ state.delivery[p].status = "failed" => state.delivery[p].attempt >= MaxAttempts
    /\ state.delivery[p].status # "none" => p[2] \in ToSet(state.events)

EventInvariant == OneHandler /\ DeliveryEarned

\* A verdict on a delivery is final
DeliveryStep ==
  \A p \in Pairs : state.delivery[p].status \in {"delivered", "failed"} => state'.delivery[p] = state.delivery[p]

-----------------------------------------------------------------------------
(* Proofs: for any number of events, consumers and processes, and any bounds *)

DeliveryConstants ==
  /\ Consumers \in Seq(ToSet(Consumers)) /\ Consumers # << >>
  /\ Lease \in Nat /\ RetryDelay \in Nat /\ MaxAttempts \in Nat

Rows == [status : {"none", "pending", "processing", "delivered", "failed"}, attempt : Nat,
         worker : Workers \cup {None}, lease : Nat, available : Nat]
Passes == [pc : {"idle", "look", "lock", "upsert", "handle", "settle", "release"}, at : Nat,
           left : Seq(ToSet(Consumers)), seen : SUBSET Events, on : Events \cup {None}, attempt : Nat]
States == [events : Seq(Events), delivery : [Pairs -> Rows]]
Runs == [worker : [Workers -> Passes], channel : [Channels -> Events \cup {None}]]
Envs == [store : {"postgres", "sqlite"}, now : Nat, handled : SUBSET Pairs, appends : Nat, failures : Nat, crashes : Nat]
Types == state \in States /\ run \in Runs /\ env \in Envs

\* A handler has the claim it was given, or its lease has run out
ClaimSound(w) ==
  /\ Me(w).attempt <= state.delivery[Pair(w)].attempt
  /\ \/ Owns(w) /\ state.delivery[Pair(w)].lease = Me(w).at + Lease
     \/ Me(w).at + Lease <= env.now
  /\ Me(w).pc = "settle" => Pair(w) \in env.handled

PassSound(w) ==
  /\ Me(w).at <= env.now
  /\ Me(w).pc # "idle" => Me(w).left # << >>
  /\ Me(w).seen \subseteq ToSet(state.events)
  /\ Me(w).pc = "upsert" \/ Handles(w) => Me(w).on \in ToSet(state.events)
  /\ Handles(w) => ClaimSound(w)

DeliverySound == Types /\ (\A w \in Workers : PassSound(w)) /\ DeliveryEarned

LEMMA PairsOf ==
  ASSUME Types, NEW w \in Workers, PassSound(w), Me(w).pc # "idle"
  PROVE  /\ Me(w) \in Passes /\ Head(Me(w).left) \in ToSet(Consumers)
         /\ \A e \in ToSet(state.events) : <<Head(Me(w).left), e>> \in Pairs /\ e \in Events
         /\ Me(w).pc = "upsert" \/ Handles(w) => Pair(w) \in Pairs
<1>1. Me(w) \in Passes /\ Me(w).left \in Seq(ToSet(Consumers)) /\ Me(w).left # << >>
  BY DEF Types, States, Runs, Envs, PassSound, Me, Passes
<1>2. Head(Me(w).left) \in ToSet(Consumers)
  BY <1>1
<1>3. \A e \in ToSet(state.events) : e \in Events
  BY DEF Types, States, Runs, Envs, ToSet
<1> QED BY <1>1, <1>2, <1>3 DEF Pairs, Pair, PassSound

LEMMA Onwards ==
  ASSUME DeliveryConstants, NEW r \in Passes, r.left # << >>
  PROVE  LET n == NextConsumer(r) IN
         /\ n \in Passes /\ n.pc \in {"idle", "look"} /\ n.at \in {0, r.at} /\ n.seen = {}
         /\ n.pc # "idle" => n.left # << >>
<1>1. CASE Len(r.left) = 1
  BY <1>1 DEF NextConsumer, Resting, Passes
<1>2. CASE Len(r.left) # 1
  <2>1. Tail(r.left) \in Seq(ToSet(Consumers)) /\ Tail(r.left) # << >>
    <3>1. r.left \in Seq(ToSet(Consumers)) /\ Len(r.left) \in Nat /\ Len(r.left) # 0
      BY DEF Passes
    <3>2. Tail(r.left) \in Seq(ToSet(Consumers)) /\ Len(Tail(r.left)) = Len(r.left) - 1
      BY <3>1
    <3>3. Tail(r.left) = << >> => Len(Tail(r.left)) = 0
      BY <3>2, EmptySeq
    <3> QED BY <1>2, <3>1, <3>2, <3>3
  <2> QED BY <1>2, <2>1 DEF NextConsumer, Passes
<1> QED BY <1>1, <1>2

\* What the others do leaves a pass sound, if they only take what its lease no longer holds
LEMMA OthersKeep ==
  ASSUME Types, NEW w \in Workers, PassSound(w), Me(w)' = Me(w), env.now' \in Nat, env.now <= env.now',
         env.handled \subseteq env'.handled, ToSet(state.events) \subseteq ToSet(state.events)',
         \A p \in Pairs : state.delivery[p].attempt <= state'.delivery[p].attempt,
         Handles(w) => \/ state'.delivery[Pair(w)] = state.delivery[Pair(w)]
                       \/ Me(w).at + Lease <= env.now',
         Lease \in Nat, Types'
  PROVE  PassSound(w)'
<1>1. Me(w).at \in Nat /\ env.now \in Nat
  BY DEF Types, States, Runs, Envs, Me, Passes
<1>2. Me(w)'.at <= env.now' /\ (Me(w)'.pc # "idle" => Me(w)'.left # << >>) /\ Me(w)'.seen \subseteq ToSet(state.events)'
      /\ (Me(w)'.pc = "upsert" \/ Handles(w)' => Me(w)'.on \in ToSet(state.events)')
  BY <1>1 DEF PassSound, Handles
<1>3. ASSUME Handles(w)' PROVE ClaimSound(w)'
  <2>1. Handles(w) /\ Pair(w)' = Pair(w) /\ ClaimSound(w)
    BY <1>3 DEF Handles, PassSound, Pair
  <2>2. Pair(w) \in Pairs /\ Me(w) \in Passes
    BY <2>1, PairsOf DEF Handles
  <2>3. Me(w).attempt <= state'.delivery[Pair(w)].attempt
    <3>1. /\ state.delivery[Pair(w)].attempt \in Nat /\ state'.delivery[Pair(w)].attempt \in Nat /\ Me(w).attempt \in Nat
          /\ state.delivery[Pair(w)].attempt <= state'.delivery[Pair(w)].attempt
      BY <2>2 DEF Types, States, Runs, Envs, Passes, Rows
    <3> QED BY <2>1, <3>1 DEF ClaimSound
  <2>4. \/ Owns(w)' /\ state'.delivery[Pair(w)].lease = Me(w).at + Lease
        \/ Me(w).at + Lease <= env.now'
    BY <1>1, <2>1 DEF ClaimSound, Owns
  <2> QED BY <2>1, <2>3, <2>4 DEF ClaimSound
<1> QED BY <1>2, <1>3 DEF PassSound

LEMMA Beginning ==
  ASSUME Init
  PROVE  DeliverySound
<1>1. Types
  BY DEF Init, Types, States, Runs, Envs, Rows, Passes, NoRow, Resting, Pairs
<1>2. \A w \in Workers : PassSound(w)
  BY DEF Init, PassSound, Handles, Me, Resting
<1>3. DeliveryEarned
  BY DEF Init, DeliveryEarned, NoRow
<1> QED BY <1>1, <1>2, <1>3 DEF DeliverySound

\* A channel reports an event, or the clock goes on
LEMMA EventsCome ==
  ASSUME DeliverySound, DeliveryConstants,
         Tick \/ (\E c \in Channels : AppendDone(c) \/ \E e \in Events : AppendEvent(c, e)) \/ \E e \in Events : AppendAtOnce(e)
  PROVE  DeliverySound'
<1>0. state \in States /\ run \in Runs /\ env \in Envs
  BY DEF DeliverySound, Types, States, Runs, Envs
<1>7. ASSUME NEW e \in Events
      PROVE  /\ Inserted(e) \in States /\ Inserted(e).delivery = state.delivery
             /\ ToSet(state.events) \subseteq ToSet(Inserted(e).events)
  <2>1. state.events \in Seq(Events)
    BY <1>0 DEF States
  <2>2. Append(state.events, e) \in Seq(Events) /\ Len(Append(state.events, e)) = Len(state.events) + 1
        /\ \A i \in 1 .. Len(state.events) : Append(state.events, e)[i] = state.events[i]
    BY <2>1
  <2>3. ToSet(state.events) \subseteq ToSet(Append(state.events, e))
    BY <2>1, <2>2 DEF ToSet
  <2> QED BY <1>0, <2>1, <2>2, <2>3 DEF States, Inserted
<1> DEFINE Quiet == /\ Types' /\ run'.worker = run.worker /\ env'.handled = env.handled /\ env.now <= env'.now
                    /\ state' = state \/ \E e \in Events : state' = Inserted(e)
<1>9. Quiet
  <2>1. CASE Tick
    <3>1. env' = [env EXCEPT !.now = env.now + 1] /\ state' = state /\ run' = run
      BY <2>1 DEF Tick
    <3>2. env' \in Envs /\ env'.handled = env.handled /\ env.now <= env'.now
      BY <1>0, <3>1 DEF Envs
    <3> QED BY <1>0, <3>1, <3>2 DEF Types
  <2>2. ASSUME NEW c \in Channels, NEW e \in Events, AppendEvent(c, e) PROVE Quiet
    <3>1. env' = [env EXCEPT !.appends = @ + 1] /\ state' = state /\ run' = [run EXCEPT !.channel[c] = e]
      BY <2>2 DEF AppendEvent
    <3>2. env' \in Envs /\ env'.handled = env.handled /\ env.now <= env'.now
      BY <1>0, <3>1 DEF Envs
    <3>3. run' \in Runs /\ run'.worker = run.worker
      BY <1>0, <3>1 DEF Runs
    <3> QED BY <1>0, <3>1, <3>2, <3>3 DEF Types
  <2>3. ASSUME NEW c \in Channels, AppendDone(c) PROVE Quiet
    <3>1. run.channel[c] \in Events
      BY <1>0, <2>3 DEF Runs, AppendDone
    <3>2. state' = Inserted(run.channel[c]) /\ run' = [run EXCEPT !.channel[c] = None] /\ env' = env
      BY <2>3 DEF AppendDone
    <3>3. run' \in Runs /\ run'.worker = run.worker
      BY <1>0, <3>2 DEF Runs
    <3>4. state' \in States /\ env.now <= env'.now
      BY <1>0, <1>7, <3>1, <3>2 DEF Envs
    <3> QED BY <1>0, <3>1, <3>2, <3>3, <3>4 DEF Types
  <2>4. ASSUME NEW e \in Events, AppendAtOnce(e) PROVE Quiet
    <3>1. env' = [env EXCEPT !.appends = @ + 1] /\ state' = Inserted(e) /\ run' = run
      BY <2>4 DEF AppendAtOnce
    <3>2. env' \in Envs /\ env'.handled = env.handled /\ env.now <= env'.now
      BY <1>0, <3>1 DEF Envs
    <3> QED BY <1>0, <1>7, <3>1, <3>2 DEF Types
  <2> QED BY <2>1, <2>2, <2>3, <2>4
<1>1. Types' /\ env.now \in Nat /\ run'.worker = run.worker /\ env'.handled = env.handled /\ env.now <= env'.now
  BY <1>0, <1>9 DEF Envs
<1>2. state'.delivery = state.delivery
  BY <1>7, <1>9
<1>3. ToSet(state.events) \subseteq ToSet(state.events)'
  BY <1>7, <1>9 DEF ToSet
<1>4. ASSUME NEW w \in Workers PROVE PassSound(w)'
  <2>1. PassSound(w) /\ Me(w)' = Me(w)
    BY <1>1, <1>2 DEF DeliverySound, Me
  <2>2. \A p \in Pairs : state.delivery[p].attempt <= state'.delivery[p].attempt
    BY <1>2 DEF DeliverySound, Types, States, Runs, Envs, Rows
  <2> QED BY <1>1, <1>2, <1>3, <2>1, <2>2, OthersKeep DEF DeliverySound, DeliveryConstants, Types, States, Runs, Envs
<1>5. DeliveryEarned'
  BY <1>1, <1>2, <1>3 DEF DeliverySound, DeliveryEarned, Pairs
<1> QED BY <1>1, <1>4, <1>5 DEF DeliverySound

\* Worker w goes on without touching the store
LEMMA Alone ==
  ASSUME DeliverySound, DeliveryConstants, NEW w \in Workers, NEW r \in Passes, run' = Worker(w, r), UNCHANGED state,
         env' \in Envs, env'.now = env.now, env.handled \subseteq env'.handled, PassSound(w)'
  PROVE  DeliverySound'
<1>1. Types'
  BY DEF DeliverySound, Types, States, Runs, Envs, Worker
<1>2. ASSUME NEW v \in Workers \ {w} PROVE PassSound(v)'
  <2>1. PassSound(v) /\ Me(v)' = Me(v)
    BY DEF DeliverySound, Types, States, Runs, Envs, Worker, Me
  <2>2. \A p \in Pairs : state.delivery[p].attempt <= state'.delivery[p].attempt
    BY DEF DeliverySound, Types, States, Runs, Envs, Rows
  <2>3. env.now' \in Nat /\ env.now <= env.now' /\ Lease \in Nat /\ Types
    BY DEF DeliverySound, DeliveryConstants, Types, Envs
  <2>4. state' = state /\ env.handled \subseteq env'.handled
    OBVIOUS
  <2>5. ToSet(state.events) \subseteq ToSet(state.events)'
    BY <2>4
  <2>6. state'.delivery[Pair(v)] = state.delivery[Pair(v)]
    BY <2>4
  <2> QED BY <1>1, <2>1, <2>2, <2>3, <2>4, <2>5, <2>6, OthersKeep
<1>3. DeliveryEarned'
  BY DEF DeliverySound, DeliveryEarned
<1> QED BY <1>1, <1>2, <1>3 DEF DeliverySound

\* Worker w changes the row of its pair, which is nobody else's, or for which the lease of
\* whoever else handles it has run out
LEMMA OneRow ==
  ASSUME DeliverySound, DeliveryConstants, NEW w \in Workers, NEW p \in Pairs, NEW r \in Passes, NEW row \in Rows,
         run' = Worker(w, r), state' = [state EXCEPT !.delivery[p] = row], UNCHANGED env,
         state.delivery[p].attempt <= row.attempt, PassSound(w)',
         \A v \in Workers \ {w} : Handles(v) /\ Pair(v) = p => Me(v).at + Lease <= env.now,
         /\ row.status = "delivered" => p \in env.handled
         /\ row.status = "failed" => row.attempt >= MaxAttempts
         /\ row.status # "none" => p[2] \in ToSet(state.events)
  PROVE  DeliverySound'
<1>0. state \in States /\ run \in Runs /\ env \in Envs
  BY DEF DeliverySound, Types
<1>1. /\ state' \in States /\ state'.events = state.events /\ state'.delivery[p] = row
      /\ \A q \in Pairs \ {p} : state'.delivery[q] = state.delivery[q]
  BY <1>0 DEF States
<1>2. run' \in Runs /\ \A v \in Workers \ {w} : run'.worker[v] = run.worker[v]
  BY <1>0 DEF Runs, Worker
<1>3. Types'
  BY <1>0, <1>1, <1>2 DEF Types
<1>4. ASSUME NEW v \in Workers \ {w} PROVE PassSound(v)'
  <2>1. PassSound(v) /\ Me(v)' = Me(v) /\ Types
    BY <1>2 DEF DeliverySound, Me
  <2>2. \A q \in Pairs : state.delivery[q].attempt <= state'.delivery[q].attempt
    BY <1>0, <1>1 DEF States, Rows
  <2>3. env.now' \in Nat /\ env.now <= env.now' /\ env.handled \subseteq env'.handled
    BY <1>0 DEF Envs
  <2>4. Handles(v) => \/ state'.delivery[Pair(v)] = state.delivery[Pair(v)]
                      \/ Me(v).at + Lease <= env.now'
    <3>1. Handles(v) => Pair(v) \in Pairs
      BY <2>1, PairsOf DEF Handles
    <3> QED BY <1>1, <3>1
  <2>5. ToSet(state.events) \subseteq ToSet(state.events)'
    BY <1>1
  <2> QED BY <1>3, <2>1, <2>2, <2>3, <2>4, <2>5, OthersKeep DEF DeliveryConstants
<1>5. DeliveryEarned'
  <2>1. ASSUME NEW q \in Pairs
        PROVE  /\ state'.delivery[q].status = "delivered" => q \in env'.handled
               /\ state'.delivery[q].status = "failed" => state'.delivery[q].attempt >= MaxAttempts
               /\ state'.delivery[q].status # "none" => q[2] \in ToSet(state'.events)
    BY <1>1 DEF DeliverySound, DeliveryEarned
  <2> QED BY <2>1 DEF DeliveryEarned
<1> QED BY <1>3, <1>4, <1>5 DEF DeliverySound

\* A pass that looks no further at a pair is as sound as the one before
LEMMA PassGoesOn ==
  ASSUME DeliverySound, DeliveryConstants, NEW w \in Workers, Me(w).pc # "idle",
         run' = Worker(w, NextConsumer(Me(w))) \/ run' = Worker(w, Resting), env.now' = env.now, ToSet(state.events)' = ToSet(state.events)
  PROVE  /\ PassSound(w)' /\ NextConsumer(Me(w)) \in Passes /\ Resting \in Passes
<1>0. run \in Runs /\ env \in Envs /\ Me(w) \in Passes /\ Me(w).left # << >> /\ Me(w).at <= env.now
  BY DEF DeliverySound, Types, PassSound, Me, Runs
<1>1. Resting \in Passes /\ Resting.pc = "idle" /\ Resting.at = 0 /\ Resting.seen = {}
  BY DEF Resting, Passes
<1>2. PICK n \in {NextConsumer(Me(w)), Resting} : run' = Worker(w, n)
  OBVIOUS
<1>3. /\ n \in Passes /\ n.pc \in {"idle", "look"} /\ n.at \in {0, Me(w).at} /\ n.seen = {}
      /\ n.pc # "idle" => n.left # << >>
  BY <1>0, <1>1, Onwards
<1>4. Me(w)' = n
  BY <1>0, <1>2 DEF Me, Runs, Worker
<1>5. env.now \in Nat
  BY <1>0 DEF Envs
<1> QED BY <1>0, <1>1, <1>3, <1>4, <1>5, Onwards DEF PassSound, Handles

LEMMA HasBecome ==
  ASSUME DeliverySound, NEW w \in Workers, NEW r, run' = Worker(w, r)
  PROVE  Me(w)' = r
BY DEF DeliverySound, Types, Runs, Worker, Me

LEMMA PassFacts ==
  ASSUME DeliverySound, NEW w \in Workers
  PROVE  /\ state \in States /\ run \in Runs /\ env \in Envs /\ Me(w) \in Passes /\ PassSound(w)
         /\ Me(w).at \in Nat /\ env.now \in Nat /\ Me(w).at <= env.now /\ Me(w).attempt \in Nat
BY DEF DeliverySound, Types, Runs, Envs, Passes, PassSound, Me

\* A row that may be taken, or that worker w owns, is nobody else's with a lease that runs
LEMMA OthersAreLate ==
  ASSUME DeliverySound, DeliveryConstants, NEW w \in Workers, NEW p \in Pairs, NEW v \in Workers \ {w},
         Handles(v), Pair(v) = p,
         \/ Claimable(state.delivery[p], Me(w).at)
         \/ state.delivery[p].worker = w
  PROVE  Me(v).at + Lease <= env.now
<1>1. ClaimSound(v)
  BY DEF DeliverySound, PassSound
<1>2. CASE Owns(v) /\ state.delivery[p].lease = Me(v).at + Lease
  <2>1. state.delivery[p].status = "processing" /\ state.delivery[p].worker = v
    BY <1>2 DEF Owns
  <2>2. state.delivery[p].lease <= Me(w).at
    BY <2>1 DEF Claimable
  <2> QED BY <1>2, <2>2, PassFacts DEF DeliveryConstants
<1> QED BY <1>1, <1>2 DEF ClaimSound

LEMMA PassBegins ==
  ASSUME DeliverySound, DeliveryConstants, NEW w \in Workers, StartPass(w)
  PROVE  DeliverySound'
<1>1. PICK r : r = [Resting EXCEPT !.pc = "look", !.at = env.now, !.left = Consumers]
  OBVIOUS
<1>2. r \in Passes /\ r.pc = "look" /\ r.at = env.now /\ r.left # << >> /\ r.seen = {}
  BY <1>1, PassFacts DEF Resting, Passes, DeliveryConstants
<1>3. run' = Worker(w, r) /\ state' = state /\ env' = env
  BY <1>1 DEF StartPass
<1>4. PassSound(w)'
  BY <1>2, <1>3, HasBecome, PassFacts DEF PassSound, Handles
<1> QED BY <1>2, <1>3, <1>4, Alone, PassFacts

LEMMA SelectReads ==
  ASSUME DeliverySound, DeliveryConstants, NEW w \in Workers, Look(w)
  PROVE  DeliverySound'
<1>1. PICK r : r = [Me(w) EXCEPT !.pc = "lock", !.seen = Candidates(Head(Me(w).left), Me(w).at)]
  OBVIOUS
<1>2. Candidates(Head(Me(w).left), Me(w).at) \subseteq ToSet(state.events) /\ ToSet(state.events) \subseteq Events
  <2>1. state.events \in Seq(Events)
    BY PassFacts DEF States
  <2>2. ToSet(state.events) \subseteq Events
    BY <2>1 DEF ToSet
  <2>3. Candidates(Head(Me(w).left), Me(w).at) \subseteq ToSet(state.events)
    BY DEF Candidates
  <2> QED BY <2>2, <2>3
<1>3. /\ r \in Passes /\ r.pc = "lock" /\ r.at = Me(w).at /\ r.left = Me(w).left
      /\ r.seen \subseteq ToSet(state.events) /\ r.left # << >>
  BY <1>1, <1>2, PassFacts DEF Passes, PassSound, Look
<1>4. run' = Worker(w, r) /\ state' = state /\ env' = env
  BY <1>1 DEF Look
<1>5. PassSound(w)'
  BY <1>3, <1>4, HasBecome, PassFacts DEF PassSound, Handles
<1> QED BY <1>3, <1>4, <1>5, Alone, PassFacts

LEMMA RowIsLocked ==
  ASSUME DeliverySound, DeliveryConstants, NEW w \in Workers, Lock(w)
  PROVE  DeliverySound'
<1>1. Me(w).pc = "lock" /\ state' = state /\ env' = env
  BY DEF Lock
<1>2. CASE run' = Worker(w, NextConsumer(Me(w)))
  BY <1>1, <1>2, PassGoesOn, PassFacts, Alone
<1>3. ASSUME NEW e \in Me(w).seen, run' = Worker(w, [Me(w) EXCEPT !.pc = "upsert", !.on = e, !.seen = {}])
      PROVE  DeliverySound'
  <2>1. PICK r : r = [Me(w) EXCEPT !.pc = "upsert", !.on = e, !.seen = {}]
    OBVIOUS
  <2>2. e \in ToSet(state.events) /\ e \in Events
    BY <1>3, PassFacts DEF PassSound, Passes
  <2>3. r \in Passes /\ r.pc = "upsert" /\ r.at = Me(w).at /\ r.left = Me(w).left /\ r.on = e /\ r.seen = {} /\ r.left # << >>
    BY <1>1, <2>1, <2>2, PassFacts DEF Passes, PassSound
  <2>4. PassSound(w)'
    BY <1>1, <1>3, <2>1, <2>2, <2>3, HasBecome, PassFacts DEF PassSound, Handles
  <2> QED BY <1>1, <1>3, <2>1, <2>3, <2>4, Alone, PassFacts
<1> QED BY <1>2, <1>3 DEF Lock

\* The claim of pair p by worker w, on either store
LEMMA ClaimIsSound ==
  ASSUME DeliverySound, DeliveryConstants, NEW w \in Workers, NEW p \in Pairs, Me(w).pc \in {"look", "upsert"},
         Claimable(state.delivery[p], Me(w).at), p[1] = Head(Me(w).left), p[2] \in ToSet(state.events),
         Claims(w, p), UNCHANGED env
  PROVE  DeliverySound'
<1> DEFINE r == [Me(w) EXCEPT !.pc = "handle", !.on = p[2], !.attempt = Taken(w, p).attempt]
<1>c. run' = Worker(w, r) /\ state' = [state EXCEPT !.delivery[p] = Taken(w, p)]
  BY DEF Claims
<1>0. state.delivery[p] \in Rows /\ state \in States
  BY PassFacts DEF States
<1>1. PICK row : row = Taken(w, p)
  OBVIOUS
<1>2. /\ row \in Rows /\ row.status = "processing" /\ row.worker = w /\ row.lease = Me(w).at + Lease
      /\ row.attempt = state.delivery[p].attempt + 1
  <2>1. Me(w).at + Lease \in Nat /\ Me(w).at \in Nat /\ state.delivery[p].attempt + 1 \in Nat /\ state.delivery[p].available \in Nat
    BY <1>0, PassFacts DEF Rows, DeliveryConstants
  <2>2. PICK a \in Nat : row = [state.delivery[p] EXCEPT !.status = "processing", !.attempt = state.delivery[p].attempt + 1,
                                 !.worker = w, !.lease = Me(w).at + Lease, !.available = a]
    BY <1>0, <1>1, <2>1, Zenon DEF Taken
  <2> QED BY <1>0, <2>1, <2>2 DEF Rows
<1>3. p[2] \in Events
  BY DEF Pairs
<1>4. /\ r \in Passes /\ r.pc = "handle" /\ r.at = Me(w).at /\ r.left = Me(w).left /\ r.on = p[2]
      /\ r.seen = Me(w).seen /\ r.attempt = row.attempt
  BY <1>1, <1>2, <1>3, PassFacts DEF Passes, Rows
<1> HIDE DEF r
<1>5. Me(w)' = r
  BY <1>c, HasBecome
<1>6. Pair(w)' = p
  BY <1>4, <1>5 DEF Pair, Pairs
<1>7. state'.delivery[p] = row /\ state'.events = state.events
  BY <1>0, <1>1, <1>c DEF States
<1>8. ClaimSound(w)'
  BY <1>2, <1>4, <1>5, <1>6, <1>7 DEF ClaimSound, Owns, Rows
<1>9. PassSound(w)'
  BY <1>4, <1>5, <1>7, <1>8, PassFacts DEF PassSound, Handles
<1>10. state.delivery[p].attempt <= row.attempt
  BY <1>0, <1>2 DEF Rows
<1>11. state' = [state EXCEPT !.delivery[p] = row]
  BY <1>1, <1>c
<1> QED BY <1>c, <1>2, <1>4, <1>9, <1>10, <1>11, OneRow, OthersAreLate

LEMMA RowIsTaken ==
  ASSUME DeliverySound, DeliveryConstants, NEW w \in Workers, Upsert(w)
  PROVE  DeliverySound'
<1>1. Me(w).pc = "upsert" /\ env' = env
  BY DEF Upsert
<1>2. CASE ~Claimable(state.delivery[Pair(w)], Me(w).at)
  <2>1. run' = Worker(w, NextConsumer(Me(w))) /\ state' = state
    BY <1>2 DEF Upsert
  <2> QED BY <1>1, <2>1, PassGoesOn, PassFacts, Alone
<1>3. CASE Claimable(state.delivery[Pair(w)], Me(w).at)
  <2>1. Pair(w) \in Pairs /\ Pair(w)[1] = Head(Me(w).left) /\ Pair(w)[2] = Me(w).on /\ Me(w).on \in ToSet(state.events)
    BY <1>1, PairsOf, PassFacts DEF DeliverySound, Pair, PassSound
  <2>2. Claims(w, Pair(w)) /\ Me(w).pc \in {"look", "upsert"} /\ UNCHANGED env /\ Pair(w)[2] \in ToSet(state.events)
    BY <1>1, <1>3, <2>1 DEF Upsert
  <2> QED BY <1>3, <2>1, <2>2, ClaimIsSound
<1> QED BY <1>2, <1>3

LEMMA FirstIsTaken ==
  ASSUME DeliverySound, DeliveryConstants, NEW w \in Workers, ClaimAtOnce(w)
  PROVE  DeliverySound'
<1>1. Me(w).pc = "look" /\ env' = env
  BY DEF ClaimAtOnce
<1>2. CASE run' = Worker(w, NextConsumer(Me(w))) /\ state' = state
  BY <1>1, <1>2, PassGoesOn, PassFacts, Alone
<1>3. ASSUME NEW e \in Candidates(Head(Me(w).left), Me(w).at), Claims(w, <<Head(Me(w).left), e>>)
      PROVE  DeliverySound'
  <2>1. PICK p : p = <<Head(Me(w).left), e>>
    OBVIOUS
  <2>2. e \in ToSet(state.events) /\ Claimable(state.delivery[p], Me(w).at) /\ p[1] = Head(Me(w).left) /\ p[2] = e
    BY <1>3, <2>1 DEF Candidates
  <2>3. p \in Pairs
    BY <1>1, <2>1, <2>2, PairsOf, PassFacts DEF DeliverySound
  <2>4. Claims(w, p) /\ Me(w).pc \in {"look", "upsert"} /\ UNCHANGED env /\ p[2] \in ToSet(state.events)
    BY <1>1, <1>3, <2>1, <2>2
  <2> QED BY <2>2, <2>3, <2>4, ClaimIsSound
<1> QED BY <1>2, <1>3 DEF ClaimAtOnce

LEMMA HandlerEnds ==
  ASSUME DeliverySound, DeliveryConstants, NEW w \in Workers, Handle(w)
  PROVE  DeliverySound'
<1>1. Me(w).pc = "handle" /\ state' = state
  BY DEF Handle
<1>2. Pair(w) \in Pairs
  BY <1>1, PairsOf, PassFacts DEF DeliverySound, Handles
<1>3. PICK pc \in {"settle", "release"} :
        /\ run' = Worker(w, [Me(w) EXCEPT !.pc = pc])
        /\ \/ pc = "settle" /\ env' = [env EXCEPT !.handled = @ \cup {Pair(w)}]
           \/ pc = "release" /\ env' = [env EXCEPT !.failures = @ + 1]
  BY DEF Handle
<1>4. /\ env' \in Envs /\ env'.now = env.now /\ env.handled \subseteq env'.handled
      /\ pc = "settle" => Pair(w) \in env'.handled
  BY <1>2, <1>3, PassFacts DEF Envs
<1>5. PICK r : r = [Me(w) EXCEPT !.pc = pc]
  OBVIOUS
<1>6. /\ r \in Passes /\ r.pc = pc /\ r.at = Me(w).at /\ r.left = Me(w).left /\ r.on = Me(w).on
      /\ r.seen = Me(w).seen /\ r.attempt = Me(w).attempt
  BY <1>5, PassFacts DEF Passes
<1>7. Me(w)' = r
  BY <1>3, <1>5, HasBecome
<1>8. Pair(w)' = Pair(w) /\ ClaimSound(w) /\ (Owns(w)' <=> Owns(w))
  BY <1>1, <1>6, <1>7, PassFacts DEF Pair, PassSound, Handles, Owns
<1>9. ClaimSound(w)'
  BY <1>1, <1>4, <1>6, <1>7, <1>8 DEF ClaimSound
<1>10. PassSound(w)'
  BY <1>1, <1>4, <1>6, <1>7, <1>9, PassFacts DEF PassSound, Handles
<1> QED BY <1>1, <1>3, <1>4, <1>5, <1>6, <1>10, Alone

\* What settles or releases a claim: the row of a worker that owns it, or nothing
LEMMA ClaimEnds ==
  ASSUME DeliverySound, DeliveryConstants, NEW w \in Workers, NEW row \in Rows, Handles(w), Owns(w),
         row.attempt = state.delivery[Pair(w)].attempt,
         row.status = "delivered" => Pair(w) \in env.handled,
         row.status = "failed" => row.attempt >= MaxAttempts,
         run' = Worker(w, NextConsumer(Me(w))), state' = [state EXCEPT !.delivery[Pair(w)] = row], UNCHANGED env
  PROVE  DeliverySound'
<1>0. Me(w).pc # "idle" /\ Me(w).on \in ToSet(state.events)
  BY PassFacts DEF Handles, PassSound
<1>1. PICK p \in Pairs : p = Pair(w)
  BY <1>0, PairsOf, PassFacts DEF DeliverySound
<1>2. p[2] \in ToSet(state.events) /\ state.delivery[p].worker = w /\ state.delivery[p] \in Rows
  BY <1>0, <1>1, PassFacts DEF Pair, Owns, States
<1>3. ToSet(state.events)' = ToSet(state.events)
  BY PassFacts DEF States
<1>4. PassSound(w)' /\ NextConsumer(Me(w)) \in Passes
  BY <1>0, <1>3, PassGoesOn
<1>5. \A v \in Workers \ {w} : Handles(v) /\ Pair(v) = p => Me(v).at + Lease <= env.now
  BY <1>2, OthersAreLate
<1>6. state.delivery[p].attempt <= row.attempt /\ state' = [state EXCEPT !.delivery[p] = row]
  BY <1>1, <1>2 DEF Rows
<1> QED BY <1>1, <1>2, <1>4, <1>5, <1>6, OneRow

LEMMA VerdictIsWritten ==
  ASSUME DeliverySound, DeliveryConstants, NEW w \in Workers, Settle(w) \/ Release(w)
  PROVE  DeliverySound'
<1>1. Me(w).pc \in {"settle", "release"} /\ env' = env /\ Handles(w)
  BY DEF Settle, Release, Handles
<1>2. ClaimSound(w)
  BY <1>1, PassFacts DEF PassSound
<1>3. CASE run' \in {Worker(w, NextConsumer(Me(w))), Worker(w, Resting)} /\ state' = state
  <2>1. PassSound(w)' /\ NextConsumer(Me(w)) \in Passes /\ Resting \in Passes
    BY <1>1, <1>3, PassGoesOn
  <2> QED BY <1>1, <1>3, <2>1, Alone, PassFacts
<1>4. CASE Settle(w) /\ ~Owns(w)
  <2>1. run' = Worker(w, [Me(w) EXCEPT !.pc = "release"]) /\ state' = state
    BY <1>4 DEF Settle
  <2>2. PICK r : r = [Me(w) EXCEPT !.pc = "release"]
    OBVIOUS
  <2>3. /\ r \in Passes /\ r.pc = "release" /\ r.at = Me(w).at /\ r.left = Me(w).left /\ r.on = Me(w).on
        /\ r.seen = Me(w).seen /\ r.attempt = Me(w).attempt
    BY <2>2, PassFacts DEF Passes
  <2>4. Me(w)' = r
    BY <2>1, <2>2, HasBecome
  <2>5. Pair(w)' = Pair(w) /\ (Owns(w)' <=> Owns(w))
    BY <2>1, <2>3, <2>4 DEF Pair, Owns
  <2>6. ClaimSound(w)'
    BY <1>1, <1>2, <2>1, <2>3, <2>4, <2>5 DEF ClaimSound
  <2>7. PassSound(w)'
    BY <1>1, <2>1, <2>3, <2>4, <2>6, PassFacts DEF PassSound, Handles
  <2> QED BY <1>1, <2>1, <2>2, <2>3, <2>7, Alone, PassFacts
<1>5. CASE (Settle(w) \/ Release(w)) /\ Owns(w)
  <2>0. Pair(w) \in Pairs /\ state.delivery[Pair(w)] \in Rows
    BY <1>1, PairsOf, PassFacts DEF DeliverySound, Handles, States
  <2>1. run' = Worker(w, NextConsumer(Me(w)))
    BY <1>1, <1>5 DEF Settle, Release
  <2>2. CASE Settle(w)
    <3>1. PICK row : row = Settled(state.delivery[Pair(w)])
      OBVIOUS
    <3>2. row \in Rows /\ row.status = "delivered" /\ row.attempt = state.delivery[Pair(w)].attempt
      BY <2>0, <3>1 DEF Settled, Rows
    <3>3. Pair(w) \in env.handled /\ state' = [state EXCEPT !.delivery[Pair(w)] = row]
      BY <1>2, <1>5, <2>2, <3>1 DEF Settle, ClaimSound
    <3> QED BY <1>1, <1>5, <2>1, <3>2, <3>3, ClaimEnds
  <2>3. CASE Release(w)
    <3>1. PICK row : row = Released(state.delivery[Pair(w)], Me(w).attempt >= MaxAttempts, Me(w).at + RetryDelay)
      OBVIOUS
    <3>2. /\ row \in Rows /\ row.status \in {"failed", "pending"} /\ row.attempt = state.delivery[Pair(w)].attempt
          /\ row.status = "failed" => Me(w).attempt >= MaxAttempts
      <4>1. Me(w).at + RetryDelay \in Nat
        BY PassFacts DEF DeliveryConstants
      <4> QED BY <2>0, <3>1, <4>1 DEF Released, Rows
    <3>3. row.status = "failed" => row.attempt >= MaxAttempts
      BY <1>2, <2>0, <3>2, PassFacts DEF ClaimSound, Rows, DeliveryConstants
    <3>4. state' = [state EXCEPT !.delivery[Pair(w)] = row]
      BY <1>5, <2>3, <3>1 DEF Release
    <3> QED BY <1>1, <1>5, <2>1, <3>2, <3>3, <3>4, ClaimEnds
  <2> QED BY <1>5, <2>2, <2>3
<1>6. CASE Release(w) /\ ~Owns(w)
  BY <1>3, <1>6 DEF Release
<1> QED BY <1>4, <1>5, <1>6

LEMMA ProcessDies ==
  ASSUME DeliverySound, DeliveryConstants, NEW w \in Workers, Crash(w)
  PROVE  DeliverySound'
<1>1. Me(w).pc # "idle" /\ run' = Worker(w, Resting) /\ state' = state /\ env' = [env EXCEPT !.crashes = @ + 1]
  BY DEF Crash
<1>2. env' \in Envs /\ env'.now = env.now /\ env'.handled = env.handled
  BY <1>1, PassFacts DEF Envs
<1>3. PassSound(w)' /\ Resting \in Passes
  BY <1>1, <1>2, PassGoesOn
<1> QED BY <1>1, <1>2, <1>3, Alone

LEMMA SoundStep ==
  ASSUME DeliverySound, DeliveryConstants, [Next]_vars
  PROVE  DeliverySound'
<1>1. CASE Next
  BY <1>1, EventsCome, PassBegins, SelectReads, RowIsLocked, RowIsTaken, FirstIsTaken, HandlerEnds, VerdictIsWritten,
     ProcessDies DEF Next
<1>2. CASE UNCHANGED vars
  BY <1>2 DEF vars, DeliverySound, Types, PassSound, ClaimSound, DeliveryEarned, Handles, Owns, Pair, Me
<1> QED BY <1>1, <1>2

\* Only a row that is not final is written
LEMMA FinalRowsStay ==
  ASSUME DeliverySound, [Next]_vars
  PROVE  DeliveryStep
<1> SUFFICES ASSUME NEW p \in Pairs, state.delivery[p].status \in {"delivered", "failed"}
             PROVE  state'.delivery[p] = state.delivery[p]
  BY DEF DeliveryStep
<1>0. state \in States
  BY DEF DeliverySound, Types
<1>1. CASE state'.delivery = state.delivery
  BY <1>1
<1>2. ASSUME NEW w \in Workers, NEW q, NEW row, state' = [state EXCEPT !.delivery[q] = row],
             Claimable(state.delivery[q], Me(w).at) \/ state.delivery[q].status = "processing"
      PROVE  state'.delivery[p] = state.delivery[p]
  <2>1. q # p
    BY <1>2 DEF Claimable
  <2> QED BY <1>0, <1>2, <2>1 DEF States
<1>3. CASE Tick \/ \E c \in Channels, e \in Events : AppendEvent(c, e)
  BY <1>1, <1>3 DEF Tick, AppendEvent
<1>4. CASE (\E c \in Channels : AppendDone(c)) \/ \E e \in Events : AppendAtOnce(e)
  <2>1. PICK e : state' = Inserted(e)
    BY <1>4 DEF AppendDone, AppendAtOnce
  <2> QED BY <1>0, <1>1, <2>1 DEF Inserted, States
<1>5. ASSUME NEW w \in Workers, StartPass(w) \/ Look(w) \/ Lock(w) \/ Handle(w) \/ Crash(w)
      PROVE  state'.delivery[p] = state.delivery[p]
  BY <1>5 DEF StartPass, Look, Lock, Handle, Crash
<1>6. ASSUME NEW w \in Workers, Upsert(w)
      PROVE  state'.delivery[p] = state.delivery[p]
  <2>1. CASE Claimable(state.delivery[Pair(w)], Me(w).at)
    BY <1>2, <1>6, <2>1 DEF Upsert, Claims
  <2> QED BY <1>6, <2>1 DEF Upsert
<1>7. ASSUME NEW w \in Workers, ClaimAtOnce(w)
      PROVE  state'.delivery[p] = state.delivery[p]
  <2>1. ASSUME NEW e \in Candidates(Head(Me(w).left), Me(w).at), Claims(w, <<Head(Me(w).left), e>>)
        PROVE  state'.delivery[p] = state.delivery[p]
    <3>1. PICK q : q = <<Head(Me(w).left), e>>
      OBVIOUS
    <3>2. Claimable(state.delivery[q], Me(w).at) /\ Claims(w, q)
      BY <2>1, <3>1 DEF Candidates
    <3> QED BY <1>2, <3>2 DEF Claims
  <2> QED BY <1>7, <2>1 DEF ClaimAtOnce
<1>8. ASSUME NEW w \in Workers, Settle(w) \/ Release(w)
      PROVE  state'.delivery[p] = state.delivery[p]
  <2>1. CASE Owns(w)
    <3>1. PICK row : state' = [state EXCEPT !.delivery[Pair(w)] = row]
      BY <1>8, <2>1 DEF Settle, Release
    <3> QED BY <1>2, <2>1, <3>1 DEF Owns
  <2> QED BY <1>8, <2>1 DEF Settle, Release
<1>9. CASE UNCHANGED vars
  BY <1>9 DEF vars
<1> QED BY <1>3, <1>4, <1>5, <1>6, <1>7, <1>8, <1>9 DEF Next

LEMMA OneHolds ==
  ASSUME DeliverySound
  PROVE  OneHandler
<1> SUFFICES ASSUME NEW w \in Workers, NEW v \in Workers, w # v, Handles(w), Handles(v), Pair(w) = Pair(v)
             PROVE  /\ Me(w).at + Lease <= env.now \/ Me(v).at + Lease <= env.now
                    /\ ~(Owns(w) /\ Owns(v))
  BY DEF OneHandler
<1>1. ClaimSound(w) /\ ClaimSound(v)
  BY DEF DeliverySound, PassSound
<1>2. ~(Owns(w) /\ Owns(v))
  BY DEF Owns
<1> QED BY <1>1, <1>2 DEF ClaimSound

\* Two processes have one event in their hands for one consumer only when a lease has run
\* out, and then one of them cannot settle it; what counts as delivered was handled, what was
\* given up had its attempts (claimNextEvent, settleEvent, releaseEvent, on either store)
THEOREM DeliveriesAreSound ==
  ASSUME DeliveryConstants
  PROVE  Spec => []EventInvariant
<1>1. Init => DeliverySound
  BY Beginning
<1>2. DeliverySound /\ [Next]_vars => DeliverySound'
  BY SoundStep
<1>3. DeliverySound => EventInvariant
  BY OneHolds DEF EventInvariant, DeliverySound
<1> QED BY <1>1, <1>2, <1>3, PTL DEF Spec

\* A verdict on a delivery is final, whoever else still handles it (settleEvent and
\* releaseEvent ask for the owner, claimNextEvent for a row that is open)
THEOREM VerdictsAreFinal ==
  ASSUME DeliveryConstants
  PROVE  Spec => [][DeliveryStep]_vars
<1>1. Init => DeliverySound
  BY Beginning
<1>2. DeliverySound /\ [Next]_vars => DeliverySound'
  BY SoundStep
<1>3. DeliverySound /\ [Next]_vars => DeliveryStep
  BY FinalRowsStay
<1> QED BY <1>1, <1>2, <1>3, PTL DEF Spec

=============================================================================

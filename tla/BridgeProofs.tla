---------------------------- MODULE BridgeProofs ----------------------------
(***************************************************************************)
(* Proofs about Bridge for any deliveries, messages, cards and executors,  *)
(* any number of calls of drain(), and every value of the bounds.          *)
(***************************************************************************)
EXTENDS Bridge, SequenceTheorems, TLAPS

-----------------------------------------------------------------------------
(* The inductive invariant *)

\* The deliveries a store knows: their job is queued, or its outcome recorded
Known(s) == Queued(s) \cup Settled(s)

\* Where a delivery can be once its job was enqueued
Past == {"enqueuing", "queued", "refused", "dead"}

\* x are the results that were shown
JobSound(job, processed, x) ==
  /\ job.id \in processed
  /\ job.executor = "codex" => job.requested = "codex"
  /\ job.delayed /\ ~job.final => job.executor = job.requested
  /\ job.by \in x => job.final

\* What is true of the state in memory, of the one being written and of the file, when h
\* are the handlers
StoreSound(s, h, x) ==
  /\ s \in Store
  /\ \A i, j \in DOMAIN s.queue : s.queue[i].by = s.queue[j].by => i = j
  /\ \A i \in DOMAIN s.queue : JobSound(s.queue[i], s.processed, x)
  /\ \A d \in Known(s) : h[d].at \in Past
  /\ \A d \in Deliveries : s.history[d] = "completed" => d \in x

\* Jobs of d in s are final
Final(s, d) == \A i \in DOMAIN s.queue : s.queue[i].by = d => s.queue[i].final

Types ==
  /\ saves \in Seq(Deliveries \cup Drains)
  /\ handler \in [Deliveries -> [at : HandlerSteps, id : Ids \cup {None}]]
  /\ draining \in BOOLEAN
  /\ drain \in [Drains -> [at : DrainSteps, job : Deliveries \cup {None}, index : Nat]]
  /\ running \in BOOLEAN
  /\ shown \in SUBSET Deliveries
  /\ faults \in 0..MaxFaults /\ spawns \in 0..MaxSpawns /\ crashes \in 0..MaxCrashes

\* The file lags behind the write, the write behind memory, and none of them forgets
StoresSound ==
  /\ StoreSound(state, handler, shown) /\ StoreSound(disk, handler, shown)
  /\ Known(disk) \subseteq Known(state)
  /\ writing # None =>
       /\ StoreSound(writing, handler, shown)
       /\ saves # <<>>
       /\ Known(disk) \subseteq Known(writing) /\ Known(writing) \subseteq Known(state)

HandlerSound(d) ==
  /\ handler[d].at # "new" => handler[d].id \in Ids
  /\ handler[d].at \in {"marking", "updated"} => handler[d].id \in state.processed
  /\ handler[d].at = "updated" => Saved(d)
  /\ d \in shown => handler[d].at \in Past
  /\ handler[d].at = "enqueuing" =>
       /\ d \in Known(state)
       /\ Saved(d) => d \in Known(disk)
       /\ writing # None /\ Head(saves) = d => d \in Known(writing)
  /\ handler[d].at = "queued" => d \in Known(disk)

HandlersSound == \A d \in Deliveries : HandlerSound(d)

Holding == {"executing", "sending", "savingResult", "savingBusy", "savingRetry"}
SavingSteps == {"savingBusy", "savingRetry"} \cup Saving

\* One call of drain() at most is under way, and it finds its job where it found it
OneDrain ==
  /\ \A w \in Drains : drain[w].at # "idle" => draining
  /\ \A v, w \in Drains : drain[v].at # "idle" /\ drain[w].at # "idle" => v = w

DrainSound(w) ==
  /\ drain[w].at \in Holding =>
       /\ drain[w].index \in DOMAIN state.queue
       /\ state.queue[drain[w].index].by = drain[w].job
  /\ drain[w].at = "executing" =>
       ~state.queue[drain[w].index].final /\ ~state.queue[drain[w].index].delayed
  /\ drain[w].at \in {"sending", "savingResult"} => state.queue[drain[w].index].final
  /\ drain[w].at \notin SavingSteps => Saved(w)

DrainsSound == OneDrain /\ \A w \in Drains : DrainSound(w)

\* A result in memory is in the file as well, or the call that has it still awaits its save
FinalSound ==
  /\ \A i \in DOMAIN state.queue : state.queue[i].final =>
       \/ /\ Final(disk, state.queue[i].by)
          /\ writing # None => Final(writing, state.queue[i].by)
       \/ \E w \in Drains :
            drain[w].at = "savingResult" /\ drain[w].job = state.queue[i].by /\ ~Saved(w)
  /\ \A w \in Drains :
       drain[w].at = "savingResult" /\ writing # None /\ Head(saves) = w =>
         Final(writing, drain[w].job)

BridgeSound == Types /\ StoresSound /\ HandlersSound /\ DrainsSound /\ FinalSound

-----------------------------------------------------------------------------
(* The stores *)

LEMMA StoreTypes ==
  ASSUME NEW s \in Store
  PROVE  /\ s.queue \in Seq(Job) /\ Len(s.queue) \in Nat /\ DOMAIN s.queue = 1 .. Len(s.queue)
         /\ \A i \in DOMAIN s.queue : s.queue[i] \in Job
         /\ s.processed \in SUBSET Ids
         /\ s.history \in [Deliveries -> {"none", "completed", "failed"}]
<1>1. s.queue \in Seq(Job) /\ s.processed \in SUBSET Ids
      /\ s.history \in [Deliveries -> {"none", "completed", "failed"}]
  BY DEF Store
<1>2. Len(s.queue) \in Nat /\ DOMAIN s.queue = 1 .. Len(s.queue)
  BY <1>1, LenProperties
<1>3. \A i \in DOMAIN s.queue : s.queue[i] \in Job
  BY <1>1, <1>2, ElementOfSeq
<1> QED BY <1>1, <1>2, <1>3

LEMMA KnownTypes ==
  ASSUME NEW s \in Store
  PROVE  Known(s) \subseteq Deliveries
BY StoreTypes DEF Known, Queued, Settled, Job

\* Handlers move on, and results are shown of jobs that are final
LEMMA SoundKept ==
  ASSUME NEW s, NEW h, NEW x, NEW g, NEW y, StoreSound(s, h, x),
         \A d \in Deliveries : h[d].at \in Past => g[d].at \in Past,
         x \subseteq y, \A d \in y \ x : Final(s, d)
  PROVE  StoreSound(s, g, y)
<1>1. s \in Store /\ Known(s) \subseteq Deliveries
  BY KnownTypes DEF StoreSound
<1>2. \A i \in DOMAIN s.queue : JobSound(s.queue[i], s.processed, y)
  BY DEF StoreSound, JobSound, Final
<1> QED BY <1>1, <1>2 DEF StoreSound

LEMMA MarkedStore ==
  ASSUME NEW s, NEW h, NEW x, StoreSound(s, h, x), NEW m \in Ids
  PROVE  /\ StoreSound([s EXCEPT !.processed = @ \cup {m}], h, x)
         /\ Known([s EXCEPT !.processed = @ \cup {m}]) = Known(s)
         /\ [s EXCEPT !.processed = @ \cup {m}].queue = s.queue
         /\ [s EXCEPT !.processed = @ \cup {m}].processed = s.processed \cup {m}
<1> DEFINE t == [s EXCEPT !.processed = @ \cup {m}]
<1>1. s \in Store
  BY DEF StoreSound
<1>2. t.queue = s.queue /\ t.history = s.history /\ t.processed = s.processed \cup {m}
  BY <1>1 DEF Store
<1>3. t \in Store
  BY <1>1 DEF Store
<1> HIDE DEF t
<1>4. Known(t) = Known(s)
  BY <1>2 DEF Known, Queued, Settled
<1>5. \A i \in DOMAIN t.queue : JobSound(t.queue[i], t.processed, x)
  BY <1>2 DEF StoreSound, JobSound
<1>6. StoreSound(t, h, x)
  BY <1>2, <1>3, <1>4, <1>5 DEF StoreSound
<1> QED BY <1>2, <1>4, <1>6 DEF t

LEMMA AppendedStore ==
  ASSUME NEW s, NEW h, NEW x, StoreSound(s, h, x), NEW job \in Job,
         job.by \notin Known(s), h[job.by].at \in Past, JobSound(job, s.processed, x)
  PROVE  /\ StoreSound([s EXCEPT !.queue = Append(@, job)], h, x)
         /\ Known([s EXCEPT !.queue = Append(@, job)]) = Known(s) \cup {job.by}
         /\ [s EXCEPT !.queue = Append(@, job)].processed = s.processed
         /\ \A i \in DOMAIN s.queue :
              /\ i \in DOMAIN [s EXCEPT !.queue = Append(@, job)].queue
              /\ [s EXCEPT !.queue = Append(@, job)].queue[i] = s.queue[i]
         /\ \A i \in DOMAIN [s EXCEPT !.queue = Append(@, job)].queue :
              \/ i \in DOMAIN s.queue
              \/ [s EXCEPT !.queue = Append(@, job)].queue[i] = job
<1> DEFINE q == Append(s.queue, job)
           t == [s EXCEPT !.queue = q]
           n == Len(s.queue)
<1>1. s \in Store
  BY DEF StoreSound
<1>2. s.queue \in Seq(Job) /\ n \in Nat /\ DOMAIN s.queue = 1 .. n
  BY <1>1, StoreTypes
<1>3. /\ q \in Seq(Job) /\ Len(q) = n + 1
      /\ \A i \in 1 .. n : q[i] = s.queue[i]
      /\ q[n + 1] = job
  BY <1>2, AppendProperties
<1>4. DOMAIN q = 1 .. n + 1
  BY <1>3, LenProperties
<1> HIDE DEF q
<1>5. t \in Store /\ t.queue = q /\ t.processed = s.processed /\ t.history = s.history
  BY <1>1, <1>3 DEF Store
<1> HIDE DEF t
<1>6. \A i \in DOMAIN t.queue : i \in DOMAIN s.queue \/ i = n + 1
  BY <1>2, <1>4, <1>5
<1>7. \A i \in DOMAIN s.queue : i \in DOMAIN t.queue /\ t.queue[i] = s.queue[i] /\ i # n + 1
  BY <1>2, <1>3, <1>4, <1>5
<1>8. n + 1 \in DOMAIN t.queue /\ t.queue[n + 1] = job
  BY <1>2, <1>3, <1>4, <1>5
<1> HIDE DEF n
<1>9. Queued(t) = Queued(s) \cup {job.by}
  <2>1. Queued(t) \subseteq Queued(s) \cup {job.by}
    BY <1>6, <1>7, <1>8 DEF Queued
  <2>2. Queued(s) \subseteq Queued(t) /\ job.by \in Queued(t)
    BY <1>7, <1>8 DEF Queued
  <2> QED BY <2>1, <2>2
<1>10. Known(t) = Known(s) \cup {job.by}
  BY <1>5, <1>9 DEF Known, Settled
<1>11. \A i \in DOMAIN s.queue : s.queue[i].by # job.by
  BY DEF Known, Queued
<1>12. \A i, j \in DOMAIN t.queue : t.queue[i].by = t.queue[j].by => i = j
  BY <1>6, <1>7, <1>8, <1>11 DEF StoreSound
<1>13. \A i \in DOMAIN t.queue : JobSound(t.queue[i], t.processed, x)
  BY <1>5, <1>6, <1>7, <1>8 DEF StoreSound
<1>14. StoreSound(t, h, x)
  BY <1>5, <1>10, <1>12, <1>13 DEF StoreSound
<1> QED BY <1>5, <1>6, <1>7, <1>8, <1>10, <1>14 DEF t, q

\* A job is replaced by another of the same delivery
LEMMA ReplacedStore ==
  ASSUME NEW s, NEW h, NEW x, StoreSound(s, h, x), NEW k \in DOMAIN s.queue, NEW job \in Job,
         job.by = s.queue[k].by, JobSound(job, s.processed, x)
  PROVE  /\ StoreSound([s EXCEPT !.queue = [s.queue EXCEPT ![k] = job]], h, x)
         /\ Known([s EXCEPT !.queue = [s.queue EXCEPT ![k] = job]]) = Known(s)
         /\ [s EXCEPT !.queue = [s.queue EXCEPT ![k] = job]].processed = s.processed
         /\ DOMAIN [s EXCEPT !.queue = [s.queue EXCEPT ![k] = job]].queue = DOMAIN s.queue
         /\ [s EXCEPT !.queue = [s.queue EXCEPT ![k] = job]].queue[k] = job
         /\ \A i \in DOMAIN s.queue : i # k =>
              [s EXCEPT !.queue = [s.queue EXCEPT ![k] = job]].queue[i] = s.queue[i]
<1> DEFINE q == [s.queue EXCEPT ![k] = job]
           t == [s EXCEPT !.queue = q]
<1>1. s \in Store
  BY DEF StoreSound
<1>2. s.queue \in Seq(Job) /\ Len(s.queue) \in Nat /\ DOMAIN s.queue = 1 .. Len(s.queue)
  BY <1>1, StoreTypes
<1>3. q \in Seq(Job)
  BY <1>2, ExceptSeq
<1>4. DOMAIN q = DOMAIN s.queue /\ q[k] = job /\ \A i \in DOMAIN s.queue : i # k => q[i] = s.queue[i]
  OBVIOUS
<1> HIDE DEF q
<1>5. t \in Store /\ t.queue = q /\ t.processed = s.processed /\ t.history = s.history
  BY <1>1, <1>3 DEF Store
<1> HIDE DEF t
<1>6. \A i \in DOMAIN s.queue : t.queue[i].by = s.queue[i].by
  BY <1>4, <1>5
<1>7. Known(t) = Known(s)
  BY <1>4, <1>5, <1>6 DEF Known, Queued, Settled
<1>8. \A i, j \in DOMAIN t.queue : t.queue[i].by = t.queue[j].by => i = j
  BY <1>4, <1>5, <1>6 DEF StoreSound
<1>9. \A i \in DOMAIN t.queue : JobSound(t.queue[i], t.processed, x)
  BY <1>4, <1>5 DEF StoreSound
<1>10. StoreSound(t, h, x)
  BY <1>5, <1>7, <1>8, <1>9 DEF StoreSound
<1> QED BY <1>4, <1>5, <1>7, <1>10 DEF t, q

LEMMA RemovedElements ==
  ASSUME NEW S, NEW q \in Seq(S), NEW k \in 1 .. Len(q)
  PROVE  /\ RemoveAt(q, k) \in Seq(S)
         /\ Len(RemoveAt(q, k)) = Len(q) - 1
         /\ \A i \in 1 .. Len(q) - 1 : RemoveAt(q, k)[i] = IF i < k THEN q[i] ELSE q[i + 1]
<1> DEFINE a == SubSeq(q, 1, k - 1)
           b == SubSeq(q, k + 1, Len(q))
           n == Len(q)
<1>1. n \in Nat /\ k \in Int /\ \A i \in 1 .. n : q[i] \in S
  BY LenProperties, ElementOfSeq
<1>2. /\ a \in Seq(S) /\ Len(a) = k - 1
      /\ \A i \in 1 .. k - 1 : a[i] = q[i]
  <2>1. \A i \in 1 .. k - 1 : q[i] \in S
    BY <1>1
  <2>2. /\ a \in Seq(S) /\ Len(a) = IF 1 <= k - 1 THEN k - 1 - 1 + 1 ELSE 0
        /\ \A i \in 1 .. k - 1 - 1 + 1 : a[i] = q[1 + i - 1]
    BY <1>1, <2>1, SubSeqProperties
  <2> QED BY <1>1, <2>2
<1>3. /\ b \in Seq(S) /\ Len(b) = n - k
      /\ \A i \in 1 .. n - k : b[i] = q[k + i]
  <2>1. \A i \in k + 1 .. n : q[i] \in S
    BY <1>1
  <2>2. /\ b \in Seq(S) /\ Len(b) = IF k + 1 <= n THEN n - (k + 1) + 1 ELSE 0
        /\ \A i \in 1 .. n - (k + 1) + 1 : b[i] = q[k + 1 + i - 1]
    BY <1>1, <2>1, SubSeqProperties
  <2> QED BY <1>1, <2>2
<1> HIDE DEF a, b
<1>4. /\ a \o b \in Seq(S) /\ Len(a \o b) = Len(a) + Len(b)
      /\ \A i \in 1 .. Len(a) + Len(b) : (a \o b)[i] = IF i <= Len(a) THEN a[i] ELSE b[i - Len(a)]
  BY <1>2, <1>3, ConcatProperties
<1>5. Len(a) + Len(b) = n - 1
  BY <1>1, <1>2, <1>3
<1>6. ASSUME NEW i \in 1 .. n - 1
      PROVE  (a \o b)[i] = IF i < k THEN q[i] ELSE q[i + 1]
  <2>1. (a \o b)[i] = IF i <= k - 1 THEN a[i] ELSE b[i - (k - 1)]
    BY <1>2, <1>4, <1>5
  <2>2. CASE i < k
    BY <1>1, <1>2, <2>1, <2>2
  <2>3. CASE ~(i < k)
    <3>1. i - (k - 1) \in 1 .. n - k /\ k + (i - (k - 1)) = i + 1
      BY <1>1, <2>3
    <3>2. b[i - (k - 1)] = q[i + 1]
      BY <1>3, <3>1
    <3> QED BY <1>1, <2>1, <2>3, <3>2
  <2> QED BY <2>2, <2>3
<1> QED BY <1>4, <1>5, <1>6 DEF RemoveAt, a, b

\* A job is taken out and its outcome recorded
Taken(s, k, d, status) == [s EXCEPT !.queue = RemoveAt(@, k), !.history[d] = status]

LEMMA RemovedStore ==
  ASSUME NEW s, NEW h, NEW x, StoreSound(s, h, x), NEW k \in DOMAIN s.queue, NEW d \in Deliveries,
         s.queue[k].by = d, NEW status \in {"completed", "failed"}, status = "completed" => d \in x,
         NEW t, t = Taken(s, k, d, status)
  PROVE  /\ StoreSound(t, h, x) /\ Known(t) = Known(s) /\ t.processed = s.processed
         /\ \A i \in DOMAIN t.queue : \E j \in DOMAIN s.queue : t.queue[i] = s.queue[j]
<1> DEFINE q == RemoveAt(s.queue, k)
           n == Len(s.queue)
           u == [s EXCEPT !.queue = q, !.history[d] = status]
           from(i) == IF i < k THEN i ELSE i + 1
<1>1. s \in Store
  BY DEF StoreSound
<1>2. s.queue \in Seq(Job) /\ n \in Nat /\ DOMAIN s.queue = 1 .. n /\ k \in 1 .. n
  BY <1>1, StoreTypes
<1>3. q \in Seq(Job) /\ Len(q) = n - 1
      /\ \A i \in 1 .. n - 1 : q[i] = IF i < k THEN s.queue[i] ELSE s.queue[i + 1]
  BY <1>2, RemovedElements
<1>4. DOMAIN q = 1 .. n - 1
  BY <1>3, LenProperties
<1>18. t = u
  BY DEF Taken
<1> HIDE DEF q
<1>5. u \in Store /\ u.queue = q /\ u.processed = s.processed /\ u.history = [s.history EXCEPT ![d] = status]
  BY <1>1, <1>3 DEF Store
<1> HIDE DEF u
<1>6. \A i \in DOMAIN u.queue : from(i) \in DOMAIN s.queue /\ from(i) # k /\ u.queue[i] = s.queue[from(i)]
  BY <1>2, <1>3, <1>4, <1>5
<1>7. \A i, j \in DOMAIN u.queue : from(i) = from(j) => i = j
  BY <1>2, <1>4, <1>5
<1>8. \A j \in DOMAIN s.queue : j # k => \E i \in DOMAIN u.queue : from(i) = j
  <2> SUFFICES ASSUME NEW j \in DOMAIN s.queue, j # k PROVE \E i \in DOMAIN u.queue : from(i) = j
    OBVIOUS
  <2>1. CASE j < k
    <3>1. j \in DOMAIN u.queue /\ from(j) = j
      BY <1>2, <1>4, <1>5, <2>1
    <3> QED BY <3>1
  <2>2. CASE ~(j < k)
    <3>1. j - 1 \in DOMAIN u.queue /\ from(j - 1) = j
      BY <1>2, <1>4, <1>5, <2>2
    <3> QED BY <3>1
  <2> QED BY <2>1, <2>2
<1> HIDE DEF from
<1>9. Settled(u) = Settled(s) \cup {d}
  BY <1>1, <1>5, StoreTypes DEF Settled
<1>10. Queued(u) \subseteq Queued(s) /\ Queued(s) \subseteq Queued(u) \cup {d}
  <2>1. Queued(u) \subseteq Queued(s)
    BY <1>6 DEF Queued
  <2>2. Queued(s) \subseteq Queued(u) \cup {d}
    <3> SUFFICES ASSUME NEW j \in DOMAIN s.queue, j # k PROVE s.queue[j].by \in Queued(u)
      BY DEF Queued
    <3>1. PICK i \in DOMAIN u.queue : from(i) = j
      BY <1>8
    <3>2. u.queue[i] = s.queue[j]
      BY <1>6, <3>1
    <3> QED BY <3>2 DEF Queued
  <2> QED BY <2>1, <2>2
<1>11. d \in Queued(s)
  BY DEF Queued
<1>12. Known(u) = Known(s)
  BY <1>9, <1>10, <1>11 DEF Known
<1>13. \A i, j \in DOMAIN u.queue : u.queue[i].by = u.queue[j].by => i = j
  BY <1>6, <1>7 DEF StoreSound
<1>14. \A i \in DOMAIN u.queue : JobSound(u.queue[i], u.processed, x)
  BY <1>5, <1>6 DEF StoreSound
<1>15. \A c \in Deliveries : u.history[c] = "completed" => c \in x
  BY <1>1, <1>5, StoreTypes DEF StoreSound
<1>16. StoreSound(u, h, x)
  BY <1>5, <1>12, <1>13, <1>14, <1>15 DEF StoreSound
<1>17. \A i \in DOMAIN u.queue : \E j \in DOMAIN s.queue : u.queue[i] = s.queue[j]
  BY <1>6
<1> QED BY <1>5, <1>12, <1>16, <1>17, <1>18

-----------------------------------------------------------------------------
(* The queue of saves *)

LEMMA SaveFacts ==
  ASSUME NEW p \in Deliveries \cup Drains, saves \in Seq(Deliveries \cup Drains),
         saves' = Append(saves, p)
  PROVE  /\ saves' \in Seq(Deliveries \cup Drains) /\ saves' # <<>>
         /\ \A q : Saved(q)' => Saved(q)
         /\ \A q : q # p /\ Saved(q) => Saved(q)'
         /\ ~Saved(p)'
         /\ saves # <<>> => Head(saves') = Head(saves)
<1> DEFINE n == Len(saves)
<1>1. /\ n \in Nat /\ saves' \in Seq(Deliveries \cup Drains) /\ Len(saves') = n + 1
      /\ \A i \in 1 .. n : saves'[i] = saves[i]
      /\ saves'[n + 1] = p
  BY AppendProperties, LenProperties
<1>2. saves' # <<>>
  BY <1>1, EmptySeq
<1>3. \A i \in 1 .. n + 1 : i \in 1 .. n \/ i = n + 1
  BY <1>1
<1>4. \A i \in 1 .. n : i \in 1 .. n + 1
  BY <1>1
<1>5. \A q : Saved(q)' => Saved(q)
  BY <1>1, <1>4 DEF Saved, Contains
<1>6. \A q : q # p /\ Saved(q) => Saved(q)'
  BY <1>1, <1>3 DEF Saved, Contains
<1>7. ~Saved(p)'
  <2>1. n + 1 \in 1 .. Len(saves')
    BY <1>1
  <2> QED BY <1>1, <2>1 DEF Saved, Contains
<1>8. saves # <<>> => Head(saves') = Head(saves)
  <2> SUFFICES ASSUME saves # <<>> PROVE Head(saves') = Head(saves)
    OBVIOUS
  <2>1. n > 0
    BY <1>1, EmptySeq
  <2>2. Head(saves') = saves'[1] /\ Head(saves) = saves[1]
    BY DEF Head
  <2> QED BY <1>1, <2>1, <2>2
<1> QED BY <1>1, <1>2, <1>5, <1>6, <1>7, <1>8

LEMMA FinishFacts ==
  ASSUME saves \in Seq(Deliveries \cup Drains), saves # <<>>
  PROVE  /\ Head(saves) \in Deliveries \cup Drains /\ ~Saved(Head(saves))
         /\ saves' = Tail(saves) =>
              /\ saves' \in Seq(Deliveries \cup Drains)
              /\ \A q : Saved(q) => Saved(q)'
              /\ \A q : q # Head(saves) /\ ~Saved(q) => ~Saved(q)'
<1> DEFINE n == Len(saves)
<1>1. /\ n \in Nat /\ n > 0 /\ Head(saves) \in Deliveries \cup Drains
      /\ Tail(saves) \in Seq(Deliveries \cup Drains) /\ Len(Tail(saves)) = n - 1
      /\ \A i \in 1 .. n - 1 : Tail(saves)[i] = saves[i + 1]
  BY HeadTailProperties, EmptySeq, LenProperties
<1>2. Head(saves) = saves[1]
  BY DEF Head
<1>3. ~Saved(Head(saves))
  BY <1>1, <1>2 DEF Saved, Contains
<1>4. ASSUME saves' = Tail(saves), NEW q, Saved(q)
      PROVE  Saved(q)'
  <2>1. \A i \in 1 .. n - 1 : saves'[i] = saves[i + 1] /\ i + 1 \in 1 .. n
    BY <1>1, <1>4
  <2> QED BY <1>1, <1>4, <2>1 DEF Saved, Contains
<1>5. ASSUME saves' = Tail(saves), NEW q, q # Head(saves), ~Saved(q)
      PROVE  ~Saved(q)'
  <2>1. PICK i \in 1 .. n : saves[i] = q
    BY <1>5 DEF Saved, Contains
  <2>2. i # 1
    BY <1>2, <1>5, <2>1
  <2>3. i - 1 \in 1 .. n - 1 /\ (i - 1) + 1 = i
    BY <1>1, <2>2
  <2>4. saves'[i - 1] = q /\ i - 1 \in 1 .. Len(saves')
    BY <1>1, <1>5, <2>1, <2>3
  <2> QED BY <2>4 DEF Saved, Contains
<1> QED BY <1>1, <1>3, <1>4, <1>5

-----------------------------------------------------------------------------
(* What a step of one callback leaves sound *)

LEMMA Sounds ==
  ASSUME BridgeSound
  PROVE  /\ Types /\ StoresSound /\ HandlersSound /\ DrainsSound /\ FinalSound
         /\ \A d \in Deliveries : HandlerSound(d) /\ handler[d].at \in HandlerSteps
         /\ OneDrain /\ \A w \in Drains : DrainSound(w) /\ drain[w].at \in DrainSteps
         /\ StoreSound(state, handler, shown) /\ StoreSound(disk, handler, shown)
         /\ state \in Store /\ disk \in Store
         /\ writing # None => writing \in Store
BY DEF BridgeSound, Types, HandlersSound, DrainsSound, StoresSound, StoreSound

\* A delivery whose job is still to be enqueued is known to no store
LEMMA Unknown ==
  ASSUME BridgeSound, NEW d \in Deliveries, handler[d].at \notin Past
  PROVE  d \notin Known(state)
BY Sounds DEF StoreSound

LEMMA StoresStay ==
  ASSUME BridgeSound, UNCHANGED <<disk, writing>>,
         \A d \in Deliveries : handler[d].at \in Past => handler'[d].at \in Past,
         shown \subseteq shown',
         \A d \in shown' \ shown : Final(disk, d) /\ (writing # None => Final(writing, d)),
         StoreSound(state', handler', shown'), Known(state) \subseteq Known(state'),
         saves # <<>> => saves' # <<>>
  PROVE  StoresSound'
<1>1. StoreSound(disk, handler', shown')
  BY Sounds, SoundKept
<1>2. writing # None => StoreSound(writing, handler', shown')
  BY SoundKept DEF BridgeSound, StoresSound
<1> QED BY <1>1, <1>2 DEF BridgeSound, StoresSound, Known, Queued, Settled

LEMMA HandlerStays ==
  ASSUME BridgeSound, UNCHANGED <<disk, writing>>, NEW d \in Deliveries, handler'[d] = handler[d],
         Known(state) \subseteq Known(state'), state.processed \subseteq state'.processed,
         Saved(d)' = Saved(d), saves # <<>> => Head(saves') = Head(saves),
         d \in shown' => d \in shown \cup Known(state)
  PROVE  HandlerSound(d)'
<1>1. HandlerSound(d) /\ (writing # None => saves # <<>>) /\ StoreSound(state, handler, shown)
  BY Sounds DEF StoresSound
<1>2. d \in shown' => handler'[d].at \in Past
  BY <1>1 DEF StoreSound, HandlerSound
<1> QED BY <1>1, <1>2 DEF HandlerSound, Known, Queued, Settled

LEMMA DrainStays ==
  ASSUME BridgeSound, NEW w \in Drains, drain'[w] = drain[w], Saved(w) => Saved(w)',
         drain[w].at \in Holding =>
           /\ drain[w].index \in DOMAIN state'.queue
           /\ state'.queue[drain[w].index] = state.queue[drain[w].index]
  PROVE  DrainSound(w)'
<1>1. DrainSound(w)
  BY Sounds
<1>2. "executing" \in Holding /\ "sending" \in Holding /\ "savingResult" \in Holding
  BY DEF Holding
<1> QED BY <1>1, <1>2 DEF DrainSound

LEMMA FinalStays ==
  ASSUME BridgeSound, UNCHANGED <<disk, writing>>,
         \A i \in DOMAIN state'.queue : state'.queue[i].final =>
           \E j \in DOMAIN state.queue :
             state.queue[j].by = state'.queue[i].by /\ state.queue[j].final,
         \A w \in Drains : drain[w].at = "savingResult" /\ ~Saved(w) =>
           drain'[w].at = "savingResult" /\ drain'[w].job = drain[w].job /\ ~Saved(w)',
         \A w \in Drains : drain'[w].at = "savingResult" =>
           drain[w].at = "savingResult" /\ drain'[w].job = drain[w].job,
         saves # <<>> => Head(saves') = Head(saves)
  PROVE  FinalSound'
<1>1. FinalSound /\ (writing # None => saves # <<>>)
  BY Sounds DEF StoresSound
<1>2. ASSUME NEW i \in DOMAIN state'.queue, state'.queue[i].final
      PROVE  \/ /\ Final(disk, state'.queue[i].by)
                /\ writing # None => Final(writing, state'.queue[i].by)
             \/ \E w \in Drains :
                  drain'[w].at = "savingResult" /\ drain'[w].job = state'.queue[i].by /\ ~Saved(w)'
  <2>1. PICK j \in DOMAIN state.queue : state.queue[j].by = state'.queue[i].by /\ state.queue[j].final
    BY <1>2
  <2> QED BY <1>1, <2>1 DEF FinalSound
<1>3. ASSUME NEW w \in Drains, drain'[w].at = "savingResult", writing # None, Head(saves') = w
      PROVE  Final(writing, drain'[w].job)
  BY <1>1, <1>3 DEF FinalSound
<1> QED BY <1>2, <1>3 DEF FinalSound, Final

LEMMA BoundsStay ==
  ASSUME Types, NoFault \/ Fault
  PROVE  faults' \in 0..MaxFaults /\ spawns' \in 0..MaxSpawns /\ crashes' \in 0..MaxCrashes
BY BridgeAssumption DEF Types, NoFault, Fault, bounds

LEMMA Disjoint == \A d \in Deliveries, w \in Drains : d # w
BY BridgeAssumption

-----------------------------------------------------------------------------
(* Writes and restarts *)

\* Final jobs of a store are all there is of their deliveries in it
LEMMA FinalByIndex ==
  ASSUME NEW s, NEW h, NEW x, StoreSound(s, h, x), NEW i \in DOMAIN s.queue, s.queue[i].final
  PROVE  Final(s, s.queue[i].by)
BY DEF StoreSound, Final

LEMMA StartWriteStep ==
  ASSUME BridgeSound, StartWrite
  PROVE  BridgeSound'
<1>1. /\ saves # <<>> /\ writing = None /\ writing' = state
      /\ UNCHANGED <<state, disk, saves, handler, draining, drain, running, shown, bounds>>
  BY DEF StartWrite
<1>2. Types'
  BY <1>1, Sounds DEF Types, bounds
<1>3. StoresSound'
  BY <1>1, Sounds DEF StoresSound, Known, Queued, Settled
<1>4. HandlersSound'
  BY <1>1, Sounds DEF HandlersSound, HandlerSound, Known, Queued, Settled, Saved
<1>5. DrainsSound'
  BY <1>1, Sounds DEF DrainsSound, OneDrain, DrainSound, Saved
<1>6. FinalSound'
  <2>1. ASSUME NEW i \in DOMAIN state.queue, state.queue[i].final
        PROVE  \/ Final(disk, state.queue[i].by) /\ Final(state, state.queue[i].by)
               \/ \E w \in Drains :
                    drain[w].at = "savingResult" /\ drain[w].job = state.queue[i].by /\ ~Saved(w)
    <3>1. Final(state, state.queue[i].by)
      BY <2>1, Sounds, FinalByIndex
    <3> QED BY <2>1, <3>1, Sounds DEF FinalSound
  <2>2. ASSUME NEW w \in Drains, drain[w].at = "savingResult"
        PROVE  Final(state, drain[w].job)
    <3>1. /\ drain[w].index \in DOMAIN state.queue /\ state.queue[drain[w].index].final
          /\ state.queue[drain[w].index].by = drain[w].job
      BY <2>2, Sounds DEF DrainSound, Holding
    <3> QED BY <3>1, Sounds, FinalByIndex
  <2> QED BY <1>1, <2>1, <2>2 DEF FinalSound, Final, Saved
<1> QED BY <1>2, <1>3, <1>4, <1>5, <1>6 DEF BridgeSound

LEMMA FinishWriteStep ==
  ASSUME BridgeSound, FinishWrite
  PROVE  BridgeSound'
<1>1. /\ writing # None /\ disk' = writing /\ writing' = None /\ saves' = Tail(saves)
      /\ UNCHANGED <<state, handler, draining, drain, running, shown, bounds>>
  BY DEF FinishWrite
<1>2. saves # <<>> /\ StoreSound(writing, handler, shown)
      /\ Known(disk) \subseteq Known(writing) /\ Known(writing) \subseteq Known(state)
  BY <1>1, Sounds DEF StoresSound
<1>3. /\ saves' \in Seq(Deliveries \cup Drains)
      /\ \A q : Saved(q) => Saved(q)'
      /\ \A q : q # Head(saves) /\ ~Saved(q) => ~Saved(q)'
      /\ Head(saves) \in Deliveries \cup Drains
  BY <1>1, <1>2, FinishFacts, Sounds DEF Types
<1>4. Types'
  BY <1>1, <1>3, Sounds DEF Types, bounds
<1>5. StoresSound'
  BY <1>1, <1>2, Sounds DEF StoresSound, Known, Queued, Settled
<1>6. ASSUME NEW d \in Deliveries
      PROVE  HandlerSound(d)'
  <2>1. HandlerSound(d)
    BY Sounds
  <2>2. Known(disk') = Known(writing) /\ Known(state') = Known(state)
    BY <1>1
  <2>3. d \in Known(disk) => d \in Known(disk')
    BY <1>2, <2>2
  <2>4. handler[d].at = "enqueuing" /\ Saved(d)' => d \in Known(disk')
    BY <1>1, <1>3, <2>1, <2>2, <2>3 DEF HandlerSound
  <2> QED BY <1>1, <1>3, <2>1, <2>2, <2>3, <2>4 DEF HandlerSound, Known, Queued, Settled
<1>7. DrainsSound'
  BY <1>1, <1>3, Sounds DEF DrainsSound, OneDrain, DrainSound
<1>8. FinalSound'
  <2>1. ASSUME NEW i \in DOMAIN state.queue, state.queue[i].final
        PROVE  \/ Final(writing, state.queue[i].by)
               \/ \E w \in Drains :
                    drain[w].at = "savingResult" /\ drain[w].job = state.queue[i].by /\ ~Saved(w)'
    <3>1. CASE Final(disk, state.queue[i].by) /\ Final(writing, state.queue[i].by)
      BY <3>1
    <3>2. ASSUME NEW w \in Drains, drain[w].at = "savingResult",
                 drain[w].job = state.queue[i].by, ~Saved(w)
          PROVE  Final(writing, state.queue[i].by) \/ ~Saved(w)'
      <4>1. CASE w = Head(saves)
        BY <1>1, <3>2, <4>1, Sounds DEF FinalSound
      <4>2. CASE w # Head(saves)
        BY <1>3, <3>2, <4>2
      <4> QED BY <4>1, <4>2
    <3> QED BY <1>1, <2>1, <3>1, <3>2, Sounds DEF FinalSound
  <2> QED BY <1>1, <2>1 DEF FinalSound, Final
<1> QED BY <1>4, <1>5, <1>6, <1>7, <1>8 DEF BridgeSound, HandlersSound

LEMMA NothingSaved ==
  ASSUME saves = <<>>
  PROVE  saves \in Seq(Deliveries \cup Drains) /\ \A q : Saved(q)
<1>1. Len(saves) = 0 /\ saves \in Seq(Deliveries \cup Drains)
  BY EmptySeq
<1> QED BY <1>1 DEF Saved, Contains

\* The state file is sound by itself: what it lacks nobody relies on
LEMMA RestartStep ==
  ASSUME BridgeSound, Restart,
         faults' \in 0..MaxFaults, spawns' \in 0..MaxSpawns, crashes' \in 0..MaxCrashes
  PROVE  BridgeSound'
<1>1. /\ state' = disk /\ saves' = <<>> /\ writing' = None /\ draining' = FALSE
      /\ drain' = [w \in Drains |-> IdleDrain] /\ running' = FALSE
      /\ UNCHANGED <<disk, shown>>
  BY DEF Restart
<1>2. \A d \in Deliveries :
        IF handler[d].at \in {"new", "queued", "refused", "ignored"} THEN handler'[d] = handler[d]
        ELSE handler'[d] = [handler[d] EXCEPT !.at = "dead"]
  BY DEF Restart
<1>3. \A d \in Deliveries : handler[d] \in [at : HandlerSteps, id : Ids \cup {None}]
  BY Sounds DEF Types
<1>4. ASSUME NEW d \in Deliveries
      PROVE  /\ handler'[d] \in [at : HandlerSteps, id : Ids \cup {None}]
             /\ handler'[d].id = handler[d].id
             /\ handler'[d].at \in {"new", "queued", "refused", "ignored", "dead"}
             /\ handler'[d].at = handler[d].at \/ handler'[d].at = "dead"
             /\ handler'[d].at = "new" <=> handler[d].at = "new"
             /\ handler[d].at \in Past => handler'[d].at \in Past
  <2>1. CASE handler[d].at \in {"new", "queued", "refused", "ignored"}
    BY <1>2, <1>3, <2>1
  <2>2. CASE handler[d].at \notin {"new", "queued", "refused", "ignored"}
    <3>1. handler'[d] = [handler[d] EXCEPT !.at = "dead"] /\ "dead" \in HandlerSteps /\ "dead" \in Past
      BY <1>2, <2>2 DEF HandlerSteps, Past
    <3>2. /\ handler'[d] \in [at : HandlerSteps, id : Ids \cup {None}]
          /\ handler'[d].id = handler[d].id /\ handler'[d].at = "dead"
      BY <1>3, <3>1
    <3> QED BY <2>2, <3>1, <3>2
  <2> QED BY <2>1, <2>2
<1>5. handler' \in [Deliveries -> [at : HandlerSteps, id : Ids \cup {None}]]
  <2>1. handler' = [d \in Deliveries |->
          IF handler[d].at \in {"new", "queued", "refused", "ignored"} THEN handler[d]
          ELSE [handler[d] EXCEPT !.at = "dead"]]
    BY DEF Restart
  <2> QED BY <1>4, <2>1
<1>6. saves' \in Seq(Deliveries \cup Drains) /\ \A q : Saved(q)'
  BY <1>1, EmptySeq DEF Saved, Contains
<1>7. \A w \in Drains : drain'[w] = IdleDrain
  BY <1>1
<1>8. IdleDrain \in [at : DrainSteps, job : Deliveries \cup {None}, index : Nat]
      /\ IdleDrain.at = "idle" /\ "idle" \notin Holding /\ "idle" \notin SavingSteps
  BY DEF IdleDrain, DrainSteps, Holding, SavingSteps, Saving
<1>9. Types'
  BY <1>1, <1>5, <1>6, <1>8, Sounds DEF Types
<1>10. StoreSound(disk, handler', shown)
  BY <1>4, Sounds, SoundKept
<1>11. StoresSound'
  BY <1>1, <1>10 DEF StoresSound
<1>12. HandlersSound'
  <2> SUFFICES ASSUME NEW d \in Deliveries PROVE HandlerSound(d)'
    BY DEF HandlersSound
  <2>1. HandlerSound(d) /\ Known(disk') = Known(disk)
    BY <1>1, Sounds
  <2>2. handler'[d].at = "queued" => handler[d].at = "queued"
    BY <1>4
  <2>3. d \in shown' => handler'[d].at \in Past
    BY <1>1, <1>4, <2>1 DEF HandlerSound
  <2> QED BY <1>4, <2>1, <2>2, <2>3 DEF HandlerSound, Known, Queued, Settled
<1>13. DrainsSound'
  BY <1>6, <1>7, <1>8 DEF DrainsSound, OneDrain, DrainSound
<1>14. FinalSound'
  <2>1. \A i \in DOMAIN disk.queue : disk.queue[i].final => Final(disk, disk.queue[i].by)
    BY Sounds, FinalByIndex
  <2> QED BY <1>1, <1>7, <1>8, <2>1 DEF FinalSound, Final
<1> QED BY <1>9, <1>11, <1>12, <1>13, <1>14 DEF BridgeSound

-----------------------------------------------------------------------------
(* Handlers *)

\* One delivery moves on, the queue and the calls of drain() are as they were
LEMMA HandlerMoves ==
  ASSUME BridgeSound, NEW d \in Deliveries, NEW v \in [at : HandlerSteps, id : Ids \cup {None}],
         handler' = [handler EXCEPT ![d] = v], handler[d].at \notin Past \/ v.at \in Past,
         NoFault \/ Fault, UNCHANGED <<disk, writing, draining, drain, running, shown>>,
         saves' \in Seq(Deliveries \cup Drains), saves # <<>> => saves' # <<>> /\ Head(saves') = Head(saves),
         \A q : q # d => Saved(q)' = Saved(q), Saved(d)' => Saved(d),
         StoreSound(state', handler', shown), Known(state) \subseteq Known(state'),
         state.processed \subseteq state'.processed,
         \A i \in DOMAIN state.queue : i \in DOMAIN state'.queue /\ state'.queue[i] = state.queue[i],
         \A i \in DOMAIN state'.queue : state'.queue[i].final =>
           i \in DOMAIN state.queue /\ state'.queue[i] = state.queue[i],
         HandlerSound(d)'
  PROVE  BridgeSound'
<1>1. Types /\ (writing # None => saves # <<>>)
  BY Sounds DEF StoresSound
<1>2. handler'[d] = v /\ \A c \in Deliveries : c # d => handler'[c] = handler[c]
  BY <1>1 DEF Types
<1>3. Types'
  BY <1>1, BoundsStay DEF Types
<1>4. StoresSound'
  <2>1. \A c \in Deliveries : handler[c].at \in Past => handler'[c].at \in Past
    BY <1>2
  <2>2. shown' = shown
    OBVIOUS
  <2> QED BY <2>1, <2>2, StoresStay
<1>5. HandlersSound'
  BY <1>2, HandlerStays DEF HandlersSound
<1>6. ASSUME NEW w \in Drains PROVE DrainSound(w)'
  <2>1. Saved(w)' = Saved(w) /\ drain'[w] = drain[w]
    BY Disjoint
  <2>2. drain[w].at \in Holding => drain[w].index \in DOMAIN state.queue
    BY Sounds DEF DrainSound
  <2> QED BY <2>1, <2>2, DrainStays
<1>7. OneDrain'
  BY Sounds DEF OneDrain
<1>8. FinalSound'
  <2>1. \A w \in Drains : Saved(w)' = Saved(w)
    BY Disjoint
  <2>2. \A i \in DOMAIN state'.queue : state'.queue[i].final =>
           \E j \in DOMAIN state.queue :
             state.queue[j].by = state'.queue[i].by /\ state.queue[j].final
    OBVIOUS
  <2> QED BY <2>1, <2>2, FinalStays
<1> QED BY <1>3, <1>4, <1>5, <1>6, <1>7, <1>8 DEF BridgeSound, DrainsSound

\* ... without touching the stores
LEMMA HandlerOnly ==
  ASSUME BridgeSound, NEW d \in Deliveries, NEW v \in [at : HandlerSteps, id : Ids \cup {None}],
         handler' = [handler EXCEPT ![d] = v], handler[d].at \notin Past \/ v.at \in Past,
         NoFault \/ Fault, UNCHANGED <<store, draining, drain, running, shown>>,
         v.at \notin {"new", "marking", "enqueuing", "queued"}, v.id \in Ids,
         v.at \in Past \/ d \notin shown,
         v.at = "updated" => v.id \in state.processed /\ Saved(d)
  PROVE  BridgeSound'
<1>1. UNCHANGED <<state, disk, saves, writing>> /\ Types
  BY Sounds DEF store
<1>2. handler'[d] = v /\ \A c \in Deliveries : c # d => handler'[c] = handler[c]
  BY <1>1 DEF Types
<1>3. HandlerSound(d)'
  BY <1>1, <1>2 DEF HandlerSound, Saved
<1>4. StoreSound(state, handler', shown)
  <2>1. \A c \in Deliveries : handler[c].at \in Past => handler'[c].at \in Past
    BY <1>2
  <2> QED BY <2>1, Sounds, SoundKept
<1>5. \A q : Saved(q)' = Saved(q)
  BY <1>1 DEF Saved
<1>6. saves \in Seq(Deliveries \cup Drains)
  BY <1>1 DEF Types
<1> QED BY <1>1, <1>3, <1>4, <1>5, <1>6, HandlerMoves

\* A delivery is marked as processed, and awaits the save
LEMMA MarkStep ==
  ASSUME BridgeSound, NEW d \in Deliveries, NEW m \in Ids, handler[d].at \notin Past,
         Save(d, [state EXCEPT !.processed = @ \cup {m}]),
         handler' = [handler EXCEPT ![d] = [at |-> "marking", id |-> m]],
         UNCHANGED <<draining, drain, running, shown>>, NoFault
  PROVE  BridgeSound'
<1> DEFINE v == [at |-> "marking", id |-> m]
<1>1. /\ state' = [state EXCEPT !.processed = @ \cup {m}] /\ saves' = Append(saves, d)
      /\ UNCHANGED <<disk, writing>> /\ Types
  BY Sounds DEF Save
<1>2. v \in [at : HandlerSteps, id : Ids \cup {None}]
  BY DEF HandlerSteps
<1>3. handler'[d] = v /\ \A c \in Deliveries : c # d => handler'[c] = handler[c]
  BY <1>1 DEF Types
<1>4. StoreSound(state, handler', shown)
  <2>1. \A c \in Deliveries : handler[c].at \in Past => handler'[c].at \in Past
    BY <1>3
  <2> QED BY <2>1, Sounds, SoundKept
<1>5. /\ StoreSound(state', handler', shown) /\ Known(state') = Known(state)
      /\ state'.queue = state.queue /\ state'.processed = state.processed \cup {m}
  BY <1>1, <1>4, MarkedStore
<1>6. HandlerSound(d)'
  <2>1. d \notin shown
    BY Sounds DEF HandlerSound
  <2> QED BY <1>3, <1>5, <2>1 DEF HandlerSound
<1>7. /\ saves' \in Seq(Deliveries \cup Drains) /\ saves' # <<>>
      /\ \A q : Saved(q)' => Saved(q)
      /\ \A q : q # d /\ Saved(q) => Saved(q)'
      /\ saves # <<>> => Head(saves') = Head(saves)
  BY <1>1, SaveFacts DEF Types
<1>8. \A q : q # d => Saved(q)' = Saved(q)
  BY <1>7 DEF Saved
<1> QED BY <1>1, <1>2, <1>5, <1>6, <1>7, <1>8, HandlerMoves

\* enqueue() lets the controller session have the request
LEMMA EnqueueStep ==
  ASSUME BridgeSound, NEW d \in Deliveries, Enqueue(d)
  PROVE  BridgeSound'
<1>1. PICK e \in Requested : Save(d, [state EXCEPT !.queue = Append(@, NewJob(d, e))])
  BY DEF Enqueue
<1> DEFINE v == [handler[d] EXCEPT !.at = "enqueuing"]
           job == NewJob(d, e)
<1>2. /\ state' = [state EXCEPT !.queue = Append(@, job)] /\ saves' = Append(saves, d)
      /\ UNCHANGED <<disk, writing>> /\ Types
  BY <1>1, Sounds DEF Save
<1>3. /\ handler' = [handler EXCEPT ![d] = v] /\ NoFault /\ Looking(d)
      /\ UNCHANGED <<draining, drain, running, shown>>
  BY <1>2 DEF Enqueue, HandlerAt, Types
<1>4. /\ Saved(d) /\ handler[d].at \in {"marking", "updated"}
      /\ handler[d].id \in Ids /\ handler[d].id \in state.processed
      /\ handler[d] \in [at : HandlerSteps, id : Ids \cup {None}]
  BY <1>2, <1>3, Sounds DEF Looking, HandlerSound, Types
<1>5. v \in [at : HandlerSteps, id : Ids \cup {None}] /\ v.at = "enqueuing" /\ v.id = handler[d].id
  BY <1>4 DEF HandlerSteps
<1> HIDE DEF v
<1>6. handler[d].at \notin Past /\ v.at \in Past
  BY <1>4, <1>5 DEF Past
<1>7. handler'[d] = v /\ \A c \in Deliveries : c # d => handler'[c] = handler[c]
  BY <1>2, <1>3 DEF Types
<1>8. d \notin Known(state)
  BY <1>6, Unknown
<1>9. d \notin shown
  BY <1>6, Sounds DEF HandlerSound
<1>10. job \in Job /\ job.by = d /\ job.id = handler[d].id /\ ~job.final /\ ~job.delayed
       /\ job.executor = job.requested
  BY <1>4, BridgeAssumption DEF NewJob, Job, Executors
<1> HIDE DEF job
<1>11. JobSound(job, state.processed, shown)
  BY <1>4, <1>9, <1>10 DEF JobSound
<1>12. StoreSound(state, handler', shown)
  <2>1. \A c \in Deliveries : handler[c].at \in Past => handler'[c].at \in Past
    BY <1>6, <1>7
  <2> QED BY <2>1, Sounds, SoundKept
<1>13. /\ StoreSound(state', handler', shown) /\ Known(state') = Known(state) \cup {d}
       /\ state'.processed = state.processed
       /\ \A i \in DOMAIN state.queue : i \in DOMAIN state'.queue /\ state'.queue[i] = state.queue[i]
       /\ \A i \in DOMAIN state'.queue : i \in DOMAIN state.queue \/ state'.queue[i] = job
  <2>1. job.by \notin Known(state) /\ handler'[job.by].at \in Past
    BY <1>6, <1>7, <1>8, <1>10
  <2> DEFINE t == [state EXCEPT !.queue = Append(@, job)]
  <2>2. /\ StoreSound(t, handler', shown) /\ Known(t) = Known(state) \cup {job.by}
        /\ t.processed = state.processed
        /\ \A i \in DOMAIN state.queue : i \in DOMAIN t.queue /\ t.queue[i] = state.queue[i]
        /\ \A i \in DOMAIN t.queue : i \in DOMAIN state.queue \/ t.queue[i] = job
    BY <1>10, <1>11, <1>12, <2>1, AppendedStore
  <2>3. state' = t
    BY <1>2
  <2> HIDE DEF t
  <2> QED BY <1>10, <2>2, <2>3
<1>14. \A i \in DOMAIN state'.queue : state'.queue[i].final =>
         i \in DOMAIN state.queue /\ state'.queue[i] = state.queue[i]
  BY <1>10, <1>13
<1>15. /\ saves' \in Seq(Deliveries \cup Drains) /\ saves' # <<>> /\ ~Saved(d)'
       /\ \A q : Saved(q)' => Saved(q)
       /\ \A q : q # d /\ Saved(q) => Saved(q)'
       /\ saves # <<>> => Head(saves') = Head(saves)
  BY <1>2, SaveFacts DEF Types
<1>16. \A q : q # d => Saved(q)' = Saved(q)
  BY <1>15 DEF Saved
<1>17. HandlerSound(d)'
  <2>1. writing # None => Head(saves') # d
    BY <1>2, <1>4, <1>15, Sounds, FinishFacts DEF StoresSound, Types
  <2>2. d \in Known(state')
    BY <1>13
  <2> QED BY <1>2, <1>4, <1>5, <1>6, <1>7, <1>15, <2>1, <2>2 DEF HandlerSound, Known, Queued, Settled
<1> QED BY <1>2, <1>3, <1>5, <1>6, <1>13, <1>14, <1>15, <1>16, <1>17, HandlerMoves

LEMMA FieldOf ==
  ASSUME NEW d \in Deliveries, Types, NEW at \in HandlerSteps, HandlerAt(d, at)
  PROVE  /\ handler' = [handler EXCEPT ![d] = [handler[d] EXCEPT !.at = at]]
         /\ [handler[d] EXCEPT !.at = at] \in [at : HandlerSteps, id : Ids \cup {None}]
         /\ [handler[d] EXCEPT !.at = at].at = at
         /\ [handler[d] EXCEPT !.at = at].id = handler[d].id
<1>1. handler[d] \in [at : HandlerSteps, id : Ids \cup {None}]
  BY DEF Types
<1> QED BY <1>1 DEF HandlerAt, Types

LEMMA ComplainStep ==
  ASSUME BridgeSound, NEW d \in Deliveries, Complain(d), handler[d].id \in Ids
  PROVE  BridgeSound'
<1>1. CASE Restart /\ Fault
  BY <1>1, RestartStep, BoundsStay, Sounds
<1>2. CASE /\ HandlerAt(d, "refused") /\ Fault
           /\ UNCHANGED <<store, draining, drain, running, shown>>
  <2> DEFINE v == [handler[d] EXCEPT !.at = "refused"]
  <2>1. "refused" \in HandlerSteps /\ "refused" \in Past
    BY DEF HandlerSteps, Past
  <2>2. /\ handler' = [handler EXCEPT ![d] = v] /\ v.at = "refused" /\ v.id = handler[d].id
        /\ v \in [at : HandlerSteps, id : Ids \cup {None}]
    BY <1>2, <2>1, FieldOf, Sounds
  <2> HIDE DEF v
  <2> QED BY <1>2, <2>1, <2>2, HandlerOnly
<1> QED BY <1>1, <1>2 DEF Complain

LEMMA DeliverStep ==
  ASSUME BridgeSound, NEW d \in Deliveries, NEW m \in Ids, Deliver(d, m)
  PROVE  BridgeSound'
<1>1. /\ handler[d].at = "new" /\ UNCHANGED <<draining, drain, running, shown>> /\ NoFault
      /\ handler[d].at \notin Past
  BY DEF Deliver, Past
<1>2. d \notin shown
  BY <1>1, Sounds DEF HandlerSound
<1>3. ASSUME NEW at \in {"ignored", "reading"}, UNCHANGED store,
             handler' = [handler EXCEPT ![d] = [at |-> at, id |-> m]]
      PROVE  BridgeSound'
  <2> DEFINE v == [at |-> at, id |-> m]
  <2>1. v \in [at : HandlerSteps, id : Ids \cup {None}] /\ v.at = at /\ v.id = m
    BY DEF HandlerSteps
  <2> HIDE DEF v
  <2>2. handler' = [handler EXCEPT ![d] = v]
    BY <1>3 DEF v
  <2> QED BY <1>1, <1>2, <1>3, <2>1, <2>2, HandlerOnly
<1>4. CASE /\ handler' = [handler EXCEPT ![d] = [at |-> "marking", id |-> m]]
           /\ Save(d, [state EXCEPT !.processed = @ \cup {m}])
  BY <1>1, <1>4, MarkStep
<1> QED BY <1>3, <1>4 DEF Deliver

LEMMA MarkProcessedStep ==
  ASSUME BridgeSound, NEW d \in Deliveries, MarkProcessed(d)
  PROVE  BridgeSound'
<1>1. /\ handler[d].at = "reading" /\ Save(d, [state EXCEPT !.processed = @ \cup {handler[d].id}])
      /\ HandlerAt(d, "marking") /\ UNCHANGED <<draining, drain, running, shown>> /\ NoFault
      /\ handler[d].at \notin Past
  BY DEF MarkProcessed, Past
<1>2. handler[d].id \in Ids /\ Types
  BY <1>1, Sounds DEF HandlerSound
<1>3. handler[d] \in [at : HandlerSteps, id : Ids \cup {None}]
  BY <1>2 DEF Types
<1>4. [handler[d] EXCEPT !.at = "marking"] = [at |-> "marking", id |-> handler[d].id]
  BY <1>3
<1>5. handler' = [handler EXCEPT ![d] = [at |-> "marking", id |-> handler[d].id]]
  BY <1>1, <1>2, <1>4 DEF HandlerAt, Types
<1> QED BY <1>1, <1>2, <1>5, MarkStep

LEMMA UpdateCardStep ==
  ASSUME BridgeSound, NEW d \in Deliveries, UpdateCard(d)
  PROVE  BridgeSound'
<1>1. /\ handler[d].at = "marking" /\ Saved(d) /\ UNCHANGED <<store, draining, drain, running, shown>>
      /\ (NoFault \/ Fault) /\ handler[d].at \notin Past
  BY DEF UpdateCard, Past
<1>2. handler[d].id \in Ids /\ handler[d].id \in state.processed /\ d \notin shown /\ Types
  BY <1>1, Sounds DEF HandlerSound
<1>3. ASSUME NEW at \in {"updated", "refused"}, HandlerAt(d, at)
      PROVE  BridgeSound'
  <2> DEFINE v == [handler[d] EXCEPT !.at = at]
  <2>1. at \in HandlerSteps
    BY DEF HandlerSteps
  <2>2. /\ handler' = [handler EXCEPT ![d] = v] /\ v.at = at /\ v.id = handler[d].id
        /\ v \in [at : HandlerSteps, id : Ids \cup {None}]
    BY <1>2, <1>3, <2>1, FieldOf
  <2> HIDE DEF v
  <2> QED BY <1>1, <1>2, <1>3, <2>2, HandlerOnly
<1> QED BY <1>3 DEF UpdateCard

-----------------------------------------------------------------------------
(* Calls of drain() *)

LEMMA OnlyCall ==
  ASSUME BridgeSound, NEW w \in Drains, drain[w].at # "idle"
  PROVE  draining /\ \A v \in Drains : v # w => drain[v].at = "idle"
BY Sounds DEF OneDrain

\* Calls of drain() move on and leave the stores alone
LEMMA CallsMove ==
  ASSUME BridgeSound, UNCHANGED <<store, shown>>, NoFault \/ Fault,
         handler' \in [Deliveries -> [at : HandlerSteps, id : Ids \cup {None}]],
         \A d \in Deliveries : (handler[d].at \in Past => handler'[d].at \in Past) /\ HandlerSound(d)',
         draining' \in BOOLEAN, running' \in BOOLEAN,
         drain' \in [Drains -> [at : DrainSteps, job : Deliveries \cup {None}, index : Nat]],
         OneDrain', \A w \in Drains : DrainSound(w)',
         \A w \in Drains : drain[w].at = "savingResult" /\ ~Saved(w) => drain'[w] = drain[w],
         \A w \in Drains : drain'[w].at = "savingResult" => drain'[w] = drain[w]
  PROVE  BridgeSound'
<1>1. UNCHANGED <<state, disk, saves, writing, shown>>
  BY DEF store
<1>2. Types'
  BY <1>1, Sounds, BoundsStay DEF Types
<1>3. StoreSound(state', handler', shown')
  BY <1>1, Sounds, SoundKept
<1>4. StoresSound'
  <2>1. Known(state) \subseteq Known(state')
    BY <1>1
  <2> QED BY <1>1, <1>3, <2>1, StoresStay
<1>5. FinalSound'
  <2>1. \A q : Saved(q)' = Saved(q)
    BY <1>1 DEF Saved
  <2> QED BY <1>1, <2>1, FinalStays
<1> QED BY <1>2, <1>4, <1>5 DEF BridgeSound, HandlersSound, DrainsSound

LEMMA SameHandlers ==
  ASSUME BridgeSound, UNCHANGED <<store, handler, shown>>
  PROVE  /\ handler' \in [Deliveries -> [at : HandlerSteps, id : Ids \cup {None}]]
         /\ \A d \in Deliveries : (handler[d].at \in Past => handler'[d].at \in Past) /\ HandlerSound(d)'
<1>1. UNCHANGED <<state, disk, saves, writing, shown>>
  BY DEF store
<1>2. \A q : Saved(q)' = Saved(q)
  BY <1>1 DEF Saved
<1>3. \A d \in Deliveries : HandlerSound(d)'
  BY <1>1, <1>2, HandlerStays
<1> QED BY <1>3, Sounds DEF Types

LEMMA CallFields ==
  ASSUME Types, NEW w \in Drains, NEW at \in DrainSteps, drain' = [drain EXCEPT ![w].at = at]
  PROVE  /\ drain' \in [Drains -> [at : DrainSteps, job : Deliveries \cup {None}, index : Nat]]
         /\ drain'[w].at = at /\ drain'[w].job = drain[w].job /\ drain'[w].index = drain[w].index
         /\ \A v \in Drains : v # w => drain'[v] = drain[v]
BY DEF Types

LEMMA StartDrainFacts ==
  ASSUME BridgeSound, StartDrain, UNCHANGED store
  PROVE  /\ draining' \in BOOLEAN
         /\ drain' \in [Drains -> [at : DrainSteps, job : Deliveries \cup {None}, index : Nat]]
         /\ OneDrain' /\ \A w \in Drains : DrainSound(w)'
         /\ \A w \in Drains : drain[w].at # "idle" => drain'[w] = drain[w]
         /\ \A w \in Drains : drain'[w].at \in {drain[w].at, "loop"}
<1>1. UNCHANGED <<state, saves>> /\ Types
  BY Sounds DEF store
<1>2. \A q : Saved(q)' = Saved(q)
  BY <1>1 DEF Saved
<1>3. CASE draining /\ UNCHANGED <<draining, drain>>
  BY <1>1, <1>2, <1>3, Sounds DEF Types, OneDrain, DrainSound
<1>4. ASSUME ~draining, draining' = TRUE, NEW w \in Drains, drain[w].at = "idle",
             drain' = [drain EXCEPT ![w].at = "loop"]
      PROVE  /\ OneDrain' /\ \A v \in Drains : DrainSound(v)'
             /\ drain' \in [Drains -> [at : DrainSteps, job : Deliveries \cup {None}, index : Nat]]
             /\ \A v \in Drains : drain[v].at # "idle" => drain'[v] = drain[v]
             /\ \A v \in Drains : drain'[v].at \in {drain[v].at, "loop"}
  <2>1. "loop" \in DrainSteps /\ "loop" \notin Holding /\ "loop" \notin SavingSteps /\ "idle" \notin SavingSteps
    BY DEF DrainSteps, Holding, SavingSteps, Saving
  <2>2. /\ drain' \in [Drains -> [at : DrainSteps, job : Deliveries \cup {None}, index : Nat]]
        /\ drain'[w].at = "loop" /\ \A v \in Drains : v # w => drain'[v] = drain[v]
    BY <1>1, <1>4, <2>1, CallFields
  <2>3. \A v \in Drains : drain[v].at = "idle"
    BY <1>4, Sounds DEF OneDrain
  <2>4. OneDrain'
    BY <1>4, <2>2, <2>3 DEF OneDrain
  <2>5. DrainSound(w)'
    BY <1>2, <1>4, <2>1, <2>2, Sounds DEF DrainSound
  <2>6. \A v \in Drains : v # w => DrainSound(v)'
    BY <1>1, <1>2, <2>2, Sounds DEF DrainSound
  <2> QED BY <1>4, <2>2, <2>4, <2>5, <2>6
<1> QED BY <1>1, <1>3, <1>4 DEF StartDrain, Types

LEMMA RetryQueuedStep ==
  ASSUME BridgeSound, RetryQueued
  PROVE  BridgeSound'
<1>1. StartDrain /\ UNCHANGED <<store, handler, running, shown>> /\ NoFault
  BY DEF RetryQueued
<1>2. running' \in BOOLEAN
  BY <1>1, Sounds DEF Types
<1> QED BY <1>1, <1>2, StartDrainFacts, SameHandlers, CallsMove

\* The owner is told that the request is queued: it is in the file
LEMMA ReplyQueuedStep ==
  ASSUME BridgeSound, NEW d \in Deliveries, ReplyQueued(d)
  PROVE  BridgeSound'
<1>1. /\ handler[d].at = "enqueuing" /\ Saved(d) /\ HandlerAt(d, "queued") /\ StartDrain
      /\ UNCHANGED <<store, running, shown>> /\ NoFault
  BY DEF ReplyQueued
<1> DEFINE v == [handler[d] EXCEPT !.at = "queued"]
<1>2. "queued" \in HandlerSteps /\ "queued" \in Past /\ Types
  BY Sounds DEF HandlerSteps, Past
<1>3. /\ handler' = [handler EXCEPT ![d] = v] /\ v.at = "queued" /\ v.id = handler[d].id
      /\ v \in [at : HandlerSteps, id : Ids \cup {None}]
  BY <1>1, <1>2, FieldOf
<1> HIDE DEF v
<1>4. handler'[d] = v /\ \A c \in Deliveries : c # d => handler'[c] = handler[c]
  BY <1>2, <1>3 DEF Types
<1>5. handler' \in [Deliveries -> [at : HandlerSteps, id : Ids \cup {None}]]
  BY <1>2, <1>3 DEF Types
<1>6. UNCHANGED <<state, disk, saves, writing, shown>>
  BY <1>1 DEF store
<1>7. \A q : Saved(q)' = Saved(q)
  BY <1>6 DEF Saved
<1>8. HandlerSound(d)'
  <2>1. handler[d].id \in Ids /\ d \in Known(disk) /\ Known(disk') = Known(disk)
    BY <1>1, <1>6, Sounds DEF HandlerSound
  <2> QED BY <1>2, <1>3, <1>4, <2>1 DEF HandlerSound, Known, Queued, Settled
<1>9. \A c \in Deliveries : c # d => HandlerSound(c)'
  BY <1>4, <1>6, <1>7, HandlerStays
<1>10. running' \in BOOLEAN
  BY <1>1, <1>2 DEF Types
<1>11. \A c \in Deliveries : (handler[c].at \in Past => handler'[c].at \in Past) /\ HandlerSound(c)'
  BY <1>2, <1>3, <1>4, <1>8, <1>9
<1> QED BY <1>1, <1>5, <1>10, <1>11, StartDrainFacts, CallsMove

LEMMA LeaveFacts ==
  ASSUME BridgeSound, NEW w \in Drains, drain[w].at # "idle", Saved(w), Leave(w), UNCHANGED store
  PROVE  /\ draining' \in BOOLEAN
         /\ drain' \in [Drains -> [at : DrainSteps, job : Deliveries \cup {None}, index : Nat]]
         /\ OneDrain' /\ \A v \in Drains : DrainSound(v)'
         /\ drain'[w].at = "idle" /\ \A v \in Drains : v # w => drain'[v] = drain[v]
<1>1. UNCHANGED <<state, saves>> /\ Types /\ drain' = [drain EXCEPT ![w] = IdleDrain] /\ draining' = FALSE
  BY Sounds DEF store, Leave
<1>2. \A q : Saved(q)' = Saved(q)
  BY <1>1 DEF Saved
<1>3. IdleDrain \in [at : DrainSteps, job : Deliveries \cup {None}, index : Nat]
      /\ IdleDrain.at = "idle" /\ "idle" \notin Holding
  BY DEF IdleDrain, DrainSteps, Holding
<1>4. /\ drain' \in [Drains -> [at : DrainSteps, job : Deliveries \cup {None}, index : Nat]]
      /\ drain'[w] = IdleDrain /\ \A v \in Drains : v # w => drain'[v] = drain[v]
  BY <1>1, <1>3 DEF Types
<1>5. \A v \in Drains : drain'[v].at = "idle"
  BY <1>3, <1>4, OnlyCall
<1>6. DrainSound(w)'
  BY <1>2, <1>3, <1>4 DEF DrainSound
<1>7. \A v \in Drains : v # w => DrainSound(v)'
  BY <1>1, <1>2, <1>4, Sounds DEF DrainSound
<1> QED BY <1>1, <1>3, <1>4, <1>5, <1>6, <1>7 DEF OneDrain

LEMMA LeaveStep ==
  ASSUME BridgeSound, NEW w \in Drains, drain[w].at # "idle", Saved(w), Leave(w),
         UNCHANGED <<store, handler, running, shown>>, NoFault
  PROVE  BridgeSound'
<1>1. running' \in BOOLEAN
  BY Sounds DEF Types
<1>2. UNCHANGED store
  OBVIOUS
<1>3. /\ \A v \in Drains : drain[v].at = "savingResult" /\ ~Saved(v) => drain'[v] = drain[v]
      /\ \A v \in Drains : drain'[v].at = "savingResult" => drain'[v] = drain[v]
  BY <1>2, LeaveFacts
<1> QED BY <1>1, <1>2, <1>3, LeaveFacts, SameHandlers, CallsMove

\* The loop takes the first runnable job by its index
LEMMA TurnStep ==
  ASSUME BridgeSound, NEW w \in Drains, Turn(w)
  PROVE  BridgeSound'
<1>1. /\ drain[w].at \in {"loop"} \cup Saving /\ Saved(w) /\ drain[w].at # "idle"
      /\ UNCHANGED <<store, handler, shown>> /\ NoFault /\ Types
  BY Sounds DEF Turn, Saving
<1>2. CASE Leave(w) /\ UNCHANGED running
  BY <1>1, <1>2, LeaveStep
<1>3. ASSUME NEW i \in First(w), UNCHANGED draining, running' = ~state.queue[i].final,
             drain' = [drain EXCEPT ![w] =
               [at |-> IF state.queue[i].final THEN "sending" ELSE "executing",
                job |-> state.queue[i].by, index |-> i]]
      PROVE  BridgeSound'
  <2> DEFINE job == state.queue[i]
             c == [at |-> IF job.final THEN "sending" ELSE "executing", job |-> job.by, index |-> i]
  <2>1. i \in DOMAIN state.queue /\ ~job.delayed /\ job \in Job /\ i \in Nat
    BY Sounds, StoreTypes DEF First, Runnable
  <2>2. /\ c.at \in {"sending", "executing"} /\ c.job = job.by /\ c.index = i
        /\ c.at = "sending" <=> job.final
    OBVIOUS
  <2>3. c \in [at : DrainSteps, job : Deliveries \cup {None}, index : Nat]
    BY <2>1 DEF DrainSteps, Job
  <2> HIDE DEF c
  <2>4. drain' = [drain EXCEPT ![w] = c]
    BY <1>3 DEF c
  <2>5. /\ drain' \in [Drains -> [at : DrainSteps, job : Deliveries \cup {None}, index : Nat]]
        /\ drain'[w] = c /\ \A v \in Drains : v # w => drain'[v] = drain[v]
    BY <1>1, <2>3, <2>4 DEF Types
  <2>6. UNCHANGED <<state, saves>> /\ \A q : Saved(q)' = Saved(q)
    BY <1>1 DEF store, Saved
  <2>7. OneDrain'
    BY <1>1, <1>3, <2>5, OnlyCall DEF OneDrain
  <2>8. DrainSound(w)'
    BY <1>1, <2>1, <2>2, <2>5, <2>6 DEF DrainSound
  <2>9. \A v \in Drains : v # w => DrainSound(v)'
    BY <2>5, <2>6, Sounds DEF DrainSound
  <2>10. draining' \in BOOLEAN /\ running' \in BOOLEAN
    BY <1>1, <1>3, <2>1 DEF Types, Job
  <2>11. /\ \A v \in Drains : drain[v].at = "savingResult" /\ ~Saved(v) => drain'[v] = drain[v]
         /\ \A v \in Drains : drain'[v].at = "savingResult" => drain'[v] = drain[v]
    BY <1>1, <2>2, <2>5
  <2> QED BY <1>1, <2>5, <2>7, <2>8, <2>9, <2>10, <2>11, SameHandlers, CallsMove
<1> QED BY <1>2, <1>3 DEF Turn

\* The job a call executes or sends is where its index says, and is the only one of its delivery
LEMMA HeldJob ==
  ASSUME BridgeSound, NEW w \in Drains, drain[w].at \in {"executing", "sending"}
  PROVE  /\ drain[w].index \in DOMAIN state.queue
         /\ state.queue[drain[w].index].by = drain[w].job
         /\ Holds(w) /\ Held(w) = drain[w].index /\ JobOf(w) = state.queue[drain[w].index]
         /\ \A job : Changed(w, job) = [state.queue EXCEPT ![drain[w].index] = job]
         /\ JobOf(w) \in Job /\ drain[w].job \in Deliveries /\ drain[w].job \in Queued(state)
         /\ JobSound(JobOf(w), state.processed, shown)
         /\ drain[w].at = "executing" => ~JobOf(w).final /\ ~JobOf(w).delayed
         /\ drain[w].at = "sending" => JobOf(w).final
         /\ Saved(w)
<1> DEFINE k == drain[w].index
<1>1. k \in DOMAIN state.queue /\ state.queue[k].by = drain[w].job
  BY Sounds DEF DrainSound, Holding
<1>2. Holds(w)
  BY <1>1 DEF Holds
<1>3. Held(w) = k
  <2>1. Held(w) \in DOMAIN state.queue /\ state.queue[Held(w)].by = drain[w].job
    BY <1>1 DEF Held
  <2> QED BY <1>1, <2>1, Sounds DEF StoreSound
<1>4. JobOf(w) = state.queue[k]
  BY <1>3 DEF JobOf
<1>5. \A job : Changed(w, job) = [state.queue EXCEPT ![k] = job]
  BY <1>2, <1>3 DEF Changed
<1>6. JobOf(w) \in Job
  BY <1>1, <1>4, Sounds, StoreTypes
<1>7. drain[w].job \in Deliveries /\ drain[w].job \in Queued(state)
  BY <1>1, <1>4, <1>6 DEF Job, Queued
<1>8. JobSound(JobOf(w), state.processed, shown)
  BY <1>1, <1>4, Sounds DEF StoreSound
<1>9. /\ drain[w].at = "executing" => ~JobOf(w).final /\ ~JobOf(w).delayed
      /\ drain[w].at = "sending" => JobOf(w).final
      /\ Saved(w)
  BY <1>4, Sounds DEF DrainSound, SavingSteps, Saving
<1> QED BY <1>1, <1>2, <1>3, <1>4, <1>5, <1>6, <1>7, <1>8, <1>9

\* What is about to be sent is final in every store
LEMMA SendingFinal ==
  ASSUME BridgeSound, NEW w \in Drains, drain[w].at = "sending"
  PROVE  /\ Final(state, drain[w].job) /\ Final(disk, drain[w].job)
         /\ writing # None => Final(writing, drain[w].job)
<1> DEFINE k == drain[w].index
<1>1. k \in DOMAIN state.queue /\ state.queue[k].by = drain[w].job /\ state.queue[k].final
  BY HeldJob
<1>2. Final(state, drain[w].job)
  BY <1>1, Sounds, FinalByIndex
<1>3. \A v \in Drains : drain[v].at # "savingResult"
  BY OnlyCall
<1> QED BY <1>1, <1>2, <1>3, Sounds DEF FinalSound

\* The handlers do not notice what a call of drain() does to its job
LEMMA HandlersAside ==
  ASSUME BridgeSound, NEW w \in Drains, UNCHANGED <<disk, writing, handler>>,
         Known(state) = Known(state'), state.processed = state'.processed,
         saves' = saves \/ saves' = Append(saves, w),
         shown' = shown \/ (drain[w].job \in Queued(state) /\ shown' = shown \cup {drain[w].job})
  PROVE  HandlersSound'
<1>1. saves \in Seq(Deliveries \cup Drains)
  BY Sounds DEF Types
<1>2. ASSUME NEW d \in Deliveries
      PROVE  Saved(d)' = Saved(d) /\ (saves # <<>> => Head(saves') = Head(saves))
  <2>1. CASE saves' = saves
    BY <2>1 DEF Saved
  <2>2. CASE saves' = Append(saves, w)
    BY <1>1, <2>2, SaveFacts, Disjoint DEF Saved
  <2> QED BY <2>1, <2>2
<1>3. \A d \in Deliveries : d \in shown' => d \in shown \cup Known(state)
  BY DEF Known
<1>4. ASSUME NEW d \in Deliveries PROVE HandlerSound(d)'
  <2>1. handler'[d] = handler[d] /\ Known(state) \subseteq Known(state')
        /\ state.processed \subseteq state'.processed
    OBVIOUS
  <2> QED BY <1>2, <1>3, <2>1, HandlerStays
<1> QED BY <1>4 DEF HandlersSound

\* Results that were shown now are final in every store
LEMMA ShownFinal ==
  ASSUME BridgeSound, NEW w \in Drains,
         shown' = shown \/ (drain[w].at = "sending" /\ shown' = shown \cup {drain[w].job})
  PROVE  /\ shown \subseteq shown' /\ (drain[w].at \in {"executing", "sending"} => shown' \in SUBSET Deliveries)
         /\ \A d \in shown' \ shown :
              Final(state, d) /\ Final(disk, d) /\ (writing # None => Final(writing, d))
         /\ StoreSound(state, handler, shown')
<1>1. \A d \in shown' \ shown :
        Final(state, d) /\ Final(disk, d) /\ (writing # None => Final(writing, d))
  BY SendingFinal
<1>2. drain[w].at \in {"executing", "sending"} => shown' \in SUBSET Deliveries
  BY HeldJob, Sounds DEF Types
<1>3. StoreSound(state, handler, shown')
  BY <1>1, Sounds, SoundKept
<1> QED BY <1>1, <1>2, <1>3

\* A call changes the job it holds: at is its next step
LEMMA JobChanges ==
  ASSUME BridgeSound, NEW w \in Drains, drain[w].at \in {"executing", "sending"},
         NEW job \in Job, job.by = drain[w].job, JobSound(job, state.processed, shown'),
         NEW at \in DrainSteps, drain' = [drain EXCEPT ![w].at = at],
         state' = [state EXCEPT !.queue = Changed(w, job)],
         \/ at = "executing" /\ saves' = saves /\ ~job.final /\ ~job.delayed
         \/ /\ at \in {"savingResult", "savingBusy", "savingRetry"} /\ saves' = Append(saves, w)
            /\ (at = "savingResult") = (job.final /\ ~JobOf(w).final),
         shown' = shown \/ (drain[w].at = "sending" /\ shown' = shown \cup {drain[w].job}),
         UNCHANGED <<disk, writing, handler, draining>>, running' \in BOOLEAN, NoFault \/ Fault
  PROVE  BridgeSound'
<1> DEFINE k == drain[w].index
           t == [state EXCEPT !.queue = [state.queue EXCEPT ![k] = job]]
<1>1. k \in DOMAIN state.queue /\ state.queue[k].by = drain[w].job /\ JobOf(w) = state.queue[k] /\ Types
  BY HeldJob, Sounds
<1>2. StoreSound(state, handler, shown')
  BY ShownFinal
<1>3. /\ StoreSound(t, handler, shown') /\ Known(t) = Known(state) /\ t.processed = state.processed
      /\ DOMAIN t.queue = DOMAIN state.queue /\ t.queue[k] = job
      /\ \A i \in DOMAIN state.queue : i # k => t.queue[i] = state.queue[i]
  <2>1. job.by = state.queue[k].by /\ k \in DOMAIN state.queue
    BY <1>1
  <2> HIDE DEF k
  <2> QED BY <1>2, <2>1, ReplacedStore
<1>4. state' = t
  BY HeldJob
<1> HIDE DEF t, k
<1>5. /\ drain' \in [Drains -> [at : DrainSteps, job : Deliveries \cup {None}, index : Nat]]
      /\ drain'[w].at = at /\ drain'[w].job = drain[w].job /\ drain'[w].index = k
      /\ \A v \in Drains : v # w => drain'[v] = drain[v]
  BY <1>1, CallFields DEF k
<1>6. /\ saves' \in Seq(Deliveries \cup Drains) /\ (saves # <<>> => saves' # <<>> /\ Head(saves') = Head(saves))
      /\ \A q : Saved(q)' => Saved(q)
      /\ \A q : q # w => Saved(q)' = Saved(q)
      /\ saves' = saves => Saved(w)' = Saved(w)
      /\ saves' = Append(saves, w) => ~Saved(w)'
  BY <1>1, SaveFacts DEF Types, Saved
<1>7. Types'
  BY <1>1, <1>5, <1>6, ShownFinal, BoundsStay DEF Types
<1>8. StoresSound'
  <2>1. StoreSound(state', handler', shown') /\ Known(state) \subseteq Known(state')
    BY <1>3, <1>4
  <2> QED BY <1>6, <2>1, ShownFinal, StoresStay
<1>9. HandlersSound'
  <2>1. Known(state) = Known(state') /\ state.processed = state'.processed
    BY <1>3, <1>4
  <2> QED BY <2>1, HeldJob, HandlersAside
<1>10. OneDrain'
  BY <1>5, OnlyCall DEF OneDrain
<1>11. DrainSound(w)'
  <2>1. at \notin SavingSteps => at = "executing" /\ saves' = saves
    BY DEF SavingSteps, Saving
  <2>4. at \notin SavingSteps => Saved(w)'
    BY <1>6, <2>1, HeldJob
  <2>2. at # "sending" /\ (at = "executing" => ~job.final /\ ~job.delayed)
        /\ (at = "savingResult" => job.final)
    BY <1>1, HeldJob DEF Job
  <2>3. state'.queue[k] = job /\ k \in DOMAIN state'.queue
    BY <1>1, <1>3, <1>4 DEF k
  <2> QED BY <1>5, <2>2, <2>3, <2>4 DEF DrainSound
<1>12. \A v \in Drains : v # w => DrainSound(v)'
  <2> SUFFICES ASSUME NEW v \in Drains, v # w PROVE DrainSound(v)'
    OBVIOUS
  <2>1. drain[v].at = "idle" /\ "idle" \notin Holding
    BY OnlyCall DEF Holding
  <2> QED BY <1>5, <1>6, <2>1, DrainStays
<1>13. FinalSound'
  <2>1. \A v \in Drains : drain[v].at # "savingResult"
    BY OnlyCall
  <2>2. ASSUME NEW i \in DOMAIN state'.queue, state'.queue[i].final
        PROVE  \/ /\ Final(disk, state'.queue[i].by)
                  /\ writing # None => Final(writing, state'.queue[i].by)
               \/ \E v \in Drains :
                    drain'[v].at = "savingResult" /\ drain'[v].job = state'.queue[i].by /\ ~Saved(v)'
    <3>1. i \in DOMAIN state.queue /\ state'.queue[i].by = state.queue[i].by
      BY <1>1, <1>3, <1>4, <2>2 DEF k
    <3>2. CASE state.queue[i].final
      BY <2>1, <3>1, <3>2, Sounds DEF FinalSound
    <3>3. CASE ~state.queue[i].final
      <4>1. i = k
        BY <1>3, <1>4, <2>2, <3>1, <3>3
      <4>2. job.final /\ ~JobOf(w).final
        BY <1>1, <1>3, <1>4, <2>2, <3>3, <4>1 DEF k
      <4>3. at = "savingResult" /\ saves' = Append(saves, w)
        BY <4>2
      <4>4. ~Saved(w)' /\ drain'[w].at = "savingResult" /\ drain'[w].job = state'.queue[i].by
        BY <1>1, <1>5, <1>6, <3>1, <4>1, <4>3 DEF k
      <4> QED BY <4>4
    <3> QED BY <3>2, <3>3
  <2>3. ASSUME NEW v \in Drains, drain'[v].at = "savingResult", writing # None, Head(saves') = v
        PROVE  FALSE
    <3>1. v = w
      BY <1>5, <2>1, <2>3
    <3>2. saves # <<>> /\ Head(saves) = w
      BY <1>6, <2>3, <3>1, Sounds DEF StoresSound
    <3> QED BY <1>1, <3>2, HeldJob, FinishFacts DEF Types
  <2> QED BY <2>2, <2>3 DEF FinalSound, Final
<1> QED BY <1>7, <1>8, <1>9, <1>10, <1>11, <1>12, <1>13 DEF BridgeSound, DrainsSound

\* ... or takes it out, with its outcome
LEMMA JobLeaves ==
  ASSUME BridgeSound, NEW w \in Drains, drain[w].at \in {"executing", "sending"},
         NEW status \in {"completed", "failed"}, status = "completed" => drain[w].job \in shown',
         NEW at \in {"savingRemoval", "savingFailure"},
         Save(w, Removed(w, status)), DrainAt(w, at),
         shown' = shown \/ (drain[w].at = "sending" /\ shown' = shown \cup {drain[w].job}),
         UNCHANGED <<handler, draining>>, running' \in BOOLEAN,
         faults' \in 0..MaxFaults, spawns' \in 0..MaxSpawns, crashes' \in 0..MaxCrashes
  PROVE  BridgeSound'
<1> DEFINE k == drain[w].index
           d == drain[w].job
           t == Taken(state, k, d, status)
<1>1. k \in DOMAIN state.queue /\ state.queue[k].by = d /\ d \in Deliveries /\ Types
  BY HeldJob, Sounds
<1>2. StoreSound(state, handler, shown')
  BY ShownFinal
<1>3. /\ StoreSound(t, handler, shown') /\ Known(t) = Known(state) /\ t.processed = state.processed
      /\ \A i \in DOMAIN t.queue : \E j \in DOMAIN state.queue : t.queue[i] = state.queue[j]
  <2>1. /\ k \in DOMAIN state.queue /\ state.queue[k].by = d /\ d \in Deliveries
        /\ status = "completed" => d \in shown'
        /\ t = Taken(state, k, d, status)
    BY <1>1
  <2> HIDE DEF t, k, d
  <2> QED BY <1>2, <2>1, RemovedStore
<1>4. state' = t /\ saves' = Append(saves, w) /\ UNCHANGED <<disk, writing>>
  BY DEF Save, Removed, Taken
<1> HIDE DEF t, k, d
<1>5. at \in DrainSteps /\ at \notin Holding /\ at \in SavingSteps /\ "idle" \notin Holding
      /\ "idle" \notin SavingSteps
  BY DEF DrainSteps, Holding, SavingSteps, Saving
<1>6. /\ drain' \in [Drains -> [at : DrainSteps, job : Deliveries \cup {None}, index : Nat]]
      /\ drain'[w].at = at /\ \A v \in Drains : v # w => drain'[v] = drain[v]
  BY <1>1, <1>5, CallFields DEF DrainAt
<1>7. /\ saves' \in Seq(Deliveries \cup Drains) /\ saves' # <<>>
      /\ (saves # <<>> => Head(saves') = Head(saves))
      /\ \A q : q # w => Saved(q)' = Saved(q)
  BY <1>1, <1>4, SaveFacts DEF Types, Saved
<1>8. Types'
  BY <1>1, <1>6, <1>7, ShownFinal DEF Types
<1>9. StoresSound'
  <2>1. StoreSound(state', handler', shown') /\ Known(state) \subseteq Known(state')
    BY <1>3, <1>4
  <2> QED BY <1>4, <1>7, <2>1, ShownFinal, StoresStay
<1>10. HandlersSound'
  <2>1. Known(state) = Known(state') /\ state.processed = state'.processed
    BY <1>3, <1>4
  <2> QED BY <1>4, <2>1, HeldJob, HandlersAside
<1>11. OneDrain'
  BY <1>6, OnlyCall DEF OneDrain
<1>12. DrainSound(w)'
  BY <1>5, <1>6 DEF DrainSound, Holding
<1>13. \A v \in Drains : v # w => DrainSound(v)'
  <2> SUFFICES ASSUME NEW v \in Drains, v # w PROVE DrainSound(v)'
    OBVIOUS
  <2>1. drain[v].at = "idle"
    BY OnlyCall
  <2> QED BY <1>5, <1>6, <1>7, <2>1, DrainStays
<1>14. FinalSound'
  <2>1. \A v \in Drains : drain[v].at # "savingResult" /\ drain'[v].at # "savingResult"
    BY <1>6, OnlyCall
  <2>2. \A i \in DOMAIN state'.queue : state'.queue[i].final =>
           \E j \in DOMAIN state.queue :
             state.queue[j].by = state'.queue[i].by /\ state.queue[j].final
    BY <1>3, <1>4
  <2> QED BY <1>4, <1>7, <2>1, <2>2, FinalStays
<1> QED BY <1>8, <1>9, <1>10, <1>11, <1>12, <1>13, <1>14 DEF BridgeSound, DrainsSound

LEMMA AttemptSucceedsStep ==
  ASSUME BridgeSound, NEW w \in Drains, AttemptSucceeds(w)
  PROVE  BridgeSound'
<1> DEFINE old == JobOf(w)
           job == [old EXCEPT !.final = TRUE, !.delayed = FALSE]
<1>1. /\ drain[w].at = "executing" /\ drain' = [drain EXCEPT ![w].at = "savingResult"]
      /\ Save(w, [state EXCEPT !.queue = Changed(w, job)])
      /\ running' = FALSE /\ UNCHANGED <<handler, draining, shown>> /\ NoFault
  BY DEF AttemptSucceeds, DrainAt
<1>2. /\ old \in Job /\ old.by = drain[w].job /\ ~old.final /\ drain[w].job \notin shown
      /\ JobSound(old, state.processed, shown)
  BY <1>1, HeldJob DEF JobSound
<1> HIDE DEF old
<1>3. /\ job \in Job /\ job.by = old.by /\ job.id = old.id /\ job.requested = old.requested
      /\ job.executor = old.executor /\ job.final
  BY <1>2 DEF Job
<1> HIDE DEF job
<1>4. JobSound(job, state.processed, shown')
  BY <1>1, <1>2, <1>3 DEF JobSound
<1>5. state' = [state EXCEPT !.queue = Changed(w, job)] /\ saves' = Append(saves, w)
      /\ UNCHANGED <<disk, writing>>
  BY <1>1 DEF Save
<1>6. "savingResult" \in DrainSteps /\ job.final = (job.final /\ ~JobOf(w).final)
  BY <1>2, <1>3 DEF DrainSteps, Saving, old
<1> DEFINE at == "savingResult"
<1>7. /\ at \in {"savingResult", "savingBusy", "savingRetry"} /\ saves' = Append(saves, w)
      /\ (at = "savingResult") = (job.final /\ ~JobOf(w).final)
  BY <1>3, <1>5, <1>6
<1>8. job.by = drain[w].job /\ at \in DrainSteps /\ drain' = [drain EXCEPT ![w].at = at]
  BY <1>1, <1>2, <1>3, <1>6
<1> HIDE DEF at
<1> QED BY <1>1, <1>3, <1>4, <1>5, <1>7, <1>8, JobChanges

\* The job is executed next by a fallback, which is never Codex
LEMMA FallBackStep ==
  ASSUME BridgeSound, NEW w \in Drains, FallBack(w)
  PROVE  BridgeSound'
<1> DEFINE old == JobOf(w)
<1>1. PICK e \in NextExecutors(old.executor) :
        state' = [state EXCEPT !.queue = Changed(w, [old EXCEPT !.executor = e])]
  BY DEF FallBack
<1> DEFINE job == [old EXCEPT !.executor = e]
           at == "executing"
<1>2. /\ drain[w].at = "executing" /\ Fault
      /\ UNCHANGED <<disk, saves, writing, handler, draining, drain, running, shown>>
  BY DEF FallBack
<1>3. /\ old \in Job /\ old.by = drain[w].job /\ ~old.final /\ ~old.delayed
      /\ JobSound(old, state.processed, shown)
  BY <1>2, HeldJob
<1>4. e \in Executors /\ e # "codex"
  BY DEF NextExecutors, Executors
<1> HIDE DEF old
<1>5. /\ job \in Job /\ job.by = old.by /\ job.id = old.id /\ job.executor = e
      /\ ~job.final /\ ~job.delayed
  BY <1>3, <1>4 DEF Job
<1>6. state' = [state EXCEPT !.queue = Changed(w, job)]
  BY <1>1
<1> HIDE DEF job
<1>7. JobSound(job, state.processed, shown')
  BY <1>2, <1>3, <1>4, <1>5 DEF JobSound
<1>8. drain' = [drain EXCEPT ![w].at = at] /\ running' \in BOOLEAN /\ at \in DrainSteps
  BY <1>2, Sounds DEF Types, DrainSteps
<1>9. job.by = drain[w].job
  BY <1>3, <1>5
<1> HIDE DEF at
<1>10. at = "executing" /\ saves' = saves /\ ~job.final /\ ~job.delayed
  BY <1>2, <1>5 DEF at
<1> QED BY <1>2, <1>5, <1>6, <1>7, <1>8, <1>9, <1>10, JobChanges

\* The job waits, with the executor that was requested
LEMMA WaitStep ==
  ASSUME BridgeSound, NEW w \in Drains, drain[w].at \in {"executing", "sending"},
         NEW e \in Executors, JobOf(w).final => e = JobOf(w).executor,
         ~JobOf(w).final => e = JobOf(w).requested,
         Save(w, [state EXCEPT !.queue = Changed(w, [JobOf(w) EXCEPT !.delayed = TRUE, !.executor = e])]),
         NEW at \in {"savingBusy", "savingRetry"}, DrainAt(w, at),
         shown' = shown \/ (drain[w].at = "sending" /\ shown' = shown \cup {drain[w].job}),
         UNCHANGED <<handler, draining>>, running' \in BOOLEAN, Fault
  PROVE  BridgeSound'
<1> DEFINE old == JobOf(w)
           job == [old EXCEPT !.delayed = TRUE, !.executor = e]
<1>1. /\ old \in Job /\ old.by = drain[w].job /\ JobSound(old, state.processed, shown)
      /\ drain[w].at = "sending" => old.final
  BY HeldJob
<1>2. /\ state' = [state EXCEPT !.queue = Changed(w, job)] /\ saves' = Append(saves, w)
      /\ UNCHANGED <<disk, writing>>
  BY DEF Save
<1>3. (old.final => e = old.executor) /\ (~old.final => e = old.requested)
  OBVIOUS
<1>4. old = JobOf(w)
  OBVIOUS
<1> HIDE DEF old
<1>5. /\ job \in Job /\ job.by = old.by /\ job.id = old.id /\ job.requested = old.requested
      /\ job.executor = e /\ job.final = old.final /\ old.final \in BOOLEAN
  BY <1>1 DEF Job
<1> HIDE DEF job
<1>6. JobSound(job, state.processed, shown')
  BY <1>1, <1>3, <1>5 DEF JobSound
<1>7. at \in DrainSteps /\ drain' = [drain EXCEPT ![w].at = at] /\ job.by = drain[w].job
  BY <1>1, <1>5 DEF DrainSteps, Saving, DrainAt
<1>8. /\ at \in {"savingResult", "savingBusy", "savingRetry"} /\ saves' = Append(saves, w)
      /\ (at = "savingResult") = (job.final /\ ~JobOf(w).final)
  BY <1>2, <1>4, <1>5
<1> QED BY <1>2, <1>5, <1>6, <1>7, <1>8, JobChanges

\* Only Codex finds the session in use, and only a request for Codex gets to Codex
LEMMA SessionBusyStep ==
  ASSUME BridgeSound, NEW w \in Drains, SessionBusy(w)
  PROVE  BridgeSound'
<1> DEFINE old == JobOf(w)
           e == old.executor
<1>1. /\ drain[w].at = "executing" /\ old.executor = "codex" /\ DrainAt(w, "savingBusy")
      /\ Save(w, [state EXCEPT !.queue = Changed(w, [old EXCEPT !.delayed = TRUE])])
      /\ running' = FALSE /\ UNCHANGED <<handler, draining, shown>> /\ Fault
  BY DEF SessionBusy
<1>2. old \in Job /\ ~old.final /\ JobSound(old, state.processed, shown)
  BY <1>1, HeldJob
<1>3. e \in Executors /\ e = old.requested
  BY <1>1, <1>2 DEF JobSound, Job
<1>4. [old EXCEPT !.delayed = TRUE] = [old EXCEPT !.delayed = TRUE, !.executor = e]
  <2> HIDE DEF old
  <2> QED BY <1>2 DEF Job
<1>5. Save(w, [state EXCEPT !.queue = Changed(w, [old EXCEPT !.delayed = TRUE, !.executor = e])])
  BY <1>1, <1>4
<1> QED BY <1>1, <1>2, <1>3, <1>5, WaitStep

LEMMA RetainStep ==
  ASSUME BridgeSound, NEW w \in Drains, drain[w].at \in {"executing", "sending"}, RetainForRetry(w),
         shown' = shown \/ (drain[w].at = "sending" /\ shown' = shown \cup {drain[w].job}),
         UNCHANGED <<handler, draining>>, running' \in BOOLEAN, Fault
  PROVE  BridgeSound'
<1> DEFINE old == JobOf(w)
           e == IF old.final THEN old.executor ELSE old.requested
<1>1. old \in Job
  BY HeldJob
<1>2. e \in Executors
  BY <1>1, BridgeAssumption DEF Job, Executors
<1>3. Save(w, [state EXCEPT !.queue = Changed(w, [old EXCEPT !.delayed = TRUE, !.executor = e])])
  BY <1>1 DEF RetainForRetry, Retained, Job
<1>4. DrainAt(w, "savingRetry")
  BY DEF RetainForRetry
<1>5. (JobOf(w).final => e = JobOf(w).executor) /\ (~JobOf(w).final => e = JobOf(w).requested)
  OBVIOUS
<1> HIDE DEF e
<1> QED BY <1>2, <1>3, <1>4, <1>5, WaitStep

LEMMA SendFailsStep ==
  ASSUME BridgeSound, NEW w \in Drains, SendFails(w)
  PROVE  BridgeSound'
<1>1. /\ drain[w].at = "sending" /\ RetainForRetry(w) /\ UNCHANGED <<handler, draining, running>> /\ Fault
      /\ shown' = shown \/ shown' = shown \cup {drain[w].job}
  BY DEF SendFails
<1>2. running' \in BOOLEAN
  BY <1>1, Sounds DEF Types
<1> QED BY <1>1, <1>2, RetainStep

LEMMA AttemptFailsStep ==
  ASSUME BridgeSound, NEW w \in Drains, AttemptFails(w)
  PROVE  BridgeSound'
<1>1. /\ drain[w].at = "executing" /\ RetainForRetry(w) /\ running' = FALSE
      /\ UNCHANGED <<handler, draining, shown>> /\ Fault
  BY DEF AttemptFails
<1>2. running' \in BOOLEAN /\ shown' = shown
  BY <1>1
<1> QED BY <1>1, <1>2, RetainStep

LEMMA SendFinalStep ==
  ASSUME BridgeSound, NEW w \in Drains, SendFinal(w)
  PROVE  BridgeSound'
<1> DEFINE at == "savingRemoval"
           status == "completed"
<1>1. /\ drain[w].at = "sending" /\ shown' = shown \cup {drain[w].job}
      /\ Save(w, Removed(w, status)) /\ DrainAt(w, at)
      /\ UNCHANGED <<handler, draining, running>> /\ NoFault
  BY DEF SendFinal
<1>2. /\ running' \in BOOLEAN
      /\ faults' \in 0..MaxFaults /\ spawns' \in 0..MaxSpawns /\ crashes' \in 0..MaxCrashes
  BY <1>1, Sounds, BoundsStay DEF Types
<1>3. /\ status \in {"completed", "failed"} /\ at \in {"savingRemoval", "savingFailure"}
      /\ drain[w].job \in shown'
  BY <1>1
<1> HIDE DEF at, status
<1> QED BY <1>1, <1>2, <1>3, JobLeaves

LEMMA GiveUpStep ==
  ASSUME BridgeSound, NEW w \in Drains, drain[w].at = "executing", GiveUp(w),
         UNCHANGED <<handler, draining, shown>>, running' \in BOOLEAN,
         faults' \in 0..MaxFaults, spawns' \in 0..MaxSpawns, crashes' \in 0..MaxCrashes
  PROVE  BridgeSound'
<1> DEFINE at == "savingFailure"
           status == "failed"
<1>1. Save(w, Removed(w, status)) /\ DrainAt(w, at)
  BY DEF GiveUp
<1>2. /\ status \in {"completed", "failed"} /\ at \in {"savingRemoval", "savingFailure"}
      /\ status # "completed"
  OBVIOUS
<1> HIDE DEF at, status
<1> QED BY <1>1, <1>2, JobLeaves

LEMMA AttemptRejectedStep ==
  ASSUME BridgeSound, NEW w \in Drains, AttemptRejected(w)
  PROVE  BridgeSound'
<1>1. /\ drain[w].at = "executing" /\ GiveUp(w) /\ running' = FALSE
      /\ UNCHANGED <<handler, draining, shown>> /\ Fault
  BY DEF AttemptRejected
<1> QED BY <1>1, GiveUpStep, BoundsStay, Sounds

LEMMA SpawnFailsStep ==
  ASSUME BridgeSound, NEW w \in Drains, SpawnFails(w)
  PROVE  BridgeSound'
<1>1. /\ drain[w].at = "executing" /\ GiveUp(w) /\ spawns < MaxSpawns /\ spawns' = spawns + 1
      /\ UNCHANGED <<handler, draining, running, shown, faults, crashes>> /\ Types
  BY Sounds DEF SpawnFails
<1>2. /\ running' \in BOOLEAN
      /\ faults' \in 0..MaxFaults /\ spawns' \in 0..MaxSpawns /\ crashes' \in 0..MaxCrashes
  BY <1>1, BridgeAssumption DEF Types
<1> QED BY <1>1, <1>2, GiveUpStep

LEMMA BreakStep ==
  ASSUME BridgeSound, NEW w \in Drains, Break(w)
  PROVE  BridgeSound'
BY LeaveStep DEF Break

LEMMA BusyNoticeStep ==
  ASSUME BridgeSound, NEW w \in Drains, BusyNotice(w)
  PROVE  BridgeSound'
<1>1. CASE Leave(w) /\ UNCHANGED <<store, handler, running, shown>> /\ NoFault
  BY <1>1, LeaveStep DEF BusyNotice
<1>2. CASE Restart /\ Fault
  BY <1>2, RestartStep, BoundsStay, Sounds
<1> QED BY <1>1, <1>2 DEF BusyNotice

-----------------------------------------------------------------------------
(* Time, and all steps *)

\* nextAttemptAt passes: no call holds that job, for a job in execution is not delayed
LEMMA ElapseStep ==
  ASSUME BridgeSound, NEW k \in DOMAIN state.queue, Elapse(k)
  PROVE  BridgeSound'
<1> DEFINE old == state.queue[k]
           job == [old EXCEPT !.delayed = FALSE]
           t == [state EXCEPT !.queue = [state.queue EXCEPT ![k] = job]]
<1>1. /\ old.delayed /\ state' = [state EXCEPT !.queue[k].delayed = FALSE]
      /\ UNCHANGED <<disk, saves, writing, handler, draining, drain, running, shown, bounds>>
  BY DEF Elapse
<1>2. old \in Job /\ JobSound(old, state.processed, shown) /\ state \in Store /\ Types
  BY Sounds, StoreTypes DEF StoreSound
<1>3. state' = t
  BY <1>1, <1>2
<1> HIDE DEF old, t
<1>4. /\ job \in Job /\ job.by = old.by /\ job.id = old.id /\ job.requested = old.requested
      /\ job.executor = old.executor /\ job.final = old.final /\ ~job.delayed
  BY <1>2 DEF Job
<1> HIDE DEF job
<1>5. JobSound(job, state.processed, shown) /\ job.by = state.queue[k].by
  BY <1>2, <1>4 DEF JobSound, old
<1>6. /\ StoreSound(t, handler, shown) /\ Known(t) = Known(state) /\ t.processed = state.processed
      /\ DOMAIN t.queue = DOMAIN state.queue /\ t.queue[k] = job
      /\ \A i \in DOMAIN state.queue : i # k => t.queue[i] = state.queue[i]
  BY <1>4, <1>5, Sounds, ReplacedStore DEF t
<1>7. Types'
  BY <1>1, <1>2 DEF Types, bounds
<1>8. \A q : Saved(q)' = Saved(q)
  BY <1>1 DEF Saved
<1>9. StoresSound'
  <2>1. StoreSound(state', handler', shown') /\ Known(state) \subseteq Known(state')
    BY <1>1, <1>3, <1>6
  <2> QED BY <1>1, <2>1, StoresStay
<1>10. ASSUME NEW d \in Deliveries PROVE HandlerSound(d)'
  <2>1. Known(state) \subseteq Known(state') /\ state.processed \subseteq state'.processed
    BY <1>3, <1>6
  <2> QED BY <1>1, <1>8, <2>1, HandlerStays
<1>11. ASSUME NEW w \in Drains PROVE DrainSound(w)'
  <2>1. \A i \in DOMAIN state.queue : /\ i \in DOMAIN state'.queue
                                      /\ state'.queue[i].by = state.queue[i].by
                                      /\ state'.queue[i].final = state.queue[i].final
                                      /\ ~state.queue[i].delayed => ~state'.queue[i].delayed
    BY <1>3, <1>4, <1>6 DEF old
  <2>2. drain[w].at \in Holding => drain[w].index \in DOMAIN state.queue
    BY Sounds DEF DrainSound
  <2>3. DrainSound(w) /\ drain'[w] = drain[w] /\ Saved(w)' = Saved(w)
    BY <1>1, <1>8, Sounds
  <2>4. "executing" \in Holding /\ "sending" \in Holding /\ "savingResult" \in Holding
    BY DEF Holding
  <2> QED BY <2>1, <2>2, <2>3, <2>4 DEF DrainSound
<1>12. OneDrain'
  BY <1>1, Sounds DEF OneDrain
<1>13. FinalSound'
  <2>1. \A i \in DOMAIN state'.queue : state'.queue[i].final =>
           \E j \in DOMAIN state.queue :
             state.queue[j].by = state'.queue[i].by /\ state.queue[j].final
    BY <1>3, <1>4, <1>6 DEF old
  <2> QED BY <1>1, <1>8, <2>1, FinalStays
<1> QED BY <1>7, <1>9, <1>10, <1>11, <1>12, <1>13 DEF BridgeSound, HandlersSound, DrainsSound

LEMMA CrashStep ==
  ASSUME BridgeSound, Crash
  PROVE  BridgeSound'
<1>1. /\ crashes < MaxCrashes /\ crashes' = crashes + 1 /\ Restart
      /\ UNCHANGED <<faults, spawns>> /\ Types
  BY Sounds DEF Crash
<1>2. faults' \in 0..MaxFaults /\ spawns' \in 0..MaxSpawns /\ crashes' \in 0..MaxCrashes
  BY <1>1, BridgeAssumption DEF Types
<1> QED BY <1>1, <1>2, RestartStep

LEMMA HandlerStepSound ==
  ASSUME BridgeSound, NEW d \in Deliveries, HandlerStep(d)
  PROVE  BridgeSound'
<1>1. CASE MarkProcessed(d)
  BY <1>1, MarkProcessedStep
<1>2. CASE UpdateCard(d)
  BY <1>2, UpdateCardStep
<1>3. CASE LookupFails(d)
  <2>1. handler[d].at # "new" /\ Complain(d)
    BY <1>3 DEF LookupFails, Looking
  <2> QED BY <2>1, Sounds, ComplainStep DEF HandlerSound
<1>4. CASE Enqueue(d)
  BY <1>4, EnqueueStep
<1>5. CASE ReplyQueued(d)
  BY <1>5, ReplyQueuedStep
<1>6. CASE ReplyFails(d)
  <2>1. handler[d].at # "new" /\ Complain(d)
    BY <1>6 DEF ReplyFails
  <2> QED BY <2>1, Sounds, ComplainStep DEF HandlerSound
<1> QED BY <1>1, <1>2, <1>3, <1>4, <1>5, <1>6 DEF HandlerStep

LEMMA DrainStepSound ==
  ASSUME BridgeSound, NEW w \in Drains, DrainStep(w)
  PROVE  BridgeSound'
<1>1. CASE Turn(w)
  BY <1>1, TurnStep
<1>2. CASE SendFinal(w)
  BY <1>2, SendFinalStep
<1>3. CASE SendFails(w)
  BY <1>3, SendFailsStep
<1>4. CASE AttemptSucceeds(w)
  BY <1>4, AttemptSucceedsStep
<1>5. CASE FallBack(w)
  BY <1>5, FallBackStep
<1>6. CASE SessionBusy(w)
  BY <1>6, SessionBusyStep
<1>7. CASE AttemptFails(w)
  BY <1>7, AttemptFailsStep
<1>8. CASE AttemptRejected(w)
  BY <1>8, AttemptRejectedStep
<1>9. CASE SpawnFails(w)
  BY <1>9, SpawnFailsStep
<1>10. CASE Break(w)
  BY <1>10, BreakStep
<1>11. CASE BusyNotice(w)
  BY <1>11, BusyNoticeStep
<1> QED BY <1>1, <1>2, <1>3, <1>4, <1>5, <1>6, <1>7, <1>8, <1>9, <1>10, <1>11 DEF DrainStep

LEMMA BridgeInit ==
  ASSUME Init
  PROVE  BridgeSound
<1>1. /\ state = Empty /\ disk = Empty /\ saves = <<>> /\ writing = None /\ shown = {}
      /\ draining = FALSE /\ running = FALSE /\ faults = 0 /\ spawns = 0 /\ crashes = 0
      /\ handler = [d \in Deliveries |-> NoHandler] /\ drain = [w \in Drains |-> IdleDrain]
  BY DEF Init
<1>2. saves \in Seq(Deliveries \cup Drains) /\ \A q : Saved(q)
  BY <1>1, NothingSaved
<1>3. \A d \in Deliveries : handler[d] = NoHandler
  BY <1>1
<1>4. \A w \in Drains : drain[w] = IdleDrain
  BY <1>1
<1>5. /\ Empty \in Store /\ Empty.queue = <<>> /\ DOMAIN Empty.queue = {}
      /\ \A d \in Deliveries : Empty.history[d] = "none"
  <2>1. <<>> \in Seq(Job) /\ Len(<<>>) = 0
    BY EmptySeq
  <2>2. /\ Empty.queue = <<>> /\ Empty.processed = {} /\ Empty.history = [d \in Deliveries |-> "none"]
        /\ Empty = [queue |-> <<>>, processed |-> {}, history |-> [d \in Deliveries |-> "none"]]
    BY DEF Empty
  <2>3. Empty \in Store
    BY <2>1, <2>2 DEF Store
  <2>4. DOMAIN Empty.queue = {}
    BY <2>2
  <2> QED BY <2>2, <2>3, <2>4
<1>6. Known(Empty) = {}
  BY <1>5 DEF Known, Queued, Settled
<1>7. StoreSound(Empty, handler, shown)
  BY <1>5, <1>6 DEF StoreSound
<1>8. /\ IdleDrain \in [at : DrainSteps, job : Deliveries \cup {None}, index : Nat]
      /\ IdleDrain.at = "idle" /\ "idle" \notin Holding /\ "idle" \notin SavingSteps
  BY DEF IdleDrain, DrainSteps, Holding, SavingSteps, Saving
<1>9. NoHandler \in [at : HandlerSteps, id : Ids \cup {None}] /\ NoHandler.at = "new"
  BY DEF NoHandler, HandlerSteps
<1>10. Types
  <2>1. handler \in [Deliveries -> [at : HandlerSteps, id : Ids \cup {None}]]
    BY <1>1, <1>9
  <2>2. drain \in [Drains -> [at : DrainSteps, job : Deliveries \cup {None}, index : Nat]]
    BY <1>1, <1>8
  <2>3. faults \in 0..MaxFaults /\ spawns \in 0..MaxSpawns /\ crashes \in 0..MaxCrashes
    BY <1>1, BridgeAssumption
  <2> QED BY <1>1, <1>2, <2>1, <2>2, <2>3 DEF Types
<1>11. StoresSound
  BY <1>1, <1>7 DEF StoresSound
<1>12. HandlersSound
  BY <1>1, <1>3, <1>9 DEF HandlersSound, HandlerSound
<1>13. DrainsSound
  BY <1>2, <1>4, <1>8 DEF DrainsSound, OneDrain, DrainSound
<1>14. FinalSound
  BY <1>1, <1>4, <1>5, <1>8 DEF FinalSound
<1> QED BY <1>10, <1>11, <1>12, <1>13, <1>14 DEF BridgeSound

LEMMA BridgeStep ==
  ASSUME BridgeSound, [Next]_vars
  PROVE  BridgeSound'
<1>1. CASE UNCHANGED vars
  BY <1>1 DEF vars, store, bounds, BridgeSound, Types, StoresSound, HandlersSound, HandlerSound,
       DrainsSound, OneDrain, DrainSound, FinalSound, StoreSound, Known, Queued, Settled, Final, Saved
<1>2. CASE StartWrite
  BY <1>2, StartWriteStep
<1>3. CASE FinishWrite
  BY <1>3, FinishWriteStep
<1>4. CASE Crash
  BY <1>4, CrashStep
<1>5. CASE RetryQueued
  BY <1>5, RetryQueuedStep
<1>6. ASSUME NEW d \in Deliveries, HandlerStep(d)
      PROVE  BridgeSound'
  BY <1>6, HandlerStepSound
<1>7. ASSUME NEW d \in Deliveries, NEW m \in Ids, Deliver(d, m)
      PROVE  BridgeSound'
  BY <1>7, DeliverStep
<1>8. ASSUME NEW w \in Drains, DrainStep(w)
      PROVE  BridgeSound'
  BY <1>8, DrainStepSound
<1>9. ASSUME NEW i \in DOMAIN state.queue, Elapse(i)
      PROVE  BridgeSound'
  BY <1>9, ElapseStep
<1> QED BY <1>1, <1>2, <1>3, <1>4, <1>5, <1>6, <1>7, <1>8, <1>9 DEF Next

\* The bridge keeps its invariant through every interleaving of events, saves,
\* attempts and crashes (bridge.js, codex-runner.js, state-store.js).
THEOREM BridgeIsSound == Spec => []BridgeSound
<1>1. Init => BridgeSound
  BY BridgeInit
<1>2. BridgeSound /\ [Next]_vars => BridgeSound'
  BY BridgeStep
<1> QED BY <1>1, <1>2, PTL DEF Spec

-----------------------------------------------------------------------------
(* What follows *)

\* The bridge keeps its types; a call of drain() finds its job where it found it, so the
\* splice by index after minutes of awaiting takes out the job that was executed; a job in
\* the file has its mark there; and a job waits for its retry with the executor that was
\* requested (bridge.js, drain, handle and retainForRetry).
THEOREM JobsStayInPlace == Spec => []BridgeInvariant
<1>1. ASSUME BridgeSound PROVE BridgeInvariant
  <2>1. TypeOK
    BY <1>1, Sounds DEF TypeOK, Types
  <2>2. DrainHoldsItsJob
    BY <1>1, Sounds DEF DrainHoldsItsJob, DrainSound, Holding
  <2>3. QueuedIsMarked
    BY <1>1, Sounds DEF QueuedIsMarked, StoreSound, JobSound
  <2>4. WaitsWithRequested
    BY <1>1, Sounds DEF WaitsWithRequested, StoreSound, JobSound
  <2> QED BY <2>1, <2>2, <2>3, <2>4 DEF BridgeInvariant
<1> QED BY <1>1, BridgeIsSound, PTL

\* Whoever was told that the request is queued finds it in the state file, or its outcome,
\* whatever crashes afterwards (bridge.js, enqueue: save before reply).
THEOREM AcceptedStaysDurable == Spec => []AcceptedIsDurable
<1>1. ASSUME BridgeSound PROVE AcceptedIsDurable
  BY <1>1, Sounds DEF AcceptedIsDurable, HandlerSound, Known
<1> QED BY <1>1, BridgeIsSound, PTL

\* A job whose result was shown is not executed again, although its sending may have looked
\* failed and the process may have crashed since (bridge.js, drain: finalResult is saved
\* before it is sent).
THEOREM ResultsAreFinal == Spec => []NoExecutionAfterResult
<1>1. ASSUME BridgeSound PROVE NoExecutionAfterResult
  <2> SUFFICES ASSUME NEW w \in Drains, drain[w].at = "executing" PROVE drain[w].job \notin shown
    BY DEF NoExecutionAfterResult
  <2> QED BY <1>1, HeldJob DEF JobSound
<1> QED BY <1>1, BridgeIsSound, PTL

\* Only the rename at the end of a write changes the state file
LEMMA FileChanges ==
  ASSUME [Next]_vars, ~FinishWrite
  PROVE  disk' = disk
<1>1. CASE UNCHANGED vars
  BY <1>1 DEF vars, store
<1>2. CASE StartWrite \/ Crash \/ RetryQueued
  BY <1>2 DEF StartWrite, Crash, Restart, RetryQueued, store
<1>3. ASSUME NEW d \in Deliveries, HandlerStep(d)
      PROVE  disk' = disk
  BY <1>3 DEF HandlerStep, MarkProcessed, UpdateCard, LookupFails, Enqueue, ReplyQueued, ReplyFails,
       Complain, Restart, Save, store
<1>4. ASSUME NEW d \in Deliveries, NEW m \in Ids, Deliver(d, m)
      PROVE  disk' = disk
  BY <1>4 DEF Deliver, Save, store
<1>5. ASSUME NEW w \in Drains, DrainStep(w)
      PROVE  disk' = disk
  BY <1>5 DEF DrainStep, Turn, SendFinal, SendFails, AttemptSucceeds, FallBack, SessionBusy,
       AttemptFails, AttemptRejected, SpawnFails, Break, BusyNotice, RetainForRetry, GiveUp,
       Restart, Save, store
<1>6. ASSUME NEW i \in DOMAIN state.queue, Elapse(i)
      PROVE  disk' = disk
  BY <1>6 DEF Elapse
<1> QED BY <1>1, <1>2, <1>3, <1>4, <1>5, <1>6 DEF Next

\* A job leaves the state file only with its outcome: with its result shown to the owner, or
\* recorded as failed (bridge.js, drain: send, then record and remove in one save).
THEOREM OutcomesAreRecorded == Spec => LeavesWithOutcome
<1>1. ASSUME BridgeSound, [Next]_vars, NEW d \in Queued(disk) \ Queued(disk')
      PROVE  \/ disk'.history[d] = "completed" /\ d \in shown
             \/ disk'.history[d] = "failed"
  <2>1. FinishWrite
    BY <1>1, FileChanges
  <2>2. /\ writing # None /\ disk' = writing /\ StoreSound(writing, handler, shown)
        /\ Known(disk) \subseteq Known(writing)
    BY <1>1, <2>1, Sounds DEF FinishWrite, StoresSound
  <2>3. d \in Known(writing) /\ d \notin Queued(writing)
    BY <1>1, <2>2 DEF Known
  <2>4. d \in Deliveries /\ writing.history[d] # "none"
    BY <2>3 DEF Known, Settled
  <2>5. writing.history[d] \in {"none", "completed", "failed"}
    BY <2>2, <2>4, StoreTypes DEF StoreSound
  <2> QED BY <2>2, <2>4, <2>5 DEF StoreSound
<1>2. BridgeSound /\ [Next]_vars =>
        [\A d \in Queued(disk) \ Queued(disk') :
           \/ disk'.history[d] = "completed" /\ d \in shown
           \/ disk'.history[d] = "failed"]_vars
  BY <1>1
<1> QED BY <1>2, BridgeIsSound, PTL DEF Spec, LeavesWithOutcome
=============================================================================

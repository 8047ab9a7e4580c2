------------------------- MODULE WakeSchedulerProofs -------------------------
(***************************************************************************)
(* Proofs about WakeScheduler for every set of items and delays and every  *)
(* value of the recovery interval, the lease, the pass budget, the retry   *)
(* delay and the length of a run.                                          *)
(***************************************************************************)
EXTENDS WakeScheduler, TLAPS

ItemRow == [st : ItemState, due : Int, attempt : Nat, woken : BOOLEAN, busy : Nat]
DrainState == [pc : DrainPc, passes : 0 .. MaxPasses, item : Items \cup {None}, elapsed : 0 .. RunLen]

-----------------------------------------------------------------------------
(* Type correctness *)

LEMMA IdleTypes ==
  /\ IdleDrain \in DrainState
  /\ [IdleDrain EXCEPT !.pc = "immediate"] \in DrainState
  /\ IdleDrain.pc = "idle" /\ [IdleDrain EXCEPT !.pc = "immediate"].pc = "immediate"
BY SchedulerAssumption DEF IdleDrain, DrainState, DrainPc

\* A drain moves on within its loop
LEMMA DrainUpdate ==
  ASSUME NEW d \in DrainState, NEW pc \in DrainPc, NEW i \in Items \cup {None}, NEW n \in 0 .. RunLen
  PROVE  /\ [d EXCEPT !.pc = pc] \in DrainState
         /\ [d EXCEPT !.pc = pc, !.item = i, !.elapsed = n] \in DrainState
BY DEF DrainState

LEMMA ClaimedRow ==
  ASSUME NEW row \in ItemRow
  PROVE  [row EXCEPT !.due = LeaseLen, !.attempt = @ + 1, !.woken = FALSE, !.busy = 0] \in ItemRow
<1>1. LeaseLen \in Int /\ row.attempt + 1 \in Nat
  BY SchedulerAssumption DEF ItemRow
<1> QED BY <1>1 DEF ItemRow

LEMMA SettledRow ==
  ASSUME NEW row \in ItemRow, NEW st \in ItemState, NEW due \in Int, NEW busy \in Nat
  PROVE  [row EXCEPT !.st = st, !.due = due, !.busy = busy] \in ItemRow
BY DEF ItemRow

LEMMA SoonType ==
  ASSUME NEW t \in Int
  PROVE  Soon(t) \in Int /\ Soon(t) >= t
<1>1. Late \in Int
  BY SchedulerAssumption
<1> QED BY <1>1 DEF Soon

LEMMA WokenType ==
  ASSUME TypeOK
  PROVE  Woken \in [Items -> ItemRow]
<1>1. \A i \in Items : item[i] \in ItemRow
  BY DEF TypeOK, ItemRow
<1>2. \A i \in Items : [item[i] EXCEPT !.woken = TRUE] \in ItemRow
  BY <1>1 DEF ItemRow
<1> QED BY <1>1, <1>2 DEF Woken

LEMMA WakeNowType ==
  ASSUME TypeOK, WakeNow
  PROVE  wakePending' \in BOOLEAN /\ drain' \in DrainState
BY IdleTypes DEF TypeOK, WakeNow, DrainState

\* What run() claims
LEMMA ClaimType ==
  ASSUME TypeOK, Claim
  PROVE  item' \in [Items -> ItemRow] /\ drain' \in DrainState
<1>1. drain \in DrainState /\ "running" \in DrainPc /\ 0 \in 0 .. RunLen
      /\ \A i \in Items : item[i] \in ItemRow
  BY SchedulerAssumption DEF TypeOK, DrainState, DrainPc, ItemRow
<1>2. CASE UNCHANGED item /\ drain' = [drain EXCEPT !.pc = "running", !.item = None, !.elapsed = 0]
  BY <1>1, <1>2, DrainUpdate DEF TypeOK, ItemRow
<1>3. ASSUME NEW i \in Items,
             item' = [item EXCEPT ![i].due = LeaseLen, ![i].attempt = @ + 1,
                                  ![i].woken = FALSE, ![i].busy = 0],
             drain' = [drain EXCEPT !.pc = "running", !.item = i, !.elapsed = 0]
      PROVE  item' \in [Items -> ItemRow] /\ drain' \in DrainState
  <2>1. drain' \in DrainState
    BY <1>1, <1>3, DrainUpdate
  <2>2. [item[i] EXCEPT !.due = LeaseLen, !.attempt = @ + 1, !.woken = FALSE, !.busy = 0] \in ItemRow
    BY <1>1, ClaimedRow
  <2>3. item' = [item EXCEPT ![i] =
                  [item[i] EXCEPT !.due = LeaseLen, !.attempt = @ + 1, !.woken = FALSE, !.busy = 0]]
    BY <1>3
  <2> QED BY <2>1, <2>2, <2>3 DEF TypeOK, ItemRow
<1> QED BY <1>2, <1>3 DEF Claim

\* A run that comes back has used a pass
LEMMA AfterRunType ==
  ASSUME TypeOK, WakeSound, drain.pc = "running", AfterRun
  PROVE  wakePending' \in BOOLEAN /\ drain' \in DrainState
<1>1. drain.passes \in 0 .. MaxPasses /\ drain.passes < MaxPasses
  BY DEF TypeOK, WakeSound
<1>2. drain.passes + 1 \in 0 .. MaxPasses /\ 0 \in 0 .. RunLen /\ "top" \in DrainPc
  BY <1>1, SchedulerAssumption DEF DrainPc
<1> QED BY <1>2 DEF AfterRun, TypeOK, DrainState

LEMMA SpentTypes ==
  ASSUME TypeOK
  PROVE  /\ [spent EXCEPT !.faults = @ + 1] \in [faults : Nat, crashes : Nat, disposals : Nat]
         /\ [spent EXCEPT !.crashes = @ + 1] \in [faults : Nat, crashes : Nat, disposals : Nat]
         /\ [spent EXCEPT !.disposals = @ + 1] \in [faults : Nat, crashes : Nat, disposals : Nat]
BY DEF TypeOK

LEMMA TypeRestated ==
  ASSUME item' \in [Items -> ItemRow], hints' \subseteq Items \X Int, wakePending' \in BOOLEAN,
         drain' \in DrainState, scheduledAt' \in Int \cup {None}, recovery' \in 0 .. Recovery,
         disposed' \in BOOLEAN, spent' \in [faults : Nat, crashes : Nat, disposals : Nat]
  PROVE  TypeOK'
BY DEF TypeOK, ItemRow, DrainState

LEMMA DeliverHintType ==
  ASSUME TypeOK, NEW h \in Items \X Int, DeliverHint(h)
  PROVE  TypeOK'
<1>1. CASE h[2] <= 0
  BY <1>1, WakeNowType, WokenType, TypeRestated DEF DeliverHint, TypeOK
<1>2. CASE ~(h[2] <= 0)
  <2>1. h[2] \in Int
    OBVIOUS
  <2>2. scheduledAt' \in Int \cup {None}
    BY <1>2, <2>1 DEF DeliverHint, WakeAt, TypeOK
  <2> QED BY <1>2, <2>2 DEF DeliverHint, TypeOK
<1> QED BY <1>1, <1>2

LEMMA RunType ==
  ASSUME TypeOK, WakeSound, Run
  PROVE  TypeOK'
<1>1. drain \in DrainState /\ item \in [Items -> ItemRow]
  BY DEF TypeOK, DrainState, ItemRow
<1>2. CASE RunStarts
  BY <1>2, ClaimType, TypeRestated DEF RunStarts, TypeOK
<1>3. CASE RunFindsNothing
  BY <1>1, <1>3, AfterRunType, TypeRestated DEF RunFindsNothing, TypeOK
<1>4. ASSUME RunSettles \/ RunDefers PROVE drain.item \in Items
  BY <1>4 DEF RunSettles, RunDefers, TypeOK
<1>5. CASE RunSettles
  <2>1. [item[drain.item] EXCEPT !.st = "done", !.due = 0, !.busy = 0] \in ItemRow
    <3>1. item[drain.item] \in ItemRow /\ "done" \in ItemState /\ 0 \in Int /\ 0 \in Nat
      BY <1>1, <1>4, <1>5 DEF ItemState
    <3> QED BY <3>1, SettledRow
  <2>2. item' = [item EXCEPT ![drain.item] =
                  [item[drain.item] EXCEPT !.st = "done", !.due = 0, !.busy = 0]]
    BY <1>5 DEF RunSettles
  <2>3. item' \in [Items -> ItemRow]
    BY <1>1, <2>1, <2>2
  <2> QED BY <1>5, <2>3, AfterRunType, TypeRestated DEF RunSettles, TypeOK
<1>6. CASE RunDefers
  <2>1. RetryDelay - drain.elapsed \in Int /\ Positive(drain.elapsed - RetryDelay) \in Nat
    BY SchedulerAssumption DEF TypeOK, Positive
  <2>2. [item[drain.item] EXCEPT !.due = RetryDelay - drain.elapsed, !.woken = FALSE,
                                 !.busy = Positive(drain.elapsed - RetryDelay)] \in ItemRow
    <3>1. item[drain.item] \in ItemRow
      BY <1>1, <1>4, <1>6
    <3> QED BY <2>1, <3>1 DEF ItemRow
  <2>3. item' = [item EXCEPT ![drain.item] =
                  [item[drain.item] EXCEPT !.due = RetryDelay - drain.elapsed, !.woken = FALSE,
                                           !.busy = Positive(drain.elapsed - RetryDelay)]]
    BY <1>6 DEF RunDefers
  <2>4. item' \in [Items -> ItemRow]
    BY <1>1, <2>2, <2>3
  <2>5. hints' \subseteq Items \X Int
    <3>1. <<drain.item, RetryDelay - drain.elapsed>> \in Items \X Int
      BY <1>4, <1>6, <2>1
    <3> QED BY <1>6, <3>1 DEF RunDefers, TypeOK
  <2> QED BY <1>6, <2>4, <2>5, AfterRunType, TypeRestated DEF RunDefers, TypeOK
<1>7. CASE RunThrows
  <2>1. [drain EXCEPT !.pc = "finally", !.item = None, !.elapsed = 0] \in DrainState
    <3>1. "finally" \in DrainPc /\ 0 \in 0 .. RunLen
      BY SchedulerAssumption DEF DrainPc
    <3> QED BY <1>1, <3>1 DEF DrainState
  <2> QED BY <1>1, <1>7, <2>1, SpentTypes, TypeRestated DEF RunThrows, TypeOK
<1> QED BY <1>2, <1>3, <1>5, <1>6, <1>7 DEF Run

LEMMA TickType ==
  ASSUME TypeOK, WakeSound, Tick
  PROVE  TypeOK'
<1>1. drain \in DrainState /\ item \in [Items -> ItemRow]
  BY DEF TypeOK, DrainState, ItemRow
<1>2. drain' \in DrainState
  <2>1. CASE UNCHANGED drain
    BY <1>1, <2>1
  <2>2. CASE drain.elapsed < RunLen /\ drain' = [drain EXCEPT !.elapsed = @ + 1]
    <3>1. drain.elapsed + 1 \in 0 .. RunLen
      BY <1>1, <2>2, SchedulerAssumption DEF DrainState
    <3> QED BY <1>1, <2>2, <3>1 DEF DrainState
  <2> QED BY <2>1, <2>2 DEF Tick
<1>3. item' \in [Items -> ItemRow]
  <2> SUFFICES ASSUME NEW i \in Items, item[i].st = "waiting"
               PROVE  [item[i] EXCEPT !.due = Soon(@ - 1),
                                      !.busy = IF Attended(i) THEN @ + 1 ELSE @] \in ItemRow
    BY <1>1 DEF Tick
  <2>1. item[i].due - 1 \in Int /\ item[i].busy \in Nat /\ item[i].busy + 1 \in Nat
    BY <1>1 DEF ItemRow
  <2>2. Soon(item[i].due - 1) \in Int
    BY <2>1, SoonType
  <2> DEFINE due == Soon(item[i].due - 1)
             busy == IF Attended(i) THEN item[i].busy + 1 ELSE item[i].busy
  <2>3. item[i] \in ItemRow /\ due \in Int /\ busy \in Nat
    BY <1>1, <2>1, <2>2
  <2> HIDE DEF due, busy
  <2>4. [item[i] EXCEPT !.due = due, !.busy = busy] \in ItemRow
    BY <2>3 DEF ItemRow
  <2> QED BY <2>4 DEF due, busy
<1>4. recovery' \in 0 .. Recovery
  <2>1. Recovery \in Nat /\ recovery \in 0 .. Recovery
    BY SchedulerAssumption DEF TypeOK
  <2>2. (disposed \/ recovery > 0) /\ recovery' = IF disposed THEN recovery ELSE recovery - 1
    BY DEF Tick
  <2> QED BY <2>1, <2>2
<1>5. scheduledAt' \in Int \cup {None}
  <2>1. scheduledAt' = IF scheduledAt = None THEN None ELSE scheduledAt - 1
    BY DEF Tick
  <2> QED BY <2>1 DEF TypeOK
<1> QED BY <1>2, <1>3, <1>4, <1>5, TypeRestated DEF TypeOK, Tick

LEMMA TypeKept ==
  ASSUME TypeOK, WakeSound, [Next]_vars
  PROVE  TypeOK'
<1>1. drain \in DrainState /\ item \in [Items -> ItemRow]
  BY DEF TypeOK, DrainState, ItemRow
<1>2. ASSUME NEW i \in Items, NEW delay \in Delays, Commit(i, delay) PROVE TypeOK'
  <2>1. [item[i] EXCEPT !.st = "waiting", !.due = delay] \in ItemRow
    <3>1. item[i] \in ItemRow /\ "waiting" \in ItemState /\ delay \in Int
      BY <1>1, SchedulerAssumption DEF ItemState
    <3> QED BY <3>1 DEF ItemRow
  <2>2. item' \in [Items -> ItemRow]
    BY <1>1, <1>2, <2>1 DEF Commit
  <2>3. hints' \subseteq Items \X Int
    <3>1. delay \in Int
      BY SchedulerAssumption
    <3> QED BY <1>2, <3>1 DEF Commit, TypeOK
  <2> QED BY <1>2, <2>2, <2>3, TypeRestated, <1>1 DEF Commit, schedVars, TypeOK
<1>3. ASSUME NEW h \in hints, DeliverHint(h) PROVE TypeOK'
  <2>1. h \in Items \X Int
    BY DEF TypeOK
  <2> QED BY <1>3, <2>1, DeliverHintType
<1>4. CASE TimerFires
  BY <1>4, WakeNowType, WokenType, TypeRestated DEF TimerFires, TypeOK
<1>5. CASE RecoveryFires
  BY <1>5, WakeNowType, WokenType, TypeRestated, SchedulerAssumption DEF RecoveryFires, TypeOK
<1>6. CASE DrainStarts \/ LoopEnds \/ Finally
  <2>1. drain' \in DrainState
    BY <1>1, <1>6, IdleTypes DEF DrainStarts, LoopEnds, Finally, DrainState, DrainPc
  <2> QED BY <1>1, <1>6, <2>1, TypeRestated DEF DrainStarts, LoopEnds, Finally, TypeOK
<1>7. CASE Run
  BY <1>7, RunType
<1>8. CASE Dispose
  BY <1>1, <1>8, IdleTypes, SpentTypes, TypeRestated DEF Dispose, TypeOK
<1>9. CASE Restart
  <2>1. item' \in [Items -> ItemRow]
    <3>1. \A i \in Items : [item[i] EXCEPT !.woken = FALSE] \in ItemRow
      BY <1>1 DEF ItemRow
    <3> QED BY <1>9, <3>1 DEF Restart
  <2>2. hints' = {} /\ wakePending' = TRUE /\ scheduledAt' = None /\ recovery' = Recovery
        /\ disposed' = FALSE /\ drain' = [IdleDrain EXCEPT !.pc = "immediate"]
        /\ spent' = [spent EXCEPT !.crashes = @ + 1]
    BY <1>9 DEF Restart
  <2>3. Recovery \in 0 .. Recovery
    BY SchedulerAssumption
  <2> QED BY <2>1, <2>2, <2>3, IdleTypes, SpentTypes, TypeRestated
<1>10. CASE Tick
  BY <1>10, TickType
<1>11. CASE UNCHANGED vars
  BY <1>11 DEF vars, schedVars, TypeOK
<1> QED BY <1>2, <1>3, <1>4, <1>5, <1>6, <1>7, <1>8, <1>9, <1>10, <1>11 DEF Next, Scheduler

-----------------------------------------------------------------------------
(* How late an item can be *)

\* The loop's part of WakeSound, and what WakeInvariant says of one item
LoopSound ==
  /\ drain.pc = "running" => drain.passes < MaxPasses
  /\ wakePending /\ ~disposed => Draining
  /\ spent.disposals = 0 => ~disposed

RowSound(i) ==
  /\ item[i].woken => item[i].st = "done" \/ Due(i)
  /\ LateSound(i)
  /\ spent.faults = 0 /\ ~disposed /\ Due(i) /\ item[i].woken => Attending

LEMMA InvariantSplit == WakeInvariant <=> TypeOK /\ LoopSound /\ \A i \in Items : RowSound(i)
BY DEF WakeInvariant, WakeSound, DrainCoversBacklog, LoopSound, RowSound

\* How far the recovery scans reach back, and by how much every throw extends it
Reach == Recovery * (spent.faults + 1)

LEMMA Multiple ==
  ASSUME NEW r \in Nat, NEW f \in Nat
  PROVE  r * (f + 1) \in Nat /\ r * (f + 1) >= r /\ r * (f + 1 + 1) = r * (f + 1) + r
<1>1. r * f \in Nat
  OBVIOUS
<1>2. r * (f + 1) = r * f + r /\ r * (f + 1 + 1) = r * f + r + r
  OBVIOUS
<1> QED BY <1>1, <1>2

LEMMA ReachBounds ==
  ASSUME TypeOK
  PROVE  /\ Reach \in Nat /\ Reach >= Recovery
         /\ spent' = [spent EXCEPT !.faults = @ + 1] => Reach' = Reach + Recovery
         /\ spent'.faults = spent.faults => Reach' = Reach
<1>1. Recovery \in Nat /\ spent.faults \in Nat
  BY SchedulerAssumption DEF TypeOK
<1>2. spent' = [spent EXCEPT !.faults = @ + 1] => spent'.faults = spent.faults + 1
  BY DEF TypeOK
<1> QED BY <1>1, <1>2, Multiple DEF Reach

\* LateSound with its two cases apart
LEMMA LateMeans ==
  ASSUME TypeOK, NEW i \in Items
  PROVE  LateSound(i) <=>
           (spent.disposals = 0 /\ Due(i) =>
              /\ item[i].due + Reach + item[i].busy >= 0
              /\ ~Attending => item[i].due + Reach + item[i].busy >= recovery)
<1>1. recovery \in Nat /\ item[i].due \in Int /\ item[i].busy \in Nat /\ Reach \in Nat
  BY ReachBounds, SchedulerAssumption DEF TypeOK
<1> QED BY <1>1 DEF LateSound, Reach

LEMMA LateMeansNext ==
  ASSUME TypeOK', NEW i \in Items
  PROVE  LateSound(i)' <=>
           (spent'.disposals = 0 /\ Due(i)' =>
              /\ item'[i].due + Reach' + item'[i].busy >= 0
              /\ ~Attending' => item'[i].due + Reach' + item'[i].busy >= recovery')
<1>1. recovery' \in Nat /\ item'[i].due \in Int /\ item'[i].busy \in Nat /\ Reach' \in Nat
  <2>1. Recovery \in Nat /\ spent'.faults \in Nat
    BY SchedulerAssumption DEF TypeOK
  <2>2. Reach' \in Nat
    BY <2>1, Multiple DEF Reach
  <2> QED BY <2>2, SchedulerAssumption DEF TypeOK
<1> QED BY <1>1 DEF LateSound, Reach

\* A step that leaves a row alone, lets no drain rest that was on its way and does not
\* wind the recovery timer up keeps what is said of the row
LEMMA RowAlone ==
  ASSUME TypeOK, TypeOK', NEW i \in Items, RowSound(i),
         item'[i] = item[i], spent' = spent, disposed' = disposed, recovery' = recovery,
         Attending => Attending'
  PROVE  RowSound(i)'
<1>1. Reach' = Reach /\ Due(i)' = Due(i)
  BY DEF Reach, Due
<1>2. LateSound(i)'
  BY <1>1, LateMeans, LateMeansNext DEF RowSound
<1> QED BY <1>1, <1>2 DEF RowSound

\* When a drain is on its way afterwards, a row that was not made later is sound
LEMMA RowAttended ==
  ASSUME TypeOK, TypeOK', NEW i \in Items, RowSound(i), Attending',
         Due(i)' => Due(i) /\ item'[i].due = item[i].due /\ item'[i].busy = item[i].busy,
         spent'.faults = spent.faults, spent'.disposals = spent.disposals,
         item'[i].woken => item'[i].st = "done" \/ Due(i)'
  PROVE  RowSound(i)'
<1>1. Reach' = Reach
  BY ReachBounds
<1>2. LateSound(i)'
  BY <1>1, LateMeans, LateMeansNext DEF RowSound
<1> QED BY <1>2 DEF RowSound

-----------------------------------------------------------------------------
(* Every step keeps WakeInvariant *)

LEMMA InitInvariant == Init => WakeInvariant
<1> SUFFICES ASSUME Init PROVE WakeInvariant
  OBVIOUS
<1>1. IdleDrain \in DrainState
  BY IdleTypes
<1>2. TypeOK
  <2>1. item \in [Items -> [st : ItemState, due : Int, attempt : Nat, woken : BOOLEAN, busy : Nat]]
    BY DEF Init, ItemState
  <2>2. spent \in [faults : Nat, crashes : Nat, disposals : Nat]
    BY DEF Init
  <2>3. Recovery \in 0 .. Recovery
    BY SchedulerAssumption
  <2>4. drain \in [pc : DrainPc, passes : 0 .. MaxPasses, item : Items \cup {None}, elapsed : 0 .. RunLen]
    BY <1>1 DEF Init, DrainState
  <2> QED BY <2>1, <2>2, <2>3, <2>4 DEF Init, TypeOK
<1>3. LoopSound
  BY DEF Init, LoopSound, IdleDrain
<1>4. ASSUME NEW i \in Items PROVE ~Due(i) /\ ~item[i].woken
  BY DEF Init, Due
<1> QED BY <1>2, <1>3, <1>4, InvariantSplit DEF RowSound, LateSound

\* A run starts with passes left, and a pending wake has its drain
LEMMA LoopKept ==
  ASSUME TypeOK, LoopSound, [Next]_vars
  PROVE  LoopSound'
<1>1. CASE UNCHANGED <<wakePending, drain, disposed, spent>>
  BY <1>1 DEF LoopSound, Draining
<1>2. CASE WakeNow /\ UNCHANGED <<disposed, spent>>
  BY <1>2, IdleTypes DEF LoopSound, WakeNow, Draining
<1>3. CASE DrainStarts \/ LoopEnds
  <2>1. drain'.pc \in {"top", "finally"}
        /\ disposed' = disposed /\ spent' = spent
    BY <1>3 DEF DrainStarts, LoopEnds, TypeOK
  <2> QED BY <2>1 DEF LoopSound, Draining
<1>4. CASE Finally
  BY <1>4, IdleTypes DEF Finally, LoopSound, Draining
<1>5. CASE RunStarts
  <2>1. drain'.pc = "running" /\ drain'.passes = drain.passes /\ drain.passes < MaxPasses
        /\ disposed' = disposed /\ spent' = spent
    BY <1>5 DEF RunStarts, Claim, TypeOK
  <2> QED BY <2>1 DEF LoopSound, Draining
<1>6. CASE RunFindsNothing \/ RunSettles \/ RunDefers
  <2>1. drain'.pc = "top" /\ disposed' = disposed /\ spent' = spent
    BY <1>6 DEF RunFindsNothing, RunSettles, RunDefers, AfterRun, TypeOK
  <2> QED BY <2>1 DEF LoopSound, Draining
<1>7. CASE RunThrows
  <2>1. drain'.pc = "finally" /\ disposed' = disposed /\ spent'.disposals = spent.disposals
    BY <1>7 DEF RunThrows, TypeOK
  <2> QED BY <2>1 DEF LoopSound, Draining
<1>8. CASE Dispose
  <2>1. disposed' /\ spent'.disposals = spent.disposals + 1 /\ (drain'.pc = "running" => drain' = drain)
    BY <1>8, IdleTypes DEF Dispose, TypeOK
  <2>2. ~(spent'.disposals = 0)
    BY <2>1 DEF TypeOK
  <2> QED BY <2>1, <2>2 DEF LoopSound
<1>9. CASE Restart
  <2>1. drain'.pc = "immediate" /\ ~disposed'
    BY <1>9, IdleTypes DEF Restart
  <2> QED BY <2>1 DEF LoopSound, Draining
<1>10. CASE Tick
  <2>1. drain'.pc = drain.pc /\ drain'.passes = drain.passes
        /\ wakePending' = wakePending /\ disposed' = disposed /\ spent' = spent
    BY <1>10 DEF Tick, TypeOK
  <2> QED BY <2>1 DEF LoopSound, Draining
<1> QED BY <1>1, <1>2, <1>3, <1>4, <1>5, <1>6, <1>7, <1>8, <1>9, <1>10
        DEF Next, Scheduler, Run, Commit, DeliverHint, TimerFires, RecoveryFires, vars, schedVars

\* What a wake that is not dropped does
LEMMA WakeKeeps ==
  ASSUME TypeOK, TypeOK', LoopSound, NEW i \in Items, RowSound(i), WakeNow, item' = Woken,
         spent' = spent, disposed' = disposed
  PROVE  RowSound(i)'
<1>1. CASE disposed
  <2>1. ~(spent.disposals = 0)
    BY <1>1 DEF LoopSound
  <2>2. item'[i] = item[i] /\ Due(i)' = Due(i)
    BY <1>1 DEF Woken, Due
  <2>3. UNCHANGED <<wakePending, drain>>
    BY <1>1 DEF WakeNow
  <2> QED BY <1>1, <2>1, <2>2, <2>3 DEF RowSound, LateSound
<1>2. CASE ~disposed
  <2>1. wakePending' /\ Draining' /\ (drain.pc # "running" => drain'.pc # "running")
        /\ (drain.pc = "running" => drain' = drain)
    BY <1>2, IdleTypes DEF WakeNow, Draining
  <2>2. Attending'
    BY <2>1 DEF Attending
  <2>3. item'[i].st = item[i].st /\ item'[i].due = item[i].due /\ item'[i].busy = item[i].busy
        /\ (item'[i].woken => item[i].woken \/ Due(i))
    BY DEF Woken, TypeOK
  <2>4. Due(i)' = Due(i)
    BY <2>3 DEF Due
  <2>5. RowSound(i)'
    BY <2>2, <2>3, <2>4, RowAttended DEF RowSound
  <2> QED BY <2>5
<1> QED BY <1>1, <1>2

\* The loop's own steps, which leave the rows alone
LEMMA QuietKeeps ==
  ASSUME TypeOK, TypeOK', LoopSound, NEW i \in Items, RowSound(i),
         DrainStarts \/ LoopEnds \/ Finally \/ RunFindsNothing
  PROVE  RowSound(i)'
<1>1. item' = item /\ spent' = spent /\ disposed' = disposed /\ recovery' = recovery
  BY DEF DrainStarts, LoopEnds, Finally, RunFindsNothing
<1>2. ~disposed /\ Attending => Attending'
  <2>1. CASE DrainStarts \/ LoopEnds
    <3>1. drain.pc # "idle" /\ drain.pc # "running" /\ drain'.pc \in {"top", "finally"}
          /\ wakePending' = wakePending
      BY <2>1 DEF DrainStarts, LoopEnds, TypeOK
    <3> QED BY <1>1, <3>1 DEF Attending, Draining
  <2>2. CASE Finally
    <3>1. drain.pc = "finally" /\ wakePending' = wakePending
          /\ (~disposed /\ wakePending => drain'.pc = "immediate") /\ drain'.pc # "running"
      BY <2>2, IdleTypes DEF Finally
    <3> QED BY <1>1, <3>1 DEF Attending, Draining
  <2>3. CASE RunFindsNothing
    <3>1. drain.pc = "running" /\ drain.item = None /\ drain'.pc = "top"
          /\ wakePending' = wakePending
      BY <2>3 DEF RunFindsNothing, AfterRun, TypeOK
    <3> QED BY <1>1, <3>1 DEF Attending, Draining
  <2> QED BY <2>1, <2>2, <2>3
<1>3. CASE disposed
  <2>1. ~(spent.disposals = 0) /\ Due(i)' = Due(i)
    BY <1>1, <1>3 DEF LoopSound, Due
  <2> QED BY <1>1, <1>2, <1>3, <2>1 DEF RowSound, LateSound
<1>4. CASE ~disposed
  BY <1>1, <1>2, <1>4, RowAlone
<1> QED BY <1>3, <1>4

\* run() claims the item that is due longest, or finds that nothing is
LEMMA RunStartsKeeps ==
  ASSUME TypeOK, TypeOK', LoopSound, NEW i \in Items, RowSound(i), RunStarts
  PROVE  RowSound(i)'
<1>1. drain'.pc = "running" /\ disposed' = disposed /\ spent' = spent /\ recovery' = recovery
  BY DEF RunStarts, Claim, TypeOK
<1>3. CASE (\A j \in Items : ~Due(j)) /\ UNCHANGED item
  <2>1. item'[i] = item[i] /\ ~Due(i)' /\ ~Due(i)
    BY <1>3 DEF Due
  <2> QED BY <2>1 DEF RowSound, LateSound
<1>4. ASSUME NEW j \in Items,
             item' = [item EXCEPT ![j].due = LeaseLen, ![j].attempt = @ + 1,
                                  ![j].woken = FALSE, ![j].busy = 0],
             drain' = [drain EXCEPT !.pc = "running", !.item = j, !.elapsed = 0]
      PROVE  RowSound(i)'
  <2>1. Attending'
    <3>1. drain'.item = j /\ j # None
      BY <1>4, SchedulerAssumption DEF TypeOK
    <3> QED BY <1>1, <3>1 DEF Attending
  <2>2. CASE i = j
    <3>1. item'[i].due = LeaseLen /\ ~item'[i].woken
      BY <1>4, <2>2 DEF TypeOK
    <3>2. ~Due(i)'
      BY <3>1, SchedulerAssumption DEF Due
    <3> QED BY <3>1, <3>2 DEF RowSound, LateSound
  <2>3. CASE i # j
    <3>1. item'[i] = item[i]
      BY <1>4, <2>3 DEF TypeOK
    <3> QED BY <1>1, <2>1, <3>1, RowAlone
  <2> QED BY <2>2, <2>3
<1> QED BY <1>3, <1>4 DEF RunStarts, Claim

\* A run that settles or defers its item is followed by another
LEMMA RunEndsKeeps ==
  ASSUME TypeOK, TypeOK', LoopSound, NEW i \in Items, RowSound(i), RunSettles \/ RunDefers
  PROVE  RowSound(i)'
<1>1. drain.pc = "running" /\ drain.item \in Items /\ drain'.pc = "top" /\ wakePending'
      /\ disposed' = disposed /\ spent' = spent /\ recovery' = recovery
  BY DEF RunSettles, RunDefers, AfterRun, TypeOK
<1>2. Attending'
  BY <1>1 DEF Attending, Draining
<1>3. CASE i # drain.item
  <2>1. item'[i] = item[i]
    BY <1>1, <1>3 DEF RunSettles, RunDefers, TypeOK
  <2> QED BY <1>1, <1>2, <2>1, RowAlone
<1>4. CASE i = drain.item /\ RunSettles
  <2>1. item'[i].st = "done"
    BY <1>1, <1>4 DEF RunSettles, TypeOK
  <2>2. ~Due(i)'
    BY <2>1 DEF Due
  <2> QED BY <1>2, <2>1, <2>2 DEF RowSound, LateSound
<1>5. CASE i = drain.item /\ RunDefers
  <2> DEFINE late == drain.elapsed - RetryDelay
  <2>1. late \in Int /\ RetryDelay - drain.elapsed = -late
    BY SchedulerAssumption DEF TypeOK
  <2>2. item'[i].due = -late /\ item'[i].busy = Positive(late) /\ ~item'[i].woken
    BY <1>1, <1>5, <2>1 DEF RunDefers, TypeOK
  <2>3. item'[i].due + item'[i].busy >= 0 /\ Reach' \in Nat
    BY <1>1, <2>1, <2>2, ReachBounds DEF Positive
  <2>4. LateSound(i)'
    <3>1. item'[i].due \in Int /\ item'[i].busy \in Nat
      BY DEF TypeOK
    <3> QED BY <1>2, <2>3, <3>1, LateMeansNext
  <2> QED BY <1>2, <2>2, <2>4 DEF RowSound
<1> QED BY <1>3, <1>4, <1>5

\* An exception costs one recovery interval
LEMMA RunThrowsKeeps ==
  ASSUME TypeOK, TypeOK', LoopSound, NEW i \in Items, RowSound(i), RunThrows
  PROVE  RowSound(i)'
<1>1. item' = item /\ disposed' = disposed /\ recovery' = recovery /\ wakePending' = wakePending
      /\ drain'.pc = "finally" /\ drain.pc = "running"
      /\ spent'.disposals = spent.disposals /\ spent'.faults = spent.faults + 1
  BY DEF RunThrows, TypeOK
<1>3. Reach' = Reach + Recovery /\ Reach \in Nat
  BY ReachBounds DEF RunThrows
<1>4. recovery \in 0 .. Recovery /\ Recovery \in Nat
      /\ item[i].due \in Int /\ item[i].busy \in Nat
  BY SchedulerAssumption DEF TypeOK
<1>5. Due(i)' = Due(i)
  BY <1>1 DEF Due
<1>6. LateSound(i)'
  <2> SUFFICES ASSUME spent'.disposals = 0, Due(i)'
               PROVE  /\ item'[i].due + Reach' + item'[i].busy >= 0
                      /\ item'[i].due + Reach' + item'[i].busy >= recovery'
    BY LateMeansNext
  <2>1. item[i].due + Reach + item[i].busy >= 0
    BY <1>1, <1>5, LateMeans DEF RowSound
  <2> QED BY <1>1, <1>3, <1>4, <2>1
<1>7. ~(spent'.faults = 0)
  BY <1>1 DEF TypeOK
<1> QED BY <1>1, <1>5, <1>6, <1>7 DEF RowSound

LEMMA DisposeKeeps ==
  ASSUME TypeOK, TypeOK', LoopSound, NEW i \in Items, RowSound(i), Dispose
  PROVE  RowSound(i)'
<1>1. disposed' /\ item' = item /\ spent'.disposals = spent.disposals + 1
      /\ (drain'.pc = "running" => drain' = drain)
  BY IdleTypes DEF Dispose, TypeOK
<1>2. ~(spent'.disposals = 0) /\ Due(i)' = Due(i)
  BY <1>1 DEF TypeOK, Due
<1> QED BY <1>1, <1>2 DEF RowSound, LateSound

LEMMA RestartKeeps ==
  ASSUME TypeOK, TypeOK', LoopSound, NEW i \in Items, RowSound(i), Restart
  PROVE  RowSound(i)'
<1>1. wakePending' /\ drain'.pc = "immediate" /\ ~disposed'
      /\ spent'.disposals = spent.disposals /\ spent'.faults = spent.faults
  BY IdleTypes DEF Restart, TypeOK
<1>2. Attending'
  BY <1>1 DEF Attending, Draining
<1>3. item'[i].st = item[i].st /\ item'[i].due = item[i].due /\ item'[i].busy = item[i].busy
      /\ ~item'[i].woken
  BY DEF Restart, TypeOK
<1>4. Due(i)' = Due(i)
  BY <1>3 DEF Due
<1> QED BY <1>1, <1>2, <1>3, <1>4, RowAttended

\* New work is due at once or later
LEMMA CommitKeeps ==
  ASSUME TypeOK, TypeOK', LoopSound, NEW i \in Items, RowSound(i),
         NEW j \in Items, NEW delay \in Delays, Commit(j, delay)
  PROVE  RowSound(i)'
<1>1. wakePending' = wakePending /\ drain' = drain /\ disposed' = disposed /\ recovery' = recovery
      /\ spent' = spent
  BY DEF Commit, schedVars
<1>2. Attending' = Attending
  BY <1>1 DEF Attending, Draining
<1>3. CASE i # j
  <2>1. item'[i] = item[i]
    BY <1>3 DEF Commit, TypeOK
  <2> QED BY <1>1, <1>2, <2>1, RowAlone
<1>4. CASE i = j
  <2>1. item[i].st = "absent" /\ item'[i].due = delay /\ item'[i].woken = item[i].woken
        /\ delay \in Nat
    BY <1>4, SchedulerAssumption DEF Commit, TypeOK
  <2>2. ~item'[i].woken
    BY <2>1 DEF RowSound, Due
  <2>3. Reach' \in Nat /\ Reach' >= Recovery /\ recovery' \in 0 .. Recovery
        /\ item'[i].busy \in Nat /\ Recovery \in Nat
    BY <1>1, ReachBounds, SchedulerAssumption DEF TypeOK
  <2>4. LateSound(i)'
    BY <2>1, <2>3, LateMeansNext
  <2> QED BY <1>2, <2>2, <2>4 DEF RowSound
<1> QED BY <1>3, <1>4

\* A tick brings the recovery scan as much closer as it makes an item later, unless
\* a run is in progress, in which case it counts as busy
LEMMA TickKeeps ==
  ASSUME TypeOK, TypeOK', LoopSound, NEW i \in Items, RowSound(i), Tick
  PROVE  RowSound(i)'
<1>1. drain'.pc = drain.pc /\ drain'.item = drain.item /\ drain'.passes = drain.passes
      /\ drain.pc \in {"idle", "running"}
      /\ wakePending' = wakePending /\ disposed' = disposed /\ spent' = spent
  BY DEF Tick, TypeOK
<1>2. Attending' = Attending
  BY <1>1 DEF Attending, Draining
<1>3. CASE item[i].st # "waiting"
  <2>1. item'[i] = item[i]
    BY <1>3 DEF Tick
  <2>2. ~Due(i) /\ ~Due(i)'
    BY <1>3, <2>1 DEF Due
  <2> QED BY <1>2, <2>1, <2>2 DEF RowSound, LateSound
<1>4. CASE item[i].st = "waiting"
  <2>1. item'[i].st = "waiting" /\ item'[i].due = Soon(item[i].due - 1)
        /\ item'[i].busy = (IF Attended(i) THEN item[i].busy + 1 ELSE item[i].busy)
        /\ item'[i].woken = item[i].woken
    <3>1. item'[i] = [item[i] EXCEPT !.due = Soon(@ - 1),
                                     !.busy = IF Attended(i) THEN @ + 1 ELSE @]
      BY <1>4 DEF Tick
    <3>2. item[i] \in ItemRow
      BY DEF TypeOK, ItemRow
    <3> QED BY <1>4, <3>1, <3>2 DEF ItemRow
  <2>2. item[i].due \in Int /\ item[i].busy \in Nat /\ Late \in Nat /\ Recovery \in Nat
        /\ recovery \in 0 .. Recovery /\ Reach \in Nat /\ Reach >= Recovery /\ Reach' = Reach
    BY <1>1, ReachBounds, SchedulerAssumption DEF TypeOK
  <2>3. Due(i) => Due(i)'
    BY <1>4, <2>1, <2>2 DEF Due, Soon
  <2>4. LateSound(i)'
    <3> SUFFICES ASSUME spent'.disposals = 0, Due(i)'
                 PROVE  /\ item'[i].due + Reach' + item'[i].busy >= 0
                        /\ ~Attending' => item'[i].due + Reach' + item'[i].busy >= recovery'
      BY LateMeansNext
    <3>1. ~disposed /\ recovery > 0 /\ recovery' = recovery - 1
      BY <1>1 DEF LoopSound, Tick
    <3>2. CASE Due(i)
      <4>1. item[i].due + Reach + item[i].busy >= 0
            /\ (~Attending => item[i].due + Reach + item[i].busy >= recovery)
        BY <1>1, <3>2, LateMeans DEF RowSound
      <4>2. CASE drain.pc = "running"
        <5>1. item'[i].due + item'[i].busy >= item[i].due + item[i].busy
              /\ item'[i].due \in Int /\ item'[i].busy \in Nat
          BY <2>1, <2>2, <3>2, <4>2 DEF Soon, Attended, Due
        <5> QED BY <1>2, <2>2, <3>1, <4>1, <5>1
      <4>3. CASE drain.pc = "idle"
        <5>1. ~Attending
          BY <3>1, <4>3 DEF Attending, LoopSound, Draining
        <5>2. item'[i].due >= item[i].due - 1 /\ item'[i].due \in Int /\ item'[i].busy = item[i].busy
          BY <2>1, <2>2, <4>3, SoonType DEF Attended
        <5> QED BY <2>2, <3>1, <4>1, <5>1, <5>2
      <4> QED BY <1>1, <4>2, <4>3
    <3>3. CASE ~Due(i)
      <4>1. item[i].due - 1 >= 0 /\ item[i].due - 1 \in Int
        BY <1>4, <2>2, <3>3 DEF Due
      <4>2. item'[i].due >= 0 /\ item'[i].due \in Int /\ item'[i].busy \in Nat
        BY <2>1, <2>2, <4>1, SoonType
      <4> QED BY <2>2, <3>1, <4>2
    <3> QED BY <3>2, <3>3
  <2>5. Due(i)' /\ item'[i].woken => Due(i)
    BY <1>4, <2>1 DEF RowSound
  <2>6. item'[i].woken => Due(i)'
    BY <1>4, <2>1, <2>3 DEF RowSound
  <2> QED BY <1>1, <1>2, <2>1, <2>4, <2>5, <2>6 DEF RowSound
<1> QED BY <1>3, <1>4

LEMMA StepKeeps ==
  ASSUME TypeOK, TypeOK', LoopSound, NEW i \in Items, RowSound(i), [Next]_vars
  PROVE  RowSound(i)'
<1>1. ASSUME NEW h \in hints, DeliverHint(h) PROVE RowSound(i)'
  <2>1. CASE h[2] <= 0
    BY <1>1, <2>1, WakeKeeps DEF DeliverHint
  <2>2. CASE ~(h[2] <= 0)
    <3>1. item' = item /\ spent' = spent /\ disposed' = disposed /\ recovery' = recovery
          /\ wakePending' = wakePending /\ drain' = drain
      BY <1>1, <2>2 DEF DeliverHint
    <3>2. Attending' = Attending
      BY <3>1 DEF Attending, Draining
    <3> QED BY <3>1, <3>2, RowAlone
  <2> QED BY <2>1, <2>2
<1>2. CASE TimerFires \/ RecoveryFires
  BY <1>2, WakeKeeps DEF TimerFires, RecoveryFires
<1>3. CASE UNCHANGED vars
  <2>1. item' = item /\ spent' = spent /\ disposed' = disposed /\ recovery' = recovery
        /\ wakePending' = wakePending /\ drain' = drain
    BY <1>3 DEF vars, schedVars
  <2>2. Attending' = Attending
    BY <2>1 DEF Attending, Draining
  <2> QED BY <2>1, <2>2, RowAlone
<1> QED BY <1>1, <1>2, <1>3, QuietKeeps, RunStartsKeeps, RunEndsKeeps, RunThrowsKeeps,
           DisposeKeeps, RestartKeeps, CommitKeeps, TickKeeps DEF Next, Scheduler, Run

LEMMA InvariantKept == WakeInvariant /\ [Next]_vars => WakeInvariant'
<1> SUFFICES ASSUME WakeInvariant, [Next]_vars PROVE WakeInvariant'
  OBVIOUS
<1>1. TypeOK /\ WakeSound /\ LoopSound /\ \A i \in Items : RowSound(i)
  BY InvariantSplit DEF WakeInvariant
<1>2. TypeOK'
  BY <1>1, TypeKept
<1>3. LoopSound' /\ \A i \in Items : RowSound(i)'
  BY <1>1, <1>2, StepKeeps, LoopKept
<1> QED BY <1>2, <1>3
        DEF WakeInvariant, WakeSound, DrainCoversBacklog, LoopSound, RowSound

-----------------------------------------------------------------------------
(* The theorems *)

\* Whatever the items, the recovery interval, the lease, the pass budget and the lengths
\* of the runs: a wake that finds work due is seen by a later claim of the drain in
\* progress (drain() in wake-scheduler.ts), and WakeSound holds with it.
THEOREM WakesAreKept == Spec => []WakeInvariant
BY InitInvariant, InvariantKept, PTL DEF Spec

LEMMA InvariantBoundsLateness == WakeInvariant => OverdueBound
<1> SUFFICES ASSUME WakeInvariant, spent.disposals = 0, NEW i \in Items, item[i].st = "waiting"
             PROVE  item[i].due >= -(Recovery * (spent.faults + 1) + item[i].busy)
  BY DEF OverdueBound
<1>1. TypeOK /\ RowSound(i)
  BY InvariantSplit
<1>2. item[i].due \in Int /\ item[i].busy \in Nat /\ Reach \in Nat
  BY <1>1, ReachBounds DEF TypeOK
<1>3. item[i].due >= -(Reach + item[i].busy)
  <2>1. CASE Due(i)
    BY <1>1, <1>2, <2>1, LateMeans DEF RowSound
  <2>2. CASE ~Due(i)
    BY <1>2, <2>2 DEF Due
  <2> QED BY <2>1, <2>2
<1> QED BY <1>3 DEF Reach

\* recoveryTimer bounds how long a lost hint or a throw can delay work: one recovery
\* interval each, on top of the time the drain loop was running something.
THEOREM LatenessBounded == Spec => []OverdueBound
BY WakesAreKept, InvariantBoundsLateness, PTL

\* dispose() is final: the only step into run() asks for ~disposed.
THEOREM DisposeIsFinal == Spec => NoRunAfterDispose
<1>1. [Next]_vars => [disposed /\ disposed' => (drain.pc # "running" => drain'.pc # "running")]_vars
  <2> SUFFICES ASSUME Next, disposed, disposed', drain.pc # "running"
               PROVE  drain'.pc # "running"
    OBVIOUS
  <2>1. CASE \E h \in hints : DeliverHint(h)
    BY <2>1 DEF DeliverHint, WakeNow
  <2>2. CASE LoopEnds
    <3>1. drain' = [drain EXCEPT !.pc = "finally"]
      BY <2>2 DEF LoopEnds
    <3> QED BY <3>1
  <2>3. CASE Finally
    BY <2>3, IdleTypes DEF Finally
  <2>4. CASE DrainStarts
    BY <2>4 DEF DrainStarts
  <2> QED BY <2>1, <2>2, <2>3, <2>4
          DEF Next, Scheduler, Run, Commit, TimerFires, RecoveryFires, RunStarts,
              RunFindsNothing, RunSettles, RunDefers, RunThrows, Dispose, Restart, Tick, schedVars
<1> QED BY <1>1, PTL DEF Spec, NoRunAfterDispose
=============================================================================

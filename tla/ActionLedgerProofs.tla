------------------------- MODULE ActionLedgerProofs -------------------------
(***************************************************************************)
(* Proofs about ActionLedger for every set of actions, hosts, workspaces   *)
(* and runs and every value of the lease, retry and attempt parameters.    *)
(***************************************************************************)
EXTENDS ActionLedger, FiniteSetTheorems, TLAPS

-----------------------------------------------------------------------------
(* Operators *)

LEMMA WorkerType ==
  ASSUME NEW r \in Runs
  PROVE  Worker(r) \in WorkerIds /\ Worker(r) # None
BY LedgerAssumption DEF Worker, WorkerIds

LEMMA MultiplierType ==
  ASSUME NEW n \in Nat
  PROVE  Multiplier(n) \in Nat
BY DEF Multiplier

LEMMA ClampType ==
  ASSUME NEW t \in Int
  PROVE  Clamp(t) \in Int
<1>1. Past \in Int
  BY LedgerAssumption
<1> QED BY <1>1 DEF Clamp

LEMMA RetryInType ==
  ASSUME TypeOK, NEW r \in Runs
  PROVE  RetryIn(r) \in Int
<1>1. run[r].attempt \in Nat /\ run[r].age \in Nat
  BY DEF TypeOK, RunState
<1>2. Multiplier(run[r].attempt) \in Nat
  BY <1>1, MultiplierType
<1>3. RetryDelay * Multiplier(run[r].attempt) \in Int
  BY <1>2, LedgerAssumption
<1> DEFINE t == RetryDelay * Multiplier(run[r].attempt) - run[r].age
<1>4. t \in Int
  BY <1>1, <1>3
<1>5. Clamp(t) \in Int
  BY <1>4, ClampType
<1> QED BY <1>5 DEF RetryIn

LEMMA EnqueuedCount ==
  Cardinality({b \in Actions : execution[b].status # "absent"}) \in Nat
<1> DEFINE S == {b \in Actions : execution[b].status # "absent"}
<1>1. IsFiniteSet(S)
  BY FS_Subset, LedgerAssumption
<1> QED BY <1>1, FS_CardinalityType

LEMMA OverrunCount == Cardinality(Overruns) \in Nat
<1>1. IsFiniteSet(Overruns)
  BY FS_Subset, LedgerAssumption DEF Overruns
<1> QED BY <1>1, FS_CardinalityType

\* What the statements of the ledger write into a row keeps its columns in range
LEMMA RowUpdate ==
  ASSUME NEW e \in ExecutionRow, NEW status \in ExecutionStatus,
         NEW owner \in WorkerIds \cup {None}, NEW lease \in Int, NEW avail \in Int
  PROVE  /\ [e EXCEPT !.status = status, !.owner = owner, !.lease = lease] \in ExecutionRow
         /\ [e EXCEPT !.status = status, !.owner = owner, !.lease = lease, !.avail = avail]
              \in ExecutionRow
BY DEF ExecutionRow

-----------------------------------------------------------------------------
(* Type correctness *)

LEMMA IdleRunType == IdleRun \in RunState
BY DEF IdleRun, RunState, RunPc, Intent, Settled

\* A run that resolves or rejects leaves well-typed runs behind
LEMMA EndRunType ==
  ASSUME TypeOK, NEW r \in Runs, Resolve(r) \/ Reject(r)
  PROVE  run' \in [Runs -> RunState] /\ running' \in [Hosts -> BOOLEAN]
<1>1. \A q \in Runs : [run[q] EXCEPT !.inPass = FALSE] \in RunState
  BY DEF TypeOK, RunState
<1>2. CASE Resolve(r)
  BY <1>2, IdleRunType, LedgerAssumption DEF TypeOK, Resolve
<1>3. CASE Reject(r)
  BY <1>1, <1>3, IdleRunType, LedgerAssumption DEF TypeOK, Reject
<1> QED BY <1>2, <1>3

\* What a transition appends to the journal is a row
LEMMA TransitionType ==
  ASSUME TypeOK, NEW a \in Actions, NEW from \in RecordState, NEW to \in RecordState,
         NEW kind \in KeyKind, NEW n \in Nat, Transition(a, from, to, <<kind, n>>)
  PROVE  record' \in [Actions -> RecordState] /\ journal' \in [Actions -> SUBSET Row]
<1>1. [key |-> <<kind, n>>, from |-> from, to |-> to] \in Row
  BY DEF Row, Key
<1> QED BY <1>1 DEF TypeOK, Transition

LEMMA SettleType ==
  ASSUME TypeOK, NEW r \in Runs, NEW a \in Actions, NEW status \in Settled, Settle(r, a, status)
  PROVE  /\ execution' \in [Actions -> ExecutionRow]
         /\ record' \in [Actions -> RecordState] /\ journal' \in [Actions -> SUBSET Row]
<1>1. ActionStateOf(status) \in RecordState /\ status \in ExecutionStatus
  BY DEF ActionStateOf, Settled, RecordState, ExecutionStatus
<1>2. execution[a].attempt \in Nat /\ "executing" \in RecordState /\ "settle" \in KeyKind
  BY DEF TypeOK, ExecutionRow, RecordState, KeyKind
<1>3. record' \in [Actions -> RecordState] /\ journal' \in [Actions -> SUBSET Row]
  BY <1>1, <1>2, TransitionType DEF Settle
<1>4. [execution[a] EXCEPT !.status = status, !.owner = None, !.lease = 0] \in ExecutionRow
  <2>1. execution[a] \in ExecutionRow /\ 0 \in Int /\ None \in WorkerIds \cup {None}
    BY DEF TypeOK
  <2> QED BY <1>1, <2>1, RowUpdate
<1>5. execution' = [execution EXCEPT ![a] =
                     [execution[a] EXCEPT !.status = status, !.owner = None, !.lease = 0]]
  BY DEF Settle, TypeOK, ExecutionRow
<1> QED BY <1>3, <1>4, <1>5 DEF TypeOK

LEMMA ReleaseType ==
  ASSUME TypeOK, NEW r \in Runs, NEW a \in Actions, NEW disposition \in {"retry", "failed"},
         Release(r, a, disposition)
  PROVE  /\ execution' \in [Actions -> ExecutionRow]
         /\ record' \in [Actions -> RecordState] /\ journal' \in [Actions -> SUBSET Row]
<1> DEFINE status == IF disposition = "retry" THEN "pending" ELSE "failed"
           avail == IF disposition = "retry" THEN RetryIn(r) ELSE 0
           kind == IF disposition = "retry" THEN "retry" ELSE "fail"
<1>1. ActionStateOf(disposition) \in RecordState
  BY DEF ActionStateOf, RecordState
<1>2. execution[a].attempt \in Nat /\ "executing" \in RecordState
  BY DEF TypeOK, ExecutionRow, RecordState
<1>3. kind \in KeyKind /\ status \in ExecutionStatus
  BY DEF KeyKind, ExecutionStatus, Settled
<1>4. record' \in [Actions -> RecordState] /\ journal' \in [Actions -> SUBSET Row]
  <2>1. Transition(a, "executing", ActionStateOf(disposition), <<kind, execution[a].attempt>>)
    BY DEF Release
  <2> HIDE DEF kind
  <2> QED BY <1>1, <1>2, <1>3, <2>1, TransitionType
<1>5. avail \in Int
  BY RetryInType
<1>6. execution' = [execution EXCEPT ![a] =
        [execution[a] EXCEPT !.status = status, !.owner = None, !.lease = 0, !.avail = avail]]
  BY DEF Release, TypeOK, ExecutionRow
<1> HIDE DEF status, avail, kind
<1>7. [execution[a] EXCEPT !.status = status, !.owner = None, !.lease = 0, !.avail = avail]
        \in ExecutionRow
  <2>1. execution[a] \in ExecutionRow /\ 0 \in Int /\ None \in WorkerIds \cup {None}
    BY DEF TypeOK
  <2> QED BY <1>3, <1>5, <2>1, RowUpdate
<1> QED BY <1>4, <1>6, <1>7 DEF TypeOK

LEMMA RunUpdate ==
  ASSUME NEW q \in RunState, NEW pc \in RunPc, NEW intent \in Intent, NEW hop \in Nat
  PROVE  /\ [q EXCEPT !.pc = pc, !.hop = hop] \in RunState
         /\ [q EXCEPT !.pc = pc, !.hop = hop, !.intent = intent] \in RunState
BY DEF RunState

LEMMA ToCatchType ==
  ASSUME TypeOK, NEW r \in Runs, NEW infra \in BOOLEAN, ToCatch(r, infra)
  PROVE  run' \in [Runs -> RunState]
<1>1. Disposition(r, infra) \in Intent /\ "catch" \in RunPc /\ 0 \in Nat /\ run[r] \in RunState
  BY DEF Disposition, Intent, Settled, RunPc, TypeOK
<1>2. run' = [run EXCEPT ![r] =
               [run[r] EXCEPT !.pc = "catch", !.hop = 0, !.intent = Disposition(r, infra)]]
  BY DEF ToCatch
<1>3. [run[r] EXCEPT !.pc = "catch", !.hop = 0, !.intent = Disposition(r, infra)] \in RunState
  BY <1>1, RunUpdate
<1> QED BY <1>2, <1>3 DEF TypeOK

LEMMA ResultType ==
  ASSUME TypeOK, NEW r \in Runs, NEW intent \in Intent, Result(r, intent)
  PROVE  run' \in [Runs -> RunState]
<1>1. "finish" \in RunPc /\ 0 \in Nat /\ run[r] \in RunState
  BY DEF RunPc, TypeOK
<1>2. run' = [run EXCEPT ![r] = [run[r] EXCEPT !.pc = "finish", !.hop = 0, !.intent = intent]]
  BY DEF Result
<1>3. [run[r] EXCEPT !.pc = "finish", !.hop = 0, !.intent = intent] \in RunState
  BY <1>1, RunUpdate
<1> QED BY <1>2, <1>3 DEF TypeOK

LEMMA EnqueueType ==
  ASSUME TypeOK, NEW a \in Actions, NEW gated \in BOOLEAN, Enqueue(a, gated)
  PROVE  TypeOK'
<1> DEFINE n == Cardinality({b \in Actions : execution[b].status # "absent"})
           row == [execution[a] EXCEPT !.status = "pending", !.created = n]
           state == IF gated THEN "awaiting-approval" ELSE "planned"
<1>1. n \in Nat
  BY EnqueuedCount
<1>2. execution' = [execution EXCEPT ![a] = row]
  BY DEF Enqueue
<1>3. execution' \in [Actions -> ExecutionRow]
  <2> HIDE DEF n
  <2>1. row \in ExecutionRow
    BY <1>1 DEF TypeOK, ExecutionRow, ExecutionStatus
  <2> HIDE DEF row
  <2> QED BY <1>2, <2>1 DEF TypeOK
<1>4. approval' \in [Actions -> ApprovalStatus]
  BY DEF Enqueue, TypeOK, ApprovalStatus
<1>5. record' \in [Actions -> RecordState] /\ journal' \in [Actions -> SUBSET Row]
  <2>1. Transition(a, "absent", state, <<"enqueue", 0>>)
    BY DEF Enqueue
  <2>2. "absent" \in RecordState /\ state \in RecordState /\ "enqueue" \in KeyKind /\ 0 \in Nat
    BY DEF RecordState, KeyKind
  <2> QED BY <2>1, <2>2, TransitionType
<1> QED BY <1>3, <1>4, <1>5 DEF Enqueue, TypeOK

LEMMA DecideType ==
  ASSUME TypeOK, NEW a \in Actions, NEW decision \in {"approved", "rejected"}, Decide(a, decision)
  PROVE  TypeOK'
<1> DEFINE state == IF decision = "approved" THEN "planned" ELSE "failed"
<1>1. execution' \in [Actions -> ExecutionRow]
  <2>1. [execution[a] EXCEPT !.status = "failed"] \in ExecutionRow
    BY DEF TypeOK, ExecutionRow, ExecutionStatus, Settled
  <2> QED BY <2>1 DEF Decide, TypeOK
<1>2. approval' \in [Actions -> ApprovalStatus]
  BY DEF Decide, TypeOK, ApprovalStatus
<1>3. record' \in [Actions -> RecordState] /\ journal' \in [Actions -> SUBSET Row]
  <2>1. Transition(a, "awaiting-approval", state, <<"approval", 0>>)
    BY DEF Decide
  <2>2. "awaiting-approval" \in RecordState /\ state \in RecordState /\ "approval" \in KeyKind
        /\ 0 \in Nat
    BY DEF RecordState, KeyKind
  <2> QED BY <2>1, <2>2, TransitionType
<1> QED BY <1>1, <1>2, <1>3 DEF Decide, TypeOK

LEMMA ClaimType ==
  ASSUME TypeOK, NEW r \in Runs, NEW a \in Actions, ClaimAction(r, a)
  PROVE  TypeOK'
<1> DEFINE n == execution[a].attempt + 1
           row == [execution[a] EXCEPT !.status = "executing", !.owner = Worker(r),
                                       !.lease = LeaseLen, !.attempt = n]
           me == [run[r] EXCEPT !.pc = "acquire", !.action = a, !.attempt = n,
                                !.granted = (approval[a] = "approved")]
<1>1. n \in Nat /\ LeaseLen \in Int
  BY LedgerAssumption DEF TypeOK, ExecutionRow
<1>2. execution' = [execution EXCEPT ![a] = row]
  BY DEF ClaimAction
<1>3. row \in ExecutionRow
  BY <1>1, WorkerType DEF TypeOK, ExecutionRow, ExecutionStatus
<1>4. run' = [run EXCEPT ![r] = me]
  BY DEF ClaimAction
<1>5. me \in RunState
  <2>1. run[r] \in RunState /\ "acquire" \in RunPc /\ (approval[a] = "approved") \in BOOLEAN
    BY DEF TypeOK, RunPc
  <2> HIDE DEF n
  <2> QED BY <1>1, <2>1 DEF RunState
<1>6. record' \in [Actions -> RecordState] /\ journal' \in [Actions -> SUBSET Row]
  <2>1. Transition(a, record[a], "executing", <<"claim", n>>)
    BY DEF ClaimAction
  <2>2. record[a] \in RecordState /\ "executing" \in RecordState /\ "claim" \in KeyKind
    BY DEF RecordState, KeyKind, TypeOK
  <2> HIDE DEF n
  <2> QED BY <1>1, <2>1, <2>2, TransitionType
<1> HIDE DEF row, me
<1>7. execution' \in [Actions -> ExecutionRow] /\ run' \in [Runs -> RunState]
  BY <1>2, <1>3, <1>4, <1>5 DEF TypeOK
<1> QED BY <1>6, <1>7 DEF ClaimAction, TypeOK

LEMMA EnterRouterType ==
  ASSUME TypeOK, NEW r \in Runs, EnterRouter(r)
  PROVE  TypeOK'
<1>1. CASE \E infra \in BOOLEAN : ToCatch(r, infra)
  BY <1>1, ToCatchType DEF EnterRouter, TypeOK, ledger
<1>2. CASE run' = [run EXCEPT ![r].pc = "execute", ![r].hop = 1]
  <2>1. run[r] \in RunState /\ "execute" \in RunPc /\ 1 \in Nat /\ "none" \in Intent
    BY DEF TypeOK, RunPc, Intent
  <2>2. [run[r] EXCEPT !.pc = "execute", !.hop = 1] \in RunState
    BY <2>1, RunUpdate
  <2>3. run' = [run EXCEPT ![r] = [run[r] EXCEPT !.pc = "execute", !.hop = 1]]
    BY <1>2
  <2> QED BY <2>2, <2>3 DEF EnterRouter, TypeOK, ledger
<1> QED BY <1>1, <1>2 DEF EnterRouter

LEMMA ProviderEndsType ==
  ASSUME TypeOK, NEW r \in Runs, ProviderEnds(r)
  PROVE  TypeOK'
<1>1. CASE \E intent \in Intent : Result(r, intent)
  BY <1>1, ResultType DEF ProviderEnds, TypeOK, ledger
<1>2. CASE run' = [run EXCEPT ![r].hop = @ + 1]
  <2>1. [run[r] EXCEPT !.hop = @ + 1] \in RunState
    BY DEF TypeOK, RunState
  <2>2. run' = [run EXCEPT ![r] = [run[r] EXCEPT !.hop = @ + 1]]
    BY <1>2
  <2> QED BY <2>1, <2>2 DEF ProviderEnds, TypeOK, ledger
<1>3. Disposition(r, TRUE) \in Intent /\ Settled \subseteq Intent
  BY DEF Disposition, Intent, Settled
<1> QED BY <1>1, <1>2, <1>3 DEF ProviderEnds

\* A run's last transaction, and what becomes of the pass
LEMMA LastStepType ==
  ASSUME TypeOK, NEW r \in Runs, EndRun(r), UNCHANGED approval,
         execution' \in [Actions -> ExecutionRow],
         record' \in [Actions -> RecordState], journal' \in [Actions -> SUBSET Row]
  PROVE  TypeOK'
<1>1. run' \in [Runs -> RunState] /\ running' \in [Hosts -> BOOLEAN]
  BY EndRunType DEF EndRun
<1>2. spent' \in [overruns : Nat, crashes : Nat, faults : Nat]
  BY DEF EndRun, Fault, TypeOK
<1> QED BY <1>1, <1>2 DEF TypeOK

\* What a run holds while it is past its claim
LEMMA Faultless ==
  ASSUME TypeOK, Fault \/ UNCHANGED spent
  PROVE  spent' \in [overruns : Nat, crashes : Nat, faults : Nat]
BY DEF Fault, TypeOK

-----------------------------------------------------------------------------
(* The inductive invariant: frames *)

LEMMA InitInvariant == Init => LedgerInvariant
<1> SUFFICES ASSUME Init PROVE LedgerInvariant
  OBVIOUS
<1>1. AbsentExecution \in ExecutionRow
  BY DEF AbsentExecution, ExecutionRow, ExecutionStatus
<1>2. TypeOK
  BY <1>1, IdleRunType DEF Init, TypeOK, RecordState, ApprovalStatus
<1>3. LedgerConsistent
  BY DEF Init, LedgerConsistent, Consistent, AbsentExecution, Settled
<1>4. \A r \in Runs : RunSound(r)
  BY LedgerAssumption DEF Init, RunSound, IdleRun
<1>5. \A a \in Actions : JournalSound(a)
  BY DEF Init, JournalSound, AbsentExecution
<1> QED BY <1>2, <1>3, <1>4, <1>5 DEF LedgerInvariant

LEMMA LedgerKept ==
  ASSUME LedgerInvariant, UNCHANGED ledger
  PROVE  LedgerConsistent' /\ \A a \in Actions : JournalSound(a)'
BY DEF LedgerInvariant, ledger, LedgerConsistent, Consistent, JournalSound

\* An action that the transaction of another one does not touch
LEMMA Elsewhere ==
  ASSUME LedgerInvariant, NEW a \in Actions, NEW b \in Actions, a # b,
         NEW from, NEW to, NEW key, Transition(a, from, to, key),
         execution'[b] = execution[b], approval'[b] = approval[b]
  PROVE  Consistent(b)' /\ JournalSound(b)'
<1>1. record'[b] = record[b] /\ journal'[b] = journal[b]
  BY DEF LedgerInvariant, TypeOK, Transition
<1>2. Consistent(b) /\ JournalSound(b)
  BY DEF LedgerInvariant, LedgerConsistent
<1> QED BY <1>1, <1>2 DEF Consistent, JournalSound

\* What a run may rely on survives whatever happens to the rows of its action
GatesKept ==
  \A a \in Actions :
    approval[a] \in {"none", "approved"} /\ execution[a].status # "absent" =>
      approval'[a] = approval[a] /\ execution'[a].status # "absent"

LEMMA RunKept ==
  ASSUME TypeOK, GatesKept, NEW q \in Runs, RunSound(q),
         run'[q].pc = run[q].pc, run'[q].action = run[q].action,
         run'[q].granted = run[q].granted, run'[q].intent = run[q].intent
  PROVE  RunSound(q)'
<1>1. run[q].action \in Actions \cup {None}
  BY DEF TypeOK, RunState
<1> QED BY <1>1 DEF RunSound, GatesKept, Authorized

\* A run that leaves one step of its life for the next, with its action in hand
LEMMA RunGoesOn ==
  ASSUME TypeOK, GatesKept, NEW q \in Runs, RunSound(q),
         run[q].pc \in {"acquire", "execute", "finish", "catch"},
         run'[q].action = run[q].action, run'[q].granted = run[q].granted,
         \/ run'[q].pc = "execute" /\ Authorized(q)
         \/ run'[q].pc = "finish" /\ run'[q].intent \in Settled \cup {"retry"}
         \/ run'[q].pc = "catch" /\ run'[q].intent \in {"retry", "failed"}
  PROVE  RunSound(q)'
<1>1. run[q].action \in Actions \cup {None}
  BY DEF TypeOK, RunState
<1> QED BY <1>1 DEF RunSound, GatesKept, Authorized

LEMMA RunReleased ==
  ASSUME NEW q \in Runs, run'[q].pc \in {"idle", "claim"}, run'[q].action = None
  PROVE  RunSound(q)'
BY DEF RunSound

\* A run ends; the other runs at most lose their pass
LEMMA EndRunSound ==
  ASSUME LedgerInvariant, GatesKept, NEW r \in Runs, Resolve(r) \/ Reject(r)
  PROVE  \A q \in Runs : RunSound(q)'
<1> TAKE q \in Runs
<1>1. run \in [Runs -> RunState] /\ RunSound(q) /\ TypeOK
  BY DEF LedgerInvariant, TypeOK
<1>2. CASE q = r
  <2>1. run'[q] = IdleRun
    BY <1>1, <1>2 DEF Resolve, Reject
  <2> QED BY <2>1, RunReleased DEF IdleRun
<1>3. CASE q # r
  <2>1. run'[q] = run[q] \/ run'[q] = [run[q] EXCEPT !.inPass = FALSE]
    BY <1>1, <1>3 DEF Resolve, Reject
  <2>2. /\ run'[q].pc = run[q].pc /\ run'[q].action = run[q].action
        /\ run'[q].granted = run[q].granted /\ run'[q].intent = run[q].intent
    BY <1>1, <2>1 DEF RunState
  <2> QED BY <1>1, <2>2, RunKept
<1> QED BY <1>2, <1>3

-----------------------------------------------------------------------------
(* The inductive invariant: ledger operations *)

LEMMA EnqueueKeeps ==
  ASSUME LedgerInvariant, NEW a \in Actions, NEW gated \in BOOLEAN, Enqueue(a, gated)
  PROVE  LedgerInvariant'
<1> DEFINE state == IF gated THEN "awaiting-approval" ELSE "planned"
<1>1. TypeOK /\ Consistent(a) /\ JournalSound(a) /\ \A r \in Runs : RunSound(r)
  BY DEF LedgerInvariant, LedgerConsistent
<1>2. TypeOK'
  BY <1>1, EnqueueType
<1>3. /\ execution[a].status = "absent" /\ execution[a].owner = None /\ execution[a].attempt = 0
      /\ journal[a] = {}
      /\ execution'[a].status = "pending" /\ execution'[a].owner = None /\ execution'[a].attempt = 0
  BY <1>1 DEF Enqueue, TypeOK, ExecutionRow, Consistent, JournalSound
<1>4. /\ approval'[a] = IF gated THEN "pending" ELSE "none"
      /\ record'[a] = state
      /\ journal'[a] = {[key |-> <<"enqueue", 0>>, from |-> "absent", to |-> state]}
  BY <1>1, <1>3 DEF Enqueue, TypeOK, Transition
<1>5. \A b \in Actions \ {a} : execution'[b] = execution[b] /\ approval'[b] = approval[b]
  BY <1>1 DEF Enqueue, TypeOK
<1>6. \A b \in Actions \ {a} : Consistent(b)' /\ JournalSound(b)'
  BY <1>5, Elsewhere DEF Enqueue
<1>7. Consistent(a)'
  BY <1>3, <1>4 DEF Consistent, Settled
<1>8. JournalSound(a)'
  BY <1>3, <1>4 DEF JournalSound
<1>9. \A q \in Runs : RunSound(q)'
  <2>1. GatesKept
    BY <1>3, <1>5 DEF GatesKept
  <2> QED BY <1>1, <2>1, RunKept DEF Enqueue
<1> QED BY <1>2, <1>6, <1>7, <1>8, <1>9 DEF LedgerInvariant, LedgerConsistent

LEMMA DecideKeeps ==
  ASSUME LedgerInvariant, NEW a \in Actions, NEW decision \in {"approved", "rejected"},
         Decide(a, decision)
  PROVE  LedgerInvariant'
<1> DEFINE state == IF decision = "approved" THEN "planned" ELSE "failed"
           row == [key |-> <<"approval", 0>>, from |-> "awaiting-approval", to |-> state]
<1>1. TypeOK /\ Consistent(a) /\ JournalSound(a) /\ \A r \in Runs : RunSound(r)
  BY DEF LedgerInvariant, LedgerConsistent
<1>2. TypeOK'
  BY <1>1, DecideType
<1>3. /\ approval[a] = "pending" /\ execution[a].status = "pending" /\ execution[a].attempt = 0
      /\ execution[a].owner = None
      /\ execution'[a].status = (IF decision = "rejected" THEN "failed" ELSE "pending")
      /\ execution'[a].owner = None /\ execution'[a].attempt = 0
  BY <1>1 DEF Decide, TypeOK, ExecutionRow, Consistent
<1>4. approval'[a] = decision /\ record'[a] = state /\ journal'[a] = journal[a] \cup {row}
  BY <1>1 DEF Decide, TypeOK, Transition
<1>5. \A b \in Actions \ {a} : execution'[b] = execution[b] /\ approval'[b] = approval[b]
  BY <1>1 DEF Decide, TypeOK
<1>6. \A b \in Actions \ {a} : Consistent(b)' /\ JournalSound(b)'
  BY <1>5, Elsewhere DEF Decide
<1>7. Consistent(a)'
  BY <1>3, <1>4 DEF Consistent, Settled, ActionStateOf
<1>8. JournalSound(a)'
  BY <1>1, <1>3, <1>4 DEF JournalSound
<1>9. \A q \in Runs : RunSound(q)'
  <2>1. GatesKept
    BY <1>3, <1>5 DEF GatesKept
  <2> QED BY <1>1, <2>1, RunKept DEF Decide
<1> QED BY <1>2, <1>6, <1>7, <1>8, <1>9 DEF LedgerInvariant, LedgerConsistent

LEMMA ClaimKeeps ==
  ASSUME LedgerInvariant, NEW r \in Runs, NEW a \in Actions, ClaimAction(r, a)
  PROVE  LedgerInvariant'
<1> DEFINE n == execution[a].attempt + 1
           row == [key |-> <<"claim", n>>, from |-> record[a], to |-> "executing"]
<1>1. TypeOK /\ Consistent(a) /\ JournalSound(a) /\ \A q \in Runs : RunSound(q)
  BY DEF LedgerInvariant, LedgerConsistent
<1>2. TypeOK'
  BY <1>1, ClaimType
<1>3. /\ execution[a].status \in {"pending", "executing"} /\ approval[a] \in {"none", "approved"}
      /\ execution'[a].status = "executing" /\ execution'[a].owner = Worker(r)
      /\ execution'[a].attempt = n
  BY <1>1 DEF ClaimAction, Selected, Claimable, TypeOK, ExecutionRow
<1>4. approval' = approval /\ record'[a] = "executing" /\ journal'[a] = journal[a] \cup {row}
  BY <1>1 DEF ClaimAction, TypeOK, Transition
<1>5. \A b \in Actions \ {a} : execution'[b] = execution[b] /\ approval'[b] = approval[b]
  BY <1>1 DEF ClaimAction, TypeOK
<1>6. \A b \in Actions \ {a} : Consistent(b)' /\ JournalSound(b)'
  BY <1>5, Elsewhere DEF ClaimAction
<1>7. Consistent(a)'
  BY <1>3, <1>4, WorkerType DEF Consistent, Settled
<1>8. JournalSound(a)'
  <2>1. execution[a].attempt \in Nat /\ \A old \in journal[a] : old.key[2] \in Nat
    BY <1>1 DEF TypeOK, ExecutionRow, Row, Key
  <2>2. \A old \in journal[a] : old.key[2] < n
    BY <1>1, <2>1 DEF JournalSound
  <2>3. row.key[1] = "claim" /\ row.key[2] = n
    OBVIOUS
  <2>4. \A new \in journal'[a] :
          /\ new.key[2] <= n
          /\ new.key[1] = "approval" => approval[a] \in {"approved", "rejected"}
          /\ ~(new.key[1] \in {"settle", "retry", "fail"} /\ new.key[2] = n)
    <3> SUFFICES ASSUME NEW new \in journal'[a]
                 PROVE  /\ new.key[2] <= n
                        /\ new.key[1] = "approval" => approval[a] \in {"approved", "rejected"}
                        /\ ~(new.key[1] \in {"settle", "retry", "fail"} /\ new.key[2] = n)
      OBVIOUS
    <3>1. CASE new = row
      BY <2>1, <2>3, <3>1
    <3>2. CASE new \in journal[a]
      BY <1>1, <2>1, <2>2, <3>2 DEF JournalSound
    <3> QED BY <1>4, <3>1, <3>2
  <2> QED BY <1>3, <1>4, <2>4 DEF JournalSound
<1>9. \A q \in Runs : RunSound(q)'
  <2> TAKE q \in Runs
  <2>1. GatesKept
    BY <1>3, <1>4, <1>5 DEF GatesKept
  <2>2. CASE q = r
    <3>1. /\ run'[q].pc = "acquire" /\ run'[q].action = a
          /\ run'[q].granted = (approval[a] = "approved")
      BY <1>1, <2>2 DEF ClaimAction, TypeOK, RunState
    <3> QED BY <1>3, <1>4, <3>1, LedgerAssumption DEF RunSound
  <2>3. CASE q # r
    <3>1. run'[q] = run[q]
      BY <1>1, <2>3 DEF ClaimAction, TypeOK
    <3> QED BY <1>1, <2>1, <3>1, RunKept
  <2> QED BY <2>2, <2>3
<1> QED BY <1>2, <1>6, <1>7, <1>8, <1>9 DEF LedgerInvariant, LedgerConsistent

\* Whatever takes an action out of `executing': settleAction or releaseActionClaim
LEMMA OutOfExecuting ==
  ASSUME LedgerInvariant, NEW a \in Actions, execution[a].status = "executing",
         NEW verdict \in Settled \cup {"retry"}, NEW kind \in {"settle", "retry", "fail"},
         Transition(a, "executing", ActionStateOf(verdict), <<kind, execution[a].attempt>>),
         execution'[a].status = (IF verdict = "retry" THEN "pending" ELSE verdict),
         execution'[a].owner = None, execution'[a].attempt = execution[a].attempt,
         \A b \in Actions \ {a} : execution'[b] = execution[b],
         UNCHANGED approval
  PROVE  GatesKept /\ LedgerConsistent' /\ \A b \in Actions : JournalSound(b)'
<1> DEFINE n == execution[a].attempt
           row == [key |-> <<kind, n>>, from |-> "executing", to |-> ActionStateOf(verdict)]
<1>1. TypeOK /\ Consistent(a) /\ JournalSound(a)
  BY DEF LedgerInvariant, LedgerConsistent
<1>2. GatesKept
  BY DEF GatesKept, Settled
<1>3. \A b \in Actions \ {a} : Consistent(b)' /\ JournalSound(b)'
  BY Elsewhere
<1>4. record'[a] = ActionStateOf(verdict) /\ journal'[a] = journal[a] \cup {row}
  BY <1>1 DEF Transition, TypeOK
<1>5. Consistent(a)'
  <2>1. approval[a] \notin {"pending", "rejected"}
    BY <1>1 DEF Consistent
  <2> QED BY <1>4, <2>1 DEF Consistent, Settled, ActionStateOf
<1>6. JournalSound(a)'
  <2>1. row.key[1] = kind /\ row.key[2] = n /\ n \in Nat
    BY <1>1 DEF TypeOK, ExecutionRow
  <2>2. \A new \in journal'[a] :
          new.key[2] <= n /\ (new.key[1] = "approval" => approval[a] \in {"approved", "rejected"})
    <3> SUFFICES ASSUME NEW new \in journal'[a]
                 PROVE  /\ new.key[2] <= n
                        /\ new.key[1] = "approval" => approval[a] \in {"approved", "rejected"}
      OBVIOUS
    <3>1. CASE new = row
      BY <2>1, <3>1
    <3>2. CASE new \in journal[a]
      BY <1>1, <3>2 DEF JournalSound
    <3> QED BY <1>4, <3>1, <3>2
  <2>3. execution'[a].status # "absent" /\ execution'[a].status # "executing"
    BY DEF Settled
  <2> QED BY <2>2, <2>3 DEF JournalSound
<1> QED BY <1>2, <1>3, <1>5, <1>6 DEF LedgerConsistent

LEMMA SettleKeeps ==
  ASSUME LedgerInvariant, NEW r \in Runs, NEW a \in Actions, NEW status \in Settled,
         Owns(r, a), Settle(r, a, status), EndRun(r), UNCHANGED approval
  PROVE  LedgerInvariant'
<1>1. TypeOK /\ execution[a].status = "executing" /\ status # "retry"
  BY DEF LedgerInvariant, Owns, Settled
<1>2. TypeOK'
  BY <1>1, SettleType, LastStepType
<1>3. /\ execution'[a].status = status /\ execution'[a].owner = None
      /\ execution'[a].attempt = execution[a].attempt
      /\ \A b \in Actions \ {a} : execution'[b] = execution[b]
  BY <1>1 DEF Settle, TypeOK, ExecutionRow
<1>4. GatesKept /\ LedgerConsistent' /\ \A b \in Actions : JournalSound(b)'
  BY <1>1, <1>3, OutOfExecuting DEF Settle
<1>5. \A q \in Runs : RunSound(q)'
  BY <1>4, EndRunSound DEF EndRun
<1> QED BY <1>2, <1>4, <1>5 DEF LedgerInvariant

LEMMA ReleaseKeeps ==
  ASSUME LedgerInvariant, NEW r \in Runs, NEW a \in Actions, NEW disposition \in {"retry", "failed"},
         Owns(r, a), Release(r, a, disposition), EndRun(r), UNCHANGED approval
  PROVE  LedgerInvariant'
<1> DEFINE kind == IF disposition = "retry" THEN "retry" ELSE "fail"
<1>1. TypeOK /\ execution[a].status = "executing" /\ disposition \in Settled \cup {"retry"}
  BY DEF LedgerInvariant, Owns, Settled
<1>2. TypeOK'
  BY <1>1, ReleaseType, LastStepType
<1>3. /\ execution'[a].status = (IF disposition = "retry" THEN "pending" ELSE disposition)
      /\ execution'[a].owner = None
      /\ execution'[a].attempt = execution[a].attempt
      /\ \A b \in Actions \ {a} : execution'[b] = execution[b]
  BY <1>1 DEF Release, TypeOK, ExecutionRow
<1>4. GatesKept /\ LedgerConsistent' /\ \A b \in Actions : JournalSound(b)'
  <2>1. Transition(a, "executing", ActionStateOf(disposition), <<kind, execution[a].attempt>>)
    BY DEF Release
  <2>2. kind \in {"settle", "retry", "fail"}
    OBVIOUS
  <2> HIDE DEF kind
  <2> QED BY <1>1, <1>3, <2>1, <2>2, OutOfExecuting
<1>5. \A q \in Runs : RunSound(q)'
  BY <1>4, EndRunSound DEF EndRun
<1> QED BY <1>2, <1>4, <1>5 DEF LedgerInvariant

-----------------------------------------------------------------------------
(* The inductive invariant: steps of a run that leave the ledger alone *)

LEMMA ToCatchKeeps ==
  ASSUME LedgerInvariant, NEW r \in Runs, run[r].pc \in {"acquire", "execute", "finish"},
         NEW infra \in BOOLEAN, ToCatch(r, infra), UNCHANGED ledger, UNCHANGED running,
         spent' \in [overruns : Nat, crashes : Nat, faults : Nat]
  PROVE  LedgerInvariant'
<1>1. TypeOK /\ \A q \in Runs : RunSound(q)
  BY DEF LedgerInvariant
<1>2. TypeOK'
  BY <1>1, ToCatchType DEF TypeOK, ledger
<1>3. GatesKept
  BY DEF GatesKept, ledger
<1>4. \A q \in Runs : RunSound(q)'
  <2> TAKE q \in Runs
  <2>1. CASE q = r
    <3>1. /\ run'[q].pc = "catch" /\ run'[q].intent \in {"retry", "failed"}
          /\ run'[q].action = run[q].action /\ run'[q].granted = run[q].granted
      BY <1>1, <2>1 DEF ToCatch, Disposition, TypeOK, RunState
    <3> QED BY <1>1, <1>3, <2>1, <3>1, RunGoesOn
  <2>2. CASE q # r
    <3>1. run'[q] = run[q]
      BY <1>1, <2>2 DEF ToCatch, TypeOK
    <3> QED BY <1>1, <1>3, <3>1, RunKept
  <2> QED BY <2>1, <2>2
<1> QED BY <1>2, <1>4, LedgerKept DEF LedgerInvariant

LEMMA EnterRouterKeeps ==
  ASSUME LedgerInvariant, NEW r \in Runs, EnterRouter(r)
  PROVE  LedgerInvariant'
<1>1. TypeOK /\ \A q \in Runs : RunSound(q)
  BY DEF LedgerInvariant
<1>2. CASE \E infra \in BOOLEAN : ToCatch(r, infra)
  BY <1>1, <1>2, ToCatchKeeps DEF EnterRouter, TypeOK
<1>3. CASE Authorized(r) /\ run' = [run EXCEPT ![r].pc = "execute", ![r].hop = 1]
  <2>1. GatesKept
    BY DEF GatesKept, EnterRouter, ledger
  <2>2. \A q \in Runs : RunSound(q)'
    <3> TAKE q \in Runs
    <3>1. CASE q = r
      <4>1. /\ run'[q].pc = "execute" /\ Authorized(q) /\ run[q].pc = "acquire"
            /\ run'[q].action = run[q].action /\ run'[q].granted = run[q].granted
        BY <1>1, <1>3, <3>1 DEF EnterRouter, TypeOK, RunState
      <4> QED BY <1>1, <2>1, <4>1, RunGoesOn
    <3>2. CASE q # r
      <4>1. run'[q] = run[q]
        BY <1>1, <1>3, <3>2 DEF TypeOK
      <4> QED BY <1>1, <2>1, <4>1, RunKept
    <3> QED BY <3>1, <3>2
  <2>3. UNCHANGED ledger
    BY DEF EnterRouter, ledger
  <2> QED BY <1>1, <2>2, <2>3, EnterRouterType, LedgerKept DEF LedgerInvariant
<1> QED BY <1>2, <1>3 DEF EnterRouter

LEMMA ProviderEndsKeeps ==
  ASSUME LedgerInvariant, NEW r \in Runs, ProviderEnds(r)
  PROVE  LedgerInvariant'
<1>1. TypeOK /\ \A q \in Runs : RunSound(q)
  BY DEF LedgerInvariant
<1>2. GatesKept
  BY DEF GatesKept, ProviderEnds, ledger
<1>3. /\ \A q \in Runs \ {r} : run'[q] = run[q]
      /\ run[r].pc = "execute"
      /\ run'[r].action = run[r].action /\ run'[r].granted = run[r].granted
      /\ \/ run'[r].pc = "execute"
         \/ run'[r].pc = "finish" /\ run'[r].intent \in Settled \cup {"retry"}
  <2>1. Disposition(r, TRUE) \in Settled \cup {"retry"}
    BY DEF Disposition, Settled
  <2>2. run \in [Runs -> RunState] /\ run[r] \in RunState /\ run[r].pc = "execute"
    BY <1>1 DEF ProviderEnds, TypeOK
  <2>3. CASE \E intent \in Settled \cup {"retry"} : Result(r, intent)
    BY <2>2, <2>3 DEF Result, RunState
  <2>4. CASE run' = [run EXCEPT ![r].hop = @ + 1]
    BY <2>2, <2>4 DEF RunState
  <2> QED BY <2>1, <2>2, <2>3, <2>4 DEF ProviderEnds
<1>4. \A q \in Runs : RunSound(q)'
  <2> TAKE q \in Runs
  <2>1. CASE q = r
    <3>1. Authorized(r)
      BY <1>1, <1>3 DEF RunSound
    <3> QED BY <1>1, <1>2, <1>3, <2>1, <3>1, RunGoesOn
  <2>2. CASE q # r
    BY <1>1, <1>2, <1>3, <2>2, RunKept
  <2> QED BY <2>1, <2>2
<1>5. UNCHANGED ledger
  BY DEF ProviderEnds, ledger
<1> QED BY <1>1, <1>4, <1>5, ProviderEndsType, LedgerKept DEF LedgerInvariant

LEMMA StartPassKeeps ==
  ASSUME LedgerInvariant, NEW h \in Hosts, StartPass(h)
  PROVE  LedgerInvariant'
<1>1. TypeOK /\ \A q \in Runs : RunSound(q)
  BY DEF LedgerInvariant
<1> DEFINE started == [IdleRun EXCEPT !.pc = "claim", !.inPass = TRUE]
<1>2. started \in RunState /\ started.pc = "claim" /\ started.action = None
  BY DEF IdleRun, RunState, RunPc, Intent
<1>3. /\ DOMAIN run' = Runs
      /\ \A q \in Runs : run'[q] = run[q] \/ run'[q] = started
      /\ run' = [q \in Runs |-> run'[q]]
  BY DEF StartPass
<1> HIDE DEF started
<1>4. run' \in [Runs -> RunState]
  BY <1>1, <1>2, <1>3 DEF TypeOK
<1>5. TypeOK'
  BY <1>1, <1>4 DEF StartPass, TypeOK, ledger
<1>6. GatesKept /\ UNCHANGED ledger
  BY DEF GatesKept, StartPass, ledger
<1>7. \A q \in Runs : RunSound(q)'
  <2> TAKE q \in Runs
  <2>1. CASE run'[q] = run[q]
    BY <1>1, <1>6, <2>1, RunKept
  <2>2. CASE run'[q] = started
    BY <1>2, <2>2, RunReleased
  <2> QED BY <1>3, <2>1, <2>2
<1> QED BY <1>5, <1>6, <1>7, LedgerKept DEF LedgerInvariant

LEMMA CrashKeeps ==
  ASSUME LedgerInvariant, NEW h \in Hosts, Crash(h)
  PROVE  LedgerInvariant'
<1>1. TypeOK /\ \A q \in Runs : RunSound(q)
  BY DEF LedgerInvariant
<1>2. \A q \in Runs : run'[q] = run[q] \/ run'[q] = IdleRun
  BY DEF Crash
<1>3. TypeOK'
  BY <1>1, IdleRunType DEF Crash, TypeOK, ledger
<1>4. GatesKept /\ UNCHANGED ledger
  BY DEF GatesKept, Crash, ledger
<1>5. \A q \in Runs : RunSound(q)'
  <2> TAKE q \in Runs
  <2>1. CASE run'[q] = run[q]
    BY <1>1, <1>4, <2>1, RunKept
  <2>2. CASE run'[q] = IdleRun
    BY <2>2, RunReleased DEF IdleRun
  <2> QED BY <1>2, <2>1, <2>2
<1> QED BY <1>3, <1>4, <1>5, LedgerKept DEF LedgerInvariant

\* A run that ends without a transaction: nothing to claim, or a throw
LEMMA EmptyEndKeeps ==
  ASSUME LedgerInvariant, NEW r \in Runs, Resolve(r) \/ Reject(r), UNCHANGED ledger,
         Fault \/ UNCHANGED spent
  PROVE  LedgerInvariant'
<1>1. TypeOK
  BY DEF LedgerInvariant
<1>2. TypeOK'
  BY <1>1, EndRunType, Faultless DEF TypeOK, ledger
<1>3. GatesKept
  BY DEF GatesKept, ledger
<1> QED BY <1>2, <1>3, EndRunSound, LedgerKept DEF LedgerInvariant

LEMMA AgedRow ==
  ASSUME NEW e \in ExecutionRow, NEW avail \in Int, NEW lease \in Int
  PROVE  LET new == [e EXCEPT !.avail = avail, !.lease = lease] IN
         /\ new \in ExecutionRow
         /\ new.status = e.status /\ new.owner = e.owner /\ new.attempt = e.attempt
BY DEF ExecutionRow

LEMMA TickKeeps ==
  ASSUME LedgerInvariant, Tick
  PROVE  LedgerInvariant'
<1>1. TypeOK /\ LedgerConsistent /\ (\A q \in Runs : RunSound(q)) /\ \A a \in Actions : JournalSound(a)
  BY DEF LedgerInvariant
<1> DEFINE avail(a) == Clamp(execution[a].avail - 1)
           lease(a) == IF execution[a].lease > 0 THEN execution[a].lease - 1 ELSE 0
           aged(a) == [execution[a] EXCEPT !.avail = avail(a), !.lease = lease(a)]
           older(q) == [run[q] EXCEPT !.age = @ + 1]
<1>2. \A a \in Actions : /\ aged(a) \in ExecutionRow
                         /\ aged(a).status = execution[a].status
                         /\ aged(a).owner = execution[a].owner
                         /\ aged(a).attempt = execution[a].attempt
  <2> TAKE a \in Actions
  <2>1. execution[a] \in ExecutionRow
    BY <1>1 DEF TypeOK
  <2>2. execution[a].avail - 1 \in Int /\ lease(a) \in Int
    BY <2>1 DEF ExecutionRow
  <2>3. avail(a) \in Int
    BY <2>2, ClampType
  <2> HIDE DEF avail, lease
  <2> QED BY <2>1, <2>2, <2>3, AgedRow
<1>3. \A q \in Runs : older(q) \in RunState
  BY <1>1 DEF TypeOK, RunState
<1>4. \A a \in Actions : execution'[a] = execution[a] \/ execution'[a] = aged(a)
  BY DEF Tick
<1>5. \A q \in Runs : run'[q] = run[q] \/ run'[q] = older(q)
  BY DEF Tick
<1>6. execution' \in [Actions -> ExecutionRow] /\ run' \in [Runs -> RunState]
  <2>1. /\ execution' = [a \in Actions |-> execution'[a]]
        /\ run' = [q \in Runs |-> run'[q]]
    BY DEF Tick
  <2> HIDE DEF aged, older
  <2>2. \A a \in Actions : execution'[a] \in ExecutionRow
    BY <1>1, <1>2, <1>4 DEF TypeOK
  <2>3. \A q \in Runs : run'[q] \in RunState
    BY <1>1, <1>3, <1>5 DEF TypeOK
  <2> QED BY <2>1, <2>2, <2>3
<1>7. spent' \in [overruns : Nat, crashes : Nat, faults : Nat]
  <2>1. spent.overruns + Cardinality(Overruns) \in Nat
    BY <1>1, OverrunCount DEF TypeOK
  <2> QED BY <1>1, <2>1 DEF Tick, TypeOK
<1>8. TypeOK'
  BY <1>1, <1>6, <1>7 DEF Tick, TypeOK
<1>9. \A a \in Actions : /\ execution'[a].status = execution[a].status
                         /\ execution'[a].owner = execution[a].owner
                         /\ execution'[a].attempt = execution[a].attempt
  BY <1>2, <1>4
<1>10. UNCHANGED <<record, approval, journal>>
  BY DEF Tick
<1>11. LedgerConsistent' /\ \A a \in Actions : JournalSound(a)'
  BY <1>1, <1>9, <1>10 DEF LedgerConsistent, Consistent, JournalSound
<1>12. \A q \in Runs : RunSound(q)'
  <2> TAKE q \in Runs
  <2>1. GatesKept
    BY <1>9, <1>10 DEF GatesKept
  <2>2. /\ run'[q].pc = run[q].pc /\ run'[q].action = run[q].action
        /\ run'[q].granted = run[q].granted /\ run'[q].intent = run[q].intent
    <3>1. run[q] \in RunState
      BY <1>1 DEF TypeOK
    <3> QED BY <1>5, <3>1 DEF RunState
  <2> QED BY <1>1, <2>1, <2>2, RunKept
<1> QED BY <1>8, <1>11, <1>12 DEF LedgerInvariant

-----------------------------------------------------------------------------
(* The inductive invariant *)

LEMMA RunStepKeeps ==
  ASSUME LedgerInvariant, NEW r \in Runs, RunStep(r)
  PROVE  LedgerInvariant'
<1>1. TypeOK /\ RunSound(r) /\ run[r].action \in Actions \cup {None}
  BY DEF LedgerInvariant, TypeOK, RunState
<1>2. CASE \E a \in Actions : ClaimAction(r, a)
  BY <1>2, ClaimKeeps
<1>3. CASE ClaimNothing(r) \/ ClaimThrows(r) \/ CatchThrows(r)
  BY <1>3, EmptyEndKeeps DEF ClaimNothing, ClaimThrows, CatchThrows
<1>4. CASE AcquireThrows(r) \/ RouterThrows(r)
  BY <1>1, <1>4, ToCatchKeeps DEF AcquireThrows, RouterThrows, TypeOK
<1>5. CASE EnterRouter(r)
  BY <1>5, EnterRouterKeeps
<1>6. CASE ProviderEnds(r)
  BY <1>6, ProviderEndsKeeps
<1>7. CASE Finish(r)
  <2>1. run[r].action \in Actions /\ run[r].intent \in Settled \cup {"retry"}
    BY <1>1, <1>7, LedgerAssumption DEF Finish, RunSound
  <2>2. CASE run[r].intent = "retry"
    BY <1>7, <2>1, <2>2, ReleaseKeeps DEF Finish, Refused
  <2>3. CASE run[r].intent # "retry"
    BY <1>7, <2>1, <2>3, SettleKeeps DEF Finish, Refused
  <2> QED BY <2>2, <2>3
<1>8. CASE FinishThrows(r)
  <2>1. spent' \in [overruns : Nat, crashes : Nat, faults : Nat]
    BY <1>1, <1>8, Faultless DEF FinishThrows
  <2>2. UNCHANGED ledger /\ UNCHANGED running
    BY <1>8 DEF FinishThrows, ledger
  <2> QED BY <1>8, <2>1, <2>2, ToCatchKeeps DEF FinishThrows
<1>9. CASE CatchRelease(r)
  <2>1. run[r].action \in Actions /\ run[r].intent \in {"retry", "failed"}
    BY <1>1, <1>9, LedgerAssumption DEF CatchRelease, RunSound
  <2> QED BY <1>9, <2>1, ReleaseKeeps DEF CatchRelease, Refused
<1> QED BY <1>2, <1>3, <1>4, <1>5, <1>6, <1>7, <1>8, <1>9 DEF RunStep

LEMMA NextKeeps == LedgerInvariant /\ [Next]_vars => LedgerInvariant'
<1> SUFFICES ASSUME LedgerInvariant, [Next]_vars PROVE LedgerInvariant'
  OBVIOUS
<1>1. ASSUME NEW a \in Actions, NEW gated \in BOOLEAN, Enqueue(a, gated) PROVE LedgerInvariant'
  BY <1>1, EnqueueKeeps
<1>2. ASSUME NEW a \in Actions, NEW decision \in {"approved", "rejected"}, Decide(a, decision)
      PROVE  LedgerInvariant'
  BY <1>2, DecideKeeps
<1>3. ASSUME NEW h \in Hosts, StartPass(h) PROVE LedgerInvariant'
  BY <1>3, StartPassKeeps
<1>4. ASSUME NEW h \in Hosts, Crash(h) PROVE LedgerInvariant'
  BY <1>4, CrashKeeps
<1>5. ASSUME NEW r \in Runs, RunStep(r) PROVE LedgerInvariant'
  BY <1>5, RunStepKeeps
<1>6. CASE Tick
  BY <1>6, TickKeeps
<1>7. CASE UNCHANGED vars
  <2>1. TypeOK' /\ UNCHANGED ledger /\ GatesKept
    BY <1>7 DEF vars, ledger, LedgerInvariant, TypeOK, GatesKept
  <2>2. \A q \in Runs : RunSound(q)'
    BY <1>7, <2>1, RunKept DEF vars, LedgerInvariant
  <2> QED BY <2>1, <2>2, LedgerKept DEF LedgerInvariant
<1> QED BY <1>1, <1>2, <1>3, <1>4, <1>5, <1>6, <1>7 DEF Next

\* The strengthened invariant holds in every reachable state, for every set of actions,
\* hosts, workspaces and overlapping runs (every operation of the ledger and every step
\* of a worker's runOnce).
THEOREM InvariantHolds == Spec => []LedgerInvariant
<1>1. Init => LedgerInvariant
  BY InitInvariant
<1>2. LedgerInvariant /\ [Next]_vars => LedgerInvariant'
  BY NextKeeps
<1> QED BY <1>1, <1>2, PTL DEF Spec

-----------------------------------------------------------------------------
(* Consequences of the invariant *)

LEMMA FreshKeys ==
  ASSUME LedgerInvariant
  PROVE  KeysAreFresh
<1> SUFFICES ASSUME NEW a \in Actions
             PROVE  LET n == execution[a].attempt IN
                    /\ execution[a].status \in {"pending", "executing"} => Fresh(a, <<"claim", n + 1>>)
                    /\ execution[a].status = "executing" =>
                         \A kind \in {"settle", "retry", "fail"} : Fresh(a, <<kind, n>>)
                    /\ approval[a] = "pending" => Fresh(a, <<"approval", 0>>)
  BY DEF KeysAreFresh
<1> DEFINE n == execution[a].attempt
<1>1. JournalSound(a) /\ n \in Nat /\ \A row \in journal[a] : row.key[2] \in Nat
  BY DEF LedgerInvariant, TypeOK, ExecutionRow, Row, Key
<1>2. Fresh(a, <<"claim", n + 1>>)
  <2> SUFFICES ASSUME NEW row \in journal[a], row.key = <<"claim", n + 1>> PROVE FALSE
    BY DEF Fresh
  <2>1. row.key[2] = n + 1 /\ row.key[2] <= n
    BY <1>1 DEF JournalSound
  <2> QED BY <1>1, <2>1
<1>3. ASSUME execution[a].status = "executing", NEW kind \in {"settle", "retry", "fail"}
      PROVE  Fresh(a, <<kind, n>>)
  BY <1>1, <1>3 DEF Fresh, JournalSound
<1>4. ASSUME approval[a] = "pending" PROVE Fresh(a, <<"approval", 0>>)
  BY <1>1, <1>4 DEF Fresh, JournalSound
<1> QED BY <1>2, <1>3, <1>4

-----------------------------------------------------------------------------
(* Safety *)

\* Type correctness: rows, runs and journal entries stay in their ranges.
THEOREM TypeCorrect == Spec => []TypeOK
<1>1. LedgerInvariant => TypeOK
  BY DEF LedgerInvariant
<1> QED BY <1>1, InvariantHolds, PTL

\* action_record, action_execution and approval_request always agree.
THEOREM TablesAgree == Spec => []LedgerConsistent
<1>1. LedgerInvariant => LedgerConsistent
  BY DEF LedgerInvariant
<1> QED BY <1>1, InvariantHolds, PTL

\* No action is in a worker's hands while its approval is open or rejected, and no
\* writing action reaches the router without a grant.
THEOREM GateHolds == Spec => []GateRespected
<1>1. LedgerInvariant => GateRespected
  <2> SUFFICES ASSUME LedgerInvariant, NEW r \in Runs, run[r].action # None
               PROVE  /\ approval[run[r].action] \in {"none", "approved"}
                      /\ run[r].pc = "execute" /\ run[r].action \notin ReadOnly
                           => approval[run[r].action] = "approved"
    BY DEF GateRespected
  <2>1. RunSound(r)
    BY DEF LedgerInvariant
  <2> QED BY <2>1 DEF RunSound, Authorized
<1> QED BY <1>1, InvariantHolds, PTL

\* The unique index on idempotency_key refuses no transition a worker or the owner may
\* be about to commit.
THEOREM TransitionKeysFresh == Spec => []KeysAreFresh
<1>1. LedgerInvariant => KeysAreFresh
  BY FreshKeys
<1> QED BY <1>1, InvariantHolds, PTL

-----------------------------------------------------------------------------
(* Action properties *)

\* The ledger changes by one operation on one action at a time, or by the clock
LEMMA LedgerSteps ==
  ASSUME LedgerInvariant, [Next]_vars
  PROVE  \/ UNCHANGED ledger
         \/ Tick
         \/ \E a \in Actions, gated \in BOOLEAN : Enqueue(a, gated)
         \/ \E a \in Actions, decision \in {"approved", "rejected"} : Decide(a, decision)
         \/ \E r \in Runs, a \in Actions : ClaimAction(r, a)
         \/ \E r \in Runs, a \in Actions, status \in Settled :
              Owns(r, a) /\ Settle(r, a, status) /\ UNCHANGED approval
         \/ \E r \in Runs, a \in Actions, disposition \in {"retry", "failed"} :
              Owns(r, a) /\ Release(r, a, disposition) /\ UNCHANGED approval
<1>1. ASSUME NEW r \in Runs, Finish(r) \/ CatchRelease(r)
      PROVE  \/ \E a \in Actions, status \in Settled :
                  Owns(r, a) /\ Settle(r, a, status) /\ UNCHANGED approval
             \/ \E a \in Actions, disposition \in {"retry", "failed"} :
                  Owns(r, a) /\ Release(r, a, disposition) /\ UNCHANGED approval
  <2>1. RunSound(r) /\ run[r].action \in Actions \cup {None}
    BY DEF LedgerInvariant, TypeOK, RunState
  <2>2. run[r].action \in Actions
    BY <1>1, <2>1 DEF RunSound, Finish, CatchRelease
  <2> QED BY <1>1, <2>1, <2>2 DEF Finish, CatchRelease, RunSound, Refused
<1>2. ASSUME NEW r \in Runs, RunStep(r)
      PROVE  \/ UNCHANGED ledger
             \/ \E a \in Actions : ClaimAction(r, a)
             \/ Finish(r) \/ CatchRelease(r)
  BY <1>2 DEF RunStep, ClaimNothing, ClaimThrows, AcquireThrows, EnterRouter, ProviderEnds,
              RouterThrows, FinishThrows, CatchThrows, ledger
<1>3. (\E h \in Hosts : StartPass(h) \/ Crash(h)) \/ UNCHANGED vars => UNCHANGED ledger
  BY DEF StartPass, Crash, vars, ledger
<1> QED BY <1>1, <1>2, <1>3 DEF Next

\* A settled action keeps its status, its state and its journal for good, whatever late
\* runs, retries, reclaims and crashes follow.
THEOREM SettledStays == Spec => SettledForGood
<1> DEFINE Kept == \A a \in Actions :
             execution[a].status \in Settled =>
               execution'[a] = execution[a] /\ record'[a] = record[a] /\ journal'[a] = journal[a]
<1>1. LedgerInvariant /\ [Next]_vars => [Kept]_vars
  <2> SUFFICES ASSUME LedgerInvariant, [Next]_vars, NEW a \in Actions,
                      execution[a].status \in Settled
               PROVE  execution'[a] = execution[a] /\ record'[a] = record[a]
                      /\ journal'[a] = journal[a]
    OBVIOUS
  <2>1. TypeOK /\ Consistent(a) /\ execution[a].status \notin {"absent", "pending", "executing"}
    BY DEF LedgerInvariant, LedgerConsistent, Settled
  <2>2. CASE UNCHANGED ledger
    BY <2>2 DEF ledger
  <2>3. CASE Tick
    BY <2>1, <2>3 DEF Tick
  <2>4. ASSUME NEW b \in Actions, NEW gated \in BOOLEAN, Enqueue(b, gated)
        PROVE  execution'[a] = execution[a] /\ record'[a] = record[a] /\ journal'[a] = journal[a]
    BY <2>1, <2>4 DEF Enqueue, Transition, TypeOK
  <2>5. ASSUME NEW b \in Actions, NEW decision \in {"approved", "rejected"}, Decide(b, decision)
        PROVE  execution'[a] = execution[a] /\ record'[a] = record[a] /\ journal'[a] = journal[a]
    BY <2>1, <2>5 DEF Decide, Transition, TypeOK, Consistent
  <2>6. ASSUME NEW r \in Runs, NEW b \in Actions, ClaimAction(r, b)
        PROVE  execution'[a] = execution[a] /\ record'[a] = record[a] /\ journal'[a] = journal[a]
    BY <2>1, <2>6 DEF ClaimAction, Selected, Claimable, Transition, TypeOK
  <2>7. ASSUME NEW r \in Runs, NEW b \in Actions, NEW status \in Settled,
               Owns(r, b), Settle(r, b, status)
        PROVE  execution'[a] = execution[a] /\ record'[a] = record[a] /\ journal'[a] = journal[a]
    BY <2>1, <2>7 DEF Owns, Settle, Transition, TypeOK
  <2>8. ASSUME NEW r \in Runs, NEW b \in Actions, NEW disposition \in {"retry", "failed"},
               Owns(r, b), Release(r, b, disposition)
        PROVE  execution'[a] = execution[a] /\ record'[a] = record[a] /\ journal'[a] = journal[a]
    BY <2>1, <2>8 DEF Owns, Release, Transition, TypeOK
  <2> QED BY <2>2, <2>3, <2>4, <2>5, <2>6, <2>7, <2>8, LedgerSteps
<1> QED BY <1>1, InvariantHolds, PTL DEF Spec, SettledForGood

\* A transition on a adds one row that was not there
LEMMA OneNewRow ==
  ASSUME LedgerInvariant, NEW a \in Actions, NEW to, NEW key,
         Transition(a, record[a], to, key), Fresh(a, key)
  PROVE  /\ \A b \in Actions \ {a} : record'[b] = record[b] /\ journal'[b] = journal[b]
         /\ journal[a] \subseteq journal'[a]
         /\ \E row \in journal'[a] \ journal[a] :
              /\ journal'[a] \ journal[a] = {row}
              /\ row.from = record[a] /\ row.to = record'[a]
<1> DEFINE row == [key |-> key, from |-> record[a], to |-> to]
<1>1. /\ journal'[a] = journal[a] \cup {row} /\ record'[a] = to
      /\ \A b \in Actions \ {a} : record'[b] = record[b] /\ journal'[b] = journal[b]
  BY DEF Transition, LedgerInvariant, TypeOK
<1>2. row.key = key /\ row.from = record[a] /\ row.to = to
  OBVIOUS
<1>3. row \notin journal[a]
  BY <1>2 DEF Fresh
<1> HIDE DEF row
<1> QED BY <1>1, <1>2, <1>3

\* Every change of an action's state adds exactly one row to its journal, with the true
\* states on both sides, and no row is ever lost.
THEOREM JournalIsAuditTrail == Spec => AuditTrail
<1> DEFINE Audited(a) ==
             record'[a] # record[a] \/ journal'[a] # journal[a]
               \/ execution'[a].status # execution[a].status =>
               /\ journal[a] \subseteq journal'[a]
               /\ \E row \in journal'[a] \ journal[a] :
                    /\ journal'[a] \ journal[a] = {row}
                    /\ row.from = record[a] /\ row.to = record'[a]
<1>1. LedgerInvariant /\ [Next]_vars => [\A a \in Actions : Audited(a)]_vars
  <2> SUFFICES ASSUME LedgerInvariant, [Next]_vars, NEW a \in Actions
               PROVE  Audited(a)
    OBVIOUS
  <2>1. TypeOK /\ KeysAreFresh /\ \A b \in Actions : Consistent(b) /\ JournalSound(b)
    BY FreshKeys DEF LedgerInvariant, LedgerConsistent
  <2>2. ASSUME NEW b \in Actions, NEW to, NEW key, Transition(b, record[b], to, key),
               Fresh(b, key), \A c \in Actions \ {b} : execution'[c] = execution[c]
        PROVE  Audited(a)
    BY <2>2, OneNewRow
  <2>3. CASE UNCHANGED ledger
    BY <2>3 DEF ledger
  <2>4. CASE Tick
    BY <2>1, <2>4 DEF Tick, TypeOK, ExecutionRow
  <2>5. ASSUME NEW b \in Actions, NEW gated \in BOOLEAN, Enqueue(b, gated) PROVE Audited(a)
    <3>1. record[b] = "absent" /\ Fresh(b, <<"enqueue", 0>>)
      BY <2>1, <2>5 DEF Enqueue, Consistent, JournalSound, Fresh
    <3>2. \A c \in Actions \ {b} : execution'[c] = execution[c]
      BY <2>1, <2>5 DEF Enqueue, TypeOK
    <3> QED BY <2>2, <2>5, <3>1, <3>2 DEF Enqueue
  <2>6. ASSUME NEW b \in Actions, NEW decision \in {"approved", "rejected"}, Decide(b, decision)
        PROVE  Audited(a)
    <3>1. record[b] = "awaiting-approval" /\ Fresh(b, <<"approval", 0>>)
      BY <2>1, <2>6 DEF Decide, Consistent
    <3>2. \A c \in Actions \ {b} : execution'[c] = execution[c]
      BY <2>1, <2>6 DEF Decide, TypeOK
    <3> QED BY <2>2, <2>6, <3>1, <3>2 DEF Decide
  <2>7. ASSUME NEW r \in Runs, NEW b \in Actions, ClaimAction(r, b) PROVE Audited(a)
    <3>1. \A c \in Actions \ {b} : execution'[c] = execution[c]
      BY <2>1, <2>7 DEF ClaimAction, TypeOK
    <3> QED BY <2>2, <2>7, <3>1 DEF ClaimAction
  <2>8. ASSUME NEW r \in Runs, NEW b \in Actions, NEW status \in Settled,
               Owns(r, b), Settle(r, b, status)
        PROVE  Audited(a)
    <3>1. record[b] = "executing" /\ Fresh(b, <<"settle", execution[b].attempt>>)
      BY <2>1, <2>8 DEF Owns, Consistent, KeysAreFresh
    <3>2. \A c \in Actions \ {b} : execution'[c] = execution[c]
      BY <2>1, <2>8 DEF Settle, TypeOK
    <3> QED BY <2>2, <2>8, <3>1, <3>2 DEF Settle
  <2>9. ASSUME NEW r \in Runs, NEW b \in Actions, NEW disposition \in {"retry", "failed"},
               Owns(r, b), Release(r, b, disposition)
        PROVE  Audited(a)
    <3> DEFINE kind == IF disposition = "retry" THEN "retry" ELSE "fail"
    <3>1. kind \in {"settle", "retry", "fail"}
      OBVIOUS
    <3>2. \A c \in Actions \ {b} : execution'[c] = execution[c]
      BY <2>1, <2>9 DEF Release, TypeOK
    <3>3. Transition(b, "executing", ActionStateOf(disposition), <<kind, execution[b].attempt>>)
      BY <2>9 DEF Release
    <3> HIDE DEF kind
    <3>4. record[b] = "executing" /\ Fresh(b, <<kind, execution[b].attempt>>)
      BY <2>1, <2>9, <3>1 DEF Owns, Consistent, KeysAreFresh
    <3> QED BY <2>2, <3>2, <3>3, <3>4
  <2> QED BY <2>3, <2>4, <2>5, <2>6, <2>7, <2>8, <2>9, LedgerSteps
<1> QED BY <1>1, InvariantHolds, PTL DEF Spec, AuditTrail

-----------------------------------------------------------------------------
(* What a step does to a run that holds an action afterwards *)

\* The run had the action before, or it has just claimed it
StillHeld(q) ==
  /\ run'[q].action = run[q].action /\ run'[q].attempt = run[q].attempt
  /\ run'[q].pc = "execute" =>
       \/ run[q].pc = "execute"
       \/ /\ run[q].action \notin Active(HostOf[q])
          /\ \A p \in Runs \ {q} : run'[p] = run[p]
  /\ run'[q].pc \in {"finish", "catch"} /\ run'[q].intent = "retry" =>
       \/ run[q].pc \in {"finish", "catch"} /\ run[q].intent = "retry"
       \/ run[q].attempt < MaxAttempts

\* A run that only loses its pass, or grows older, keeps what it holds
LEMMA SameRun ==
  ASSUME NEW q \in Runs,
         run'[q].action = run[q].action, run'[q].attempt = run[q].attempt,
         run'[q].pc = run[q].pc, run'[q].intent = run[q].intent
  PROVE  StillHeld(q)
BY DEF StillHeld

LEMMA EndRunHeld ==
  ASSUME TypeOK, NEW r \in Runs, Resolve(r) \/ Reject(r), NEW q \in Runs, run'[q].action # None
  PROVE  StillHeld(q)
<1>1. run \in [Runs -> RunState]
  BY DEF TypeOK
<1>2. q # r
  <2>1. run'[r] = IdleRun
    BY <1>1 DEF Resolve, Reject
  <2> QED BY <2>1 DEF IdleRun
<1>3. run'[q] = run[q] \/ run'[q] = [run[q] EXCEPT !.inPass = FALSE]
  BY <1>1, <1>2 DEF Resolve, Reject
<1>4. /\ run'[q].pc = run[q].pc /\ run'[q].action = run[q].action
      /\ run'[q].attempt = run[q].attempt /\ run'[q].intent = run[q].intent
  BY <1>1, <1>3 DEF RunState
<1> QED BY <1>4, SameRun

LEMMA ToCatchHeld ==
  ASSUME TypeOK, NEW r \in Runs, NEW infra \in BOOLEAN, ToCatch(r, infra), NEW q \in Runs
  PROVE  StillHeld(q)
<1>1. run \in [Runs -> RunState]
  BY DEF TypeOK
<1>2. CASE q = r
  <2>1. /\ run'[q].action = run[q].action /\ run'[q].attempt = run[q].attempt
        /\ run'[q].pc = "catch" /\ run'[q].intent = Disposition(r, infra)
    BY <1>1, <1>2 DEF ToCatch, RunState
  <2>2. Disposition(r, infra) = "retry" => run[q].attempt < MaxAttempts
    BY <1>2 DEF Disposition
  <2> QED BY <2>1, <2>2 DEF StillHeld
<1>3. CASE q # r
  BY <1>1, <1>3, SameRun DEF ToCatch
<1> QED BY <1>2, <1>3

LEMMA EnterRouterHeld ==
  ASSUME TypeOK, NEW r \in Runs, EnterRouter(r), NEW q \in Runs
  PROVE  StillHeld(q)
<1>1. run \in [Runs -> RunState]
  BY DEF TypeOK
<1>2. CASE \E infra \in BOOLEAN : ToCatch(r, infra)
  BY <1>2, ToCatchHeld
<1>3. CASE /\ run[r].action \notin Active(HostOf[r])
           /\ run' = [run EXCEPT ![r].pc = "execute", ![r].hop = 1]
  <2>1. \A p \in Runs \ {r} : run'[p] = run[p]
    BY <1>1, <1>3
  <2>2. CASE q = r
    <3>1. /\ run'[q].action = run[q].action /\ run'[q].attempt = run[q].attempt
          /\ run'[q].pc = "execute"
      BY <1>1, <1>3, <2>2 DEF RunState
    <3> QED BY <1>3, <2>1, <2>2, <3>1 DEF StillHeld
  <2>3. CASE q # r
    BY <2>1, <2>3, SameRun
  <2> QED BY <2>2, <2>3
<1> QED BY <1>2, <1>3 DEF EnterRouter

LEMMA ProviderEndsHeld ==
  ASSUME TypeOK, NEW r \in Runs, ProviderEnds(r), NEW q \in Runs
  PROVE  StillHeld(q)
<1>1. run \in [Runs -> RunState]
  BY DEF TypeOK
<1>2. CASE q = r
  <2>1. CASE run' = [run EXCEPT ![r].hop = @ + 1]
    <3>1. /\ run'[q].action = run[q].action /\ run'[q].attempt = run[q].attempt
          /\ run'[q].pc = run[q].pc /\ run'[q].intent = run[q].intent
      BY <1>1, <1>2, <2>1 DEF RunState
    <3> QED BY <3>1, SameRun
  <2>2. ASSUME NEW intent, Result(r, intent), intent # "retry" \/ run[r].attempt < MaxAttempts
        PROVE  StillHeld(q)
    <3>1. /\ run'[q].action = run[q].action /\ run'[q].attempt = run[q].attempt
          /\ run'[q].pc = "finish" /\ run'[q].intent = intent
      BY <1>1, <1>2, <2>2 DEF Result, RunState
    <3> QED BY <1>2, <2>2, <3>1 DEF StillHeld
  <2>3. \A status \in Settled : status # "retry"
    BY DEF Settled
  <2>4. Disposition(r, TRUE) # "retry" \/ run[r].attempt < MaxAttempts
    BY DEF Disposition
  <2> QED BY <2>1, <2>2, <2>3, <2>4 DEF ProviderEnds
<1>3. CASE q # r
  BY <1>1, <1>3, SameRun DEF ProviderEnds, Result
<1> QED BY <1>2, <1>3

LEMMA HeldSteps ==
  ASSUME LedgerInvariant, [Next]_vars, NEW q \in Runs, run'[q].action # None
  PROVE  \/ StillHeld(q)
         \/ \E a \in Actions : /\ ClaimAction(q, a)
                               /\ run'[q].action = a /\ run'[q].attempt = execution[a].attempt + 1
                               /\ run'[q].pc = "acquire"
<1>1. TypeOK /\ run \in [Runs -> RunState]
  BY DEF LedgerInvariant, TypeOK
<1>2. ASSUME UNCHANGED run PROVE StillHeld(q)
  BY <1>2, SameRun
<1>3. ASSUME NEW h \in Hosts, StartPass(h) PROVE StillHeld(q)
  <2>1. run'[q] = run[q] \/ run'[q] = [IdleRun EXCEPT !.pc = "claim", !.inPass = TRUE]
    BY <1>1, <1>3 DEF StartPass
  <2>2. run'[q] = run[q]
    BY <2>1 DEF IdleRun
  <2> QED BY <2>2, SameRun
<1>4. ASSUME NEW h \in Hosts, Crash(h) PROVE StillHeld(q)
  <2>1. run'[q] = run[q] \/ run'[q] = IdleRun
    BY <1>4 DEF Crash
  <2>2. run'[q] = run[q]
    BY <2>1 DEF IdleRun
  <2> QED BY <2>2, SameRun
<1>5. CASE Tick
  <2>1. run'[q] = run[q] \/ run'[q] = [run[q] EXCEPT !.age = @ + 1]
    BY <1>5 DEF Tick
  <2>2. /\ run'[q].action = run[q].action /\ run'[q].attempt = run[q].attempt
        /\ run'[q].pc = run[q].pc /\ run'[q].intent = run[q].intent
    BY <1>1, <2>1 DEF RunState
  <2> QED BY <2>2, SameRun
<1>6. ASSUME NEW r \in Runs, NEW a \in Actions, ClaimAction(r, a), q # r PROVE StillHeld(q)
  BY <1>1, <1>6, SameRun DEF ClaimAction
<1>7. ASSUME NEW a \in Actions, ClaimAction(q, a)
      PROVE  run'[q].action = a /\ run'[q].attempt = execution[a].attempt + 1 /\ run'[q].pc = "acquire"
  BY <1>1, <1>7 DEF ClaimAction, RunState
<1>8. ASSUME NEW r \in Runs,
             \/ ClaimNothing(r) \/ ClaimThrows(r) \/ Finish(r) \/ CatchRelease(r) \/ CatchThrows(r)
      PROVE  StillHeld(q)
  BY <1>1, <1>8, EndRunHeld DEF ClaimNothing, ClaimThrows, Finish, CatchRelease, CatchThrows, EndRun
<1>9. ASSUME NEW r \in Runs, AcquireThrows(r) \/ RouterThrows(r) \/ FinishThrows(r)
      PROVE  StillHeld(q)
  BY <1>1, <1>9, ToCatchHeld DEF AcquireThrows, RouterThrows, FinishThrows
<1>10. ASSUME NEW r \in Runs, EnterRouter(r) \/ ProviderEnds(r) PROVE StillHeld(q)
  BY <1>1, <1>10, EnterRouterHeld, ProviderEndsHeld
<1>11. ASSUME NEW r \in Runs, RunStep(r), ~\E a \in Actions : ClaimAction(r, a)
       PROVE  StillHeld(q)
  BY <1>8, <1>9, <1>10, <1>11 DEF RunStep
<1>12. (\E a \in Actions, gated \in BOOLEAN : Enqueue(a, gated)) \/ UNCHANGED vars
         \/ (\E a \in Actions, decision \in {"approved", "rejected"} : Decide(a, decision))
         => UNCHANGED run
  BY DEF Enqueue, Decide, vars
<1> QED BY <1>2, <1>3, <1>4, <1>5, <1>6, <1>7, <1>11, <1>12 DEF Next

-----------------------------------------------------------------------------
(* One executor per host *)

\* The router of a process never has an action in its hands twice, however many runs of
\* its workers overlap and whatever becomes of their leases (router.execute's `active').
THEOREM OneExecutor == Spec => []OneExecutorPerHost
<1>1. Init => OneExecutorPerHost
  BY DEF Init, OneExecutorPerHost, IdleRun
<1>2. LedgerInvariant /\ OneExecutorPerHost /\ [Next]_vars => OneExecutorPerHost'
  <2> SUFFICES ASSUME LedgerInvariant, LedgerInvariant', OneExecutorPerHost, [Next]_vars,
                      NEW q \in Runs, NEW r \in Runs,
                      q # r, HostOf[q] = HostOf[r], run'[q].pc = "execute", run'[r].pc = "execute",
                      run'[q].action = run'[r].action
               PROVE  FALSE
    BY NextKeeps DEF OneExecutorPerHost
  <2>1. run'[q].action # None /\ run'[r].action # None
    <3>1. RunSound(q)' /\ RunSound(r)'
      BY DEF LedgerInvariant
    <3> QED BY <3>1 DEF RunSound
  <2>2. StillHeld(q) /\ StillHeld(r)
    BY <2>1, HeldSteps
  <2>3. run[q].action = run[r].action
    BY <2>2 DEF StillHeld
  <2>4. CASE run[q].pc = "execute" /\ run[r].pc = "execute"
    BY <2>3, <2>4 DEF OneExecutorPerHost
  <2>5. ASSUME NEW p \in Runs, NEW s \in Runs, p # s, HostOf[p] = HostOf[s], run[p].pc # "execute",
               run'[p].pc = "execute", run'[s].pc = "execute", StillHeld(p),
               run[p].action = run[s].action
        PROVE  FALSE
    <3>1. run[p].action \notin Active(HostOf[p]) /\ run'[s] = run[s]
      BY <2>5 DEF StillHeld
    <3>2. run[s].action \in Active(HostOf[p])
      BY <2>5, <3>1 DEF Active
    <3> QED BY <2>5, <3>1, <3>2
  <2> QED BY <2>2, <2>3, <2>4, <2>5
<1> QED BY <1>1, <1>2, InvariantHolds, PTL DEF Spec

-----------------------------------------------------------------------------
(* Claims, as long as no two runs share a worker identity *)

\* `${config.workerId}:${sha256(workspace)}' tells the runs apart: every process has a
\* worker id of its own and no run outlives its pass beside the next one
OneRunPerIdentity == \A q, r \in Runs : Worker(q) = Worker(r) => q = r

\* A run that finds its action under its own name claimed it last, and it asks for a retry
\* below the cap only
ClaimSound(r) ==
  LET a == run[r].action IN
  a # None =>
    /\ Owns(r, a) => execution[a].attempt = run[r].attempt
    /\ run[r].pc \in {"finish", "catch"} /\ run[r].intent = "retry"
         => run[r].attempt < MaxAttempts

ClaimsSound == RetryWithinCap /\ \A r \in Runs : ClaimSound(r)

\* Whatever a step makes of an action in the hands of a worker
LEMMA OwnedSteps ==
  ASSUME LedgerInvariant, [Next]_vars, NEW a \in Actions, NEW r \in Runs, Owns(r, a)'
  PROVE  \/ Owns(r, a) /\ execution'[a].attempt = execution[a].attempt
         \/ \E q \in Runs : ClaimAction(q, a) /\ Worker(q) = Worker(r)
<1>1. TypeOK /\ Worker(r)' = Worker(r)
  BY DEF LedgerInvariant, Worker
<1>2. execution'[a].status = "executing" /\ execution'[a].owner = Worker(r)
  BY <1>1 DEF Owns
<1>3. CASE UNCHANGED ledger
  BY <1>2, <1>3 DEF ledger, Owns
<1>4. CASE Tick
  <2>1. \/ execution'[a] = execution[a]
        \/ execution'[a] = [execution[a] EXCEPT !.avail = Clamp(@ - 1),
                                                !.lease = IF @ > 0 THEN @ - 1 ELSE 0]
    BY <1>4 DEF Tick
  <2>2. /\ execution'[a].status = execution[a].status /\ execution'[a].owner = execution[a].owner
        /\ execution'[a].attempt = execution[a].attempt
    BY <1>1, <2>1 DEF TypeOK, ExecutionRow
  <2> QED BY <1>2, <2>2 DEF Owns
<1>5. ASSUME NEW b \in Actions, execution'[b].status # "executing",
             \A c \in Actions \ {b} : execution'[c] = execution[c]
      PROVE  Owns(r, a) /\ execution'[a].attempt = execution[a].attempt
  BY <1>2, <1>5 DEF Owns
<1>6. ASSUME NEW b \in Actions, NEW gated \in BOOLEAN, Enqueue(b, gated)
      PROVE  Owns(r, a) /\ execution'[a].attempt = execution[a].attempt
  <2>1. execution'[b].status = "pending" /\ \A c \in Actions \ {b} : execution'[c] = execution[c]
    BY <1>1, <1>6 DEF Enqueue, TypeOK, ExecutionRow
  <2> QED BY <1>5, <2>1
<1>7. ASSUME NEW b \in Actions, NEW decision \in {"approved", "rejected"}, Decide(b, decision)
      PROVE  Owns(r, a) /\ execution'[a].attempt = execution[a].attempt
  <2>1. execution[b].status = "pending"
    BY <1>7 DEF LedgerInvariant, LedgerConsistent, Consistent, Decide
  <2>2. execution'[b].status # "executing" /\ \A c \in Actions \ {b} : execution'[c] = execution[c]
    BY <1>1, <1>7, <2>1 DEF Decide, TypeOK, ExecutionRow
  <2> QED BY <1>5, <2>2
<1>8. ASSUME NEW q \in Runs, NEW b \in Actions, ClaimAction(q, b), a # b
      PROVE  Owns(r, a) /\ execution'[a].attempt = execution[a].attempt
  BY <1>1, <1>2, <1>8 DEF ClaimAction, TypeOK, Owns
<1>9. ASSUME NEW q \in Runs, ClaimAction(q, a) PROVE Worker(q) = Worker(r)
  <2>1. execution'[a].owner = Worker(q)
    BY <1>1, <1>9 DEF ClaimAction, TypeOK, ExecutionRow
  <2> QED BY <1>2, <2>1
<1>10. ASSUME NEW q \in Runs, NEW b \in Actions, NEW status \in Settled, Settle(q, b, status)
       PROVE  Owns(r, a) /\ execution'[a].attempt = execution[a].attempt
  <2>1. execution'[b].status = status /\ \A c \in Actions \ {b} : execution'[c] = execution[c]
    BY <1>1, <1>10 DEF Settle, TypeOK, ExecutionRow
  <2> QED BY <1>5, <2>1 DEF Settled
<1>11. ASSUME NEW q \in Runs, NEW b \in Actions, NEW disposition \in {"retry", "failed"},
              Release(q, b, disposition)
       PROVE  Owns(r, a) /\ execution'[a].attempt = execution[a].attempt
  <2>1. execution'[b].status # "executing" /\ \A c \in Actions \ {b} : execution'[c] = execution[c]
    BY <1>1, <1>11 DEF Release, TypeOK, ExecutionRow
  <2> QED BY <1>5, <2>1
<1> QED BY <1>3, <1>4, <1>6, <1>7, <1>8, <1>9, <1>10, <1>11, LedgerSteps

\* An action leaves `executing' by the last transaction of a run that owns it
LEMMA LeavingSteps ==
  ASSUME LedgerInvariant, [Next]_vars, NEW a \in Actions,
         execution[a].status = "executing", execution'[a].status # "executing"
  PROVE  \E r \in Runs :
           /\ run[r].action = a /\ Owns(r, a) /\ run[r].pc \in {"finish", "catch"}
           /\ run'[r] = IdleRun
           /\ execution'[a].attempt = execution[a].attempt
           /\ execution'[a].status = "pending" => run[r].intent = "retry"
<1>1. TypeOK /\ LedgerConsistent
  BY DEF LedgerInvariant
<1>2. ASSUME NEW r \in Runs, Finish(r) \/ CatchRelease(r)
      PROVE  /\ run[r].action = a /\ Owns(r, a) /\ run[r].pc \in {"finish", "catch"}
             /\ run'[r] = IdleRun
             /\ execution'[a].attempt = execution[a].attempt
             /\ execution'[a].status = "pending" => run[r].intent = "retry"
  <2> DEFINE b == run[r].action
  <2>1. b \in Actions /\ RunSound(r)
    BY <1>1, <1>2 DEF LedgerInvariant, TypeOK, RunState, RunSound, Finish, CatchRelease
  <2>2. run'[r] = IdleRun /\ run[r].pc \in {"finish", "catch"} /\ Owns(r, b)
    BY <1>1, <1>2 DEF Finish, CatchRelease, EndRun, Resolve, Reject, TypeOK, Refused
  <2>3. /\ \A c \in Actions \ {b} : execution'[c] = execution[c]
        /\ execution'[b].attempt = execution[b].attempt
        /\ execution'[b].status = "pending" => run[r].intent = "retry"
    <3>1. CASE \E status \in Settled : Settle(r, b, status)
      BY <1>1, <2>1, <3>1 DEF Settle, TypeOK, ExecutionRow, Settled
    <3>2. CASE Release(r, b, run[r].intent)
      BY <1>1, <2>1, <3>2 DEF Release, TypeOK, ExecutionRow
    <3> QED BY <1>2, <2>1, <3>1, <3>2 DEF Finish, CatchRelease, RunSound
  <2>4. a = b
    BY <2>3
  <2> QED BY <2>2, <2>3, <2>4
<1>3. ASSUME NEW r \in Runs, NEW b \in Actions, ClaimAction(r, b) PROVE FALSE
  BY <1>1, <1>3 DEF ClaimAction, TypeOK, ExecutionRow
<1>4. ASSUME NEW b \in Actions, NEW gated \in BOOLEAN, Enqueue(b, gated) PROVE FALSE
  BY <1>1, <1>4 DEF Enqueue, TypeOK
<1>5. ASSUME NEW b \in Actions, NEW decision \in {"approved", "rejected"}, Decide(b, decision)
      PROVE  FALSE
  BY <1>1, <1>5 DEF Decide, TypeOK, LedgerConsistent, Consistent
<1>6. CASE Tick
  <2>1. \/ execution'[a] = execution[a]
        \/ execution'[a] = [execution[a] EXCEPT !.avail = Clamp(@ - 1),
                                                !.lease = IF @ > 0 THEN @ - 1 ELSE 0]
    BY <1>6 DEF Tick
  <2> QED BY <1>1, <2>1 DEF TypeOK, ExecutionRow
<1>7. ASSUME NEW r \in Runs, RunStep(r)
      PROVE  \/ UNCHANGED execution
             \/ \E b \in Actions : ClaimAction(r, b)
             \/ Finish(r) \/ CatchRelease(r)
  BY <1>7 DEF RunStep, ClaimNothing, ClaimThrows, AcquireThrows, EnterRouter, ProviderEnds,
              RouterThrows, FinishThrows, CatchThrows, ledger
<1>8. (\E h \in Hosts : StartPass(h) \/ Crash(h)) \/ UNCHANGED vars => UNCHANGED execution
  BY DEF StartPass, Crash, vars, ledger
<1> QED BY <1>2, <1>3, <1>4, <1>5, <1>6, <1>7, <1>8 DEF Next

\* What waits for a worker after a step was waiting before, is new, or was put back
LEMMA PendingSteps ==
  ASSUME LedgerInvariant, [Next]_vars, NEW a \in Actions,
         execution'[a].status = "pending", execution[a].status # "executing"
  PROVE  \/ execution[a].status = "pending" /\ execution'[a].attempt = execution[a].attempt
         \/ execution'[a].attempt = 0
<1>1. TypeOK /\ JournalSound(a)
  BY DEF LedgerInvariant
<1>2. CASE UNCHANGED ledger
  BY <1>2 DEF ledger
<1>3. CASE Tick
  <2>1. \/ execution'[a] = execution[a]
        \/ execution'[a] = [execution[a] EXCEPT !.avail = Clamp(@ - 1),
                                                !.lease = IF @ > 0 THEN @ - 1 ELSE 0]
    BY <1>3 DEF Tick
  <2> QED BY <1>1, <2>1 DEF TypeOK, ExecutionRow
<1>4. ASSUME NEW b \in Actions, NEW gated \in BOOLEAN, Enqueue(b, gated)
      PROVE  \/ execution[a].status = "pending" /\ execution'[a].attempt = execution[a].attempt
             \/ execution'[a].attempt = 0
  BY <1>1, <1>4 DEF Enqueue, TypeOK, ExecutionRow, JournalSound
<1>5. ASSUME NEW b \in Actions, NEW decision \in {"approved", "rejected"}, Decide(b, decision)
      PROVE  execution[a].status = "pending" /\ execution'[a].attempt = execution[a].attempt
  BY <1>1, <1>5 DEF Decide, TypeOK, ExecutionRow
<1>6. ASSUME NEW r \in Runs, NEW b \in Actions, ClaimAction(r, b)
      PROVE  execution[a].status = "pending" /\ execution'[a].attempt = execution[a].attempt
  BY <1>1, <1>6 DEF ClaimAction, TypeOK, ExecutionRow
<1>7. ASSUME NEW r \in Runs, NEW b \in Actions, NEW status \in Settled, Settle(r, b, status)
      PROVE  execution[a].status = "pending" /\ execution'[a].attempt = execution[a].attempt
  BY <1>1, <1>7 DEF Settle, TypeOK, ExecutionRow, Settled
<1>8. ASSUME NEW r \in Runs, NEW b \in Actions, NEW disposition \in {"retry", "failed"},
             Owns(r, b), Release(r, b, disposition)
      PROVE  execution[a].status = "pending" /\ execution'[a].attempt = execution[a].attempt
  BY <1>1, <1>8 DEF Release, Owns, TypeOK, ExecutionRow
<1> QED BY <1>2, <1>3, <1>4, <1>5, <1>6, <1>7, <1>8, LedgerSteps

LEMMA InitClaims == Init => ClaimsSound
<1>1. Init => RetryWithinCap
  BY DEF Init, RetryWithinCap, AbsentExecution
<1>2. Init => \A r \in Runs : ClaimSound(r)
  BY DEF Init, ClaimSound, IdleRun
<1> QED BY <1>1, <1>2 DEF ClaimsSound

LEMMA ClaimsKept ==
  ASSUME OneRunPerIdentity, LedgerInvariant, ClaimsSound, [Next]_vars
  PROVE  ClaimsSound'
<1>1. TypeOK /\ \A q \in Runs : RunSound(q) /\ ClaimSound(q)
  BY DEF LedgerInvariant, ClaimsSound
<1>2. RetryWithinCap'
  <2> SUFFICES ASSUME NEW a \in Actions, execution'[a].status = "pending"
               PROVE  execution'[a].attempt < MaxAttempts
    BY DEF RetryWithinCap
  <2>1. CASE execution[a].status = "executing"
    <3>1. PICK r \in Runs : /\ run[r].action = a /\ Owns(r, a) /\ run[r].pc \in {"finish", "catch"}
                            /\ run[r].intent = "retry"
                            /\ execution'[a].attempt = execution[a].attempt
      BY <2>1, LeavingSteps
    <3>2. a # None
      BY LedgerAssumption
    <3> QED BY <1>1, <3>1, <3>2 DEF ClaimSound
  <2>2. CASE execution[a].status # "executing"
    <3>1. CASE execution'[a].attempt = 0
      BY <3>1, LedgerAssumption
    <3>2. CASE execution[a].status = "pending" /\ execution'[a].attempt = execution[a].attempt
      BY <3>2 DEF ClaimsSound, RetryWithinCap
    <3> QED BY <2>2, <3>1, <3>2, PendingSteps
  <2> QED BY <2>1, <2>2
<1>3. ASSUME NEW r \in Runs PROVE ClaimSound(r)'
  <2>1. run'[r].action \in Actions \cup {None}
    BY NextKeeps DEF LedgerInvariant, TypeOK, RunState
  <2> SUFFICES ASSUME NEW a \in Actions, a = run'[r].action, a # None
               PROVE  /\ Owns(r, a)' => execution'[a].attempt = run'[r].attempt
                      /\ run'[r].pc \in {"finish", "catch"} /\ run'[r].intent = "retry"
                           => run'[r].attempt < MaxAttempts
    BY <2>1 DEF ClaimSound, Owns
  <2>2. CASE StillHeld(r)
    <3>1. run[r].action = a /\ run'[r].attempt = run[r].attempt
      BY <2>2 DEF StillHeld
    <3>2. ASSUME Owns(r, a)' PROVE execution'[a].attempt = run'[r].attempt
      <4>1. CASE Owns(r, a) /\ execution'[a].attempt = execution[a].attempt
        BY <1>1, <3>1, <4>1 DEF ClaimSound
      <4>2. ASSUME NEW q \in Runs, ClaimAction(q, a), Worker(q) = Worker(r)
            PROVE  FALSE
        <5>1. q = r
          BY <4>2 DEF OneRunPerIdentity
        <5>2. run[r].pc = "claim"
          BY <4>2, <5>1 DEF ClaimAction
        <5> QED BY <1>1, <3>1, <5>2 DEF RunSound
      <4> QED BY <3>2, <4>1, <4>2, OwnedSteps
    <3>3. ASSUME run'[r].pc \in {"finish", "catch"}, run'[r].intent = "retry"
          PROVE  run'[r].attempt < MaxAttempts
      <4>1. CASE run[r].attempt < MaxAttempts
        BY <3>1, <4>1
      <4>2. CASE run[r].pc \in {"finish", "catch"} /\ run[r].intent = "retry"
        BY <1>1, <3>1, <4>2 DEF ClaimSound
      <4> QED BY <2>2, <3>3, <4>1, <4>2 DEF StillHeld
    <3> QED BY <3>2, <3>3
  <2>3. ASSUME NEW b \in Actions, ClaimAction(r, b), a = b,
               run'[r].attempt = execution[b].attempt + 1, run'[r].pc = "acquire"
        PROVE  /\ execution'[a].attempt = run'[r].attempt
               /\ run'[r].pc \notin {"finish", "catch"}
    <3>1. execution'[b].attempt = execution[b].attempt + 1
      BY <1>1, <2>3 DEF ClaimAction, TypeOK, ExecutionRow
    <3> QED BY <2>3, <3>1
  <2> QED BY <2>2, <2>3, HeldSteps
<1> QED BY <1>2, <1>3 DEF ClaimsSound

\* The cap on retries: without shared identities what waits for a retry has used fewer than
\* maxAttempts attempts (the disposition of the worker's catch block and of defer).
THEOREM RetriesCapped ==
  ASSUME OneRunPerIdentity
  PROVE  Spec => []RetryWithinCap
<1>1. Init => ClaimsSound
  BY InitClaims
<1>2. LedgerInvariant /\ ClaimsSound /\ [Next]_vars => ClaimsSound'
  BY ClaimsKept
<1>3. ClaimsSound => RetryWithinCap
  BY DEF ClaimsSound
<1> QED BY <1>1, <1>2, <1>3, InvariantHolds, PTL DEF Spec

\* Without shared identities only the run whose claim the ledger records, by its attempt too,
\* takes the action out of `executing' (settleAction, releaseActionClaim).
THEOREM ClaimantCommits ==
  ASSUME OneRunPerIdentity
  PROVE  Spec => CommitByClaimant
<1> DEFINE Commits == \A a \in Actions :
             execution[a].status = "executing" /\ execution'[a].status # "executing" =>
               \E r \in Runs : Claimant(r, a) /\ run'[r] # run[r]
<1>1. Init => ClaimsSound
  BY InitClaims
<1>2. LedgerInvariant /\ ClaimsSound /\ [Next]_vars => ClaimsSound'
  BY ClaimsKept
<1>3. LedgerInvariant /\ ClaimsSound /\ [Next]_vars => [Commits]_vars
  <2> SUFFICES ASSUME LedgerInvariant, ClaimsSound, [Next]_vars, NEW a \in Actions,
                      execution[a].status = "executing", execution'[a].status # "executing"
               PROVE  \E r \in Runs : Claimant(r, a) /\ run'[r] # run[r]
    OBVIOUS
  <2>1. PICK r \in Runs : /\ run[r].action = a /\ Owns(r, a) /\ run[r].pc \in {"finish", "catch"}
                          /\ run'[r] = IdleRun
    BY LeavingSteps
  <2>2. a # None
    BY LedgerAssumption
  <2>3. Claimant(r, a)
    BY <2>1, <2>2 DEF ClaimsSound, ClaimSound, Claimant, Owns
  <2>4. run'[r] # run[r]
    BY <2>1 DEF IdleRun
  <2> QED BY <2>3, <2>4
<1> QED BY <1>1, <1>2, <1>3, InvariantHolds, PTL DEF Spec, CommitByClaimant

-----------------------------------------------------------------------------
(* The tables implement the life of a job *)

LEMMA JobPhases ==
  ASSUME TypeOK, NEW a \in Actions, NEW from, NEW to, NEW key, Transition(a, from, to, key)
  PROVE  [b \in Actions |-> PhaseOf(record'[b])]
           = [[b \in Actions |-> PhaseOf(record[b])] EXCEPT ![a] = PhaseOf(to)]
<1>1. record' = [record EXCEPT ![a] = to] /\ record \in [Actions -> RecordState]
  BY DEF Transition, TypeOK
<1> QED BY <1>1

LEMMA JobEpochs ==
  ASSUME TypeOK, NEW a \in Actions, execution'[a].attempt = execution[a].attempt,
         \A b \in Actions \ {a} : execution'[b] = execution[b]
  PROVE  [b \in Actions |-> execution'[b].attempt] = [b \in Actions |-> execution[b].attempt]
OBVIOUS

\* Leaving `executing' puts the job back, or ends it
LEMMA LeavingIsJobStep ==
  ASSUME LedgerInvariant, NEW a \in Actions, execution[a].status = "executing",
         NEW verdict \in Settled \cup {"retry"}, NEW key,
         Transition(a, "executing", ActionStateOf(verdict), key),
         execution'[a].attempt = execution[a].attempt,
         \A b \in Actions \ {a} : execution'[b] = execution[b],
         UNCHANGED approval
  PROVE  Job!PutBack(a) \/ Job!End(a)
<1>1. TypeOK /\ Consistent(a)
  BY DEF LedgerInvariant, LedgerConsistent
<1>2. PhaseOf(record[a]) = "held"
  BY <1>1 DEF Consistent, PhaseOf
<1>3. IF verdict = "retry" THEN PhaseOf(ActionStateOf(verdict)) = "queued"
      ELSE PhaseOf(ActionStateOf(verdict)) \in {"completed", "waiting-external", "failed"}
  BY DEF PhaseOf, ActionStateOf, Settled
<1>4. /\ [b \in Actions |-> PhaseOf(record'[b])]
           = [[b \in Actions |-> PhaseOf(record[b])] EXCEPT ![a] = PhaseOf(ActionStateOf(verdict))]
      /\ [b \in Actions |-> execution'[b].attempt] = [b \in Actions |-> execution[b].attempt]
      /\ [b \in Actions |-> GateOf(approval'[b])] = [b \in Actions |-> GateOf(approval[b])]
  BY <1>1, JobPhases, JobEpochs
<1> QED BY <1>2, <1>3, <1>4 DEF Job!PutBack, Job!End

LEMMA EnqueueIsJobStep ==
  ASSUME LedgerInvariant, NEW a \in Actions, NEW gated \in BOOLEAN, Enqueue(a, gated)
  PROVE  Job!Submit(a)
<1> DEFINE state == IF gated THEN "awaiting-approval" ELSE "planned"
<1>1. TypeOK /\ Consistent(a) /\ JournalSound(a)
  BY DEF LedgerInvariant, LedgerConsistent
<1>2. PhaseOf(record[a]) = "unknown" /\ approval[a] = "none" /\ (gated \/ a \in ReadOnly)
  BY <1>1 DEF Enqueue, Consistent, JournalSound, PhaseOf
<1>3. [b \in Actions |-> PhaseOf(record'[b])]
        = [[b \in Actions |-> PhaseOf(record[b])] EXCEPT ![a] = PhaseOf(state)]
  <2>1. Transition(a, "absent", state, <<"enqueue", 0>>)
    BY DEF Enqueue
  <2> HIDE DEF state
  <2> QED BY <1>1, <2>1, JobPhases
<1>4. PhaseOf(state) = IF gated THEN "gated" ELSE "queued"
  BY DEF PhaseOf
<1>5. [b \in Actions |-> execution'[b].attempt] = [b \in Actions |-> execution[b].attempt]
  <2>1. execution'[a].attempt = execution[a].attempt
        /\ \A b \in Actions \ {a} : execution'[b] = execution[b]
    BY <1>1 DEF Enqueue, TypeOK, ExecutionRow
  <2> QED BY <1>1, <2>1, JobEpochs
<1>6. [b \in Actions |-> GateOf(approval'[b])]
        = IF gated THEN [[b \in Actions |-> GateOf(approval[b])] EXCEPT ![a] = "closed"]
          ELSE [b \in Actions |-> GateOf(approval[b])]
  <2>1. /\ approval'[a] = IF gated THEN "pending" ELSE "none"
        /\ \A b \in Actions \ {a} : approval'[b] = approval[b]
    BY <1>1 DEF Enqueue, TypeOK
  <2>2. GateOf("pending") = "closed"
    BY DEF GateOf
  <2> QED BY <1>2, <2>1, <2>2
<1> HIDE DEF state
<1> QED BY <1>2, <1>3, <1>4, <1>5, <1>6 DEF Job!Submit

LEMMA DecideIsJobStep ==
  ASSUME LedgerInvariant, NEW a \in Actions, NEW decision \in {"approved", "rejected"},
         Decide(a, decision)
  PROVE  Job!Permit(a) \/ Job!Refuse(a)
<1> DEFINE state == IF decision = "approved" THEN "planned" ELSE "failed"
<1>1. TypeOK /\ Consistent(a)
  BY DEF LedgerInvariant, LedgerConsistent
<1>2. PhaseOf(record[a]) = "gated"
  BY <1>1 DEF Decide, Consistent, PhaseOf
<1>3. [b \in Actions |-> PhaseOf(record'[b])]
        = [[b \in Actions |-> PhaseOf(record[b])] EXCEPT ![a] = PhaseOf(state)]
  <2>1. Transition(a, "awaiting-approval", state, <<"approval", 0>>)
    BY DEF Decide
  <2> HIDE DEF state
  <2> QED BY <1>1, <2>1, JobPhases
<1>4. PhaseOf(state) = IF decision = "approved" THEN "queued" ELSE "failed"
  BY DEF PhaseOf
<1>5. [b \in Actions |-> execution'[b].attempt] = [b \in Actions |-> execution[b].attempt]
  <2>1. execution'[a].attempt = execution[a].attempt
        /\ \A b \in Actions \ {a} : execution'[b] = execution[b]
    BY <1>1 DEF Decide, TypeOK, ExecutionRow
  <2> QED BY <1>1, <2>1, JobEpochs
<1>6. [b \in Actions |-> GateOf(approval'[b])]
        = [[b \in Actions |-> GateOf(approval[b])] EXCEPT
             ![a] = IF decision = "approved" THEN "open" ELSE "refused"]
  <2>1. approval'[a] = decision /\ \A b \in Actions \ {a} : approval'[b] = approval[b]
    BY <1>1 DEF Decide, TypeOK
  <2>2. GateOf(decision) = IF decision = "approved" THEN "open" ELSE "refused"
    BY DEF GateOf
  <2> QED BY <2>1, <2>2
<1> HIDE DEF state
<1> QED BY <1>2, <1>3, <1>4, <1>5, <1>6 DEF Job!Permit, Job!Refuse

LEMMA ClaimIsJobStep ==
  ASSUME LedgerInvariant, NEW r \in Runs, NEW a \in Actions, ClaimAction(r, a)
  PROVE  Job!Take(a)
<1>1. TypeOK /\ Consistent(a)
  BY DEF LedgerInvariant, LedgerConsistent
<1>2. approval[a] \in {"none", "approved"} /\ execution[a].status \in {"pending", "executing"}
  BY DEF ClaimAction, Selected, Claimable
<1>3. PhaseOf(record[a]) \in {"queued", "held"} /\ GateOf(approval[a]) \in {"none", "open"}
  BY <1>1, <1>2 DEF Consistent, PhaseOf, GateOf
<1>4. [b \in Actions |-> PhaseOf(record'[b])]
        = [[b \in Actions |-> PhaseOf(record[b])] EXCEPT ![a] = "held"]
  <2>1. PhaseOf("executing") = "held"
    BY DEF PhaseOf
  <2> QED BY <1>1, <2>1, JobPhases DEF ClaimAction
<1>5. [b \in Actions |-> execution'[b].attempt]
        = [[b \in Actions |-> execution[b].attempt] EXCEPT ![a] = @ + 1]
  <2>1. execution'[a].attempt = execution[a].attempt + 1
        /\ \A b \in Actions \ {a} : execution'[b] = execution[b]
    BY <1>1 DEF ClaimAction, TypeOK, ExecutionRow
  <2> QED BY <2>1
<1>6. UNCHANGED approval
  BY DEF ClaimAction
<1> QED BY <1>3, <1>4, <1>5, <1>6 DEF Job!Take

\* Every operation on the ledger is a step in the life of one job, or none: the tables with
\* their leases, retries and reclaims implement what the ledger promises whoever enqueues
\* (the state machine of DurableJob).
THEOREM LedgerImplementsJob == Spec => ImplementsDurableJob
<1>1. Init => Job!JobInit
  <2> SUFFICES ASSUME Init PROVE Job!JobInit
    OBVIOUS
  <2>1. \A a \in Actions : /\ PhaseOf(record[a]) = "unknown" /\ execution[a].attempt = 0
                           /\ GateOf(approval[a]) = "none"
    BY DEF Init, PhaseOf, GateOf, AbsentExecution
  <2> QED BY <2>1 DEF Job!JobInit
<1>2. LedgerInvariant /\ [Next]_vars => [Job!JobNext]_(Job!jobVars)
  <2> SUFFICES ASSUME LedgerInvariant, [Next]_vars
               PROVE  Job!JobNext \/ UNCHANGED Job!jobVars
    OBVIOUS
  <2>1. TypeOK
    BY DEF LedgerInvariant
  <2>2. CASE UNCHANGED ledger
    BY <2>2 DEF ledger, Job!jobVars
  <2>3. CASE Tick
    <3>1. \A a \in Actions : execution'[a].attempt = execution[a].attempt
      BY <2>1, <2>3 DEF Tick, TypeOK, ExecutionRow
    <3>2. record' = record /\ approval' = approval
      BY <2>3 DEF Tick
    <3> QED BY <3>1, <3>2 DEF Job!jobVars
  <2>4. ASSUME NEW a \in Actions, NEW gated \in BOOLEAN, Enqueue(a, gated) PROVE Job!JobNext
    BY <2>4, EnqueueIsJobStep DEF Job!JobNext
  <2>5. ASSUME NEW a \in Actions, NEW decision \in {"approved", "rejected"}, Decide(a, decision)
        PROVE  Job!JobNext
    BY <2>5, DecideIsJobStep DEF Job!JobNext
  <2>6. ASSUME NEW r \in Runs, NEW a \in Actions, ClaimAction(r, a) PROVE Job!JobNext
    BY <2>6, ClaimIsJobStep DEF Job!JobNext
  <2>7. ASSUME NEW r \in Runs, NEW a \in Actions, NEW status \in Settled,
               Owns(r, a), Settle(r, a, status), UNCHANGED approval
        PROVE  Job!JobNext
    <3>1. /\ execution'[a].attempt = execution[a].attempt
          /\ \A b \in Actions \ {a} : execution'[b] = execution[b]
      BY <2>1, <2>7 DEF Settle, TypeOK, ExecutionRow
    <3>2. Job!PutBack(a) \/ Job!End(a)
      BY <2>7, <3>1, LeavingIsJobStep DEF Owns, Settle
    <3> QED BY <3>2 DEF Job!JobNext
  <2>8. ASSUME NEW r \in Runs, NEW a \in Actions, NEW disposition \in {"retry", "failed"},
               Owns(r, a), Release(r, a, disposition), UNCHANGED approval
        PROVE  Job!JobNext
    <3>1. /\ execution'[a].attempt = execution[a].attempt
          /\ \A b \in Actions \ {a} : execution'[b] = execution[b]
      BY <2>1, <2>8 DEF Release, TypeOK, ExecutionRow
    <3>2. disposition \in Settled \cup {"retry"}
      BY DEF Settled
    <3>3. Job!PutBack(a) \/ Job!End(a)
      BY <2>8, <3>1, <3>2, LeavingIsJobStep DEF Owns, Release
    <3> QED BY <3>3 DEF Job!JobNext
  <2> QED BY <2>2, <2>3, <2>4, <2>5, <2>6, <2>7, <2>8, LedgerSteps
<1> QED BY <1>1, <1>2, InvariantHolds, PTL DEF Spec, ImplementsDurableJob, Job!JobSpec
=============================================================================

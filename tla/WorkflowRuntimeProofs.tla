------------------------ MODULE WorkflowRuntimeProofs ------------------------
(***************************************************************************)
(* Proofs about WorkflowRuntime for any instances, effects, runtimes and   *)
(* features, any batch size, lease and retry delay, and every value of the *)
(* bounds.                                                                 *)
(***************************************************************************)
EXTENDS WorkflowRuntime, FiniteSetTheorems, TLAPS

-----------------------------------------------------------------------------
(* The passes and dispatches *)

\* What a runtime is about at each place of its pass
RuntimeSound(q) ==
  /\ q.pc \in {"idle", "timers"} => q.effect = None
  /\ q.pc \in {"handle", "settle", "release"} => q.effect \in Effects
  /\ q.pc \in {"read", "write"} =>
       /\ q.job \in Dispatch
       /\ \/ q.effect = None /\ q.job.event[1] = "timer"
          \/ /\ q.effect \in Effects
             /\ \E kind \in {"delivered", "failed"} :
                  q.job = [inst |-> InstanceOf[q.effect], event |-> <<kind, q.effect>>]
  /\ q.terminal => q.pc = "release"
  /\ q.pc = "release" /\ ~q.terminal /\ q.effect \in Handled => q.attempt < MaxAttempts

FeatureSound(q) ==
  /\ q.pc \in {"idle", "read", "write"} /\ q.effect = None
  /\ q.pc # "idle" => q.job \in Dispatch /\ q.job.event[1] = "external"

ProcSound ==
  /\ \A r \in Runtimes : RuntimeSound(proc[r])
  /\ \A f \in Features : FeatureSound(proc[f])

\* The same claim, at the same age of the pass
SameWork(q, s) == s.effect = q.effect /\ s.attempt = q.attempt /\ s.age = q.age

LEMMA EventTypes ==
  /\ \A t \in Instants : <<"timer", t>> \in EventId
  /\ \A e \in Effects : <<"delivered", e>> \in EventId /\ <<"failed", e>> \in EventId
  /\ \A x \in External : <<"external", x>> \in EventId
BY DEF EventId

LEMMA Separate == \A r \in Runtimes : r \in Procs /\ r \notin Features
BY WorkflowAssumption DEF Procs

LEMMA NoEffect == None \notin Effects /\ None \notin Runtimes /\ None \notin Instants
BY WorkflowAssumption DEF Instants

LEMMA IdleSound ==
  /\ IdleProc \in ProcState
  /\ RuntimeSound(IdleProc) /\ FeatureSound(IdleProc)
  /\ IdleProc.pc = "idle" /\ IdleProc.effect = None /\ IdleProc.age = 0
<1>1. IdleProc \in ProcState
  BY DEF IdleProc, ProcState, ProcPc
<1>2. IdleProc.pc = "idle" /\ IdleProc.effect = None /\ IdleProc.age = 0 /\ ~IdleProc.terminal
  BY DEF IdleProc
<1> QED BY <1>1, <1>2 DEF RuntimeSound, FeatureSound

LEMMA BeginFields ==
  ASSUME NEW q \in ProcState, NEW i \in Instances, NEW event \in EventId
  PROVE  /\ Begin(q, i, event) \in ProcState
         /\ Begin(q, i, event).pc = "read"
         /\ Begin(q, i, event).job = [inst |-> i, event |-> event]
         /\ [inst |-> i, event |-> event] \in Dispatch
         /\ SameWork(q, Begin(q, i, event))
         /\ Begin(q, i, event).terminal = q.terminal
<1>1. [inst |-> i, event |-> event] \in Dispatch
  BY DEF Dispatch
<1> DEFINE job == [inst |-> i, event |-> event]
<1>2. job \in Dispatch
  BY <1>1
<1> HIDE DEF job
<1>3. "read" \in ProcPc /\ 0 \in 0 .. 3
  BY DEF ProcPc
<1>4. [q EXCEPT !.pc = "read", !.job = job, !.tries = 0] \in ProcState
  BY <1>2, <1>3 DEF ProcState
<1>5. /\ [q EXCEPT !.pc = "read", !.job = job, !.tries = 0].pc = "read"
      /\ [q EXCEPT !.pc = "read", !.job = job, !.tries = 0].job = job
      /\ SameWork(q, [q EXCEPT !.pc = "read", !.job = job, !.tries = 0])
      /\ [q EXCEPT !.pc = "read", !.job = job, !.tries = 0].terminal = q.terminal
  BY DEF ProcState, SameWork
<1> QED BY <1>1, <1>4, <1>5 DEF Begin, job

LEMMA DoneFields ==
  ASSUME NEW p \in Procs, proc[p] \in ProcState
  PROVE  /\ Done(p) \in ProcState
         /\ SameWork(proc[p], Done(p))
         /\ Done(p).terminal = proc[p].terminal
         /\ [Done(p) EXCEPT !.pc = "timers"] \in ProcState
         /\ [Done(p) EXCEPT !.pc = "settle"] \in ProcState
         /\ [Done(p) EXCEPT !.pc = "release", !.terminal = TRUE] \in ProcState
         /\ SameWork(proc[p], [Done(p) EXCEPT !.pc = "timers"])
         /\ SameWork(proc[p], [Done(p) EXCEPT !.pc = "settle"])
         /\ SameWork(proc[p], [Done(p) EXCEPT !.pc = "release", !.terminal = TRUE])
         /\ [Done(p) EXCEPT !.pc = "timers"].pc = "timers"
         /\ [Done(p) EXCEPT !.pc = "settle"].pc = "settle"
         /\ [Done(p) EXCEPT !.pc = "release", !.terminal = TRUE].pc = "release"
         /\ [Done(p) EXCEPT !.pc = "timers"].terminal = proc[p].terminal
         /\ [Done(p) EXCEPT !.pc = "settle"].terminal = proc[p].terminal
         /\ [Done(p) EXCEPT !.pc = "release", !.terminal = TRUE].terminal
<1> DEFINE d == Done(p)
<1>1. d \in ProcState /\ SameWork(proc[p], d) /\ d.terminal = proc[p].terminal
  <2>1. 0 \in 0 .. 3 /\ 0 \in Nat /\ {} \in SUBSET EventId
    OBVIOUS
  <2>2. d = [proc[p] EXCEPT !.job = None, !.tries = 0, !.rev = 0, !.folded = {}]
    BY DEF Done
  <2>3. d \in ProcState
    BY <2>1, <2>2 DEF ProcState
  <2>4. SameWork(proc[p], d) /\ d.terminal = proc[p].terminal
    BY <2>2 DEF ProcState, SameWork
  <2> QED BY <2>3, <2>4
<1> HIDE DEF d
<1>2. /\ [d EXCEPT !.pc = "timers"] \in ProcState
      /\ [d EXCEPT !.pc = "settle"] \in ProcState
      /\ [d EXCEPT !.pc = "release", !.terminal = TRUE] \in ProcState
  BY <1>1 DEF ProcState, ProcPc
<1>3. /\ SameWork(proc[p], [d EXCEPT !.pc = "timers"])
      /\ SameWork(proc[p], [d EXCEPT !.pc = "settle"])
      /\ SameWork(proc[p], [d EXCEPT !.pc = "release", !.terminal = TRUE])
      /\ [d EXCEPT !.pc = "timers"].pc = "timers"
      /\ [d EXCEPT !.pc = "settle"].pc = "settle"
      /\ [d EXCEPT !.pc = "release", !.terminal = TRUE].pc = "release"
      /\ [d EXCEPT !.pc = "timers"].terminal = proc[p].terminal
      /\ [d EXCEPT !.pc = "settle"].terminal = proc[p].terminal
      /\ [d EXCEPT !.pc = "release", !.terminal = TRUE].terminal
  BY <1>1 DEF ProcState, SameWork
<1> QED BY <1>1, <1>2, <1>3 DEF d

\* The catch block keeps the claim, and tells the workflow exactly at the last attempt
LEMMA CaughtFields ==
  ASSUME NEW q \in ProcState, q.effect \in Effects, ~q.terminal
  PROVE  /\ Caught(q) \in ProcState /\ RuntimeSound(Caught(q)) /\ SameWork(q, Caught(q))
         /\ ~Caught(q).terminal
         /\ \/ Caught(q).pc = "release" /\ q.attempt < MaxAttempts
            \/ Caught(q).pc = "read" /\ Caught(q).job.event = <<"failed", q.effect>>
<1>1. q.attempt \in Nat /\ MaxAttempts \in Nat
  BY WorkflowAssumption DEF ProcState
<1>2. CASE q.attempt >= MaxAttempts
  <2>1. InstanceOf[q.effect] \in Instances /\ <<"failed", q.effect>> \in EventId
    BY WorkflowAssumption, EventTypes
  <2> DEFINE job == [inst |-> InstanceOf[q.effect], event |-> <<"failed", q.effect>>]
  <2>2. Caught(q) = Begin(q, InstanceOf[q.effect], <<"failed", q.effect>>)
    BY <1>2 DEF Caught
  <2>3. Caught(q) \in ProcState /\ Caught(q).pc = "read" /\ Caught(q).job = job /\ job \in Dispatch
        /\ SameWork(q, Caught(q)) /\ ~Caught(q).terminal
    BY <2>1, <2>2, BeginFields
  <2>4. Caught(q).effect = q.effect /\ job.event = <<"failed", q.effect>>
    BY <2>3 DEF SameWork
  <2>5. RuntimeSound(Caught(q))
    BY <2>3, <2>4 DEF RuntimeSound
  <2> QED BY <2>3, <2>4, <2>5
<1>3. CASE ~(q.attempt >= MaxAttempts)
  <2>1. Caught(q) = [q EXCEPT !.pc = "release"]
    BY <1>3 DEF Caught
  <2>2. Caught(q) \in ProcState /\ Caught(q).pc = "release" /\ SameWork(q, Caught(q)) /\ ~Caught(q).terminal
    BY <2>1 DEF ProcState, ProcPc, SameWork
  <2>3. RuntimeSound(Caught(q))
    BY <1>1, <1>3, <2>2 DEF RuntimeSound, SameWork
  <2> QED BY <1>1, <1>3, <2>2, <2>3
<1> QED BY <1>2, <1>3

\* What a dispatch in progress is for
LEMMA JobOfRuntime ==
  ASSUME ProcSound, NEW r \in Runtimes, proc[r].pc \in {"read", "write"}
  PROVE  /\ proc[r].job \in Dispatch /\ ~proc[r].terminal
         /\ \/ Kind(r) = "timer" /\ proc[r].effect = None
            \/ /\ Kind(r) \in {"delivered", "failed"} /\ proc[r].effect \in Effects
               /\ proc[r].job.inst = InstanceOf[proc[r].effect]
               /\ proc[r].job.event = <<Kind(r), proc[r].effect>>
<1>1. RuntimeSound(proc[r])
  BY DEF ProcSound
<1>2. proc[r].job \in Dispatch /\ ~proc[r].terminal
  BY <1>1 DEF RuntimeSound
<1>3. CASE proc[r].effect = None /\ proc[r].job.event[1] = "timer"
  BY <1>2, <1>3 DEF Kind
<1>4. ASSUME NEW kind \in {"delivered", "failed"}, proc[r].effect \in Effects,
             proc[r].job = [inst |-> InstanceOf[proc[r].effect], event |-> <<kind, proc[r].effect>>]
      PROVE  /\ Kind(r) = kind
             /\ proc[r].job.inst = InstanceOf[proc[r].effect]
             /\ proc[r].job.event = <<kind, proc[r].effect>>
  BY <1>4 DEF Kind
<1> QED BY <1>1, <1>2, <1>3, <1>4 DEF RuntimeSound

LEMMA JobOfFeature ==
  ASSUME ProcSound, NEW f \in Features, proc[f].pc # "idle"
  PROVE  proc[f].job \in Dispatch /\ Kind(f) = "external" /\ proc[f].effect = None
BY DEF ProcSound, FeatureSound, Kind

LEMMA JobTypes ==
  ASSUME ProcSound, NEW p \in Procs, proc[p].pc \in {"read", "write"}
  PROVE  proc[p].job \in Dispatch /\ proc[p].job.inst \in Instances /\ proc[p].job.event \in EventId
<1>1. CASE p \in Runtimes
  BY <1>1, JobOfRuntime DEF Dispatch
<1>2. CASE p \in Features
  BY <1>2, JobOfFeature DEF Dispatch
<1> QED BY <1>1, <1>2 DEF Procs

\* One process moves, into a sound place
LEMMA OneMoves ==
  ASSUME TypeOK, ProcSound, NEW p \in Procs, NEW q \in ProcState,
         proc' = [proc EXCEPT ![p] = q],
         p \in Runtimes => RuntimeSound(q), p \in Features => FeatureSound(q)
  PROVE  /\ proc' \in [Procs -> ProcState] /\ ProcSound'
         /\ proc'[p] = q /\ \A o \in Procs : o # p => proc'[o] = proc[o]
<1>1. proc \in [Procs -> ProcState]
  BY DEF TypeOK
<1>2. proc'[p] = q /\ \A o \in Procs : o # p => proc'[o] = proc[o]
  BY <1>1
<1>3. proc' \in [Procs -> ProcState]
  BY <1>1
<1>4. \A r \in Runtimes : RuntimeSound(proc'[r])
  BY <1>2, Separate DEF ProcSound
<1>5. \A f \in Features : FeatureSound(proc'[f])
  BY <1>2 DEF ProcSound, Procs
<1> QED BY <1>2, <1>3, <1>4, <1>5 DEF ProcSound

\* How a dispatch returns to its caller
LEMMA ReturnedStep ==
  ASSUME TypeOK, ProcSound, NEW p \in Procs, proc[p].pc \in {"read", "write"}, Returned(p)
  PROVE  /\ proc' \in [Procs -> ProcState] /\ ProcSound'
         /\ \A o \in Procs : o # p => proc'[o] = proc[o]
         /\ p \in Features => proc'[p] = IdleProc
         /\ p \in Runtimes =>
              /\ SameWork(proc[p], proc'[p])
              /\ \/ Kind(p) = "timer" /\ proc'[p].pc = "timers"
                 \/ Kind(p) = "delivered" /\ proc'[p].pc = "settle"
                 \/ Kind(p) = "failed" /\ proc'[p].pc = "release" /\ proc'[p].terminal
<1>1. proc[p] \in ProcState
  BY DEF TypeOK
<1>2. CASE p \in Features
  <2>1. Kind(p) = "external"
    BY <1>2, JobOfFeature
  <2>2. proc' = [proc EXCEPT ![p] = IdleProc]
    BY <2>1 DEF Returned
  <2> QED BY <1>2, <2>2, IdleSound, OneMoves, Separate
<1>3. CASE p \in Runtimes
  <2>1. p \notin Features /\ ~proc[p].terminal
    BY <1>3, Separate, JobOfRuntime
  <2>2. CASE Kind(p) = "timer"
    <3> DEFINE q == [Done(p) EXCEPT !.pc = "timers"]
    <3>1. proc' = [proc EXCEPT ![p] = q]
      BY <2>2 DEF Returned
    <3>2. q \in ProcState /\ SameWork(proc[p], q) /\ q.pc = "timers" /\ ~q.terminal
      BY <1>1, <2>1, DoneFields
    <3>3. proc[p].effect = None
      BY <1>3, <2>2, JobOfRuntime
    <3> HIDE DEF q
    <3>4. RuntimeSound(q)
      BY <3>2, <3>3 DEF RuntimeSound, SameWork
    <3> QED BY <2>1, <2>2, <3>1, <3>2, <3>4, OneMoves
  <2>3. CASE Kind(p) = "delivered"
    <3> DEFINE q == [Done(p) EXCEPT !.pc = "settle"]
    <3>1. proc' = [proc EXCEPT ![p] = q]
      BY <2>3 DEF Returned
    <3>2. q \in ProcState /\ SameWork(proc[p], q) /\ q.pc = "settle" /\ ~q.terminal
      BY <1>1, <2>1, DoneFields
    <3>3. proc[p].effect \in Effects
      BY <1>3, <2>3, JobOfRuntime
    <3> HIDE DEF q
    <3>4. RuntimeSound(q)
      BY <3>2, <3>3 DEF RuntimeSound, SameWork
    <3> QED BY <2>1, <2>3, <3>1, <3>2, <3>4, OneMoves
  <2>4. CASE Kind(p) = "failed"
    <3> DEFINE q == [Done(p) EXCEPT !.pc = "release", !.terminal = TRUE]
    <3>1. proc' = [proc EXCEPT ![p] = q]
      BY <2>4 DEF Returned
    <3>2. q \in ProcState /\ SameWork(proc[p], q) /\ q.pc = "release" /\ q.terminal
      BY <1>1, DoneFields
    <3>3. proc[p].effect \in Effects
      BY <1>3, <2>4, JobOfRuntime
    <3> HIDE DEF q
    <3>4. RuntimeSound(q)
      BY <3>2, <3>3 DEF RuntimeSound, SameWork
    <3> QED BY <2>1, <2>4, <3>1, <3>2, <3>4, OneMoves
  <2> QED BY <1>3, <2>2, <2>3, <2>4, JobOfRuntime
<1> QED BY <1>2, <1>3 DEF Procs

\* ... and how it throws
LEMMA ThrewStep ==
  ASSUME TypeOK, ProcSound, NEW p \in Procs, proc[p].pc \in {"read", "write"}, Threw(p)
  PROVE  /\ proc' \in [Procs -> ProcState] /\ ProcSound'
         /\ \A o \in Procs : o # p => proc'[o] = proc[o]
         /\ p \in Features => proc'[p] = IdleProc
         /\ p \in Runtimes =>
              \/ Kind(p) = "timer" /\ proc'[p] = IdleProc
              \/ /\ Kind(p) = "delivered" /\ SameWork(proc[p], proc'[p]) /\ ~proc'[p].terminal
                 /\ proc'[p].pc \in {"read", "release"}
              \/ /\ Kind(p) = "failed" /\ SameWork(proc[p], proc'[p])
                 /\ proc'[p].pc = "release" /\ proc'[p].terminal
<1>1. proc[p] \in ProcState
  BY DEF TypeOK
<1>2. CASE p \in Features
  <2>1. Kind(p) = "external"
    BY <1>2, JobOfFeature
  <2>2. proc' = [proc EXCEPT ![p] = IdleProc]
    BY <2>1 DEF Threw
  <2> QED BY <1>2, <2>2, IdleSound, OneMoves, Separate
<1>3. CASE p \in Runtimes
  <2>1. p \notin Features /\ ~proc[p].terminal
    BY <1>3, Separate, JobOfRuntime
  <2>2. CASE Kind(p) = "timer"
    <3>1. proc' = [proc EXCEPT ![p] = IdleProc]
      BY <2>2 DEF Threw
    <3> QED BY <2>1, <2>2, <3>1, IdleSound, OneMoves
  <2>3. CASE Kind(p) = "delivered"
    <3> DEFINE d == Done(p)
               q == Caught(d)
    <3>1. proc' = [proc EXCEPT ![p] = q]
      BY <2>3 DEF Threw
    <3>2. d \in ProcState /\ SameWork(proc[p], d) /\ ~d.terminal
      BY <1>1, <2>1, DoneFields
    <3>3. d.effect \in Effects
      BY <1>3, <2>3, <3>2, JobOfRuntime DEF SameWork
    <3> HIDE DEF d
    <3>4. q \in ProcState /\ RuntimeSound(q) /\ SameWork(d, q) /\ ~q.terminal
          /\ q.pc \in {"read", "release"}
      BY <3>2, <3>3, CaughtFields
    <3> HIDE DEF q
    <3>5. SameWork(proc[p], q)
      BY <3>2, <3>4 DEF SameWork
    <3> QED BY <2>1, <2>3, <3>1, <3>4, <3>5, OneMoves
  <2>4. CASE Kind(p) = "failed"
    <3> DEFINE q == [Done(p) EXCEPT !.pc = "release", !.terminal = TRUE]
    <3>1. proc' = [proc EXCEPT ![p] = q]
      BY <2>4 DEF Threw
    <3>2. q \in ProcState /\ SameWork(proc[p], q) /\ q.pc = "release" /\ q.terminal
      BY <1>1, DoneFields
    <3>3. proc[p].effect \in Effects
      BY <1>3, <2>4, JobOfRuntime
    <3> HIDE DEF q
    <3>4. RuntimeSound(q)
      BY <3>2, <3>3 DEF RuntimeSound, SameWork
    <3> QED BY <2>1, <2>4, <3>1, <3>2, <3>4, OneMoves
  <2> QED BY <1>3, <2>2, <2>3, <2>4, JobOfRuntime
<1> QED BY <1>2, <1>3 DEF Procs

-----------------------------------------------------------------------------
(* The tables *)

Spent == [overruns : Nat, faults : Nat, crashes : Nat, rejects : Nat]

LEMMA SpentTypes ==
  ASSUME TypeOK
  PROVE  /\ spent \in Spent
         /\ Fault => spent' \in Spent
         /\ [spent EXCEPT !.crashes = @ + 1] \in Spent
         /\ [spent EXCEPT !.rejects = @ + 1] \in Spent
         /\ \A n \in Nat : [spent EXCEPT !.overruns = @ + n] \in Spent
<1>1. spent \in Spent
  BY DEF TypeOK, Spent
<1>2. Fault => spent' \in Spent
  BY <1>1 DEF Fault, Spent
<1>3. [spent EXCEPT !.crashes = @ + 1] \in Spent /\ [spent EXCEPT !.rejects = @ + 1] \in Spent
  BY <1>1 DEF Spent
<1>4. \A n \in Nat : [spent EXCEPT !.overruns = @ + n] \in Spent
  BY <1>1 DEF Spent
<1> QED BY <1>1, <1>2, <1>3, <1>4

LEMMA InsertedRows ==
  ASSUME TypeOK, NEW S \in SUBSET Effects, Inserted(S)
  PROVE  /\ effect' \in [Effects -> EffectRow]
         /\ \A e \in Effects \ S : effect'[e] = effect[e]
         /\ \A e \in S : effect'[e].status = "pending" /\ effect'[e].attempt = effect[e].attempt
<1>1. PICK available \in [S -> Delays] :
        effect' = [e \in Effects |->
          IF e \in S THEN [effect[e] EXCEPT !.status = "pending", !.avail = available[e]] ELSE effect[e]]
  BY DEF Inserted
<1>2. \A e \in S : available[e] \in Int
  BY WorkflowAssumption
<1>3. ASSUME NEW e \in S
      PROVE  LET row == [effect[e] EXCEPT !.status = "pending", !.avail = available[e]] IN
             row \in EffectRow /\ row.status = "pending" /\ row.attempt = effect[e].attempt
  <2>1. effect[e] \in EffectRow /\ available[e] \in Int
    BY <1>2 DEF TypeOK
  <2> QED BY <2>1 DEF EffectRow
<1>4. \A e \in Effects : effect[e] \in EffectRow
  BY DEF TypeOK
<1> QED BY <1>1, <1>3, <1>4

LEMMA FreedRows ==
  ASSUME TypeOK, NEW e \in Effects, NEW status \in {"pending", "delivered", "failed"},
         NEW avail \in Int, Freed(e, status, avail)
  PROVE  /\ effect' \in [Effects -> EffectRow]
         /\ effect'[e].status = status /\ effect'[e].attempt = effect[e].attempt
         /\ effect'[e].owner = None
         /\ \A d \in Effects : d # e => effect'[d] = effect[d]
<1> DEFINE row == [effect[e] EXCEPT !.status = status, !.owner = None, !.lease = 0, !.avail = avail]
<1>1. effect[e] \in EffectRow /\ 0 \in Int
  BY DEF TypeOK
<1>2. row \in EffectRow /\ row.status = status /\ row.attempt = effect[e].attempt /\ row.owner = None
  BY <1>1 DEF EffectRow
<1>3. effect' = [effect EXCEPT ![e] = row]
  BY DEF Freed
<1> HIDE DEF row
<1>4. effect \in [Effects -> EffectRow]
  BY DEF TypeOK
<1> QED BY <1>2, <1>3, <1>4

\* The state of an instance is the fold of its events; who is about to commit has read
\* the state of the revision it read
FoldsSound ==
  \A i \in Instances :
    /\ instance[i].folded = events[i] /\ IsFiniteSet(events[i])
    /\ instance[i].rev = Cardinality(events[i])

ReadSound(p) ==
  proc[p].pc = "write" =>
    LET i == proc[p].job.inst IN
    /\ proc[p].rev <= instance[i].rev
    /\ proc[p].rev = instance[i].rev => proc[p].folded = events[i]

Core == TypeOK /\ ProcSound /\ FoldsSound /\ \A p \in Procs : ReadSound(p)

\* A step of one process that commits nothing to the instances and reads nothing
LEMMA Moved ==
  ASSUME Core, NEW p \in Procs,
         proc' \in [Procs -> ProcState], ProcSound', \A o \in Procs : o # p => proc'[o] = proc[o],
         proc'[p].pc # "write", UNCHANGED <<now, instance, events>>,
         effect' \in [Effects -> EffectRow], spent' \in Spent
  PROVE  Core'
<1>1. TypeOK'
  BY DEF Core, TypeOK, Spent
<1>2. FoldsSound'
  BY DEF Core, FoldsSound
<1>3. \A o \in Procs : ReadSound(o)'
  BY DEF Core, ReadSound
<1> QED BY <1>1, <1>2, <1>3 DEF Core

LEMMA StartCore ==
  ASSUME Core, NEW i \in Instances, Start(i)
  PROVE  Core'
<1>1. PICK wake \in {None} \cup {t \in Instants : t >= now}, S \in SUBSET NewEffects(i) :
        /\ instance' = [instance EXCEPT ![i].status = "open", ![i].wake = wake]
        /\ Inserted(S)
  BY DEF Start
<1>2. instance' \in [Instances -> InstanceRow]
      /\ \A j \in Instances : instance'[j].rev = instance[j].rev /\ instance'[j].folded = instance[j].folded
  <2>1. instance \in [Instances -> InstanceRow] /\ wake \in Instants \cup {None}
    BY DEF Core, TypeOK
  <2>2. [instance[i] EXCEPT !.status = "open", !.wake = wake] \in InstanceRow
        /\ [instance[i] EXCEPT !.status = "open", !.wake = wake].rev = instance[i].rev
        /\ [instance[i] EXCEPT !.status = "open", !.wake = wake].folded = instance[i].folded
    BY <2>1 DEF InstanceRow
  <2>3. instance' = [instance EXCEPT ![i] = [instance[i] EXCEPT !.status = "open", !.wake = wake]]
    BY <1>1, <2>1 DEF InstanceRow
  <2> QED BY <2>1, <2>2, <2>3
<1>3. effect' \in [Effects -> EffectRow]
  BY <1>1, InsertedRows DEF Core, NewEffects
<1>4. UNCHANGED <<now, events, proc, spent>>
  BY DEF Start
<1>5. TypeOK'
  BY <1>2, <1>3, <1>4 DEF Core, TypeOK
<1>6. FoldsSound' /\ ProcSound'
  BY <1>2, <1>4 DEF Core, FoldsSound, ProcSound
<1>7. \A p \in Procs : ReadSound(p)'
  <2> SUFFICES ASSUME NEW p \in Procs, proc[p].pc = "write" PROVE ReadSound(p)'
    BY <1>4 DEF ReadSound
  <2>1. proc[p].job.inst \in Instances
    BY JobTypes DEF Core
  <2>2. ReadSound(p)
    BY DEF Core
  <2> QED BY <1>2, <1>4, <2>1, <2>2 DEF ReadSound
<1> QED BY <1>5, <1>6, <1>7 DEF Core

\* dispatch() reads: what it will commit is the state of the revision it has read
LEMMA ReadCore ==
  ASSUME Core, NEW p \in Procs, Read(p)
  PROVE  /\ Core' /\ SameWork(proc[p], proc'[p]) /\ proc'[p].pc = "write"
         /\ proc'[p].job = proc[p].job
         /\ \A o \in Procs : o # p => proc'[o] = proc[o]
<1> DEFINE row == instance[proc[p].job.inst]
           q == [proc[p] EXCEPT !.pc = "write", !.rev = row.rev, !.folded = row.folded]
<1>1. TypeOK /\ ProcSound /\ FoldsSound /\ proc[p].pc = "read" /\ proc[p] \in ProcState
  BY DEF Core, TypeOK, Read
<1>2. proc[p].job.inst \in Instances
  BY <1>1, JobTypes
<1>3. row.rev \in Nat /\ row.folded \in SUBSET EventId
  BY <1>1, <1>2 DEF TypeOK, InstanceRow
<1>4. proc' = [proc EXCEPT ![p] = q]
  BY <1>1 DEF Read, TypeOK
<1> HIDE DEF row
<1>5. q \in ProcState /\ q.pc = "write" /\ q.job = proc[p].job /\ q.terminal = proc[p].terminal
      /\ SameWork(proc[p], q) /\ q.rev = row.rev /\ q.folded = row.folded
  BY <1>1, <1>3 DEF ProcState, ProcPc, SameWork
<1> HIDE DEF q
<1>6. p \in Runtimes => RuntimeSound(q)
  BY <1>1, <1>5 DEF ProcSound, RuntimeSound, SameWork
<1>7. p \in Features => FeatureSound(q)
  BY <1>1, <1>5 DEF ProcSound, FeatureSound, SameWork
<1>8. proc' \in [Procs -> ProcState] /\ ProcSound' /\ proc'[p] = q
      /\ \A o \in Procs : o # p => proc'[o] = proc[o]
  BY <1>1, <1>4, <1>5, <1>6, <1>7, OneMoves
<1>9. UNCHANGED <<now, instance, events, effect, spent>>
  BY DEF Read, tables
<1>10. TypeOK' /\ FoldsSound'
  BY <1>1, <1>8, <1>9 DEF TypeOK, FoldsSound
<1>11. ASSUME NEW o \in Procs PROVE ReadSound(o)'
  <2>1. CASE o = p
    <3>1. row.rev \in Nat /\ row.rev <= row.rev /\ row.folded = events[proc[p].job.inst]
      BY <1>1, <1>2, <1>3 DEF FoldsSound, row
    <3> QED BY <1>5, <1>8, <1>9, <2>1, <3>1 DEF ReadSound, row
  <2>2. CASE o # p
    BY <1>8, <1>9, <2>2 DEF Core, ReadSound
  <2> QED BY <2>1, <2>2
<1> QED BY <1>5, <1>8, <1>10, <1>11 DEF Core

LEMMA AdvanceTables ==
  ASSUME TypeOK, NEW i \in Instances, NEW event \in EventId, NEW rev \in Nat,
         NEW folded \in SUBSET EventId, Advance(i, event, rev, folded)
  PROVE  /\ instance' \in [Instances -> InstanceRow] /\ events' \in [Instances -> SUBSET EventId]
         /\ events'[i] = events[i] \cup {event}
         /\ instance'[i].rev = rev + 1 /\ instance'[i].folded = folded \cup {event}
         /\ \A j \in Instances : j # i => instance'[j] = instance[j] /\ events'[j] = events[j]
         /\ \E S \in SUBSET NewEffects(i) : Inserted(S)
<1>1. PICK wake \in Wakes(i, event), status \in {"open", "closed"}, S \in SUBSET NewEffects(i) :
        /\ instance' = [instance EXCEPT ![i] = [status |-> status, rev |-> rev + 1,
                                              wake |-> wake, folded |-> folded \cup {event}]]
        /\ Inserted(S)
  BY DEF Advance
<1>2. wake \in Instants \cup {None}
  BY DEF Wakes, TypeOK, InstanceRow
<1> DEFINE row == [status |-> status, rev |-> rev + 1, wake |-> wake, folded |-> folded \cup {event}]
<1>3. row \in InstanceRow /\ row.rev = rev + 1 /\ row.folded = folded \cup {event}
  BY <1>2 DEF InstanceRow
<1>4. instance' = [instance EXCEPT ![i] = row]
  BY <1>1
<1>5. events' = [events EXCEPT ![i] = @ \cup {event}]
  BY DEF Advance
<1> HIDE DEF row
<1> QED BY <1>1, <1>3, <1>4, <1>5 DEF TypeOK

\* advanceWorkflow commits only over the revision that was read, so nothing is lost
LEMMA WriteCore ==
  ASSUME Core, NEW p \in Procs, Write(p)
  PROVE  Core'
<1> DEFINE i == proc[p].job.inst
           event == proc[p].job.event
<1>1. TypeOK /\ ProcSound /\ FoldsSound /\ proc[p].pc = "write" /\ proc[p] \in ProcState
      /\ Returned(p) /\ UNCHANGED <<now, spent>>
  BY DEF Core, TypeOK, Write
<1>2. i \in Instances /\ event \in EventId
  BY <1>1, JobTypes
<1>3. proc' \in [Procs -> ProcState] /\ ProcSound' /\ proc'[p].pc # "write"
      /\ \A o \in Procs : o # p => proc'[o] = proc[o]
  <2>1. p \in Features => proc'[p].pc # "write"
    BY <1>1, ReturnedStep, IdleSound
  <2>2. p \in Runtimes => proc'[p].pc # "write"
    BY <1>1, ReturnedStep
  <2> QED BY <1>1, <2>1, <2>2, ReturnedStep DEF Procs
<1>4. CASE UNCHANGED tables
  BY <1>1, <1>3, <1>4, Moved, SpentTypes DEF tables, TypeOK
<1>5. CASE event \notin events[i] /\ instance[i].rev = proc[p].rev
           /\ Advance(i, event, proc[p].rev, proc[p].folded)
  <2>1. proc[p].rev \in Nat /\ proc[p].folded \in SUBSET EventId /\ proc[p].folded = events[i]
    BY <1>1, <1>5 DEF ProcState, Core, ReadSound
  <2> HIDE DEF i, event
  <2>2. /\ instance' \in [Instances -> InstanceRow] /\ events' \in [Instances -> SUBSET EventId]
        /\ events'[i] = events[i] \cup {event}
        /\ instance'[i].rev = proc[p].rev + 1 /\ instance'[i].folded = events[i] \cup {event}
        /\ \A j \in Instances : j # i => instance'[j] = instance[j] /\ events'[j] = events[j]
        /\ \E S \in SUBSET NewEffects(i) : Inserted(S)
    BY <1>1, <1>2, <1>5, <2>1, AdvanceTables
  <2>3. effect' \in [Effects -> EffectRow]
    BY <1>1, <2>2, InsertedRows DEF NewEffects
  <2>4. TypeOK'
    BY <1>1, <1>3, <2>2, <2>3 DEF TypeOK
  <2>5. FoldsSound'
    <3>1. IsFiniteSet(events[i]) /\ instance[i].rev = Cardinality(events[i])
      BY <1>1, <1>2 DEF FoldsSound
    <3>2. IsFiniteSet(events'[i]) /\ Cardinality(events'[i]) = Cardinality(events[i]) + 1
      <4>1. event \notin events[i] /\ events'[i] = events[i] \cup {event}
        BY <1>5, <2>2
      <4> QED BY <3>1, <4>1, FS_AddElement
    <3> QED BY <1>1, <1>5, <2>2, <3>1, <3>2 DEF FoldsSound
  <2>6. ASSUME NEW o \in Procs PROVE ReadSound(o)'
    <3>1. CASE o = p
      BY <1>3, <3>1 DEF ReadSound
    <3>2. CASE o # p /\ proc[o].pc # "write"
      BY <1>3, <3>2 DEF ReadSound
    <3>3. CASE o # p /\ proc[o].pc = "write"
      <4>1. proc'[o] = proc[o] /\ proc[o].job.inst \in Instances /\ proc[o].rev \in Nat
        BY <1>1, <1>3, <3>3, JobTypes DEF TypeOK, ProcState
      <4>2. CASE proc[o].job.inst = i
        <5>1. proc[o].rev <= instance[i].rev /\ instance[i].rev \in Nat
              /\ instance'[i].rev = instance[i].rev + 1
          BY <1>1, <1>2, <1>5, <2>2, <3>3, <4>2 DEF Core, ReadSound, TypeOK, InstanceRow
        <5> QED BY <4>1, <4>2, <5>1 DEF ReadSound
      <4>3. CASE proc[o].job.inst # i
        BY <2>2, <3>3, <4>1, <4>3 DEF Core, ReadSound
      <4> QED BY <4>2, <4>3
    <3> QED BY <3>1, <3>2, <3>3
  <2> QED BY <1>3, <2>4, <2>5, <2>6 DEF Core
<1> QED BY <1>4, <1>5 DEF Write

LEMMA CoreTypes ==
  ASSUME Core
  PROVE  /\ TypeOK /\ ProcSound /\ FoldsSound
         /\ now' = now => now' \in Instants
         /\ effect \in [Effects -> EffectRow] /\ spent \in Spent
         /\ \A p \in Procs : proc[p] \in ProcState
BY DEF Core, TypeOK, Spent

\* A dispatch that throws at its read
LEMMA ReadThrowsCore ==
  ASSUME Core, NEW p \in Procs, ReadThrows(p)
  PROVE  Core'
<1>1. proc[p].pc \in {"read", "write"} /\ Threw(p) /\ UNCHANGED <<now, instance, events, effect>>
  BY DEF ReadThrows, tables
<1>2. spent' \in Spent
  BY SpentTypes, CoreTypes DEF ReadThrows
<1>3. proc' \in [Procs -> ProcState] /\ ProcSound' /\ proc'[p].pc # "write"
      /\ \A o \in Procs : o # p => proc'[o] = proc[o]
  <2>1. p \in Features => proc'[p].pc # "write"
    BY <1>1, CoreTypes, ThrewStep, IdleSound
  <2>2. p \in Runtimes => proc'[p].pc # "write"
    BY <1>1, CoreTypes, ThrewStep, IdleSound
  <2> QED BY <1>1, <2>1, <2>2, CoreTypes, ThrewStep DEF Procs
<1> QED BY <1>1, <1>2, <1>3, CoreTypes, Moved

\* A revision conflict goes back to the read
LEMMA RetryStep ==
  ASSUME TypeOK, ProcSound, NEW p \in Procs, proc[p].pc = "write", proc[p].tries < 2,
         proc' = [proc EXCEPT ![p].pc = "read", ![p].tries = @ + 1, ![p].rev = 0, ![p].folded = {}]
  PROVE  /\ proc' \in [Procs -> ProcState] /\ ProcSound'
         /\ \A o \in Procs : o # p => proc'[o] = proc[o]
         /\ SameWork(proc[p], proc'[p]) /\ proc'[p].pc = "read" /\ proc'[p].job = proc[p].job
<1> DEFINE q == [proc[p] EXCEPT !.pc = "read", !.tries = @ + 1, !.rev = 0, !.folded = {}]
<1>1. proc[p] \in ProcState
  BY DEF TypeOK
<1>2. proc' = [proc EXCEPT ![p] = q]
  BY <1>1 DEF TypeOK
<1>3. q \in ProcState /\ q.pc = "read" /\ q.job = proc[p].job /\ q.terminal = proc[p].terminal
      /\ SameWork(proc[p], q)
  <2>1. proc[p].tries + 1 \in 0 .. 3 /\ 0 \in Nat /\ {} \in SUBSET EventId /\ "read" \in ProcPc
    BY <1>1 DEF ProcState, ProcPc
  <2>2. q \in ProcState
    BY <1>1, <2>1 DEF ProcState
  <2> QED BY <1>1, <2>2 DEF ProcState, SameWork
<1> HIDE DEF q
<1>4. p \in Runtimes => RuntimeSound(q)
  BY <1>1, <1>3 DEF ProcSound, RuntimeSound, SameWork
<1>5. p \in Features => FeatureSound(q)
  BY <1>1, <1>3 DEF ProcSound, FeatureSound, SameWork
<1> QED BY <1>2, <1>3, <1>4, <1>5, OneMoves

LEMMA WriteFailsCore ==
  ASSUME Core, NEW p \in Procs, WriteFails(p)
  PROVE  Core'
<1>1. proc[p].pc = "write" /\ UNCHANGED <<now, instance, events, effect>>
  BY DEF WriteFails, tables
<1>2. spent' \in Spent
  BY SpentTypes, CoreTypes DEF WriteFails
<1>3. CASE /\ proc[p].tries < 2
           /\ proc' = [proc EXCEPT ![p].pc = "read", ![p].tries = @ + 1, ![p].rev = 0, ![p].folded = {}]
  <2>1. /\ proc' \in [Procs -> ProcState] /\ ProcSound' /\ proc'[p].pc = "read"
        /\ \A o \in Procs : o # p => proc'[o] = proc[o]
    BY <1>1, <1>3, CoreTypes, RetryStep
  <2> QED BY <1>1, <1>2, <2>1, CoreTypes, Moved
<1>4. CASE Threw(p)
  <2>1. p \in Features => proc'[p].pc # "write"
    BY <1>1, <1>4, CoreTypes, ThrewStep, IdleSound
  <2>2. p \in Runtimes => proc'[p].pc # "write"
    BY <1>1, <1>4, CoreTypes, ThrewStep, IdleSound
  <2>3. proc' \in [Procs -> ProcState] /\ ProcSound' /\ \A o \in Procs : o # p => proc'[o] = proc[o]
    BY <1>1, <1>4, CoreTypes, ThrewStep
  <2> QED BY <1>1, <1>2, <2>1, <2>2, <2>3, CoreTypes, Moved DEF Procs
<1> QED BY <1>3, <1>4 DEF WriteFails

\* A feature begins a dispatch
LEMMA FeatureCore ==
  ASSUME Core, NEW f \in Features, NEW x \in External, FeatureDispatch(f, x)
  PROVE  /\ Core'
         /\ \A o \in Procs : o # f => proc'[o] = proc[o]
<1> DEFINE q == Begin(IdleProc, TargetOf[x], <<"external", x>>)
<1>1. TargetOf[x] \in Instances /\ <<"external", x>> \in EventId /\ f \in Procs /\ f \notin Runtimes
  BY WorkflowAssumption, EventTypes DEF Procs
<1>2. q \in ProcState /\ q.pc = "read" /\ q.job = [inst |-> TargetOf[x], event |-> <<"external", x>>]
      /\ q.job \in Dispatch /\ SameWork(IdleProc, q)
  BY <1>1, BeginFields, IdleSound
<1>3. proc' = [proc EXCEPT ![f] = q] /\ UNCHANGED <<now, instance, events, effect, spent>>
  BY DEF FeatureDispatch, tables
<1> HIDE DEF q
<1>4. FeatureSound(q)
  BY <1>2, IdleSound DEF FeatureSound, SameWork
<1>5. proc' \in [Procs -> ProcState] /\ ProcSound' /\ proc'[f] = q
      /\ \A o \in Procs : o # f => proc'[o] = proc[o]
  BY <1>1, <1>2, <1>3, <1>4, CoreTypes, OneMoves
<1> QED BY <1>1, <1>2, <1>3, <1>5, CoreTypes, Moved

\* A pass that ends
LEMMA EndStep ==
  ASSUME TypeOK, ProcSound, NEW r \in Runtimes, proc' = [proc EXCEPT ![r] = IdleProc]
  PROVE  /\ proc' \in [Procs -> ProcState] /\ ProcSound'
         /\ proc'[r] = IdleProc /\ proc'[r].pc = "idle" /\ proc'[r].effect = None
         /\ \A o \in Procs : o # r => proc'[o] = proc[o]
BY IdleSound, OneMoves, Separate

\* The catch block of a pass
LEMMA CaughtStep ==
  ASSUME TypeOK, ProcSound, NEW r \in Runtimes, proc[r].pc \in {"handle", "settle"},
         proc' = [proc EXCEPT ![r] = Caught(proc[r])]
  PROVE  /\ proc' \in [Procs -> ProcState] /\ ProcSound'
         /\ SameWork(proc[r], proc'[r]) /\ ~proc'[r].terminal /\ proc'[r].pc \in {"read", "release"}
         /\ \A o \in Procs : o # r => proc'[o] = proc[o]
<1> DEFINE q == Caught(proc[r])
<1>1. r \in Procs /\ r \notin Features /\ proc[r] \in ProcState /\ proc[r].effect \in Effects
      /\ ~proc[r].terminal
  BY Separate DEF TypeOK, ProcSound, RuntimeSound
<1>2. q \in ProcState /\ RuntimeSound(q) /\ SameWork(proc[r], q) /\ ~q.terminal
      /\ q.pc \in {"read", "release"}
  BY <1>1, CaughtFields
<1> HIDE DEF q
<1>3. proc' = [proc EXCEPT ![r] = q]
  BY DEF q
<1> QED BY <1>1, <1>2, <1>3, OneMoves

\* A handler has resolved: its workflow is to be told
LEMMA DeliverStep ==
  ASSUME TypeOK, ProcSound, NEW r \in Runtimes, proc[r].pc = "handle",
         proc' = [proc EXCEPT ![r] = Begin(proc[r], InstanceOf[proc[r].effect],
                                           <<"delivered", proc[r].effect>>)]
  PROVE  /\ proc' \in [Procs -> ProcState] /\ ProcSound'
         /\ SameWork(proc[r], proc'[r]) /\ proc'[r].pc = "read" /\ ~proc'[r].terminal
         /\ \A o \in Procs : o # r => proc'[o] = proc[o]
<1>1. r \in Procs /\ r \notin Features /\ proc[r] \in ProcState /\ proc[r].effect \in Effects
      /\ ~proc[r].terminal
  BY Separate DEF TypeOK, ProcSound, RuntimeSound
<1>2. InstanceOf[proc[r].effect] \in Instances /\ <<"delivered", proc[r].effect>> \in EventId
  BY <1>1, WorkflowAssumption, EventTypes
<1> DEFINE job == [inst |-> InstanceOf[proc[r].effect], event |-> <<"delivered", proc[r].effect>>]
           q == Begin(proc[r], InstanceOf[proc[r].effect], <<"delivered", proc[r].effect>>)
<1>3. q \in ProcState /\ q.pc = "read" /\ q.job = job /\ job \in Dispatch
      /\ SameWork(proc[r], q) /\ ~q.terminal
  BY <1>1, <1>2, BeginFields
<1>4. proc' = [proc EXCEPT ![r] = q]
  OBVIOUS
<1> HIDE DEF q
<1>5. RuntimeSound(q)
  BY <1>1, <1>3 DEF RuntimeSound, SameWork
<1> QED BY <1>1, <1>3, <1>4, <1>5, OneMoves

\* A pass begins with the due instances; it has claimed nothing
LEMMA StartPassStep ==
  ASSUME TypeOK, ProcSound, NEW r \in Runtimes, StartPass(r)
  PROVE  /\ proc' \in [Procs -> ProcState] /\ ProcSound'
         /\ proc'[r].pc = "timers" /\ proc'[r].effect = None /\ proc'[r].age = 0
         /\ \A o \in Procs : o # r => proc'[o] = proc[o]
<1>1. PICK S \in DueLists :
        proc' = [proc EXCEPT ![r] = [IdleProc EXCEPT !.pc = "timers",
                                       !.due = {<<i, instance[i].wake>> : i \in S}]]
  BY DEF StartPass
<1> DEFINE due == {<<i, instance[i].wake>> : i \in S}
           q == [IdleProc EXCEPT !.pc = "timers", !.due = due]
<1>2. due \in SUBSET (Instances \X Instants)
  <2>1. \A i \in S : i \in Instances /\ instance[i].wake # None
    BY DEF DueLists, IsDue
  <2>2. \A i \in S : instance[i].wake \in Instants
    BY <2>1 DEF TypeOK, InstanceRow
  <2> QED BY <2>1, <2>2
<1> HIDE DEF due
<1>3. q \in ProcState /\ q.pc = "timers" /\ q.effect = None /\ q.age = 0 /\ ~q.terminal
  <2>1. IdleProc \in ProcState /\ IdleProc.effect = None /\ IdleProc.age = 0 /\ ~IdleProc.terminal
    BY IdleSound DEF RuntimeSound
  <2> QED BY <1>2, <2>1 DEF ProcState, ProcPc
<1>4. proc' = [proc EXCEPT ![r] = q]
  BY <1>1 DEF due
<1> HIDE DEF q
<1>5. RuntimeSound(q)
  BY <1>3 DEF RuntimeSound
<1> QED BY <1>3, <1>4, <1>5, OneMoves, Separate

LEMMA NextTimerStep ==
  ASSUME TypeOK, ProcSound, NEW r \in Runtimes, NextTimer(r)
  PROVE  /\ proc' \in [Procs -> ProcState] /\ ProcSound'
         /\ proc'[r].pc = "read" /\ SameWork(proc[r], proc'[r])
         /\ \A o \in Procs : o # r => proc'[o] = proc[o]
<1>1. PICK d \in proc[r].due :
        proc' = [proc EXCEPT ![r] = Begin([proc[r] EXCEPT !.due = @ \ {d}], d[1], <<"timer", d[2]>>)]
  BY DEF NextTimer
<1>2. r \in Procs /\ r \notin Features /\ proc[r] \in ProcState /\ proc[r].pc = "timers"
      /\ proc[r].effect = None /\ ~proc[r].terminal
  BY Separate DEF NextTimer, TypeOK, ProcSound, RuntimeSound
<1>3. d[1] \in Instances /\ d[2] \in Instants
  BY <1>2 DEF ProcState
<1>4. <<"timer", d[2]>> \in EventId
  BY <1>3, EventTypes
<1> DEFINE s == [proc[r] EXCEPT !.due = @ \ {d}]
           q == Begin(s, d[1], <<"timer", d[2]>>)
<1>5. s \in ProcState /\ SameWork(proc[r], s) /\ ~s.terminal
  BY <1>2 DEF ProcState, SameWork
<1> HIDE DEF s
<1>6. q \in ProcState /\ q.pc = "read" /\ q.job = [inst |-> d[1], event |-> <<"timer", d[2]>>]
      /\ q.job \in Dispatch /\ SameWork(s, q) /\ ~q.terminal
  BY <1>3, <1>4, <1>5, BeginFields
<1>7. proc' = [proc EXCEPT ![r] = q]
  BY <1>1 DEF s
<1> HIDE DEF q
<1>8. q.effect = None /\ q.job.event[1] = "timer" /\ SameWork(proc[r], q)
  BY <1>2, <1>5, <1>6 DEF SameWork
<1>9. RuntimeSound(q)
  BY <1>6, <1>8 DEF RuntimeSound
<1> QED BY <1>2, <1>6, <1>7, <1>8, <1>9, OneMoves

\* What a claim writes, and the pass it is written for
LEMMA ClaimStep ==
  ASSUME TypeOK, ProcSound, NEW r \in Runtimes, ClaimEffect(r)
  PROVE  /\ proc' \in [Procs -> ProcState] /\ ProcSound'
         /\ effect' \in [Effects -> EffectRow]
         /\ proc[r].pc = "timers" /\ proc[r].effect = None
         /\ proc'[r].pc \in {"handle", "release"} /\ proc'[r].age = proc[r].age
         /\ proc'[r].effect \in Effects /\ Claimable(r, proc'[r].effect)
         /\ effect'[proc'[r].effect].status = "dispatching"
         /\ effect'[proc'[r].effect].owner = r
         /\ effect'[proc'[r].effect].attempt = Counted(effect[proc'[r].effect].attempt)
         /\ effect'[proc'[r].effect].lease = LeaseLen - proc[r].age
         /\ proc'[r].attempt = Counted(effect[proc'[r].effect].attempt)
         /\ \A d \in Effects : d # proc'[r].effect => effect'[d] = effect[d]
         /\ \A o \in Procs : o # r => proc'[o] = proc[o]
<1>1. PICK e \in Effects :
        /\ Claimable(r, e)
        /\ effect' = [effect EXCEPT ![e].status = "dispatching", ![e].owner = r,
                        ![e].attempt = Counted(@), ![e].lease = LeaseLen - proc[r].age]
        /\ proc' = [proc EXCEPT ![r].pc = IF e \in Handled THEN "handle" ELSE "release",
                        ![r].effect = e, ![r].attempt = Counted(effect[e].attempt)]
  BY DEF ClaimEffect
<1>2. r \in Procs /\ r \notin Features /\ proc[r] \in ProcState /\ proc[r].pc = "timers"
      /\ proc[r].effect = None /\ ~proc[r].terminal
  BY Separate DEF ClaimEffect, TypeOK, ProcSound, RuntimeSound
<1>3. Counted(effect[e].attempt) \in Nat /\ LeaseLen - proc[r].age \in Int
  BY <1>2, WorkflowAssumption DEF Counted, TypeOK, EffectRow, ProcState
<1> DEFINE n == Counted(effect[e].attempt)
           lease == LeaseLen - proc[r].age
           pc == IF e \in Handled THEN "handle" ELSE "release"
           row == [effect[e] EXCEPT !.status = "dispatching", !.owner = r, !.attempt = n, !.lease = lease]
           q == [proc[r] EXCEPT !.pc = pc, !.effect = e, !.attempt = n]
<1>4. pc \in ProcPc /\ pc \in {"handle", "release"} /\ (pc = "release" => e \notin Handled)
  BY DEF ProcPc
<1>5. effect' = [effect EXCEPT ![e] = row] /\ proc' = [proc EXCEPT ![r] = q]
  BY <1>1, <1>2 DEF TypeOK, EffectRow
<1> HIDE DEF n, lease, pc
<1>6. row \in EffectRow /\ row.status = "dispatching" /\ row.owner = r /\ row.attempt = n
      /\ row.lease = lease
  BY <1>3 DEF TypeOK, EffectRow, n, lease
<1>7. q \in ProcState /\ q.pc = pc /\ q.effect = e /\ q.attempt = n /\ q.age = proc[r].age /\ ~q.terminal
  BY <1>2, <1>3, <1>4 DEF ProcState, n
<1> HIDE DEF row, q
<1>8. RuntimeSound(q)
  BY <1>4, <1>7 DEF RuntimeSound
<1>9. proc' \in [Procs -> ProcState] /\ ProcSound' /\ proc'[r] = q
      /\ \A o \in Procs : o # r => proc'[o] = proc[o]
  BY <1>2, <1>5, <1>7, <1>8, OneMoves
<1>10. effect' \in [Effects -> EffectRow] /\ effect'[e] = row
       /\ \A d \in Effects : d # e => effect'[d] = effect[d]
  BY <1>5, <1>6 DEF TypeOK
<1> QED BY <1>1, <1>2, <1>4, <1>6, <1>7, <1>9, <1>10 DEF n, lease

\* settleWorkflowEffect and releaseWorkflowEffect: the row of the claim the pass owns is
\* freed, and the pass is over
LEMMA FreeStep ==
  ASSUME TypeOK, ProcSound, NEW r \in Runtimes, Settle(r) \/ Release(r)
  PROVE  /\ proc' \in [Procs -> ProcState] /\ ProcSound'
         /\ effect' \in [Effects -> EffectRow]
         /\ proc[r].effect \in Effects /\ Owns(r)
         /\ \/ proc[r].pc = "settle" /\ effect'[proc[r].effect].status = "delivered"
            \/ proc[r].pc = "release" /\ proc[r].terminal /\ effect'[proc[r].effect].status = "failed"
            \/ proc[r].pc = "release" /\ ~proc[r].terminal /\ effect'[proc[r].effect].status = "pending"
         /\ effect'[proc[r].effect].attempt = effect[proc[r].effect].attempt
         /\ effect'[proc[r].effect].owner = None
         /\ \A d \in Effects : d # proc[r].effect => effect'[d] = effect[d]
         /\ proc'[r] = IdleProc /\ proc'[r].pc = "idle" /\ proc'[r].effect = None
         /\ \A o \in Procs : o # r => proc'[o] = proc[o]
<1>1. Owns(r) /\ proc' = [proc EXCEPT ![r] = IdleProc] /\ r \in Procs
  BY Separate DEF Settle, Release
<1>2. proc[r].effect \in Effects
  BY DEF Settle, Release, ProcSound, RuntimeSound
<1>3. 0 \in Int /\ RetryDelay - proc[r].age \in Int
  BY <1>1, WorkflowAssumption DEF TypeOK, ProcState
<1>4. \/ proc[r].pc = "settle" /\ Freed(proc[r].effect, "delivered", 0)
      \/ proc[r].pc = "release" /\ proc[r].terminal /\ Freed(proc[r].effect, "failed", 0)
      \/ proc[r].pc = "release" /\ ~proc[r].terminal
         /\ Freed(proc[r].effect, "pending", RetryDelay - proc[r].age)
  BY DEF Settle, Release
<1> QED BY <1>1, <1>2, <1>3, <1>4, FreedRows, EndStep

\* Steps of a pass
LEMMA PassCore ==
  ASSUME Core, NEW r \in Runtimes, PassStep(r) \/ Crash(r)
  PROVE  Core'
<1>1. TypeOK /\ ProcSound /\ r \in Procs /\ spent \in Spent /\ effect \in [Effects -> EffectRow]
  BY CoreTypes, Separate
<1>2. CASE StartPass(r) \/ NextTimer(r)
  <2>1. UNCHANGED <<now, instance, events, effect, spent>>
    BY <1>2 DEF StartPass, NextTimer, tables
  <2> QED BY <1>1, <1>2, <2>1, StartPassStep, NextTimerStep, Moved
<1>3. CASE ClaimEffect(r)
  <2>1. UNCHANGED <<now, instance, events, spent>>
    BY <1>3 DEF ClaimEffect
  <2> QED BY <1>1, <1>3, <2>1, ClaimStep, Moved
<1>4. CASE PassThrows(r) \/ ClaimNoEffect(r) \/ ReleaseThrows(r) \/ Crash(r)
  <2>1. proc' = [proc EXCEPT ![r] = IdleProc] /\ UNCHANGED <<now, instance, events, effect>>
    BY <1>4 DEF PassThrows, ClaimNoEffect, ReleaseThrows, Crash, tables
  <2>2. spent' \in Spent
    BY <1>1, <1>4, SpentTypes DEF PassThrows, ClaimNoEffect, ReleaseThrows, Crash
  <2> QED BY <1>1, <2>1, <2>2, EndStep, Moved
<1>5. CASE HandlerEnds(r)
  <2>1. UNCHANGED <<now, instance, events, effect, spent>> /\ proc[r].pc = "handle"
    BY <1>5 DEF HandlerEnds, tables
  <2>2. CASE proc' = [proc EXCEPT ![r] = Caught(proc[r])]
    BY <1>1, <2>1, <2>2, CaughtStep, Moved
  <2>3. CASE proc' = [proc EXCEPT ![r] = Begin(proc[r], InstanceOf[proc[r].effect], <<"delivered", proc[r].effect>>)]
    BY <1>1, <2>1, <2>3, DeliverStep, Moved
  <2> QED BY <1>5, <2>2, <2>3 DEF HandlerEnds
<1>6. CASE SettleThrows(r)
  <2>1. UNCHANGED <<now, instance, events, effect>> /\ proc[r].pc = "settle"
        /\ proc' = [proc EXCEPT ![r] = Caught(proc[r])]
    BY <1>6 DEF SettleThrows, tables
  <2>2. spent' \in Spent
    BY <1>1, <1>6, SpentTypes DEF SettleThrows
  <2> QED BY <1>1, <2>1, <2>2, CaughtStep, Moved
<1>7. CASE Settle(r) \/ Release(r)
  <2>1. UNCHANGED <<now, instance, events, spent>>
    BY <1>7 DEF Settle, Release
  <2> QED BY <1>1, <1>7, <2>1, FreeStep, Moved
<1> QED BY <1>2, <1>3, <1>4, <1>5, <1>6, <1>7 DEF PassStep

LEMMA AgoType ==
  ASSUME NEW t \in Int, NEW floor \in Int
  PROVE  Ago(t, floor) \in Int /\ Ago(t, floor) >= t /\ (t >= floor => Ago(t, floor) = t)
BY DEF Ago

\* Time passes for passes and leases, and for nothing else
LEMMA TickStep ==
  ASSUME TypeOK, ProcSound, Tick
  PROVE  /\ now' \in Instants /\ proc' \in [Procs -> ProcState] /\ ProcSound'
         /\ effect' \in [Effects -> EffectRow] /\ spent' \in Spent
         /\ \A p \in Procs : /\ proc'[p].pc = proc[p].pc /\ proc'[p].job = proc[p].job
                             /\ proc'[p].rev = proc[p].rev /\ proc'[p].folded = proc[p].folded
                             /\ proc'[p].effect = proc[p].effect /\ proc'[p].attempt = proc[p].attempt
                             /\ proc'[p].terminal = proc[p].terminal
                             /\ proc'[p].age = IF proc[p].pc = "idle" THEN proc[p].age ELSE proc[p].age + 1
         /\ \A e \in Effects : /\ effect'[e].status = effect[e].status
                               /\ effect'[e].owner = effect[e].owner
                               /\ effect'[e].attempt = effect[e].attempt
                               /\ e \in Open => effect'[e].lease = Ago(effect[e].lease - 1, -MaxAge)
         /\ Cardinality(Overruns) \in Nat /\ IsFiniteSet(Overruns)
         /\ spent' = [spent EXCEPT !.overruns = @ + Cardinality(Overruns)]
<1>1. now' \in Instants
  <2>1. now' = (IF now < Horizon THEN now + 1 ELSE now) /\ now \in 0 .. Horizon /\ Horizon \in Nat
    BY WorkflowAssumption DEF Tick, TypeOK, Instants
  <2> QED BY <2>1 DEF Instants
<1>2. IsFiniteSet(Overruns) /\ Cardinality(Overruns) \in Nat
  <2>1. Overruns \in SUBSET Runtimes
    BY DEF Overruns
  <2> QED BY <2>1, WorkflowAssumption, FS_Subset, FS_CardinalityType
<1>3. spent' = [spent EXCEPT !.overruns = @ + Cardinality(Overruns)]
  BY DEF Tick
<1>4. spent' \in Spent
  BY <1>2, <1>3, SpentTypes
<1>5. ASSUME NEW p \in Procs
      PROVE  /\ proc'[p] \in ProcState
             /\ proc'[p].pc = proc[p].pc /\ proc'[p].job = proc[p].job
             /\ proc'[p].rev = proc[p].rev /\ proc'[p].folded = proc[p].folded
             /\ proc'[p].effect = proc[p].effect /\ proc'[p].attempt = proc[p].attempt
             /\ proc'[p].terminal = proc[p].terminal
             /\ proc'[p].age = IF proc[p].pc = "idle" THEN proc[p].age ELSE proc[p].age + 1
  <2>1. proc[p] \in ProcState
    BY DEF TypeOK
  <2>2. CASE proc[p].pc = "idle"
    <3>1. proc'[p] = proc[p]
      BY <2>2 DEF Tick
    <3> QED BY <2>1, <2>2, <3>1
  <2>3. CASE proc[p].pc # "idle"
    <3>1. proc'[p] = [proc[p] EXCEPT !.age = @ + 1]
      BY <2>3 DEF Tick
    <3>2. proc[p].age + 1 \in Nat
      BY <2>1 DEF ProcState
    <3> QED BY <2>1, <2>3, <3>1, <3>2 DEF ProcState
  <2> QED BY <2>2, <2>3
<1>6. proc' \in [Procs -> ProcState]
  BY <1>5 DEF Tick
<1>7. ProcSound'
  <2>1. \A r \in Runtimes : RuntimeSound(proc'[r])
    BY <1>5, Separate DEF ProcSound, RuntimeSound
  <2>2. \A f \in Features : FeatureSound(proc'[f])
    BY <1>5 DEF ProcSound, FeatureSound, Procs
  <2> QED BY <2>1, <2>2 DEF ProcSound
<1>8. ASSUME NEW e \in Effects
      PROVE  /\ effect'[e] \in EffectRow
             /\ effect'[e].status = effect[e].status
             /\ effect'[e].owner = effect[e].owner
             /\ effect'[e].attempt = effect[e].attempt
             /\ e \in Open => effect'[e].lease = Ago(effect[e].lease - 1, -MaxAge)
  <2>1. effect[e] \in EffectRow
    BY DEF TypeOK
  <2>2. CASE e \in Open
    <3> DEFINE avail == Ago(effect[e].avail - 1, -MaxAge - Cardinality(Newer(e)))
               lease == Ago(effect[e].lease - 1, -MaxAge)
    <3>1. avail \in Int /\ lease \in Int
      <4>1. Newer(e) \in SUBSET Effects
        BY DEF Newer, Open
      <4>2. Cardinality(Newer(e)) \in Nat
        BY <4>1, WorkflowAssumption, FS_Subset, FS_CardinalityType
      <4>3. effect[e].avail - 1 \in Int /\ effect[e].lease - 1 \in Int /\ MaxAge \in Nat
        BY <2>1, WorkflowAssumption DEF EffectRow
      <4>4. -MaxAge - Cardinality(Newer(e)) \in Int /\ -MaxAge \in Int
        BY <4>2, <4>3
      <4> QED BY <4>3, <4>4, AgoType
    <3>2. effect'[e] = [effect[e] EXCEPT !.avail = avail, !.lease = lease]
      BY <2>2 DEF Tick
    <3> HIDE DEF avail, lease
    <3>3. effect'[e] \in EffectRow /\ effect'[e].status = effect[e].status
          /\ effect'[e].owner = effect[e].owner /\ effect'[e].attempt = effect[e].attempt
          /\ effect'[e].lease = lease
      BY <2>1, <3>1, <3>2 DEF EffectRow
    <3> QED BY <3>3 DEF lease
  <2>3. CASE e \notin Open
    <3>1. effect'[e] = effect[e]
      BY <2>3 DEF Tick
    <3> QED BY <2>1, <2>3, <3>1
  <2> QED BY <2>2, <2>3
<1>9. effect' \in [Effects -> EffectRow]
  BY <1>8 DEF Tick
<1> QED BY <1>1, <1>2, <1>3, <1>4, <1>5, <1>6, <1>7, <1>8, <1>9

LEMMA TickCore ==
  ASSUME Core, Tick
  PROVE  Core'
<1>1. TypeOK /\ ProcSound /\ UNCHANGED <<instance, events>>
  BY CoreTypes DEF Tick
<1>2. TypeOK'
  BY <1>1, TickStep DEF TypeOK, Spent
<1>3. FoldsSound' /\ \A p \in Procs : ReadSound(p)'
  BY <1>1, TickStep DEF Core, FoldsSound, ReadSound
<1> QED BY <1>1, <1>2, <1>3, TickStep DEF Core

LEMMA InitCore == Init => Core
<1> SUFFICES ASSUME Init PROVE Core
  OBVIOUS
<1>1. TypeOK
  <2>1. instance \in [Instances -> InstanceRow] /\ events \in [Instances -> SUBSET EventId]
    BY DEF Init, InstanceRow
  <2>2. effect \in [Effects -> EffectRow]
    BY DEF Init, EffectRow
  <2>3. proc \in [Procs -> ProcState] /\ now \in Instants
    BY IdleSound, WorkflowAssumption DEF Init, Instants
  <2>4. spent \in [overruns : Nat, faults : Nat, crashes : Nat, rejects : Nat]
    BY DEF Init
  <2> QED BY <2>1, <2>2, <2>3, <2>4 DEF TypeOK
<1>2. \A p \in Procs : proc[p] = IdleProc
  BY DEF Init
<1>3. ProcSound
  BY <1>2, IdleSound, Separate DEF ProcSound, Procs
<1>4. FoldsSound
  BY FS_EmptySet DEF Init, FoldsSound
<1> QED BY <1>1, <1>2, <1>3, <1>4, IdleSound DEF Core, ReadSound

LEMMA CoreKept == Core /\ [Next]_vars => Core'
<1> SUFFICES ASSUME Core, [Next]_vars PROVE Core'
  OBVIOUS
<1>1. CASE UNCHANGED vars
  BY <1>1 DEF vars, tables, Core, TypeOK, ProcSound, FoldsSound, ReadSound
<1> QED BY <1>1, StartCore, FeatureCore, ReadCore, ReadThrowsCore, WriteCore, WriteFailsCore,
           PassCore, TickCore DEF Next, DispatchStep

\* No update is lost: whatever the reducers decide and however the dispatches of runtimes
\* and features interleave, the state of an instance is the fold of exactly its recorded
\* events (dispatch in workflow/runtime.ts over advanceWorkflow in storage/sqlite.ts).
THEOREM UpdatesAreKept == Spec => []WorkflowInvariant
<1>1. Core => WorkflowInvariant
  BY DEF Core, FoldsSound, WorkflowInvariant, NoLostUpdate
<1> QED BY <1>1, InitCore, CoreKept, PTL DEF Spec

-----------------------------------------------------------------------------
(* The kinds of step, as the claims of effects see them *)

Reported(kind, e) == <<kind, e>> \in events[InstanceOf[e]]

\* The verdict the pass of r is about to write into the row of its effect
Verdict(r, kind) ==
  IF kind = "delivered" THEN proc[r].pc = "settle" ELSE proc[r].pc = "release" /\ proc[r].terminal

InsertsOnly ==
  \A e \in Effects :
    \/ effect'[e] = effect[e]
    \/ /\ effect[e].status = "absent" /\ effect'[e].status = "pending"
       /\ effect'[e].attempt = effect[e].attempt

\* p (if any) moves, no claim is made or given up, and new verdicts come from p's dispatch
Calm(p) ==
  /\ \A o \in Procs : o # p => proc'[o] = proc[o]
  /\ InsertsOnly
  /\ spent'.overruns = spent.overruns /\ spent'.crashes = spent.crashes
  /\ spent'.faults = spent.faults \/ spent'.faults = spent.faults + 1
  /\ p \in Runtimes =>
       \/ proc'[p] = proc[p]
       \/ /\ SameWork(proc[p], proc'[p]) /\ proc[p].pc # "idle" /\ proc'[p].pc # "idle"
          /\ proc[p].pc # "release"
          /\ proc[p].pc = "settle" => ~Owns(p) \/ spent'.faults = spent.faults + 1
          /\ proc'[p].pc = "settle" => Reported("delivered", proc[p].effect)'
       \/ proc[p].effect = None /\ proc'[p].effect = None /\ proc'[p].age = 0
  /\ \A e \in Effects, kind \in {"delivered", "failed"} :
       /\ Reported(kind, e) => Reported(kind, e)'
       /\ Reported(kind, e)' =>
            \/ Reported(kind, e)
            \/ p \in Runtimes /\ proc[p].effect = e /\ SameWork(proc[p], proc'[p]) /\ Verdict(p, kind)'

\* The pass of r ends without a word to the store
Lost(r) ==
  /\ r \in Runtimes /\ proc'[r] = IdleProc
  /\ \A o \in Procs : o # r => proc'[o] = proc[o]
  /\ UNCHANGED <<effect, events>>
  /\ spent'.overruns = spent.overruns
  /\ \/ spent' = spent /\ proc[r].pc = "release" /\ ~Owns(r)
     \/ spent'.faults = spent.faults + 1 /\ spent'.crashes = spent.crashes
     \/ spent'.faults = spent.faults /\ spent'.crashes = spent.crashes + 1

LEMMA FaultSpent ==
  ASSUME TypeOK, Fault
  PROVE  spent'.faults = spent.faults + 1 /\ spent'.overruns = spent.overruns
         /\ spent'.crashes = spent.crashes
BY DEF Fault, TypeOK

\* Steps that record no event
LEMMA NothingReported ==
  ASSUME UNCHANGED events
  PROVE  \A e \in Effects, kind \in {"delivered", "failed"} : Reported(kind, e)' = Reported(kind, e)
BY DEF Reported

LEMMA StartIsCalm ==
  ASSUME Core, NEW i \in Instances, Start(i)
  PROVE  Calm(None)
<1>1. PICK S \in SUBSET NewEffects(i) : Inserted(S)
  BY DEF Start
<1>2. \A e \in S : effect[e].status = "absent"
  BY DEF NewEffects
<1>3. InsertsOnly
  BY <1>1, <1>2, CoreTypes, InsertedRows DEF InsertsOnly, NewEffects
<1>4. UNCHANGED <<events, proc, spent>>
  BY DEF Start
<1> QED BY <1>3, <1>4, NothingReported, NoEffect DEF Calm

LEMMA WriteIsCalm ==
  ASSUME Core, NEW p \in Procs, Write(p)
  PROVE  Calm(p)
<1> DEFINE i == proc[p].job.inst
           event == proc[p].job.event
<1>1. TypeOK /\ ProcSound /\ proc[p].pc = "write" /\ proc[p] \in ProcState /\ Returned(p)
      /\ UNCHANGED spent
  BY CoreTypes DEF Write
<1>2. i \in Instances /\ event \in EventId
  BY <1>1, JobTypes
<1>3. /\ InsertsOnly /\ event \in events'[i] /\ \A j \in Instances : events[j] \subseteq events'[j]
      /\ \A j \in Instances : \A id \in events'[j] : id \in events[j] \/ (j = i /\ id = event)
  <2>1. CASE event \in events[i] /\ UNCHANGED tables
    BY <2>1 DEF tables, InsertsOnly
  <2>2. CASE Advance(i, event, proc[p].rev, proc[p].folded)
    <3>1. proc[p].rev \in Nat /\ proc[p].folded \in SUBSET EventId
      BY <1>1 DEF ProcState
    <3> HIDE DEF i, event
    <3>2. /\ events'[i] = events[i] \cup {event}
          /\ \A j \in Instances : j # i => events'[j] = events[j]
          /\ \E S \in SUBSET NewEffects(i) : Inserted(S)
      BY <1>1, <1>2, <2>2, <3>1, AdvanceTables
    <3>3. InsertsOnly
      <4>1. PICK S \in SUBSET NewEffects(i) : Inserted(S)
        BY <3>2
      <4>2. \A e \in S : effect[e].status = "absent"
        BY DEF NewEffects
      <4> QED BY <1>1, <4>1, <4>2, InsertedRows DEF InsertsOnly, NewEffects
    <3> QED BY <1>2, <3>2, <3>3
  <2> QED BY <2>1, <2>2 DEF Write
<1> HIDE DEF i, event
<1>4. \A o \in Procs : o # p => proc'[o] = proc[o]
  BY <1>1, ReturnedStep
<1>5. ASSUME NEW e \in Effects, NEW kind \in {"delivered", "failed"}
      PROVE  /\ Reported(kind, e) => Reported(kind, e)'
             /\ Reported(kind, e)' =>
                  Reported(kind, e) \/ (InstanceOf[e] = i /\ event = <<kind, e>>)
  BY <1>3, WorkflowAssumption DEF Reported
<1>6. CASE p \in Runtimes
  <2>1. /\ SameWork(proc[p], proc'[p]) /\ proc'[p].pc # "idle"
        /\ \/ Kind(p) = "timer" /\ proc'[p].pc = "timers"
           \/ Kind(p) = "delivered" /\ proc'[p].pc = "settle"
           \/ Kind(p) = "failed" /\ proc'[p].pc = "release" /\ proc'[p].terminal
    BY <1>1, <1>6, ReturnedStep
  <2>2. \/ Kind(p) = "timer"
        \/ /\ Kind(p) \in {"delivered", "failed"} /\ proc[p].effect \in Effects
           /\ i = InstanceOf[proc[p].effect] /\ event = <<Kind(p), proc[p].effect>>
    BY <1>1, <1>6, JobOfRuntime DEF i, event
  <2>3. proc'[p].pc = "settle" => Reported("delivered", proc[p].effect)'
    <3> SUFFICES ASSUME proc'[p].pc = "settle" PROVE Reported("delivered", proc[p].effect)'
      OBVIOUS
    <3>1. Kind(p) = "delivered"
      BY <2>1
    <3>2. i = InstanceOf[proc[p].effect] /\ event = <<"delivered", proc[p].effect>>
      BY <2>2, <3>1
    <3>3. proc'[p].effect = proc[p].effect
      BY <2>1 DEF SameWork
    <3> QED BY <1>3, <3>2, <3>3 DEF Reported
  <2>4. ASSUME NEW e \in Effects, NEW kind \in {"delivered", "failed"}, event = <<kind, e>>
        PROVE  proc[p].effect = e /\ Verdict(p, kind)'
    <3>1. Kind(p) = kind
      BY <2>4 DEF Kind, event
    <3> QED BY <2>1, <2>2, <2>4, <3>1 DEF Verdict
  <2> QED BY <1>1, <1>3, <1>4, <1>5, <1>6, <2>1, <2>3, <2>4 DEF Calm
<1>7. CASE p \in Features
  <2>1. Kind(p) = "external" /\ p \notin Runtimes
    BY <1>1, <1>7, JobOfFeature, Separate
  <2>2. \A e \in Effects, kind \in {"delivered", "failed"} : event # <<kind, e>>
    BY <2>1 DEF Kind, event
  <2> QED BY <1>1, <1>3, <1>4, <1>5, <2>1, <2>2 DEF Calm
<1> QED BY <1>6, <1>7 DEF Procs

\* A step of p that changes no table
LEMMA QuietIsCalm ==
  ASSUME Core, NEW p \in Procs, UNCHANGED <<effect, events>>,
         \A o \in Procs : o # p => proc'[o] = proc[o],
         spent'.overruns = spent.overruns, spent'.crashes = spent.crashes,
         spent'.faults = spent.faults \/ spent'.faults = spent.faults + 1,
         p \in Runtimes =>
           \/ /\ SameWork(proc[p], proc'[p]) /\ proc[p].pc \notin {"idle", "release", "settle"}
              /\ proc'[p].pc \notin {"idle", "settle"}
           \/ /\ SameWork(proc[p], proc'[p]) /\ proc[p].pc = "settle"
              /\ proc'[p].pc \notin {"idle", "settle"}
              /\ ~Owns(p) \/ spent'.faults = spent.faults + 1
           \/ proc[p].effect = None /\ proc'[p].effect = None /\ proc'[p].age = 0
  PROVE  Calm(p)
<1>1. InsertsOnly
  BY DEF InsertsOnly
<1> QED BY <1>1, NothingReported DEF Calm

LEMMA ThrewIsCalm ==
  ASSUME Core, NEW p \in Procs, proc[p].pc \in {"read", "write"}, Threw(p),
         UNCHANGED <<effect, events>>, spent'.overruns = spent.overruns, spent'.crashes = spent.crashes,
         spent'.faults = spent.faults \/ spent'.faults = spent.faults + 1
  PROVE  Calm(p)
<1>1. TypeOK /\ ProcSound
  BY CoreTypes
<1>2. \A o \in Procs : o # p => proc'[o] = proc[o]
  BY <1>1, ThrewStep
<1>3. p \in Runtimes =>
        \/ /\ SameWork(proc[p], proc'[p]) /\ proc[p].pc \notin {"idle", "release", "settle"}
           /\ proc'[p].pc \notin {"idle", "settle"}
        \/ proc[p].effect = None /\ proc'[p].effect = None /\ proc'[p].age = 0
  BY <1>1, ThrewStep, JobOfRuntime, IdleSound
<1> QED BY <1>2, <1>3, QuietIsCalm

LEMMA DispatchIsCalm ==
  ASSUME Core, NEW p \in Procs, DispatchStep(p)
  PROVE  Calm(p)
<1>1. TypeOK /\ ProcSound
  BY CoreTypes
<1>2. CASE Read(p)
  <2>1. UNCHANGED <<effect, events, spent>> /\ proc[p].pc = "read"
    BY <1>2 DEF Read, tables
  <2> QED BY <1>2, <2>1, ReadCore, QuietIsCalm
<1>3. CASE ReadThrows(p)
  <2>1. UNCHANGED <<effect, events>> /\ proc[p].pc = "read" /\ Threw(p)
    BY <1>3 DEF ReadThrows, tables
  <2>2. spent' = spent \/ Fault \/ spent' = [spent EXCEPT !.rejects = @ + 1]
    BY <1>3 DEF ReadThrows
  <2>3. spent'.overruns = spent.overruns /\ spent'.crashes = spent.crashes
        /\ (spent'.faults = spent.faults \/ spent'.faults = spent.faults + 1)
    BY <1>1, <2>2, FaultSpent DEF TypeOK
  <2> QED BY <2>1, <2>3, ThrewIsCalm
<1>4. CASE Write(p)
  BY <1>4, WriteIsCalm
<1>5. CASE WriteFails(p)
  <2>1. UNCHANGED <<effect, events>> /\ proc[p].pc = "write"
    BY <1>5 DEF WriteFails, tables
  <2>2. spent' = spent \/ Fault
    BY <1>5 DEF WriteFails
  <2>3. spent'.overruns = spent.overruns /\ spent'.crashes = spent.crashes
        /\ (spent'.faults = spent.faults \/ spent'.faults = spent.faults + 1)
    BY <1>1, <2>2, FaultSpent
  <2>4. CASE Threw(p)
    BY <2>1, <2>3, <2>4, ThrewIsCalm
  <2>5. CASE /\ proc[p].tries < 2
             /\ proc' = [proc EXCEPT ![p].pc = "read", ![p].tries = @ + 1, ![p].rev = 0, ![p].folded = {}]
    BY <1>1, <2>1, <2>3, <2>5, RetryStep, QuietIsCalm
  <2> QED BY <1>5, <2>4, <2>5 DEF WriteFails
<1> QED BY <1>2, <1>3, <1>4, <1>5 DEF DispatchStep

LEMMA PassIsCalm ==
  ASSUME Core, NEW r \in Runtimes,
         StartPass(r) \/ PassThrows(r) \/ NextTimer(r) \/ ClaimNoEffect(r) \/ HandlerEnds(r) \/ SettleThrows(r)
  PROVE  Calm(r)
<1>1. TypeOK /\ ProcSound /\ r \in Procs /\ RuntimeSound(proc[r])
  BY CoreTypes, Separate DEF ProcSound
<1>2. UNCHANGED <<effect, events>>
  BY DEF StartPass, PassThrows, NextTimer, ClaimNoEffect, HandlerEnds, SettleThrows, tables
<1>3. spent' = spent \/ Fault
  BY DEF StartPass, PassThrows, NextTimer, ClaimNoEffect, HandlerEnds, SettleThrows
<1>4. spent'.overruns = spent.overruns /\ spent'.crashes = spent.crashes
      /\ (spent'.faults = spent.faults \/ spent'.faults = spent.faults + 1)
  BY <1>1, <1>3, FaultSpent
<1>5. CASE StartPass(r)
  <2>1. proc[r].effect = None
    BY <1>1, <1>5 DEF StartPass, RuntimeSound
  <2> QED BY <1>1, <1>2, <1>4, <1>5, <2>1, StartPassStep, QuietIsCalm
<1>6. CASE PassThrows(r) \/ ClaimNoEffect(r)
  <2>1. proc[r].effect = None /\ proc' = [proc EXCEPT ![r] = IdleProc]
    BY <1>1, <1>6 DEF PassThrows, ClaimNoEffect, RuntimeSound
  <2> QED BY <1>1, <1>2, <1>4, <2>1, EndStep, IdleSound, QuietIsCalm
<1>7. CASE NextTimer(r)
  <2>1. proc[r].pc = "timers"
    BY <1>7 DEF NextTimer
  <2> QED BY <1>1, <1>2, <1>4, <1>7, <2>1, NextTimerStep, QuietIsCalm
<1>8. CASE HandlerEnds(r)
  <2>1. proc[r].pc = "handle"
    BY <1>8 DEF HandlerEnds
  <2>2. CASE proc' = [proc EXCEPT ![r] = Caught(proc[r])]
    BY <1>1, <1>2, <1>4, <2>1, <2>2, CaughtStep, QuietIsCalm
  <2>3. CASE proc' = [proc EXCEPT ![r] = Begin(proc[r], InstanceOf[proc[r].effect], <<"delivered", proc[r].effect>>)]
    BY <1>1, <1>2, <1>4, <2>1, <2>3, DeliverStep, QuietIsCalm
  <2> QED BY <1>8, <2>2, <2>3 DEF HandlerEnds
<1>9. CASE SettleThrows(r)
  <2>1. proc[r].pc = "settle" /\ proc' = [proc EXCEPT ![r] = Caught(proc[r])]
        /\ (~Owns(r) \/ Fault)
    BY <1>9 DEF SettleThrows
  <2>2. ~Owns(r) \/ spent'.faults = spent.faults + 1
    BY <1>1, <2>1, FaultSpent
  <2>3. /\ SameWork(proc[r], proc'[r]) /\ proc'[r].pc \in {"read", "release"}
        /\ \A o \in Procs : o # r => proc'[o] = proc[o]
    BY <1>1, <2>1, CaughtStep
  <2> QED BY <1>1, <1>2, <1>4, <2>1, <2>2, <2>3, QuietIsCalm
<1> QED BY <1>5, <1>6, <1>7, <1>8, <1>9

LEMMA EndIsLost ==
  ASSUME Core, NEW r \in Runtimes, ReleaseThrows(r) \/ Crash(r)
  PROVE  Lost(r)
<1>1. TypeOK /\ ProcSound /\ proc' = [proc EXCEPT ![r] = IdleProc] /\ UNCHANGED <<effect, events>>
  BY CoreTypes DEF ReleaseThrows, Crash, tables
<1>2. proc'[r] = IdleProc /\ \A o \in Procs : o # r => proc'[o] = proc[o]
  BY <1>1, EndStep
<1>3. CASE ReleaseThrows(r)
  BY <1>1, <1>2, <1>3, FaultSpent DEF ReleaseThrows, Lost
<1>4. CASE Crash(r)
  <2>1. spent'.faults = spent.faults /\ spent'.crashes = spent.crashes + 1
        /\ spent'.overruns = spent.overruns
    BY <1>1, <1>4 DEF Crash, TypeOK
  <2> QED BY <1>1, <1>2, <2>1 DEF Lost
<1> QED BY <1>3, <1>4

LEMMA StepKinds ==
  ASSUME Core, [Next]_vars
  PROVE  \/ \E p \in Procs \cup {None} : Calm(p)
         \/ \E r \in Runtimes : Lost(r) \/ ClaimEffect(r) \/ Settle(r) \/ Release(r)
         \/ Tick
<1>1. CASE UNCHANGED vars
  <2>1. UNCHANGED <<effect, events, proc, spent>>
    BY <1>1 DEF vars, tables
  <2>2. Calm(None)
    BY <2>1, NothingReported, NoEffect DEF Calm, InsertsOnly
  <2> QED BY <2>2
<1>2. ASSUME NEW f \in Features, NEW x \in External, FeatureDispatch(f, x)
      PROVE  Calm(f)
  <2>1. UNCHANGED <<effect, events, spent>> /\ f \in Procs /\ f \notin Runtimes
    BY <1>2, Separate DEF FeatureDispatch, tables, Procs
  <2> QED BY <1>2, <2>1, FeatureCore, QuietIsCalm
<1> QED BY <1>1, <1>2, StartIsCalm, DispatchIsCalm, PassIsCalm, EndIsLost, Separate
        DEF Next, PassStep, Procs

-----------------------------------------------------------------------------
(* Deliveries are reported, and rows belong to the claims they record *)

Told ==
  /\ DeliveryReported
  /\ \A r \in Runtimes : proc[r].pc = "settle" => Reported("delivered", proc[r].effect)

\* A row that names r as its owner counts the claim r is working on
AttemptsAgree ==
  \A r \in Runtimes : proc[r].effect \in Effects =>
    LET row == effect[proc[r].effect] IN
    row.status = "dispatching" /\ row.owner = r => row.attempt = proc[r].attempt

ClaimsSound == Core /\ Told /\ AttemptsAgree

LEMMA InsertedFields ==
  ASSUME TypeOK, InsertsOnly, NEW e \in Effects
  PROVE  \/ effect'[e] = effect[e]
         \/ /\ effect[e].status = "absent" /\ effect'[e].status = "pending"
            /\ effect'[e].attempt = effect[e].attempt
<1>1. effect[e] \in EffectRow
  BY DEF TypeOK
<1> QED BY <1>1 DEF InsertsOnly, EffectRow

LEMMA ToldKept ==
  ASSUME Core, Core', Told, [Next]_vars
  PROVE  Told'
<1>1. TypeOK /\ ProcSound
  BY CoreTypes
<1>2. ASSUME NEW p \in Procs \cup {None}, Calm(p) PROVE Told'
  <2>1. DeliveryReported'
    <3> SUFFICES ASSUME NEW e \in Effects, effect'[e].status = "delivered"
                 PROVE  <<"delivered", e>> \in events'[InstanceOf[e]]
      BY DEF DeliveryReported
    <3>1. effect[e].status = "delivered"
      BY <1>1, <1>2, InsertedFields DEF Calm
    <3>2. Reported("delivered", e)
      BY <3>1 DEF Told, DeliveryReported, Reported
    <3>3. Reported("delivered", e)'
      BY <1>2, <3>2 DEF Calm
    <3> QED BY <3>3 DEF Reported
  <2>2. ASSUME NEW r \in Runtimes, proc'[r].pc = "settle"
        PROVE  Reported("delivered", proc[r].effect)'
    <3>1. proc'[r].effect \in Effects /\ r \in Procs
      BY <2>2, Separate DEF Core, ProcSound, RuntimeSound
    <3>2. CASE proc'[r] = proc[r]
      <4>1. Reported("delivered", proc[r].effect) /\ proc[r].effect \in Effects
        BY <2>2, <3>1, <3>2 DEF Told
      <4>2. \A e \in Effects : Reported("delivered", e) => Reported("delivered", e)'
        BY <1>2 DEF Calm
      <4> QED BY <3>2, <4>1, <4>2 DEF Reported
    <3>3. CASE proc'[r] # proc[r]
      <4>1. r = p
        BY <1>2, <3>1, <3>3 DEF Calm
      <4>2. proc'[r].effect # None
        BY <3>1, NoEffect
      <4> QED BY <1>2, <2>2, <3>3, <4>1, <4>2 DEF Calm
    <3> QED BY <3>2, <3>3
  <2> QED BY <2>1, <2>2 DEF Told
<1>3. ASSUME NEW r \in Runtimes, Lost(r) PROVE Told'
  BY <1>3, IdleSound, Separate DEF Lost, Told, DeliveryReported, Reported
<1>4. ASSUME NEW r \in Runtimes, ClaimEffect(r) PROVE Told'
  <2>1. UNCHANGED events
    BY <1>4 DEF ClaimEffect
  <2>2. DeliveryReported'
    BY <1>1, <1>4, <2>1, ClaimStep DEF Told, DeliveryReported
  <2>3. \A q \in Runtimes : proc'[q].pc = "settle" => proc'[q] = proc[q]
    BY <1>1, <1>4, ClaimStep, Separate
  <2> QED BY <2>1, <2>2, <2>3 DEF Told, Reported
<1>5. ASSUME NEW r \in Runtimes, Settle(r) \/ Release(r) PROVE Told'
  <2>1. UNCHANGED events
    BY <1>5 DEF Settle, Release
  <2>2. ASSUME NEW e \in Effects, effect'[e].status = "delivered"
        PROVE  <<"delivered", e>> \in events[InstanceOf[e]]
    <3>1. CASE e # proc[r].effect
      BY <1>1, <1>5, <2>2, <3>1, FreeStep DEF Told, DeliveryReported
    <3>2. CASE e = proc[r].effect
      <4>1. proc[r].pc = "settle"
        BY <1>1, <1>5, <2>2, <3>2, FreeStep
      <4> QED BY <3>2, <4>1 DEF Told, Reported
    <3> QED BY <3>1, <3>2
  <2>3. \A q \in Runtimes : proc'[q].pc = "settle" => proc'[q] = proc[q]
    BY <1>1, <1>5, FreeStep, Separate
  <2> QED BY <2>1, <2>2, <2>3 DEF Told, DeliveryReported, Reported
<1>6. CASE Tick
  <2>1. UNCHANGED events
    BY <1>6 DEF Tick
  <2> QED BY <1>1, <1>6, <2>1, TickStep, Separate DEF Told, DeliveryReported, Reported
<1> QED BY <1>2, <1>3, <1>4, <1>5, <1>6, StepKinds

LEMMA AttemptsKept ==
  ASSUME Core, Core', AttemptsAgree, [Next]_vars
  PROVE  AttemptsAgree'
<1> SUFFICES ASSUME NEW r \in Runtimes, proc'[r].effect \in Effects,
                    effect'[proc'[r].effect].status = "dispatching",
                    effect'[proc'[r].effect].owner = r
             PROVE  effect'[proc'[r].effect].attempt = proc'[r].attempt
  BY DEF AttemptsAgree
<1> DEFINE e == proc'[r].effect
<1>1. TypeOK /\ ProcSound /\ r \in Procs /\ e \in Effects /\ e # None /\ r # None
  BY CoreTypes, Separate, NoEffect
<1>2. ASSUME NEW p \in Procs \cup {None}, Calm(p) PROVE effect'[e].attempt = proc'[r].attempt
  <2>1. effect'[e] = effect[e]
    BY <1>1, <1>2, InsertedFields DEF Calm
  <2>2. proc[r].effect = e /\ proc[r].attempt = proc'[r].attempt
    BY <1>1, <1>2 DEF Calm, SameWork
  <2> QED BY <2>1, <2>2 DEF AttemptsAgree
<1>3. ASSUME NEW q \in Runtimes, Lost(q) PROVE effect'[e].attempt = proc'[r].attempt
  <2>1. proc'[r] = proc[r] /\ effect' = effect
    BY <1>1, <1>3, IdleSound DEF Lost
  <2> QED BY <2>1 DEF AttemptsAgree
<1>4. ASSUME NEW q \in Runtimes, ClaimEffect(q) PROVE effect'[e].attempt = proc'[r].attempt
  <2>1. CASE r = q
    BY <1>1, <1>4, <2>1, ClaimStep
  <2>2. CASE r # q
    <3>1. proc'[r] = proc[r] /\ e # proc'[q].effect
      BY <1>1, <1>4, <2>2, ClaimStep
    <3>2. effect'[e] = effect[e]
      BY <1>1, <1>4, <3>1, ClaimStep
    <3> QED BY <3>1, <3>2 DEF AttemptsAgree
  <2> QED BY <2>1, <2>2
<1>5. ASSUME NEW q \in Runtimes, Settle(q) \/ Release(q) PROVE effect'[e].attempt = proc'[r].attempt
  <2>1. r # q /\ e # proc[q].effect
    BY <1>1, <1>5, FreeStep
  <2>2. proc'[r] = proc[r] /\ effect'[e] = effect[e]
    BY <1>1, <1>5, <2>1, FreeStep
  <2> QED BY <2>2 DEF AttemptsAgree
<1>6. CASE Tick
  BY <1>1, <1>6, TickStep DEF AttemptsAgree
<1> QED BY <1>2, <1>3, <1>4, <1>5, <1>6, StepKinds

LEMMA InitClaims == Init => ClaimsSound
<1> SUFFICES ASSUME Init PROVE ClaimsSound
  OBVIOUS
<1>1. \A r \in Runtimes : proc[r] = IdleProc
  BY Separate DEF Init
<1>2. Told
  BY <1>1, IdleSound DEF Told, DeliveryReported, Init
<1>3. AttemptsAgree
  BY <1>1, IdleSound, NoEffect DEF AttemptsAgree
<1> QED BY <1>2, <1>3, InitCore DEF ClaimsSound

LEMMA ClaimsKept == ClaimsSound /\ [Next]_vars => ClaimsSound'
BY CoreKept, ToldKept, AttemptsKept DEF ClaimsSound

\* An effect is settled as delivered only after its workflow was told: runOnce dispatches
\* effect.delivered before settleWorkflowEffect.
THEOREM DeliveriesAreReported == Spec => []DeliveryReported
<1>1. ClaimsSound => DeliveryReported
  BY DEF ClaimsSound, Told
<1> QED BY <1>1, InitClaims, ClaimsKept, PTL DEF Spec

LEMMA LeavingIsCommit ==
  ASSUME ClaimsSound, [Next]_vars, NEW e \in Effects,
         effect[e].status = "dispatching", effect'[e].status # "dispatching"
  PROVE  \E r \in Runtimes : Claimant(r, e) /\ proc'[r] # proc[r]
<1>1. TypeOK /\ ProcSound /\ Core /\ AttemptsAgree
  BY CoreTypes DEF ClaimsSound
<1>2. ASSUME NEW p \in Procs \cup {None}, Calm(p) PROVE FALSE
  BY <1>1, <1>2, InsertedFields DEF Calm
<1>3. ASSUME NEW r \in Runtimes, Lost(r) PROVE FALSE
  BY <1>3 DEF Lost
<1>4. ASSUME NEW r \in Runtimes, ClaimEffect(r) PROVE FALSE
  BY <1>1, <1>4, ClaimStep
<1>5. ASSUME NEW r \in Runtimes, Settle(r) \/ Release(r)
      PROVE  Claimant(r, e) /\ proc'[r] # proc[r]
  <2>1. proc[r].effect = e /\ Owns(r) /\ proc[r].pc # "idle" /\ proc'[r].pc = "idle"
    BY <1>1, <1>5, FreeStep
  <2>2. effect[e].owner = r /\ effect[e].attempt = proc[r].attempt
    BY <1>1, <2>1 DEF Owns, AttemptsAgree
  <2> QED BY <2>1, <2>2 DEF Claimant
<1>6. CASE Tick
  BY <1>1, <1>6, TickStep
<1> QED BY <1>1, <1>2, <1>3, <1>4, <1>5, <1>6, StepKinds

\* Only the pass whose claim a row records settles or releases it, although the WHERE
\* clauses of settleWorkflowEffect and releaseWorkflowEffect compare the owner alone: a
\* runtime runs one pass at a time.
THEOREM ClaimantCommits == Spec => CommitByClaimant
<1>1. ClaimsSound /\ [Next]_vars =>
        [\A e \in Effects :
           effect[e].status = "dispatching" /\ effect'[e].status # "dispatching" =>
             \E r \in Runtimes : Claimant(r, e) /\ proc'[r] # proc[r]]_vars
  BY LeavingIsCommit
<1> QED BY <1>1, InitClaims, ClaimsKept, PTL DEF Spec, CommitByClaimant

-----------------------------------------------------------------------------
(* The cap on attempts *)

Disturbances == spent.faults + spent.crashes + spent.overruns

\* Passes so late that a claim of theirs comes with an expired lease
Dawdlers ==
  {r \in Runtimes : proc[r].pc # "idle" /\ proc[r].effect = None /\ proc[r].age >= LeaseLen}

\* A claim that another runtime may take over: its lease is gone, or its pass
Adrift(e) ==
  /\ effect[e].status = "dispatching"
  /\ effect[e].lease <= 0 \/ \A r \in Runtimes : ~Claimant(r, e)

\* Every attempt beyond the cap, every claim adrift and every dawdling pass has been paid
\* for by a fault, a crash or a lease that ran out.
CapSound ==
  /\ Cardinality(Dawdlers) <= Disturbances
  /\ \A e \in Handled :
       /\ effect[e].status \in {"absent", "pending"} => effect[e].attempt < MaxAttempts
       /\ effect[e].attempt + Cardinality(Dawdlers) <= MaxAttempts + Disturbances
       /\ Adrift(e) => effect[e].attempt + Cardinality(Dawdlers) < MaxAttempts + Disturbances

LEMMA Counts ==
  ASSUME Core
  PROVE  /\ IsFiniteSet(Dawdlers) /\ Cardinality(Dawdlers) \in Nat
         /\ spent.faults \in Nat /\ spent.crashes \in Nat /\ spent.overruns \in Nat
         /\ Disturbances \in Nat
         /\ MaxAttempts \in Nat \ {0} /\ MaxClaims \in Nat /\ LeaseLen \in Nat \ {0} /\ MaxAge \in Nat
         /\ \A e \in Effects : effect[e].attempt \in Nat /\ effect[e].lease \in Int
         /\ \A p \in Procs : proc[p].age \in Nat
         /\ Handled \subseteq Effects
<1>1. IsFiniteSet(Runtimes) /\ Dawdlers \subseteq Runtimes
  BY WorkflowAssumption DEF Dawdlers
<1>2. IsFiniteSet(Dawdlers) /\ Cardinality(Dawdlers) \in Nat
  BY <1>1, FS_Subset, FS_CardinalityType
<1>3. spent \in Spent /\ effect \in [Effects -> EffectRow] /\ \A p \in Procs : proc[p] \in ProcState
  BY CoreTypes
<1>4. spent.faults \in Nat /\ spent.crashes \in Nat /\ spent.overruns \in Nat
  BY <1>3 DEF Spent
<1>5. Disturbances \in Nat
  BY <1>4 DEF Disturbances
<1>6. \A e \in Effects : effect[e].attempt \in Nat /\ effect[e].lease \in Int
  BY <1>3 DEF EffectRow
<1>7. \A p \in Procs : proc[p].age \in Nat
  BY <1>3 DEF ProcState
<1> QED BY <1>2, <1>4, <1>5, <1>6, <1>7, WorkflowAssumption

LEMMA FewerDawdlers ==
  ASSUME Core, Core', Dawdlers' \subseteq Dawdlers
  PROVE  Cardinality(Dawdlers') <= Cardinality(Dawdlers)
BY Counts, FS_Subset

\* A claim is neither made nor given up by a process that goes on with its work
LEMMA CalmClaims ==
  ASSUME Core, NEW p \in Procs \cup {None}, Calm(p), NEW e \in Effects, NEW r \in Runtimes
  PROVE  Claimant(r, e)' = Claimant(r, e)
<1>1. e # None /\ r \in Procs /\ None \notin Runtimes /\ TypeOK
  BY NoEffect, Separate, CoreTypes
<1>2. CASE effect'[e] = effect[e]
  <2>1. CASE proc'[r] = proc[r]
    BY <1>2, <2>1 DEF Claimant
  <2>2. CASE proc'[r] # proc[r]
    <3>1. r = p
      BY <1>1, <2>2 DEF Calm
    <3>2. \/ SameWork(proc[r], proc'[r])
          \/ proc[r].effect = None /\ proc'[r].effect = None
      BY <2>2, <3>1 DEF Calm
    <3>3. CASE SameWork(proc[r], proc'[r])
      BY <1>2, <3>3 DEF Claimant, SameWork
    <3>4. CASE proc[r].effect = None /\ proc'[r].effect = None
      BY <1>1, <3>4 DEF Claimant
    <3> QED BY <3>2, <3>3, <3>4
  <2> QED BY <2>1, <2>2
<1>3. CASE effect'[e] # effect[e]
  <2>1. effect[e].status = "absent" /\ effect'[e].status = "pending"
    BY <1>1, <1>3, InsertedFields DEF Calm
  <2>2. ~Claimant(r, e) /\ ~Claimant(r, e)'
    BY <2>1 DEF Claimant
  <2>3. Claimant(r, e) \in BOOLEAN /\ Claimant(r, e)' \in BOOLEAN
    BY DEF Claimant
  <2> QED BY <2>2, <2>3
<1> QED BY <1>2, <1>3

LEMMA CalmCap ==
  ASSUME Core, Core', CapSound, NEW p \in Procs \cup {None}, Calm(p)
  PROVE  CapSound'
<1>1. Dawdlers' \subseteq Dawdlers
  <2> SUFFICES ASSUME NEW r \in Runtimes, proc'[r].pc # "idle", proc'[r].effect = None,
                      proc'[r].age >= LeaseLen
               PROVE  proc[r].pc # "idle" /\ proc[r].effect = None /\ proc[r].age >= LeaseLen
    BY DEF Dawdlers
  <2>1. CASE proc'[r] = proc[r]
    BY <2>1
  <2>2. CASE proc'[r] # proc[r]
    <3>1. r = p /\ proc'[r].age # 0
      BY <2>2, Separate, Counts DEF Calm
    <3>2. SameWork(proc[r], proc'[r]) /\ proc[r].pc # "idle"
      BY <2>2, <3>1 DEF Calm
    <3> QED BY <3>2 DEF SameWork
  <2> QED BY <2>1, <2>2
<1>2. Cardinality(Dawdlers') <= Cardinality(Dawdlers)
  BY <1>1, FewerDawdlers
<1>3. Disturbances' >= Disturbances
  BY Counts DEF Calm, Disturbances
<1>4. Cardinality(Dawdlers') \in Nat /\ Disturbances' \in Nat
  <2>1. IsFiniteSet(Dawdlers')
    BY <1>1, Counts, FS_Subset
  <2>2. Cardinality(Dawdlers') \in Nat
    BY <2>1, FS_CardinalityType
  <2>3. Disturbances' \in Nat
    BY Counts DEF Calm, Disturbances
  <2> QED BY <2>2, <2>3
<1>5. ASSUME NEW e \in Handled
      PROVE  /\ effect'[e].status \in {"absent", "pending"} => effect'[e].attempt < MaxAttempts
             /\ effect'[e].attempt = effect[e].attempt
             /\ Adrift(e)' => Adrift(e)
  <2>1. e \in Effects /\ TypeOK
    BY Counts, CoreTypes
  <2>2. CASE effect'[e] = effect[e]
    <3>1. \A r \in Runtimes : Claimant(r, e)' = Claimant(r, e)
      BY <2>1, CalmClaims
    <3> QED BY <2>2, <3>1 DEF CapSound, Adrift
  <2>3. CASE effect'[e] # effect[e]
    <3>1. effect[e].status = "absent" /\ effect'[e].status = "pending"
          /\ effect'[e].attempt = effect[e].attempt
      BY <2>1, <2>3, InsertedFields DEF Calm
    <3> QED BY <3>1 DEF CapSound, Adrift
  <2> QED BY <2>2, <2>3
<1>6. Cardinality(Dawdlers)' <= Disturbances'
  BY <1>2, <1>3, <1>4, Counts DEF CapSound
<1>7. ASSUME NEW e \in Handled
      PROVE  /\ effect'[e].attempt + Cardinality(Dawdlers') <= MaxAttempts + Disturbances'
             /\ Adrift(e)' => effect'[e].attempt + Cardinality(Dawdlers') < MaxAttempts + Disturbances'
  BY <1>2, <1>3, <1>4, <1>5, Counts DEF CapSound
<1> QED BY <1>5, <1>6, <1>7 DEF CapSound

\* Nothing that the cap reads about a state depends on more than these counts
LEMMA CountsNext ==
  ASSUME Core, Core'
  PROVE  Cardinality(Dawdlers') \in Nat /\ Disturbances' \in Nat
<1>1. IsFiniteSet(Runtimes) /\ Dawdlers' \subseteq Runtimes
  BY WorkflowAssumption DEF Dawdlers
<1>2. Cardinality(Dawdlers') \in Nat
  BY <1>1, FS_Subset, FS_CardinalityType
<1>3. spent' \in Spent
  BY DEF Core, TypeOK, Spent
<1>4. Disturbances' \in Nat
  BY <1>3 DEF Spent, Disturbances
<1> QED BY <1>2, <1>4

\* A pass that ends: nobody starts to dawdle
LEMMA EndedDawdlers ==
  ASSUME Core, Core', NEW r \in Runtimes, proc'[r] = IdleProc,
         \A o \in Procs : o # r => proc'[o] = proc[o]
  PROVE  Cardinality(Dawdlers') <= Cardinality(Dawdlers)
<1>1. Dawdlers' \subseteq Dawdlers
  BY IdleSound, Separate DEF Dawdlers
<1> QED BY <1>1, FewerDawdlers

LEMMA LostCap ==
  ASSUME Core, Core', CapSound, NEW r \in Runtimes, Lost(r)
  PROVE  CapSound'
<1>1. Cardinality(Dawdlers') <= Cardinality(Dawdlers)
  BY EndedDawdlers DEF Lost
<1>2. effect' = effect
  BY DEF Lost
<1>3. CASE spent' = spent /\ proc[r].pc = "release" /\ ~Owns(r)
  <2>1. Disturbances' = Disturbances
    BY <1>3 DEF Disturbances
  <2>2. \A e \in Effects, q \in Runtimes : Claimant(q, e) => Claimant(q, e)'
    BY <1>2, <1>3, Separate DEF Lost, Claimant, Owns
  <2>3. \A e \in Handled : Adrift(e)' => Adrift(e)
    BY <1>2, <2>2, Counts DEF Adrift
  <2> QED BY <1>1, <1>2, <2>1, <2>3, Counts, CountsNext DEF CapSound
<1>4. CASE ~(spent' = spent /\ proc[r].pc = "release" /\ ~Owns(r))
  <2>1. Disturbances' = Disturbances + 1
    BY <1>4, Counts DEF Lost, Disturbances
  <2> QED BY <1>1, <1>2, <2>1, Counts, CountsNext DEF CapSound
<1> QED BY <1>3, <1>4

LEMMA FreeCap ==
  ASSUME ClaimsSound, Core', CapSound, NEW r \in Runtimes, Settle(r) \/ Release(r)
  PROVE  CapSound'
<1>1. Core /\ TypeOK /\ ProcSound /\ AttemptsAgree
  BY CoreTypes DEF ClaimsSound
<1>2. Cardinality(Dawdlers') <= Cardinality(Dawdlers)
  BY <1>1, FreeStep, EndedDawdlers
<1>3. Disturbances' = Disturbances
  BY DEF Settle, Release, Disturbances
<1>4. \A e \in Effects : effect'[e].attempt = effect[e].attempt
  BY <1>1, FreeStep
<1>5. \A e \in Handled : Adrift(e)' => Adrift(e)
  <2> SUFFICES ASSUME NEW e \in Handled, Adrift(e)' PROVE Adrift(e)
    OBVIOUS
  <2>1. e \in Effects /\ effect'[e].status = "dispatching"
    BY <1>1, Counts DEF Adrift
  <2>2. e # proc[r].effect /\ effect'[e] = effect[e]
    BY <1>1, <2>1, FreeStep
  <2>3. \A q \in Runtimes : Claimant(q, e) => Claimant(q, e)'
    BY <1>1, <2>2, FreeStep, Separate DEF Claimant
  <2> QED BY <2>2, <2>3 DEF Adrift
<1>6. ASSUME NEW e \in Handled, effect'[e].status \in {"absent", "pending"}
      PROVE  effect'[e].attempt < MaxAttempts
  <2>1. e \in Effects
    BY <1>1, Counts
  <2>2. CASE e # proc[r].effect
    BY <1>1, <1>6, <2>1, <2>2, FreeStep DEF CapSound
  <2>3. CASE e = proc[r].effect
    <3>1. proc[r].pc = "release" /\ ~proc[r].terminal /\ Owns(r)
      BY <1>1, <1>6, <2>3, FreeStep
    <3>2. proc[r].attempt < MaxAttempts
      BY <1>1, <2>3, <3>1 DEF ProcSound, RuntimeSound
    <3>3. effect[e].attempt = proc[r].attempt
      BY <1>1, <2>1, <2>3, <3>1 DEF Owns, AttemptsAgree
    <3> QED BY <1>4, <2>1, <3>2, <3>3
  <2> QED BY <2>2, <2>3
<1> QED BY <1>1, <1>2, <1>3, <1>4, <1>5, <1>6, Counts, CountsNext DEF CapSound

\* A claim by a pass in time is under its lease; a dawdler's is adrift, and the dawdler gone
LEMMA ClaimCap ==
  ASSUME Core, Core', CapSound, NEW r \in Runtimes, ClaimEffect(r)
  PROVE  CapSound'
<1>0. TypeOK /\ ProcSound /\ r \in Procs /\ proc'[r].effect \in Effects
  BY CoreTypes, Separate, ClaimStep
<1> PICK e \in Effects : proc'[r].effect = e
  BY <1>0
<1>1. TypeOK /\ ProcSound /\ r \in Procs /\ e \in Effects /\ e # None
  BY <1>0, NoEffect
<1>2. Disturbances' = Disturbances
  BY DEF ClaimEffect, Disturbances
<1>3. Dawdlers' = Dawdlers \ {r}
  BY <1>1, ClaimStep, Separate DEF Dawdlers
<1>4. effect[e].status \in {"pending", "dispatching"}
      /\ (effect[e].status = "dispatching" => effect[e].lease <= 0)
  <2>1. Claimable(r, e) /\ proc[r].age \in Nat /\ effect[e].lease \in Int
    BY <1>1, ClaimStep, Counts
  <2> QED BY <2>1 DEF Claimable
<1>5. effect'[e].attempt = Counted(effect[e].attempt) /\ effect'[e].attempt <= effect[e].attempt + 1
  <2>1. effect'[e].attempt = Counted(effect[e].attempt)
    BY <1>1, ClaimStep
  <2> QED BY <1>1, <2>1, Counts DEF Counted
<1>6. \A d \in Effects : d # e => effect'[d] = effect[d] /\ (Adrift(d)' => Adrift(d))
  <2> SUFFICES ASSUME NEW d \in Effects, d # e
               PROVE  effect'[d] = effect[d] /\ (Adrift(d)' => Adrift(d))
    OBVIOUS
  <2>1. effect'[d] = effect[d] /\ d # None
    BY <1>1, ClaimStep, NoEffect
  <2>2. \A q \in Runtimes : Claimant(q, d) => Claimant(q, d)'
    <3> SUFFICES ASSUME NEW q \in Runtimes, Claimant(q, d) PROVE Claimant(q, d)'
      OBVIOUS
    <3>1. q # r
      BY <1>1, <2>1, ClaimStep DEF Claimant
    <3>2. proc'[q] = proc[q]
      BY <1>1, <3>1, ClaimStep, Separate
    <3> QED BY <2>1, <3>2 DEF Claimant
  <2> QED BY <2>1, <2>2 DEF Adrift
<1>7. Cardinality(Dawdlers') = IF r \in Dawdlers THEN Cardinality(Dawdlers) - 1
                                                  ELSE Cardinality(Dawdlers)
  BY <1>3, Counts, FS_RemoveElement
<1>8. r \notin Dawdlers => ~Adrift(e)'
  <2> SUFFICES ASSUME r \notin Dawdlers PROVE ~Adrift(e)'
    OBVIOUS
  <2>1. proc[r].age < LeaseLen
    BY <1>1, ClaimStep, Counts DEF Dawdlers
  <2>2. effect'[e].lease = LeaseLen - proc[r].age /\ proc[r].age \in Nat
    BY <1>1, ClaimStep, Counts
  <2>3. effect'[e].lease > 0
    BY <2>1, <2>2, Counts
  <2>4. /\ effect'[e].status = "dispatching" /\ effect'[e].owner = r
        /\ effect'[e].attempt = proc'[r].attempt /\ proc'[r].effect = e
    BY <1>1, ClaimStep
  <2>5. Claimant(r, e)'
    BY <2>4 DEF Claimant
  <2>6. effect'[e].lease \in Int
    BY <2>2, Counts
  <2> QED BY <2>3, <2>5, <2>6 DEF Adrift
<1>9. effect'[e].status = "dispatching"
  BY <1>1, ClaimStep
<1>10. effect'[e].attempt \in Nat
  BY <1>1, <1>5, Counts DEF Counted
<1> DEFINE n == Cardinality(Dawdlers)
           m == Cardinality(Dawdlers')
           k == Disturbances
<1>11. /\ n \in Nat /\ m \in Nat /\ k \in Nat /\ n <= k /\ m <= n
       /\ m = IF r \in Dawdlers THEN n - 1 ELSE n
  BY <1>7, Counts, CountsNext DEF CapSound
<1>12. ASSUME e \in Handled
       PROVE  /\ effect'[e].attempt + m <= MaxAttempts + k
              /\ Adrift(e)' => effect'[e].attempt + m < MaxAttempts + k
  <2>1. CASE effect[e].status = "pending"
    <3>1. effect[e].attempt < MaxAttempts
      BY <1>12, <2>1 DEF CapSound
    <3> HIDE DEF n, m, k
    <3>2. effect'[e].attempt <= MaxAttempts
      BY <1>1, <1>5, <1>10, <3>1, Counts
    <3>3. CASE r \in Dawdlers
      BY <1>10, <1>11, <3>2, <3>3, Counts
    <3>4. CASE r \notin Dawdlers
      BY <1>8, <1>10, <1>11, <3>2, <3>4, Counts
    <3> QED BY <3>3, <3>4
  <2>2. CASE effect[e].status = "dispatching"
    <3>1. effect[e].attempt + n < MaxAttempts + k
      BY <1>4, <1>12, <2>2 DEF CapSound, Adrift
    <3> HIDE DEF n, m, k
    <3>2. effect[e].attempt \in Nat
      BY <1>1, Counts
    <3>3. CASE r \in Dawdlers
      BY <1>5, <1>10, <1>11, <3>1, <3>2, <3>3, Counts
    <3>4. CASE r \notin Dawdlers
      BY <1>5, <1>8, <1>10, <1>11, <3>1, <3>2, <3>4, Counts
    <3> QED BY <3>3, <3>4
  <2> QED BY <1>4, <2>1, <2>2
<1>13. ASSUME NEW d \in Handled, d # e
       PROVE  /\ effect'[d].status \in {"absent", "pending"} => effect'[d].attempt < MaxAttempts
              /\ effect'[d].attempt + m <= MaxAttempts + k
              /\ Adrift(d)' => effect'[d].attempt + m < MaxAttempts + k
  <2>1. d \in Effects /\ effect[d].attempt \in Nat
    BY Counts
  <2>2. effect'[d] = effect[d] /\ (Adrift(d)' => Adrift(d))
    BY <1>6, <1>13, <2>1
  <2>3. /\ effect[d].status \in {"absent", "pending"} => effect[d].attempt < MaxAttempts
        /\ effect[d].attempt + n <= MaxAttempts + k
        /\ Adrift(d) => effect[d].attempt + n < MaxAttempts + k
    BY <1>13 DEF CapSound
  <2> HIDE DEF n, m, k
  <2> QED BY <1>11, <2>1, <2>2, <2>3, Counts
<1>14. m <= Disturbances'
  BY <1>2, <1>11
<1>15. ASSUME NEW d \in Handled
       PROVE  /\ effect'[d].status \in {"absent", "pending"} => effect'[d].attempt < MaxAttempts
              /\ effect'[d].attempt + m <= MaxAttempts + Disturbances'
              /\ Adrift(d)' => effect'[d].attempt + m < MaxAttempts + Disturbances'
  <2>1. CASE d = e
    <3>1. e \in Handled
      BY <2>1, <1>15
    <3>2. effect'[d].status \notin {"absent", "pending"}
      BY <1>9, <2>1
    <3> QED BY <1>2, <1>12, <2>1, <3>1, <3>2
  <2>2. CASE d # e
    BY <1>2, <1>13, <2>2
  <2> QED BY <2>1, <2>2
<1> QED BY <1>14, <1>15 DEF CapSound

\* The passes that begin to dawdle and the leases that expire are charged as overruns
LEMMA TickCap ==
  ASSUME Core, Core', CapSound, Tick
  PROVE  CapSound'
<1> DEFINE new == Dawdlers' \ Dawdlers
           n == Cardinality(Dawdlers)
           m == Cardinality(Dawdlers')
           k == Disturbances
           o == Cardinality(Overruns)
<1>1. TypeOK /\ ProcSound
  BY CoreTypes
<1>2. ASSUME NEW r \in new
      PROVE  r \in Runtimes /\ r \in Overruns /\ proc[r].effect = None
  <2>1. r \in Runtimes /\ proc'[r].pc # "idle" /\ proc'[r].effect = None
        /\ proc'[r].age >= LeaseLen /\ r \notin Dawdlers
    BY <1>2 DEF Dawdlers
  <2>2. proc[r].pc # "idle" /\ proc[r].effect = None /\ proc'[r].age = proc[r].age + 1
        /\ proc[r].age \in Nat
    BY <1>1, <2>1, TickStep, Separate, Counts
  <2>3. ~(proc[r].age >= LeaseLen)
    BY <2>1, <2>2 DEF Dawdlers
  <2>4. proc[r].age + 1 = LeaseLen
    BY <2>1, <2>2, <2>3, Counts
  <2> QED BY <2>1, <2>2, <2>4 DEF Overruns
<1>3. IsFiniteSet(Overruns) /\ o \in Nat /\ new \subseteq Overruns /\ IsFiniteSet(new)
  BY <1>1, <1>2, TickStep, FS_Subset
<1>4. Cardinality(new) \in Nat /\ Cardinality(new) <= o
  BY <1>3, FS_Subset, FS_CardinalityType
<1>5. m <= n + Cardinality(new)
  <2>1. Dawdlers' \subseteq Dawdlers \cup new
    OBVIOUS
  <2>2. /\ IsFiniteSet(Dawdlers \cup new)
        /\ Cardinality(Dawdlers \cup new) = n + Cardinality(new) - Cardinality(Dawdlers \cap new)
    BY <1>3, Counts, FS_Union
  <2>3. Dawdlers \cap new = {}
    OBVIOUS
  <2>4. Cardinality(Dawdlers \cap new) = 0
    BY <2>3, FS_EmptySet
  <2>5. m <= Cardinality(Dawdlers \cup new)
    BY <2>1, <2>2, FS_Subset
  <2> QED BY <1>4, <2>2, <2>4, <2>5, Counts
<1>6. Disturbances' = k + o
  <2>1. /\ spent'.overruns = spent.overruns + o
        /\ spent'.faults = spent.faults /\ spent'.crashes = spent.crashes
    <3>1. spent' = [spent EXCEPT !.overruns = @ + Cardinality(Overruns)]
      BY <1>1, TickStep
    <3> QED BY <1>1, <3>1, CoreTypes DEF Spent
  <2> QED BY <1>3, <2>1, Counts DEF Disturbances
<1>7. m <= k + o
  BY <1>3, <1>4, <1>5, Counts, CountsNext DEF CapSound
<1>8. ASSUME NEW e \in Handled, Adrift(e)', ~Adrift(e)
      PROVE  m + 1 <= n + o
  <2>1. e \in Effects /\ effect[e].lease \in Int /\ effect'[e].status = "dispatching"
    BY <1>8, Counts DEF Adrift
  <2>2. effect[e].status = "dispatching" /\ e \in Open
        /\ effect'[e].lease = Ago(effect[e].lease - 1, -MaxAge)
    <3>1. effect[e].status = "dispatching"
      BY <1>1, <2>1, TickStep
    <3>2. e \in Open
      BY <2>1, <3>1 DEF Open
    <3> QED BY <1>1, <2>1, <3>1, <3>2, TickStep
  <2>3. PICK r \in Runtimes : Claimant(r, e)
    BY <1>8, <2>2 DEF Adrift
  <2>4. effect[e].lease > 0
    BY <1>8, <2>1, <2>2 DEF Adrift
  <2>5. Claimant(r, e)'
    BY <1>1, <2>1, <2>3, TickStep, Separate DEF Claimant
  <2>6. effect'[e].lease <= 0
    BY <1>8, <2>5 DEF Adrift
  <2>7. effect[e].lease = 1
    <3>1. effect[e].lease - 1 \in Int /\ -MaxAge \in Int
      BY <2>1, Counts
    <3>2. Ago(effect[e].lease - 1, -MaxAge) \in Int
          /\ Ago(effect[e].lease - 1, -MaxAge) >= effect[e].lease - 1
      BY <3>1, AgoType
    <3>3. effect'[e].lease \in Int /\ effect'[e].lease >= effect[e].lease - 1
      BY <2>2, <3>2
    <3> QED BY <2>1, <2>4, <2>6, <3>3
  <2>8. r \in Overruns
    BY <2>1, <2>3, <2>7 DEF Overruns
  <2>9. proc[r].effect # None
    BY <2>1, <2>3, NoEffect DEF Claimant
  <2>10. r \notin new
    BY <1>2, <2>9
  <2> HIDE DEF new
  <2>11. new \cup {r} \subseteq Overruns
    BY <1>3, <2>8
  <2>12. Cardinality(new \cup {r}) = Cardinality(new) + 1
    BY <1>3, <2>10, FS_AddElement
  <2>13. Cardinality(new \cup {r}) <= o
    BY <1>3, <2>11, FS_Subset
  <2> QED BY <1>3, <1>4, <1>5, <2>12, <2>13, Counts, CountsNext
<1>9. \A e \in Handled : /\ effect'[e].status = effect[e].status
                         /\ effect'[e].attempt = effect[e].attempt
                         /\ effect[e].attempt \in Nat
  BY <1>1, TickStep, Counts
<1>10. n \in Nat /\ m \in Nat /\ k \in Nat /\ m <= n + o
  BY <1>3, <1>4, <1>5, Counts, CountsNext
<1>11. ASSUME NEW e \in Handled
       PROVE  /\ effect'[e].status \in {"absent", "pending"} => effect'[e].attempt < MaxAttempts
              /\ effect'[e].attempt + m <= MaxAttempts + Disturbances'
              /\ Adrift(e)' => effect'[e].attempt + m < MaxAttempts + Disturbances'
  <2>1. /\ effect[e].status \in {"absent", "pending"} => effect[e].attempt < MaxAttempts
        /\ effect[e].attempt + n <= MaxAttempts + k
        /\ Adrift(e) => effect[e].attempt + n < MaxAttempts + k
    BY <1>11 DEF CapSound
  <2>2. Adrift(e)' /\ ~Adrift(e) => m + 1 <= n + o
    BY <1>8, <1>11
  <2> HIDE DEF new, n, m, k, o
  <2>3. effect[e].attempt + m <= MaxAttempts + k + o
    BY <1>3, <1>9, <1>10, <2>1, Counts
  <2>4. Adrift(e)' => effect[e].attempt + m < MaxAttempts + k + o
    <3>1. CASE Adrift(e)
      BY <1>3, <1>9, <1>10, <2>1, <3>1, Counts
    <3>2. CASE ~Adrift(e) /\ Adrift(e)'
      BY <1>3, <1>9, <1>10, <2>1, <2>2, <3>2, Counts
    <3> QED BY <3>1, <3>2
  <2> QED BY <1>3, <1>6, <1>9, <1>10, <2>1, <2>3, <2>4, Counts
<1>12. m <= Disturbances'
  BY <1>6, <1>7
<1> QED BY <1>11, <1>12 DEF CapSound

LEMMA InitCap == Init => CapSound
<1> SUFFICES ASSUME Init PROVE CapSound
  OBVIOUS
<1>1. Core
  BY InitCore
<1>2. Dawdlers = {}
  BY IdleSound, Separate DEF Dawdlers, Init
<1>3. Cardinality(Dawdlers) = 0
  BY <1>2, FS_EmptySet
<1>4. \A e \in Handled : effect[e].status = "absent" /\ effect[e].attempt = 0
  BY <1>1, Counts DEF Init
<1> QED BY <1>1, <1>3, <1>4, Counts DEF CapSound, Adrift

LEMMA CapKept == ClaimsSound /\ CapSound /\ [Next]_vars => CapSound'
<1> SUFFICES ASSUME ClaimsSound, CapSound, [Next]_vars PROVE CapSound'
  OBVIOUS
<1>1. Core /\ Core'
  BY CoreKept DEF ClaimsSound
<1> QED BY <1>1, StepKinds, CalmCap, LostCap, ClaimCap, FreeCap, TickCap

LEMMA CapHolds == ClaimsSound /\ CapSound => AttemptsCapped
<1> SUFFICES ASSUME ClaimsSound, CapSound, NEW e \in Handled
             PROVE  effect[e].attempt <= MaxAttempts + spent.faults + spent.crashes + spent.overruns
  BY DEF AttemptsCapped
<1>1. effect[e].attempt + Cardinality(Dawdlers) <= MaxAttempts + Disturbances
  BY DEF CapSound
<1> QED BY <1>1, Counts DEF ClaimsSound, Disturbances

\* A handled effect is claimed maxAttempts times and once more for every claim lost to a
\* fault, a crash or an expired lease at most: claimNextWorkflowEffect counts before the
\* handler runs, and runOnce gives up at the last attempt.
THEOREM AttemptsAreCapped == Spec => []AttemptsCapped
<1>1. ClaimsSound /\ CapSound /\ [Next]_vars => (ClaimsSound /\ CapSound)'
  BY ClaimsKept, CapKept
<1>2. Init => ClaimsSound /\ CapSound
  BY InitClaims, InitCap
<1> QED BY <1>1, <1>2, CapHolds, PTL DEF Spec

-----------------------------------------------------------------------------
(* One verdict, undisturbed *)

Undisturbed == spent.faults = 0 /\ spent.crashes = 0 /\ spent.overruns = 0

\* Nobody loses a claim: every pass that works on an effect holds it, under its lease, and
\* a verdict that was reported is kept by the row or by the pass about to commit it.
HoldsClaims ==
  \A r \in Runtimes :
    /\ proc[r].effect \in Effects =>
         Claimant(r, proc[r].effect) /\ effect[proc[r].effect].lease > 0
    /\ proc[r].pc # "idle" /\ proc[r].effect = None => proc[r].age < LeaseLen

VerdictKept ==
  \A e \in Effects, kind \in {"delivered", "failed"} :
    Reported(kind, e) =>
      \/ effect[e].status = kind
      \/ \E r \in Runtimes : Claimant(r, e) /\ Verdict(r, kind)

VerdictSound == Undisturbed => HoldsClaims /\ VerdictKept

LEMMA UndisturbedBefore ==
  ASSUME Core, Undisturbed',
         spent'.faults = spent.faults \/ spent'.faults = spent.faults + 1,
         spent'.crashes = spent.crashes, spent'.overruns = spent.overruns
  PROVE  Undisturbed /\ spent'.faults = spent.faults
BY Counts DEF Undisturbed

\* Two passes cannot hold the same effect
LEMMA OneClaimant ==
  ASSUME NEW e \in Effects, NEW q \in Runtimes, NEW r \in Runtimes, Claimant(q, e), Claimant(r, e)
  PROVE  q = r
BY DEF Claimant

LEMMA CalmVerdict ==
  ASSUME Core, Core', VerdictSound, NEW p \in Procs \cup {None}, Calm(p)
  PROVE  VerdictSound'
<1> SUFFICES ASSUME Undisturbed' PROVE HoldsClaims' /\ VerdictKept'
  BY DEF VerdictSound
<1>1. TypeOK /\ None \notin Effects /\ None \notin Runtimes /\ \A r \in Runtimes : r \in Procs
  BY NoEffect, Separate, CoreTypes
<1>2. Undisturbed /\ spent'.faults = spent.faults /\ HoldsClaims /\ VerdictKept
  BY UndisturbedBefore DEF Calm, VerdictSound
<1>3. \A e \in Effects, r \in Runtimes : Claimant(r, e)' = Claimant(r, e)
  BY CalmClaims
<1>4. \A r \in Runtimes : proc'[r].effect = proc[r].effect
  BY <1>1 DEF Calm, SameWork
<1>5. \A e \in Effects : effect[e].status # "absent" => effect'[e] = effect[e]
  BY <1>1, InsertedFields DEF Calm
<1>6. HoldsClaims'
  <2>1. ASSUME NEW r \in Runtimes, NEW e \in Effects, proc'[r].effect = e
        PROVE  Claimant(r, e)' /\ effect'[e].lease > 0
    <3>1. proc[r].effect = e
      BY <1>4, <2>1
    <3>2. Claimant(r, e) /\ effect[e].lease > 0
      BY <1>2, <3>1 DEF HoldsClaims
    <3>3. effect'[e] = effect[e] /\ Claimant(r, e)'
      BY <1>3, <1>5, <3>2 DEF Claimant
    <3> QED BY <3>2, <3>3
  <2>2. ASSUME NEW r \in Runtimes, proc'[r].pc # "idle", proc'[r].effect = None
        PROVE  proc'[r].age < LeaseLen
    <3>1. CASE proc'[r] = proc[r]
      BY <1>2, <2>2, <3>1 DEF HoldsClaims
    <3>2. CASE proc'[r].age = 0
      BY <3>2, Counts
    <3>3. CASE SameWork(proc[r], proc'[r]) /\ proc[r].pc # "idle"
      BY <1>2, <2>2, <3>3 DEF HoldsClaims, SameWork
    <3> QED BY <1>1, <3>1, <3>2, <3>3 DEF Calm
  <2> QED BY <2>1, <2>2 DEF HoldsClaims, Claimant
<1>7. VerdictKept'
  <2> SUFFICES ASSUME NEW e \in Effects, NEW kind \in {"delivered", "failed"}, Reported(kind, e)'
               PROVE  \/ effect'[e].status = kind
                      \/ \E r \in Runtimes : Claimant(r, e)' /\ Verdict(r, kind)'
    BY DEF VerdictKept
  <2>1. CASE Reported(kind, e)
    <3>1. CASE effect[e].status = kind
      BY <1>5, <3>1
    <3>2. ASSUME NEW r \in Runtimes, Claimant(r, e), Verdict(r, kind)
          PROVE  Claimant(r, e)' /\ Verdict(r, kind)'
      <4>1. Claimant(r, e)' /\ proc[r].effect = e
        BY <1>3, <3>2 DEF Claimant
      <4>2. Owns(r)
        BY <3>2 DEF Claimant, Owns
      <4>3. proc[r].pc \in {"settle", "release"}
        BY <3>2 DEF Verdict
      <4>4. proc'[r] = proc[r]
        <5>1. spent'.faults # spent.faults + 1 /\ proc[r].effect # None
          BY <1>1, <1>2, <4>1, Counts
        <5> QED BY <1>1, <4>2, <4>3, <5>1 DEF Calm
      <4> QED BY <3>2, <4>1, <4>4 DEF Verdict
    <3> QED BY <1>2, <2>1, <3>1, <3>2 DEF VerdictKept
  <2>2. CASE ~Reported(kind, e)
    <3>1. p \in Runtimes /\ proc[p].effect = e /\ Verdict(p, kind)'
      BY <2>2 DEF Calm
    <3>2. Claimant(p, e)
      BY <1>2, <3>1 DEF HoldsClaims
    <3> QED BY <1>3, <3>1, <3>2
  <2> QED BY <2>1, <2>2
<1> QED BY <1>6, <1>7

LEMMA LostVerdict ==
  ASSUME Core, VerdictSound, NEW r \in Runtimes, Lost(r)
  PROVE  ~Undisturbed'
<1> SUFFICES ASSUME Undisturbed' PROVE FALSE
  OBVIOUS
<1>1. spent' = spent /\ proc[r].pc = "release" /\ ~Owns(r)
  BY Counts DEF Lost, Undisturbed
<1>2. Undisturbed /\ HoldsClaims
  BY <1>1 DEF Undisturbed, VerdictSound
<1>3. proc[r].effect \in Effects
  BY <1>1, CoreTypes DEF ProcSound, RuntimeSound
<1>4. Claimant(r, proc[r].effect)
  BY <1>2, <1>3 DEF HoldsClaims
<1> QED BY <1>1, <1>4 DEF Claimant, Owns

\* The claimed effect was held by nobody, so nobody loses it, and no verdict on it is known
LEMMA ClaimVerdict ==
  ASSUME Core, Core', VerdictSound, NEW r \in Runtimes, ClaimEffect(r)
  PROVE  VerdictSound'
<1> SUFFICES ASSUME Undisturbed' PROVE HoldsClaims' /\ VerdictKept'
  BY DEF VerdictSound
<1>0. TypeOK /\ ProcSound /\ r \in Procs /\ proc'[r].effect \in Effects
      /\ \A q \in Runtimes : q \in Procs
  BY CoreTypes, Separate, ClaimStep
<1> PICK e \in Effects : proc'[r].effect = e
  BY <1>0
<1>1. UNCHANGED <<events, spent>>
  BY DEF ClaimEffect
<1>2. HoldsClaims /\ VerdictKept
  BY <1>1 DEF Undisturbed, VerdictSound
<1>3. proc[r].effect = None /\ proc[r].pc = "timers" /\ None \notin Effects /\ None \notin Runtimes
  BY <1>0, ClaimStep, NoEffect
<1>4. \A q \in Runtimes : proc[q].effect # e
  <2> SUFFICES ASSUME NEW q \in Runtimes, proc[q].effect = e PROVE FALSE
    OBVIOUS
  <2>1. effect[e].status = "dispatching" /\ effect[e].lease > 0
    BY <1>2 DEF HoldsClaims, Claimant
  <2>2. Claimable(r, e)
    BY <1>0, ClaimStep
  <2>3. effect[e].lease <= -proc[r].age /\ proc[r].age \in Nat /\ effect[e].lease \in Int
    BY <1>0, <2>1, <2>2, Counts DEF Claimable
  <2> QED BY <2>1, <2>3
<1>5. effect[e].status \in {"pending", "dispatching"}
  <2>1. Claimable(r, e)
    BY <1>0, ClaimStep
  <2> QED BY <2>1 DEF Claimable
<1>6. /\ \A q \in Runtimes : q # r => proc'[q] = proc[q]
      /\ \A d \in Effects : d # e => effect'[d] = effect[d]
  BY <1>0, ClaimStep
<1>7. \A q \in Runtimes, d \in Effects : Claimant(q, d) => Claimant(q, d)' /\ q # r /\ d # e
  BY <1>3, <1>4, <1>6 DEF Claimant
<1>8. HoldsClaims'
  <2>1. Claimant(r, e)' /\ effect'[e].lease > 0
    <3>1. /\ effect'[e].status = "dispatching" /\ effect'[e].owner = r
          /\ effect'[e].attempt = proc'[r].attempt /\ effect'[e].lease = LeaseLen - proc[r].age
      BY <1>0, ClaimStep
    <3>2. proc[r].age < LeaseLen
      BY <1>2, <1>3 DEF HoldsClaims
    <3>3. effect'[e].lease > 0
      BY <1>0, <3>1, <3>2, Counts
    <3> QED BY <3>1, <3>3 DEF Claimant
  <2>2. ASSUME NEW q \in Runtimes, q # r
        PROVE  /\ proc'[q].effect \in Effects =>
                    Claimant(q, proc[q].effect)' /\ effect'[proc'[q].effect].lease > 0
               /\ proc'[q].pc # "idle" /\ proc'[q].effect = None => proc'[q].age < LeaseLen
    <3>1. proc'[q] = proc[q]
      BY <1>6, <2>2
    <3>2. ASSUME NEW d \in Effects, proc[q].effect = d
          PROVE  Claimant(q, d)' /\ effect'[d].lease > 0
      <4>1. Claimant(q, d) /\ effect[d].lease > 0
        BY <1>2, <3>2 DEF HoldsClaims
      <4>2. effect'[d] = effect[d]
        BY <1>6, <1>7, <4>1
      <4> QED BY <1>7, <4>1, <4>2
    <3>3. proc'[q].pc # "idle" /\ proc'[q].effect = None => proc'[q].age < LeaseLen
      BY <1>2, <3>1 DEF HoldsClaims
    <3> QED BY <3>1, <3>2, <3>3 DEF Claimant
  <2>3. proc'[r].effect # None
    BY <1>0, <1>3
  <2> QED BY <2>1, <2>2, <2>3 DEF HoldsClaims, Claimant
<1>9. VerdictKept'
  <2> SUFFICES ASSUME NEW d \in Effects, NEW kind \in {"delivered", "failed"}, Reported(kind, d)'
               PROVE  \/ effect'[d].status = kind
                      \/ \E q \in Runtimes : Claimant(q, d)' /\ Verdict(q, kind)'
    BY DEF VerdictKept
  <2>1. Reported(kind, d)
    BY <1>1 DEF Reported
  <2>2. CASE effect[d].status = kind
    BY <1>5, <1>6, <2>2
  <2>3. ASSUME NEW q \in Runtimes, Claimant(q, d), Verdict(q, kind)
        PROVE  Claimant(q, d)' /\ Verdict(q, kind)'
    <3>1. Claimant(q, d)' /\ proc'[q] = proc[q]
      BY <1>6, <1>7, <2>3
    <3> QED BY <2>3, <3>1 DEF Verdict
  <2> QED BY <1>2, <2>1, <2>2, <2>3 DEF VerdictKept
<1> QED BY <1>8, <1>9

LEMMA FreeVerdict ==
  ASSUME Core, Core', VerdictSound, NEW r \in Runtimes, Settle(r) \/ Release(r)
  PROVE  VerdictSound'
<1> SUFFICES ASSUME Undisturbed' PROVE HoldsClaims' /\ VerdictKept'
  BY DEF VerdictSound
<1>0. TypeOK /\ ProcSound /\ proc[r].effect \in Effects /\ \A q \in Runtimes : q \in Procs
  BY CoreTypes, Separate, FreeStep
<1> PICK e \in Effects : proc[r].effect = e
  BY <1>0
<1>1. UNCHANGED <<events, spent>>
  BY DEF Settle, Release
<1>2. HoldsClaims /\ VerdictKept
  BY <1>1 DEF Undisturbed, VerdictSound
<1>3. /\ \A q \in Runtimes : q # r => proc'[q] = proc[q]
      /\ \A d \in Effects : d # e => effect'[d] = effect[d]
      /\ proc'[r].pc = "idle" /\ proc'[r].effect = None /\ None \notin Effects
  BY <1>0, FreeStep, NoEffect
<1>4. Claimant(r, e)
  BY <1>2 DEF HoldsClaims
<1>5. ASSUME NEW q \in Runtimes, NEW d \in Effects, Claimant(q, d), q # r
      PROVE  d # e /\ Claimant(q, d)' /\ effect'[d] = effect[d] /\ proc'[q] = proc[q]
  BY <1>3, <1>4, <1>5 DEF Claimant
<1>6. HoldsClaims'
  <2>1. ASSUME NEW q \in Runtimes, NEW d \in Effects, proc'[q].effect = d
        PROVE  Claimant(q, d)' /\ effect'[d].lease > 0
    <3>1. q # r /\ proc[q].effect = d
      BY <1>3, <2>1
    <3>2. Claimant(q, d) /\ effect[d].lease > 0
      BY <1>2, <3>1 DEF HoldsClaims
    <3> QED BY <1>5, <3>1, <3>2
  <2>2. ASSUME NEW q \in Runtimes, proc'[q].pc # "idle", proc'[q].effect = None
        PROVE  proc'[q].age < LeaseLen
    <3>1. proc'[q] = proc[q]
      BY <1>3, <2>2
    <3> QED BY <1>2, <2>2, <3>1 DEF HoldsClaims
  <2> QED BY <2>1, <2>2 DEF HoldsClaims, Claimant
<1>7. VerdictKept'
  <2> SUFFICES ASSUME NEW d \in Effects, NEW kind \in {"delivered", "failed"}, Reported(kind, d)'
               PROVE  \/ effect'[d].status = kind
                      \/ \E q \in Runtimes : Claimant(q, d)' /\ Verdict(q, kind)'
    BY DEF VerdictKept
  <2>1. Reported(kind, d)
    BY <1>1 DEF Reported
  <2>2. CASE effect[d].status = kind
    <3>1. d # e
      BY <1>4, <2>2 DEF Claimant
    <3> QED BY <1>3, <2>2, <3>1
  <2>3. ASSUME NEW q \in Runtimes, Claimant(q, d), Verdict(q, kind), q # r
        PROVE  Claimant(q, d)' /\ Verdict(q, kind)'
    <3>1. Claimant(q, d)' /\ proc'[q] = proc[q]
      BY <1>5, <2>3
    <3> QED BY <2>3, <3>1 DEF Verdict
  <2>4. CASE Claimant(r, d) /\ Verdict(r, kind)
    <3>1. d = e
      BY <2>4 DEF Claimant
    <3>2. effect'[e].status = kind
      BY <1>0, <2>4, FreeStep DEF Verdict
    <3> QED BY <3>1, <3>2
  <2> QED BY <1>2, <2>1, <2>2, <2>3, <2>4 DEF VerdictKept
<1> QED BY <1>6, <1>7

\* No lease runs out undisturbed, neither of a claim nor of a pass still to claim
LEMMA TickVerdict ==
  ASSUME Core, Core', VerdictSound, Tick
  PROVE  VerdictSound'
<1> SUFFICES ASSUME Undisturbed' PROVE HoldsClaims' /\ VerdictKept'
  BY DEF VerdictSound
<1>0. TypeOK /\ ProcSound /\ \A q \in Runtimes : q \in Procs
  BY CoreTypes, Separate
<1>1. /\ spent'.overruns = spent.overruns + Cardinality(Overruns)
      /\ spent'.faults = spent.faults /\ spent'.crashes = spent.crashes
  <2>1. spent' = [spent EXCEPT !.overruns = @ + Cardinality(Overruns)]
    BY <1>0, TickStep
  <2> QED BY <2>1, CoreTypes DEF Spent
<1>2. Overruns = {} /\ Undisturbed
  <2>1. Cardinality(Overruns) \in Nat /\ IsFiniteSet(Overruns)
    BY <1>0, TickStep
  <2>2. Cardinality(Overruns) = 0 /\ spent.overruns = 0
    BY <1>1, <2>1, Counts DEF Undisturbed
  <2> QED BY <1>1, <2>1, <2>2, FS_EmptySet DEF Undisturbed
<1>3. HoldsClaims /\ VerdictKept /\ events' = events
  BY <1>2 DEF VerdictSound, Tick
<1>4. \A q \in Runtimes, d \in Effects : Claimant(q, d) => Claimant(q, d)'
  BY <1>0, TickStep DEF Claimant
<1>5. HoldsClaims'
  <2>1. ASSUME NEW q \in Runtimes, NEW d \in Effects, proc'[q].effect = d
        PROVE  Claimant(q, d)' /\ effect'[d].lease > 0
    <3>1. proc[q].effect = d
      BY <1>0, <2>1, TickStep
    <3>2. Claimant(q, d) /\ effect[d].lease > 0 /\ effect[d].lease \in Int
      BY <1>3, <3>1, Counts DEF HoldsClaims
    <3>3. effect[d].lease # 1
      BY <1>2, <3>2 DEF Overruns
    <3>4. d \in Open
      BY <3>2 DEF Claimant, Open
    <3>5. effect'[d].lease = Ago(effect[d].lease - 1, -MaxAge)
      BY <1>0, <3>4, TickStep
    <3>6. effect[d].lease - 1 \in Int /\ -MaxAge \in Int
      BY <3>2, Counts
    <3>7. Ago(effect[d].lease - 1, -MaxAge) >= effect[d].lease - 1
          /\ Ago(effect[d].lease - 1, -MaxAge) \in Int
      BY <3>6, AgoType
    <3> QED BY <1>4, <3>2, <3>3, <3>5, <3>7
  <2>2. ASSUME NEW q \in Runtimes, proc'[q].pc # "idle", proc'[q].effect = None
        PROVE  proc'[q].age < LeaseLen
    <3>1. proc[q].pc # "idle" /\ proc[q].effect = None /\ proc'[q].age = proc[q].age + 1
      BY <1>0, <2>2, TickStep
    <3>2. proc[q].age < LeaseLen
      BY <1>3, <3>1 DEF HoldsClaims
    <3>3. proc[q].age + 1 # LeaseLen
      BY <1>2, <3>1 DEF Overruns
    <3> QED BY <1>0, <3>1, <3>2, <3>3, Counts
  <2> QED BY <2>1, <2>2 DEF HoldsClaims, Claimant
<1>6. VerdictKept'
  <2> SUFFICES ASSUME NEW d \in Effects, NEW kind \in {"delivered", "failed"}, Reported(kind, d)'
               PROVE  \/ effect'[d].status = kind
                      \/ \E q \in Runtimes : Claimant(q, d)' /\ Verdict(q, kind)'
    BY DEF VerdictKept
  <2>1. Reported(kind, d)
    BY <1>3 DEF Reported
  <2>2. effect'[d].status = effect[d].status
    BY <1>0, TickStep
  <2>3. \A q \in Runtimes : Verdict(q, kind) => Verdict(q, kind)'
    BY <1>0, TickStep DEF Verdict
  <2> QED BY <1>3, <1>4, <2>1, <2>2, <2>3 DEF VerdictKept
<1> QED BY <1>5, <1>6

LEMMA InitVerdict == Init => VerdictSound
<1> SUFFICES ASSUME Init PROVE VerdictSound
  OBVIOUS
<1>1. \A r \in Runtimes : proc[r].effect = None /\ proc[r].pc = "idle"
  BY IdleSound, Separate DEF Init
<1>2. \A e \in Effects : events[InstanceOf[e]] = {}
  BY WorkflowAssumption DEF Init
<1> QED BY <1>1, <1>2, NoEffect DEF VerdictSound, HoldsClaims, VerdictKept, Reported

LEMMA VerdictSoundKept == Core /\ VerdictSound /\ [Next]_vars => VerdictSound'
<1> SUFFICES ASSUME Core, VerdictSound, [Next]_vars PROVE VerdictSound'
  OBVIOUS
<1>1. Core'
  BY CoreKept
<1>2. ASSUME NEW r \in Runtimes, Lost(r) PROVE VerdictSound'
  BY <1>2, LostVerdict DEF VerdictSound
<1> QED BY <1>1, <1>2, StepKinds, CalmVerdict, ClaimVerdict, FreeVerdict, TickVerdict

LEMMA VerdictIsOne == VerdictSound => OneVerdictUndisturbed
<1> SUFFICES ASSUME VerdictSound, Undisturbed, NEW e \in Effects,
                    Reported("delivered", e), Reported("failed", e)
             PROVE  FALSE
  BY DEF OneVerdictUndisturbed, Undisturbed, Reported
<1>1. VerdictKept
  BY DEF VerdictSound
<1>2. \/ effect[e].status = "delivered"
      \/ \E q \in Runtimes : Claimant(q, e) /\ proc[q].pc = "settle"
  BY <1>1 DEF VerdictKept, Verdict
<1>3. \/ effect[e].status = "failed"
      \/ \E q \in Runtimes : Claimant(q, e) /\ proc[q].pc = "release"
  BY <1>1 DEF VerdictKept, Verdict
<1> QED BY <1>2, <1>3 DEF Claimant

\* Without a fault, a crash or an expired lease a workflow hears one verdict on an effect:
\* runOnce dispatches effect.delivered or effect.failed only under its own claim, and the
\* row keeps the verdict.
THEOREM VerdictsAreOne == Spec => []OneVerdictUndisturbed
<1>1. Core /\ VerdictSound /\ [Next]_vars => (Core /\ VerdictSound)'
  BY CoreKept, VerdictSoundKept
<1>2. Init => Core /\ VerdictSound
  BY InitCore, InitVerdict
<1> QED BY <1>1, <1>2, VerdictIsOne, PTL DEF Spec
=============================================================================

----------------------------- MODULE RecoveryTarget -----------------------------
(***************************************************************************)
(* The recovery target: publication of encrypted bundles with readback and *)
(* receipt, and their retention by days and weeks                          *)
(* (src/scripts/recovery-target.ts).  A scheduled cycle publishes and      *)
(* prunes; an administrator may prune at the same time.                    *)
(***************************************************************************)
EXTENDS Integers, FiniteSets

CONSTANTS Procs, Daily, Weekly, WeekOf(_), Horizon, MaxFailures, MaxCycles

VARIABLES
  state,     \* the target's objects and receipts, by number
  run,       \* the commands
  env        \* the day, all publications, and the bounds

NoCommand == [cmd |-> "none", object |-> 0, plan |-> {}]

Init ==
  /\ state = [objects |-> {}, damaged |-> {}, receipts |-> {}]
  /\ run = [p \in Procs |-> NoCommand]
  /\ env = [day |-> 0, dayOf |-> <<>>, published |-> {}, failures |-> 0]

Doing(p, cmd) == run[p].cmd = cmd
Turn(p, command) == run' = [run EXCEPT ![p] = command]
Day(o) == env.dayOf[o]
Cycles == Cardinality(DOMAIN env.dayOf)

-----------------------------------------------------------------------------
(* publish *)

\* COPYFILE_EXCL under a new name; what the provider stores may differ
Copy(p) ==
  LET o == Cycles + 1 IN
  /\ Doing(p, "none") /\ Cycles < MaxCycles
  /\ \E bad \in {{}} \cup IF env.failures < MaxFailures THEN {{o}} ELSE {} :
       /\ state' = [state EXCEPT !.objects = @ \cup {o}, !.damaged = @ \cup bad]
       /\ env' = [env EXCEPT !.dayOf = [i \in 1 .. o |-> IF i = o THEN env.day ELSE @[i]],
                             !.failures = @ + Cardinality(bad)]
  /\ Turn(p, [NoCommand EXCEPT !.cmd = "verify", !.object = o])

\* Faulty variant: the receipt is written without reading the object back
PublishUnread(p) ==
  /\ Doing(p, "verify")
  /\ state' = [state EXCEPT !.receipts = @ \cup {run[p].object}]
  /\ env' = [env EXCEPT !.published = @ \cup {run[p].object}]
  /\ Turn(p, [NoCommand EXCEPT !.cmd = "plan"])

\* Readback, decryption and staging, then the receipt
Publish(p) ==
  /\ Doing(p, "verify") /\ run[p].object \notin state.damaged
  /\ state' = [state EXCEPT !.receipts = @ \cup {run[p].object}]
  /\ env' = [env EXCEPT !.published = @ \cup {run[p].object}]
  /\ Turn(p, [NoCommand EXCEPT !.cmd = "plan"])

PublishFails(p) ==
  /\ Doing(p, "verify")
  /\ IF run[p].object \in state.damaged THEN UNCHANGED env
     ELSE env.failures < MaxFailures /\ env' = [env EXCEPT !.failures = @ + 1]
  /\ state' = [state EXCEPT !.objects = @ \ {run[p].object}]
  /\ Turn(p, NoCommand)

-----------------------------------------------------------------------------
(* Retention *)

Verified == {o \in state.receipts \cap state.objects : o \notin state.damaged}
Newest(S) == CHOOSE o \in S : \A i \in S : Day(i) <= Day(o)
NewestFew(S, n) == {x \in S : Cardinality({y \in S : y > x}) < n}
Days == NewestFew({Day(o) : o \in Verified}, Daily)
Older(d) == \A e \in Days : d < e

\* Faulty variant: the weeks count from today
WeeksFromToday == NewestFew({WeekOf(Day(o)) : o \in Verified}, Weekly)

Weeks == NewestFew({WeekOf(Day(o)) : o \in {i \in Verified : Older(Day(i))}}, Weekly)

ToKeep ==
  {Newest({o \in Verified : Day(o) = d}) : d \in Days} \cup
  {Newest({o \in Verified : WeekOf(Day(o)) = w /\ Older(Day(o))}) :
     w \in {v \in Weeks : \E o \in Verified : WeekOf(Day(o)) = v /\ Older(Day(o))}}

Prune(p) ==
  /\ Doing(p, "none") /\ Verified # {}
  /\ Turn(p, [NoCommand EXCEPT !.cmd = "plan"])
  /\ UNCHANGED <<state, env>>

Plan(p) ==
  /\ Doing(p, "plan")
  /\ Turn(p, [NoCommand EXCEPT !.cmd = "apply", !.plan = Verified \ ToKeep])
  /\ UNCHANGED <<state, env>>

\* Each pair is verified again: one that is gone ends the command
Delete(p) ==
  /\ Doing(p, "apply")
  /\ \E o \in run[p].plan :
       IF o \in Verified
         THEN /\ state' = [state EXCEPT !.objects = @ \ {o}]
              /\ Turn(p, [run[p] EXCEPT !.cmd = "receipt", !.object = o, !.plan = @ \ {o}])
         ELSE Turn(p, NoCommand) /\ UNCHANGED state
  /\ UNCHANGED env

DeleteReceipt(p) ==
  /\ Doing(p, "receipt")
  /\ state' = [state EXCEPT !.receipts = @ \ {run[p].object}]
  /\ Turn(p, [run[p] EXCEPT !.cmd = "apply"])
  /\ UNCHANGED env

Applied(p) ==
  /\ Doing(p, "apply") /\ run[p].plan = {}
  /\ Turn(p, NoCommand)
  /\ UNCHANGED <<state, env>>

CommandDies(p) ==
  /\ ~Doing(p, "none") /\ env.failures < MaxFailures
  /\ env' = [env EXCEPT !.failures = @ + 1]
  /\ Turn(p, NoCommand)
  /\ UNCHANGED state

NextDay ==
  /\ env.day < Horizon
  /\ env' = [env EXCEPT !.day = @ + 1]
  /\ UNCHANGED <<state, run>>

Next ==
  \/ \E p \in Procs :
       \/ Copy(p) \/ Publish(p) \/ PublishFails(p)
       \/ Prune(p) \/ Plan(p) \/ Delete(p) \/ DeleteReceipt(p) \/ Applied(p)
       \/ CommandDies(p)
  \/ NextDay

-----------------------------------------------------------------------------
(* Properties *)

PublishedDays == {Day(o) : o \in env.published}

\* Whatever cycles and prunes there have been, overlapping or interrupted: each of the
\* newest Daily days with a publication still has one, and so has each of the newest
\* Weekly weeks before them (planRecoveryRetention); and a receipt never vouches for an
\* object that was not read back
TargetInvariant ==
  LET days == NewestFew(PublishedDays, Daily)
      before == {d \in PublishedDays : \A e \in days : d < e} IN
  /\ state.receipts \subseteq env.published
  /\ state.receipts \cap state.damaged = {}
  /\ \A d \in days : \E o \in Verified : Day(o) = d
  /\ \A w \in NewestFew({WeekOf(d) : d \in before}, Weekly) : \E o \in Verified : WeekOf(Day(o)) = w
=============================================================================

----------------------------- MODULE HandoffApply -----------------------------
(***************************************************************************)
(* Applying an audited handoff of the bridge's unfinished work to the      *)
(* native store (src/src/migration/message-intake-handoff.ts,              *)
(* collaboration-learning-handoff.ts, xiaowei-insight-handoff.ts): the     *)
(* records go in one by one under their own ids, the checkpoints last.     *)
(* The bridge may go on after the audit, a run of the script may die       *)
(* anywhere and is then repeated, and native work starts between runs.     *)
(* What the bridge says of a record may change under the same id: a        *)
(* question's id does not tell whether it was answered.  The store takes   *)
(* a record for the one it has by the kind of it.                          *)
(***************************************************************************)
EXTENDS Naturals, Sequences, SequencesExt

CONSTANTS
  Records,      \* what the bridge may have pending
  KindOf,       \* [Records -> {"event", "signal", "workflow"}]
  Keys,         \* the checkpoints of the handoff, in their order
  MaxMoves, MaxCrashes

VARIABLES
  state,     \* rows of the native store, checkpoints, all imported by a finished run
  run,       \* the script: records to insert, checkpoints to compare, what it has read
  env        \* the bridge's pending records with their contents, those that were audited,
             \* moves and crashes so far

Nothing == [is |-> "none"]
Native == [is |-> "native"]
Frozen(S) == [is |-> "frozen", of |-> S]
Absent == [is |-> "absent", as |-> 0]
Idle == [pc |-> "off", handoff |-> {}, rows |-> <<>>, keys |-> <<>>]

Init ==
  /\ state = [rows |-> [r \in Records |-> Absent], marks |-> [k \in ToSet(Keys) |-> Nothing], finished |-> {}]
  /\ run = Idle
  /\ \E S \in SUBSET Records : env = [pending |-> S \X {0}, audits |-> {}, moves |-> 0, crashes |-> 0]

\* The bridge, until it is frozen for good, takes up a record, changes one or is done with it
BridgeMoves(r) ==
  LET others == {x \in env.pending : x[1] # r} IN
  /\ env.moves < MaxMoves
  /\ \E pending \in {others, others \cup {<<r, 0>>}, others \cup {<<r, 1>>}} \ {env.pending} :
       env' = [env EXCEPT !.pending = pending, !.moves = @ + 1]
  /\ UNCHANGED <<state, run>>

\* The audit script shows the digest of what it would import
Audit ==
  /\ env.pending \notin env.audits
  /\ env' = [env EXCEPT !.audits = @ \cup {env.pending}]
  /\ UNCHANGED <<state, run>>

\* Faulty variant: the digest is not compared
StartApplyUnaudited ==
  /\ run.pc = "off"
  /\ run' = [pc |-> "rows", handoff |-> env.pending, rows |-> SetToSeq(env.pending), keys |-> Keys]
  /\ UNCHANGED <<state, env>>

\* The handoff is prepared anew; with another digest nothing is written
StartApply ==
  /\ run.pc = "off" /\ env.pending \in env.audits
  /\ run' = [pc |-> "rows", handoff |-> env.pending, rows |-> SetToSeq(env.pending), keys |-> Keys]
  /\ UNCHANGED <<state, env>>

\* Faulty variant: an id that exists is enough
DiffersNever(x) == FALSE

\* appendSignal refuses an id whose row says something else, and createWorkflow one that has
\* moved on, too; appendEvent takes an event for the one with its key, whatever it says
Differs(x) ==
  LET row == state.rows[x[1]] IN
  /\ row # Absent
  /\ \/ KindOf[x[1]] = "signal" /\ row.as # x[2]
     \/ KindOf[x[1]] = "workflow" /\ row # [is |-> "new", as |-> x[2]]

\* Faulty variant: what is there is written over
InsertedAnew(x) == [state EXCEPT !.rows[x[1]] = [is |-> "new", as |-> x[2]]]

\* A record that is there stays as it is
Inserted(x) ==
  IF state.rows[x[1]] = Absent THEN [state EXCEPT !.rows[x[1]] = [is |-> "new", as |-> x[2]]] ELSE state

\* A record that differs ends the run, after the ones before it were inserted
Insert ==
  /\ run.pc = "rows" /\ run.rows # <<>>
  /\ IF Differs(Head(run.rows)) THEN run' = Idle /\ UNCHANGED state
     ELSE state' = Inserted(Head(run.rows)) /\ run' = [run EXCEPT !.rows = Tail(@)]
  /\ UNCHANGED env

\* Faulty variant: a checkpoint that differs is replaced
ReadMarkBlind ==
  /\ run.pc = "rows" /\ run.rows = <<>> /\ run.keys # <<>>
  /\ run' = IF state.marks[Head(run.keys)] = Frozen(run.handoff) THEN [run EXCEPT !.keys = Tail(@)]
            ELSE [run EXCEPT !.pc = "write"]
  /\ UNCHANGED <<state, env>>

\* A checkpoint of another content ends the run, after the records were inserted
ReadMark ==
  /\ run.pc = "rows" /\ run.rows = <<>> /\ run.keys # <<>>
  /\ LET mark == state.marks[Head(run.keys)] IN
       run' = IF mark = Nothing THEN [run EXCEPT !.pc = "write"]
              ELSE IF mark = Frozen(run.handoff) THEN [run EXCEPT !.keys = Tail(@)] ELSE Idle
  /\ UNCHANGED <<state, env>>

WriteMark ==
  /\ run.pc = "write"
  /\ state' = [state EXCEPT !.marks[Head(run.keys)] = Frozen(run.handoff)]
  /\ run' = [run EXCEPT !.pc = "rows", !.keys = Tail(@)]
  /\ UNCHANGED env

Finish ==
  /\ run.pc = "rows" /\ run.rows = <<>> /\ run.keys = <<>>
  /\ state' = [state EXCEPT !.finished = @ \cup {run.handoff}]
  /\ run' = Idle
  /\ UNCHANGED env

Crash ==
  /\ run.pc # "off" /\ env.crashes < MaxCrashes
  /\ run' = Idle
  /\ env' = [env EXCEPT !.crashes = @ + 1]
  /\ UNCHANGED state

\* Native work on an event or a workflow, and the collaboration engine's own checkpoints: the consumers
\* are enabled when no handoff is being applied
Work(r) ==
  /\ run.pc = "off" /\ state.rows[r].is = "new" /\ KindOf[r] # "signal"
  /\ state' = [state EXCEPT !.rows[r].is = "worked"]
  /\ UNCHANGED <<run, env>>

Evaluate(k) ==
  /\ run.pc = "off" /\ state.marks[k] # Native
  /\ state' = [state EXCEPT !.marks[k] = Native]
  /\ UNCHANGED <<run, env>>

Next ==
  \/ Audit \/ StartApply \/ Insert \/ ReadMark \/ WriteMark \/ Finish \/ Crash
  \/ \E r \in Records : BridgeMoves(r) \/ Work(r)
  \/ \E k \in ToSet(Keys) : Evaluate(k)

-----------------------------------------------------------------------------
(* Properties *)

Present == {r \in Records : state.rows[r] # Absent}

\* Every record of a handoff has come in, signals and workflows as they were audited
Imported(handoff) ==
  \A x \in handoff : x[1] \in Present /\ (KindOf[x[1]] # "event" => state.rows[x[1]].as = x[2])

\* A checkpoint stands for records that have all come in, a run that has finished as well,
\* though the bridge changed them between two runs; and nothing came in that no audit has shown
ApplyInvariant ==
  /\ \A k \in ToSet(Keys) : state.marks[k].is = "frozen" => Imported(state.marks[k].of)
  /\ \A S \in state.finished : Imported(S)
  /\ \A r \in Present : <<r, state.rows[r].as>> \in UNION env.audits

\* What has come in keeps its content, and what native work has done and decided outlives
\* every further run
ApplyStep ==
  /\ \A r \in Present : /\ state'.rows[r].as = state.rows[r].as
                        /\ state.rows[r].is = "worked" => state'.rows[r].is = "worked"
  /\ \A k \in ToSet(Keys) : state.marks[k] = Native => state'.marks[k] = Native
=============================================================================

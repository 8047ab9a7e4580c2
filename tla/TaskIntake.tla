------------------------------- MODULE TaskIntake -------------------------------
(***************************************************************************)
(* Tasks made of messages: the creation by an executor, its verification   *)
(* and removal (src/packages/bridge-compat/src/dida-task-creator.js), and  *)
(* the index of matters and the owner's feedback that the next creation is *)
(* judged by (shadow-collaboration.js).  The executor is external: it      *)
(* looks for the marker of its message and otherwise does what it likes.   *)
(***************************************************************************)
EXTENDS Integers, Sequences, SequencesExt

CONSTANTS
  None, Messages, Tasks,
  RefOf,           \* the exact reference in a message, or None
  Limit,           \* SHADOW_HISTORY_LIMIT
  MaxRuns, MaxFailures, MaxCrashes

VARIABLES
  state,     \* the list in Dida, the matters, decisions, snapshots and feedback
  run,       \* the worker queue's operation, and the feedback poll
  env        \* messages and their ends, bounds

NoRun == [pc |-> "idle", m |-> None, exact |-> {}, action |-> "ignored", task |-> None]
Idle == [pc |-> "idle", list |-> <<>>]

Init ==
  /\ state = [list |-> [t \in Tasks |-> None], matters |-> {}, decisions |-> <<>>,
              seen |-> [t \in Tasks |-> None], feedback |-> {}, ended |-> FALSE]
  /\ run = [worker |-> NoRun, poll |-> Idle]
  /\ env = [pending |-> Messages, ends |-> [m \in Messages |-> "none"], runs |-> 0, failures |-> 0, crashes |-> 0]

Worker == run.worker
Work(w) == run' = [run EXCEPT !.worker = w]
Live(t) == state.list[t] # None
Fails == env.failures < MaxFailures
Failed == env' = [env EXCEPT !.failures = @ + 1]

-----------------------------------------------------------------------------
(* The index of matters *)

SameRef(matter, m) == RefOf[m] # None /\ RefOf[m] \in matter.refs
TasksOf(matters) == UNION {ToSet(x.tasks) : x \in matters}
ExactTasks(m) == TasksOf({x \in state.matters : SameRef(x, m) /\ x.status = "open"})

\* findMatter: the task first, then the reference; else a matter of its own
MatterOf(m, task) ==
  LET byTask == {x \in state.matters : task # None /\ Contains(x.tasks, task)}
      byRef == {x \in state.matters : SameRef(x, m)} IN
  IF byTask # {} THEN CHOOSE x \in byTask : TRUE
  ELSE IF byRef # {} THEN CHOOSE x \in byRef : TRUE
  ELSE [key |-> IF RefOf[m] = None THEN m ELSE RefOf[m], refs |-> {}, tasks |-> <<>>, status |-> "observing", sources |-> {}]

\* compactShadowHistory
Compact(matters, decisions) ==
  LET kept == SubSeq(decisions, IF Len(decisions) > Limit THEN Len(decisions) - Limit + 1 ELSE 1, Len(decisions))
      messages == {kept[i].m : i \in DOMAIN kept} IN
  [state EXCEPT !.decisions = kept,
                !.matters = {[x EXCEPT !.sources = @ \cap messages] :
                               x \in {y \in matters : \E i \in DOMAIN kept : kept[i].key = y.key}}]

Observed(m, action, task) ==
  LET old == MatterOf(m, task)
      new == [old EXCEPT !.refs = @ \cup ({RefOf[m]} \ {None}), !.tasks = IF task = None \/ Contains(@, task) THEN @ ELSE Append(@, task),
                         !.status = IF action = "ignored" THEN @ ELSE "open", !.sources = @ \cup {m}] IN
  Compact((state.matters \ {old}) \cup {new}, Append(state.decisions, [m |-> m, key |-> new.key]))

-----------------------------------------------------------------------------
(* createFromMention, serialized *)

Create(m) ==
  /\ Worker.pc = "idle" /\ m \in env.pending /\ env.runs < MaxRuns
  /\ Work([NoRun EXCEPT !.pc = "execute", !.m = m, !.exact = ExactTasks(m)])
  /\ env' = [env EXCEPT !.runs = @ + 1]
  /\ UNCHANGED state

Marked(m) == {t \in Tasks : Live(t) /\ m \in state.list[t].marks /\ state.list[t].is # "note"}
Unused == {t \in Tasks : ~Live(t) /\ state.seen[t] = None /\ t \notin TasksOf(state.matters)}
Ended(action, task) == [Worker EXCEPT !.pc = "result", !.action = action, !.task = task]

Execute ==
  LET m == Worker.m IN
  /\ Worker.pc = "execute"
  /\ \/ \E t \in Marked(m) : Work(Ended("unchanged", t)) /\ UNCHANGED state
     \/ /\ Marked(m) = {}
        /\ \/ Work(Ended("ignored", None)) /\ UNCHANGED state
           \/ \E t \in Tasks : Live(t) /\ ~state.list[t].done /\ state.list[t].is # "note"
                /\ Work(Ended("updated", t))
                /\ state' = [state EXCEPT !.list[t].marks = @ \cup {m}]
           \/ LET t == CHOOSE x \in Unused : TRUE IN
                /\ Unused # {} /\ Work(Ended("created", t))
                /\ \E is \in {"task", "note", "closed", "invalid"} :
                     state' = [state EXCEPT !.list[t] = [marks |-> {m}, is |-> is, done |-> FALSE]]
  /\ UNCHANGED env

\* The run timed out, failed or gave no result: whatever it did stays done
ResultLost ==
  /\ Worker.pc = "result" /\ Fails /\ Failed
  /\ Work(NoRun) /\ UNCHANGED state

\* reconcileCreatedTaskKind and validateTaskPresentation
Verdict(t) ==
  CASE Worker.action # "created" -> "accept"
    [] state.list[t].is = "closed" -> "closed"
    [] state.list[t].is \in {"note", "invalid"} \/ Worker.exact # {} -> "refuse"
    [] OTHER -> "accept"

Accepted == [Worker EXCEPT !.pc = "observe"]

\* A created task is read back: it may not be found
Judge ==
  /\ Worker.pc = "result"
  /\ IF Worker.action = "created" /\ ~Live(Worker.task) THEN Work(NoRun)
     ELSE LET v == Verdict(Worker.task) IN
          Work(IF v = "accept" THEN Accepted ELSE [Worker EXCEPT !.pc = v])
  /\ UNCHANGED <<state, env>>

\* Faulty variant: what is closed is ignored and left in the list
RemoveOnlyRefused ==
  /\ Worker.pc \in {"closed", "refuse"}
  /\ state' = IF Worker.pc = "closed" THEN state ELSE [state EXCEPT !.list[Worker.task] = None]
  /\ Work(IF Worker.pc = "closed" THEN [Accepted EXCEPT !.action = "ignored", !.task = None] ELSE NoRun)
  /\ UNCHANGED env

\* The task is deleted; one that needs no action ends as ignored, the others are retried
RemoveTask ==
  /\ Worker.pc \in {"closed", "refuse"}
  /\ state' = [state EXCEPT !.list[Worker.task] = None]
  /\ Work(IF Worker.pc = "closed" THEN [Accepted EXCEPT !.action = "ignored", !.task = None] ELSE NoRun)
  /\ UNCHANGED env

RemovalFails ==
  /\ Worker.pc \in {"closed", "refuse"} /\ Fails /\ Failed
  /\ Work(NoRun) /\ UNCHANGED state

Observe ==
  /\ Worker.pc = "observe"
  /\ state' = Observed(Worker.m, Worker.action, Worker.task)
  /\ Work([Worker EXCEPT !.pc = "finish"])
  /\ UNCHANGED env

Finish ==
  /\ Worker.pc = "finish"
  /\ env' = [env EXCEPT !.pending = @ \ {Worker.m}, !.ends[Worker.m] = Worker.action]
  /\ Work(NoRun) /\ UNCHANGED state

-----------------------------------------------------------------------------
(* The owner, the cleanup of the monitor queue, and the feedback poll *)

Complete(t) ==
  /\ Live(t) /\ ~state.list[t].done
  /\ state' = [state EXCEPT !.list[t].done = TRUE]
  /\ UNCHANGED <<run, env>>

CleanUp(t) ==
  /\ Live(t) /\ state.list[t].done
  /\ state' = [state EXCEPT !.list[t] = None]
  /\ UNCHANGED <<run, env>>

PollStarts ==
  /\ run.poll = Idle /\ ~state.ended /\ env.runs < MaxRuns
  /\ run' = [run EXCEPT !.poll = [pc |-> "listed", list |-> state.list]]
  /\ env' = [env EXCEPT !.runs = @ + 1]
  /\ UNCHANGED state

Tracked == TasksOf(state.matters)
Missed(t) == t \in Tracked /\ run.poll.list[t] = None

\* A matter has the status of the last of its tasks that was listed
StatusNow(x) ==
  LET listed == SelectSeq(x.tasks, LAMBDA t : ~Missed(t)) IN
  IF listed = <<>> THEN x.status ELSE IF run.poll.list[Last(listed)].done THEN "completed" ELSE "open"

\* Faulty variant: a task that was never seen may be missing
SeenAnyway(t) ==
  CASE t \notin Tracked -> state.seen[t]
    [] ~Missed(t) -> [missing |-> 0, done |-> run.poll.list[t].done]
    [] OTHER -> IF state.seen[t] = None THEN [missing |-> 2, done |-> FALSE]
                ELSE [state.seen[t] EXCEPT !.missing = 2]

Seen(t) ==
  CASE t \notin Tracked -> state.seen[t]
    [] ~Missed(t) -> [missing |-> 0, done |-> run.poll.list[t].done]
    [] state.seen[t] = None -> None
    [] OTHER -> [state.seen[t] EXCEPT !.missing = IF @ < 2 THEN @ + 1 ELSE 2]

PollApplies ==
  LET seen == [t \in Tasks |-> Seen(t)] IN
  /\ run.poll.pc = "listed"
  /\ state' = [state EXCEPT
       !.seen = seen,
       !.feedback = @ \cup {<<t, "missing">> : t \in {x \in Tasks : Missed(x) /\ seen[x] # None /\ seen[x].missing = 2}}
                      \cup {<<t, "completed">> : t \in {x \in Tracked : ~Missed(x) /\ run.poll.list[x].done
                                                         /\ state.seen[x] # None /\ ~state.seen[x].done}},
       !.matters = {[x EXCEPT !.status = StatusNow(x)] : x \in @}]
  /\ run' = [run EXCEPT !.poll = Idle]
  /\ UNCHANGED env

\* After a week the index is kept, without feedback
WeekEnds ==
  /\ ~state.ended
  /\ state' = [state EXCEPT !.ended = TRUE]
  /\ UNCHANGED <<run, env>>

Crash ==
  /\ env.crashes < MaxCrashes /\ (Worker.pc # "idle" \/ run.poll # Idle)
  /\ env' = [env EXCEPT !.crashes = @ + 1]
  /\ run' = [worker |-> NoRun, poll |-> Idle]
  /\ UNCHANGED state

Next ==
  \/ \E m \in Messages : Create(m)
  \/ Execute \/ ResultLost \/ Judge \/ RemoveTask \/ RemovalFails \/ Observe \/ Finish
  \/ \E t \in Tasks : Complete(t) \/ CleanUp(t)
  \/ PollStarts \/ PollApplies \/ WeekEnds \/ Crash

-----------------------------------------------------------------------------
(* Properties *)

\* A message that was judged to need nothing leaves no open task of its own behind; matters
\* and decisions refer to each other after every compaction; and what the owner's feedback
\* says of a task is true: missing only when it is gone, completed only when it was
IntakeInvariant ==
  /\ \A m \in Messages : env.ends[m] = "ignored" => Marked(m) = {}
  /\ \A i \in DOMAIN state.decisions : \E x \in state.matters :
       x.key = state.decisions[i].key /\ state.decisions[i].m \in x.sources
  /\ \A x \in state.matters : x.sources # {} /\ \E i \in DOMAIN state.decisions : state.decisions[i].key = x.key
  /\ \A t \in Tasks : /\ <<t, "missing">> \in state.feedback => ~Live(t)
                      /\ <<t, "completed">> \in state.feedback /\ Live(t) => state.list[t].done

\* A task is accepted as new only when it is well formed, and no matter with the same exact
\* reference had an open task when its message was looked up
IntakeStep ==
  Worker.pc = "result" /\ run'.worker.pc = "observe" /\ Worker.action = "created" =>
    /\ state.list[Worker.task].is = "task"
    /\ Worker.exact = {}
=============================================================================

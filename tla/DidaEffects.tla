------------------------------ MODULE DidaEffects ------------------------------
(***************************************************************************)
(* The workflows' effects on the owner's task list: a task made or brought *)
(* up to date for a message, a follow-up's progress, a result appended     *)
(* (src/src/task-system/projection-plugin.ts), and the deletion of tasks   *)
(* completed long ago (dida-plugin.ts).  Each is a sequence of commands of *)
(* the list's own program, any of which may fail, or have worked though    *)
(* its answer is lost; the effect is then tried again from the start.  The *)
(* owner goes on editing his tasks.                                        *)
(***************************************************************************)
EXTENDS Naturals, Sequences, FiniteSets

CONSTANTS
  None, Tasks, Effects,
  Asked,                     \* possible requests: [Effects -> [kind, target]]
  AuthorizedDeletes, Retention, Now,    \* what the owner has granted to the cleanup, and the time of its effect
  MaxTouches, MaxFailures    \* bounds

VARIABLES
  state,     \* the tasks, what is asked, what was deleted
  run,       \* [Effects -> the commands of the effect that have been made]
  env        \* what the owner did, in particular while an effect was at work

Absent ==
  [there |-> FALSE, project |-> "home", note |-> FALSE, completed |-> 0, title |-> "owner", summary |-> None, marks |-> <<>>, text |-> 0]
Marked(task) == {task.marks[i] : i \in 1..Len(task.marks)}
Idle == [pc |-> "idle", task |-> None, copy |-> Absent, listed |-> <<>>, deleted |-> 0]

Init ==
  /\ \E asked \in Asked, first \in [note : BOOLEAN, completed : {0, 1}], cutoff \in 1..Now, max \in 1..2 :
       state = [tasks |-> [t \in Tasks |-> IF \E e \in Effects : asked[e].target = t \/ asked[e].kind = "cleanup"
                                           THEN [Absent EXCEPT !.there = TRUE, !.note = first.note, !.completed = first.completed]
                                           ELSE Absent],
                asked |-> asked, cutoff |-> cutoff, max |-> max, log |-> {}]
  /\ run = [e \in Effects |-> Idle]
  /\ env = [touches |-> 0, failures |-> 0, raced |-> FALSE, moved |-> FALSE, removed |-> {}, text |-> [t \in Tasks |-> 0]]

Kind(e) == state.asked[e].kind
At(e, pc) == run[e].pc = pc
Goes(e, pc) == run' = [run EXCEPT ![e].pc = pc]

\* A command fails: the effect is left, to be tried again
Left(e) ==
  /\ env.failures < MaxFailures
  /\ run' = [run EXCEPT ![e] = Idle]
  /\ env' = [env EXCEPT !.failures = @ + 1]

Begin(e) ==
  /\ At(e, "idle")
  /\ Goes(e, IF Kind(e) = "cleanup" THEN "list" ELSE "find")
  /\ UNCHANGED <<state, env>>

\* assertOrdinaryTask
Ordinary(task) == task.there /\ task.project = "home" /\ ~task.note

\* Faulty variant: only open tasks are looked for
MatchesOpen(e) ==
  IF state.asked[e].target # None THEN {state.asked[e].target}
  ELSE {t \in Tasks : state.tasks[t].there /\ state.tasks[t].project = "home" /\ e \in Marked(state.tasks[t]) /\ state.tasks[t].completed = 0}

\* The task that is named, or the ones of the project with the mark of the message, completed or not
Matches(e) ==
  IF state.asked[e].target # None THEN {state.asked[e].target}
  ELSE {t \in Tasks : state.tasks[t].there /\ state.tasks[t].project = "home" /\ e \in Marked(state.tasks[t])}

\* Faulty variant: the lineage is added each time
RewrittenAgain(e, task) ==
  LET text == [task EXCEPT !.summary = e, !.marks = Append(@, e)] IN
  IF Kind(e) = "result" THEN text ELSE [text EXCEPT !.title = e]

\* The new summary takes the place of the section of the old one, with whatever the owner wrote in it; progress and mark are
\* appended unless the mark is there
Rewritten(e, task) ==
  LET text == [task EXCEPT !.summary = e, !.marks = IF e \in Marked(task) THEN @ ELSE Append(@, e)] IN
  IF Kind(e) = "result" THEN text ELSE [text EXCEPT !.title = e]

\* What was done before is not done again: a mark tells, and for a message the whole task
Unchanged(e, task) == IF Kind(e) = "intake" THEN Rewritten(e, task) = task ELSE e \in Marked(task)

\* Faulty variant: a completed task is brought up to date like any other
FindAny(e) ==
  /\ At(e, "find")
  /\ IF Matches(e) = {} THEN run' = [run EXCEPT ![e] = [Idle EXCEPT !.pc = "create"]]
     ELSE \E t \in Matches(e) :
            /\ Ordinary(state.tasks[t])
            /\ run' = [run EXCEPT ![e] = [Idle EXCEPT !.pc = "update", !.task = t, !.copy = state.tasks[t]]]
  /\ UNCHANGED <<state, env>>

\* A task that is another project's, a note, or completed is left alone; a result is added to a completed one, too
Find(e) ==
  /\ At(e, "find")
  /\ IF Matches(e) = {} THEN run' = [run EXCEPT ![e] = [Idle EXCEPT !.pc = "create"]]
     ELSE /\ Cardinality(Matches(e)) = 1
          /\ \E t \in Matches(e) :
               /\ Ordinary(state.tasks[t])
               /\ Kind(e) # "result" => state.tasks[t].completed = 0
               /\ run' = [run EXCEPT ![e] = IF Unchanged(e, state.tasks[t]) THEN [Idle EXCEPT !.pc = "done"]
                                            ELSE [Idle EXCEPT !.pc = "update", !.task = t, !.copy = state.tasks[t]]]
  /\ UNCHANGED <<state, env>>

\* The command has its effect; its answer may be lost all the same
Answered(e, next) ==
  \/ run' = [run EXCEPT ![e] = next] /\ env' = env
  \/ Left(e)

Create(e) ==
  /\ At(e, "create")
  /\ \E t \in Tasks :
       /\ ~state.tasks[t].there /\ t \notin env.removed
       /\ state' = [state EXCEPT !.tasks[t] = Rewritten(e, [Absent EXCEPT !.there = TRUE])]
       /\ Answered(e, [Idle EXCEPT !.pc = "verify", !.task = t])

\* Title and content are written as they come of the copy, over what the owner or another effect wrote since
Update(e) ==
  /\ At(e, "update")
  /\ LET t == run[e].task new == Rewritten(e, run[e].copy) old == state.tasks[t] IN
     /\ old.there
     /\ state' = [state EXCEPT !.tasks[t] = [old EXCEPT !.title = IF Kind(e) = "result" THEN @ ELSE e,
                                                        !.summary = new.summary, !.marks = new.marks, !.text = new.text]]
     /\ \/ run' = [run EXCEPT ![e].pc = "verify"] /\ env' = [env EXCEPT !.raced = @ \/ old # run[e].copy]
        \/ /\ env.failures < MaxFailures
           /\ run' = [run EXCEPT ![e] = Idle]
           /\ env' = [env EXCEPT !.raced = @ \/ old # run[e].copy, !.failures = @ + 1]

Verify(e) ==
  /\ At(e, "verify")
  /\ LET task == state.tasks[run[e].task] IN
     /\ Ordinary(task)
     /\ Kind(e) = "update" \/ run[e].copy = Absent => e \in Marked(task)
  /\ Goes(e, "done")
  /\ UNCHANGED <<state, env>>

-----------------------------------------------------------------------------
(* Deletion of completed tasks *)

Completed == {t \in Tasks : state.tasks[t].there /\ state.tasks[t].completed # 0}

\* Faulty variant: the list's own filter, by days, is trusted
DueOfList == Completed

\* The list returns completed tasks by the day; the ones after the cutoff are left out
Due == {t \in Completed : state.tasks[t].completed <= state.cutoff}

\* Refused when more is asked than granted, or for younger tasks; as many as asked, in an order of the list's choice
ListCompleted(e) ==
  /\ At(e, "list")
  /\ state.max <= AuthorizedDeletes /\ Now - state.cutoff >= Retention
  /\ \E order \in {s \in UNION {[1..n -> Due] : n \in 0..state.max} : \A i, j \in DOMAIN s : i # j => s[i] # s[j]} :
       /\ Len(order) = state.max \/ {order[i] : i \in DOMAIN order} = Due
       /\ run' = [run EXCEPT ![e] = [Idle EXCEPT !.pc = "delete", !.listed = order]]
  /\ UNCHANGED <<state, env>>

\* One by one; a task that is gone, or a command that fails, ends the attempt
Delete(e) ==
  /\ At(e, "delete")
  /\ run[e].listed # <<>>
  /\ LET t == Head(run[e].listed) IN
     /\ state.tasks[t].there
     /\ state' = [state EXCEPT !.tasks[t] = Absent, !.log = @ \cup {<<t, state.tasks[t].completed, run[e].deleted + 1>>}]
     /\ \/ /\ run' = [run EXCEPT ![e].listed = Tail(@), ![e].deleted = @ + 1]
           /\ env' = [env EXCEPT !.removed = @ \cup {t}]
        \/ /\ env.failures < MaxFailures
           /\ run' = [run EXCEPT ![e] = Idle]
           /\ env' = [env EXCEPT !.removed = @ \cup {t}, !.failures = @ + 1]

Deleted(e) ==
  /\ At(e, "delete")
  /\ run[e].listed = <<>>
  /\ Goes(e, "done")
  /\ UNCHANGED <<state, env>>

-----------------------------------------------------------------------------

\* A command fails without effect, or a task is not as it must be
Fails(e) ==
  /\ run[e].pc \notin {"idle", "done"}
  /\ Left(e)
  /\ UNCHANGED state

\* The owner writes, in the section of the summary or outside of it, renames, completes and reopens, removes, or moves to
\* another project
Touch(t) ==
  /\ state.tasks[t].there /\ env.touches < MaxTouches
  /\ \E task \in {[state.tasks[t] EXCEPT !.text = @ + 1],
                  [state.tasks[t] EXCEPT !.summary = IF @ = None THEN None ELSE "owner"],
                  [state.tasks[t] EXCEPT !.title = "owner"],
                  [state.tasks[t] EXCEPT !.completed = IF @ = 0 THEN Now ELSE 0], [state.tasks[t] EXCEPT !.project = "away"], Absent} :
       /\ task # state.tasks[t]
       /\ state' = [state EXCEPT !.tasks[t] = task]
       /\ env' = [env EXCEPT !.touches = @ + 1, !.moved = @ \/ task.project = "away",
                             !.removed = IF task.there THEN @ ELSE @ \cup {t}, !.text[t] = task.text,
                             !.raced = @ \/ \E e \in Effects : \E i \in 1..Len(run[e].listed) : run[e].listed[i] = t]
  /\ UNCHANGED run

Next ==
  \/ \E e \in Effects : \/ Begin(e) \/ Find(e) \/ Create(e) \/ Update(e) \/ Verify(e)
                        \/ ListCompleted(e) \/ Delete(e) \/ Deleted(e) \/ Fails(e)
  \/ \E t \in Tasks : Touch(t)

-----------------------------------------------------------------------------
(* Properties *)

\* However often an effect is tried, a message has one task (unless the owner moved it, as the search is of one project) and a
\* task one entry of each effect; a finished effect is in a task the owner has not removed, and his own words outside the
\* summary are still there, unless somebody wrote between its reading and its writing.  Deleted are tasks completed long
\* enough ago, and not more in an attempt than granted, unless the owner reopened one that was listed.
DidaInvariant ==
  /\ \A e \in Effects : env.moved \/ Cardinality({t \in Tasks : e \in Marked(state.tasks[t])}) <= 1
  /\ \A t \in Tasks : Cardinality(Marked(state.tasks[t])) = Len(state.tasks[t].marks)
  /\ \/ env.raced
     \/ /\ \A t \in Tasks : state.tasks[t].there => state.tasks[t].text = env.text[t]
        /\ \A e \in Effects : At(e, "done") /\ Kind(e) # "cleanup" =>
             env.removed # {} \/ \E t \in Tasks : e \in Marked(state.tasks[t])
        /\ \A d \in state.log : d[2] # 0 /\ d[2] + Retention <= Now
  /\ \A d \in state.log : d[3] <= AuthorizedDeletes

\* Only the owner changes a note, a task of another project, or, but for a result, one that was completed when it was read
DidaStep ==
  \A t \in Tasks :
    LET old == state.tasks[t] new == state'.tasks[t] IN
    old.there /\ new.there /\ new # old /\ env'.touches = env.touches =>
      /\ ~old.note
      /\ \E e \in Effects :
           /\ run[e].task = t /\ run'[e] # run[e] /\ run[e].copy.project = "home"
           /\ Kind(e) = "result" \/ run[e].copy.completed = 0
=============================================================================

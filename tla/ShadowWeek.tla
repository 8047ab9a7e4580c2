------------------------------ MODULE ShadowWeek ------------------------------
(***************************************************************************)
(* The shadow week of the bridge                                           *)
(* (packages/bridge-compat/src/shadow-collaboration.js): every processed   *)
(* batch is observed as a decision about a matter, matters are joined with *)
(* the calendar and with what became of their tasks, and the week ends     *)
(* with a report; and the audit that must find no blocker in that state    *)
(* before the week is evaluated (src/src/migration/shadow-audit.ts).       *)
(***************************************************************************)
EXTENDS Naturals, FiniteSets, Sequences, SequencesExt

CONSTANTS
  Messages, Tasks, Events, None,
  ShapeOf,      \* of a message: what the task creator has decided about it
  KeyOf,        \* the key of a matter that starts with the message
  Akin,         \* pairs of messages whose references, anchors or words overlap
  Limit,        \* SHADOW_HISTORY_LIMIT
  Week, Horizon, MaxFaults, MaxMoves

VARIABLES
  state,     \* memory and disk, alike in shape
  run,       \* the batch that was observed and is not finished, the poll and what it has read
  env        \* clock, the owner's calendar and tasks, processed messages, reports heard, bounds

-----------------------------------------------------------------------------
(* The decision about a message *)

\* classifyAttention
Tier(s) ==
  CASE s.priority = 5 \/ (s.priority >= 3 /\ s.soon) -> "realtime"
    [] s.actual = "notify" \/ s.priority >= 3 \/ s.concerns -> "today"
    [] OTHER -> "silent"

\* buildShadowDecision
Difference(s) ==
  CASE s.actual = "notify" /\ Tier(s) = "silent" -> "possible_noise"
    [] s.actual = "notify" /\ Tier(s) = "today" -> "could_batch"
    [] s.actual = "silent" /\ Tier(s) = "realtime" -> "possible_miss"
    [] OTHER -> "aligned"
Decision(m, key) ==
  [message |-> m, key |-> key, tier |-> Tier(ShapeOf[m]), actual |-> ShapeOf[m].actual, difference |-> Difference(ShapeOf[m])]

-----------------------------------------------------------------------------
(* Matters *)

Start == [matters |-> <<>>, decisions |-> <<>>, calendar |-> {}, seen |-> [t \in Tasks |-> None],
          feedback |-> <<>>, report |-> None, sent |-> FALSE]
NoPoll == [pc |-> "off", read |-> None]

Init ==
  /\ state = [mem |-> Start, disk |-> Start]
  /\ run = [batch |-> None, poll |-> NoPoll]
  /\ env = [now |-> 0, agenda |-> {}, tasks |-> [t \in Tasks |-> "open"], done |-> {}, heard |-> <<>>, failures |-> 0, crashes |-> 0, moves |-> 0]

\* Faulty variant: a message is matched by its task alone
FindMatterByTask(matters, m) ==
  LET same == {i \in DOMAIN matters : ShapeOf[m].task # None /\ ShapeOf[m].task \in matters[i].tasks}
  IN IF same = {} THEN 0 ELSE CHOOSE i \in same : \A j \in same : i <= j

\* findMatter: the task first, then any kinship with what the matter has gathered (the
\* creator's own choice of a matter is such a kinship)
Matches(matter, m) == \/ ShapeOf[m].task # None /\ ShapeOf[m].task \in matter.tasks
                      \/ \E n \in matter.gathered : <<m, n>> \in Akin
TaskMatch(matters, m) == {i \in DOMAIN matters : ShapeOf[m].task # None /\ ShapeOf[m].task \in matters[i].tasks}
First(S) == CHOOSE i \in S : \A j \in S : i <= j
FindMatter(matters, m) ==
  IF TaskMatch(matters, m) # {} THEN First(TaskMatch(matters, m))
  ELSE LET akin == {i \in DOMAIN matters : Matches(matters[i], m)} IN IF akin = {} THEN 0 ELSE First(akin)

\* correlateCalendarForMatter: an event is named by the message whose words it repeats
Correlated(matter, calendar) == [matter EXCEPT !.events = {e \in calendar : \E m \in matter.gathered : <<e, m>> \in Akin}]

\* Faulty variant: the oldest matters go, whoever refers to them
CompactedByAge(s) ==
  LET ids == UNION {ToSet(s.matters[i].sources) : i \in DOMAIN s.matters}
      known == SelectSeq(s.decisions, LAMBDA d : d.message \in ids)
      kept == SubSeq(known, IF Len(known) > Limit THEN Len(known) - Limit + 1 ELSE 1, Len(known))
      from == IF Len(s.matters) > 1 /\ Len(known) > Limit THEN 2 ELSE 1
  IN [s EXCEPT !.decisions = kept, !.matters = SubSeq(@, from, Len(@))]

\* compactShadowHistory
Compacted(s) ==
  LET ids == UNION {ToSet(s.matters[i].sources) : i \in DOMAIN s.matters}
      keys == {s.matters[i].key : i \in DOMAIN s.matters}
      known == SelectSeq(s.decisions, LAMBDA d : d.message \in ids /\ d.key \in keys)
      kept == SubSeq(known, IF Len(known) > Limit THEN Len(known) - Limit + 1 ELSE 1, Len(known))
      messages == {kept[i].message : i \in DOMAIN kept}
      named == SelectSeq(s.matters, LAMBDA x : \E i \in DOMAIN kept : kept[i].key = x.key)
  IN [s EXCEPT !.decisions = kept,
               !.matters = [i \in DOMAIN named |->
                  [named[i] EXCEPT !.sources = SelectSeq(@, LAMBDA m : m \in messages)]]]

\* observe: it saves what it has added
Observed(s, m) ==
  LET i == FindMatter(s.matters, m)
      old == IF i # 0 THEN s.matters[i]
             ELSE [key |-> KeyOf[m], sources |-> <<>>, tasks |-> {}, gathered |-> {}, status |-> "observing", events |-> {}]
      new == Correlated([old EXCEPT !.sources = Append(@, m), !.gathered = @ \cup {m},
                           !.tasks = @ \cup ({ShapeOf[m].task} \ {None}),
                           !.status = IF ShapeOf[m].task = None THEN @ ELSE "open"], s.calendar)
  IN Compacted([s EXCEPT !.matters = IF i # 0 THEN [@ EXCEPT ![i] = new] ELSE Append(@, new),
                         !.decisions = Append(@, Decision(m, new.key))])

\* A failure or a crash, of those the bound allows
Fault == env.failures + env.crashes < MaxFaults

Saved(mem) == state' = [mem |-> mem, disk |-> mem]

Observe(m) ==
  /\ run.batch = None /\ m \notin env.done
  /\ Saved(Observed(state.mem, m))
  /\ run' = [run EXCEPT !.batch = m]
  /\ UNCHANGED env

\* The rest of the batch: its questions, research and notices.  A batch that fails is tried again
FinishBatch ==
  /\ run.batch # None
  /\ run' = [run EXCEPT !.batch = None]
  /\ env' = [env EXCEPT !.done = @ \cup {run.batch}]
  /\ UNCHANGED state
BatchFails ==
  /\ run.batch # None /\ Fault
  /\ run' = [run EXCEPT !.batch = None]
  /\ env' = [env EXCEPT !.failures = @ + 1]
  /\ UNCHANGED state

-----------------------------------------------------------------------------
(* The poll *)

Polls(pc, read) == run' = [run EXCEPT !.poll = [pc |-> pc, read |-> read]]

\* The intervals only space the refreshes out: a poll may find both due
StartPoll ==
  /\ run.poll.pc = "off"
  /\ IF env.now < Week THEN Polls("agenda", None) ELSE Polls("report", None)
  /\ UNCHANGED <<state, env>>

\* Faulty variant: only the calendar is replaced
RefreshCalendarAlone ==
  /\ run.poll.pc = "agenda" /\ Polls("tasks", env.tasks)
  /\ state' = [state EXCEPT !.mem.calendar = env.agenda]
  /\ UNCHANGED env

\* refreshCalendar, with the agenda as it is answered
RefreshCalendar ==
  /\ run.poll.pc = "agenda" /\ Polls("tasks", env.tasks)
  /\ state' = [state EXCEPT !.mem.calendar = env.agenda,
                 !.mem.matters = [i \in DOMAIN @ |-> Correlated(@[i], env.agenda)]]
  /\ UNCHANGED env

CalendarFails ==
  /\ run.poll.pc = "agenda" /\ Fault /\ Polls("tasks", env.tasks)
  /\ env' = [env EXCEPT !.failures = @ + 1]
  /\ UNCHANGED state

Tracked(s) == UNION {s.matters[i].tasks : i \in DOMAIN s.matters}

\* detectTaskFeedback: a task in the third project has been moved to be followed up
Changes(before, now) ==
  (IF before.is # "done" /\ now = "done" THEN {"completed"} ELSE {})
    \cup (IF before.is # "followup" /\ now = "followup" THEN {"moved_to_followup"} ELSE {})

\* recordFeedback
Recorded(feedback, news) == feedback \o SetToSeq(news \ ToSet(feedback))

\* Beyond MaxMissing, which nothing tells apart, the count stands
MaxMissing == 2
Snapshot(old, now) ==
  IF now = "gone" THEN (IF old = None THEN None ELSE [old EXCEPT !.missing = IF @ < MaxMissing THEN @ + 1 ELSE @]) ELSE [is |-> now, missing |-> 0]
News(old, t, now) ==
  IF old = None THEN {}
  ELSE IF now = "gone" THEN (IF old.missing = 1 THEN {<<t, "missing">>} ELSE {})
  ELSE {<<t, change>> : change \in Changes(old, now)}

Status(s, matter, i, read) ==
  LET mine == {t \in matter.tasks : read[t] # "gone" /\ \A j \in 1 .. (i - 1) : t \notin s.matters[j].tasks}
  IN IF mine = {} THEN matter.status
     ELSE LET t == CHOOSE x \in mine : TRUE
          IN IF read[t] = "done" THEN "completed" ELSE IF read[t] = "followup" THEN "followup" ELSE "open"

\* refreshTaskFeedback: the answer is as old as the call, the matters are not
RefreshTasks ==
  /\ run.poll.pc = "tasks" /\ Polls("save", None)
  /\ LET s == state.mem read == run.poll.read IN
       state' = [state EXCEPT
         !.mem.feedback = Recorded(@, UNION {News(s.seen[t], t, read[t]) : t \in Tracked(s)}),
         !.mem.seen = [t \in Tasks |-> IF t \in Tracked(s) THEN Snapshot(@[t], read[t]) ELSE @[t]],
         !.mem.matters = [i \in DOMAIN @ |-> [@[i] EXCEPT !.status = Status(s, s.matters[i], i, read)]]]
  /\ UNCHANGED env
TasksFail ==
  /\ run.poll.pc = "tasks" /\ Fault /\ Polls("save", None)
  /\ env' = [env EXCEPT !.failures = @ + 1]
  /\ UNCHANGED state

\* finishShadowRun: the report is written once, and then sent until it is
Report(s) == [messages |-> Len(s.decisions), matters |-> Len(s.matters), feedback |-> ToSet(s.feedback)]
WriteReport ==
  /\ run.poll.pc = "report"
  /\ IF state.mem.report # None THEN UNCHANGED state
     ELSE state' = [state EXCEPT !.mem.report = Report(state.mem)]
  /\ Polls(IF state.mem.sent THEN "save" ELSE "send", None)
  /\ UNCHANGED env

SendReport ==
  /\ run.poll.pc = "send" /\ Polls("save", None)
  /\ state' = [state EXCEPT !.mem.sent = TRUE]
  /\ env' = [env EXCEPT !.heard = Append(@, state.mem.report)]
SendFails ==
  /\ run.poll.pc = "send" /\ Fault /\ Polls("save", None)
  /\ env' = [env EXCEPT !.failures = @ + 1]
  /\ UNCHANGED state

SavePoll == run.poll.pc = "save" /\ Polls("off", None) /\ Saved(state.mem) /\ UNCHANGED env

-----------------------------------------------------------------------------
(* The world *)

Crash ==
  /\ Fault
  /\ state' = [state EXCEPT !.mem = state.disk]
  /\ run' = [batch |-> None, poll |-> NoPoll]
  /\ env' = [env EXCEPT !.crashes = @ + 1]

Tick == env.now < Horizon /\ env' = [env EXCEPT !.now = @ + 1] /\ UNCHANGED <<state, run>>
OwnerMoves ==
  /\ \/ \E t \in Tasks : \E to \in {"done", "followup", "gone"} \ {env.tasks[t]} :
          env' = [env EXCEPT !.tasks[t] = to, !.moves = @ + 1]
     \/ \E e \in Events : env' = [env EXCEPT !.agenda = IF e \in @ THEN @ \ {e} ELSE @ \cup {e}, !.moves = @ + 1]
  /\ env.now < Week /\ env.moves < MaxMoves
  /\ UNCHANGED <<state, run>>

Next ==
  \/ \E m \in Messages : Observe(m)
  \/ FinishBatch \/ BatchFails \/ StartPoll \/ RefreshCalendar \/ CalendarFails \/ RefreshTasks \/ TasksFail
  \/ WriteReport \/ SendReport \/ SendFails \/ SavePoll \/ Crash \/ Tick \/ OwnerMoves

-----------------------------------------------------------------------------
(* The audit, auditShadowState *)

ExpectedDifference(actual, tier) ==
  CASE actual = "notify" /\ tier = "silent" -> "possible_noise"
    [] actual = "notify" /\ tier = "today" -> "could_batch"
    [] actual = "silent" /\ tier = "realtime" -> "possible_miss"
    [] OTHER -> "aligned"

Blockers(s) ==
  LET sources == FlattenSeq([i \in DOMAIN s.matters |-> s.matters[i].sources])
      keys == [i \in DOMAIN s.matters |-> s.matters[i].key]
      when(blocker, is) == IF is THEN {blocker} ELSE {}
  IN when("duplicate-message-id", ~IsInjective([i \in DOMAIN s.decisions |-> s.decisions[i].message]))
       \cup when("notification-difference-mismatch",
                \E d \in ToSet(s.decisions) : d.difference # ExpectedDifference(d.actual, d.tier))
       \cup when("duplicate-shadow-matter-key", ~IsInjective(keys))
       \cup when("duplicate-shadow-source-message", ~IsInjective(sources))
       \cup when("missing-shadow-matter-reference", \E d \in ToSet(s.decisions) : d.key \notin ToSet(keys))
       \cup when("missing-shadow-source-reference",
                \E d \in ToSet(s.decisions) : d.message \notin ToSet(sources) \cup env.done)

-----------------------------------------------------------------------------
(* Properties *)

\* The audit finds nothing in what the monitor keeps, in memory and on disk; a batch that was
\* tried again is there twice, and that is all it finds then
AuditPasses ==
  \A s \in {state.mem, state.disk} :
    Blockers(s) \subseteq IF env.failures + env.crashes = 0 THEN {} ELSE {"duplicate-message-id", "duplicate-shadow-source-message"}

\* A matter is linked with the events of the calendar that speak of it, those of now
LinksCurrent == \A i \in DOMAIN state.mem.matters :
  state.mem.matters[i] = Correlated(state.mem.matters[i], state.mem.calendar)

\* The owner hears one report, which is the one that is kept
ShadowInvariant ==
  /\ AuditPasses /\ LinksCurrent
  /\ state.mem.sent => state.mem.report # None
  /\ env.crashes = 0 => Len(env.heard) <= 1 /\ \A i \in DOMAIN env.heard : env.heard[i] = state.mem.report
=============================================================================

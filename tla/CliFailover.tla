------------------------------ MODULE CliFailover ------------------------------
(***************************************************************************)
(* Calls of the executors Codex and Claude (src/packages/bridge-compat/    *)
(* src/cli-failover.js, codex-app-server-client.js, codex-runner.js):      *)
(* structured runs, which may write to Dida, with one fallback; visible    *)
(* sessions over the app server's protocol; and the sessions of Claude and *)
(* DSH a job falls back to, with the removal of DSH's old ones, by the     *)
(* runs and by the janitor's sweep at the same time.                       *)
(***************************************************************************)
EXTENDS Naturals, Sequences, SequencesExt

CONSTANTS
  Configs,      \* [dida, primary, fallback, token]
  MaxCalls,
  None, Jobs,
  Directories,                       \* of DSH's sessions
  Retention, Timeout, PruneLimit,    \* dshFallbackSessionRetentionDays, dshSessionTimeoutMs, sessions a prune removes
  Horizon, MaxDeaths                 \* bounds

VARIABLES
  state,     \* what the runs of the call did, the output file, the app server's process
  run,       \* the call
  env        \* calls so far; in the sessions' part, deaths of the bridge

NoServer == [process |-> "none", thread |-> FALSE, turn |-> FALSE, interrupted |-> FALSE, ended |-> "no"]
NoCall == [pc |-> "idle"]

InitCalls ==
  /\ state = [deeds |-> <<>>, output |-> "none", server |-> NoServer]
  /\ run = NoCall
  /\ env = 0

Server == state.server
Called == Len(run.attempts)

\* executionAttempt, with the kind of a failure
Attempt(provider, outcome) == [provider |-> provider, outcome |-> outcome]
Done(c, attempts) == [pc |-> "done", config |-> c, attempts |-> attempts]
Runs(c, provider, attempts) == [pc |-> "run", config |-> c, provider |-> provider, attempts |-> attempts]

-----------------------------------------------------------------------------
(* runCodexWithClaudeFallback *)

StartStructured(c) ==
  /\ run.pc \in {"idle", "done"} /\ env < MaxCalls /\ Server.process \in {"none", "gone"}
  /\ run' = Runs(c, IF c.dida /\ c.primary = "claude" THEN "claude" ELSE "codex", <<>>)
  /\ state' = [deeds |-> <<>>, output |-> "none", server |-> NoServer]
  /\ env' = env + 1

\* isCodexInfrastructureFailure
Infrastructure(outcome) == outcome \in {"timeout", "infrastructure"}

\* Without a token Claude is not started; an output that does not parse is a failure
Outcomes(c, provider) ==
  IF provider = "claude" /\ c.dida /\ ~c.token THEN {"refused"}
  ELSE {"success", "timeout", "infrastructure", "failed"}

AfterRun(outcome) ==
  LET c == run.config
      attempts == Append(run.attempts, Attempt(run.provider, outcome))
      other == IF run.provider = "codex" THEN "claude" ELSE "codex"
      again == /\ Called = 0 /\ outcome # "success"
               /\ run.provider = "claude" \/ (c.fallback /\ Infrastructure(outcome)) IN
  IF again THEN Runs(c, other, attempts) ELSE Done(c, attempts)

\* A run that failed may have done what it was asked for; run waits until the child has closed
RunEnds ==
  /\ run.pc = "run"
  /\ \E outcome \in Outcomes(run.config, run.provider), acted \in BOOLEAN, wrote \in BOOLEAN :
       /\ outcome = "success" => acted /\ wrote
       /\ outcome = "refused" => ~acted
       /\ wrote => outcome = "success" \/ run.provider = "codex"
       /\ state' = [state EXCEPT !.deeds = IF acted THEN Append(@, run.provider) ELSE @,
                                 !.output = IF wrote THEN run.provider ELSE @]
       /\ run' = AfterRun(outcome)
  /\ UNCHANGED env

-----------------------------------------------------------------------------
(* create: a visible session by the app server, else a session of Claude *)

StartVisible(c) ==
  /\ run.pc \in {"idle", "done"} /\ env < MaxCalls /\ Server.process \in {"none", "gone"}
  /\ run' = [pc |-> "visible", config |-> c, attempts |-> <<>>]
  /\ state' = [deeds |-> <<>>, output |-> "none", server |-> [NoServer EXCEPT !.process = "up"]]
  /\ env' = env + 1

ThreadStarted ==
  /\ run.pc = "visible" /\ ~Server.thread
  /\ state' = [state EXCEPT !.server.thread = TRUE] /\ UNCHANGED <<run, env>>

TurnStarted ==
  /\ run.pc = "visible" /\ Server.thread /\ ~Server.turn
  /\ state' = [state EXCEPT !.server.turn = TRUE, !.deeds = Append(@, "codex")] /\ UNCHANGED <<run, env>>

\* finish: settled once; stdin ends and the process is killed half a second later
Settle(outcome, why) ==
  LET attempts == <<Attempt("codex", outcome)>> IN
  /\ run.pc = "visible"
  /\ state' = [state EXCEPT !.server.process = IF why = "closed" THEN "gone" ELSE "closing", !.server.ended = why,
                            !.server.interrupted = why = "timeout" /\ Server.turn]
  /\ run' = IF outcome = "infrastructure" /\ run.config.fallback THEN Runs([run.config EXCEPT !.dida = FALSE], "claude", attempts)
            ELSE Done(run.config, attempts)
  /\ UNCHANGED env

TurnCompleted == Server.turn /\ \E outcome \in {"success", "failed"} : Settle(outcome, "completed")
RequestFails == \E outcome \in {"infrastructure", "failed"} : Settle(outcome, "error")
ServerCloses == \E outcome \in {"infrastructure", "failed"} : Settle(outcome, "closed")

\* Faulty variant: a session that takes too long is repeated by Claude
TimesOutAnywhere == Settle("infrastructure", "timeout")

\* The session is kept: it is neither repeated nor given to Claude
TimesOut == Settle("failed", "timeout")

Killed ==
  /\ Server.process = "closing"
  /\ state' = [state EXCEPT !.server.process = "gone"] /\ UNCHANGED <<run, env>>

NextCalls ==
  \/ \E c \in Configs : StartStructured(c) \/ StartVisible(c)
  \/ RunEnds \/ ThreadStarted \/ TurnStarted \/ TurnCompleted \/ RequestFails \/ ServerCloses \/ TimesOut \/ Killed

-----------------------------------------------------------------------------
(* runClaudeSession, runDshSession, pruneDshFallbackSessions *)

Pruners == {"sweep"} \cup Jobs
NoPrune == [pc |-> "idle", left |-> {}, on |-> None, cutoff |-> 0, removed |-> 0]
NoRun == [pc |-> "idle", dir |-> None, since |-> 0]

\* Of each session of DSH there is the instant at which it was last written to
InitSessions ==
  /\ \E old \in SUBSET Directories :
       state = [deeds |-> <<>>, output |-> "none", server |-> NoServer, now |-> 0, touched |-> [d \in Directories |-> IF d \in old THEN 0 ELSE None],
                gone |-> {}, requests |-> {}, claude |-> [j \in Jobs |-> [id |-> 0, ids |-> 0, there |-> {}, left |-> FALSE]]]
  /\ run = [pc |-> "sessions", attempts |-> <<>>, job |-> [j \in Jobs |-> NoRun], prune |-> [p \in Pruners |-> NoPrune]]
  /\ env = 0

InSessions == run.pc = "sessions"
JobIs(j, pc) == InSessions /\ run.job[j].pc = pc
JobGoes(j, pc) == run' = [run EXCEPT !.job[j] = [NoRun EXCEPT !.pc = pc]]

\* A job falls back on Claude, or on DSH; one that was given to DSH stays there
StartSession(j) ==
  /\ JobIs(j, "idle")
  /\ (JobGoes(j, "claude") /\ ~state.claude[j].left) \/ JobGoes(j, "prune")
  /\ UNCHANGED <<state, env>>

\* Faulty variant: every attempt is a session of its own
NamedAnew(c) == [c EXCEPT !.id = c.ids + 1, !.ids = @ + 1]

\* The job's session has a name before it is there
Named(c) == IF c.id # 0 THEN c ELSE [c EXCEPT !.id = c.ids + 1, !.ids = @ + 1]

\* A session that has a name is resumed, and fails when there is none of it; a run may fail before there is one
ClaudeEnds(j) ==
  LET c == state.claude[j]
      next == Named(c) IN
  /\ JobIs(j, "claude")
  /\ IF c.id = next.id /\ c.id \notin c.there
       THEN /\ UNCHANGED state
            /\ JobGoes(j, "idle")
       ELSE \E outcome \in {"success", "infrastructure", "failed"}, there \in BOOLEAN :
            /\ outcome = "success" => there
            /\ state' = [state EXCEPT !.claude[j] = [next EXCEPT !.there = IF there THEN @ \cup {next.id} ELSE @]]
            /\ JobGoes(j, IF outcome = "infrastructure" THEN "prune" ELSE "idle")
  /\ UNCHANGED env

Prunes(p, next) == run' = [run EXCEPT !.prune[p] = next]
ListSessions(p) ==
  /\ InSessions /\ (p \in Jobs => JobIs(p, "prune")) /\ run.prune[p].pc = "idle" /\ state.now >= Retention
  /\ Prunes(p, [NoPrune EXCEPT !.pc = "stat", !.left = {d \in Directories : state.touched[d] # None}, !.cutoff = state.now - Retention])
  /\ UNCHANGED <<state, env>>

\* What the prune of a run comes to is the same to it
PruneEnds(p) ==
  run' = [run EXCEPT !.prune[p] = NoPrune, !.job = IF p \in Jobs THEN [@ EXCEPT ![p] = [NoRun EXCEPT !.pc = "request"]] ELSE @]

\* Faulty variant: a day more or less
OldAlmost(d, cutoff) == state.touched[d] <= cutoff + 1

Old(d, cutoff) == state.touched[d] <= cutoff

\* A session that is gone by now, by the prune of another, ends this prune
Stat(p, d) ==
  LET me == run.prune[p] IN
  /\ InSessions /\ me.pc = "stat" /\ d \in me.left
  /\ IF me.removed >= PruneLimit THEN Prunes(p, [me EXCEPT !.left = @ \ {d}])
     ELSE IF state.touched[d] = None THEN PruneEnds(p)
     ELSE Prunes(p, IF Old(d, me.cutoff) THEN [me EXCEPT !.pc = "remove", !.on = d] ELSE [me EXCEPT !.left = @ \ {d}])
  /\ UNCHANGED <<state, env>>

RemoveSession(p) ==
  LET me == run.prune[p] IN
  /\ InSessions /\ me.pc = "remove"
  /\ state' = [state EXCEPT !.touched[me.on] = None, !.gone = @ \cup {me.on}]
  /\ Prunes(p, [me EXCEPT !.pc = "stat", !.left = @ \ {me.on}, !.on = None, !.removed = @ + 1])
  /\ UNCHANGED env

Pruned(p) ==
  /\ InSessions /\ run.prune[p].pc = "stat" /\ run.prune[p].left = {}
  /\ PruneEnds(p)
  /\ UNCHANGED <<state, env>>

\* Nothing is old yet
NothingOld(j) ==
  /\ JobIs(j, "prune") /\ run.prune[j].pc = "idle" /\ state.now < Retention
  /\ PruneEnds(j)
  /\ UNCHANGED <<state, env>>

\* The request is written to a file, and DSH makes a session of its own
StartDsh(j, d) ==
  /\ JobIs(j, "request") /\ state.touched[d] = None /\ d \notin state.gone
  /\ state' = [state EXCEPT !.requests = @ \cup {j}, !.touched[d] = state.now, !.claude[j].left = TRUE]
  /\ run' = [run EXCEPT !.job[j] = [pc |-> "run", dir |-> d, since |-> state.now]]
  /\ UNCHANGED env

\* However it ends, its file goes
DshEnds(j) ==
  /\ JobIs(j, "run")
  /\ state' = [state EXCEPT !.requests = @ \ {j}]
  /\ JobGoes(j, "idle")
  /\ UNCHANGED env

\* A run out of time ends before time goes on
Tick ==
  /\ InSessions /\ state.now < Horizon
  /\ \A j \in Jobs : run.job[j].pc = "run" => state.now - run.job[j].since < Timeout
  /\ state' = [state EXCEPT !.now = @ + 1]
  /\ UNCHANGED <<run, env>>

\* The bridge dies; the name of a session of Claude may not have been saved with its job
BridgeDies ==
  /\ InSessions /\ env < MaxDeaths
  /\ \E kept \in SUBSET Jobs : state' = [state EXCEPT !.claude = [j \in Jobs |-> IF j \in kept THEN @[j] ELSE [@[j] EXCEPT !.id = 0, !.left = FALSE]]]
  /\ run' = [run EXCEPT !.job = [j \in Jobs |-> NoRun], !.prune = [p \in Pruners |-> NoPrune]]
  /\ env' = env + 1

NextSessions ==
  \/ \E j \in Jobs : StartSession(j) \/ ClaudeEnds(j) \/ NothingOld(j) \/ DshEnds(j) \/ \E d \in Directories : StartDsh(j, d)
  \/ \E p \in Pruners : ListSessions(p) \/ RemoveSession(p) \/ Pruned(p) \/ \E d \in Directories : Stat(p, d)
  \/ Tick \/ BridgeDies

Init == InitCalls \/ InitSessions
Next == NextCalls \/ NextSessions

-----------------------------------------------------------------------------
(* Properties *)

\* A call that succeeds gives the output of the run that succeeded, and nothing ran after it;
\* a session of Codex that is still alive is not repeated by Claude unless the app server
\* itself refused a request, and a turn that was abandoned by a timeout was interrupted.
\* A job has one session of Claude, and its request's file is there no longer than its run, unless the
\* bridge died; and no prune takes away the session of a run that is going on
FailoverInvariant ==
  /\ run.pc = "done" /\ Last(run.attempts).outcome = "success" /\ Server.process = "none" =>
       state.output = Last(run.attempts).provider
  /\ run.pc # "idle" => \A i \in 1 .. Called - 1 : run.attempts[i].outcome # "success"
  /\ Server.process = "closing" /\ run.pc = "run" => Server.ended = "error"
  /\ Server.ended = "timeout" /\ Server.turn => Server.interrupted
  /\ run.pc = "done" /\ Len(state.deeds) > 1 => run.attempts[1].outcome # "success"
  /\ InSessions => \A j \in Jobs :
       /\ state.claude[j].ids <= 1 + env
       /\ j \in state.requests => run.job[j].pc = "run" \/ env > 0
       /\ run.job[j].pc = "run" => state.touched[run.job[j].dir] # None
=============================================================================

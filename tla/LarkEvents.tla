------------------------------- MODULE LarkEvents -------------------------------
(***************************************************************************)
(* How messages reach the assistant's journal of events.  "streams": one   *)
(* consumer process of lark-cli for each event key, kept by a service that *)
(* starts and stops them (src/src/lark/stream.ts, service.ts).             *)
(* "discovery": an effect that looks for the messages of a window that the *)
(* owner's interests point to (discovery-effect-plugin.ts), while streams  *)
(* deliver messages of their own, and the consumer that opens a workflow   *)
(* for the ones it cares about (src/src/intake/plugin.ts).                 *)
(***************************************************************************)
EXTENDS Naturals, Sequences, FiniteSets

CONSTANTS
  None,
  EventKeys,                     \* in the order of their start
  MaxBuffered,                   \* lines kept while an event is handled
  Messages, ChatOf,              \* messages of the window
  Hits,                          \* [sources -> what a search of it finds]: "sender", "chat", "direct", "mention"
  Mentioned,                     \* messages that mention the owner in their event
  PageLimit,                     \* messages a search returns
  MaxEvents, MaxStarts, MaxFailures, MaxFlags    \* bounds

VARIABLES
  state,     \* the streams, or the journal and what the owner marked
  run,       \* the service's calls, or the effect
  env        \* the bounds

-----------------------------------------------------------------------------
(* One stream *)

NoStream == [status |-> "idle", child |-> "none", closed |-> FALSE, started |-> FALSE, rejected |-> FALSE,
             printed |-> 0, read |-> 0, lines |-> <<>>, busy |-> 0, handled |-> <<>>]

\* fail: once, and not of a stream that is being stopped; what is buffered is given up, and the child told to end
Failed(s) ==
  IF s.status \in {"failed", "stopping", "idle"} THEN s
  ELSE [s EXCEPT !.status = "failed", !.lines = <<>>, !.rejected = ~s.started]

\* drain: a line at a time is handled, while the stream is ready
Drained(s) ==
  IF s.busy = 0 /\ s.status = "ready" /\ s.lines # <<>> THEN [s EXCEPT !.busy = Head(s.lines), !.lines = Tail(@)] ELSE s

Stream(k) == state[k]
Becomes(k, s) == state' = [state EXCEPT ![k] = s] /\ UNCHANGED <<run, env>>

\* The consumer prints an event
Outputs(k) ==
  /\ Stream(k).child = "live" /\ Stream(k).printed < MaxEvents[k]
  /\ Becomes(k, [Stream(k) EXCEPT !.printed = @ + 1])

\* A line is read; one too many is a failure, and after a failure lines are passed over
Line(k) ==
  /\ Stream(k).read < Stream(k).printed
  /\ LET s == [Stream(k) EXCEPT !.read = @ + 1] IN
     Becomes(k, IF s.status \notin {"starting", "ready"} THEN s
                ELSE IF Len(s.lines) >= MaxBuffered THEN Failed(s)
                ELSE Drained([s EXCEPT !.lines = Append(@, s.read)]))

\* Faulty variant: an event that cannot be handled is passed over
HandledOrSkipped(k) ==
  /\ Stream(k).busy # 0
  /\ LET s == [Stream(k) EXCEPT !.busy = 0] IN
     \/ Becomes(k, Drained([s EXCEPT !.handled = Append(@, Stream(k).busy)]))
     \/ Becomes(k, Drained(s))

\* The event is kept, or cannot be: then the stream fails
Handled(k) ==
  /\ Stream(k).busy # 0
  /\ LET s == [Stream(k) EXCEPT !.busy = 0] IN
     \/ Becomes(k, Drained([s EXCEPT !.handled = Append(@, Stream(k).busy)]))
     \/ Becomes(k, Failed(s))

ReadyLine(k) ==
  /\ Stream(k).child = "live" /\ Stream(k).status = "starting"
  /\ Becomes(k, Drained([Stream(k) EXCEPT !.status = "ready", !.started = TRUE]))

\* No ready line in time; a warning that events were dropped
ReadyTimeout(k) == Stream(k).status = "starting" /\ ~Stream(k).started /\ Becomes(k, Failed(Stream(k)))
Warning(k) == Stream(k).child = "live" /\ Stream(k).status \in {"starting", "ready"} /\ Becomes(k, Failed(Stream(k)))

\* The child ends when it is told to, or on its own; its end is seen after the last of its lines
Exits(k) == Stream(k).child = "live" /\ Becomes(k, [Stream(k) EXCEPT !.child = "exited"])
Closes(k) ==
  /\ Stream(k).child = "exited" /\ ~Stream(k).closed /\ Stream(k).read = Stream(k).printed
  /\ Becomes(k, Failed([Stream(k) EXCEPT !.closed = TRUE]))

-----------------------------------------------------------------------------
(* The service *)

NoStop == [on |-> FALSE, entries |-> {}, left |-> {}, bad |-> {}]
Callers == {"start", "dispose"}

\* start of a stream: a new object and a new child
Spawned(k) == [state EXCEPT ![k] = [NoStream EXCEPT !.status = "starting", !.child = "live"]]

InitStreams ==
  /\ state = [k \in {EventKeys[i] : i \in 1..Len(EventKeys)} |-> NoStream]
  /\ run = [kind |-> "streams", start |-> "idle", at |-> 0, held |-> {}, stop |-> [c \in Callers |-> NoStop]]
  /\ env = [starts |-> 0, orphans |-> 0]

\* The host starts the service when its calls before have settled; with streams still held it is refused
StartService ==
  /\ run.start \in {"idle", "threw"} /\ env.starts < MaxStarts /\ \A c \in Callers : ~run.stop[c].on
  /\ run' = [run EXCEPT !.start = IF run.held = {} THEN "inspect" ELSE "threw"]
  /\ env' = [env EXCEPT !.starts = @ + 1]
  /\ UNCHANGED state

StartNext(i) ==
  /\ run' = [run EXCEPT !.start = "starting", !.at = i, !.held = @ \cup {EventKeys[i]}]
  /\ state' = Spawned(EventKeys[i])
  /\ env' = [env EXCEPT !.orphans = IF Stream(EventKeys[i]).child = "live" THEN @ + 1 ELSE @]

\* The capabilities are asked for first; when they do not suffice nothing is started
Inspected ==
  /\ run.start = "inspect"
  /\ \/ StartNext(1)
     \/ run' = [run EXCEPT !.start = "threw"] /\ UNCHANGED <<state, env>>

\* stop: of all streams there are now; each is told to end, and waited for, with its last event
Stopping(c, next) ==
  /\ run' = [next EXCEPT !.stop[c] = [on |-> TRUE, entries |-> run.held, left |-> run.held, bad |-> {}]]
  /\ state' = [k \in DOMAIN state |-> IF k \in run.held /\ Stream(k).child # "none" THEN [Stream(k) EXCEPT !.status = "stopping"] ELSE Stream(k)]

\* A stream is ready and the next one is started; one that failed stops them all
Continue ==
  /\ run.start = "starting"
  /\ LET s == Stream(EventKeys[run.at]) IN
     \/ /\ s.started
        /\ IF run.at = Len(EventKeys) THEN run' = [run EXCEPT !.start = "up"] /\ UNCHANGED <<state, env>> ELSE StartNext(run.at + 1)
     \/ /\ s.rejected
        /\ Stopping("start", [run EXCEPT !.start = "cleanup"])
        /\ UNCHANGED env

Dispose ==
  /\ run.start # "idle" /\ ~run.stop["dispose"].on
  /\ Stopping("dispose", run)
  /\ UNCHANGED env

\* Faulty variant: the end of the child is waited for, the event it was handling is not
StopResolvesAtExit(c, k) ==
  /\ run.stop[c].on /\ k \in run.stop[c].left
  /\ Stream(k).closed \/ Stream(k).child = "none"
  /\ state' = [state EXCEPT ![k] = [@ EXCEPT !.status = "idle", !.child = "none"]]
  /\ run' = [run EXCEPT !.stop[c].left = @ \ {k}]
  /\ UNCHANGED env

StopResolves(c, k) ==
  /\ run.stop[c].on /\ k \in run.stop[c].left
  /\ Stream(k).child = "none" \/ (Stream(k).closed /\ Stream(k).busy = 0)
  /\ state' = [state EXCEPT ![k] = [@ EXCEPT !.status = "idle", !.child = "none"]]
  /\ run' = [run EXCEPT !.stop[c].left = @ \ {k}]
  /\ UNCHANGED env

StopTimesOut(c, k) ==
  /\ run.stop[c].on /\ k \in run.stop[c].left /\ Stream(k).child # "none"
  /\ state' = [state EXCEPT ![k].status = "failed"]
  /\ run' = [run EXCEPT !.stop[c].left = @ \ {k}, !.stop[c].bad = @ \cup {k}]
  /\ UNCHANGED env

\* Faulty variant: a consumer that would not end is forgotten like the others
StopEndsForgetting(c) ==
  /\ run.stop[c].on /\ run.stop[c].left = {}
  /\ run' = [run EXCEPT !.held = @ \ run.stop[c].entries, !.stop[c] = NoStop,
                        !.start = IF c = "start" THEN "threw" ELSE IF @ = "up" THEN "idle" ELSE @]
  /\ UNCHANGED <<state, env>>

\* Only what has stopped is forgotten; the service cannot be started while anything is held
StopEnds(c) ==
  /\ run.stop[c].on /\ run.stop[c].left = {}
  /\ LET stop == run.stop[c] IN
     run' = [run EXCEPT !.held = @ \ (stop.entries \ stop.bad), !.stop[c] = NoStop,
                        !.start = IF c = "start" THEN (IF stop.bad = {} THEN "threw" ELSE "uncertain")
                                  ELSE IF @ = "up" THEN "idle" ELSE @]
  /\ UNCHANGED <<state, env>>

NextStreams ==
  \/ \E k \in DOMAIN state :
       \/ Outputs(k) \/ Line(k) \/ Handled(k) \/ ReadyLine(k) \/ ReadyTimeout(k) \/ Warning(k) \/ Exits(k) \/ Closes(k)
       \/ \E c \in Callers : StopResolves(c, k) \/ StopTimesOut(c, k)
  \/ StartService \/ Inspected \/ Continue \/ Dispose
  \/ \E c \in Callers : StopEnds(c)

-----------------------------------------------------------------------------
(* Discovery *)

InitDiscovery ==
  /\ state = [sent |-> {}, flagged |-> {}, journal |-> [m \in Messages |-> None], reasons |-> [m \in Messages |-> {}],
              seen |-> {}, opened |-> {}]
  /\ run = [kind |-> "discovery", pc |-> "idle", chats |-> {}, found |-> [m \in Messages |-> {}], left |-> {}, since |-> {}]
  /\ env = [failures |-> 0, flags |-> 0]

\* A message is sent; the owner flags one
Sends(m) == m \notin state.sent /\ state' = [state EXCEPT !.sent = @ \cup {m}] /\ UNCHANGED <<run, env>>
Flags(m) ==
  /\ m \in state.sent \ state.flagged /\ env.flags < MaxFlags
  /\ state' = [state EXCEPT !.flagged = @ \cup {m}] /\ env' = [env EXCEPT !.flags = @ + 1] /\ UNCHANGED run

\* Faulty variant: the discovered event takes the place of the stream's
JournaledAnew(m, key, why) == [state EXCEPT !.journal[m] = key, !.reasons[m] = why]

\* appendEvent: one event for a message, whichever way it came first
Journaled(m, key, why) ==
  IF state.journal[m] # None THEN state ELSE [state EXCEPT !.journal[m] = key, !.reasons[m] = why]

\* The stream's event of a message is journalled, or lost
Streams(m) ==
  /\ m \in state.sent /\ state.journal[m] = None
  /\ state' = Journaled(m, "receive", {}) /\ UNCHANGED <<run, env>>

\* The consumer takes up every event once; a workflow is opened for a mention and for what discovery found
Consume(m) ==
  /\ state.journal[m] # None /\ m \notin state.seen
  /\ state' = [state EXCEPT !.seen = @ \cup {m}, !.opened = IF m \in Mentioned \/ state.journal[m] = "focus" THEN @ \cup {m} ELSE @]
  /\ UNCHANGED <<run, env>>

\* mergeCandidate: the reasons add up
Merged(found, ms, why) == [m \in Messages |-> IF m \in ms THEN found[m] \cup {why} ELSE found[m]]

\* flaggedCandidates: messages the owner marked, and the chats they are in
FlaggedCandidates == [messages |-> state.flagged, chats |-> {ChatOf[m] : m \in state.flagged}]

Discover ==
  /\ run.pc = "idle"
  /\ run' = [run EXCEPT !.pc = "search", !.chats = FlaggedCandidates.chats, !.since = state.sent,
                        !.found = Merged([m \in Messages |-> {}], FlaggedCandidates.messages, "flagged")]
  /\ UNCHANGED <<state, env>>

\* What a search finds: by sender, in a chat, direct or mentioning
Found(source) == {m \in state.sent : m \in Hits[source] \/ (source = "chat" /\ ChatOf[m] \in run.chats)}

\* Faulty variant: what does not fit into the pages is left out
SearchFirstPage(source) ==
  \E ms \in SUBSET Found(source) :
    /\ Cardinality(ms) <= PageLimit /\ (Cardinality(ms) = PageLimit \/ ms = Found(source))
    /\ run' = [run EXCEPT !.found = Merged(@, ms, source), !.left = @ \ {source}]

\* A search that has more than its pages hold is an error
Search(source) ==
  /\ Cardinality(Found(source)) <= PageLimit
  /\ run' = [run EXCEPT !.found = Merged(@, Found(source), source), !.left = @ \ {source}]

\* The searches go on side by side
BeginSearches == run.pc = "search" /\ run' = [run EXCEPT !.pc = "searching", !.left = DOMAIN Hits] /\ UNCHANGED <<state, env>>
Searches(source) == run.pc = "searching" /\ source \in run.left /\ Search(source) /\ UNCHANGED <<state, env>>
Searched ==
  /\ run.pc = "searching" /\ run.left = {}
  /\ run' = [run EXCEPT !.pc = "append", !.left = {m \in Messages : run.found[m] # {}}]
  /\ UNCHANGED <<state, env>>

AppendFound(m) ==
  /\ run.pc = "append" /\ m \in run.left
  /\ state' = Journaled(m, "focus", run.found[m])
  /\ run' = [run EXCEPT !.left = @ \ {m}]
  /\ UNCHANGED env

Discovered == run.pc = "append" /\ run.left = {} /\ run' = [run EXCEPT !.pc = "done"] /\ UNCHANGED <<state, env>>

\* A command or the store fails: the effect is tried again with the same window
DiscoveryFails ==
  /\ run.pc \notin {"idle", "done"} /\ env.failures < MaxFailures
  /\ run' = [run EXCEPT !.pc = "idle", !.left = {}]
  /\ env' = [env EXCEPT !.failures = @ + 1]
  /\ UNCHANGED state

NextDiscovery ==
  \/ \E m \in Messages : Sends(m) \/ Flags(m) \/ Streams(m) \/ Consume(m) \/ AppendFound(m)
  \/ \E source \in DOMAIN Hits : Searches(source)
  \/ Discover \/ BeginSearches \/ Searched \/ Discovered \/ DiscoveryFails

Init == InitStreams \/ InitDiscovery
Next ==
  \/ run.kind = "streams" /\ NextStreams
  \/ run.kind = "discovery" /\ NextDiscovery

-----------------------------------------------------------------------------
(* Properties *)

\* An event key has one consumer at a time, however starts and stops cross; its events are kept in their order and without a
\* gap until the stream fails; a stream said to be stopped has no child and handles nothing, one said to be ready has a child
\* whose end was not seen; and a start that fails plainly leaves no consumer.
StreamsInvariant ==
  /\ env.orphans = 0
  /\ \A k \in DOMAIN state :
       LET s == state[k] IN
       /\ \A i \in 1..Len(s.handled) : s.handled[i] = i
       /\ s.status = "idle" => s.child = "none" /\ s.busy = 0
       /\ s.status = "ready" => s.started /\ ~s.closed
  /\ run.start = "threw" /\ run.held = {} => \A k \in DOMAIN state : state[k].child # "live"

\* When discovery is done, everything its sources pointed to when it began is in the journal, with all the reasons when it
\* came by discovery, and what came by discovery is opened once it is consumed.  (What a stream brought first, and the
\* consumer passed over, is not: its event is the message's only one.)
DiscoveryInvariant ==
  /\ run.pc = "done" =>
       \A m \in run.since, source \in DOMAIN Hits : m \in Hits[source] =>
         /\ state.journal[m] # None
         /\ state.journal[m] = "focus" /\ env.failures = 0 => source \in state.reasons[m]
  /\ \A m \in state.seen : state.journal[m] = "focus" \/ m \in Mentioned => m \in state.opened

LarkEventsInvariant == IF run.kind = "streams" THEN StreamsInvariant ELSE DiscoveryInvariant

\* An event that is in the journal is never replaced, nor a workflow opened for an event that is not
LarkEventsStep ==
  run.kind = "discovery" =>
    /\ \A m \in Messages : state.journal[m] # None => state'.journal[m] = state.journal[m] /\ state'.reasons[m] = state.reasons[m]
    /\ state'.opened \subseteq {m \in Messages : state.journal[m] # None}
=============================================================================

------------------------------ MODULE LarkClient ------------------------------
(***************************************************************************)
(* The bridge's client of the Lark command line: a text sent as numbered   *)
(* cards, searches and the survey of the owner's conversations put together *)
(* from paged and batched calls, the context of a message, the events of a *)
(* listener, and the process that each call runs                           *)
(* (packages/bridge-compat/src/lark-client.js, util.js).  Init chooses     *)
(* which of them is looked at; they share no state.                        *)
(***************************************************************************)
EXTENDS Integers, Sequences, FiniteSets, FiniteSetsExt, SequencesExt

CONSTANTS
  None, Kinds,                            \* of "send", "search", "survey", "context", "listen", "process"
  MaxChars, MaxLength, MaxTries,          \* send: the card's size; bounds of the text and of the attempts
  Chats, Groups, PageSize, MaxPages, Batch, MaxMoves,    \* search, survey
  Minutes, Radius, NearMax, HistoryMax, TailMax          \* context: the chat's minutes, and the pages that are read

VARIABLES
  state,     \* what Lark holds; the child process
  run,       \* the call
  env        \* what the call is judged by; bounds

-----------------------------------------------------------------------------
(* A text is a sequence of characters, each with its place, and line breaks, which are 0 *)

Texts == UNION {[1..n -> BOOLEAN] : n \in 0..MaxLength}
Written(t, version) == [i \in 1..Len(t) |-> IF t[i] THEN 0 ELSE version * 100 + i]
Letters(s) == SelectSeq(s, LAMBDA c : c # 0)

\* Without the line breaks at its beginning
RECURSIVE Unbroken(_)
Unbroken(s) == IF s # <<>> /\ s[1] = 0 THEN Unbroken(Tail(s)) ELSE s

\* Faulty variant: the line break is looked for in the whole text
CutAnywhere(s) ==
  LET last == Max({-1} \cup {i \in 0..Len(s) - 1 : s[i + 1] = 0}) IN
  IF 2 * last < MaxChars THEN MaxChars ELSE last

\* The last line break that fits, unless it leaves half a card
Cut(s) ==
  LET last == Max({-1} \cup {i \in 0..MaxChars : s[i + 1] = 0}) IN
  IF 2 * last < MaxChars THEN MaxChars ELSE last

\* What is left begins with the next line that is not blank
RECURSIVE Split(_)
Split(s) ==
  IF Len(s) <= MaxChars THEN IF s = <<>> THEN <<>> ELSE <<s>>
  ELSE <<SubSeq(s, 1, Cut(s))>> \o Split(Unbroken(SubSeq(s, Cut(s) + 1, Len(s))))

\* splitMessage
SplitMessage(s) == IF s = <<>> THEN <<s>> ELSE Split(s)

-----------------------------------------------------------------------------
(* send: what the reader has got, by the index that is in the key *)

InitSend ==
  /\ \E user \in BOOLEAN, approved \in BOOLEAN : state = [kind |-> "send", got |-> <<>>, user |-> user, approved |-> approved]
  /\ run = [pc |-> "idle", text |-> <<>>, chunks |-> <<>>, index |-> 0]
  /\ env = [tries |-> 0, first |-> None, same |-> TRUE, ok |-> FALSE]

\* What goes out in the owner's name is one card
Cards(text) == IF state.user THEN <<text>> ELSE SplitMessage(text)

\* requireApproval
Approved == state.user => state.approved

\* The caller tries again under the same suffix, as a rule with the same text
SendCard(t) ==
  /\ state.kind = "send" /\ run.pc = "idle" /\ ~env.ok /\ env.tries < MaxTries /\ Approved
  /\ LET text == Written(t, IF env.first = None \/ t = env.first THEN 1 ELSE 2) IN
     run' = [pc |-> "sending", text |-> text, chunks |-> Cards(text), index |-> 1]
  /\ env' = [env EXCEPT !.tries = @ + 1, !.first = IF @ = None THEN t ELSE @, !.same = @ /\ env.first \in {None, t}]
  /\ UNCHANGED state

\* Lark delivers what it has not got under the key yet
Delivered(i, chunk) == IF i <= Len(state.got) THEN state.got ELSE Append(state.got, chunk)

\* Faulty variant: a failing card does not end the call
ChunkFailsSilently ==
  /\ state.kind = "send" /\ run.pc = "sending"
  /\ run' = IF run.index = Len(run.chunks) THEN [run EXCEPT !.pc = "idle"] ELSE [run EXCEPT !.index = @ + 1]
  /\ env' = [env EXCEPT !.ok = run.index = Len(run.chunks)]
  /\ UNCHANGED state

\* The command fails, or the process dies, before or after the delivery
ChunkFails ==
  /\ state.kind = "send" /\ run.pc = "sending"
  /\ state' \in {state, [state EXCEPT !.got = Delivered(run.index, run.chunks[run.index])]}
  /\ run' = [run EXCEPT !.pc = "idle"]
  /\ UNCHANGED env

ChunkSent ==
  /\ state.kind = "send" /\ run.pc = "sending"
  /\ state' = [state EXCEPT !.got = Delivered(run.index, run.chunks[run.index])]
  /\ run' = IF run.index = Len(run.chunks) THEN [run EXCEPT !.pc = "idle"] ELSE [run EXCEPT !.index = @ + 1]
  /\ env' = [env EXCEPT !.ok = run.index = Len(run.chunks)]

Send == (\E t \in Texts : SendCard(t)) \/ ChunkFails \/ ChunkSent

-----------------------------------------------------------------------------
(* search: the messages of a window, over batches of chats, or of one chat *)

Posts == Chats \X (1..2)
Calls == {"search", "range", "since"}

InitSearch ==
  /\ \E posts \in SUBSET Posts, call \in Calls : state = [kind |-> "search", call |-> call, posts |-> posts]
  /\ run = [pc |-> "asking", todo |-> IF state.call = "search" THEN Chats ELSE {Min(Chats)}, got |-> {}]
  /\ env = [steady |-> state.posts, ever |-> state.posts, cut |-> FALSE, moves |-> 0]

\* Somebody takes a message back; what is new is after the window
Recall ==
  /\ state.kind = "search" /\ run.pc = "asking" /\ env.moves < MaxMoves
  /\ \E p \in state.posts :
       /\ state' = [state EXCEPT !.posts = @ \ {p}]
       /\ env' = [env EXCEPT !.steady = @ \ {p}, !.moves = @ + 1]
  /\ UNCHANGED run

FirstOf(s, n) == {x \in s : Cardinality({y \in s : y[2] < x[2] \/ (y[2] = x[2] /\ y[1] <= x[1])}) <= n}

\* Faulty variant: a range is taken as far as its pages go
SearchBatchCut ==
  /\ state.kind = "search" /\ run.pc = "asking" /\ run.todo # {}
  /\ LET asked == {c \in run.todo : Cardinality({d \in run.todo : d <= c}) <= Batch}
         found == {p \in state.posts : p[1] \in asked}
         page == FirstOf(found, PageSize) IN
     \/ run' = [run EXCEPT !.pc = "failed"] /\ UNCHANGED env
     \/ /\ run' = [run EXCEPT !.todo = @ \ asked, !.got = @ \cup page]
        /\ env' = [env EXCEPT !.cut = @ \/ (page # found /\ state.call # "range")]
  /\ UNCHANGED state

\* The pages of a search and of what came since are limited; a range that is not complete is refused
SearchBatch ==
  /\ state.kind = "search" /\ run.pc = "asking" /\ run.todo # {}
  /\ LET asked == {c \in run.todo : Cardinality({d \in run.todo : d <= c}) <= Batch}
         found == {p \in state.posts : p[1] \in asked}
         page == FirstOf(found, PageSize) IN
     \/ run' = [run EXCEPT !.pc = "failed"] /\ UNCHANGED env
     \/ /\ state.call = "range" => page = found
        /\ run' = [run EXCEPT !.todo = @ \ asked, !.got = @ \cup page]
        /\ env' = [env EXCEPT !.cut = @ \/ page # found]
  /\ UNCHANGED state

SearchDone ==
  /\ state.kind = "search" /\ run.pc = "asking" /\ run.todo = {}
  /\ run' = [run EXCEPT !.pc = "done"]
  /\ UNCHANGED <<state, env>>

Search == Recall \/ SearchBatch \/ SearchDone

-----------------------------------------------------------------------------
(* survey: shortcuts by page, feed groups one by one, settings by batches of the chats *)

Facts == [pinned : SUBSET Chats, grouped : SUBSET (Chats \X Groups), muted : SUBSET Chats]

InitSurvey ==
  /\ \E f \in Facts : state = [kind |-> "survey", facts |-> f]
  /\ run = [pc |-> "chats", chats |-> {}, after |-> 0, page |-> 0, partial |-> {}, todo |-> {}, pinned |-> {}, grouped |-> {},
            muted |-> {}, errors |-> {}]
  /\ env = [steady |-> state.facts, ever |-> state.facts, moves |-> 0]

\* The owner pins, groups and mutes while the survey runs
OwnerArranges ==
  /\ state.kind = "survey" /\ run.pc \notin {"done", "failed"} /\ env.moves < MaxMoves
  /\ \E c \in Chats, g \in Groups :
       LET f == state.facts
           flip(s, x) == IF x \in s THEN s \ {x} ELSE s \cup {x}
           new == {[f EXCEPT !.pinned = flip(@, c)], [f EXCEPT !.grouped = flip(@, <<c, g>>)], [f EXCEPT !.muted = flip(@, c)]} IN
       \E n \in new :
         /\ state' = [state EXCEPT !.facts = n]
         /\ env' = [moves |-> env.moves + 1,
                    steady |-> [k \in DOMAIN n |-> env.steady[k] \cap n[k]], ever |-> [k \in DOMAIN n |-> env.ever[k] \cup n[k]]]
  /\ UNCHANGED run

\* Without the chats there is no survey
ListChats ==
  /\ state.kind = "survey" /\ run.pc = "chats"
  /\ run' \in {[run EXCEPT !.pc = "failed"], [run EXCEPT !.pc = "pinned", !.chats = Chats]}
  /\ UNCHANGED <<state, env>>

\* A source that fails is named, and contributes nothing
SourceFails(source, next) ==
  run' = [run EXCEPT !.pc = next, !.partial = {}, !.todo = {}, !.errors = @ \cup {source}]

\* Faulty variant: the first page is taken for the list
PinnedPageFirst ==
  /\ state.kind = "survey" /\ run.pc = "pinned"
  /\ LET rest == {c \in state.facts.pinned : c > run.after}
         page == {c \in rest : Cardinality({d \in rest : d <= c}) <= PageSize} IN
     \/ SourceFails("pinned", "groups")
     \/ run' = [run EXCEPT !.pc = "groups", !.pinned = run.partial \cup page, !.partial = {}]
  /\ UNCHANGED <<state, env>>

\* listFeedShortcutConversations: the page after the token, until there is no more or the limit is reached
PinnedPage ==
  /\ state.kind = "survey" /\ run.pc = "pinned"
  /\ LET rest == {c \in state.facts.pinned : c > run.after}
         page == {c \in rest : Cardinality({d \in rest : d <= c}) <= PageSize} IN
     \/ SourceFails("pinned", "groups")
     \/ /\ page = rest /\ run.page < MaxPages
        /\ run' = [run EXCEPT !.pc = "groups", !.pinned = run.partial \cup page, !.partial = {}]
     \/ /\ page # rest /\ run.page < MaxPages
        /\ run' = [run EXCEPT !.after = Max(page), !.page = @ + 1, !.partial = @ \cup page]
  /\ UNCHANGED <<state, env>>

ListFeedGroups ==
  /\ state.kind = "survey" /\ run.pc = "groups"
  /\ \/ SourceFails("feed_group", "settings")
     \/ run' = [run EXCEPT !.pc = "items", !.todo = Groups]
  /\ UNCHANGED <<state, env>>

\* Faulty variant: a group that cannot be read is left out
GroupItemsSkipping ==
  /\ state.kind = "survey" /\ run.pc = "items"
  /\ IF run.todo = {}
     THEN run' = [run EXCEPT !.pc = "settings", !.grouped = run.partial, !.partial = {}]
     ELSE \E g \in run.todo :
            run' \in {[run EXCEPT !.todo = @ \ {g}],
                      [run EXCEPT !.todo = @ \ {g}, !.partial = @ \cup {p \in state.facts.grouped : p[2] = g}]}
  /\ UNCHANGED <<state, env>>

GroupItems ==
  /\ state.kind = "survey" /\ run.pc = "items"
  /\ IF run.todo = {}
     THEN run' = [run EXCEPT !.pc = "settings", !.grouped = run.partial, !.partial = {}]
     ELSE \/ SourceFails("feed_group", "settings")
          \/ \E g \in run.todo :
               run' = [run EXCEPT !.todo = @ \ {g}, !.partial = @ \cup {p \in state.facts.grouped : p[2] = g}]
  /\ UNCHANGED <<state, env>>

\* listGroupNotificationSettings: "chats" are those still to ask about
SettingsBatch ==
  /\ state.kind = "survey" /\ run.pc = "settings"
  /\ IF run.chats = {}
     THEN run' = [run EXCEPT !.pc = "done", !.muted = run.partial, !.partial = {}]
     ELSE LET asked == {c \in run.chats : Cardinality({d \in run.chats : d <= c}) <= Batch} IN
          \/ SourceFails("notification_setting", "done")
          \/ run' = [run EXCEPT !.chats = @ \ asked, !.partial = @ \cup (asked \cap state.facts.muted)]
  /\ UNCHANGED <<state, env>>

Survey == OwnerArranges \/ ListChats \/ PinnedPage \/ ListFeedGroups \/ GroupItems \/ SettingsBatch

-----------------------------------------------------------------------------
(* context: a message a minute at most, known by its minute *)

InitContext ==
  /\ \E chat \in SUBSET Minutes : \E target \in chat, direct \in BOOLEAN, terse \in BOOLEAN :
       \E now \in {m \in Minutes : m >= target}, ref \in {None} \cup {m \in chat : m < target} :
         state = [kind |-> "context", chat |-> {m \in chat : m <= now}, target |-> target, now |-> now, direct |-> direct,
                  terse |-> terse, ref |-> ref]
  /\ run = [pc |-> "nearby", nearby |-> <<>>, references |-> <<>>, history |-> <<>>, latest |-> <<>>]
  /\ env = 0

Ascending(s) == SetToSortSeq(s, LAMBDA a, b : a < b)
Between(from, to) == {m \in state.chat : from <= m /\ m <= to}
\* The pages that are read are the first ones of the order
Oldest(s, n) == Ascending({m \in s : Cardinality({k \in s : k <= m}) <= n})
Newest(s, n) == Ascending({m \in s : Cardinality({k \in s : k >= m}) <= n})

Nearby ==
  /\ state.kind = "context" /\ run.pc = "nearby"
  /\ run' \in {[run EXCEPT !.pc = "failed"],
               [run EXCEPT !.pc = "references", !.nearby = Oldest(Between(state.target - Radius, state.target + Radius), NearMax)]}
  /\ UNCHANGED <<state, env>>

\* What it refers to, and a direct chat's history, are wanted and not needed
References ==
  /\ state.kind = "context" /\ run.pc = "references"
  /\ run' \in {[run EXCEPT !.pc = "history"],
               [run EXCEPT !.pc = "history", !.references = IF state.ref = None THEN <<>> ELSE <<state.ref>>]}
  /\ UNCHANGED <<state, env>>

History ==
  /\ state.kind = "context" /\ run.pc = "history"
  /\ LET asked == state.direct /\ (state.terse \/ state.ref # None) IN
     run' \in {[run EXCEPT !.pc = "latest"],
               [run EXCEPT !.pc = "latest", !.history = IF asked THEN Newest(Between(0, state.target), HistoryMax) ELSE <<>>]}
  /\ UNCHANGED <<state, env>>

\* Faulty variant: the tail is read from its beginning
LatestFirst ==
  /\ state.kind = "context" /\ run.pc = "latest"
  /\ run' \in IF state.now <= state.target + Radius THEN {[run EXCEPT !.pc = "done"]}
              ELSE {[run EXCEPT !.pc = "failed"],
                    [run EXCEPT !.pc = "done", !.latest = Oldest(Between(state.target, state.now), TailMax)]}
  /\ UNCHANGED <<state, env>>

Latest ==
  /\ state.kind = "context" /\ run.pc = "latest"
  /\ run' \in IF state.now <= state.target + Radius THEN {[run EXCEPT !.pc = "done"]}
              ELSE {[run EXCEPT !.pc = "failed"],
                    [run EXCEPT !.pc = "done", !.latest = Newest(Between(state.target, state.now), TailMax)]}
  /\ UNCHANGED <<state, env>>

\* Faulty variant: the parts are put one after the other
MergedAll == run.history \o run.references \o run.nearby \o run.latest

\* A message stays where it came first
Merged ==
  LET all == run.history \o run.references \o run.nearby \o run.latest
      fresh == {i \in 1..Len(all) : \A j \in 1..(i - 1) : all[j] # all[i]} IN
  [k \in 1..Cardinality(fresh) |-> all[Ascending(fresh)[k]]]

Context == Nearby \/ References \/ History \/ Latest

-----------------------------------------------------------------------------
(* listen: events are lines of what the listener's process writes *)

InitListen ==
  /\ \E t \in Texts : state = [kind |-> "listen", stream |-> Written(t, 1)]
  /\ run = [buffer |-> <<>>, read |-> 0, handled |-> <<>>]
  /\ env = 0

Breaks(s) == {i \in 1..Len(s) : s[i] = 0}
LastBreak(s) == IF Breaks(s) = {} THEN 0 ELSE Max(Breaks(s))
Complete(s) == SubSeq(s, 1, LastBreak(s))
Unfinished(s) == SubSeq(s, LastBreak(s) + 1, Len(s))
\* The lines that are not blank
Events(s) ==
  LET starts == {i \in 1..Len(s) : s[i] # 0 /\ (i = 1 \/ s[i - 1] = 0)}
      end(i) == Min({j \in Breaks(s) : j > i}) IN
  [k \in 1..Cardinality(starts) |-> LET i == SetToSortSeq(starts, LAMBDA a, b : a < b)[k] IN SubSeq(s, i, end(i) - 1)]

\* Faulty variant: what does not end with a line break is dropped
OnDataDropping(n) ==
  /\ state.kind = "listen" /\ n <= Len(state.stream) - run.read
  /\ LET all == run.buffer \o SubSeq(state.stream, run.read + 1, run.read + n) IN
     run' = [buffer |-> <<>>, read |-> run.read + n, handled |-> run.handled \o Events(Complete(all))]
  /\ UNCHANGED <<state, env>>

\* Data comes in pieces of any length, and the process may end after any of them
OnData(n) ==
  /\ state.kind = "listen" /\ n <= Len(state.stream) - run.read
  /\ LET all == run.buffer \o SubSeq(state.stream, run.read + 1, run.read + n) IN
     run' = [buffer |-> Unfinished(all), read |-> run.read + n, handled |-> run.handled \o Events(Complete(all))]
  /\ UNCHANGED <<state, env>>

Listen == \E n \in 1..MaxLength : OnData(n)

-----------------------------------------------------------------------------
(* process: the command a call runs *)

Ends == {"success", "failure", "sigterm", "code143", "sigkill"}

InitProcess ==
  /\ \E deadline \in BOOLEAN : state = [kind |-> "process", life |-> "none", end |-> None, pipes |-> TRUE, written |-> 0, deadline |-> deadline]
  /\ run = [timer |-> "off", read |-> 0, result |-> None]
  /\ env = [term |-> FALSE]

Spawn ==
  /\ state.kind = "process" /\ state.life = "none" /\ run.result = None
  /\ \/ state' = [state EXCEPT !.life = "running"] /\ run' = [run EXCEPT !.timer = IF state.deadline THEN "armed" ELSE "off"]
     \/ state' = [state EXCEPT !.life = "never"] /\ run' = [run EXCEPT !.result = [error |-> TRUE, timedOut |-> FALSE, read |-> 0]]
  /\ UNCHANGED env

\* The process, or one it has started, writes
Writes ==
  /\ state.kind = "process" /\ state.life \in {"running", "exited"} /\ state.pipes /\ state.written < 2
  /\ state' = [state EXCEPT !.written = @ + 1]
  /\ UNCHANGED <<run, env>>

Reads ==
  /\ state.kind = "process" /\ run.read < state.written
  /\ run' = [run EXCEPT !.read = @ + 1]
  /\ UNCHANGED <<state, env>>

\* Once the process has gone the signal reaches nobody
Deadline ==
  /\ state.kind = "process" /\ run.timer = "armed"
  /\ run' = [run EXCEPT !.timer = "fired"]
  /\ env' = [env EXCEPT !.term = state.life = "running"]
  /\ UNCHANGED state

\* A process may ignore the signal, and end as it likes; another may kill it
Exits(end) ==
  /\ state.kind = "process" /\ state.life = "running"
  /\ end \in {"sigterm", "code143"} => env.term
  /\ state' = [state EXCEPT !.life = "exited", !.end = end]
  /\ UNCHANGED <<run, env>>

\* A grandchild may hold the pipes after the process has gone
PipesClose ==
  /\ state.kind = "process" /\ state.life = "exited" /\ state.pipes
  /\ state' = [state EXCEPT !.pipes = FALSE]
  /\ UNCHANGED <<run, env>>

\* Faulty variant: the call ends when the process does
CloseAtExit ==
  /\ state.kind = "process" /\ state.life = "exited" /\ run.result = None
  /\ run' = [run EXCEPT !.timer = "off",
                        !.result = [error |-> FALSE, timedOut |-> run.timer = "fired" /\ state.end \notin {"success", "failure"}, read |-> run.read]]
  /\ UNCHANGED <<state, env>>

\* 'close': the process has gone and everything it wrote was read
Close ==
  /\ state.kind = "process" /\ state.life = "exited" /\ ~state.pipes /\ run.read = state.written /\ run.result = None
  /\ run' = [run EXCEPT !.timer = "off",
                        !.result = [error |-> FALSE, timedOut |-> run.timer = "fired" /\ state.end \notin {"success", "failure"}, read |-> run.read]]
  /\ UNCHANGED <<state, env>>

Process == Spawn \/ Writes \/ Reads \/ Deadline \/ (\E end \in Ends : Exits(end)) \/ PipesClose \/ Close

-----------------------------------------------------------------------------

Init ==
  \/ "send" \in Kinds /\ InitSend
  \/ "search" \in Kinds /\ InitSearch
  \/ "survey" \in Kinds /\ InitSurvey
  \/ "context" \in Kinds /\ InitContext
  \/ "listen" \in Kinds /\ InitListen
  \/ "process" \in Kinds /\ InitProcess

Next == Send \/ Search \/ Survey \/ Context \/ Listen \/ Process

-----------------------------------------------------------------------------
(* Properties *)

\* However often a text is tried, the reader never gets a piece twice, out of its place or too long, and once a call has
\* ended well he has the whole of it, all of one text if it has not been changed on the way.
SendHolds ==
  state.kind = "send" =>
    LET chunks == Cards(run.text) IN
    /\ \A i \in 1..Len(state.got) : Len(state.got[i]) <= MaxChars \/ state.user
    /\ state.user /\ state.got # <<>> => state.approved
    /\ env.same => \A i \in 1..Len(state.got) : i <= Len(chunks) /\ state.got[i] = chunks[i]
    /\ env.ok => Len(state.got) >= Len(chunks)
    /\ env.ok /\ env.same => Letters(FlattenSeq(state.got)) = Letters(run.text)

\* A search finds all that was there all the time unless its pages were cut, and the pages of a range never are
SearchHolds ==
  state.kind = "search" /\ run.pc = "done" =>
    /\ env.cut \/ {p \in env.steady : state.call # "search" => p[1] = Min(Chats)} \subseteq run.got
    /\ run.got \subseteq env.ever
    /\ state.call = "range" => ~env.cut

\* Every line the listener has written to its end is handled once, in order, however its data was cut
ListenHolds == state.kind = "listen" => run.handled = Events(Complete(SubSeq(state.stream, 1, run.read)))

\* What has held all the time is in the survey and what has never held is not, but for the sources it names
SurveyHolds ==
  state.kind = "survey" /\ run.pc = "done" =>
    /\ "pinned" \notin run.errors => env.steady.pinned \subseteq run.pinned
    /\ "feed_group" \notin run.errors => env.steady.grouped \subseteq run.grouped
    /\ "notification_setting" \notin run.errors => env.steady.muted \subseteq run.muted
    /\ run.pinned \subseteq env.ever.pinned /\ run.grouped \subseteq env.ever.grouped /\ run.muted \subseteq env.ever.muted
    /\ "pinned" \in run.errors => run.pinned = {}
    /\ "feed_group" \in run.errors => run.grouped = {}

\* A context has no message twice and keeps the order of the chat; a late try sees the newest messages, and the message
\* itself is there unless the chat was too busy before it
ContextHolds ==
  state.kind = "context" /\ run.pc = "done" =>
    LET m == Merged
        own == SelectSeq(m, LAMBDA x : x \notin Range(run.history) \cup Range(run.references)) IN
    /\ Cardinality(Range(m)) = Len(m)
    /\ \A i \in 1..(Len(own) - 1) : own[i] < own[i + 1]
    /\ state.now > state.target + Radius =>
         \A x \in Between(state.target, state.now) : Cardinality(Between(x, state.now)) <= TailMax => x \in Range(m)
    /\ Cardinality(Between(state.target - Radius, state.target)) <= NearMax => state.target \in Range(m)

\* A call ends once, with all that was written, and is late only if its deadline has passed
ProcessHolds ==
  state.kind = "process" /\ run.result # None /\ ~run.result.error =>
    /\ run.result.read = state.written /\ state.life = "exited"
    /\ run.result.timedOut => state.deadline
    /\ env.term /\ state.end = "sigterm" => run.result.timedOut

LarkInvariant == SendHolds /\ SearchHolds /\ SurveyHolds /\ ContextHolds /\ ListenHolds /\ ProcessHolds
=============================================================================

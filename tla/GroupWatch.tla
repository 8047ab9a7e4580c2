------------------------------- MODULE GroupWatch -------------------------------
(***************************************************************************)
(* Which conversations the bridge watches, and how it learns that its      *)
(* owner was invited to a group: flags, pinned chats, feed groups and mute *)
(* settings read from Lark, the membership event and the comparison of the *)
(* groups that makes up for a lost one                                     *)
(* (src/packages/bridge-compat/src/mention-monitor.js, lark-client.js).    *)
(***************************************************************************)
EXTENDS FiniteSets, Naturals

CONSTANTS
  Chats,
  Configured,     \* chats the configuration watches
  Invitable,      \* chats the delegation's inviter may add the owner to
  MaxMoves, MaxFailures, MaxCrashes     \* bounds

VARIABLES
  state,     \* the bridge's record, in memory and on disk
  run,       \* the poll's step, the groups listed, those to look at; an event being handled
  env        \* what Lark holds: groups, invitations, events under way; the counters

Sources == {"pinned", "feed_group"}
Settings == Sources \cup {"notification_setting"}
Watching == Sources \cup {"active_flag", "owner_configured"}

\* A record's signals are named after the event or after the system message that shows the invitation
Signal(by, c) == <<by, c>>

NoProfile == [sources |-> {}, muted |-> FALSE]
Empty == [profiles |-> [c \in Chats |-> NoProfile], flags |-> {}, delegated |-> {}, known |-> {}, synced |-> FALSE,
          signals |-> {}, failing |-> {}]
Idle == [pc |-> "off", listed |-> {}, todo |-> {}]

Init ==
  /\ state = [mem |-> Empty, disk |-> Empty]
  /\ run = Idle
  /\ env = [groups |-> Chats \ Invitable, events |-> {}, holds |-> [s \in Settings \cup {"active_flag"} |-> {}],
            baseline |-> {}, unseen |-> {}, raced |-> {}, read |-> {}, moves |-> 0, failures |-> 0, crashes |-> 0]

M == state.mem
Keeps(m) == state' = [mem |-> m, disk |-> m]
Fails == env.failures < MaxFailures

-----------------------------------------------------------------------------
(* How much a conversation is watched *)

Score(sources, muted, allMuted) ==
  LET points(s, n) == IF s \in sources THEN n ELSE 0
      plus == points("pinned", 4) + points("owner_configured", 4) + points("active_flag", 3) + points("feed_group", 2)
      minus == (IF muted THEN 2 ELSE 0) + (IF allMuted THEN 1 ELSE 0) IN
  IF plus > minus THEN plus - minus ELSE 0

\* Minutes before a message of the conversation is looked at
Settles(sources, muted, allMuted) ==
  LET n == Score(sources, muted, allMuted) IN
  IF muted THEN IF n >= 4 THEN 15 ELSE 30
  ELSE IF n >= 4 THEN 10 ELSE IF n >= 2 THEN 15 ELSE 30

SourcesOf(m, c) == m.profiles[c].sources \cup (IF c \in m.flags THEN {"active_flag"} ELSE {})
                   \cup (IF c \in Configured THEN {"owner_configured"} ELSE {})
Watched(m) == {c \in Chats : SourcesOf(m, c) # {}}

-----------------------------------------------------------------------------
(* The poll *)

StartPoll ==
  /\ run.pc = "off"
  /\ run' = [Idle EXCEPT !.pc = "flags"]
  /\ UNCHANGED <<state, env>>

\* The first failure is kept until the next success
SyncFlags ==
  /\ run.pc = "flags"
  /\ run' = [run EXCEPT !.pc = "attention"]
  /\ \/ Keeps([M EXCEPT !.flags = env.holds["active_flag"], !.failing = @ \ {"flags"}])
        /\ env' = [env EXCEPT !.read = {"active_flag"}]
     \/ /\ Fails /\ env' = [env EXCEPT !.failures = @ + 1, !.read = {}]
        /\ IF "flags" \in M.failing THEN UNCHANGED state ELSE Keeps([M EXCEPT !.failing = @ \cup {"flags"}])

\* Faulty variant: a source that could not be read is taken for empty
AttentionFresh(old, c, failed) ==
  [sources |-> {s \in Sources \ failed : c \in env.holds[s]},
   muted |-> "notification_setting" \notin failed /\ c \in env.holds["notification_setting"]]

\* What a source that failed had said of the conversation is kept
Attention(old, c, failed) ==
  [sources |-> {s \in Sources : IF s \in failed THEN s \in old.sources ELSE c \in env.holds[s]},
   muted |-> IF "notification_setting" \in failed THEN old.muted ELSE c \in env.holds["notification_setting"]]

SyncAttention ==
  /\ run.pc = "attention"
  /\ run' = [run EXCEPT !.pc = "list"]
  /\ \/ \E failed \in SUBSET Settings :
          /\ failed # {} => Fails
          /\ env' = [env EXCEPT !.failures = IF failed = {} THEN @ ELSE @ + 1, !.read = Settings \ failed]
          /\ Keeps([M EXCEPT !.profiles = [c \in Chats |-> Attention(M.profiles[c], c, failed)], !.failing = @ \ {"attention"}])
     \/ /\ Fails /\ env' = [env EXCEPT !.failures = @ + 1, !.read = {}]
        /\ Keeps([M EXCEPT !.failing = @ \cup {"attention"}])

SyncFails == Keeps([M EXCEPT !.failing = @ \cup {"groups"}]) /\ run' = Idle

AskGroups ==
  /\ run.pc = "list"
  /\ run' = [run EXCEPT !.pc = "listed", !.listed = env.groups]
  /\ UNCHANGED <<state, env>>

\* The first list is the baseline, if no event came first
ListGroups ==
  /\ run.pc = "listed"
  /\ \/ /\ M.known = {} /\ ~M.synced
        /\ Keeps([M EXCEPT !.known = run.listed, !.synced = TRUE, !.failing = @ \ {"groups"}])
        /\ run' = Idle /\ env' = [env EXCEPT !.baseline = run.listed]
     \/ /\ M.known # {} \/ M.synced
        /\ run' = [run EXCEPT !.pc = "look", !.todo = run.listed \ M.known]
        /\ UNCHANGED <<state, env>>
     \/ Fails /\ SyncFails /\ env' = [env EXCEPT !.failures = @ + 1]

\* ingestDelegationSignal
Ingested(m, id) ==
  [m EXCEPT !.delegated = @ \cup {id[2]}, !.known = @ \cup {id[2]}, !.signals = @ \cup {id}]

Ingest(id) == Keeps(Ingested(M, id))

\* The system message may be missing among those that were read
Look(c) ==
  /\ run.pc = "look" /\ c \in run.todo
  /\ run' = [run EXCEPT !.todo = @ \ {c}]
  /\ \/ c \in Invitable /\ Ingest(Signal("message", c)) /\ UNCHANGED env
     \/ env' = [env EXCEPT !.unseen = @ \cup {c}] /\ UNCHANGED state

\* Faulty variant: the groups are known before they were looked at
LookFailsKnown ==
  /\ run.pc = "look" /\ run.todo # {} /\ Fails
  /\ env' = [env EXCEPT !.failures = @ + 1]
  /\ Keeps([M EXCEPT !.failing = @ \cup {"groups"}, !.known = run.listed]) /\ run' = Idle

\* A group that could not be read leaves the baseline as it was, so that the next poll looks at all again
LookFails ==
  /\ run.pc = "look" /\ run.todo # {} /\ Fails
  /\ env' = [env EXCEPT !.failures = @ + 1]
  /\ SyncFails

\* What an event added meanwhile is dropped
FinishSync ==
  /\ run.pc = "look" /\ run.todo = {}
  /\ Keeps([M EXCEPT !.known = run.listed, !.synced = TRUE, !.failing = @ \ {"groups"}])
  /\ run' = Idle
  /\ UNCHANGED env

-----------------------------------------------------------------------------
(* Events, the owner, crashes *)

Realtime(c) ==
  /\ c \in env.events
  /\ Ingest(Signal("event", c))
  /\ env' = [env EXCEPT !.events = @ \ {c}, !.raced = IF run.pc \in {"listed", "look"} \/ Signal("message", c) \in M.signals THEN @ \cup {c} ELSE @]
  /\ UNCHANGED run

Invite(c) ==
  /\ c \in Invitable \ env.groups
  /\ env' = [env EXCEPT !.groups = @ \cup {c}, !.events = @ \cup {c}]
  /\ UNCHANGED <<state, run>>

LoseEvent(c) ==
  /\ c \in env.events
  /\ env' = [env EXCEPT !.events = @ \ {c}]
  /\ UNCHANGED <<state, run>>

\* The owner pins, flags, sorts or mutes a conversation, or undoes it
OwnerMoves(s, c) ==
  /\ env.moves < MaxMoves
  /\ env' = [env EXCEPT !.moves = @ + 1, !.holds[s] = IF c \in @ THEN @ \ {c} ELSE @ \cup {c}]
  /\ UNCHANGED <<state, run>>

Crash ==
  /\ env.crashes < MaxCrashes
  /\ env' = [env EXCEPT !.crashes = @ + 1]
  /\ run' = Idle /\ state' = [state EXCEPT !.mem = state.disk]

Next ==
  \/ StartPoll \/ SyncFlags \/ SyncAttention \/ AskGroups \/ ListGroups \/ LookFails \/ FinishSync \/ Crash
  \/ \E c \in Chats : \/ Look(c) \/ Realtime(c) \/ Invite(c) \/ LoseEvent(c)
                      \/ \E s \in Settings \cup {"active_flag"} : OwnerMoves(s, c)

-----------------------------------------------------------------------------
(* Properties *)

Signalled(c) == {s \in M.signals : s[2] = c}

\* An invitation that the comparison has passed over was in the baseline, was signalled, or its message was not found;
\* it is signalled once, unless its event came while the groups were being looked at or after they were; and a muted
\* conversation, or one with fewer reasons to be watched, is never looked at sooner.
WatchInvariant ==
  /\ \A c \in M.known \cap Invitable : c \in env.baseline \cup env.unseen \/ Signalled(c) # {}
  /\ \A c \in Chats : Cardinality(Signalled(c)) > 1 => c \in env.raced
  /\ M.delegated = {s[2] : s \in M.signals}
  /\ state.mem = Empty => \A s \in SUBSET Watching, t \in SUBSET Watching, a \in BOOLEAN :
       s \subseteq t => /\ Settles(t, FALSE, a) <= Settles(s, FALSE, a) /\ Settles(t, TRUE, a) <= Settles(s, TRUE, a)
                        /\ Settles(t, FALSE, a) <= Settles(t, TRUE, a)

\* A conversation is watched no longer, and no mute is dropped, unless Lark was asked and said so; and no signal is lost
WatchStep ==
  /\ \A c \in Chats, s \in Sources :
       s \in M.profiles[c].sources \ state'.mem.profiles[c].sources => s \in env'.read /\ c \notin env.holds[s]
  /\ \A c \in Chats :
       M.profiles[c].muted /\ ~state'.mem.profiles[c].muted => "notification_setting" \in env'.read /\ c \notin env.holds["notification_setting"]
  /\ Watched(M) \ Watched(state'.mem) # {} => env'.read # {}
  /\ M.signals \subseteq state'.mem.signals
=============================================================================

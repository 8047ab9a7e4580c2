----------------------------- MODULE CompatProcess -----------------------------
(***************************************************************************)
(* The bridge as a child of the platform: CompatRuntime starts it, reads   *)
(* from its output which consumers are ready, and stops it                 *)
(* (src/src/runtime/compat.ts, child-process.ts).  In the bridge: the loss *)
(* of a consumer ends it, but for the consumer of the cards, which it      *)
(* starts again (src/packages/bridge-compat/src/index.js).                 *)
(***************************************************************************)
EXTENDS Naturals, FiniteSets

CONSTANTS
  Keys,          \* consumers the configuration requires besides the cards
  Urls,          \* setup links that a refused consumer of cards may print
  None,
  MaxFailures,   \* bound: listeners lost, sends and saves that fail
  MaxTicks       \* bound: card listeners started

VARIABLES
  state,     \* failure of the cards, in memory and on disk, and what was sent
  run,       \* the parent's runtime and the bridge process
  env        \* lines printed and not read, failures so far

Required == Keys \cup {"cards"}

Fresh == [proc |-> "off", cards |-> "off", timer |-> FALSE, stopping |-> FALSE, saving |-> FALSE,
          rec |-> [pc |-> "off", why |-> "lost"]]

Init ==
  /\ state = [mem |-> None, disk |-> None, told |-> 0, recovered |-> 0]
  /\ run = [child |-> FALSE, snap |-> "stopped", ready |-> {}, reported |-> FALSE, wait |-> "no", stop |-> "no",
            missed |-> FALSE, bridge |-> Fresh]
  /\ env = [lines |-> {}, late |-> FALSE, failures |-> 0, ticks |-> 0, printed |-> {}]

B == run.bridge
Up == B.proc = "up"
Sets(b) == run' = [run EXCEPT !.bridge = b]
Fails == env.failures < MaxFailures /\ env' = [env EXCEPT !.failures = @ + 1]

-----------------------------------------------------------------------------
(* The parent *)

\* A child that could not be spawned stays with the runtime
Start ==
  /\ ~run.child /\ run.wait = "no" /\ run.snap = "stopped" /\ run.stop = "no"
  /\ \/ /\ run' = [run EXCEPT !.child = TRUE, !.snap = "starting", !.wait = "ready",
                              !.bridge = [Fresh EXCEPT !.proc = "up", !.cards = "on"]]
        /\ state' = [state EXCEPT !.mem = state.disk]
        /\ UNCHANGED env
     \/ /\ Fails
        /\ run' = [run EXCEPT !.child = TRUE, !.snap = "failed", !.reported = TRUE, !.wait = "threw", !.bridge.proc = "gone"]
        /\ UNCHANGED state

\* Faulty variant: one consumer that is ready makes the runtime ready
ObserveAny(key) ==
  /\ key \in env.lines
  /\ run' = [run EXCEPT !.ready = @ \cup {key}, !.snap = "ready"]
  /\ env' = [env EXCEPT !.lines = @ \ {key}, !.late = @ \/ B.proc # "up"]
  /\ UNCHANGED state

\* What was written before the exit may be read after it
Observe(key) ==
  /\ key \in env.lines
  /\ run' = [run EXCEPT !.ready = @ \cup {key},
                        !.snap = IF run.ready \cup {key} = Required THEN "ready" ELSE @]
  /\ env' = [env EXCEPT !.lines = @ \ {key}, !.late = @ \/ B.proc # "up"]
  /\ UNCHANGED state

Ready ==
  /\ run.wait = "ready" /\ run.snap \in {"ready", "failed"}
  /\ run' = [run EXCEPT !.wait = IF run.snap = "ready" THEN "done" ELSE "threw"]
  /\ UNCHANGED <<state, env>>

ReadyTimeout ==
  /\ run.wait = "ready" /\ run.snap # "ready"
  /\ run' = [run EXCEPT !.wait = "threw", !.snap = "degraded"]
  /\ UNCHANGED <<state, env>>

\* The signal reaches the bridge, which may be about to end.  A child that could not be
\* spawned has a negative exitCode, not null: stop() returns at once, as for one that exited.
Stop ==
  /\ run.stop = "no" /\ run.wait \in {"done", "threw"}
  /\ IF ~run.child \/ B.proc = "gone" THEN run' = [run EXCEPT !.stop = "returned"]
     ELSE run' = [run EXCEPT !.child = FALSE, !.stop = "waits",
                             !.bridge = IF Up THEN [B EXCEPT !.stopping = TRUE, !.timer = FALSE] ELSE B]
  /\ UNCHANGED <<state, env>>

\* Faulty variant: the child is forgotten when it does not stop
StopTimeoutForgotten ==
  /\ run.stop = "waits"
  /\ run' = [run EXCEPT !.stop = "threw", !.snap = "degraded"]
  /\ UNCHANGED <<state, env>>

\* SIGKILL is never used
StopTimeout ==
  /\ run.stop = "waits"
  /\ run' = [run EXCEPT !.stop = "threw", !.child = TRUE, !.snap = "degraded"]
  /\ UNCHANGED <<state, env>>

\* Faulty variant: every exit is taken for expected
ExitedQuietly ==
  /\ B.proc = "ended"
  /\ run' = [run EXCEPT !.child = FALSE, !.bridge.proc = "gone", !.snap = "stopped",
                        !.missed = run.child,
                        !.stop = IF run.stop = "waits" THEN "returned" ELSE @]
  /\ UNCHANGED <<state, env>>

Exited ==
  /\ B.proc = "ended"
  /\ run' = [run EXCEPT !.child = FALSE, !.bridge.proc = "gone",
                        !.snap = IF run.child THEN "failed" ELSE "stopped",
                        !.reported = run.child, !.missed = run.child,
                        !.ready = IF run.stop = "waits" THEN {} ELSE @,
                        !.stop = IF run.stop = "waits" THEN "returned" ELSE @]
  /\ UNCHANGED <<state, env>>

-----------------------------------------------------------------------------
(* The bridge *)

Ends(b) == [b EXCEPT !.proc = "ended", !.cards = "off", !.timer = FALSE, !.saving = FALSE, !.rec.pc = "off"]

\* A consumer prints its line once it is connected
Connects(key) ==
  /\ Up /\ IF key = "cards" THEN B.cards = "on" ELSE key \notin env.printed
  /\ env' = [env EXCEPT !.lines = @ \cup {key}, !.printed = @ \cup {key}]
  /\ IF key # "cards" THEN UNCHANGED <<state, run>>
     ELSE /\ Sets([B EXCEPT !.cards = "ready",
                            !.saving = @ \/ (state.mem # None /\ state.mem.told)])
          /\ state' = [state EXCEPT !.mem = None, !.disk = None]

\* The save that drops the failure comes first; the notice may fail
TellRecovery ==
  /\ B.saving
  /\ Sets([B EXCEPT !.saving = FALSE])
  /\ \/ state' = [state EXCEPT !.recovered = @ + 1] /\ UNCHANGED env
     \/ Fails /\ UNCHANGED state

\* A listener that went, with the setup link it printed or none
CardsLost(why) ==
  /\ Up /\ B.cards # "off" /\ Fails
  /\ Sets([B EXCEPT !.cards = "off", !.rec = IF B.stopping THEN @ ELSE [pc |-> "record", why |-> why]])
  /\ UNCHANGED state

Explicit == B.rec.why # "lost"
Url == IF B.rec.why \in Urls THEN B.rec.why ELSE None
KnownUrl == IF state.mem = None THEN None ELSE state.mem.url

\* Faulty variant: an explicit refusal is told each time
RecordEach ==
  /\ B.rec.pc = "record"
  /\ state' = [state EXCEPT !.mem = [url |-> IF Url # None THEN Url ELSE KnownUrl, told |-> state.mem # None /\ state.mem.told]]
  /\ Sets([B EXCEPT !.rec.pc = IF Explicit THEN "save" ELSE "arm"])
  /\ UNCHANGED env

\* The owner is told of the first refusal and of each new link
Record ==
  /\ B.rec.pc = "record"
  /\ state' = [state EXCEPT !.mem = [url |-> IF Url # None THEN Url ELSE KnownUrl, told |-> state.mem # None /\ state.mem.told]]
  /\ Sets([B EXCEPT !.rec.pc = IF Explicit /\ (state.mem = None \/ Url \notin {None, KnownUrl}) THEN "save" ELSE "arm"])
  /\ UNCHANGED env

\* A save that fails is an unhandled rejection, which ends the process
SaveFailure ==
  /\ B.rec.pc = "save"
  /\ \/ state' = [state EXCEPT !.disk = state.mem] /\ Sets([B EXCEPT !.rec.pc = "send"]) /\ UNCHANGED env
     \/ Fails /\ Sets(Ends(B)) /\ UNCHANGED state

\* The notice is tried once
SendSetup ==
  /\ B.rec.pc = "send"
  /\ Sets([B EXCEPT !.rec.pc = "arm"])
  /\ \/ /\ state' = [state EXCEPT !.told = @ + 1, !.mem.told = TRUE, !.disk = [state.mem EXCEPT !.told = TRUE]]
        /\ UNCHANGED env
     \/ Fails /\ UNCHANGED state

\* Faulty variant: the consumer is started again only after a refusal
ArmExplicit ==
  /\ B.rec.pc = "arm"
  /\ Sets([B EXCEPT !.rec.pc = "off", !.timer = Explicit])
  /\ UNCHANGED <<state, env>>

Arm ==
  /\ B.rec.pc = "arm"
  /\ Sets([B EXCEPT !.rec.pc = "off", !.timer = TRUE])
  /\ UNCHANGED <<state, env>>

\* Faulty variant: the bridge that stops starts its consumer again
ReconnectAlways ==
  /\ Up /\ B.timer /\ env.ticks < MaxTicks
  /\ Sets([B EXCEPT !.timer = FALSE, !.cards = "on"])
  /\ env' = [env EXCEPT !.ticks = @ + 1]
  /\ UNCHANGED state

\* The timer armed by a recorder that a stop overtook finds the bridge stopping
Reconnect ==
  /\ Up /\ B.timer /\ env.ticks < MaxTicks
  /\ Sets([B EXCEPT !.timer = FALSE, !.cards = IF B.stopping THEN @ ELSE "on"])
  /\ env' = [env EXCEPT !.ticks = @ + 1]
  /\ UNCHANGED state

\* recordListenerFailure: the loss of another consumer ends the bridge, unless it stops; or it is killed
OtherLost ==
  /\ Up /\ Fails
  /\ \/ Sets(Ends(B)) /\ UNCHANGED state
     \/ ~B.stopping /\ Sets(Ends(B)) /\ state' = [state EXCEPT !.disk = state.mem]

ShutdownEnds ==
  /\ Up /\ B.stopping
  /\ Sets(Ends(B))
  /\ UNCHANGED <<state, env>>

Next ==
  \/ Start \/ Ready \/ ReadyTimeout \/ Stop \/ StopTimeout \/ Exited
  \/ \E key \in Required : Observe(key) \/ Connects(key)
  \/ TellRecovery \/ \E why \in Urls \cup {"lost", "refused"} : CardsLost(why)
  \/ Record \/ SaveFailure \/ SendSetup \/ Arm \/ Reconnect \/ OtherLost \/ ShutdownEnds

-----------------------------------------------------------------------------
(* Properties *)

\* The runtime is ready only once every consumer was, and, unless output came after the exit, while the process
\* lives; an exit that no stop asked for is reported; a stop that returned left no process; and the bridge that
\* goes on has its consumer of cards, is recording the loss, or will start it again.
CompatInvariant ==
  /\ run.snap = "ready" => run.ready = Required /\ (env.late \/ B.proc \in {"up", "ended"})
  /\ run.missed => run.reported
  /\ run.stop = "returned" => B.proc = "gone"
  /\ run.stop = "threw" /\ B.proc \in {"up", "ended"} => run.child
  /\ Up /\ ~B.stopping => B.cards # "off" \/ B.rec.pc # "off" \/ B.timer

\* The owner is told of a link or a first refusal once while the failure lasts, of a recovery only when the refusal
\* was told; and a bridge that stops starts no consumer.
CompatStep ==
  /\ state'.told > state.told => state.mem # None /\ (state.mem.told => \E u \in Urls : B.rec.why = u)
  /\ state'.recovered > state.recovered => state.told > state.recovered
  /\ B.stopping /\ B.cards = "off" => run'.bridge.cards = "off"
=============================================================================

----------------------------- MODULE HandoffFiles -----------------------------
(***************************************************************************)
(* The directory that hands the bridge over to the runtime                 *)
(* (src/src/migration/compat-handoff.ts), and the snapshots of its state   *)
(* (state-snapshot.ts): every file is created once, under a name that      *)
(* stands for the content, and compared when it is there already.  Scripts *)
(* overlap and may die within a write; the bridge may go on meanwhile.     *)
(***************************************************************************)
EXTENDS Naturals, FiniteSets, Sequences

CONSTANTS
  Procs,
  Evidence,     \* the files of the Dida evidence, in their order
  DefectsOf,    \* by version of the state, what the audit finds in it
  MaxMoves, MaxCrashes

VARIABLES
  state,     \* by content, the files of its directory: absent, part of the content, all of it
  run,       \* scripts: step, the content they have read, files to create, file being written
  env        \* versions of the bridge's state and evidence, credential, contents reported ready, bounds

\* A snapshot is of the state alone; a handoff is named by state and evidence
Contents == [state : 0 .. MaxMoves, dida : 0 .. MaxMoves, snapshot : BOOLEAN]
Files == {"state", "config", "manifest"} \cup {Evidence[i] : i \in DOMAIN Evidence}
FilesOf(c) == IF c.snapshot THEN {"state"} ELSE Files

\* auditLegacyState: due dates of the business are no blocker
Safe(version) == DefectsOf[version] \subseteq {"invalid-business-due-date"}

Idle == [pc |-> "off", of |-> [state |-> 0, dida |-> 0, snapshot |-> FALSE], left |-> <<>>]

Init ==
  /\ state = [c \in Contents |-> [f \in Files |-> "absent"]]
  /\ run = [p \in Procs |-> Idle]
  /\ env = [state |-> 0, dida |-> 0, credential |-> FALSE, ready |-> {}, moves |-> 0, crashes |-> 0]

BridgeMoves ==
  /\ env.moves < MaxMoves
  /\ env' \in {[env EXCEPT !.state = @ + 1, !.moves = @ + 1], [env EXCEPT !.dida = @ + 1, !.moves = @ + 1]}
  /\ UNCHANGED <<state, run>>

\* snapshotLegacyState
StartSnapshot(p) ==
  /\ run[p].pc = "off"
  /\ run' = [run EXCEPT ![p] = [pc |-> "open", of |-> [state |-> env.state, dida |-> 0, snapshot |-> TRUE],
                                left |-> <<"state">>]]
  /\ UNCHANGED <<state, env>>

\* prepareCompatibilityHandoff: what the audit blocks creates no directory.  The two
\* files that are created together are taken in either order
StartHandoff(p) ==
  /\ run[p].pc = "off" /\ Safe(env.state)
  /\ \E first \in {<<"state", "config">>, <<"config", "state">>} :
       run' = [run EXCEPT ![p] = [pc |-> "open", of |-> [state |-> env.state, dida |-> env.dida, snapshot |-> FALSE],
                                  left |-> first \o Evidence \o <<"manifest">>]]
  /\ UNCHANGED <<state, env>>

FileOf(p) == Head(run[p].left)
Found(p) == state[run[p].of][FileOf(p)]

\* Faulty variant: the file is opened without the flag wx
CreateOver(p) ==
  /\ run[p].pc = "open" /\ run[p].left # <<>>
  /\ state' = [state EXCEPT ![run[p].of][FileOf(p)] = "part"] /\ run' = [run EXCEPT ![p].pc = "write"]
  /\ UNCHANGED env

\* writeFile with the flag wx
Create(p) ==
  /\ run[p].pc = "open" /\ run[p].left # <<>> /\ Found(p) = "absent"
  /\ state' = [state EXCEPT ![run[p].of][FileOf(p)] = "part"] /\ run' = [run EXCEPT ![p].pc = "write"]
  /\ UNCHANGED env

Write(p) ==
  /\ run[p].pc = "write"
  /\ state' = [state EXCEPT ![run[p].of][FileOf(p)] = "whole"]
  /\ run' = [run EXCEPT ![p].pc = "open", ![p].left = Tail(@)]
  /\ UNCHANGED env

\* Faulty variant: a file that is there is taken for the same
VerifyName(p) ==
  /\ run[p].pc = "open" /\ run[p].left # <<>> /\ Found(p) # "absent"
  /\ run' = [run EXCEPT ![p].left = Tail(@)]
  /\ UNCHANGED <<state, env>>

\* EEXIST: the script ends on another content
Verify(p) ==
  /\ run[p].pc = "open" /\ run[p].left # <<>> /\ Found(p) # "absent"
  /\ run' = [run EXCEPT ![p] = IF Found(p) = "whole" THEN [@ EXCEPT !.left = Tail(@)] ELSE Idle]
  /\ UNCHANGED <<state, env>>

\* The preflight reads the directory again, and needs the credential; a failure leaves the files
Preflight(p) ==
  /\ run[p].pc = "open" /\ run[p].left = <<>>
  /\ run' = [run EXCEPT ![p] = Idle]
  /\ env' = IF run[p].of.snapshot \/ env.credential THEN [env EXCEPT !.ready = @ \cup {run[p].of}] ELSE env
  /\ UNCHANGED state

Authorise == ~env.credential /\ env' = [env EXCEPT !.credential = TRUE] /\ UNCHANGED <<state, run>>

Crash(p) ==
  /\ run[p].pc # "off" /\ env.crashes < MaxCrashes
  /\ run' = [run EXCEPT ![p] = Idle]
  /\ env' = [env EXCEPT !.crashes = @ + 1]
  /\ UNCHANGED state

Next ==
  \/ BridgeMoves \/ Authorise
  \/ \E p \in Procs : \/ StartSnapshot(p) \/ StartHandoff(p) \/ Create(p) \/ Write(p) \/ Verify(p)
                      \/ Preflight(p) \/ Crash(p)

-----------------------------------------------------------------------------
(* Properties *)

\* What was reported ready is whole and passed the audit; a manifest lists files that are all
\* there; and half a file has a writer or was left by a crash
FilesInvariant ==
  /\ \A c \in env.ready : (\A f \in FilesOf(c) : state[c][f] = "whole") /\ (c.snapshot \/ Safe(c.state))
  /\ \A c \in Contents : state[c]["manifest"] # "absent" => \A f \in Files \ {"manifest"} : state[c][f] = "whole"
  /\ LET parts == UNION {{<<c, f>> : f \in {g \in Files : state[c][g] = "part"}} : c \in Contents}
     IN Cardinality({x \in parts : ~\E p \in Procs : run[p].pc = "write" /\ <<run[p].of, FileOf(p)>> = x}) <= env.crashes

\* A file that is whole stays as it is
FilesStep ==
  \A c \in Contents : \A f \in Files : state[c][f] = "whole" => state'[c][f] = "whole"
=============================================================================

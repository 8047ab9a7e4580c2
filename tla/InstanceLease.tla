----------------------------- MODULE InstanceLease -----------------------------
(***************************************************************************)
(* The lease that lets one process own the local client's state            *)
(* (src/src/client-runtime/client-instance-lease.ts): a directory with the *)
(* owner's process and token, which a later process may reclaim.           *)
(***************************************************************************)
EXTENDS Naturals, FiniteSets

CONSTANTS Procs, MaxDeaths

VARIABLES
  state,     \* the lease's directory, "new" before owner.json is there, and its owner
  run,       \* processes: step, incarnation, attempts, the owner that was read
  env        \* deaths so far; whether a lease was taken away that nobody had found stale

Started == [pc |-> "mkdir", life |-> 0, tries |-> 0, seen |-> <<>>]

NoLease == [is |-> "none", by |-> <<>>]

Init ==
  /\ state = NoLease
  /\ run = [p \in Procs |-> [Started EXCEPT !.pc = "off"]]
  /\ env = [deaths |-> 0, crossed |-> FALSE]

Me(p) == <<p, run[p].life>>
Alive(owner) == run[owner[1]].pc # "off" /\ run[owner[1]].life = owner[2]
Goes(p, pc) == run' = [run EXCEPT ![p].pc = pc]
Gives(p) == Goes(p, "refused") /\ UNCHANGED state

Start(p) ==
  /\ run[p].pc = "off" /\ run[p].life <= MaxDeaths
  /\ run' = [run EXCEPT ![p] = [Started EXCEPT !.life = run[p].life + 1]]
  /\ UNCHANGED <<state, env>>

\* mkdir decides between those who find no lease
MakeDirectory(p) ==
  /\ run[p].pc = "mkdir"
  /\ IF state = NoLease THEN state' = [is |-> "new", by |-> <<>>] /\ Goes(p, "write")
     ELSE Goes(p, "read") /\ UNCHANGED state
  /\ UNCHANGED env

\* The directory may be gone, or another's: then it is removed
WriteOwner(p) ==
  /\ run[p].pc = "write"
  /\ IF state.is = "new" THEN state' = [is |-> "owned", by |-> Me(p)] /\ Goes(p, "owner")
     ELSE state' = NoLease /\ Goes(p, "refused")
  /\ UNCHANGED env

\* owner.json: what it says is looked up in the next step
ReadOwner(p) ==
  /\ run[p].pc = "read"
  /\ IF state.is # "owned" THEN Gives(p)
     ELSE run' = [run EXCEPT ![p].pc = "probe", ![p].seen = state.by] /\ UNCHANGED state
  /\ UNCHANGED env

\* Faulty variant: an owner is taken for dead
ProbeBlind(p) ==
  /\ run[p].pc = "probe"
  /\ Goes(p, "reclaim")
  /\ UNCHANGED <<state, env>>

\* process.kill(pid, 0) finds out whether the owner that was read is alive by now
Probe(p) ==
  /\ run[p].pc = "probe"
  /\ Goes(p, IF Alive(run[p].seen) THEN "refused" ELSE "reclaim")
  /\ UNCHANGED <<state, env>>

\* rename: whatever is there now, it is taken away; nothing there is no error
Reclaim(p) ==
  /\ run[p].pc = "reclaim"
  /\ state' = NoLease
  /\ run' = [run EXCEPT ![p].pc = IF run[p].tries < 2 THEN "mkdir" ELSE "refused",
                        ![p].tries = @ + 1, ![p].seen = <<>>]
  /\ env' = [env EXCEPT !.crossed = @ \/ state \notin {NoLease, [is |-> "owned", by |-> run[p].seen]}]

\* Only the owner's token is released
Release(p) ==
  /\ run[p].pc = "owner"
  /\ Goes(p, "refused")
  /\ state' = IF state.by = Me(p) THEN NoLease ELSE state
  /\ UNCHANGED env

Die(p) ==
  /\ run[p].pc \notin {"off"} /\ (env.deaths < MaxDeaths \/ run[p].pc = "refused")
  /\ Goes(p, "off")
  /\ env' = IF run[p].pc = "refused" THEN env ELSE [env EXCEPT !.deaths = @ + 1]
  /\ UNCHANGED state

Next == \E p \in Procs : \/ Start(p) \/ MakeDirectory(p) \/ WriteOwner(p) \/ ReadOwner(p) \/ Probe(p)
                         \/ Reclaim(p) \/ Release(p) \/ Die(p)

-----------------------------------------------------------------------------
(* Properties *)

Owners == {p \in Procs : run[p].pc = "owner"}

\* Across releases, deaths and recoveries one process owns the state at a time, and the
\* lease names it, as long as every rename takes the directory whose owner was read.
\* That is not so when an owner dies and two processes recover its lease at once, nor
\* when one releases its lease and exits after another has read it and before it probes.
LeaseInvariant ==
  ~env.crossed => /\ Cardinality(Owners) <= 1
                  /\ \A p \in Owners : state.by = Me(p)

\* One process owns the state at a time, after the recovery of a stale lease too
OneOwner == Cardinality(Owners) <= 1
=============================================================================

----------------------------- MODULE DurableJob -----------------------------
(***************************************************************************)
(* What the action ledger promises whoever enqueues an action, with its    *)
(* tables, leases, workers and retries left out: a job is submitted once,  *)
(* possibly behind a gate; a gated job waits for its permission; a queued  *)
(* job is taken, put back and taken again, every time under a new epoch;   *)
(* and it ends once, with one outcome.                                     *)
(*                                                                         *)
(* Abstracts the state machine that enqueueAction, decideApproval,         *)
(* claimNextAction, settleAction and releaseActionClaim of                 *)
(* src/src/storage/sqlite.ts drive.                                        *)
(***************************************************************************)
EXTENDS Naturals

CONSTANTS Jobs,       \* job ids
          Free,       \* the jobs that may be submitted without a gate
          Outcomes    \* the ways a job may end

VARIABLES phase,      \* where each job stands
          epoch,      \* how often each job has been taken
          gate        \* the gate before each job: none, closed, open or refused

jobVars == <<phase, epoch, gate>>

JobInit ==
  /\ phase = [j \in Jobs |-> "unknown"]
  /\ epoch = [j \in Jobs |-> 0]
  /\ gate = [j \in Jobs |-> "none"]

\* A new job; only a free one may do without a gate
Submit(j) ==
  /\ phase[j] = "unknown"
  /\ \/ /\ j \in Free
        /\ phase' = [phase EXCEPT ![j] = "queued"]
        /\ UNCHANGED gate
     \/ /\ phase' = [phase EXCEPT ![j] = "gated"]
        /\ gate' = [gate EXCEPT ![j] = "closed"]
  /\ UNCHANGED epoch

Permit(j) ==
  /\ phase[j] = "gated"
  /\ phase' = [phase EXCEPT ![j] = "queued"]
  /\ gate' = [gate EXCEPT ![j] = "open"]
  /\ UNCHANGED epoch

Refuse(j) ==
  /\ phase[j] = "gated"
  /\ phase' = [phase EXCEPT ![j] = "failed"]
  /\ gate' = [gate EXCEPT ![j] = "refused"]
  /\ UNCHANGED epoch

\* A worker takes the job, or takes it over from a worker that was too slow
Take(j) ==
  /\ phase[j] \in {"queued", "held"}
  /\ gate[j] \in {"none", "open"}
  /\ phase' = [phase EXCEPT ![j] = "held"]
  /\ epoch' = [epoch EXCEPT ![j] = @ + 1]
  /\ UNCHANGED gate

PutBack(j) ==
  /\ phase[j] = "held"
  /\ phase' = [phase EXCEPT ![j] = "queued"]
  /\ UNCHANGED <<epoch, gate>>

End(j) ==
  /\ phase[j] = "held"
  /\ \E outcome \in Outcomes : phase' = [phase EXCEPT ![j] = outcome]
  /\ UNCHANGED <<epoch, gate>>

JobNext ==
  \E j \in Jobs : Submit(j) \/ Permit(j) \/ Refuse(j) \/ Take(j) \/ PutBack(j) \/ End(j)

JobSpec == JobInit /\ [][JobNext]_jobVars
=============================================================================

--------------------------- MODULE MCActionLedger ---------------------------
(***************************************************************************)
(* Small instances of ActionLedger for TLC.                                *)
(*                                                                         *)
(*  - two hosts with process-derived worker ids (the default), one run     *)
(*    each, compete for one action: expired leases, faults, crashes;       *)
(*  - one host with two workspaces and two runs of the first workspace's   *)
(*    worker: overlapping runs under one worker identity, after a pass     *)
(*    that the run of the other workspace rejected.                        *)
(***************************************************************************)
EXTENDS ActionLedger, TLC

CONSTANTS a1, a2, r1, r2, r3, h1, h2, w1, w2

\* two hosts, one workspace
TwoHostsHostOf == (r1 :> h1) @@ (r2 :> h2)
TwoHostsWorkspaceOf == (r1 :> w1) @@ (r2 :> w1)
TwoHostsId == (h1 :> "action-1") @@ (h2 :> "action-2")

\* one host, two workspaces, two runs in the first
OneHostHostOf == (r1 :> h1) @@ (r2 :> h1) @@ (r3 :> h1)
OneHostWorkspaceOf == (r1 :> w1) @@ (r2 :> w1) @@ (r3 :> w2)
OneHostId == h1 :> "action-1"

\* every action belongs to the first workspace
FirstHome == [a \in Actions |-> w1]
=============================================================================

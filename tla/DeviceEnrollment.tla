---------------------------- MODULE DeviceEnrollment ----------------------------
(***************************************************************************)
(* The enrollment of a device by a code the owner types in: the client     *)
(* (src/src/client-runtime/client-device-enrollment.ts over                *)
(* sqlite-client-state.ts and its secret store) asks for a request, keeps  *)
(* its poll credential and polls; the server                               *)
(* (src/src/control-plane/device-enrollment.ts) registers the device when  *)
(* the owner approves.  Calls may lose their answers, writes may fail, and *)
(* both processes may die between two writes.                              *)
(***************************************************************************)
EXTENDS Naturals, FiniteSets

CONSTANTS None, Requests, Lifetime, Grace, Horizon, MaxFailures, MaxCrashes

VARIABLES
  state,     \* the server's requests and registration, the client's row and secrets, the time
  run,       \* the client's command and the server's approval
  env        \* failures and crashes so far, of the client and of the server

Absent == [is |-> "none", until |-> 0, decided |-> 0]
NoRow == [req |-> None, is |-> "none"]
Idle == [pc |-> "idle"]

Init ==
  /\ state = [req |-> [r \in Requests |-> Absent], registered |-> FALSE, row |-> NoRow, secrets |-> {}, now |-> 0]
  /\ run = [client |-> Idle, server |-> Idle]
  /\ env = [failures |-> 0, died |-> 0, restarted |-> 0]

Client(c) == run' = [run EXCEPT !.client = c]
Server(s) == run' = [run EXCEPT !.server = s]
Fails == env.failures < MaxFailures /\ env' = [env EXCEPT !.failures = @ + 1]

\* #expire, at the start of every call
Swept == [r \in Requests |-> IF state.req[r].is = "pending" /\ state.req[r].until <= state.now
                             THEN [state.req[r] EXCEPT !.is = "expired"] ELSE state.req[r]]

-----------------------------------------------------------------------------
(* begin *)

StartBegin ==
  /\ run.client = Idle /\ state.row.is \in {"none", "expired"}
  /\ state' = [state EXCEPT !.row = NoRow]
  /\ Client([pc |-> "ask"]) /\ UNCHANGED env

\* Faulty variant: a request that is being approved is not open
OpenIdle(is) == is = "pending"

Open(is) == is \in {"pending", "approving"}

\* The server's begin; its answer may be lost
AskServer ==
  LET free == {r \in Requests : state.req[r].is = "none"} IN
  /\ run.client.pc = "ask"
  /\ IF \E r \in Requests : Open(Swept[r].is)
     THEN state' = [state EXCEPT !.req = Swept] /\ Client(Idle) /\ UNCHANGED env
     ELSE /\ free # {}
          /\ LET r == CHOOSE x \in free : TRUE IN
             /\ state' = [state EXCEPT !.req = [Swept EXCEPT ![r] = [is |-> "pending", until |-> state.now + Lifetime, decided |-> 0]]]
             /\ \/ Client([pc |-> "put", req |-> r]) /\ UNCHANGED env
                \/ Client(Idle) /\ Fails

PutSecret ==
  /\ run.client.pc = "put"
  /\ \/ state' = [state EXCEPT !.secrets = @ \cup {run.client.req}] /\ Client([run.client EXCEPT !.pc = "save"]) /\ UNCHANGED env
     \/ Client(Idle) /\ Fails /\ UNCHANGED state

SavePending ==
  /\ run.client.pc = "save"
  /\ \/ /\ state' = [state EXCEPT !.row = [req |-> run.client.req, is |-> "pending"]]
        /\ Client(Idle) /\ UNCHANGED env
     \/ Client([run.client EXCEPT !.pc = "unput"]) /\ Fails /\ UNCHANGED state

RemoveUnsaved ==
  /\ run.client.pc = "unput"
  /\ state' = [state EXCEPT !.secrets = @ \ {run.client.req}]
  /\ Client(Idle) /\ UNCHANGED env

-----------------------------------------------------------------------------
(* poll *)

StartPoll ==
  /\ run.client = Idle
  /\ \/ state.row.is = "pending" /\ state.row.req \in state.secrets /\ Client([pc |-> "poll"])
     \/ state.row.is \in {"approved cleanup", "expired cleanup"} /\ Client([pc |-> "remove"])
  /\ UNCHANGED <<state, env>>

\* The server's poll: a request that is being approved is pending still
PollServer ==
  LET is == Swept[state.row.req].is IN
  /\ run.client.pc = "poll"
  /\ state' = [state EXCEPT !.req = Swept]
  /\ \/ Client(IF Open(is) THEN Idle ELSE [pc |-> "advance", is |-> is]) /\ UNCHANGED env
     \/ Client(Idle) /\ Fails

\* Faulty variant: the credential goes before the outcome is kept
AdvanceLast ==
  /\ run.client.pc = "advance"
  /\ state' = [state EXCEPT !.secrets = @ \ {state.row.req}]
  /\ Client([pc |-> "advanced", is |-> run.client.is]) /\ UNCHANGED env

Advance ==
  /\ run.client.pc = "advance"
  /\ state' = [state EXCEPT !.row.is = IF run.client.is = "approved" THEN "approved cleanup" ELSE "expired cleanup"]
  /\ Client([pc |-> "remove"]) /\ UNCHANGED env

\* #cleanup
RemoveSecret ==
  /\ run.client.pc = "remove"
  /\ \/ state' = [state EXCEPT !.secrets = @ \ {state.row.req}] /\ Client([pc |-> "final"]) /\ UNCHANGED env
     \/ Client(Idle) /\ Fails /\ UNCHANGED state

Finalize ==
  /\ run.client.pc = "final"
  /\ state' = [state EXCEPT !.row.is = IF @ = "approved cleanup" THEN "approved" ELSE "expired"]
  /\ Client(Idle) /\ UNCHANGED env

-----------------------------------------------------------------------------
(* approve: one at a time *)

Approve(r) ==
  LET q == Swept[r] IN
  /\ run.server = Idle
  /\ \/ q.is = "pending"
     \/ q.is = "approving" /\ q.decided + Grace <= state.now
  /\ state' = [state EXCEPT !.req = [Swept EXCEPT ![r].is = "approving", ![r].decided = state.now]]
  /\ Server([pc |-> "register", req |-> r]) /\ UNCHANGED env

Register ==
  /\ run.server.pc = "register"
  /\ \/ state' = [state EXCEPT !.registered = TRUE] /\ Server([run.server EXCEPT !.pc = "approve"]) /\ UNCHANGED env
     \/ Server([run.server EXCEPT !.pc = "undo"]) /\ Fails /\ UNCHANGED state

Complete ==
  /\ run.server.pc = "approve"
  /\ \/ state' = [state EXCEPT !.req[run.server.req].is = "approved"] /\ Server(Idle) /\ UNCHANGED env
     \/ Server([run.server EXCEPT !.pc = "undo"]) /\ Fails /\ UNCHANGED state

\* Faulty variant: a failed approval is not taken back
UndoNothing == run.server.pc = "undo" /\ Server(Idle) /\ UNCHANGED <<state, env>>

Undo ==
  /\ run.server.pc = "undo"
  /\ state' = [state EXCEPT !.req[run.server.req].is = "pending", !.req[run.server.req].decided = 0]
  /\ Server(Idle) /\ UNCHANGED env

-----------------------------------------------------------------------------

Tick == state.now < Horizon /\ state' = [state EXCEPT !.now = @ + 1] /\ UNCHANGED <<run, env>>

ClientDies ==
  /\ env.died < MaxCrashes /\ run.client # Idle
  /\ Client(Idle) /\ env' = [env EXCEPT !.died = @ + 1] /\ UNCHANGED state

\* The client's call ends with the server
ServerRestarts ==
  /\ env.restarted < MaxCrashes /\ run.server # Idle
  /\ run' = [client |-> IF run.client.pc \in {"ask", "poll"} THEN Idle ELSE run.client, server |-> Idle]
  /\ env' = [env EXCEPT !.restarted = @ + 1] /\ UNCHANGED state

Next ==
  \/ StartBegin \/ AskServer \/ PutSecret \/ SavePending \/ RemoveUnsaved
  \/ StartPoll \/ PollServer \/ Advance \/ RemoveSecret \/ Finalize
  \/ \E r \in Requests : Approve(r)
  \/ Register \/ Complete \/ Undo \/ Tick \/ ClientDies \/ ServerRestarts

-----------------------------------------------------------------------------
(* Properties *)

\* The client takes itself for enrolled only when the server has registered it, and for
\* expired only when that request can no longer be approved; it holds the credential as long
\* as it needs it and no longer, whichever side died in between; the device has one open
\* request; and as long as the server lived no request is left half approved
EnrollmentInvariant ==
  LET row == state.row IN
  /\ row.is \in {"approved cleanup", "approved"} => state.req[row.req].is = "approved" /\ state.registered
  /\ row.is \in {"expired cleanup", "expired"} => state.req[row.req].is = "expired"
  /\ row.is = "pending" => row.req \in state.secrets
  /\ row.is \in {"approved", "expired"} => row.req \notin state.secrets
  /\ Cardinality({r \in Requests : Open(state.req[r].is)}) <= 1
  /\ \A r \in Requests : state.req[r].is = "approving" => run.server # Idle \/ env.restarted > 0
=============================================================================

---------------------------- MODULE ControlStores ----------------------------
(***************************************************************************)
(* Two stores of the control plane whose operations wait in the middle:    *)
(* which device owns a matter, and the accounts with their browser sessions *)
(* (src/src/control-plane/sqlite-matter-owner-lease.ts,                    *)
(*  sqlite-cloud-identity.ts).  They share nothing; Init chooses one.      *)
(***************************************************************************)
EXTENDS Naturals, Sequences, FiniteSets, SequenceTheorems, TLAPS

CONSTANTS
  None, Kinds,                \* of "matter", "identity"
  Procs,                      \* requests that may be waiting at a time
  Devices, Lengths, MaxEpoch, \* matter: the lengths a lease may be asked for
  Users, Admin,               \* identity: Admin has an account from the beginning
  FailureLimit, Window, Lifetime, MaxSessions, MaxWrong,
  Horizon, MaxChanges         \* bounds

VARIABLES state, run, env
vars == <<state, run, env>>

Tick ==
  /\ state.now < Horizon
  /\ state' = [state EXCEPT !.now = @ + 1]
  /\ UNCHANGED <<run, env>>

-----------------------------------------------------------------------------
(* matter *)

InitMatter ==
  /\ state = [kind |-> "matter", now |-> 0, session |-> [d \in Devices |-> [id |-> 1, active |-> TRUE]], row |-> None, transfers |-> <<>>]
  /\ run = [p \in Procs |-> None]
  /\ env = [granted |-> {}, changes |-> 0]

Session(d) == state.session[d].active
Inactive(row) == row.released \/ row.expires <= state.now

\* What a device has been told it has: until then, unless it says otherwise itself
Granted(row) == {g \in env.granted : g.device # row.device} \cup {[device |-> row.device, epoch |-> row.epoch, until |-> row.expires]}

\* Faulty variant: a device takes over a lease that has run out when it claims it
ClaimLapsed(d, expected, length) ==
  /\ state.kind = "matter" /\ Session(d)
  /\ IF state.row = None THEN expected = 0 ELSE state.row.device = d \/ Inactive(state.row)
  /\ LET row == [device |-> d, epoch |-> IF state.row = None THEN 1 ELSE state.row.epoch, expires |-> state.now + length, released |-> FALSE] IN
     /\ state' = [state EXCEPT !.row = row]
     /\ env' = [env EXCEPT !.granted = Granted(row)]
  /\ UNCHANGED run

\* 0 stands for no epoch: the device has never had the matter
Claim(d, expected, length) ==
  /\ state.kind = "matter" /\ Session(d)
  /\ IF state.row = None THEN expected = 0 ELSE state.row.device = d /\ state.row.epoch = expected
  /\ LET row == [device |-> d, epoch |-> IF state.row = None THEN 1 ELSE expected, expires |-> state.now + length, released |-> FALSE] IN
     /\ state' = [state EXCEPT !.row = row]
     /\ env' = [env EXCEPT !.granted = Granted(row)]
  /\ UNCHANGED run

VerifyCurrent(d, expected) ==
  /\ state.row # None /\ state.row.device = d /\ state.row.epoch = expected
  /\ ~state.row.released /\ state.row.expires > state.now

Release(d, expected) ==
  /\ state.kind = "matter" /\ Session(d)
  /\ state.row # None /\ state.row.device = d /\ state.row.epoch = expected /\ ~state.row.released
  /\ state' = [state EXCEPT !.row = [@ EXCEPT !.released = TRUE, !.expires = state.now]]
  /\ env' = [env EXCEPT !.granted = {g \in @ : g.device # d}]
  /\ UNCHANGED run

\* The owner's approval and the recovered state are then verified, which takes a while
BeginTransfer(p, d) ==
  /\ state.kind = "matter" /\ run[p] = None /\ Session(d)
  /\ state.row # None /\ state.row.device # d /\ Inactive(state.row) /\ state.row.epoch < MaxEpoch
  /\ run' = [run EXCEPT ![p] = [to |-> d, id |-> state.session[d].id, from |-> state.row.device, epoch |-> state.row.epoch]]
  /\ UNCHANGED <<state, env>>

TransferRefused(p) ==
  /\ state.kind = "matter" /\ run[p] # None
  /\ run' = [run EXCEPT ![p] = None]
  /\ UNCHANGED <<state, env>>

Moved(t) ==
  LET row == [device |-> t.to, epoch |-> state.row.epoch + 1, expires |-> state.now + 1, released |-> FALSE] IN
  /\ state' = [state EXCEPT !.row = row, !.transfers = Append(@, [from |-> state.row.device, to |-> t.to, old |-> t.epoch, new |-> row.epoch])]
  /\ env' = [env EXCEPT !.granted = Granted(row)]

\* Faulty variant: what was read before the verification is not read again
TransferBlind(p) ==
  /\ state.kind = "matter" /\ run[p] # None
  /\ LET t == run[p] IN
     /\ Session(t.to) /\ state.session[t.to].id = t.id
     /\ state.row.device = t.from /\ state.row.epoch = t.epoch
     /\ Moved(t)
  /\ run' = [run EXCEPT ![p] = None]

\* Faulty variant: only the device is compared again
TransferByDevice(p) ==
  /\ state.kind = "matter" /\ run[p] # None
  /\ LET t == run[p] IN
     /\ Session(t.to) /\ state.session[t.to].id = t.id
     /\ state.row.device = t.from /\ Inactive(state.row)
     /\ Moved(t)
  /\ run' = [run EXCEPT ![p] = None]

\* Faulty variant: the session that was active then is enough
TransferOfEnded(p) ==
  /\ state.kind = "matter" /\ run[p] # None
  /\ LET t == run[p] IN
     /\ state.row.device = t.from /\ state.row.epoch = t.epoch /\ Inactive(state.row)
     /\ Moved(t)
  /\ run' = [run EXCEPT ![p] = None]

\* The same session, and the same inactive lease, in the transaction that moves it
Transfer(p) ==
  /\ state.kind = "matter" /\ run[p] # None
  /\ LET t == run[p] IN
     /\ Session(t.to) /\ state.session[t.to].id = t.id
     /\ state.row.device = t.from /\ state.row.epoch = t.epoch /\ Inactive(state.row)
     /\ Moved(t)
  /\ run' = [run EXCEPT ![p] = None]

\* A session expires, is superseded by a new one, or its device or user is removed
SessionChanges(d) ==
  /\ state.kind = "matter" /\ env.changes < MaxChanges
  /\ \E on \in BOOLEAN : state' = [state EXCEPT !.session[d] = [id |-> IF on THEN @.id + 1 ELSE @.id, active |-> on]]
  /\ env' = [env EXCEPT !.changes = @ + 1]
  /\ UNCHANGED run

Matter ==
  \/ \E d \in Devices, e \in 0..MaxEpoch, n \in Lengths : Claim(d, e, n)
  \/ \E d \in Devices, e \in 1..MaxEpoch : Release(d, e)
  \/ \E p \in Procs : (\E d \in Devices : BeginTransfer(p, d)) \/ TransferRefused(p) \/ Transfer(p)
  \/ \E d \in Devices : SessionChanges(d)

-----------------------------------------------------------------------------
(* identity; everybody gives his own password or a wrong one *)

InitIdentity ==
  /\ state = [kind |-> "identity", now |-> 0, account |-> [u \in Users |-> IF u = Admin THEN "active" ELSE None],
              throttle |-> None, sessions |-> <<>>, audits |-> <<>>]
  /\ run = [p \in Procs |-> None]
  /\ env = [wrong |-> <<>>, overlap |-> FALSE, changes |-> 0]

Waiting == {p \in Procs : run[p] # None /\ run[p].pc = "login"}

\* The account and the throttle are read, and the password is derived; one account's throttle is followed
Login(p, right) ==
  /\ state.kind = "identity" /\ run[p] = None /\ Len(state.sessions) < MaxSessions /\ Len(env.wrong) < MaxWrong
  /\ run' = [run EXCEPT ![p] = [pc |-> "login", right |-> right /\ state.account[Admin] = "active", at |-> state.now, throttle |-> state.throttle,
                                blocked |-> state.throttle # None /\ state.throttle.blocked > state.now]]
  /\ env' = [env EXCEPT !.overlap = @ \/ Waiting # {}]
  /\ UNCHANGED state

\* Faulty variant: a window of failures never ends in a block
FailureUncounted(old, at) ==
  IF old # None /\ at - old.since < Window
  THEN [since |-> old.since, count |-> old.count + 1, blocked |-> 0]
  ELSE [since |-> at, count |-> 1, blocked |-> 0]

\* recordFailure
Failure(old, at) ==
  LET within == old # None /\ at - old.since < Window
      count == IF within THEN old.count + 1 ELSE 1 IN
  [since |-> IF within THEN old.since ELSE at, count |-> count, blocked |-> IF count >= FailureLimit THEN at + Window ELSE 0]

LoginFails(p) ==
  /\ state.kind = "identity" /\ run[p] # None /\ run[p].pc = "login" /\ (~run[p].right \/ run[p].blocked)
  /\ IF run[p].blocked THEN UNCHANGED <<state, env>>
     ELSE /\ state' = [state EXCEPT !.throttle = Failure(run[p].throttle, run[p].at)]
          /\ env' = [env EXCEPT !.wrong = Append(@, run[p].at)]
  /\ run' = [run EXCEPT ![p] = None]

LoginSucceeds(p) ==
  /\ state.kind = "identity" /\ run[p] # None /\ run[p].pc = "login" /\ run[p].right /\ ~run[p].blocked
  /\ state' = [state EXCEPT !.throttle = None, !.sessions = Append(@, [until |-> run[p].at + Lifetime, state |-> "active"])]
  /\ env' = [env EXCEPT !.wrong = <<>>]
  /\ run' = [run EXCEPT ![p] = None]

\* Faulty variant: the account behind a session is not looked at again
ResolvesStored(s) == s.state = "active" /\ s.until > state.now

\* resolveSession: the session and the account it belongs to
Resolves(s) == s.state = "active" /\ s.until > state.now /\ state.account[Admin] = "active"

\* A session found expired is marked
Resolve(i) ==
  /\ state.kind = "identity" /\ state.sessions[i].state = "active" /\ state.account[Admin] = "active"
  /\ state.sessions[i].until <= state.now
  /\ state' = [state EXCEPT !.sessions[i].state = "expired"]
  /\ UNCHANGED <<run, env>>

Revoke(i) ==
  /\ state.kind = "identity" /\ state.sessions[i].state = "active"
  /\ state' = [state EXCEPT !.sessions[i].state = "revoked"]
  /\ UNCHANGED <<run, env>>

\* provisionUser, with a session that resolves; the password is derived
Provision(p, i, u) ==
  /\ state.kind = "identity" /\ run[p] = None
  /\ Resolves(state.sessions[i])
  /\ run' = [run EXCEPT ![p] = [pc |-> "provision", user |-> u]]
  /\ UNCHANGED <<state, env>>

\* Faulty variant: who asks is not looked up again in the transaction
ProvisionedBlind(p) ==
  /\ state.kind = "identity" /\ run[p] # None /\ run[p].pc = "provision"
  /\ state' = IF state.account[run[p].user] = None
              THEN [state EXCEPT !.account[run[p].user] = "active", !.audits = Append(@, [user |-> run[p].user, by |-> state.account[Admin]])]
              ELSE state
  /\ run' = [run EXCEPT ![p] = None]
  /\ UNCHANGED env

\* User, account and audit together, if who asks still may and the user is new
Provisioned(p) ==
  /\ state.kind = "identity" /\ run[p] # None /\ run[p].pc = "provision"
  /\ state' = IF state.account[Admin] = "active" /\ state.account[run[p].user] = None
              THEN [state EXCEPT !.account[run[p].user] = "active", !.audits = Append(@, [user |-> run[p].user, by |-> state.account[Admin]])]
              ELSE state
  /\ run' = [run EXCEPT ![p] = None]
  /\ UNCHANGED env

\* The operator suspends the account, or takes it up again
Suspend ==
  /\ state.kind = "identity" /\ env.changes < MaxChanges
  /\ state' = [state EXCEPT !.account[Admin] = IF @ = "active" THEN "suspended" ELSE "active"]
  /\ env' = [env EXCEPT !.changes = @ + 1]
  /\ UNCHANGED run

Identity ==
  \/ Suspend
  \/ \E p \in Procs : (\E right \in BOOLEAN : Login(p, right)) \/ LoginFails(p) \/ LoginSucceeds(p) \/ Provisioned(p)
  \/ \E i \in 1..Len(state.sessions) : Resolve(i) \/ Revoke(i) \/ \E p \in Procs, u \in Users : Provision(p, i, u)

-----------------------------------------------------------------------------

Init ==
  \/ "matter" \in Kinds /\ InitMatter
  \/ "identity" \in Kinds /\ InitIdentity

Next ==
  \/ Tick
  \/ IF state.kind = "matter" THEN Matter ELSE Identity

Spec == Init /\ [][Next]_vars

-----------------------------------------------------------------------------
(* Properties *)

\* Who has been given a matter has it until the end of his time unless he gave it up, however long another's transfer
\* has been verified; every transfer has taken it from the epoch and the device before, and the epochs have no gap.
MatterHolds ==
  state.kind = "matter" =>
    /\ \A g \in env.granted : g.until > state.now => VerifyCurrent(g.device, g.epoch)
    /\ state.row # None => state.row.epoch = Len(state.transfers) + 1
    /\ \A i \in 1..Len(state.transfers) :
         LET t == state.transfers[i] IN
         /\ t.old = i /\ t.new = i + 1 /\ t.from # t.to
         /\ i < Len(state.transfers) => state.transfers[i + 1].from = t.to

\* Without two tries at a time an account is not tried wrongly more often than twice the limit less one in a window; every
\* account but the first was made by somebody who was active when it was made, and just once.
IdentityHolds ==
  state.kind = "identity" =>
    /\ ~env.overlap => \A t \in 0..Horizon : Len(SelectSeq(env.wrong, LAMBDA w : t <= w /\ w < t + Window)) <= 2 * FailureLimit - 1
    /\ \A u \in Users \ {Admin} : Len(SelectSeq(state.audits, LAMBDA a : a.user = u /\ a.by = "active")) = IF state.account[u] = None THEN 0 ELSE 1

StoresInvariant == MatterHolds /\ IdentityHolds

\* A lease is given only to a device with a session at that moment
MatterStep ==
  state.kind = "matter" /\ state'.row # state.row /\ state'.row.device \in {d \in Devices : state.row = None \/ state.row.device # d}
    => state.session[state'.row.device].active

\* A new account is only asked for with a session that resolves, and a session that has ended stays so
IdentityStep ==
  state.kind = "identity" =>
    /\ \A i \in 1..Len(state.sessions) : state.sessions[i].state # "active" => state'.sessions[i] = state.sessions[i]
    /\ \A p \in Procs : run[p] = None /\ run'[p] # None /\ run'[p].pc = "provision" => state.account[Admin] = "active"

StoresStep == MatterStep /\ IdentityStep

-----------------------------------------------------------------------------
(* Proofs about the matter: for any devices, requests, lengths and bounds *)

LeaseRows == [device : Devices, epoch : Nat, expires : Nat, released : BOOLEAN]
Verified == [to : Devices, id : Nat, from : Devices, epoch : Nat]
Grants == [device : Devices, epoch : Nat, until : Nat]
MatterStates == [kind : {"matter"}, now : Nat, session : [Devices -> [id : Nat, active : BOOLEAN]],
                 row : LeaseRows \cup {None}, transfers : Seq([from : Devices, to : Devices, old : Nat, new : Nat])]

MatterConstants == None \notin LeaseRows /\ None \notin Verified /\ Lengths \subseteq Nat /\ MaxEpoch \in Nat

MatterTypes ==
  /\ state \in MatterStates
  /\ run \in [Procs -> Verified \cup {None}]
  /\ env \in [granted : SUBSET Grants, changes : Nat]

\* Whoever has been given the matter has the row, and for as long
GrantsSound == \A g \in env.granted : g.until > state.now => VerifyCurrent(g.device, g.epoch) /\ g.until <= state.row.expires

\* The transfers lead to the row
TransfersSound ==
  /\ state.row = None => state.transfers = << >>
  /\ state.row # None => state.row.epoch = Len(state.transfers) + 1
  /\ \A i \in 1..Len(state.transfers) :
       LET t == state.transfers[i] IN
       /\ t.old = i /\ t.new = i + 1 /\ t.from # t.to
       /\ i < Len(state.transfers) => state.transfers[i + 1].from = t.to
       /\ i = Len(state.transfers) => state.row.device = t.to

WaitsSound == \A p \in Procs : run[p] # None => run[p].to # run[p].from /\ state.row # None

MatterSound ==
  /\ "kind" \in DOMAIN state /\ state.kind \in {"matter", "identity"}
  /\ state.kind = "matter" => MatterTypes /\ GrantsSound /\ TransfersSound /\ WaitsSound

LEMMA MatterBegins ==
  ASSUME Init, MatterConstants
  PROVE  MatterSound
<1>1. CASE InitMatter
  <2>1. << >> \in Seq([from : Devices, to : Devices, old : Nat, new : Nat]) /\ Len(<< >>) = 0
    BY EmptySeq
  <2>2. MatterTypes
    BY <1>1, <2>1 DEF InitMatter, MatterTypes, MatterStates
  <2> QED BY <1>1, <2>1, <2>2 DEF InitMatter, MatterSound, GrantsSound, TransfersSound, WaitsSound
<1>2. CASE InitIdentity
  BY <1>2 DEF InitIdentity, MatterSound
<1> QED BY <1>1, <1>2 DEF Init

\* A claim or a transfer: the device has the row, what others were given is over
LEMMA GivenToOne ==
  ASSUME MatterTypes, GrantsSound, MatterConstants, NEW row \in LeaseRows, ~row.released,
         state'.row = row, state'.now = state.now, env' = [env EXCEPT !.granted = Granted(row)],
         \A g \in env.granted : g.until > state.now => g.device = row.device
  PROVE  GrantsSound' /\ env' \in [granted : SUBSET Grants, changes : Nat]
<1>1. PICK new : new = [device |-> row.device, epoch |-> row.epoch, until |-> row.expires]
  OBVIOUS
<1>2. new \in Grants /\ new.device = row.device /\ new.epoch = row.epoch /\ new.until = row.expires
  BY <1>1 DEF Grants, LeaseRows
<1>3. env'.granted = {g \in env.granted : g.device # row.device} \cup {new} /\ env' \in [granted : SUBSET Grants, changes : Nat]
  BY <1>1, <1>2 DEF Granted, MatterTypes
<1>4. ASSUME NEW g \in env'.granted, g.until > state.now
      PROVE  VerifyCurrent(g.device, g.epoch)' /\ g.until <= state'.row.expires
  <2>1. g = new
    BY <1>3, <1>4
  <2> QED BY <1>2, <1>4, <2>1 DEF VerifyCurrent, MatterConstants, LeaseRows
<1> QED BY <1>3, <1>4 DEF GrantsSound
LEMMA ClaimKeeps ==
  ASSUME MatterTypes, GrantsSound, TransfersSound, WaitsSound, MatterConstants,
         NEW d \in Devices, NEW e \in 0..MaxEpoch, NEW n \in Lengths, Claim(d, e, n)
  PROVE  MatterTypes' /\ GrantsSound' /\ TransfersSound' /\ WaitsSound'
<1>1. PICK row : row = [device |-> d, epoch |-> IF state.row = None THEN 1 ELSE e, expires |-> state.now + n, released |-> FALSE]
  OBVIOUS
<1>2. state.now \in Nat /\ n \in Nat /\ state.row \in LeaseRows \cup {None} /\ state \in MatterStates
  BY DEF MatterTypes, MatterStates, MatterConstants
<1>3. row \in LeaseRows /\ ~row.released /\ row.device = d /\ row.epoch = IF state.row = None THEN 1 ELSE state.row.epoch
  BY <1>1, <1>2 DEF LeaseRows, Claim, MatterConstants
<1>4. state' = [state EXCEPT !.row = row] /\ env' = [env EXCEPT !.granted = Granted(row)] /\ run' = run
  BY <1>1 DEF Claim
<1>5. state.row # None => state.row.device = d
  BY DEF Claim
<1>6. state' \in MatterStates /\ state'.row = row /\ state'.now = state.now /\ state'.transfers = state.transfers
  BY <1>2, <1>3, <1>4 DEF MatterStates
<1>7. \A g \in env.granted : g.until > state.now => g.device = row.device
  BY <1>3, <1>5 DEF GrantsSound, VerifyCurrent
<1>8. GrantsSound' /\ env' \in [granted : SUBSET Grants, changes : Nat]
  BY <1>3, <1>4, <1>6, <1>7, GivenToOne
<1>9. row # None
  BY <1>3 DEF MatterConstants
<1>10. TransfersSound'
  <2>1. CASE state.row = None
    <3>1. Len(state.transfers) = 0
      BY <2>1, EmptySeq DEF TransfersSound
    <3> QED BY <1>3, <1>6, <1>9, <2>1, <3>1 DEF TransfersSound
  <2>2. CASE state.row # None
    BY <1>3, <1>5, <1>6, <1>9, <2>2 DEF TransfersSound
  <2> QED BY <2>1, <2>2
<1>11. WaitsSound'
  BY <1>4, <1>6, <1>9 DEF WaitsSound
<1> QED BY <1>4, <1>6, <1>8, <1>10, <1>11 DEF MatterTypes

LEMMA ReleaseKeeps ==
  ASSUME MatterTypes, GrantsSound, TransfersSound, WaitsSound, MatterConstants, NEW d \in Devices, NEW e, Release(d, e)
  PROVE  MatterTypes' /\ GrantsSound' /\ TransfersSound' /\ WaitsSound'
<1>1. state.row \in LeaseRows /\ state.row.device = d /\ state.now \in Nat /\ state \in MatterStates
  BY DEF MatterTypes, MatterStates, Release
<1>2. PICK row : row = [state.row EXCEPT !.released = TRUE, !.expires = state.now]
  OBVIOUS
<1>3. row \in LeaseRows /\ row.device = state.row.device /\ row.epoch = state.row.epoch /\ row # None
  BY <1>1, <1>2 DEF LeaseRows, MatterConstants
<1>4. state' = [state EXCEPT !.row = row] /\ env' = [env EXCEPT !.granted = {g \in @ : g.device # d}] /\ run' = run
  BY <1>2 DEF Release
<1>5. state' \in MatterStates /\ state'.row = row /\ state'.now = state.now /\ state'.transfers = state.transfers
  BY <1>1, <1>3, <1>4 DEF MatterStates
<1>6. env' \in [granted : SUBSET Grants, changes : Nat] /\ env'.granted = {g \in env.granted : g.device # d}
  BY <1>4 DEF MatterTypes
<1>7. GrantsSound'
  BY <1>1, <1>5, <1>6 DEF GrantsSound, VerifyCurrent
<1>8. state.row # None
  BY DEF Release
<1>9. WaitsSound'
  BY <1>3, <1>4, <1>5 DEF WaitsSound
<1>10. TransfersSound'
  <2> SUFFICES /\ row.epoch = Len(state.transfers) + 1
               /\ \A i \in 1..Len(state.transfers) :
                    /\ state.transfers[i].old = i /\ state.transfers[i].new = i + 1 /\ state.transfers[i].from # state.transfers[i].to
                    /\ i < Len(state.transfers) => state.transfers[i + 1].from = state.transfers[i].to
                    /\ i = Len(state.transfers) => row.device = state.transfers[i].to
    BY <1>3, <1>5 DEF TransfersSound
  <2> QED BY <1>3, <1>8 DEF TransfersSound
<1> QED BY <1>4, <1>5, <1>6, <1>7, <1>9, <1>10 DEF MatterTypes

LEMMA TransferKeeps ==
  ASSUME MatterTypes, GrantsSound, TransfersSound, WaitsSound, MatterConstants, NEW p \in Procs, Transfer(p)
  PROVE  MatterTypes' /\ GrantsSound' /\ TransfersSound' /\ WaitsSound'
<1>1. /\ run[p] \in Verified /\ run[p].to # run[p].from /\ state.row \in LeaseRows /\ state.now \in Nat /\ state \in MatterStates
      /\ state.transfers \in Seq([from : Devices, to : Devices, old : Nat, new : Nat])
      /\ state.row.device = run[p].from /\ state.row.epoch = run[p].epoch /\ Inactive(state.row)
  BY DEF MatterTypes, MatterStates, WaitsSound, Transfer
<1>2. PICK row : row = [device |-> run[p].to, epoch |-> state.row.epoch + 1, expires |-> state.now + 1, released |-> FALSE]
  OBVIOUS
<1>3. /\ row \in LeaseRows /\ ~row.released /\ row.device = run[p].to /\ row.epoch = state.row.epoch + 1 /\ row # None
      /\ state.row.epoch \in Nat
  <2>1. state.row.epoch \in Nat /\ run[p].to \in Devices /\ state.now + 1 \in Nat /\ state.row.epoch + 1 \in Nat
    BY <1>1 DEF LeaseRows, Verified
  <2>2. row \in LeaseRows
    BY <1>2, <2>1 DEF LeaseRows
  <2> QED BY <1>2, <2>1, <2>2 DEF MatterConstants
<1>4. PICK t : t = [from |-> state.row.device, to |-> run[p].to, old |-> run[p].epoch, new |-> row.epoch]
  OBVIOUS
<1>5. /\ t \in [from : Devices, to : Devices, old : Nat, new : Nat] /\ t.from = state.row.device /\ t.to = row.device
      /\ t.old = state.row.epoch /\ t.new = row.epoch /\ t.from # t.to
  BY <1>1, <1>3, <1>4 DEF LeaseRows, Verified
<1>6. /\ state' = [state EXCEPT !.row = row, !.transfers = Append(@, t)] /\ env' = [env EXCEPT !.granted = Granted(row)]
      /\ run' = [run EXCEPT ![p] = None]
  BY <1>2, <1>4 DEF Transfer, Moved
<1>7. PICK ts : ts = Append(state.transfers, t)
  OBVIOUS
<1>8. /\ ts \in Seq([from : Devices, to : Devices, old : Nat, new : Nat]) /\ Len(ts) = Len(state.transfers) + 1
      /\ ts[Len(ts)] = t /\ \A i \in 1..Len(state.transfers) : ts[i] = state.transfers[i]
      /\ Len(state.transfers) \in Nat
  BY <1>1, <1>5, <1>7
<1>9. state' \in MatterStates /\ state'.row = row /\ state'.now = state.now /\ state'.transfers = ts
  BY <1>1, <1>3, <1>6, <1>7, <1>8 DEF MatterStates
<1>10. \A g \in env.granted : g.until > state.now => g.device = row.device
  BY <1>1 DEF GrantsSound, VerifyCurrent, Inactive, LeaseRows
<1>11. GrantsSound' /\ env' \in [granted : SUBSET Grants, changes : Nat]
  BY <1>3, <1>6, <1>9, <1>10, GivenToOne
<1>12. state.row # None /\ state.row.epoch = Len(state.transfers) + 1
  BY <1>1 DEF TransfersSound, MatterConstants
<1>13. ASSUME NEW i \in 1..Len(ts)
       PROVE  /\ ts[i].old = i /\ ts[i].new = i + 1 /\ ts[i].from # ts[i].to
              /\ i < Len(ts) => ts[i + 1].from = ts[i].to
              /\ i = Len(ts) => row.device = ts[i].to
  <2>1. CASE i = Len(ts)
    BY <1>3, <1>5, <1>8, <1>12, <2>1
  <2>2. CASE i # Len(ts)
    <3>1. i \in 1..Len(state.transfers) /\ ts[i] = state.transfers[i]
      BY <1>8, <2>2
    <3>2. i < Len(state.transfers) => ts[i + 1] = state.transfers[i + 1]
      BY <1>8, <3>1
    <3>3. i = Len(state.transfers) => ts[i + 1] = t
      BY <1>8
    <3>4. /\ ts[i].old = i /\ ts[i].new = i + 1 /\ ts[i].from # ts[i].to
          /\ i < Len(state.transfers) => state.transfers[i + 1].from = ts[i].to
          /\ i = Len(state.transfers) => state.row.device = ts[i].to
      BY <3>1 DEF TransfersSound
    <3>5. CASE i < Len(state.transfers)
      BY <1>8, <2>2, <3>2, <3>4, <3>5
    <3>6. CASE i = Len(state.transfers)
      BY <1>5, <1>8, <2>2, <3>3, <3>4, <3>6
    <3> QED BY <1>8, <3>1, <3>5, <3>6
  <2> QED BY <2>1, <2>2
<1>14. TransfersSound'
  BY <1>3, <1>8, <1>9, <1>12, <1>13 DEF TransfersSound
<1>15. run' \in [Procs -> Verified \cup {None}] /\ WaitsSound'
  BY <1>3, <1>6, <1>9 DEF MatterTypes, WaitsSound
<1> QED BY <1>9, <1>11, <1>14, <1>15 DEF MatterTypes

LEMMA WaitKeeps ==
  ASSUME MatterTypes, GrantsSound, TransfersSound, WaitsSound, MatterConstants, NEW p \in Procs,
         TransferRefused(p) \/ \E d \in Devices : BeginTransfer(p, d)
  PROVE  MatterTypes' /\ GrantsSound' /\ TransfersSound' /\ WaitsSound'
<1>1. UNCHANGED <<state, env>>
  BY DEF TransferRefused, BeginTransfer
<1>2. ASSUME TransferRefused(p)
      PROVE  run' \in [Procs -> Verified \cup {None}] /\ WaitsSound'
  <2>1. run \in [Procs -> Verified \cup {None}] /\ run' = [run EXCEPT ![p] = None]
    BY <1>2 DEF TransferRefused, MatterTypes
  <2>2. run' \in [Procs -> Verified \cup {None}] /\ \A q \in Procs : run'[q] = None \/ run'[q] = run[q]
    BY <2>1
  <2>3. state' = state
    BY <1>1
  <2> QED BY <2>2, <2>3 DEF WaitsSound
<1>3. ASSUME NEW d \in Devices, BeginTransfer(p, d)
      PROVE  run' \in [Procs -> Verified \cup {None}] /\ WaitsSound'
  <2>1. PICK t : t = [to |-> d, id |-> state.session[d].id, from |-> state.row.device, epoch |-> state.row.epoch]
    OBVIOUS
  <2>2. state.row # None /\ state.row.device # d /\ state.row \in LeaseRows /\ state.session[d].id \in Nat
    BY <1>3 DEF BeginTransfer, MatterTypes, MatterStates
  <2>3. t \in Verified /\ t.to # t.from
    BY <2>1, <2>2 DEF Verified, LeaseRows
  <2>4. run' = [run EXCEPT ![p] = t]
    BY <1>3, <2>1 DEF BeginTransfer
  <2> QED BY <1>1, <2>2, <2>3, <2>4 DEF MatterTypes, WaitsSound
<1>4. run' \in [Procs -> Verified \cup {None}] /\ WaitsSound'
  BY <1>2, <1>3 DEF MatterTypes
<1> QED BY <1>1, <1>4 DEF MatterTypes, GrantsSound, VerifyCurrent, TransfersSound

LEMMA OutsideKeeps ==
  ASSUME MatterTypes, GrantsSound, TransfersSound, WaitsSound, MatterConstants, Tick \/ \E d \in Devices : SessionChanges(d)
  PROVE  MatterTypes' /\ GrantsSound' /\ TransfersSound' /\ WaitsSound'
<1>1. state \in MatterStates /\ state.now \in Nat /\ state.row \in LeaseRows \cup {None}
  BY DEF MatterTypes, MatterStates
<1>2. CASE Tick
  <2>1. state' = [state EXCEPT !.now = state.now + 1] /\ run' = run /\ env' = env
    BY <1>2 DEF Tick
  <2>2. state' \in MatterStates /\ state'.row = state.row /\ state'.now = state.now + 1 /\ state'.transfers = state.transfers
    <3>1. PICK n \in Nat : n = state.now + 1
      BY <1>1
    <3>2. state' = [state EXCEPT !.now = n]
      BY <2>1, <3>1
    <3> QED BY <1>1, <3>1, <3>2 DEF MatterStates
  <2>3. GrantsSound'
    <3> SUFFICES ASSUME NEW g \in env.granted, g.until > state.now + 1
                 PROVE  VerifyCurrent(g.device, g.epoch)' /\ g.until <= state.row.expires
      BY <2>1, <2>2 DEF GrantsSound
    <3>1. g.until \in Nat
      BY DEF MatterTypes, Grants
    <3>2. VerifyCurrent(g.device, g.epoch) /\ g.until <= state.row.expires
      BY <1>1, <3>1 DEF GrantsSound
    <3> QED BY <1>1, <2>2, <3>1, <3>2 DEF VerifyCurrent, LeaseRows
  <2> QED BY <2>1, <2>2, <2>3 DEF MatterTypes, TransfersSound, WaitsSound
<1>3. ASSUME NEW d \in Devices, SessionChanges(d)
      PROVE  MatterTypes' /\ GrantsSound' /\ TransfersSound' /\ WaitsSound'
  <2>1. PICK on \in BOOLEAN : state' = [state EXCEPT !.session[d] = [id |-> IF on THEN state.session[d].id + 1 ELSE state.session[d].id, active |-> on]]
    BY <1>3 DEF SessionChanges
  <2>2. state' \in MatterStates /\ state'.row = state.row /\ state'.now = state.now /\ state'.transfers = state.transfers
    <3>1. state.session \in [Devices -> [id : Nat, active : BOOLEAN]]
      BY <1>1 DEF MatterStates
    <3>2. state.session[d].id \in Nat
      BY <3>1
    <3>3. PICK s : s = [id |-> IF on THEN state.session[d].id + 1 ELSE state.session[d].id, active |-> on]
      OBVIOUS
    <3>4. s \in [id : Nat, active : BOOLEAN]
      BY <3>2, <3>3
    <3>5. PICK f : f = [state.session EXCEPT ![d] = s]
      OBVIOUS
    <3>6. f \in [Devices -> [id : Nat, active : BOOLEAN]]
      BY <3>1, <3>4, <3>5
    <3>7. state' = [state EXCEPT !.session = f]
      BY <2>1, <3>3, <3>5
    <3> QED BY <1>1, <3>6, <3>7 DEF MatterStates
  <2>3. env' \in [granted : SUBSET Grants, changes : Nat] /\ env'.granted = env.granted /\ run' = run
    BY <1>3 DEF SessionChanges, MatterTypes
  <2> QED BY <2>2, <2>3 DEF MatterTypes, GrantsSound, VerifyCurrent, TransfersSound, WaitsSound
<1> QED BY <1>2, <1>3

\* What the store keeps of the accounts never becomes a matter
LEMMA IdentityStays ==
  ASSUME "kind" \in DOMAIN state, Identity
  PROVE  "kind" \in DOMAIN state' /\ state'.kind = state.kind
<1>1. CASE Suspend
  BY <1>1 DEF Suspend
<1>2. ASSUME NEW p \in Procs, (\E right \in BOOLEAN : Login(p, right)) \/ LoginFails(p) \/ LoginSucceeds(p) \/ Provisioned(p)
      PROVE  "kind" \in DOMAIN state' /\ state'.kind = state.kind
  BY <1>2 DEF Login, LoginFails, LoginSucceeds, Provisioned
<1>3. ASSUME NEW i \in 1..Len(state.sessions), Resolve(i) \/ Revoke(i) \/ \E p \in Procs, u \in Users : Provision(p, i, u)
      PROVE  "kind" \in DOMAIN state' /\ state'.kind = state.kind
  BY <1>3 DEF Resolve, Revoke, Provision
<1> QED BY <1>1, <1>2, <1>3 DEF Identity

LEMMA MatterStays ==
  ASSUME "kind" \in DOMAIN state, Matter
  PROVE  "kind" \in DOMAIN state' /\ state'.kind = state.kind
<1>1. ASSUME NEW d \in Devices, NEW e, NEW n, Claim(d, e, n) \/ Release(d, e) \/ SessionChanges(d)
      PROVE  "kind" \in DOMAIN state' /\ state'.kind = state.kind
  BY <1>1 DEF Claim, Release, SessionChanges
<1>2. ASSUME NEW p \in Procs, (\E d \in Devices : BeginTransfer(p, d)) \/ TransferRefused(p) \/ Transfer(p)
      PROVE  "kind" \in DOMAIN state' /\ state'.kind = state.kind
  BY <1>2 DEF BeginTransfer, TransferRefused, Transfer, Moved
<1> QED BY <1>1, <1>2 DEF Matter

LEMMA MatterKept ==
  ASSUME MatterSound, [Next]_vars, MatterConstants
  PROVE  MatterSound'
<1>1. CASE UNCHANGED vars
  BY <1>1 DEF vars, MatterSound, MatterTypes, GrantsSound, VerifyCurrent, TransfersSound, WaitsSound
<1>2. CASE Next /\ state.kind = "matter"
  <2>1. MatterTypes /\ GrantsSound /\ TransfersSound /\ WaitsSound
    BY <1>2 DEF MatterSound
  <2>2. MatterTypes' /\ GrantsSound' /\ TransfersSound' /\ WaitsSound'
    <3>1. CASE Tick
      BY <2>1, <3>1, OutsideKeeps
    <3>2. CASE Matter
      BY <2>1, <3>2, ClaimKeeps, ReleaseKeeps, TransferKeeps, WaitKeeps, OutsideKeeps DEF Matter
    <3> QED BY <1>2, <3>1, <3>2 DEF Next
  <2>3. "kind" \in DOMAIN state' /\ state'.kind = "matter"
    BY <2>2 DEF MatterTypes, MatterStates
  <2> QED BY <2>2, <2>3 DEF MatterSound
<1>3. CASE Next /\ state.kind # "matter"
  <2>1. "kind" \in DOMAIN state' /\ state'.kind = state.kind
    BY <1>3, IdentityStays DEF Next, Tick, MatterSound
  <2> QED BY <1>3, <2>1 DEF MatterSound
<1> QED BY <1>1, <1>2, <1>3

LEMMA MatterAlways ==
  ASSUME MatterConstants
  PROVE  Spec => []MatterSound
<1>1. Init => MatterSound
  BY MatterBegins
<1>2. MatterSound /\ [Next]_vars => MatterSound'
  BY MatterKept
<1> QED BY <1>1, <1>2, PTL DEF Spec

\* A matter has one owner at a time: whoever has been told it has the matter does until its time is over, and the
\* transfers go from epoch to epoch without a gap (claim, release and transfer of sqlite-matter-owner-lease.ts).
THEOREM MatterHasOneOwner ==
  ASSUME MatterConstants
  PROVE  Spec => []MatterHolds
<1>1. MatterSound => MatterHolds
  BY DEF MatterSound, MatterHolds, GrantsSound, TransfersSound
<1> QED BY <1>1, MatterAlways, PTL

\* Only a device with a session at that moment is given the matter, however long its transfer has been verified.
THEOREM GivenWithSession ==
  ASSUME MatterConstants
  PROVE  Spec => [][MatterStep]_vars
<1>1. ASSUME MatterSound, [Next]_vars
      PROVE  [MatterStep]_vars
  <2> SUFFICES ASSUME Next, state.kind = "matter", state'.row # state.row, state'.row.device \in Devices,
                      state.row = None \/ state.row.device # state'.row.device
               PROVE  state.session[state'.row.device].active
    BY <1>1 DEF MatterStep
  <2>1. MatterTypes /\ state \in MatterStates /\ WaitsSound
    BY <1>1 DEF MatterSound, MatterTypes
  <2>2. CASE Tick
    BY <2>1, <2>2 DEF Tick, MatterStates
  <2>3. ASSUME NEW d \in Devices, NEW e \in 0..MaxEpoch, NEW n \in Lengths, Claim(d, e, n)
        PROVE  state.session[state'.row.device].active
    <3>1. state'.row.device = d
      BY <2>1, <2>3 DEF Claim, MatterStates
    <3> QED BY <2>3, <3>1 DEF Claim, Session
  <2>4. ASSUME NEW d \in Devices, NEW e \in 1..MaxEpoch, Release(d, e)
        PROVE  FALSE
    <3>1. state.row # None /\ state.row \in LeaseRows
      BY <2>1, <2>4 DEF Release, MatterStates
    <3>2. state'.row.device = state.row.device
      BY <2>1, <2>4, <3>1 DEF Release, MatterStates, LeaseRows
    <3> QED BY <3>1, <3>2
  <2>5. ASSUME NEW p \in Procs, Transfer(p)
        PROVE  state.session[state'.row.device].active
    <3>1. state'.row.device = run[p].to
      BY <2>1, <2>5 DEF Transfer, Moved, MatterStates
    <3> QED BY <2>5, <3>1 DEF Transfer, Session
  <2>6. ASSUME NEW p \in Procs, TransferRefused(p) \/ \E d \in Devices : BeginTransfer(p, d)
        PROVE  FALSE
    BY <2>6 DEF TransferRefused, BeginTransfer
  <2>7. ASSUME NEW d \in Devices, SessionChanges(d)
        PROVE  FALSE
    BY <2>1, <2>7 DEF SessionChanges, MatterStates
  <2> QED BY <2>2, <2>3, <2>4, <2>5, <2>6, <2>7 DEF Next, Matter
<1> QED BY <1>1, MatterAlways, PTL DEF Spec

-----------------------------------------------------------------------------
(* Proofs about the accounts: for any users, requests, limits and bounds *)

Conditions == {"active", "suspended", None}
Throttles == [since : Nat, count : Nat, blocked : Nat]
Sessions == [until : Nat, state : {"active", "expired", "revoked"}]
Logins == [pc : {"login"}, right : BOOLEAN, at : Nat, throttle : Throttles \cup {None}, blocked : BOOLEAN]
Provisions == [pc : {"provision"}, user : Users]
IdentityStates == [kind : {"identity"}, now : Nat, account : [Users -> Conditions], throttle : Throttles \cup {None},
                   sessions : Seq(Sessions), audits : Seq([user : Users, by : Conditions])]

IdentityConstants == Admin \in Users /\ FailureLimit \in Nat /\ Window \in Nat /\ Lifetime \in Nat

IdentityTypes == state \in IdentityStates /\ run \in [Procs -> Logins \cup Provisions \cup {None}]

IdentitySound ==
  /\ "kind" \in DOMAIN state /\ state.kind \in {"matter", "identity"}
  /\ state.kind = "identity" => IdentityTypes

LEMMA IdentityBegins ==
  ASSUME Init, IdentityConstants
  PROVE  IdentitySound
<1>1. CASE InitMatter
  BY <1>1 DEF InitMatter, IdentitySound
<1>2. CASE InitIdentity
  <2>1. << >> \in Seq(Sessions) /\ << >> \in Seq([user : Users, by : Conditions])
    BY EmptySeq
  <2>2. IdentityTypes
    BY <1>2, <2>1 DEF InitIdentity, IdentityTypes, IdentityStates, Conditions
  <2> QED BY <1>2, <2>2 DEF InitIdentity, IdentitySound
<1> QED BY <1>1, <1>2 DEF Init

\* A password that was right, or was not, leaves the sessions of others alone
LEMMA LoginKeeps ==
  ASSUME IdentityTypes, IdentityConstants, NEW p \in Procs,
         (\E right \in BOOLEAN : Login(p, right)) \/ LoginFails(p) \/ LoginSucceeds(p)
  PROVE  IdentityTypes' /\ IdentityStep
<1>1. /\ state \in IdentityStates /\ run \in [Procs -> Logins \cup Provisions \cup {None}] /\ state.now \in Nat
      /\ state.sessions \in Seq(Sessions) /\ state.throttle \in Throttles \cup {None}
  BY DEF IdentityTypes, IdentityStates
<1>2. ASSUME NEW right \in BOOLEAN, Login(p, right)
      PROVE  IdentityTypes' /\ IdentityStep
  <2>1. PICK r \in BOOLEAN : r = (right /\ state.account[Admin] = "active")
    OBVIOUS
  <2>2. PICK b \in BOOLEAN : b = (state.throttle # None /\ state.throttle.blocked > state.now)
    OBVIOUS
  <2>3. PICK l : l = [pc |-> "login", right |-> r, at |-> state.now, throttle |-> state.throttle, blocked |-> b]
    OBVIOUS
  <2>4. l \in Logins /\ l.pc = "login"
    BY <1>1, <2>3 DEF Logins
  <2>5. run' = [run EXCEPT ![p] = l] /\ state' = state
    BY <1>2, <2>1, <2>2, <2>3 DEF Login
  <2> QED BY <1>1, <2>4, <2>5 DEF IdentityTypes, IdentityStep
<1>3. ASSUME run[p] # None, run[p].pc = "login"
      PROVE  run[p].at \in Nat /\ run[p].throttle \in Throttles \cup {None}
  BY <1>1, <1>3 DEF Logins, Provisions
<1>4. CASE LoginFails(p)
  <2>1. run' = [run EXCEPT ![p] = None]
    BY <1>4 DEF LoginFails
  <2>2. Failure(run[p].throttle, run[p].at) \in Throttles
    BY <1>3, <1>4 DEF LoginFails, Failure, Throttles, IdentityConstants
  <2>3. state' \in IdentityStates /\ state'.sessions = state.sessions
    BY <1>1, <1>4, <2>2 DEF LoginFails, IdentityStates
  <2> QED BY <1>1, <2>1, <2>3 DEF IdentityTypes, IdentityStep
<1>5. CASE LoginSucceeds(p)
  <2>1. run' = [run EXCEPT ![p] = None]
    BY <1>5 DEF LoginSucceeds
  <2>2. PICK s : s = [until |-> run[p].at + Lifetime, state |-> "active"]
    OBVIOUS
  <2>3. s \in Sessions
    BY <1>3, <1>5, <2>2 DEF LoginSucceeds, Sessions, IdentityConstants
  <2>4. PICK ss : ss = Append(state.sessions, s)
    OBVIOUS
  <2>5. ss \in Seq(Sessions) /\ \A i \in 1..Len(state.sessions) : ss[i] = state.sessions[i]
    BY <1>1, <2>3, <2>4
  <2>6. state' = [state EXCEPT !.throttle = None, !.sessions = ss]
    BY <1>5, <2>2, <2>4 DEF LoginSucceeds
  <2>7. state' \in IdentityStates /\ state'.sessions = ss
    BY <1>1, <2>5, <2>6 DEF IdentityStates
  <2> QED BY <1>1, <2>1, <2>5, <2>7 DEF IdentityTypes, IdentityStep
<1> QED BY <1>2, <1>4, <1>5

\* A session that ends is one that was active
LEMMA SessionEnds ==
  ASSUME IdentityTypes, NEW i \in 1..Len(state.sessions), Resolve(i) \/ Revoke(i)
  PROVE  IdentityTypes' /\ IdentityStep
<1>1. /\ state \in IdentityStates /\ run \in [Procs -> Logins \cup Provisions \cup {None}]
      /\ state.sessions \in Seq(Sessions)
  BY DEF IdentityTypes, IdentityStates
<1>2. PICK how \in {"expired", "revoked"} : state' = [state EXCEPT !.sessions[i].state = how]
  BY DEF Resolve, Revoke
<1>3. PICK s : s = [state.sessions[i] EXCEPT !.state = how]
  OBVIOUS
<1>4. s \in Sessions
  <2>1. state.sessions[i] \in Sessions
    BY <1>1
  <2> QED BY <1>3, <2>1 DEF Sessions
<1>5. PICK ss : ss = [state.sessions EXCEPT ![i] = s]
  OBVIOUS
<1>6. ss \in Seq(Sessions) /\ \A j \in 1..Len(state.sessions) : j # i => ss[j] = state.sessions[j]
  BY <1>1, <1>4, <1>5
<1>7. state' = [state EXCEPT !.sessions = ss]
  BY <1>2, <1>3, <1>5
<1>8. state' \in IdentityStates /\ state'.sessions = ss
  BY <1>1, <1>6, <1>7 DEF IdentityStates
<1>9. state.sessions[i].state = "active" /\ run' = run
  BY DEF Resolve, Revoke
<1> QED BY <1>1, <1>6, <1>8, <1>9 DEF IdentityTypes, IdentityStep

\* Who asks for an account has a session that resolves, so the account behind it is active
LEMMA ProvisionKeeps ==
  ASSUME IdentityTypes, IdentityConstants, NEW p \in Procs,
         Provisioned(p) \/ \E i \in 1..Len(state.sessions), u \in Users : Provision(p, i, u)
  PROVE  IdentityTypes' /\ IdentityStep
<1>1. /\ state \in IdentityStates /\ run \in [Procs -> Logins \cup Provisions \cup {None}]
      /\ state.account \in [Users -> Conditions] /\ state.audits \in Seq([user : Users, by : Conditions])
  BY DEF IdentityTypes, IdentityStates
<1>2. CASE Provisioned(p)
  <2>1. run[p].user \in Users /\ run' = [run EXCEPT ![p] = None]
    BY <1>1, <1>2 DEF Provisioned, Logins, Provisions
  <2>2. PICK f : f = [state.account EXCEPT ![run[p].user] = "active"]
    OBVIOUS
  <2>3. PICK a : a = [user |-> run[p].user, by |-> state.account[Admin]]
    OBVIOUS
  <2>4. PICK as : as = Append(state.audits, a)
    OBVIOUS
  <2>5. f \in [Users -> Conditions] /\ as \in Seq([user : Users, by : Conditions])
    <3>1. f \in [Users -> Conditions]
      BY <1>1, <2>1, <2>2 DEF Conditions
    <3>2. a \in [user : Users, by : Conditions]
      BY <1>1, <2>1, <2>3 DEF IdentityConstants
    <3> QED BY <1>1, <2>4, <3>1, <3>2
  <2>6. state' = state \/ state' = [state EXCEPT !.account = f, !.audits = as]
    BY <1>2, <2>2, <2>3, <2>4 DEF Provisioned
  <2>7. state' \in IdentityStates /\ state'.sessions = state.sessions
    BY <1>1, <2>5, <2>6 DEF IdentityStates
  <2> QED BY <1>1, <2>1, <2>7 DEF IdentityTypes, IdentityStep
<1>3. ASSUME NEW i \in 1..Len(state.sessions), NEW u \in Users, Provision(p, i, u)
      PROVE  IdentityTypes' /\ IdentityStep
  <2>1. PICK r : r = [pc |-> "provision", user |-> u]
    OBVIOUS
  <2>2. r \in Provisions
    BY <2>1 DEF Provisions
  <2>3. run' = [run EXCEPT ![p] = r] /\ state' = state /\ state.account[Admin] = "active"
    BY <1>3, <2>1 DEF Provision, Resolves
  <2> QED BY <1>1, <2>2, <2>3 DEF IdentityTypes, IdentityStep
<1> QED BY <1>2, <1>3

LEMMA TimeKeeps ==
  ASSUME IdentityTypes, IdentityConstants, Tick \/ Suspend
  PROVE  IdentityTypes' /\ IdentityStep
<1>1. state \in IdentityStates /\ state.now \in Nat /\ state.account \in [Users -> Conditions]
  BY DEF IdentityTypes, IdentityStates
<1>2. run' = run
  BY DEF Tick, Suspend
<1>3. CASE Tick
  <2>1. PICK n \in Nat : n = state.now + 1
    BY <1>1
  <2>2. state' = [state EXCEPT !.now = n]
    BY <1>3, <2>1 DEF Tick
  <2>3. state' \in IdentityStates /\ state'.sessions = state.sessions
    BY <1>1, <2>2 DEF IdentityStates
  <2> QED BY <1>2, <2>3 DEF IdentityTypes, IdentityStep
<1>4. CASE Suspend
  <2>1. PICK f : f = [state.account EXCEPT ![Admin] = IF @ = "active" THEN "suspended" ELSE "active"]
    OBVIOUS
  <2>2. f \in [Users -> Conditions]
    BY <1>1, <2>1 DEF Conditions
  <2>3. state' = [state EXCEPT !.account = f]
    BY <1>4, <2>1 DEF Suspend
  <2>4. state' \in IdentityStates /\ state'.sessions = state.sessions
    BY <1>1, <2>2, <2>3 DEF IdentityStates
  <2> QED BY <1>2, <2>4 DEF IdentityTypes, IdentityStep
<1> QED BY <1>3, <1>4

LEMMA IdentityKept ==
  ASSUME IdentitySound, [Next]_vars, IdentityConstants
  PROVE  IdentitySound' /\ [IdentityStep]_vars
<1>1. CASE UNCHANGED vars
  BY <1>1 DEF vars, IdentitySound, IdentityTypes
<1>2. CASE Next /\ state.kind = "identity"
  <2>1. IdentityTypes
    BY <1>2 DEF IdentitySound
  <2>2. IdentityTypes' /\ IdentityStep
    <3>1. CASE Tick
      BY <2>1, <3>1, TimeKeeps
    <3>2. CASE Identity
      BY <2>1, <3>2, TimeKeeps, LoginKeeps, SessionEnds, ProvisionKeeps DEF Identity
    <3> QED BY <1>2, <3>1, <3>2 DEF Next
  <2>3. "kind" \in DOMAIN state' /\ state'.kind = "identity"
    BY <2>2 DEF IdentityTypes, IdentityStates
  <2> QED BY <2>2, <2>3 DEF IdentitySound
<1>3. CASE Next /\ state.kind # "identity"
  <2>1. state.kind = "matter" /\ "kind" \in DOMAIN state
    BY <1>3 DEF IdentitySound
  <2>2. "kind" \in DOMAIN state' /\ state'.kind = "matter"
    BY <1>3, <2>1, MatterStays DEF Next, Tick
  <2> QED BY <1>3, <2>2 DEF IdentitySound, IdentityStep
<1> QED BY <1>1, <1>2, <1>3

\* A session that has ended never comes back, and a new account is only asked for while the account behind the session
\* is active (resolveSession and provisionUser of sqlite-cloud-identity.ts).
THEOREM EndedStaysEnded ==
  ASSUME IdentityConstants
  PROVE  Spec => [][IdentityStep]_vars
<1>1. Init => IdentitySound
  BY IdentityBegins
<1>2. IdentitySound /\ [Next]_vars => IdentitySound' /\ [IdentityStep]_vars
  BY IdentityKept
<1> QED BY <1>1, <1>2, PTL DEF Spec

\* Every step of the two stores keeps both: no matter goes to a device without a session, no ended session comes back.
THEOREM StoresStepHolds ==
  ASSUME MatterConstants, IdentityConstants
  PROVE  Spec => [][StoresStep]_vars
<1>1. [MatterStep]_vars /\ [IdentityStep]_vars => [StoresStep]_vars
  BY DEF StoresStep
<1> QED BY <1>1, GivenWithSession, EndedStaysEnded, PTL

=============================================================================

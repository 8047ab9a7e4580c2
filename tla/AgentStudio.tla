------------------------------ MODULE AgentStudio ------------------------------
(***************************************************************************)
(* The control plane's studio: drafts of an agent with revisions, immutable *)
(* test releases, the catalogue of capabilities, the plan that is signed   *)
(* and queued for a device, and the browser's console, whose requests come *)
(* back while the owner goes on working in it                              *)
(* (src/src/control-plane/sqlite-agent-studio.ts,                          *)
(*  sqlite-capability-registry.ts, agent-orchestration.ts,                 *)
(*  cloud-console-surface.ts, src/src/orchestration/blueprint-compiler.ts).*)
(***************************************************************************)
EXTENDS Naturals, Sequences

CONSTANTS
  None, Tabs,
  Names, Slug(_),         \* agents, and the identifier the console gives a new draft of one
  Versions, Artifacts,
  Owner, Users,           \* who works in the tabs, and who may register capabilities
  MaxRevision, MaxEdits, MaxLost    \* bounds

VARIABLES
  state,     \* the server's tables
  run,       \* the tabs
  env        \* tabs whose form was left behind by an answer; the counters

Drafts == {Slug(n) : n \in Names}
NewForm(n) == [name |-> n, version |-> 1, uses |-> None, of |-> None]
NewTab(n) == [draft |-> None, rev |-> 0, form |-> NewForm(n), list |-> [d \in Drafts |-> None],
              offers |-> {}, saving |-> None, loading |-> None, dispatching |-> None]

Init ==
  /\ state = [drafts |-> [d \in Drafts |-> None], releases |-> [k \in Names \X Versions |-> None],
              catalog |-> [v \in Versions |-> None], saved |-> [d \in Drafts |-> <<>>], queue |-> {}]
  /\ run = [t \in Tabs |-> NewTab(CHOOSE n \in Names : TRUE)]
  /\ env = [mixed |-> {}, edits |-> 0, lost |-> 0]

-----------------------------------------------------------------------------
(* The server *)

\* Every field of a blueprint goes into its digest, the label of the console's revision too
Blueprint(form, rev) == [name |-> form.name, version |-> form.version, uses |-> form.uses, label |-> rev + 1]
KeyOf(b) == <<b.name, b.version>>

Revision(d) == IF state.drafts[d] = None THEN 0 ELSE state.drafts[d].rev

\* Faulty variant: the revision the editor has seen is not compared
SavedBlind(d, b, of, expected) ==
  [state EXCEPT !.drafts[d] = [blueprint |-> b, rev |-> Revision(d) + 1, released |-> FALSE],
                !.saved[d] = Append(@, [blueprint |-> b, of |-> of])]

\* saveDraft; "of" is what the editor had in front of him when he wrote, <<>> in a stray tab
Saved(d, b, of, expected) ==
  IF expected = Revision(d)
  THEN [state EXCEPT !.drafts[d] = [blueprint |-> b, rev |-> expected + 1, released |-> FALSE],
                     !.saved[d] = Append(@, [blueprint |-> b, of |-> of])]
  ELSE state

\* Faulty variant: whatever was released under the version is taken for the draft's release
PublishedAny(d) ==
  LET draft == state.drafts[d]
      k == KeyOf(draft.blueprint) IN
  [state EXCEPT !.drafts[d].released = TRUE,
                !.releases[k] = IF @ = None THEN [draft |-> d, rev |-> draft.rev, blueprint |-> draft.blueprint] ELSE @]

\* publishTest
Published(d) ==
  LET draft == state.drafts[d]
      k == KeyOf(draft.blueprint)
      old == state.releases[k] IN
  IF old # None /\ old.blueprint # draft.blueprint THEN state
  ELSE [state EXCEPT !.drafts[d].released = TRUE,
                     !.releases[k] = IF old = None THEN [draft |-> d, rev |-> draft.rev, blueprint |-> draft.blueprint] ELSE old]

Visible(v, u) == state.catalog[v] # None /\ (state.catalog[v].private => state.catalog[v].owner = u)

\* Faulty variant: a release of the catalogue is replaced when it is registered again
RegisterAnew(u, v, artifact, private) ==
  /\ state' = [state EXCEPT !.catalog[v] = [owner |-> u, artifact |-> artifact, private |-> private]]
  /\ UNCHANGED <<run, env>>

\* registerInactive: what was registered is never changed
Register(u, v, artifact, private) ==
  /\ state.catalog[v] = None
  /\ state' = [state EXCEPT !.catalog[v] = [owner |-> u, artifact |-> artifact, private |-> private]]
  /\ UNCHANGED <<run, env>>

\* A plan is made of a draft that has been released as it is, and not of its twin
Lineage(d, rev) ==
  LET draft == state.drafts[d] IN
  /\ draft # None /\ draft.rev = rev /\ draft.released
  /\ state.releases[KeyOf(draft.blueprint)] = [draft |-> d, rev |-> rev, blueprint |-> draft.blueprint]

\* compileNoEffectExecutionPlan
Compiles(b) == b.uses # None => Visible(b.uses[1], Owner) /\ state.catalog[b.uses[1]].artifact = b.uses[2]

-----------------------------------------------------------------------------
(* The console *)

Tab(t, new) == run' = [run EXCEPT ![t] = new]
Selected(tab, d, draft) ==
  [tab EXCEPT !.draft = d, !.rev = draft.rev,
              !.form = [name |-> draft.blueprint.name, version |-> draft.blueprint.version, uses |-> draft.blueprint.uses,
                        of |-> <<d, draft.rev>>]]

Edit(t, name, version, uses) ==
  /\ env.edits < MaxEdits
  /\ uses = None \/ uses \in run[t].offers
  /\ Tab(t, [run[t] EXCEPT !.form = [@ EXCEPT !.name = name, !.version = version, !.uses = uses]])
  /\ env' = [env EXCEPT !.edits = @ + 1]
  /\ UNCHANGED state

Select(t, d) ==
  /\ run[t].list[d] # None
  /\ Tab(t, Selected(run[t], d, run[t].list[d]))
  /\ env' = [env EXCEPT !.mixed = @ \ {t}]
  /\ UNCHANGED state

\* The form is read, and then its digest awaited
Save(t) ==
  /\ run[t].saving = None
  /\ Tab(t, [run[t] EXCEPT !.saving = [pc |-> "digest", blueprint |-> Blueprint(run[t].form, run[t].rev), of |-> run[t].form.of]])
  /\ UNCHANGED <<state, env>>

\* The draft and the revision are those of the tab by then
Send(t) ==
  /\ run[t].saving # None /\ run[t].saving.pc = "digest"
  /\ LET tab == run[t]
         d == IF tab.draft = None THEN Slug(tab.saving.blueprint.name) ELSE tab.draft
         stray == t \in env.mixed \/ tab.form.of # tab.saving.of
         done == Saved(d, tab.saving.blueprint, IF stray THEN <<>> ELSE tab.saving.of, tab.rev) IN
     /\ Revision(d) < MaxRevision
     /\ state' = done
     /\ Tab(t, [tab EXCEPT !.saving = [pc |-> "reply", ok |-> done # state, draft |-> d, rev |-> tab.rev + 1, at |-> <<tab.draft, tab.rev>>]])
  /\ UNCHANGED env

\* What the server holds when it answers
Snapshot == [drafts |-> state.drafts, offers |-> {<<v, state.catalog[v].artifact>> : v \in {w \in Versions : Visible(w, Owner)}}]

\* Its answer moves the tab to the draft, wherever the owner has moved it meanwhile
Reply(t) ==
  /\ run[t].saving # None /\ run[t].saving.pc = "reply"
  /\ LET tab == run[t]
         s == tab.saving
         stays == <<tab.draft, tab.rev>> = s.at IN
     \/ /\ s.ok
        /\ Tab(t, [tab EXCEPT !.saving = None, !.draft = s.draft, !.rev = s.rev, !.loading = IF @ = None THEN <<Snapshot>> ELSE @,
                              !.form.of = IF stays THEN <<s.draft, s.rev>> ELSE @])
        /\ env' = [env EXCEPT !.mixed = IF stays THEN @ ELSE @ \cup {t}]
     \/ /\ ~s.ok
        /\ Tab(t, [tab EXCEPT !.saving = None])
        /\ UNCHANGED env
     \/ /\ s.ok /\ env.lost < MaxLost
        /\ Tab(t, [tab EXCEPT !.saving = None])
        /\ env' = [env EXCEPT !.lost = @ + 1]
  /\ UNCHANGED state

Refresh(t) ==
  /\ run[t].loading = None
  /\ Tab(t, [run[t] EXCEPT !.loading = <<Snapshot>>])
  /\ UNCHANGED <<state, env>>

\* The tab's draft is loaded again, over what was typed
Load(t) ==
  /\ run[t].loading # None
  /\ LET tab == [run[t] EXCEPT !.list = run[t].loading[1].drafts, !.offers = run[t].loading[1].offers, !.loading = None] IN
     IF tab.draft \in {d \in Drafts : tab.list[d] # None}
     THEN Tab(t, Selected(tab, tab.draft, tab.list[tab.draft])) /\ env' = [env EXCEPT !.mixed = @ \ {t}]
     ELSE Tab(t, tab) /\ UNCHANGED env
  /\ UNCHANGED state

Publish(t) ==
  LET tab == run[t] IN
  /\ tab.draft # None
  /\ tab.list[tab.draft] # None => ~tab.list[tab.draft].released
  /\ state.drafts[tab.draft].rev = tab.rev
  /\ state' = Published(tab.draft)
  /\ Tab(t, [tab EXCEPT !.loading = IF @ = None /\ state' # state THEN <<[Snapshot EXCEPT !.drafts = state'.drafts]>> ELSE @])
  /\ UNCHANGED env

\* The draft and its release are read, then the device and the catalogue
Dispatch(t) ==
  LET tab == run[t] IN
  /\ tab.dispatching = None
  /\ tab.draft # None /\ tab.list[tab.draft] # None /\ tab.list[tab.draft].released
  /\ Lineage(tab.draft, tab.rev)
  /\ Tab(t, [tab EXCEPT !.dispatching = [draft |-> tab.draft, rev |-> tab.rev, blueprint |-> state.drafts[tab.draft].blueprint]])
  /\ UNCHANGED <<state, env>>

Enqueue(t) ==
  /\ run[t].dispatching # None
  /\ Tab(t, [run[t] EXCEPT !.dispatching = None])
  /\ \/ Compiles(run[t].dispatching.blueprint) /\ state' = [state EXCEPT !.queue = @ \cup {run[t].dispatching}]
     \/ UNCHANGED state     \* no device, or no such capability
  /\ UNCHANGED env

\* The form stays as it is; a bound of the model: once no answer is awaited
Logout(t) ==
  /\ env.lost < MaxLost
  /\ run[t].draft # None /\ run[t].saving = None /\ run[t].loading = None /\ run[t].dispatching = None
  /\ Tab(t, [run[t] EXCEPT !.draft = None, !.rev = 0, !.list = [d \in Drafts |-> None], !.offers = {}, !.form.of = None])
  /\ env' = [env EXCEPT !.lost = @ + 1]
  /\ UNCHANGED state

Next ==
  \/ \E u \in Users, v \in Versions, a \in Artifacts, p \in BOOLEAN : Register(u, v, a, p)
  \/ \E t \in Tabs :
       \/ Save(t) \/ Send(t) \/ Reply(t) \/ Refresh(t) \/ Load(t) \/ Publish(t) \/ Dispatch(t) \/ Enqueue(t) \/ Logout(t)
       \/ \E d \in Drafts : Select(t, d)
       \/ \E n \in Names, v \in Versions, uses \in {None} \cup (Versions \X Artifacts) : Edit(t, n, v, uses)

-----------------------------------------------------------------------------
(* Properties *)

\* A released draft is word for word what was released, a release is what its draft held at its revision, and a queued
\* plan was made of both and of capabilities its owner may see; and no revision is overwritten by somebody who wrote
\* without having seen it, but for a tab that an answer moved to another draft than the one in its form.
StudioInvariant ==
  /\ \A d \in Drafts : state.drafts[d] # None /\ state.drafts[d].released =>
       LET r == state.releases[KeyOf(state.drafts[d].blueprint)] IN r # None /\ r.blueprint = state.drafts[d].blueprint
  /\ \A k \in Names \X Versions : state.releases[k] # None =>
       LET r == state.releases[k] IN state.saved[r.draft][r.rev].blueprint = r.blueprint /\ KeyOf(r.blueprint) = k
  /\ \A plan \in state.queue : state.releases[KeyOf(plan.blueprint)] = plan /\ Compiles(plan.blueprint)
  /\ \A d \in Drafts, n \in 2..MaxRevision : n <= Len(state.saved[d]) =>
       state.saved[d][n].of \in {<<d, n - 1>>, <<>>}

\* Releases, the catalogue and the history of the drafts are never rewritten
StudioStep ==
  /\ \A k \in Names \X Versions : state.releases[k] # None => state'.releases[k] = state.releases[k]
  /\ \A v \in Versions : state.catalog[v] # None => state'.catalog[v] = state.catalog[v]
  /\ \A d \in Drafts : Len(state.saved[d]) <= Len(state'.saved[d])
=============================================================================

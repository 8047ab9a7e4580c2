----------------------------- MODULE ModuleCatalog -----------------------------
(***************************************************************************)
(* The catalog of modules and the product composed from it: what           *)
(* validateModuleCatalog accepts (src/src/platform/modules.ts), the        *)
(* manifest, readiness and status of the native product (src/src/product). *)
(* A file that is not accepted makes its load throw, so that the file is   *)
(* only modelled while it is accepted.                                     *)
(***************************************************************************)
EXTENDS FiniteSets, Naturals, Relation

CONSTANTS
  Modules, Services, Effects, Files, Gates,
  BaseCatalog,       \* the catalog before the edits
  Manifest,          \* required capabilities: their modules, and optional ones
  Storage,           \* the module of the configured store
  None,
  MaxEdits           \* bound

VARIABLES
  state,     \* the catalog in the file
  run,       \* the native product: step, loaded catalog, what it requires, kernel
  env        \* edits so far

Classes == {"skeleton", "feature", "migration"}
\* The layers and the runtime left out (adapter, policy, projection, surface, shadow) are like those that are here
Layers == {"contract", "kernel", "provider", "operations", "workflow"}
Runtimes == {"static", "inactive", "active", "compat"}
Kernels == {"starting", "ready", "failed", "stopped"}

\* Layers that a source may import
InwardLayers(layer) ==
  CASE layer = "contract" -> {"contract"}
    [] layer = "kernel" -> {"contract", "kernel"}
    [] layer = "provider" -> {"contract", "kernel", "provider"}
    [] layer = "workflow" -> {"contract", "kernel", "workflow"}
    [] layer = "operations" -> Layers

-----------------------------------------------------------------------------
(* Validation *)

Ids(c) == {m \in Modules : c[m] # None}

Descriptor(m, d) ==
  /\ d.runtime = "static" => d.gives \cap Services = {} /\ d.needs \cap Services = {}
  /\ m \notin d.imports \cup d.runs \cup d.mounts
  /\ d.imports \cap (d.runs \cup d.mounts) = {} /\ d.runs \cap d.mounts = {}

\* Faulty variant: a feature may depend on a migration module
RelationsOpen(c, m) ==
  LET d == c[m] all == d.imports \cup d.runs \cup d.mounts IN
  /\ all \subseteq Ids(c)
  /\ d.class = "skeleton" => \A x \in all : c[x].class = "skeleton"
  /\ \A x \in d.imports : c[x].layer \in InwardLayers(d.layer)
  /\ d.mounts # {} => d.layer = "operations"

Relations(c, m) ==
  LET d == c[m] all == d.imports \cup d.runs \cup d.mounts IN
  /\ all \subseteq Ids(c)
  /\ d.class = "skeleton" => \A x \in all : c[x].class = "skeleton"
  /\ d.class = "feature" => \A x \in all : c[x].class # "migration"
  /\ \A x \in d.imports : c[x].layer \in InwardLayers(d.layer)
  /\ d.mounts # {} => d.layer = "operations"

Ownership(c, m) ==
  LET d == c[m] IN
  /\ IF d.runtime = "compat" THEN d.class = "feature" /\ d.host \in Ids(c) /\ c[d.host].class = "migration"
     ELSE d.host = None
  /\ d.runtime = "active" => d.ready
  /\ d.gate # None => d.runtime = "inactive"
  /\ d.plugin /\ d.runtime = "inactive" => d.gate # None
  /\ (d.layer = "contract") <=> (d.runtime = "static")
  /\ d.runtime = "static" => d.runs = {}
  /\ d.class = "skeleton" => /\ d.ready /\ d.runtime \in {"static", "active"}
                             /\ (d.needs \cup d.gives) \cap Effects = {}

Gives(c, x) == {m \in Ids(c) : x \in c[m].gives}
Provider(c, x) == CHOOSE m \in Gives(c, x) : TRUE

\* Faulty variant: only services have one provider
UniqueServices(c) == \A x \in Services : Cardinality(Gives(c, x)) <= 1

\* What a module owns alone: services, effects, source files, activation gates
Unique(c) ==
  /\ \A x \in Services \cup Effects \cup Files : Cardinality(Gives(c, x)) <= 1
  /\ \A m, n \in Ids(c) : c[m].gate # None /\ c[m].gate = c[n].gate => m = n

ActiveNeeds(c, m) ==
  c[m].runtime = "active" =>
    /\ \A x \in c[m].runs : c[x].runtime \in {"active", "static"}
    /\ \A x \in c[m].needs : Gives(c, x) # {} /\ c[Provider(c, x)].runtime = "active"

ServiceNeeds(c, m) ==
  \A x \in c[m].needs :
    /\ x \in Services => /\ Gives(c, x) # {}
                         /\ c[Provider(c, x)].gives \cap Files # {} => Provider(c, x) \notin c[m].runs
    /\ Gives(c, x) # {} /\ c[m].class # "migration" => c[Provider(c, x)].class # "migration"

\* Faulty variant: an effect's provider is no dependency
RuntimeEdgesOfServices(c, m) ==
  c[m].runs \cup c[m].mounts \cup {Provider(c, x) : x \in {s \in c[m].needs \cap Services : Gives(c, s) # {}}}

\* A module may use an effect of its own, but no service of its own
RuntimeEdges(c, m) ==
  c[m].runs \cup c[m].mounts
    \cup {Provider(c, x) : x \in {s \in c[m].needs \cap Services : Gives(c, s) # {}}}
    \cup ({Provider(c, x) : x \in {s \in c[m].needs \cap Effects : Gives(c, s) # {}}} \ {m})

RECURSIVE Visit(_, _, _)
Visit(c, m, path) ==
  m \notin path /\ \A x \in c[m].imports \cup RuntimeEdges(c, m) : Visit(c, x, path \cup {m})

Valid(c) ==
  /\ \A m \in Ids(c) : Descriptor(m, c[m]) /\ Relations(c, m) /\ Ownership(c, m)
  /\ Unique(c)
  /\ \A m \in Ids(c) : ActiveNeeds(c, m) /\ ServiceNeeds(c, m)
  /\ \A m \in Ids(c) : Visit(c, m, {})

RECURSIVE Reached(_, _, _)
Reached(c, closure, pending) ==
  IF pending = {} THEN closure
  ELSE LET m == CHOOSE x \in pending : TRUE
           edges == IF m \in Ids(c) THEN RuntimeEdges(c, m) ELSE {} IN
       Reached(c, closure \cup {m}, (pending \cup edges) \ (closure \cup {m}))
Closure(c, roots) == Reached(c, {}, roots)

Unresolved(c, among) == {m \in among \cap Ids(c) : \E x \in c[m].needs : Gives(c, x) = {}}

-----------------------------------------------------------------------------
(* The native product *)

Temporary(c, m) == m \notin Ids(c) \/ c[m].class = "migration" \/ c[m].runtime = "compat"
ManifestValid(c) == \A m \in Manifest.required \cup Manifest.optional : ~Temporary(c, m)
RequiredGates(c) == {c[m].gate : m \in {x \in Manifest.required : c[x].runtime = "inactive" /\ c[x].plugin}}
Roots == Manifest.required \cup {Storage}

Runs(c, m) == m \in Ids(c) /\ c[m].runtime \in {"active", "static"}

\* Faulty variant: only the implementation is looked at
ReadyImplemented(c) ==
  LET closure == Closure(c, Roots) IN
  (\A m \in closure : m \in Ids(c) /\ c[m].ready) /\ Unresolved(c, closure) = {}

Ready(c) ==
  LET closure == Closure(c, Roots) IN
  (\A m \in closure : Runs(c, m) /\ c[m].ready) /\ Unresolved(c, closure) = {}

\* What the console shows, with the catalog that was loaded at the start
Capability(ms) == IF run.kernel # "ready" THEN run.kernel
                  ELSE IF \A m \in ms : Runs(run.catalog, m) THEN "ready" ELSE "degraded"
Status ==
  LET closure == Closure(run.catalog, Roots) IN
  IF run.kernel # "ready" THEN run.kernel
  ELSE IF Capability(closure) = "ready" /\ Unresolved(run.catalog, closure) = {} THEN "ready"
  ELSE "degraded"

Init ==
  /\ state = BaseCatalog
  /\ run = [pc |-> "off", catalog |-> None, gates |-> {}, kernel |-> "stopped", stale |-> {}]
  /\ env = 0

LoadManifest ==
  /\ run.pc = "off"
  /\ run' = [run EXCEPT !.pc = IF ManifestValid(state) THEN "config" ELSE "refused",
                        !.gates = IF ManifestValid(state) THEN RequiredGates(state) ELSE {}]
  /\ UNCHANGED <<state, env>>

\* Every gate of the manifest must be set in the environment
LoadConfig ==
  /\ run.pc = "config"
  /\ \E set \in SUBSET Gates : run' = [run EXCEPT !.pc = IF run.gates \subseteq set THEN "load" ELSE "refused"]
  /\ UNCHANGED <<state, env>>

LoadCatalog ==
  /\ run.pc = "load"
  /\ run' = [run EXCEPT !.pc = "inspect", !.catalog = state]
  /\ UNCHANGED <<state, env>>

\* The file is read again
Inspect ==
  /\ run.pc = "inspect"
  /\ run' = [run EXCEPT !.pc = IF Ready(state) THEN "runs" ELSE "refused", !.kernel = IF Ready(state) THEN "starting" ELSE @]
  /\ UNCHANGED <<state, env>>

KernelMoves ==
  /\ run.pc = "runs"
  /\ \E k \in Kernels \ {run.kernel} : run' = [run EXCEPT !.kernel = k]
  /\ UNCHANGED <<state, env>>

Toggled(set, x) == IF x \in set THEN set \ {x} ELSE set \cup {x}

\* A module that gets another runtime gets the gate or the host that goes with it
Changed(d) ==
  {[d EXCEPT !.class = x] : x \in Classes} \cup {[d EXCEPT !.layer = x] : x \in Layers}
    \cup {[d EXCEPT !.runtime = x, !.gate = None, !.host = None] : x \in {"static", "active"}}
    \cup {[d EXCEPT !.runtime = "inactive", !.gate = g, !.host = None] : g \in Gates \cup {None}}
    \cup {[d EXCEPT !.runtime = "compat", !.gate = None, !.host = h] : h \in Ids(state)}
    \cup UNION {{[d EXCEPT !.imports = Toggled(@, x)], [d EXCEPT !.runs = Toggled(@, x)],
                 [d EXCEPT !.mounts = Toggled(@, x)]} : x \in Ids(state)}
    \cup {[d EXCEPT !.needs = Toggled(@, x)] : x \in Services \cup Effects}
    \cup {[d EXCEPT !.gives = Toggled(@, x)] : x \in Services \cup Effects \cup Files}
    \cup {[d EXCEPT !.plugin = ~d.plugin], [d EXCEPT !.ready = ~d.ready]}

\* A developer edits one field of one module, or removes the module; what runs does not read the file again
Edit(m) ==
  /\ env < MaxEdits /\ state[m] # None /\ run.pc \in {"off", "load", "inspect"}
  /\ \E d \in Changed(state[m]) \cup {None} :
       /\ d # state[m] /\ Valid([state EXCEPT ![m] = d])
       /\ state' = [state EXCEPT ![m] = d]
  /\ run' = [run EXCEPT !.stale = @ \cup ({run.pc} \ {"off"})]
  /\ env' = env + 1

Next == LoadManifest \/ LoadConfig \/ LoadCatalog \/ Inspect \/ KernelMoves \/ \E m \in Modules : Edit(m)

-----------------------------------------------------------------------------
(* Properties *)

Uses(c, m, n) == \/ n \in c[m].runs
                 \/ \E x \in c[m].needs \cap c[n].gives : x \in Services \/ m # n
Below(c, m, n) == Uses(c, m, n) \/ n \in c[m].mounts
Over(c, R(_, _, _)) == [p \in Ids(c) \X Ids(c) |-> R(c, p[1], p[2])]
Imports(c, m, n) == n \in c[m].imports
Depends(c, m, n) == Imports(c, m, n) \/ Below(c, m, n)

WithoutMigration(c) ==
  [m \in Modules |-> IF m \notin Ids(c) \/ c[m].class = "migration" THEN None
                     ELSE IF c[m].runtime = "compat" THEN [c[m] EXCEPT !.runtime = "inactive", !.host = None] ELSE c[m]]

\* The checks of one module and its neighbours decide what can be reached: no cycle, no source that reaches the
\* operations layer from an inner one, no module that runs while one it needs does not (unless a contract asks for an
\* effect); the closure is the modules reached; and the migration's modules can be removed without breaking another.
CatalogAccepted ==
  LET all == TransitiveClosure(Over(state, Depends), Ids(state))
      needs == ReflexiveTransitiveClosure(Over(state, Uses), Ids(state))
      imports == TransitiveClosure(Over(state, Imports), Ids(state))
      reach == ReflexiveTransitiveClosure(Over(state, Below), Ids(state)) IN
  /\ \A m \in Ids(state) : ~all[m, m]
  /\ \A m, n \in Ids(state) : imports[m, n] => state[n].layer \in InwardLayers(state[m].layer)
  /\ (\A m \in Ids(state) : state[m].runtime = "static" => state[m].needs = {}) =>
       \A m, n \in Ids(state) : state[m].runtime = "active" /\ needs[m, n] => state[n].runtime \in {"active", "static"}
  /\ \A m \in Ids(state) : Closure(state, {m}) = {n \in Ids(state) : reach[m, n]}
  /\ (\A m \in Ids(state) : state[m].runtime = "compat" => ~state[m].plugin) => Valid(WithoutMigration(state))

\* A product whose catalog was not edited while it started needs no activation gate, and shows ready whenever its
\* kernel is ready
ProductInvariant ==
  run.pc = "runs" /\ "inspect" \notin run.stale =>
    /\ run.kernel = "ready" => Status = "ready"
    /\ \A m \in Closure(run.catalog, Roots) : m \in Ids(run.catalog) /\ run.catalog[m].runtime # "compat"
    /\ run.stale = {} => run.gates = {}

CatalogInvariant == (run.pc = "off" => CatalogAccepted) /\ ProductInvariant
=============================================================================

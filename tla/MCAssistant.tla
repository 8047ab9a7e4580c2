------------------------------ MODULE MCAssistant ------------------------------
(***************************************************************************)
(* Small instances for TLC of the feature workflows, of the bridge's       *)
(* monitors and of the services around them.  They share nothing: the      *)
(* initial state chooses one of them, and it is the only one that moves.   *)
(* The features go without the four variables of the other parts, and      *)
(* these without those of the features.                                    *)
(***************************************************************************)
EXTENDS FeatureWorkflows, TLC

CONSTANTS
  Parts,        \* the parts that are checked
  c1, c2, t1, p1, p2, x1, x2, r1, n1, a1, k1, k2, s1, w1, w2, h1, e1, e2

VARIABLES part, state, disk, run, env
rest == <<state, disk, run, env>>

-----------------------------------------------------------------------------
(* Features: three ticks make a day *)

Day(t) == t \div 3
Morning(t) == t % 3 >= 1
Always(t) == TRUE
NeverSame(a, b) == FALSE
Large == {"outreach", "review", "session"}
AnswersOf(f) == IF f = "session" THEN 1 ELSE 2
HorizonOf(f) == IF f = "outreach" THEN 1 ELSE IF f \in {"discovery", "brief", "cleanup"} THEN 6 ELSE 3
FailuresOf(f) == IF f \in Large THEN 1 ELSE 2
Symmetry == Permutations({c1, c2}) \cup Permutations({p1, p2})
Singly == {{f} : f \in Flows}

-----------------------------------------------------------------------------
(* Monitors of the bridge *)

Reply(i, a, r, n) == [ignored |-> i, ask |-> a, research |-> r, notice |-> n]
One == [x \in {x1} |-> "one"]
Both(same) == [x \in {x1, x2} |-> IF same \/ x = x1 THEN "one" ELSE "other"]

Found == INSTANCE MentionMonitor WITH
  Messages <- {x1, x2}, ChatOf <- Both(TRUE), TaskOf <- Both(TRUE), Explicit <- {x2},
  Verdicts <- {Reply(TRUE, FALSE, "skip", "none"), Reply(FALSE, FALSE, "skip", "now")},
  Overlap <- 1, Lag <- 1, Horizon <- 2, MaxFailures <- 1, MaxCrashes <- 0, MaxSessions <- 1, MaxClicks <- 0
Studied == INSTANCE MentionMonitor WITH
  Messages <- {x1, x2}, ChatOf <- Both(FALSE), TaskOf <- Both(TRUE), Explicit <- {},
  Verdicts <- {Reply(FALSE, FALSE, "plain", "none"), Reply(FALSE, FALSE, "staged", "none")},
  Overlap <- 1, Lag <- 1, Horizon <- 0, MaxFailures <- 1, MaxCrashes <- 0, MaxSessions <- 2, MaxClicks <- 0
Questioned == INSTANCE MentionMonitor WITH
  Messages <- {x1}, ChatOf <- One, TaskOf <- One, Explicit <- {},
  Verdicts <- {Reply(FALSE, TRUE, "skip", "now"), Reply(FALSE, TRUE, "staged", "now")},
  Overlap <- 1, Lag <- 1, Horizon <- 0, MaxFailures <- 1, MaxCrashes <- 1, MaxSessions <- 2, MaxClicks <- 2
Noticed == INSTANCE MentionMonitor WITH
  Messages <- {x1, x2}, ChatOf <- Both(FALSE), TaskOf <- Both(FALSE), Explicit <- {},
  Verdicts <- {Reply(FALSE, FALSE, "skip", "digest")},
  Overlap <- 1, Lag <- 1, Horizon <- 0, MaxFailures <- 1, MaxCrashes <- 1, MaxSessions <- 1, MaxClicks <- 0

Asking == INSTANCE BridgeFollowup WITH
  Requests <- {r1}, Contacts <- {c1, c2}, Handlers <- {k1}, MaxDay <- 1, MaxFailures <- 1, MaxCrashes <- 1
Agent == INSTANCE XiaoweiChannel WITH
  Delegated <- {r1}, Notes <- {n1}, Answers <- {a1}, MaxFailures <- 1, MaxCrashes <- 1
Janitor == INSTANCE BridgeJanitor WITH
  Sessions <- {s1}, DeleteAfter <- 2, Horizon <- 4, MaxFailures <- 1, MaxTouches <- 1, MaxCrashes <- 1
Reports == INSTANCE BridgeReports WITH
  Tasks <- {t1, x1}, Prints <- {p1, p2}, Horizon <- 2, MaxFailures <- 1, MaxCrashes <- 1
WeeklyReports == INSTANCE BridgeReports WITH
  Tasks <- {}, Prints <- {p1, p2}, Horizon <- 7, MaxFailures <- 1, MaxCrashes <- 1

-----------------------------------------------------------------------------
(* Services *)

Delivery == INSTANCE EventDelivery WITH
  Events <- {e1}, Consumers <- <<"consumer">>, Workers <- {w1, w2}, Channels <- {h1}, Lease <- 1,
  RetryDelay <- 1, MaxAttempts <- 2, Horizon <- 2, MaxFailures <- 1, MaxCrashes <- 1, MaxAppends <- 2
Store == INSTANCE PgStore WITH
  Tables <- {"actions", "workflows", "policies", "effects", "migrations"}, Clients <- {k1, k2}, Contents <- {1, 2},
  Events <- {e1, e2}, Safe <- {1}, Lease <- 1, RetryDelay <- 1, Files <- 2, Repeatable <- {1}, Horizon <- 2,
  MaxCrashes <- 1, MaxAttempts <- 2, MaxFiles <- 4
Activation == INSTANCE ServiceActivation WITH
  MaxCommands <- 3, MaxFailures <- 1, MaxCrashes <- 2, MaxProcesses <- 3
Supervisor == INSTANCE Lifecycle WITH
  Components <- <<"store", "kernel", "bridge">>, Critical <- {"kernel", "bridge"}, MaxFailures <- 2
Recovery == INSTANCE RecoveryBundle WITH
  Storages <- {"sqlite", "postgres"}, Artifacts <- <<"db", "config">>, Commands <- {c1, c2},
  MaxWrites <- 1, MaxFailures <- 1, MaxCommands <- 6
TaskList == INSTANCE TaskIntake WITH
  Messages <- {x1, x2}, Tasks <- {t1, n1}, RefOf <- [x \in {x1, x2} |-> "reference"], Limit <- 1,
  MaxRuns <- 3, MaxFailures <- 1, MaxCrashes <- 1
Engaged == INSTANCE OwnerEngagement WITH
  Messages <- {x1, x2}, LowSignal <- {x2}, Events <- {}, KeyOf <- <<>>, OperationOf <- <<>>, Relevant <- {},
  Overlap <- 1, Lag <- 1, Limit <- 2, Horizon <- 3, MaxFailures <- 1, MaxCrashes <- 1
Reacted == INSTANCE OwnerEngagement WITH
  Messages <- {}, LowSignal <- {}, Events <- {e1, e2, h1}, KeyOf <- [e \in {e1, e2, h1} |-> IF e = h1 THEN "other" ELSE "reaction"],
  OperationOf <- [e \in {e1, e2, h1} |-> IF e = e2 THEN "deleted" ELSE "created"], Relevant <- {e1, e2},
  Overlap <- 1, Lag <- 1, Limit <- 2, Horizon <- 1, MaxFailures <- 1, MaxCrashes <- 1
Failover == INSTANCE CliFailover WITH
  Configs <- [dida : BOOLEAN, primary : {"codex", "claude"}, fallback : BOOLEAN, token : BOOLEAN], MaxCalls <- 2,
  Jobs <- {k1}, Directories <- {x1, x2}, Retention <- 2, Timeout <- 1, PruneLimit <- 1, Horizon <- 3, MaxDeaths <- 1
Lease == INSTANCE InstanceLease WITH Procs <- {k1, k2}, MaxDeaths <- 1
Vault == INSTANCE ArtifactStore WITH
  Versions <- {t1, n1, r1}, DigestOf <- [v \in {t1, n1, r1} |-> IF v = n1 THEN "other" ELSE "one"],
  MaxCommands <- 4, MaxFailures <- 1, MaxCrashes <- 1
Enrollment == INSTANCE DeviceEnrollment WITH
  Requests <- {r1, a1}, Lifetime <- 2, Grace <- 1, Horizon <- 3, MaxFailures <- 1, MaxCrashes <- 1
Applied == INSTANCE HandoffApply WITH
  Records <- {r1, n1, k1}, KindOf <- [r \in {r1, n1, k1} |-> IF r = r1 THEN "event" ELSE IF r = n1 THEN "signal" ELSE "workflow"],
  Keys <- <<"evaluation", "proposal">>, MaxMoves <- 2, MaxCrashes <- 1
Handover == INSTANCE HandoffFiles WITH
  Procs <- {k1, k2}, Evidence <- <<"result">>, DefectsOf <- [v \in 0 .. 1 |-> IF v = 0 THEN {"invalid-business-due-date"} ELSE {"duplicate-state-id"}], MaxMoves <- 1, MaxCrashes <- 1
Shape(urgent) == [priority |-> 3, soon |-> urgent, concerns |-> TRUE, actual |-> IF urgent THEN "silent" ELSE "notify",
                  task |-> IF urgent THEN t1 ELSE None]
Shadow == INSTANCE ShadowWeek WITH
  Messages <- {x1, x2, n1}, Tasks <- {t1}, Events <- {e1}, Limit <- 2, Week <- 1, Horizon <- 1, MaxFaults <- 1, MaxMoves <- 1,
  ShapeOf <- [m \in {x1, x2, n1} |-> Shape(m = x1)], KeyOf <- [m \in {x1, x2, n1} |-> IF m = n1 THEN "other" ELSE "one"],
  Akin <- {<<x1, x2>>, <<x2, x1>>, <<n1, n1>>, <<x1, x1>>, <<x2, x2>>, <<e1, n1>>, <<e1, x2>>}
Compat == INSTANCE CompatProcess WITH
  Keys <- {k1}, Urls <- {n1}, MaxFailures <- 3, MaxTicks <- 1
Cataloged(class, layer, imports, runs, needs, gives) ==
  [class |-> class, layer |-> layer, runtime |-> "active", ready |-> TRUE, imports |-> imports, runs |-> runs,
   mounts |-> {}, host |-> None, needs |-> needs, gives |-> gives, plugin |-> FALSE, gate |-> None]
FirstCatalog ==
  [m \in {k1, n1, t1, r1} |->
     CASE m = k1 -> Cataloged("skeleton", "kernel", {}, {}, {}, {})
       [] m = n1 -> Cataloged("feature", "provider", {k1}, {}, {}, {s1, e1, x1})
       [] m = t1 -> Cataloged("feature", "workflow", {k1}, {}, {e1}, {})
       [] m = r1 -> Cataloged("migration", "operations", {}, {t1}, {s1}, {})]
Catalog == INSTANCE ModuleCatalog WITH
  Modules <- {k1, n1, t1, r1}, Services <- {s1}, Effects <- {e1}, Files <- {x1}, Gates <- {w1}, BaseCatalog <- FirstCatalog,
  Manifest <- [required |-> {t1}, optional |-> {}], Storage <- n1, MaxEdits <- 2
Invited == INSTANCE GroupWatch WITH Chats <- {k1, r1}, Configured <- {}, Invitable <- {r1}, MaxMoves <- 1, MaxFailures <- 1, MaxCrashes <- 1
AsNamed(n) == n
Studio == INSTANCE AgentStudio WITH
  Tabs <- {k1}, Names <- {w1, w2}, Slug <- AsNamed, Versions <- {1}, Artifacts <- {}, Owner <- r1, Users <- {r1},
  MaxRevision <- 2, MaxEdits <- 1, MaxLost <- 0
Registry == INSTANCE AgentStudio WITH
  Tabs <- {k1}, Names <- {w1}, Slug <- AsNamed, Versions <- {1}, Artifacts <- {a1}, Owner <- r1, Users <- {r1, k2},
  MaxRevision <- 2, MaxEdits <- 1, MaxLost <- 1
Lark == INSTANCE LarkClient WITH
  Kinds <- {"send", "search", "survey", "context", "listen", "process"}, MaxChars <- 2, MaxLength <- 4, MaxTries <- 2,
  Chats <- {1, 2}, Groups <- {a1}, PageSize <- 1, MaxPages <- 2, Batch <- 1, MaxMoves <- 1,
  Minutes <- 1..5, Radius <- 1, NearMax <- 2, HistoryMax <- 1, TailMax <- 1
Stores == INSTANCE ControlStores WITH
  Kinds <- {"matter", "identity"}, Procs <- {k1, k2}, Devices <- {w1, w2}, Lengths <- {1, 2}, MaxEpoch <- 4,
  Users <- {r1, a1}, Admin <- r1, FailureLimit <- 2, Window <- 2, Lifetime <- 2, MaxSessions <- 1, MaxWrong <- 4,
  Horizon <- 2, MaxChanges <- 1
\* Facts of the two messages of the learning, decisions, and policies in the owner's words
Told(one, other) == [m \in {x1, x2} |-> IF m = x1 THEN one ELSE other]
Heard(notify, mentioned) ==
  [priority |-> 1, soon |-> FALSE, notify |-> notify, asks |-> FALSE, research |-> "skip", mine |-> FALSE, approval |-> FALSE,
   mentioned |-> mentioned, signal |-> "emoji", action |-> "ignored"]
Eq(fact, value) == [op |-> "eq", fact |-> fact, value |-> value]
NotBob == [when |-> [op |-> "not", of |-> Eq("sender", "bob")], attention |-> "silent"]
Mentioning ==
  [when |-> [op |-> "any", of |-> {[op |-> "exists", fact |-> "mentionsOwner"], Eq("urgency", "normal")}], attention |-> "batch"]

Learning == INSTANCE PolicyLearning WITH
  Messages <- {x1, x2}, ChatOf <- Told("room", "room"), SenderOf <- Told("ann", "bob"), UrgentOf <- Told(None, "normal"),
  DecisionOf <- [m \in {x1, x2} |-> Heard(TRUE, m = x2)], Authored <- {},
  MinimumSamples <- 1, MinimumScope <- 1, TuneSamples <- 1, Coverage <- 1, Interval <- 1, Cooldown <- 1,
  Horizon <- 2, MaxCrashes <- 1
Worded == INSTANCE PolicyLearning WITH
  Messages <- {x1, x2}, ChatOf <- Told("room", "room"), SenderOf <- Told("ann", "bob"), UrgentOf <- Told(None, "urgent"),
  DecisionOf <- [m \in {x1, x2} |-> Heard(FALSE, m = x2)], Authored <- {NotBob, Mentioning},
  MinimumSamples <- 9, MinimumScope <- 9, TuneSamples <- 1, Coverage <- 1, Interval <- 1, Cooldown <- 1,
  Horizon <- 1, MaxCrashes <- 1
\* What a workflow wants of the task list
Wish(kind, target) == [kind |-> kind, target |-> target]
Dida == INSTANCE DidaEffects WITH
  Tasks <- {k1, k2, s1}, Effects <- {e1, e2},
  Asked <- {[e \in {e1, e2} |-> IF e = e1 THEN a ELSE b] : a \in {Wish("intake", None), Wish("intake", k1)}, b \in {Wish("update", k1), Wish("result", k1)}}
           \cup {[e \in {e1, e2} |-> IF e = e1 THEN Wish("cleanup", None) ELSE Wish("result", k1)]},
  AuthorizedDeletes <- 1, Retention <- 1, Now <- 2, MaxTouches <- 1, MaxFailures <- 1
Streaming == INSTANCE LarkEvents WITH EventKeys <- <<"message">>, MaxBuffered <- 1, Messages <- {}, ChatOf <- [m \in {} |-> "room"], Hits <- [s \in {} |-> {}], Mentioned <- {},
  PageLimit <- 2, MaxEvents <- [k \in {"message"} |-> 3], MaxStarts <- 2, MaxFailures <- 1, MaxFlags <- 1
Heeded == INSTANCE LarkEvents WITH EventKeys <- <<"message", "card">>, MaxBuffered <- 1, Messages <- {x1, x2}, ChatOf <- [m \in {x1, x2} |-> "room"],
  Hits <- [s \in {"sender", "chat"} |-> IF s = "sender" THEN {x1} ELSE {x2}], Mentioned <- {x1},
  PageLimit <- 1, MaxEvents <- [k \in {"message", "card"} |-> 0], MaxStarts <- 2, MaxFailures <- 1, MaxFlags <- 1
Carried == INSTANCE Executors WITH Requests <- {e1, e2, r1, h1}, SessionOf <- [q \in {e1, e2, r1, h1} |-> IF q = r1 THEN w1 ELSE IF q = h1 THEN w2 ELSE s1],
  Sessions <- {s1, w2}, Foreign <- {w2}, Runs <- {k1, k2, n1}, AnswerOf <- [r \in {k1, k2, n1} |-> IF r = n1 THEN x1 ELSE a1],
  Length <- [a \in {a1, x1} |-> IF a = x1 THEN 2 ELSE 1], Limit <- 1, MaxTalks <- 1, MaxAborts <- 1, MaxCrashes <- 1, MaxTampers <- 1
Pair(day) == day \div 2
Target == INSTANCE RecoveryTarget WITH
  Procs <- {c1, c2}, Daily <- 1, Weekly <- 1, WeekOf <- Pair, Horizon <- 3, MaxFailures <- 1, MaxCycles <- 3

-----------------------------------------------------------------------------

Diskless == {"executors", "events", "streams", "dida", "worded", "learning", "stores", "lark", "registry", "studio", "groups", "catalog", "compat", "shadow", "files", "applied", "enrollment", "artifacts", "lease", "failover", "reacted", "owner", "tasks", "delivery", "store", "activation", "supervisor", "recovery", "target"}

NoFeatures ==
  /\ now = 0 /\ flow = [f \in Flows |-> Absent] /\ outbox = << >> /\ session = SessionLive /\ heard = {}
  /\ spent = [answers |-> 0, failures |-> 0, retries |-> 0, faults |-> 0, touches |-> 0]

AssistantInit ==
  /\ part \in Parts
  /\ IF part = "features" THEN Init ELSE IF part = "imported" THEN ImportInit ELSE NoFeatures
  /\ part \in {"features", "imported"} => state = 0 /\ run = 0 /\ env = 0
  /\ part = "found" => Found!Init
  /\ part = "studied" => Studied!Init
  /\ part = "questioned" => Questioned!Init
  /\ part = "noticed" => Noticed!Init
  /\ part = "asking" => Asking!Init
  /\ part = "agent" => Agent!Init
  /\ part = "janitor" => Janitor!Init
  /\ part = "reports" => Reports!Init
  /\ part = "weekly" => WeeklyReports!Init
  /\ part = "delivery" => Delivery!Init
  /\ part = "store" => Store!Init
  /\ part = "activation" => Activation!Init
  /\ part = "supervisor" => Supervisor!Init
  /\ part = "recovery" => Recovery!Init
  /\ part = "tasks" => TaskList!Init
  /\ part = "owner" => Engaged!Init
  /\ part = "reacted" => Reacted!Init
  /\ part = "failover" => Failover!Init
  /\ part = "lease" => Lease!Init
  /\ part = "artifacts" => Vault!Init
  /\ part = "enrollment" => Enrollment!Init
  /\ part = "applied" => Applied!Init
  /\ part = "files" => Handover!Init
  /\ part = "shadow" => Shadow!Init
  /\ part = "compat" => Compat!Init
  /\ part = "catalog" => Catalog!Init
  /\ part = "groups" => Invited!Init
  /\ part = "studio" => Studio!Init
  /\ part = "registry" => Registry!Init
  /\ part = "lark" => Lark!Init
  /\ part = "stores" => Stores!Init
  /\ part = "learning" => Learning!Init
  /\ part = "worded" => Worded!Init
  /\ part = "dida" => Dida!Init
  /\ part = "streams" => Streaming!Init
  /\ part = "events" => Heeded!Init
  /\ part = "executors" => Carried!Init
  /\ part = "target" => Target!Init
  /\ part \in {"features", "imported"} \cup Diskless => disk = 0

ServiceNext ==
  \/ part = "delivery" /\ Delivery!Next
  \/ part = "store" /\ Store!Next
  \/ part = "activation" /\ Activation!Next
  \/ part = "supervisor" /\ Supervisor!Next
  \/ part = "recovery" /\ Recovery!Next
  \/ part = "tasks" /\ TaskList!Next
  \/ part = "owner" /\ Engaged!Next
  \/ part = "reacted" /\ Reacted!Next
  \/ part = "failover" /\ Failover!Next
  \/ part = "lease" /\ Lease!Next
  \/ part = "artifacts" /\ Vault!Next
  \/ part = "enrollment" /\ Enrollment!Next
  \/ part = "applied" /\ Applied!Next
  \/ part = "files" /\ Handover!Next
  \/ part = "shadow" /\ Shadow!Next
  \/ part = "compat" /\ Compat!Next
  \/ part = "catalog" /\ Catalog!Next
  \/ part = "groups" /\ Invited!Next
  \/ part = "studio" /\ Studio!Next
  \/ part = "registry" /\ Registry!Next
  \/ part = "lark" /\ Lark!Next
  \/ part = "stores" /\ Stores!Next
  \/ part = "learning" /\ Learning!Next
  \/ part = "worded" /\ Worded!Next
  \/ part = "dida" /\ Dida!Next
  \/ part = "streams" /\ Streaming!Next
  \/ part = "events" /\ Heeded!Next
  \/ part = "executors" /\ Carried!Next
  \/ part = "target" /\ Target!Next

\* Bound: at most two disturbances in the life of a workflow, and no repetition after an import
FewDisturbances ==
  /\ spent'.faults + spent'.retries + spent'.failures + spent'.touches <= 2
  /\ part = "imported" => spent'.faults + spent'.retries = 0

AssistantNext ==
  /\ UNCHANGED part
  /\ \/ part \in {"features", "imported"} /\ Next /\ UNCHANGED rest /\ FewDisturbances
     \/ /\ UNCHANGED vars
        /\ \/ part = "found" /\ Found!Next
           \/ part = "studied" /\ Studied!Next
           \/ part = "questioned" /\ Questioned!Next
           \/ part = "noticed" /\ Noticed!Next
           \/ part = "asking" /\ Asking!Next
           \/ part = "agent" /\ Agent!Next
           \/ part = "janitor" /\ Janitor!Next
           \/ part = "reports" /\ Reports!Next
           \/ part = "weekly" /\ WeeklyReports!Next
           \/ part \in Diskless /\ UNCHANGED disk /\ ServiceNext

AssistantSpec == AssistantInit /\ [][AssistantNext]_<<part, vars, rest>>

-----------------------------------------------------------------------------
(* Properties: those of the parts *)

\* What every monitor of the bridge promises, see the modules
MonitorsInvariant ==
  /\ part = "found" => Found!MentionInvariant
  /\ part = "studied" => Studied!MentionInvariant
  /\ part = "questioned" => Questioned!MentionInvariant
  /\ part = "noticed" => Noticed!MentionInvariant
  /\ part = "asking" => Asking!FollowupInvariant
  /\ part = "agent" => Agent!ChannelInvariant
  /\ part = "janitor" => Janitor!JanitorInvariant
  /\ part = "reports" => Reports!ReportsInvariant
  /\ part = "weekly" => WeeklyReports!ReportsInvariant

\* The invariants of the services, see the modules
ServicesInvariant ==
  /\ part = "delivery" => Delivery!EventInvariant
  /\ part = "store" => Store!StoreInvariant
  /\ part = "activation" => Activation!ActivationInvariant
  /\ part = "supervisor" => Supervisor!LifecycleInvariant
  /\ part = "recovery" => Recovery!RecoveryInvariant
  /\ part = "tasks" => TaskList!IntakeInvariant
  /\ part = "owner" => Engaged!EngagementInvariant
  /\ part = "reacted" => Reacted!EngagementInvariant
  /\ part = "failover" => Failover!FailoverInvariant
  /\ part = "lease" => Lease!LeaseInvariant
  /\ part = "artifacts" => Vault!StoreInvariant
  /\ part = "enrollment" => Enrollment!EnrollmentInvariant
  /\ part = "applied" => Applied!ApplyInvariant
  /\ part = "files" => Handover!FilesInvariant
  /\ part = "shadow" => Shadow!ShadowInvariant
  /\ part = "compat" => Compat!CompatInvariant
  /\ part = "catalog" => Catalog!CatalogInvariant
  /\ part = "groups" => Invited!WatchInvariant
  /\ part = "studio" => Studio!StudioInvariant
  /\ part = "registry" => Registry!StudioInvariant
  /\ part = "lark" => Lark!LarkInvariant
  /\ part = "stores" => Stores!StoresInvariant
  /\ part = "learning" => Learning!LearningInvariant
  /\ part = "worded" => Worded!LearningInvariant
  /\ part = "dida" => Dida!DidaInvariant
  /\ part = "streams" => Streaming!LarkEventsInvariant
  /\ part = "events" => Heeded!LarkEventsInvariant
  /\ part = "executors" => Carried!ExecutorsInvariant
  /\ part = "target" => Target!TargetInvariant

\* What a step of a part may never do, see the modules
PartsSteps ==
  [][/\ part = "noticed" => Noticed!DigestStep
     /\ part = "delivery" => Delivery!DeliveryStep
     /\ part = "store" => Store!StoreStep
     /\ part = "activation" => Activation!HealthStep
     /\ part = "supervisor" => Supervisor!LifecycleStep
     /\ part = "tasks" => TaskList!IntakeStep
     /\ part = "reacted" => Reacted!EngagementStep
     /\ part = "applied" => Applied!ApplyStep
     /\ part = "files" => Handover!FilesStep
     /\ part = "compat" => Compat!CompatStep
     /\ part = "groups" => Invited!WatchStep
     /\ part = "studio" => Studio!StudioStep
     /\ part = "registry" => Registry!StudioStep
     /\ part = "stores" => Stores!StoresStep
     /\ part = "learning" => Learning!LearningStep
     /\ part = "worded" => Worded!LearningStep
     /\ part = "dida" => Dida!DidaStep
     /\ part = "streams" => Streaming!LarkEventsStep
     /\ part = "events" => Heeded!LarkEventsStep
     /\ part = "executors" => Carried!ExecutorsStep
     /\ part = "recovery" => Recovery!RecoveryStep]_rest

\* A client's state has one owner, after the recovery of a stale lease too
OneLeaseOwner == part = "lease" => Lease!OneOwner

\* Whenever the PostgreSQL store starts again, its migrations can be completed
MigrationsComplete == part = "store" => Store!MigrationsComplete

\* An activation of the client that was interrupted can be reconciled
InterruptedReconciles == part = "activation" => Activation!InterruptedReconciles
=============================================================================

---------------------------- MODULE MerchantConfig ----------------------------
(***************************************************************************)
(* A merchant's settings: the files they are kept in with the history of   *)
(* all revisions (python/examples/merchant_control.py), the process that   *)
(* changes and serves them (merchant_app.py, seller/gateway.py), and the   *)
(* operators' consoles (merchant-dist/dashboard/install_dashboard.js).     *)
(*                                                                         *)
(* The handlers do not await: the process runs one at a time, but it may   *)
(* die, and the disk may fail, at each of the files one writes.            *)
(***************************************************************************)
EXTENDS Integers, Sequences, FiniteSets

CONSTANTS
  Route,     \* paid routes: a path and its method, spelled one way
  Price,     \* price_atomic of a route
  Plan,      \* plan ids
  Brand,     \* service names, descriptions and brands
  Default,   \* the settings of a merchant who has saved none
  Console,   \* open dashboards
  MaxOps,    \* bound: changes that are asked for
  MaxErrors, \* bound: writes that fail
  MaxCrashes,\* bound: times the process dies
  Torn,      \* a file that was not written to its end
  None

Listing == [price : Price, enabled : BOOLEAN]

\* Partial functions, for what need not be listed.
Partial(S, T) == UNION {[D -> T] : D \in SUBSET S}

Config ==
  [brand : Brand, routes : Partial(Route, Listing), plans : Partial(Plan, BOOLEAN)]

ASSUME ConfigAssumption ==
  /\ Price \subseteq Nat /\ Default \in Config
  /\ MaxOps \in Nat /\ MaxErrors \in Nat /\ MaxCrashes \in Nat
  /\ Torn \notin Config /\ None \notin Config \cup Brand \cup {Torn}

VARIABLES
  file,     \* the settings file, if there is one
  history,  \* the files of the history directory, by revision
  up,       \* the process runs
  memory,   \* app.state.aimipay_install_config
  served,   \* the gateway's routes and plans
  public,   \* the brand in merchant.public.json
  op,       \* the change that is being made
  view,     \* the settings each console has rendered, and the revisions it lists
  dialog,   \* the rollback each console asks to confirm, with its diff
  acked,    \* history: the settings whose change was answered last
  tried,    \* history: settings somebody asked for since
  ops, errors, crashes

files == <<file, history, public>>
process == <<up, memory, served, op>>
consoles == <<view, dialog>>
bounds == <<ops, errors, crashes>>
vars == <<files, process, consoles, acked, tried, bounds>>

NoOp == [at |-> "none"]

\* A change: the next of its four steps.
Change == [at : {"file", "history", "runtime", "public"}, config : Config]

TypeOK ==
  /\ file \in Config \cup {Torn, None}
  /\ history \in Seq(Config \cup {Torn})
  /\ up \in BOOLEAN /\ memory \in Config
  /\ served.routes \in Partial(Route, Listing) /\ served.plans \in Partial(Plan, BOOLEAN)
  /\ public \in Brand \cup {Torn, None}
  /\ op \in Change \cup {NoOp}
  /\ view \in [Console -> [config : Config, revisions : SUBSET Nat] \cup {None}]
  /\ DOMAIN dialog = Console
  /\ acked \in Config /\ tried \subseteq Config
  /\ ops \in 0 .. MaxOps /\ errors \in 0 .. MaxErrors /\ crashes \in 0 .. MaxCrashes
-------------------------------------------------------------------------------
(***************************************************************************)
(* Settings.                                                               *)
(***************************************************************************)
With(f, key, value) == [k \in DOMAIN f \cup {key} |-> IF k = key THEN value ELSE f[k]]

Without(f, key) == [k \in DOMAIN f \ {key} |-> f[k]]

UpsertRoute(config, r, listing) == [config EXCEPT !.routes = With(@, r, listing)]

DeleteRoute(config, r) == [config EXCEPT !.routes = Without(@, r)]

ToggledRoute(config, r, enabled) ==
  IF r \in DOMAIN config.routes THEN [config EXCEPT !.routes[r].enabled = enabled] ELSE config

UpsertPlan(config, p, enabled) == [config EXCEPT !.plans = With(@, p, enabled)]

DeletePlan(config, p) == [config EXCEPT !.plans = Without(@, p)]

ToggledPlan(config, p, enabled) ==
  IF p \in DOMAIN config.plans THEN [config EXCEPT !.plans[p] = enabled] ELSE config

\* What one of the two lists lacks, and what they list differently.
Added(f, g) == [k \in DOMAIN g \ DOMAIN f |-> g[k]]

Changed(f, g) ==
  [k \in {x \in DOMAIN f \cap DOMAIN g : f[x] # g[x]} |-> [before |-> f[k], after |-> g[k]]]

DiffAdditions(current, target) ==
  [branding |-> current.brand # target.brand,
   routesAdded |-> Added(current.routes, target.routes),
   routesRemoved |-> [k \in {} |-> 0],
   routesChanged |-> Changed(current.routes, target.routes),
   plansAdded |-> Added(current.plans, target.plans),
   plansRemoved |-> Added(target.plans, current.plans),
   plansChanged |-> Changed(current.plans, target.plans)]

DiffConfigs(current, target) ==
  [branding |-> current.brand # target.brand,
   routesAdded |-> Added(current.routes, target.routes),
   routesRemoved |-> Added(target.routes, current.routes),
   routesChanged |-> Changed(current.routes, target.routes),
   plansAdded |-> Added(current.plans, target.plans),
   plansRemoved |-> Added(target.plans, current.plans),
   plansChanged |-> Changed(current.plans, target.plans)]

EnabledRoutes(routes) == [r \in {k \in DOMAIN routes : routes[k].enabled} |-> routes[r]]

EnabledPlans(plans) == [p \in {k \in DOMAIN plans : plans[k]} |-> plans[p]]

Enabled(config) ==
  [routes |-> EnabledRoutes(config.routes), plans |-> EnabledPlans(config.plans)]

ManifestUnfiltered == served

\* build_manifest.
Manifest ==
  [routes |-> EnabledRoutes(served.routes), plans |-> EnabledPlans(served.plans)]

Discover == Manifest

CapabilityRegistry == Enabled(served)
-------------------------------------------------------------------------------
(***************************************************************************)
(* Changes: the file, its revision, the running process, the public file.  *)
(***************************************************************************)
Ready == up /\ op = NoOp

Begin(config, at) ==
  /\ Ready /\ ops < MaxOps
  /\ ops' = ops + 1
  /\ op' = [at |-> at, config |-> config]
  /\ tried' = tried \cup {config}
  /\ UNCHANGED <<files, up, memory, served, acked, errors, crashes>>

NextStep(at) == op' = [op EXCEPT !.at = at]

WriteFile ==
  /\ op.at = "file"
  /\ file' = op.config
  /\ NextStep("history")
  /\ UNCHANGED <<history, public, up, memory, served, consoles, acked, tried, bounds>>

LastRevision == IF history = <<>> THEN 1 ELSE Len(history)

\* One more than the highest number in use, readable or not.
NextRevision == Len(history) + 1

Revised(snapshot) == [i \in 1 .. NextRevision |-> IF i = NextRevision THEN snapshot ELSE history[i]]

WriteSnapshot ==
  /\ op.at = "history"
  /\ history' = Revised(op.config)
  /\ NextStep("runtime")
  /\ UNCHANGED <<file, public, up, memory, served, consoles, acked, tried, bounds>>

ApplyRuntimeState ==
  /\ op.at = "runtime"
  /\ memory' = op.config /\ served' = Enabled(op.config)
  /\ NextStep("public")
  /\ UNCHANGED <<files, up, consoles, acked, tried, bounds>>

\* The last file; the change is answered.
SyncPublicConfig ==
  /\ op.at = "public"
  /\ public' = memory.brand
  /\ op' = NoOp /\ acked' = op.config /\ tried' = {}
  /\ UNCHANGED <<file, history, up, memory, served, consoles, bounds>>

\* What a write leaves that was cut off: nothing new, or a torn file.
CutOff ==
  CASE op.at = "file" -> file' \in {file, Torn} /\ UNCHANGED <<history, public>>
    [] op.at = "history" -> history' \in {history, Revised(Torn)} /\ UNCHANGED <<file, public>>
    [] op.at = "public" -> public' \in {public, Torn} /\ UNCHANGED <<file, history>>
    [] OTHER -> UNCHANGED files

\* A write fails: the handler raises, the answer is an error.
WriteFails ==
  /\ op # NoOp /\ op.at # "runtime" /\ errors < MaxErrors
  /\ errors' = errors + 1
  /\ CutOff
  /\ op' = NoOp
  /\ UNCHANGED <<up, memory, served, consoles, acked, tried, ops, crashes>>

Crash ==
  /\ up /\ crashes < MaxCrashes
  /\ crashes' = crashes + 1
  /\ up' = FALSE /\ op' = NoOp
  /\ IF op = NoOp THEN UNCHANGED files ELSE CutOff
  /\ UNCHANGED <<memory, served, consoles, acked, tried, ops, errors>>

\* load_install_config, unless the file is torn: then it raises.
LoadConfig == IF file = None THEN Default ELSE file

\* install_sellable_capability hands on every route and plan, paused ones too.
InstallSellableCapability(config) == [routes |-> config.routes, plans |-> config.plans]

\* create_app.
CreateApp ==
  /\ ~up /\ file # Torn
  /\ up' = TRUE
  /\ memory' = LoadConfig
  /\ served' = InstallSellableCapability(memory')
  /\ UNCHANGED <<files, op, consoles, acked, tried, bounds>>
-------------------------------------------------------------------------------
(***************************************************************************)
(* The endpoints.                                                          *)
(***************************************************************************)
PostRoute(r, p, enabled) ==
  Begin(UpsertRoute(memory, r, [price |-> p, enabled |-> enabled]), "file")

PostRouteDelete(r) == Begin(DeleteRoute(memory, r), "file")

PostRouteToggle(r, enabled) == Begin(ToggledRoute(memory, r, enabled), "file")

PostPlan(p, enabled) == Begin(UpsertPlan(memory, p, enabled), "file")

PostPlanDelete(p) == Begin(DeletePlan(memory, p), "file")

PostPlanToggle(p, enabled) == Begin(ToggledPlan(memory, p, enabled), "file")

PostBranding(b) == Begin([memory EXCEPT !.brand = b], "file")

\* list_config_history reads every revision, or raises.
HistoryReadable == \A i \in 1 .. Len(history) : history[i] # Torn

GetHistory == IF HistoryReadable THEN 1 .. Len(history) ELSE {}

\* What a rollback would change, and the revision it would make.
GetDiff(n) == [revision |-> n, base |-> memory, diff |-> DiffConfigs(memory, history[n])]

RollbackInMemory(n) == Begin(history[n], "runtime")

\* The snapshot becomes a revision of its own.
Rollback(n) == Begin(history[n], "file")

\* A revision that cannot be read is not rolled back to.
PostRollbackUnread(n) == Rollback(n)

PostRollback(n) == history[n] # Torn /\ Rollback(n)
-------------------------------------------------------------------------------
(***************************************************************************)
(* Consoles.  A button acts on what the console has rendered, the process  *)
(* on what its settings are by then.                                       *)
(***************************************************************************)
RenderDashboard(c) ==
  /\ Ready
  /\ view' = [view EXCEPT ![c] = [config |-> memory, revisions |-> GetHistory]]
  /\ dialog' = [dialog EXCEPT ![c] = None]
  /\ UNCHANGED <<files, process, acked, tried, bounds>>

\* A route that is saved from the form is enabled, whatever it was.
SaveRoute(c) ==
  /\ view[c] # None
  /\ \E r \in Route, p \in Price : PostRoute(r, p, TRUE)
  /\ UNCHANGED consoles

RemoveRoute(c) ==
  /\ view[c] # None
  /\ \E r \in DOMAIN view[c].config.routes : PostRouteDelete(r)
  /\ UNCHANGED consoles

RouteToggle(c) ==
  /\ view[c] # None
  /\ \E r \in DOMAIN view[c].config.routes :
       PostRouteToggle(r, ~view[c].config.routes[r].enabled)
  /\ UNCHANGED consoles

SavePlan(c) ==
  /\ view[c] # None
  /\ \E p \in Plan : PostPlan(p, TRUE)
  /\ UNCHANGED consoles

RemovePlan(c) ==
  /\ view[c] # None
  /\ \E p \in DOMAIN view[c].config.plans : PostPlanDelete(p)
  /\ UNCHANGED consoles

PlanToggle(c) ==
  /\ view[c] # None
  /\ \E p \in DOMAIN view[c].config.plans : PostPlanToggle(p, ~view[c].config.plans[p])
  /\ UNCHANGED consoles

SaveBranding(c) ==
  /\ view[c] # None
  /\ \E b \in Brand : PostBranding(b)
  /\ UNCHANGED consoles

\* The diff is fetched first, and shown with the question.
AskRollback(c) ==
  /\ Ready /\ view[c] # None /\ HistoryReadable
  /\ \E n \in view[c].revisions : dialog' = [dialog EXCEPT ![c] = GetDiff(n)]
  /\ UNCHANGED <<files, process, view, acked, tried, bounds>>

ConfirmRollback(c) ==
  /\ dialog[c] # None
  /\ PostRollback(dialog[c].revision)
  /\ dialog' = [dialog EXCEPT ![c] = None]
  /\ UNCHANGED view

\* A caller with the admin token needs no console.
CallRollback == (\E n \in 1 .. Len(history) : PostRollback(n)) /\ UNCHANGED consoles
-------------------------------------------------------------------------------
Init ==
  /\ file = None /\ history = <<>> /\ public = None
  /\ up = TRUE /\ memory = Default /\ served = InstallSellableCapability(Default) /\ op = NoOp
  /\ view = [c \in Console |-> None] /\ dialog = [c \in Console |-> None]
  /\ acked = Default /\ tried = {}
  /\ ops = 0 /\ errors = 0 /\ crashes = 0

Next ==
  \/ WriteFile \/ WriteSnapshot \/ ApplyRuntimeState \/ SyncPublicConfig
  \/ WriteFails \/ Crash \/ CreateApp \/ CallRollback
  \/ \E c \in Console :
       \/ RenderDashboard(c) \/ SaveRoute(c) \/ RemoveRoute(c) \/ RouteToggle(c)
       \/ SavePlan(c) \/ RemovePlan(c) \/ PlanToggle(c) \/ SaveBranding(c)
       \/ AskRollback(c) \/ ConfirmRollback(c)

Spec == Init /\ [][Next]_vars
-------------------------------------------------------------------------------
(***************************************************************************)
(* Properties.                                                             *)
(***************************************************************************)
\* Settings whose change was answered stay a revision that can be read and
\* rolled back to, whatever is torn or saved later.  The settings nobody has
\* saved are in no revision (merchant_control.py:97-118, 227-236).
AckedIsRevision == acked # Default => \E i \in 1 .. Len(history) : history[i] = acked

\* A restart brings back the settings whose change was answered last, or ones
\* somebody asked for since and was not answered, or finds a torn file: never
\* older ones (merchant_control.py:97-118, 184-192, merchant_app.py:347-359).
RestartKeeps ==
  LoadConfig \in {acked, Torn} \cup tried

\* What a merchant offers to agents is what is enabled in the settings the
\* process runs with, after a change and after a restart alike, although the
\* gateway's lists are filtered in the one case only (discovery.py:39-40, gateway.py:373-378).
ManifestShowsSettings ==
  up => Discover = Enabled(memory) /\ CapabilityRegistry = Enabled(memory)

Applied(f, added, removed, changed) ==
  [k \in (DOMAIN f \cup DOMAIN added) \ DOMAIN removed |->
    IF k \in DOMAIN changed THEN changed[k].after ELSE IF k \in DOMAIN f THEN f[k] ELSE added[k]]

\* While nobody changes the settings, a rollback does what the diff in the
\* question says: the diff applied to the settings is the revision, which is
\* still the one it was made from (merchant_control.py:191-220).
PreviewIsExact ==
  \A c \in Console :
    dialog[c] # None /\ up /\ memory = dialog[c].base =>
      LET d == dialog[c].diff  t == history[dialog[c].revision] IN
      /\ t # Torn
      /\ d.branding = (t.brand # memory.brand)
      /\ t.routes = Applied(memory.routes, d.routesAdded, d.routesRemoved, d.routesChanged)
      /\ t.plans = Applied(memory.plans, d.plansAdded, d.plansRemoved, d.plansChanged)
===============================================================================

-------------------------- MODULE MerchantConfigProofs --------------------------
(***************************************************************************)
(* Proofs about MerchantConfig, for any routes, prices, plans and brands,  *)
(* any number of consoles and changes, and wherever writes fail and the    *)
(* process dies.                                                           *)
(***************************************************************************)
EXTENDS MerchantConfig, SequenceTheorems, TLAPS

-----------------------------------------------------------------------------
(* Lists of routes and plans.                                              *)

\* The changes of a list give lists.
LEMMA ListTypes ==
  ASSUME NEW S, NEW T, NEW f \in Partial(S, T), NEW key \in S
  PROVE  /\ \A value \in T : With(f, key, value) \in Partial(S, T)
         /\ Without(f, key) \in Partial(S, T)
<1>1. PICK D \in SUBSET S : f \in [D -> T]
  BY DEF Partial
<1>2. ASSUME NEW value \in T PROVE With(f, key, value) \in Partial(S, T)
  <2>1. With(f, key, value) \in [D \cup {key} -> T]
    BY <1>1 DEF With
  <2> QED
    BY <2>1 DEF Partial
<1>3. Without(f, key) \in Partial(S, T)
  <2>1. Without(f, key) \in [D \ {key} -> T]
    BY <1>1 DEF Without
  <2> QED
    BY <2>1 DEF Partial
<1> QED
  BY <1>2, <1>3

\* Every change that can be asked for makes settings of settings.
LEMMA ChangeTypes ==
  ASSUME NEW config \in Config
  PROVE  /\ \A r \in Route, p \in Price, enabled \in BOOLEAN :
              UpsertRoute(config, r, [price |-> p, enabled |-> enabled]) \in Config
         /\ \A r \in Route : DeleteRoute(config, r) \in Config
         /\ \A r \in Route, enabled \in BOOLEAN : ToggledRoute(config, r, enabled) \in Config
         /\ \A p \in Plan, enabled \in BOOLEAN : UpsertPlan(config, p, enabled) \in Config
         /\ \A p \in Plan : DeletePlan(config, p) \in Config
         /\ \A p \in Plan, enabled \in BOOLEAN : ToggledPlan(config, p, enabled) \in Config
         /\ \A b \in Brand : [config EXCEPT !.brand = b] \in Config
<1>0. /\ config.routes \in Partial(Route, Listing) /\ config.plans \in Partial(Plan, BOOLEAN)
      /\ config = [brand |-> config.brand, routes |-> config.routes, plans |-> config.plans]
      /\ config.brand \in Brand
  BY DEF Config
<1>1. ASSUME NEW routes \in Partial(Route, Listing)
      PROVE  [config EXCEPT !.routes = routes] \in Config
  BY <1>0 DEF Config
<1>2. ASSUME NEW plans \in Partial(Plan, BOOLEAN)
      PROVE  [config EXCEPT !.plans = plans] \in Config
  BY <1>0 DEF Config
<1>3. ASSUME NEW r \in Route, NEW p \in Price, NEW enabled \in BOOLEAN
      PROVE  UpsertRoute(config, r, [price |-> p, enabled |-> enabled]) \in Config
  <2>1. With(config.routes, r, [price |-> p, enabled |-> enabled]) \in Partial(Route, Listing)
    BY <1>0, ListTypes DEF Listing
  <2> QED
    BY <1>1, <2>1 DEF UpsertRoute
<1>4. ASSUME NEW r \in Route PROVE DeleteRoute(config, r) \in Config
  BY <1>0, <1>1, ListTypes DEF DeleteRoute
<1>5. ASSUME NEW r \in Route, NEW enabled \in BOOLEAN
      PROVE  ToggledRoute(config, r, enabled) \in Config
  <2>1. CASE r \in DOMAIN config.routes
    <3> DEFINE routes == [config.routes EXCEPT ![r].enabled = enabled]
    <3>1. PICK D \in SUBSET Route : config.routes \in [D -> Listing]
      BY <1>0 DEF Partial
    <3>2. [config.routes[r] EXCEPT !.enabled = enabled] \in Listing
      BY <2>1, <3>1 DEF Listing
    <3>3. routes \in [D -> Listing]
      BY <2>1, <3>1, <3>2
    <3>4. routes \in Partial(Route, Listing)
      BY <3>3 DEF Partial
    <3>5. [config EXCEPT !.routes = routes] \in Config
      BY <1>1, <3>4
    <3>6. ToggledRoute(config, r, enabled) = [config EXCEPT !.routes = routes]
      BY <1>0, <2>1 DEF ToggledRoute
    <3> QED
      BY <3>5, <3>6
  <2>2. CASE r \notin DOMAIN config.routes
    BY <2>2 DEF ToggledRoute
  <2> QED
    BY <2>1, <2>2
<1>6. ASSUME NEW p \in Plan, NEW enabled \in BOOLEAN
      PROVE  UpsertPlan(config, p, enabled) \in Config
  BY <1>0, <1>2, ListTypes DEF UpsertPlan
<1>7. ASSUME NEW p \in Plan PROVE DeletePlan(config, p) \in Config
  BY <1>0, <1>2, ListTypes DEF DeletePlan
<1>8. ASSUME NEW p \in Plan, NEW enabled \in BOOLEAN
      PROVE  ToggledPlan(config, p, enabled) \in Config
  <2>1. CASE p \in DOMAIN config.plans
    <3> DEFINE plans == [config.plans EXCEPT ![p] = enabled]
    <3>1. PICK D \in SUBSET Plan : config.plans \in [D -> BOOLEAN]
      BY <1>0 DEF Partial
    <3>2. plans \in [D -> BOOLEAN]
      BY <2>1, <3>1
    <3>3. plans \in Partial(Plan, BOOLEAN)
      BY <3>2 DEF Partial
    <3>4. [config EXCEPT !.plans = plans] \in Config
      BY <1>2, <3>3
    <3>5. ToggledPlan(config, p, enabled) = [config EXCEPT !.plans = plans]
      BY <1>0, <2>1 DEF ToggledPlan
    <3> QED
      BY <3>4, <3>5
  <2>2. CASE p \notin DOMAIN config.plans
    BY <2>2 DEF ToggledPlan
  <2> QED
    BY <2>1, <2>2
<1>9. ASSUME NEW b \in Brand PROVE [config EXCEPT !.brand = b] \in Config
  BY <1>0 DEF Config
<1> QED
  BY <1>3, <1>4, <1>5, <1>6, <1>7, <1>8, <1>9

\* What is enabled is a list of the same kind.
LEMMA EnabledTypes ==
  ASSUME NEW config \in Config
  PROVE  /\ EnabledRoutes(config.routes) \in Partial(Route, Listing)
         /\ EnabledPlans(config.plans) \in Partial(Plan, BOOLEAN)
<1>1. PICK D \in SUBSET Route : config.routes \in [D -> Listing]
  BY DEF Config, Partial
<1>2. PICK E \in SUBSET Plan : config.plans \in [E -> BOOLEAN]
  BY DEF Config, Partial
<1>3. EnabledRoutes(config.routes) \in [{k \in D : config.routes[k].enabled} -> Listing]
  BY <1>1 DEF EnabledRoutes
<1>4. EnabledPlans(config.plans) \in [{k \in E : config.plans[k]} -> BOOLEAN]
  BY <1>2 DEF EnabledPlans
<1> QED
  BY <1>3, <1>4 DEF Partial

\* Filtering a list once more changes nothing: the manifest, which filters what
\* the gateway has, shows the same after a change and after a restart.
LEMMA EnabledTwice ==
  /\ \A routes : EnabledRoutes(EnabledRoutes(routes)) = EnabledRoutes(routes)
  /\ \A plans : EnabledPlans(EnabledPlans(plans)) = EnabledPlans(plans)
<1>1. ASSUME NEW routes PROVE EnabledRoutes(EnabledRoutes(routes)) = EnabledRoutes(routes)
  <2> DEFINE D == {k \in DOMAIN routes : routes[k].enabled}
             f == [r \in D |-> routes[r]]
  <2>1. {k \in DOMAIN f : f[k].enabled} = D
    OBVIOUS
  <2>2. [r \in {k \in DOMAIN f : f[k].enabled} |-> f[r]] = f
    BY <2>1
  <2> QED
    BY <2>2 DEF EnabledRoutes
<1>2. ASSUME NEW plans PROVE EnabledPlans(EnabledPlans(plans)) = EnabledPlans(plans)
  <2> DEFINE D == {k \in DOMAIN plans : plans[k]}
             f == [r \in D |-> plans[r]]
  <2>1. {k \in DOMAIN f : f[k]} = D
    OBVIOUS
  <2>2. [r \in {k \in DOMAIN f : f[k]} |-> f[r]] = f
    BY <2>1
  <2> QED
    BY <2>2 DEF EnabledPlans
<1> QED
  BY <1>1, <1>2

\* The diff of two lists, applied to the first, is the second.
LEMMA DiffApplies ==
  ASSUME NEW S, NEW T, NEW f \in Partial(S, T), NEW g \in Partial(S, T)
  PROVE  g = Applied(f, Added(f, g), Added(g, f), Changed(f, g))
<1>1. PICK D \in SUBSET S : f \in [D -> T]
  BY DEF Partial
<1>2. PICK E \in SUBSET S : g \in [E -> T]
  BY DEF Partial
<1> DEFINE added == Added(f, g)
           removed == Added(g, f)
           changed == Changed(f, g)
<1>3. /\ DOMAIN added = E \ D /\ DOMAIN removed = D \ E
      /\ DOMAIN changed = {x \in D \cap E : f[x] # g[x]}
      /\ \A k \in E \ D : added[k] = g[k]
      /\ \A k \in DOMAIN changed : changed[k].after = g[k]
  BY <1>1, <1>2 DEF Added, Changed
<1> HIDE DEF added, removed, changed
<1>4. (DOMAIN f \cup DOMAIN added) \ DOMAIN removed = E
  BY <1>1, <1>3
<1>5. \A k \in E : g[k] = (IF k \in DOMAIN changed THEN changed[k].after
                           ELSE IF k \in DOMAIN f THEN f[k] ELSE added[k])
  BY <1>1, <1>2, <1>3
<1>6. g = [k \in E |-> IF k \in DOMAIN changed THEN changed[k].after
                       ELSE IF k \in DOMAIN f THEN f[k] ELSE added[k]]
  BY <1>2, <1>5
<1>7. g = Applied(f, added, removed, changed)
  BY <1>4, <1>6 DEF Applied
<1> QED
  BY <1>7 DEF added, removed, changed
-----------------------------------------------------------------------------
(* The inductive invariant.                                                *)

\* The steps of a change that are behind it have been made: it was asked for, the
\* settings file has it, and so has the last revision.
ChangeUnderWay ==
  /\ op # NoOp => op.config \in tried
  /\ op.at \in {"history", "runtime", "public"} => file = op.config
  /\ op.at \in {"runtime", "public"} =>
       Len(history) > 0 /\ history[Len(history)] = op.config

\* Consoles list revisions that are there, and a question shows the diff to one
\* that could be read and still can.
PreviewsHold ==
  \A c \in Console :
    /\ view[c] # None => view[c].revisions \subseteq 1 .. Len(history)
    /\ dialog[c] # None =>
         /\ dialog[c].revision \in 1 .. Len(history)
         /\ history[dialog[c].revision] # Torn
         /\ dialog[c].base \in Config
         /\ dialog[c].diff = DiffConfigs(dialog[c].base, history[dialog[c].revision])

IInv ==
  /\ TypeOK
  /\ ChangeUnderWay
  /\ PreviewsHold
  /\ AckedIsRevision
  /\ RestartKeeps
  /\ ManifestShowsSettings

-----------------------------------------------------------------------------
(* What the steps leave of it.                                             *)

\* Revisions are only added, at the end.
LEMMA RevisionsStay ==
  ASSUME history \in Seq(Config \cup {Torn}), NEW snapshot \in Config \cup {Torn},
         history' = Revised(snapshot)
  PROVE  /\ history' \in Seq(Config \cup {Torn})
         /\ Len(history) \in Nat /\ Len(history') = Len(history) + 1
         /\ history'[Len(history')] = snapshot
         /\ \A i \in 1 .. Len(history) : history'[i] = history[i]
<1>1. Len(history) \in Nat
  OBVIOUS
<1> DEFINE n == Len(history) + 1
<1>2. n \in Nat
  BY <1>1
<1>3. history' = [i \in 1 .. n |-> IF i = n THEN snapshot ELSE history[i]]
  BY DEF Revised, NextRevision
<1>4. \A i \in 1 .. n : i # n => i \in 1 .. Len(history)
  BY <1>1
<1>5. \A i \in 1 .. Len(history) : history[i] \in Config \cup {Torn}
  OBVIOUS
<1>6. history' \in [1 .. n -> Config \cup {Torn}]
  BY <1>3, <1>4, <1>5
<1>7. history' \in Seq(Config \cup {Torn})
  BY <1>2, <1>6, SeqDef
<1>8. Len(history') = n
  BY <1>2, <1>6, <1>7
<1> QED
  BY <1>1, <1>3, <1>7, <1>8

\* What was said of revisions stays true when they are kept or one is added.
LEMMA HistoryKept ==
  ASSUME IInv, view' = view, dialog' = dialog, acked' = acked,
         \/ history' = history
         \/ \E snapshot \in Config \cup {Torn} : history' = Revised(snapshot)
  PROVE  /\ history' \in Seq(Config \cup {Torn})
         /\ PreviewsHold' /\ AckedIsRevision'
<1>0. history \in Seq(Config \cup {Torn}) /\ Len(history) \in Nat
  BY DEF IInv, TypeOK
<1>1. /\ history' \in Seq(Config \cup {Torn})
      /\ Len(history') \in Nat /\ Len(history') >= Len(history)
      /\ \A i \in 1 .. Len(history) : history'[i] = history[i]
  <2>1. CASE history' = history
    BY <1>0, <2>1
  <2>2. CASE \E snapshot \in Config \cup {Torn} : history' = Revised(snapshot)
    BY <1>0, <2>2, RevisionsStay
  <2> QED
    BY <2>1, <2>2
<1>2. \A i \in 1 .. Len(history) : i \in 1 .. Len(history')
  BY <1>0, <1>1
<1>3. PreviewsHold'
  BY <1>1, <1>2 DEF IInv, PreviewsHold
<1>4. AckedIsRevision'
  BY <1>1, <1>2 DEF IInv, AckedIsRevision
<1> QED
  BY <1>1, <1>3, <1>4

\* What agents see does not change while the process and its settings do not.
LEMMA ManifestKept ==
  ASSUME IInv, up' = up, memory' = memory, served' = served
  PROVE  ManifestShowsSettings'
BY DEF IInv, ManifestShowsSettings, Discover, Manifest, CapabilityRegistry

\* A change of the settings is asked for.
LEMMA BeginKeeps ==
  ASSUME IInv, NEW config \in Config, Begin(config, "file"), view' = view,
         \/ dialog' = dialog
         \/ \E c \in Console : dialog' = [dialog EXCEPT ![c] = None]
  PROVE  IInv'
<1> USE DEF Begin, files, bounds
<1>1. op' \in Change /\ op'.at = "file" /\ op'.config = config
  BY DEF Change
<1>2. TypeOK'
  <2>1. ops' \in 0 .. MaxOps
    BY ConfigAssumption DEF IInv, TypeOK
  <2>2. DOMAIN dialog' = Console
    BY DEF IInv, TypeOK
  <2>3. tried' \subseteq Config
    BY DEF IInv, TypeOK
  <2> QED
    BY <1>1, <2>1, <2>2, <2>3 DEF IInv, TypeOK
<1>3. ChangeUnderWay'
  BY <1>1 DEF ChangeUnderWay
<1>4. PreviewsHold'
  BY DEF IInv, TypeOK, PreviewsHold
<1>5. AckedIsRevision'
  BY DEF IInv, AckedIsRevision
<1>6. RestartKeeps'
  BY DEF IInv, RestartKeeps, LoadConfig
<1>7. ManifestShowsSettings'
  BY ManifestKept
<1> QED
  BY <1>2, <1>3, <1>4, <1>5, <1>6, <1>7 DEF IInv

\* Whatever is cut off: the files that are left are old, torn or complete.
LEMMA CutOffLeaves ==
  ASSUME IInv, op # NoOp, CutOff
  PROVE  /\ file' \in {file, Torn}
         /\ \/ history' = history
            \/ \E snapshot \in Config \cup {Torn} : history' = Revised(snapshot)
         /\ public' \in {public, Torn}
<1>1. op \in Change
  BY DEF IInv, TypeOK
<1>2. CASE op.at = "file"
  BY <1>2 DEF CutOff
<1>3. CASE op.at = "history"
  BY <1>3 DEF CutOff
<1>4. CASE op.at = "public"
  BY <1>4 DEF CutOff
<1>5. CASE op.at = "runtime"
  BY <1>5 DEF CutOff, files
<1> QED
  BY <1>1, <1>2, <1>3, <1>4, <1>5 DEF Change

\* A change that is given up, with its files in any state it may leave.
LEMMA GivenUpKeeps ==
  ASSUME IInv, op' = NoOp, file' \in {file, Torn}, public' \in {public, Torn},
         \/ history' = history
         \/ \E snapshot \in Config \cup {Torn} : history' = Revised(snapshot),
         up' \in BOOLEAN, ManifestShowsSettings',
         UNCHANGED <<memory, served, consoles, acked, tried, ops>>,
         errors' \in 0 .. MaxErrors, crashes' \in 0 .. MaxCrashes
  PROVE  IInv'
<1>1. /\ history' \in Seq(Config \cup {Torn})
      /\ PreviewsHold' /\ AckedIsRevision'
  BY HistoryKept DEF consoles
<1>2. TypeOK'
  BY <1>1 DEF IInv, TypeOK, consoles
<1>3. ChangeUnderWay'
  BY DEF ChangeUnderWay, NoOp
<1>4. RestartKeeps'
  BY ConfigAssumption DEF IInv, RestartKeeps, LoadConfig
<1> QED
  BY <1>1, <1>2, <1>3, <1>4 DEF IInv

-----------------------------------------------------------------------------
(* The invariant is inductive.                                             *)

LEMMA InitEstablishes == Init => IInv
<1> SUFFICES ASSUME Init PROVE IInv
  OBVIOUS
<1>1. Default \in Config /\ <<>> \in Seq(Config \cup {Torn}) /\ Len(<<>>) = 0
  BY ConfigAssumption
<1>2. /\ Default.routes \in Partial(Route, Listing) /\ Default.plans \in Partial(Plan, BOOLEAN)
      /\ served = [routes |-> Default.routes, plans |-> Default.plans]
  BY <1>1 DEF Init, Config, InstallSellableCapability
<1>3. TypeOK
  BY <1>1, <1>2, ConfigAssumption DEF Init, TypeOK
<1>4. ChangeUnderWay
  BY DEF Init, ChangeUnderWay, NoOp
<1>5. PreviewsHold /\ AckedIsRevision
  BY DEF Init, PreviewsHold, AckedIsRevision
<1>6. RestartKeeps
  BY DEF Init, RestartKeeps, LoadConfig
<1>7. ManifestShowsSettings
  BY <1>2 DEF Init, ManifestShowsSettings, Discover, Manifest, CapabilityRegistry, Enabled
<1> QED
  BY <1>3, <1>4, <1>5, <1>6, <1>7 DEF IInv

\* The four steps of a change.
LEMMA ChangeStepKeeps ==
  ASSUME IInv, WriteFile \/ WriteSnapshot \/ ApplyRuntimeState \/ SyncPublicConfig
  PROVE  IInv'
<1> USE DEF consoles, bounds
<1>0. op \in Change /\ op # NoOp /\ op.config \in Config /\ op.config \in tried
  <2>1. op.at # "none"
    BY DEF WriteFile, WriteSnapshot, ApplyRuntimeState, SyncPublicConfig
  <2>2. op # NoOp /\ op \in Change
    BY <2>1 DEF IInv, TypeOK, NoOp
  <2> QED
    BY <2>2 DEF IInv, ChangeUnderWay, Change
<1>1. \A at \in {"file", "history", "runtime", "public"} :
        LET next == [op EXCEPT !.at = at] IN
        next \in Change /\ next.at = at /\ next.config = op.config
  BY <1>0 DEF Change
<1>2. CASE WriteFile
  <2>1. op' \in Change /\ op'.at = "history" /\ op'.config = op.config
    BY <1>1, <1>2 DEF WriteFile, NextStep
  <2>2. TypeOK'
    BY <1>0, <1>2, <2>1 DEF IInv, TypeOK, WriteFile
  <2>3. ChangeUnderWay'
    BY <1>0, <1>2, <2>1 DEF ChangeUnderWay, WriteFile
  <2>4. PreviewsHold' /\ AckedIsRevision'
    BY <1>2, HistoryKept DEF WriteFile
  <2>5. RestartKeeps'
    BY <1>0, <1>2, ConfigAssumption DEF RestartKeeps, LoadConfig, WriteFile
  <2>6. ManifestShowsSettings'
    BY <1>2, ManifestKept DEF WriteFile
  <2> QED
    BY <2>2, <2>3, <2>4, <2>5, <2>6 DEF IInv
<1>3. CASE WriteSnapshot
  <2>1. op' \in Change /\ op'.at = "runtime" /\ op'.config = op.config
    BY <1>1, <1>3 DEF WriteSnapshot, NextStep
  <2>2. /\ history' \in Seq(Config \cup {Torn})
        /\ Len(history') > 0 /\ history'[Len(history')] = op.config
    <3>1. history \in Seq(Config \cup {Torn}) /\ op.config \in Config \cup {Torn}
      BY <1>0 DEF IInv, TypeOK
    <3>2. history' = Revised(op.config)
      BY <1>3 DEF WriteSnapshot
    <3> QED
      BY <3>1, <3>2, RevisionsStay
  <2>3. TypeOK'
    BY <1>3, <2>1, <2>2 DEF IInv, TypeOK, WriteSnapshot
  <2>4. ChangeUnderWay'
    BY <1>0, <1>3, <2>1, <2>2 DEF IInv, ChangeUnderWay, WriteSnapshot
  <2>5. PreviewsHold' /\ AckedIsRevision'
    <3>1. op.config \in Config \cup {Torn} /\ history' = Revised(op.config)
      BY <1>0, <1>3 DEF WriteSnapshot
    <3>2. view' = view /\ dialog' = dialog /\ acked' = acked
      BY <1>3 DEF WriteSnapshot
    <3> QED
      BY <3>1, <3>2, HistoryKept
  <2>6. RestartKeeps'
    BY <1>3 DEF IInv, RestartKeeps, LoadConfig, WriteSnapshot
  <2>7. ManifestShowsSettings'
    BY <1>3, ManifestKept DEF WriteSnapshot
  <2> QED
    BY <2>3, <2>4, <2>5, <2>6, <2>7 DEF IInv
<1>4. CASE ApplyRuntimeState
  <2>1. op' \in Change /\ op'.at = "public" /\ op'.config = op.config
    BY <1>1, <1>4 DEF ApplyRuntimeState, NextStep
  <2>2. /\ served'.routes = EnabledRoutes(op.config.routes)
        /\ served'.plans = EnabledPlans(op.config.plans)
        /\ served' = Enabled(op.config) /\ memory' = op.config
    BY <1>4 DEF ApplyRuntimeState, Enabled
  <2>3. TypeOK'
    BY <1>0, <1>4, <2>1, <2>2, EnabledTypes DEF IInv, TypeOK, ApplyRuntimeState, files
  <2>4. ChangeUnderWay'
    BY <1>0, <1>4, <2>1 DEF IInv, ChangeUnderWay, ApplyRuntimeState, files
  <2>5. PreviewsHold' /\ AckedIsRevision'
    BY <1>4, HistoryKept DEF ApplyRuntimeState, files
  <2>6. RestartKeeps'
    BY <1>4 DEF IInv, RestartKeeps, LoadConfig, ApplyRuntimeState, files
  <2>7. ManifestShowsSettings'
    BY <2>2, EnabledTwice
       DEF ManifestShowsSettings, Discover, Manifest, CapabilityRegistry, Enabled
  <2> QED
    BY <2>3, <2>4, <2>5, <2>6, <2>7 DEF IInv
<1>5. CASE SyncPublicConfig
  <2>1. /\ file = op.config /\ Len(history) > 0 /\ history[Len(history)] = op.config
        /\ history \in Seq(Config \cup {Torn})
    BY <1>5 DEF IInv, TypeOK, ChangeUnderWay, SyncPublicConfig
  <2>2. TypeOK'
    <3>1. memory.brand \in Brand
      BY DEF IInv, TypeOK, Config
    <3> QED
      BY <1>0, <1>5, <3>1 DEF IInv, TypeOK, SyncPublicConfig
  <2>3. ChangeUnderWay'
    BY <1>5 DEF ChangeUnderWay, SyncPublicConfig, NoOp
  <2>4. PreviewsHold'
    BY <1>5 DEF IInv, PreviewsHold, SyncPublicConfig
  <2>5. AckedIsRevision'
    <3>1. Len(history) \in 1 .. Len(history)
      BY <2>1
    <3> QED
      BY <1>5, <2>1, <3>1 DEF AckedIsRevision, SyncPublicConfig
  <2>6. RestartKeeps'
    BY <1>0, <1>5, <2>1, ConfigAssumption DEF RestartKeeps, LoadConfig, SyncPublicConfig
  <2>7. ManifestShowsSettings'
    BY <1>5, ManifestKept DEF SyncPublicConfig
  <2> QED
    BY <2>2, <2>3, <2>4, <2>5, <2>6, <2>7 DEF IInv
<1> QED
  BY <1>2, <1>3, <1>4, <1>5

\* Writes that fail, and the process that dies and starts again.
LEMMA FaultKeeps ==
  ASSUME IInv, WriteFails \/ Crash \/ CreateApp
  PROVE  IInv'
<1>1. CASE WriteFails
  <2>1. CutOff /\ op # NoOp /\ op' = NoOp
    BY <1>1 DEF WriteFails
  <2>2. /\ up' = up /\ up' \in BOOLEAN /\ memory' = memory /\ served' = served
        /\ UNCHANGED <<consoles, acked, tried, ops>>
        /\ errors' \in 0 .. MaxErrors /\ crashes' \in 0 .. MaxCrashes
    BY <1>1, ConfigAssumption DEF WriteFails, IInv, TypeOK
  <2>3. ManifestShowsSettings'
    BY <2>2, ManifestKept
  <2> QED
    BY <2>1, <2>2, <2>3, CutOffLeaves, GivenUpKeeps
<1>2. CASE Crash
  <2>1. op' = NoOp /\ up' = FALSE
    BY <1>2 DEF Crash
  <2>2. /\ file' \in {file, Torn} /\ public' \in {public, Torn}
        /\ \/ history' = history
           \/ \E snapshot \in Config \cup {Torn} : history' = Revised(snapshot)
    <3>1. CASE op = NoOp
      BY <1>2, <3>1 DEF Crash, files
    <3>2. CASE op # NoOp
      BY <1>2, <3>2, CutOffLeaves DEF Crash
    <3> QED
      BY <3>1, <3>2
  <2>3. /\ UNCHANGED <<memory, served, consoles, acked, tried, ops>>
        /\ errors' \in 0 .. MaxErrors /\ crashes' \in 0 .. MaxCrashes
    BY <1>2, ConfigAssumption DEF Crash, IInv, TypeOK
  <2>4. ManifestShowsSettings'
    BY <2>1 DEF ManifestShowsSettings
  <2> QED
    BY <2>1, <2>2, <2>3, <2>4, GivenUpKeeps
<1>3. CASE CreateApp
  <2> USE DEF files, consoles, bounds
  <2>1. memory' \in Config
    BY <1>3, ConfigAssumption DEF CreateApp, LoadConfig, IInv, TypeOK
  <2>2. /\ served' = [routes |-> memory'.routes, plans |-> memory'.plans]
        /\ served'.routes \in Partial(Route, Listing)
        /\ served'.plans \in Partial(Plan, BOOLEAN)
    BY <1>3, <2>1 DEF CreateApp, InstallSellableCapability, Config
  <2>3. TypeOK'
    BY <1>3, <2>1, <2>2 DEF CreateApp, IInv, TypeOK
  <2>4. ChangeUnderWay'
    BY <1>3 DEF CreateApp, IInv, ChangeUnderWay
  <2>5. PreviewsHold' /\ AckedIsRevision'
    BY <1>3, HistoryKept DEF CreateApp
  <2>6. RestartKeeps'
    BY <1>3 DEF CreateApp, IInv, RestartKeeps, LoadConfig
  <2>7. ManifestShowsSettings'
    BY <2>2 DEF ManifestShowsSettings, Discover, Manifest, CapabilityRegistry, Enabled
  <2> QED
    BY <2>3, <2>4, <2>5, <2>6, <2>7 DEF IInv
<1> QED
  BY <1>1, <1>2, <1>3

\* What consoles and callers ask for.
LEMMA RequestKeeps ==
  ASSUME IInv,
         \/ CallRollback
         \/ \E c \in Console :
              \/ SaveRoute(c) \/ RemoveRoute(c) \/ RouteToggle(c) \/ SavePlan(c)
              \/ RemovePlan(c) \/ PlanToggle(c) \/ SaveBranding(c) \/ ConfirmRollback(c)
  PROVE  IInv'
<1>0. memory \in Config
  BY DEF IInv, TypeOK
<1>1. ASSUME NEW c \in Console, view[c] # None
      PROVE  /\ \A r \in DOMAIN view[c].config.routes :
                  r \in Route /\ view[c].config.routes[r].enabled \in BOOLEAN
             /\ \A p \in DOMAIN view[c].config.plans :
                  p \in Plan /\ view[c].config.plans[p] \in BOOLEAN
  <2>1. view[c].config \in Config
    BY <1>1 DEF IInv, TypeOK
  <2> QED
    BY <2>1 DEF Config, Partial, Listing
<1>2. ASSUME NEW n \in 1 .. Len(history), PostRollback(n)
      PROVE  \E config \in Config : Begin(config, "file")
  <2>1. history[n] \in Config
    BY <1>2 DEF IInv, TypeOK, PostRollback
  <2> QED
    BY <1>2, <2>1 DEF PostRollback, Rollback
<1>3. CASE CallRollback
  BY <1>2, <1>3, BeginKeeps DEF CallRollback, consoles
<1>4. ASSUME NEW c \in Console, SaveRoute(c) PROVE IInv'
  <2>1. PICK r \in Route, p \in Price : PostRoute(r, p, TRUE)
    BY <1>4 DEF SaveRoute
  <2>2. UpsertRoute(memory, r, [price |-> p, enabled |-> TRUE]) \in Config
    BY <1>0, ChangeTypes
  <2> QED
    BY <1>4, <2>1, <2>2, BeginKeeps DEF SaveRoute, PostRoute, consoles
<1>5. ASSUME NEW c \in Console, RemoveRoute(c) PROVE IInv'
  <2>1. PICK r \in Route : PostRouteDelete(r)
    BY <1>1, <1>5 DEF RemoveRoute
  <2>2. DeleteRoute(memory, r) \in Config
    BY <1>0, ChangeTypes
  <2> QED
    BY <1>5, <2>1, <2>2, BeginKeeps DEF RemoveRoute, PostRouteDelete, consoles
<1>6. ASSUME NEW c \in Console, RouteToggle(c) PROVE IInv'
  <2>1. PICK r \in Route, enabled \in BOOLEAN : PostRouteToggle(r, enabled)
    BY <1>1, <1>6 DEF RouteToggle
  <2>2. ToggledRoute(memory, r, enabled) \in Config
    BY <1>0, ChangeTypes
  <2> QED
    BY <1>6, <2>1, <2>2, BeginKeeps DEF RouteToggle, PostRouteToggle, consoles
<1>7. ASSUME NEW c \in Console, SavePlan(c) PROVE IInv'
  <2>1. PICK p \in Plan : PostPlan(p, TRUE)
    BY <1>7 DEF SavePlan
  <2>2. UpsertPlan(memory, p, TRUE) \in Config
    BY <1>0, ChangeTypes
  <2> QED
    BY <1>7, <2>1, <2>2, BeginKeeps DEF SavePlan, PostPlan, consoles
<1>8. ASSUME NEW c \in Console, RemovePlan(c) PROVE IInv'
  <2>1. PICK p \in Plan : PostPlanDelete(p)
    BY <1>1, <1>8 DEF RemovePlan
  <2>2. DeletePlan(memory, p) \in Config
    BY <1>0, ChangeTypes
  <2> QED
    BY <1>8, <2>1, <2>2, BeginKeeps DEF RemovePlan, PostPlanDelete, consoles
<1>9. ASSUME NEW c \in Console, PlanToggle(c) PROVE IInv'
  <2>1. PICK p \in Plan, enabled \in BOOLEAN : PostPlanToggle(p, enabled)
    BY <1>1, <1>9 DEF PlanToggle
  <2>2. ToggledPlan(memory, p, enabled) \in Config
    BY <1>0, ChangeTypes
  <2> QED
    BY <1>9, <2>1, <2>2, BeginKeeps DEF PlanToggle, PostPlanToggle, consoles
<1>10. ASSUME NEW c \in Console, SaveBranding(c) PROVE IInv'
  <2>1. PICK b \in Brand : PostBranding(b)
    BY <1>10 DEF SaveBranding
  <2>2. [memory EXCEPT !.brand = b] \in Config
    BY <1>0, ChangeTypes
  <2> QED
    BY <1>10, <2>1, <2>2, BeginKeeps DEF SaveBranding, PostBranding, consoles
<1>11. ASSUME NEW c \in Console, ConfirmRollback(c) PROVE IInv'
  <2>1. dialog[c].revision \in 1 .. Len(history)
    BY <1>11 DEF ConfirmRollback, IInv, PreviewsHold
  <2>2. PICK config \in Config : Begin(config, "file")
    BY <1>2, <1>11, <2>1 DEF ConfirmRollback
  <2> QED
    BY <1>11, <2>2, BeginKeeps DEF ConfirmRollback
<1> QED
  BY <1>3, <1>4, <1>5, <1>6, <1>7, <1>8, <1>9, <1>10, <1>11

\* What consoles look at.
LEMMA ViewKeeps ==
  ASSUME IInv, NEW c \in Console, RenderDashboard(c) \/ AskRollback(c)
  PROVE  IInv'
<1>1. UNCHANGED <<files, process, acked, tried, bounds>>
  BY DEF RenderDashboard, AskRollback
<1> USE <1>1 DEF files, process, bounds
<1>2. view' \in [Console -> [config : Config, revisions : SUBSET Nat] \cup {None}]
  <2>1. CASE RenderDashboard(c)
    <3>1. GetHistory \in SUBSET Nat
      BY DEF GetHistory, IInv, TypeOK
    <3>2. [config |-> memory, revisions |-> GetHistory]
            \in [config : Config, revisions : SUBSET Nat]
      BY <3>1 DEF IInv, TypeOK
    <3> QED
      BY <2>1, <3>2 DEF RenderDashboard, IInv, TypeOK
  <2>2. CASE AskRollback(c)
    BY <2>2 DEF AskRollback, IInv, TypeOK
  <2> QED
    BY <2>1, <2>2
<1>3. DOMAIN dialog' = Console /\ PreviewsHold'
  <2>1. CASE RenderDashboard(c)
    <3>1. view'[c].revisions \subseteq 1 .. Len(history)
      BY <2>1 DEF RenderDashboard, GetHistory, IInv, TypeOK
    <3> QED
      BY <2>1, <3>1 DEF RenderDashboard, IInv, TypeOK, PreviewsHold
  <2>2. CASE AskRollback(c)
    <3>1. PICK n \in view[c].revisions : dialog' = [dialog EXCEPT ![c] = GetDiff(n)]
      BY <2>2 DEF AskRollback
    <3>2. n \in 1 .. Len(history) /\ history[n] # Torn
      BY <2>2 DEF AskRollback, HistoryReadable, IInv, PreviewsHold
    <3>3. /\ dialog'[c].revision = n /\ dialog'[c].base = memory
          /\ dialog'[c].diff = DiffConfigs(memory, history[n])
      BY <3>1 DEF GetDiff, IInv, TypeOK
    <3> QED
      BY <2>2, <3>1, <3>2, <3>3 DEF AskRollback, IInv, TypeOK, PreviewsHold
  <2> QED
    BY <2>1, <2>2
<1>4. TypeOK'
  BY <1>2, <1>3 DEF IInv, TypeOK
<1>5. ChangeUnderWay'
  BY DEF IInv, ChangeUnderWay
<1>6. AckedIsRevision' /\ RestartKeeps'
  BY DEF IInv, AckedIsRevision, RestartKeeps, LoadConfig
<1>7. ManifestShowsSettings'
  BY ManifestKept
<1> QED
  BY <1>3, <1>4, <1>5, <1>6, <1>7 DEF IInv

LEMMA StepKeeps == IInv /\ [Next]_vars => IInv'
<1> SUFFICES ASSUME IInv, [Next]_vars PROVE IInv'
  OBVIOUS
<1>1. CASE UNCHANGED vars
  <2> USE <1>1 DEF vars, files, process, consoles, bounds
  <2>1. TypeOK' /\ ChangeUnderWay' /\ PreviewsHold'
    BY DEF IInv, TypeOK, ChangeUnderWay, PreviewsHold
  <2>2. AckedIsRevision' /\ RestartKeeps'
    BY DEF IInv, AckedIsRevision, RestartKeeps, LoadConfig
  <2>3. ManifestShowsSettings'
    BY ManifestKept
  <2> QED
    BY <2>1, <2>2, <2>3 DEF IInv
<1>2. CASE WriteFile \/ WriteSnapshot \/ ApplyRuntimeState \/ SyncPublicConfig
  BY <1>2, ChangeStepKeeps
<1>3. CASE WriteFails \/ Crash \/ CreateApp
  BY <1>3, FaultKeeps
<1>4. CASE \/ CallRollback
           \/ \E c \in Console :
                \/ SaveRoute(c) \/ RemoveRoute(c) \/ RouteToggle(c) \/ SavePlan(c)
                \/ RemovePlan(c) \/ PlanToggle(c) \/ SaveBranding(c) \/ ConfirmRollback(c)
  BY <1>4, RequestKeeps
<1>5. CASE \E c \in Console : RenderDashboard(c) \/ AskRollback(c)
  BY <1>5, ViewKeeps
<1> QED
  BY <1>1, <1>2, <1>3, <1>4, <1>5 DEF Next

LEMMA Invariance == Spec => []IInv
<1>1. Init => IInv
  BY InitEstablishes
<1>2. IInv /\ [Next]_vars => IInv'
  BY StepKeeps
<1> QED
  BY <1>1, <1>2, PTL DEF Spec

-----------------------------------------------------------------------------
(* The theorems.                                                           *)

\* Every reachable state is well typed: in particular a torn file is never taken
\* for settings, neither by a start nor by a rollback.
THEOREM TypeCorrect == Spec => []TypeOK
<1>1. IInv => TypeOK
  BY DEF IInv
<1> QED
  BY <1>1, Invariance, PTL

\* Settings whose change was answered stay a readable revision, however many
\* changes fail or are cut off after it (merchant_control.py:97-118, 227-236).
THEOREM AnsweredIsARevision == Spec => []AckedIsRevision
<1>1. IInv => AckedIsRevision
  BY DEF IInv
<1> QED
  BY <1>1, Invariance, PTL

\* A restart finds the settings that were answered last, some that were asked for
\* since, or a torn file, at whatever step the process dies (merchant_app.py:347-359).
THEOREM RestartKeepsSettings == Spec => []RestartKeeps
<1>1. IInv => RestartKeeps
  BY DEF IInv
<1> QED
  BY <1>1, Invariance, PTL

\* The manifest and the registry show what is enabled in the settings the process
\* runs with (discovery.py:39-40, gateway.py:373-378).
THEOREM ManifestIsTrue == Spec => []ManifestShowsSettings
<1>1. IInv => ManifestShowsSettings
  BY DEF IInv
<1> QED
  BY <1>1, Invariance, PTL

\* A rollback that is confirmed before the settings change does what its diff
\* says (merchant_control.py:191-220).
THEOREM RollbackAsShown == Spec => []PreviewIsExact
<1>1. IInv => PreviewIsExact
  <2> SUFFICES ASSUME IInv, NEW c \in Console, dialog[c] # None, memory = dialog[c].base
               PROVE  LET d == dialog[c].diff  t == history[dialog[c].revision] IN
                      /\ t # Torn
                      /\ d.branding = (t.brand # memory.brand)
                      /\ t.routes = Applied(memory.routes, d.routesAdded, d.routesRemoved,
                                            d.routesChanged)
                      /\ t.plans = Applied(memory.plans, d.plansAdded, d.plansRemoved,
                                           d.plansChanged)
    BY DEF PreviewIsExact
  <2> DEFINE t == history[dialog[c].revision]
  <2>1. t # Torn /\ dialog[c].diff = DiffConfigs(memory, t)
    BY DEF IInv, PreviewsHold
  <2>2. t \in Config /\ memory \in Config
    BY <2>1 DEF IInv, TypeOK, PreviewsHold
  <2> HIDE DEF t
  <2>3. /\ t.routes \in Partial(Route, Listing) /\ memory.routes \in Partial(Route, Listing)
        /\ t.plans \in Partial(Plan, BOOLEAN) /\ memory.plans \in Partial(Plan, BOOLEAN)
    BY <2>2 DEF Config
  <2>4. t.routes = Applied(memory.routes, Added(memory.routes, t.routes),
                           Added(t.routes, memory.routes), Changed(memory.routes, t.routes))
    BY <2>3, DiffApplies
  <2>5. t.plans = Applied(memory.plans, Added(memory.plans, t.plans),
                          Added(t.plans, memory.plans), Changed(memory.plans, t.plans))
    BY <2>3, DiffApplies
  <2>6. /\ dialog[c].diff.branding = (memory.brand # t.brand)
        /\ dialog[c].diff.routesAdded = Added(memory.routes, t.routes)
        /\ dialog[c].diff.routesRemoved = Added(t.routes, memory.routes)
        /\ dialog[c].diff.routesChanged = Changed(memory.routes, t.routes)
        /\ dialog[c].diff.plansAdded = Added(memory.plans, t.plans)
        /\ dialog[c].diff.plansRemoved = Added(t.plans, memory.plans)
        /\ dialog[c].diff.plansChanged = Changed(memory.plans, t.plans)
    BY <2>1 DEF DiffConfigs
  <2> QED
    BY <2>1, <2>4, <2>5, <2>6 DEF t
<1> QED
  BY <1>1, Invariance, PTL
===============================================================================

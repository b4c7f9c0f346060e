------------------------------ MODULE BuyerSetup ------------------------------
(***************************************************************************)
(* A buyer's local state and the tools that change it: python/.env.local   *)
(* with the wallet, the merchant and the network, the wallet file, and the *)
(* saved onboarding report (ops_tools/buyer_setup.py, wallet_setup.py,     *)
(* network_profile_setup.py, wallet_funding.py, agent_onboarding.py).      *)
(*                                                                         *)
(* Several processes run these tools on the same files with no lock: the   *)
(* operator's shell, and the agent hosts of AgentHosts.  A tool is a list  *)
(* of steps, one for each time it reads or writes a file.  A process may   *)
(* die between two steps or while it writes.                               *)
(***************************************************************************)
EXTENDS Integers, Sequences

CONSTANTS
  Process,    \* processes that run the tools
  Url,        \* merchants' base URLs
  DefaultUrl, \* http://127.0.0.1:8000
  Network,    \* full_host, backend, chain id, name and minimums: one choice
  Smoke,      \* the network whose backend is local_smoke
  Profiles,   \* network_profiles.json: the network and the contracts of each
  MaxKeys,    \* bound: wallets that are created
  MaxRuns,    \* bound: tools that are started
  MaxOverlap, \* bound: those of them that may overlap, the first ones
  MaxDeaths,  \* bound: processes that die
  Torn,       \* a file that was not written to its end
  Blank,      \* a setting that is there and empty
  None        \* what is not there

Key == 1 .. MaxKeys
Profile == DOMAIN Profiles

Env == [key : Key \cup {None}, url : Url \cup {None},
        rpc : Network \cup {Blank, None}, contracts : Network \cup {None}]

NoLines == [key |-> None, url |-> None, rpc |-> None, contracts |-> None]

NextStep ==
  {"create_wallet", "fund_wallet", "connect_merchant", "ready_to_purchase",
   "review_offers", "discover_offers"}

Report == [key : Key \cup {None}, rpc : Network \cup {Blank, None}, next : NextStep]

ASSUME SetupAssumption ==
  /\ DefaultUrl \in Url /\ Smoke \in Network
  /\ Profiles \in [Profile -> [rpc : Network \cup {None}, contracts : Network \cup {None}]]
  /\ MaxKeys \in Nat /\ MaxRuns \in Nat /\ MaxOverlap \in Nat /\ MaxDeaths \in Nat
  /\ {Torn, Blank, None} \cap (Key \cup Url \cup Network \cup Profile \cup Env \cup Report) = {}

VARIABLES
  env,        \* the settings of .env.local
  walletFile, \* the wallet of .wallets/buyer-wallet.json
  report,     \* .agent/onboarding-report.json
  jobs,       \* the tool each process runs: the steps it has left, its locals
  funded,     \* the wallets that hold the minimum balances
  told,       \* history: the wallets whose address a tool has given its user
  disturbed,  \* history: tools overlapped, a write was cut off, or a wallet was
              \* replaced because the user said so
  made, runs, deaths

files == <<env, walletFile, report>>
bounds == <<made, runs, deaths>>
buyerVars == <<files, jobs, funded, told, disturbed, bounds>>

NoJob ==
  [todo |-> <<>>, force |-> FALSE, url |-> None, profile |-> None,
   lines |-> None, key |-> None, found |-> None]

BuyerTypeOK ==
  /\ env \in Env
  /\ walletFile \in Key \cup {Torn, None}
  /\ report \in Report \cup {Torn, None}
  /\ \A p \in Process :
       /\ jobs[p].url \in Url \cup {None} /\ jobs[p].profile \in Profile \cup {None}
       /\ jobs[p].lines \in Env \cup {None} /\ jobs[p].key \in Key \cup {None}
       /\ jobs[p].found \in Report \cup {None}
  /\ funded \subseteq told /\ told \subseteq 1 .. made
  /\ disturbed \in BOOLEAN
  /\ made \in 0 .. MaxKeys /\ runs \in 0 .. MaxRuns /\ deaths \in 0 .. MaxDeaths
-------------------------------------------------------------------------------
(***************************************************************************)
(* What the tools make of the settings.                                    *)
(***************************************************************************)
\* apply_network_profile_to_values: what the profile leaves empty is kept.
WithProfile(lines, p) ==
  LET set == Profiles[p]
  IN  [lines EXCEPT !.rpc = IF set.rpc = None THEN @ ELSE set.rpc,
                    !.contracts = IF set.contracts = None THEN @ ELSE set.contracts]

\* The merchant's URL goes into the settings.
Named(lines, url) ==
  [lines EXCEPT !.url = IF url # None THEN url ELSE IF @ = None THEN DefaultUrl ELSE @]

PreparedAnew(lines, url, profile) ==
  IF profile # None THEN WithProfile(Named(NoLines, url), profile)
  ELSE [Named(NoLines, url) EXCEPT !.rpc = Blank]

\* prepare_buyer_install_env: with a merchant and no profile, the network is what the
\* merchant says.
Prepared(lines, url, profile) ==
  IF profile # None THEN WithProfile(Named(lines, url), profile)
  ELSE IF url # None THEN [Named(lines, url) EXCEPT !.rpc = Blank, !.contracts = None]
  ELSE Named(lines, url)

Live(e) == e.rpc \in Network \ {Smoke}

\* _resolve_live_next_step; the balances may be out of reach.
LiveNextStep(e, answered) ==
  IF answered /\ e.key \in funded THEN "ready_to_purchase" ELSE "fund_wallet"

\* inspect_wallet_funding: no backend in the settings stands for local_smoke.
Funding(e, answered) ==
  IF e.key = None THEN "create_wallet"
  ELSE IF e.rpc \in {Blank, None} /\ e.url # None THEN "connect_merchant"
  ELSE IF e.rpc \in {Smoke, None} THEN "ready_to_purchase"
  ELSE LiveNextStep(e, answered)

\* What the manifest and the discover endpoint of the first URL tell.
Probe == {"down", "no_offers", "offers"}

\* run_agent_onboarding: merchants decide only what the wallet leaves open.
Advice(funding, url, probe) ==
  IF funding \notin {"ready_to_purchase", "connect_merchant"} THEN funding
  ELSE IF url = None THEN "connect_merchant"
  ELSE CASE probe = "offers" -> "review_offers"
         [] probe = "no_offers" -> "discover_offers"
         [] OTHER -> funding

\* The report is marked completed.
Completed(r) == r.next \in {"ready_to_purchase", "review_offers", "discover_offers"}

\* install_doctor's page: a saved report that cannot be parsed is as none.
SavedReport == IF report = Torn THEN None ELSE report

\* What the page shows: the settings as they are, next to the saved report.
InstallReport ==
  [wallet |-> env.key # None, merchant |-> env.url # None, onboarding |-> SavedReport]
-------------------------------------------------------------------------------
(***************************************************************************)
(* Steps of the tools.                                                     *)
(***************************************************************************)
SaveWallet == <<"read_lines", "save_env", "save_wallet">>
EnsureWallet == <<"wallet">> \o SaveWallet
Prepare == <<"parse", "prepare">>
Inspect == <<"funding", "probe", "report">>
Onboard == EnsureWallet \o Inspect

Working(p) == jobs[p].todo # <<>>

At(p, step) == Working(p) /\ Head(jobs[p].todo) = step

\* p is done with a step, and n more need not be taken.
ThenSkip(p, n, job) ==
  LET left == SubSeq(job.todo, n + 2, Len(job.todo))
  IN  jobs' = [jobs EXCEPT ![p] = IF left = <<>> THEN NoJob ELSE [job EXCEPT !.todo = left]]

Then(p, job) == ThenSkip(p, 0, job)

Writing == {"prepare", "apply_profile", "save_env"}

MayWrite(todo) == \E i \in 1 .. Len(todo) : todo[i] \in Writing

Overlaps(todo) == MayWrite(todo) /\ \E q \in Process : MayWrite(jobs[q].todo)

\* A process starts a tool, with the arguments that job has.
Begin(p, job) ==
  /\ ~Working(p) /\ runs < MaxRuns
  /\ runs < MaxOverlap \/ \A q \in Process : ~Working(q)
  /\ runs' = runs + 1
  /\ jobs' = [jobs EXCEPT ![p] = job]
  /\ disturbed' = (disturbed \/ job.force \/ Overlaps(job.todo))
  /\ UNCHANGED <<files, funded, told, made, deaths>>

\* ensure_local_buyer_wallet: a wallet is created when it is asked for or when
\* the settings have none.
FindWallet(p) ==
  /\ At(p, "wallet")
  /\ IF jobs[p].force \/ env.key = None
     THEN /\ made < MaxKeys
          /\ made' = made + 1
          /\ Then(p, [jobs[p] EXCEPT !.key = made'])
     ELSE /\ ThenSkip(p, Len(SaveWallet), [jobs[p] EXCEPT !.key = env.key])
          /\ UNCHANGED made
  /\ UNCHANGED <<files, funded, told, disturbed, runs, deaths>>

\* The settings are read, to be written back with what the tool changes.
ReadLines(p) ==
  /\ At(p, "read_lines") \/ At(p, "parse")
  /\ Then(p, [jobs[p] EXCEPT !.lines = env])
  /\ UNCHANGED <<files, funded, told, disturbed, bounds>>

\* save_wallet_locally.
WithWallet(job) == [job.lines EXCEPT !.key = job.key]

SaveEnv(p) ==
  /\ At(p, "save_env")
  /\ env' = WithWallet(jobs[p])
  /\ Then(p, [jobs[p] EXCEPT !.lines = None])
  /\ UNCHANGED <<walletFile, report, funded, told, disturbed, bounds>>

SaveWalletFile(p) ==
  /\ At(p, "save_wallet")
  /\ walletFile' = jobs[p].key
  /\ Then(p, jobs[p])
  /\ UNCHANGED <<env, report, funded, told, disturbed, bounds>>

WritePrepared(p) ==
  /\ At(p, "prepare")
  /\ env' = Prepared(jobs[p].lines, jobs[p].url, jobs[p].profile)
  /\ Then(p, [jobs[p] EXCEPT !.lines = None, !.url = None, !.profile = None])
  /\ UNCHANGED <<walletFile, report, funded, told, disturbed, bounds>>

ApplyNetworkProfile(p) ==
  /\ At(p, "apply_profile")
  /\ env' = WithProfile(jobs[p].lines, jobs[p].profile)
  /\ Then(p, [jobs[p] EXCEPT !.lines = None, !.profile = None])
  /\ UNCHANGED <<walletFile, report, funded, told, disturbed, bounds>>

Inspected(answered) ==
  [key |-> env.key, rpc |-> env.rpc, next |-> Funding(env, answered)]

InspectFunding(p) ==
  /\ At(p, "funding")
  /\ \E answered \in BOOLEAN : Then(p, [jobs[p] EXCEPT !.found = Inspected(answered)])
  /\ UNCHANGED <<files, funded, told, disturbed, bounds>>

ProbeMerchantsFirst(p) ==
  /\ At(p, "probe")
  /\ \E probe \in Probe :
       Then(p, [jobs[p] EXCEPT !.found.next = Advice("connect_merchant", env.url, probe)])
  /\ UNCHANGED <<files, funded, told, disturbed, bounds>>

\* _probe_merchant_targets, and what the merchant adds to the advice.
ProbeMerchants(p) ==
  /\ At(p, "probe")
  /\ \E probe \in Probe :
       Then(p, [jobs[p] EXCEPT !.found.next = Advice(jobs[p].found.next, env.url, probe)])
  /\ UNCHANGED <<files, funded, told, disturbed, bounds>>

\* The report is saved and returned, with the wallet's address.
SaveReport(p) ==
  /\ At(p, "report")
  /\ report' = jobs[p].found
  /\ told' = told \cup {jobs[p].key}
  /\ Then(p, [jobs[p] EXCEPT !.key = None, !.force = FALSE])
  /\ UNCHANGED <<env, walletFile, funded, disturbed, bounds>>

\* ops_tools.wallet_setup prints the wallet it created or found.
PrintWallet(p) ==
  /\ At(p, "print_wallet")
  /\ told' = told \cup {jobs[p].key}
  /\ Then(p, jobs[p])
  /\ UNCHANGED <<files, funded, disturbed, bounds>>

BuyerStep(p) ==
  \/ FindWallet(p) \/ ReadLines(p) \/ SaveEnv(p) \/ SaveWalletFile(p)
  \/ WritePrepared(p) \/ ApplyNetworkProfile(p)
  \/ InspectFunding(p) \/ ProbeMerchants(p) \/ SaveReport(p) \/ PrintWallet(p)
-------------------------------------------------------------------------------
(***************************************************************************)
(* Tools an operator runs in a shell or from the onboarding page.          *)
(***************************************************************************)
Job(todo) == [NoJob EXCEPT !.todo = todo]

WalletSetup(p, force) ==
  Begin(p, [Job(EnsureWallet \o <<"print_wallet">>) EXCEPT !.force = force])

BuyerInstallEnv(p, url, profile) ==
  Begin(p, [Job(Prepare) EXCEPT !.url = url, !.profile = profile])

NetworkProfileSetup(p, profile) ==
  Begin(p, [Job(<<"parse", "apply_profile">>) EXCEPT !.profile = profile])

\* ops_tools.agent_onboarding; without force also POST .../onboarding/refresh.
AgentOnboarding(p, force) == Begin(p, [Job(Onboard) EXCEPT !.force = force])

\* POST .../onboarding/merchant-url.
UpdateMerchantUrl(p, url, profile) ==
  Begin(p, [Job(Prepare \o Onboard) EXCEPT !.url = url, !.profile = profile])

\* The user sends funds to an address a tool has told.
Fund(key) ==
  /\ key \in told \ funded
  /\ funded' = funded \cup {key}
  /\ UNCHANGED <<files, jobs, told, disturbed, bounds>>

\* What is left of a file that p was writing: the old text, none, or the new.
CutOff(p) ==
  /\ env' \in {env} \cup (IF Working(p) /\ Head(jobs[p].todo) \in Writing THEN {NoLines} ELSE {})
  /\ walletFile' \in {walletFile} \cup (IF At(p, "save_wallet") THEN {Torn} ELSE {})
  /\ report' \in {report} \cup (IF At(p, "report") THEN {Torn} ELSE {})

Die(p) ==
  /\ Working(p) /\ deaths < MaxDeaths
  /\ deaths' = deaths + 1
  /\ CutOff(p)
  /\ disturbed' = (disturbed \/ env' # env)
  /\ jobs' = [jobs EXCEPT ![p] = NoJob]
  /\ UNCHANGED <<funded, told, made, runs>>

BuyerInit ==
  /\ env = NoLines /\ walletFile = None /\ report = None
  /\ jobs = [p \in Process |-> NoJob]
  /\ funded = {} /\ told = {} /\ disturbed = FALSE
  /\ made = 0 /\ runs = 0 /\ deaths = 0
-------------------------------------------------------------------------------
(***************************************************************************)
(* Properties.                                                             *)
(***************************************************************************)
\* A wallet whose address somebody was told is never replaced in the settings
\* (its private key is in no other place a tool reads), and the wallet file has
\* the same wallet or none, and the doctor's page never shows an onboarding next
\* to a missing wallet, as long as tools do not overlap, no write to the
\* settings is cut off and nobody asks for a new wallet.
ToldWalletIsKept ==
  ~disturbed =>
    /\ told \subseteq {env.key} /\ walletFile \in {env.key, Torn, None}
    /\ InstallReport.onboarding # None => InstallReport.wallet
===============================================================================

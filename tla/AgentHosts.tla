------------------------------ MODULE AgentHosts ------------------------------
(***************************************************************************)
(* The agent package and the servers that agent hosts start from it: the   *)
(* installer and its checks (ops_tools/install_agent_package.py,           *)
(* install_ai_host.py, install_skill.py, verify_agent_installation.py,     *)
(* host_post_install_check.py), the installed skill's runner               *)
(* (skills/aimipay-agent/aimipay_skill_runner.py), and the MCP server with *)
(* the tools that set up its buyer (agent_entrypoints/aimipay_mcp_stdio.py,*)
(* buyer/mcp.py, buyer/adapter.py, buyer/runtime.py).                      *)
(***************************************************************************)
EXTENDS BuyerSetup

CONSTANTS
  Host,     \* hosts that can be installed
  Operator, \* the process that runs the installer
  Copied    \* an installed file that is as the repository has it

Skill == "skill"
Agent == Host \cup {Skill}

SkillTree == {"SKILL.md", "aimipay_skill_runner.py"}
PluginTree == {"plugin.json", ".mcp.json"}

\* The files of every installation; "connector" stands for the three files of agent-dist
\* that are copied next to each other.
PackageFile ==
  SkillTree \cup {"skill-runtime.json"} \cup PluginTree \cup {"marketplace.json", "connector"}

\* A host's name stands for its generated config.
File == PackageFile \cup Host

\* The steps that have names of their own; a host's name, like that of any file, is the
\* step that writes it.
NamedStep ==
  {"wallet", "read_lines", "save_env", "save_wallet", "parse", "prepare", "apply_profile",
   "funding", "probe", "report", "print_wallet", "drop_skill", "copy_skill", "drop_plugin",
   "copy_plugin", "verify", "post_check", "load", "serve", "answer", "preview",
   "answer_funding"}

VARIABLES
  disk,          \* the installed files
  install,       \* the installer's locals
  installReport, \* aimipay-install-report.json
  server,        \* the server of each agent, and the environment it starts in
  reply,         \* what the last call of a setup tool was answered
  outdated       \* history: servers that run since before the merchant was changed

hostVars == <<disk, install, installReport, server, reply, outdated>>
vars == <<buyerVars, hostVars>>

\* What a generated file tells the server that is started with it.
Conf == [key : Key \cup {None}, url : Url]

ASSUME HostAssumption ==
  /\ Host \subseteq STRING /\ Agent \cup {Operator} \subseteq Process /\ Operator \notin Agent
  /\ Host \cap (NamedStep \cup PackageFile \cup {Skill}) = {}
  /\ None \notin Conf \cup BOOLEAN \cup {Copied}

Down == [up |-> FALSE, key |-> None, url |-> None, startup |-> None]

NoInstall == [conf |-> None, plan |-> {}, ok |-> TRUE]

TypeOK ==
  /\ BuyerTypeOK
  /\ \A f \in File : disk[f] \in Conf \cup {Copied, Torn, None}
  /\ install.conf \in Conf \cup {None} /\ install.plan \subseteq File
  /\ installReport \in BOOLEAN \cup {None}
  /\ \A a \in Agent :
       /\ server[a].key \in Key \cup {None} /\ server[a].url \in Url \cup {None}
       /\ server[a].startup \in Report \cup {None}
       /\ reply[a] \in NextStep \cup {"refused", None}
  /\ outdated \subseteq Agent
-------------------------------------------------------------------------------
(***************************************************************************)
(* The installer, in a home directory: every step writes one file or tree. *)
(***************************************************************************)
SkillSteps == <<"drop_skill", "copy_skill", "skill-runtime.json">>
PluginSteps == <<"drop_plugin", "copy_plugin", "marketplace.json", ".mcp.json">>
ConnectorSteps == <<"connector">>

\* _expand_target.
StepsOf(target) ==
  CASE target = Skill -> SkillSteps
    [] target = "codex" -> SkillSteps \o PluginSteps \o ConnectorSteps \o <<"codex">>
    [] OTHER -> ConnectorSteps \o <<target>>

\* The files that the checks look for.
PlanOf(target) ==
  CASE target = Skill -> SkillTree \cup {"skill-runtime.json"}
    [] target = "codex" -> File \ (Host \ {"codex"})
    [] OTHER -> {"connector", target}

InstallValuesUnset(url) ==
  [key |-> env.key, url |-> IF url # None THEN url ELSE env.url]

\* _install_env_values.
InstallValues(url) ==
  [key |-> env.key,
   url |-> IF url # None THEN url ELSE IF env.url # None THEN env.url ELSE DefaultUrl]

\* install_agent_package: the settings are read once, before anything is written.
InstallAgentPackage(target, url, onboarding) ==
  LET conf == InstallValues(url)
      steps == IF onboarding THEN Prepare \o Onboard ELSE <<>>
  IN  /\ Begin(Operator,
               [Job(StepsOf(target) \o <<"verify">> \o steps \o <<"post_check">>)
                  EXCEPT !.url = conf.url])
      /\ install' = [conf |-> conf, plan |-> PlanOf(target), ok |-> TRUE]
      /\ UNCHANGED <<disk, installReport, server, reply, outdated>>

InstallAiHost(target, url) == InstallAgentPackage(target, url, TRUE)

InstallAimipaySkill(url) == InstallAgentPackage(Skill, url, FALSE)

\* The directories that _copy_tree replaces.
Directory(tree) == IF tree = SkillTree THEN tree \cup {"skill-runtime.json"} ELSE tree

Without(S) == [f \in File |-> IF f \in S THEN None ELSE disk[f]]
With(S) == [f \in File |-> IF f \in S THEN Copied ELSE disk[f]]

DropTreeOnce(step, tree) ==
  /\ At(Operator, step)
  /\ UNCHANGED disk
  /\ IF \A f \in Directory(tree) : disk[f] = None
     THEN Then(Operator, jobs[Operator]) ELSE ThenSkip(Operator, 1, jobs[Operator])

\* _copy_tree: what is there is removed first.
DropTree(step, tree) ==
  /\ At(Operator, step)
  /\ disk' = Without(Directory(tree))
  /\ Then(Operator, jobs[Operator])

CopyTree(step, tree) ==
  /\ At(Operator, step)
  /\ disk' = With(tree)
  /\ Then(Operator, jobs[Operator])

\* _write_skill_runtime_config, _patch_plugin_mcp, _generate_host_config, and
\* the files that are copied as they are.
Contents(f) ==
  CASE f = "skill-runtime.json" -> [install.conf EXCEPT !.key = None]
    [] f \in Host \cup {".mcp.json"} -> install.conf
    [] OTHER -> Copied

WriteFile(f) ==
  /\ At(Operator, f)
  /\ disk' = [disk EXCEPT ![f] = Contents(f)]
  /\ Then(Operator, jobs[Operator])

CopyOrWrite ==
  /\ \/ DropTree("drop_skill", SkillTree) \/ CopyTree("copy_skill", SkillTree)
     \/ DropTree("drop_plugin", PluginTree) \/ CopyTree("copy_plugin", PluginTree)
     \/ \E f \in File : WriteFile(f)
  /\ UNCHANGED <<files, funded, told, disturbed, bounds, install, installReport, server,
                 reply, outdated>>

\* verify_agent_installation parses the plugin's files even when it is not to
\* check them.
Readable == Torn \notin {disk[f] : f \in {".mcp.json", "marketplace.json"} \cup install.plan}

Verified ==
  /\ \A f \in install.plan : disk[f] # None
  /\ ".mcp.json" \in install.plan => disk[".mcp.json"] \in Conf

\* A file that cannot be parsed ends the installer.
VerifyAgentInstallation ==
  /\ At(Operator, "verify")
  /\ IF Readable
     THEN /\ install' = [install EXCEPT !.ok = @ /\ Verified]
          /\ Then(Operator, jobs[Operator])
     ELSE install' = NoInstall /\ jobs' = [jobs EXCEPT ![Operator] = NoJob]
  /\ UNCHANGED <<files, funded, told, disturbed, bounds, disk, installReport, server, reply,
                 outdated>>

\* _doctor_payload of the installed runner; the repository is where it was.
DoctorOk(conf) == conf.url # None

SkillDoctorChecks ==
  /\ disk["aimipay_skill_runner.py"] = Copied
  /\ disk["skill-runtime.json"] \in Conf /\ DoctorOk(disk["skill-runtime.json"])

CapabilityManifestChecks == disk["connector"] = Copied

\* The files are verified once more; the protocol's smoke test touches none.
PostInstallOk ==
  /\ Verified
  /\ "skill-runtime.json" \in install.plan => SkillDoctorChecks
  /\ "connector" \in install.plan => CapabilityManifestChecks

\* run_host_post_install_check, and the report of the installation.
HostPostInstallCheck ==
  /\ At(Operator, "post_check")
  /\ installReport' = (install.ok /\ PostInstallOk)
  /\ install' = NoInstall
  /\ Then(Operator, jobs[Operator])
  /\ UNCHANGED <<files, funded, told, disturbed, bounds, disk, server, reply, outdated>>
-------------------------------------------------------------------------------
(***************************************************************************)
(* Servers.                                                                *)
(***************************************************************************)
LoadedUnlessSet(environ) ==
  [environ EXCEPT !.key = IF @ = None THEN env.key ELSE @,
                  !.url = IF @ = None THEN env.url ELSE @]

\* load_env_file with override: every setting that is in the file wins.
Loaded(environ) ==
  [environ EXCEPT !.key = IF env.key = None THEN @ ELSE env.key,
                  !.url = IF env.url = None THEN @ ELSE env.url]

\* build_server: the settings are loaded in onboarding, and once more after it.
Start == EnsureWallet \o <<"load">> \o Inspect \o <<"serve">>

\* An agent host starts the server its generated config names; it has been asked
\* to merge or import that file.
StartServer(h) ==
  /\ ~server[h].up /\ disk[h] \in Conf
  /\ Begin(h, Job(Start))
  /\ server' = [server EXCEPT ![h] = [Down EXCEPT !.key = disk[h].key, !.url = disk[h].url]]
  /\ UNCHANGED <<disk, install, installReport, reply, outdated>>

\* The skill's runner builds a server for one command.
RunSkill ==
  /\ ~server[Skill].up
  /\ disk["aimipay_skill_runner.py"] = Copied /\ disk["skill-runtime.json"] \in Conf
  /\ Begin(Skill, Job(Start))
  /\ server' = [server EXCEPT ![Skill] = [Down EXCEPT !.key = env.key,
                                                     !.url = disk["skill-runtime.json"].url]]
  /\ UNCHANGED <<disk, install, installReport, reply, outdated>>

LoadEnv(a) ==
  /\ At(a, "load")
  /\ Then(a, jobs[a])
  /\ server' = [server EXCEPT ![a] = Loaded(@)]
  /\ UNCHANGED <<files, funded, told, disturbed, bounds, disk, install, installReport, reply,
                 outdated>>

\* After the onboarding the runtime is made of the environment; a host's own
\* config names the merchant where the settings do not.
BuildServer(a) ==
  /\ At(a, "serve")
  /\ server' = [server EXCEPT ![a] = [Loaded(@) EXCEPT !.up = TRUE,
                                                       !.startup = IF a = Skill THEN None
                                                                   ELSE jobs[a].found]]
  /\ outdated' = outdated \ {a}
  /\ Then(a, jobs[a])
  /\ UNCHANGED <<files, funded, told, disturbed, bounds, disk, install, installReport, reply>>

\* A host stops its server, or the runner has run its command.
StopServer(a) ==
  /\ server[a].up /\ ~Working(a)
  /\ server' = [server EXCEPT ![a] = Down]
  /\ reply' = [reply EXCEPT ![a] = None]
  /\ outdated' = outdated \ {a}
  /\ UNCHANGED <<buyerVars, disk, install, installReport>>

\* What initialize hands to the host, as instructions and as a card.
StartupCard(h) ==
  LET found == server[h].startup
  IN  [tone |-> IF found = None THEN "info" ELSE IF Completed(found) THEN "success" ELSE "warning",
       action |-> IF found = None THEN "unknown" ELSE found.next]
-------------------------------------------------------------------------------
(***************************************************************************)
(* The server's tools for its own setup.  Each first connects a merchant:  *)
(* the one the call names, and build_server has set no default.            *)
(***************************************************************************)
\* connect_merchant raises.
ConnectRefused(h) ==
  /\ server[h].up /\ ~Working(h)
  /\ reply' = [reply EXCEPT ![h] = "refused"]
  /\ UNCHANGED <<buyerVars, disk, install, installReport, server, outdated>>

CallTool(h, job) ==
  /\ server[h].up
  /\ Begin(h, job)
  /\ UNCHANGED hostVars

CreateWallet(h, force) ==
  CallTool(h, [Job(EnsureWallet \o <<"answer_funding">>) EXCEPT !.force = force])

RunOnboarding(h, force) == CallTool(h, [Job(Onboard \o <<"answer">>) EXCEPT !.force = force])

SetMerchantUrl(h, url, profile) ==
  CallTool(h, [Job(Prepare \o Onboard \o <<"preview">>) EXCEPT !.url = url, !.profile = profile])

CheckWalletFunding(h) == CallTool(h, Job(<<"answer_funding">>))

\* get_startup_onboarding: what the server's own start has found.
GetStartupOnboarding(h) ==
  /\ server[h].up /\ ~Working(h)
  /\ reply' = [reply EXCEPT ![h] = server[h].startup.next]
  /\ UNCHANGED <<buyerVars, disk, install, installReport, server, outdated>>

Answer(h, answer) ==
  /\ reply' = [reply EXCEPT ![h] = answer]
  /\ Then(h, jobs[h])
  /\ UNCHANGED <<files, funded, disturbed, bounds, disk, install, installReport, server, outdated>>

AnswerOnboarding(h) ==
  /\ At(h, "answer")
  /\ Answer(h, jobs[h].found.next)
  /\ UNCHANGED told

\* _merchant_preview: a merchant that answers overrides the onboarding's advice.
AnswerPreview(h) ==
  /\ At(h, "preview")
  /\ \E probe \in Probe :
       Answer(h, CASE probe = "offers" -> "review_offers"
                   [] probe = "no_offers" -> "discover_offers"
                   [] OTHER -> jobs[h].found.next)
  /\ UNCHANGED told

\* check_wallet_funding of the adapter has rules of its own.
AdapterFunding(answered) ==
  IF env.key = None THEN "create_wallet"
  ELSE IF env.rpc \in {Smoke, None} THEN "ready_to_purchase"
  ELSE LiveNextStep(env, answered /\ env.rpc # Blank)

\* The answer of create_wallet has the wallet's address.
AnswerFunding(h) ==
  /\ At(h, "answer_funding")
  /\ \E answered \in BOOLEAN : Answer(h, AdapterFunding(answered))
  /\ told' = told \cup ({jobs[h].key} \ {None})

SetupTool(h) ==
  \/ ConnectRefused(h)
  \/ \E force \in BOOLEAN : CreateWallet(h, force) \/ RunOnboarding(h, force)
  \/ \E url \in Url, profile \in Profile \cup {None} : SetMerchantUrl(h, url, profile)
  \/ CheckWalletFunding(h) \/ GetStartupOnboarding(h)
  \/ AnswerOnboarding(h) \/ AnswerPreview(h) \/ AnswerFunding(h)
-------------------------------------------------------------------------------
Init ==
  /\ BuyerInit
  /\ disk = [f \in File |-> None] /\ install = NoInstall /\ installReport = None
  /\ server = [a \in Agent |-> Down] /\ reply = [a \in Agent |-> None]
  /\ outdated = {}

\* A step of a buyer tool; servers that run keep the merchant they started with.
ToolStep(p) ==
  /\ BuyerStep(p)
  /\ outdated' = IF env'.url = env.url THEN outdated
                 ELSE outdated \cup {a \in Agent : server[a].up}
  /\ UNCHANGED <<disk, install, installReport, server, reply>>

ShellTool ==
  /\ \/ \E force \in BOOLEAN : WalletSetup(Operator, force) \/ AgentOnboarding(Operator, force)
     \/ \E url \in Url \cup {None}, profile \in Profile \cup {None} :
          BuyerInstallEnv(Operator, url, profile)
     \/ \E profile \in Profile : NetworkProfileSetup(Operator, profile)
     \/ \E url \in Url, profile \in Profile \cup {None} :
          UpdateMerchantUrl(Operator, url, profile)
  /\ UNCHANGED hostVars

Installer ==
  \/ \E target \in Agent, url \in Url \cup {None} : InstallAiHost(target, url)
  \/ \E url \in Url \cup {None} : InstallAimipaySkill(url)
  \/ CopyOrWrite \/ VerifyAgentInstallation \/ HostPostInstallCheck

\* What is left of an installed file or tree that was being removed or written.
DiskCutOff ==
  CASE At(Operator, "drop_skill") \/ At(Operator, "copy_skill") ->
         \E S \in SUBSET SkillTree : disk' = [Without(Directory(SkillTree)) EXCEPT
           !["SKILL.md"] = IF "SKILL.md" \in S THEN Copied ELSE None,
           !["aimipay_skill_runner.py"] = IF "aimipay_skill_runner.py" \in S THEN Copied ELSE None]
    [] At(Operator, "drop_plugin") \/ At(Operator, "copy_plugin") ->
         \E S \in SUBSET PluginTree : disk' = [Without(PluginTree) EXCEPT
           !["plugin.json"] = IF "plugin.json" \in S THEN Copied ELSE None,
           ![".mcp.json"] = IF ".mcp.json" \in S THEN Copied ELSE None]
    [] Working(Operator) /\ Head(jobs[Operator].todo) \in File ->
         \E left \in {disk[Head(jobs[Operator].todo)], Torn} :
           disk' = [disk EXCEPT ![Head(jobs[Operator].todo)] = left]
    [] OTHER -> UNCHANGED disk

\* A process is killed in the middle of a tool.
ProcessDies(p) ==
  /\ Die(p)
  /\ IF p = Operator THEN DiskCutOff /\ install' = NoInstall ELSE UNCHANGED <<disk, install>>
  /\ server' = [a \in Agent |-> IF a = p THEN Down ELSE server[a]]
  /\ reply' = [a \in Agent |-> IF a = p THEN None ELSE reply[a]]
  /\ outdated' = outdated \ {p}
  /\ UNCHANGED installReport

Next ==
  \/ ShellTool \/ Installer
  \/ \E h \in Host : StartServer(h) \/ SetupTool(h)
  \/ RunSkill
  \/ \E a \in Agent : LoadEnv(a) \/ BuildServer(a) \/ StopServer(a)
  \/ \E p \in Process : ToolStep(p) \/ ProcessDies(p)
  \/ \E key \in told \ funded : Fund(key) /\ UNCHANGED hostVars

Spec == Init /\ [][Next]_vars
-------------------------------------------------------------------------------
(***************************************************************************)
(* Properties.                                                             *)
(***************************************************************************)
\* Neither the doctor's page, from a saved report, nor the card of a server that
\* runs says that the buyer can purchase on a live network unless the wallet that
\* was looked at held the minimum balances: no answer of a merchant, and none that
\* fails to come, makes up for them.
CompletedIsFunded ==
  /\ LET page == InstallReport.onboarding
     IN  page # None /\ Completed(page) /\ Live(page) => page.key \in funded
  /\ \A h \in Host :
       StartupCard(h).tone = "success" /\ Live(server[h].startup)
         => server[h].startup.key \in funded

\* A server that runs pays from the wallet of the settings, never from one its
\* generated config was given before, nor from the placeholder it has none for;
\* and it reads the merchant the settings name, unless they were changed since.
ServerMatchesSettings ==
  ~disturbed =>
    \A a \in Agent : server[a].up =>
      /\ server[a].key = env.key /\ env.key # None
      /\ a \in outdated \/ env.url \in {server[a].url, None}

\* An installation that runs to its end reports that all is in place, whatever an
\* earlier one left behind that was killed half way.
FinishedInstallWorks == installReport # FALSE
===============================================================================

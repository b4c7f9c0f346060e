------------------------------- MODULE MCSetup -------------------------------
(***************************************************************************)
(* An operator, one agent host and the skill's runner.                     *)
(***************************************************************************)
EXTENDS AgentHosts

MCHost == {"codex"}
MCProcess == {"operator", "codex", "skill"}
MCOperator == "operator"

CONSTANTS nile, mainnet

\* network_profiles.json: the contracts of the main network are left empty.
MCProfiles ==
  [p \in {nile, mainnet} |->
     [rpc |-> p, contracts |-> IF p = nile THEN nile ELSE None]]

\* What a first installation of the host leaves: a wallet, the merchant's own
\* network, and the settings its config was given before there was a wallet.
AfterInstall(url, next) ==
  LET conf == [key |-> None, url |-> url]
  IN  /\ env = [key |-> 1, url |-> url, rpc |-> Blank, contracts |-> None]
      /\ walletFile = 1 /\ report = [key |-> 1, rpc |-> Blank, next |-> next]
      /\ told = {1} /\ made = 1
      /\ disk = [f \in File |-> IF f \in {"skill-runtime.json", ".mcp.json", "codex"}
                                THEN conf ELSE Copied]
      /\ installReport = TRUE /\ runs = 0

\* Of the tools that are counted one is spared: two may run from here.
Nothing ==
  /\ env = NoLines /\ walletFile = None /\ report = None /\ told = {} /\ made = 0
  /\ disk = [f \in File |-> None] /\ installReport = None
  /\ runs = 1

MCInit ==
  /\ \/ Nothing
     \/ AfterInstall(DefaultUrl, "review_offers")
  /\ jobs = [p \in Process |-> NoJob] /\ install = NoInstall
  /\ funded = {} /\ disturbed = FALSE /\ deaths = 0
  /\ server = [a \in Agent |-> Down] /\ reply = [a \in Agent |-> None] /\ outdated = {}

MCSpec == MCInit /\ [][Next]_vars
===============================================================================

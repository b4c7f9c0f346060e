--------------------------- MODULE AgentHostsProofs ---------------------------
(***************************************************************************)
(* Proofs about the buyer's local setup and the agent hosts.               *)
(*                                                                         *)
(* A tool is a list of steps, so what a process still has to do is what    *)
(* the invariants are about.  The lists are never looked at again once a   *)
(* tool has begun: Program says that the steps of a list have increasing   *)
(* ranks, and that finding a wallet is followed by saving it; both are     *)
(* kept by taking the first step, or the first four.  From there on a list *)
(* is the set of its steps, Left(p), and a step that is taken is the one   *)
(* of the lowest rank.                                                     *)
(*                                                                         *)
(* BuyerInv is about the buyer's files and what a job knows when a step    *)
(* needs it; HostInv is about the installed files and the servers.  On     *)
(* these rest ReportsCovered, ServerMatchesSettings and InstallGoesOn.     *)
(***************************************************************************)
EXTENDS AgentHosts, SequenceTheorems, TLAPS

Step == NamedStep \cup File

StepsIn(todo) == {todo[i] : i \in 1 .. Len(todo)}

\* The order in which every tool takes its steps.
Rank(s) ==
  CASE s = "drop_skill" -> 1 [] s = "copy_skill" -> 2 [] s = "skill-runtime.json" -> 3
    [] s = "drop_plugin" -> 4 [] s = "copy_plugin" -> 5 [] s = "marketplace.json" -> 6
    [] s = ".mcp.json" -> 7 [] s = "connector" -> 8 [] s \in Host -> 9
    [] s = "verify" -> 10 [] s = "parse" -> 11 [] s \in {"prepare", "apply_profile"} -> 12
    [] s = "wallet" -> 13 [] s = "read_lines" -> 14 [] s = "save_env" -> 15
    [] s = "save_wallet" -> 16 [] s \in {"load", "print_wallet", "answer_funding"} -> 17
    [] s = "funding" -> 18 [] s = "probe" -> 19 [] s = "report" -> 20
    [] OTHER -> 21

Ordered(todo) ==
  \A i, j \in 1 .. Len(todo) : i < j => Rank(todo[i]) < Rank(todo[j])

\* The three steps that FindWallet skips are the ones that come next.
WalletsAreSaved(todo) ==
  \A i \in 1 .. Len(todo) : todo[i] = "wallet" =>
    /\ i + 3 \in 1 .. Len(todo)
    /\ todo[i + 1] = "read_lines" /\ todo[i + 2] = "save_env" /\ todo[i + 3] = "save_wallet"

Program(todo) == todo \in Seq(Step) /\ Ordered(todo) /\ WalletsAreSaved(todo)

Left(p) == StepsIn(jobs[p].todo)

JobType ==
  [todo : Seq(Step), force : BOOLEAN, url : Url \cup {None}, profile : Profile \cup {None},
   lines : Env \cup {None}, key : Key \cup {None}, found : Report \cup {None}]
-------------------------------------------------------------------------------
(***************************************************************************)
(* The buyer's files and jobs.                                             *)
(***************************************************************************)
BuyerTypes ==
  /\ env \in Env /\ walletFile \in Key \cup {Torn, None} /\ report \in Report \cup {Torn, None}
  /\ jobs \in [Process -> JobType]
  /\ funded \subseteq told /\ told \subseteq 1 .. made
  /\ disturbed \in BOOLEAN
  /\ made \in 0 .. MaxKeys /\ runs \in 0 .. MaxRuns /\ deaths \in 0 .. MaxDeaths

UsesKey ==
  {"read_lines", "save_env", "save_wallet", "load", "print_wallet", "funding", "probe", "report"}

UsesFound == {"probe", "report", "serve", "answer", "preview"}

\* A job with the steps S left has the wallet, the lines, the profile and the report that
\* they need, or a step that gets them to come.
ReadyFor(job, S) ==
  /\ S \cap UsesKey # {} => "wallet" \in S \/ job.key \in Key
  /\ S \cap UsesFound # {} => "funding" \in S \/ job.found \in Report
  /\ S \cap {"prepare", "apply_profile"} # {} => "parse" \in S \/ job.lines \in Env
  /\ "save_env" \in S =>
       \/ "read_lines" \in S
       \/ job.lines \in Env /\ S \cap {"parse", "prepare", "apply_profile"} = {}
  /\ "apply_profile" \in S => job.profile \in Profile

JobsReady == \A p \in Process : Program(jobs[p].todo) /\ ReadyFor(jobs[p], Left(p))

\* Every wallet that is known anywhere was created.
KeysKnown(job, known) ==
  /\ job.key \in known \cup {None}
  /\ job.lines # None => job.lines.key \in known \cup {None}

KeysMade ==
  env.key \in (1 .. made) \cup {None} /\ \A p \in Process : KeysKnown(jobs[p], 1 .. made)

\* The steps that come after the wallet was saved in the settings.
Saved ==
  {"save_wallet", "load", "print_wallet", "funding", "probe", "report", "serve"}

\* What an undisturbed job with the steps S left relies on: the lines it has read are
\* still those of the settings e, it holds a wallet of its own only while the settings
\* have none and it is about to save it, and else the wallet of the settings.
QuietFor(job, S, e) ==
  /\ ~job.force
  /\ S \cap {"prepare", "apply_profile"} # {} => "parse" \in S \/ job.lines = e
  /\ "save_env" \in S => "read_lines" \in S \/ job.lines = e
  /\ "save_env" \in S /\ "wallet" \notin S => e.key = None
  /\ S \cap Saved # {} => e.key # None \/ "save_env" \in S
  /\ job.key \in {None, e.key} \/ ("save_env" \in S /\ "wallet" \notin S)

OneWriter ==
  \A p, q \in Process : Left(p) \cap Writing # {} /\ Left(q) \cap Writing # {} => p = q

WalletKept ==
  /\ told \subseteq {env.key} /\ walletFile \in {env.key, Torn, None}
  /\ report \in {Torn, None} \/ env.key # None

Quiet ==
  ~disturbed =>
    OneWriter /\ WalletKept /\ \A p \in Process : QuietFor(jobs[p], Left(p), env)

BuyerInv == BuyerTypes /\ JobsReady /\ KeysMade /\ Quiet
-------------------------------------------------------------------------------
(***************************************************************************)
(* The installed files, the servers and what is shown of the buyer.        *)
(***************************************************************************)
HostTypes ==
  /\ disk \in [File -> Conf \cup {Copied, Torn, None}]
  /\ install \in [conf : Conf \cup {None}, plan : SUBSET File, ok : BOOLEAN]
  /\ installReport \in BOOLEAN \cup {None}
  /\ server \in [Agent -> [up : BOOLEAN, key : Key \cup {None}, url : Url \cup {None},
                           startup : Report \cup {None}]]
  /\ reply \in [Agent -> NextStep \cup {"refused", None}]
  /\ outdated \subseteq Agent

\* A host's server has a card from its start on.
CardsKnown == \A h \in Host : server[h].up => server[h].startup \in Report

\* A file is written only by an installer that has read the settings.
InstallReady == Left(Operator) \cap File # {} => install.conf \in Conf

HostInv == HostTypes /\ CardsKnown /\ InstallReady

\* A report that leads on to a purchase on a live network, about a wallet that holds the
\* minimum balances.
Covered(r) ==
  r \in Report /\ r.next \notin {"create_wallet", "fund_wallet"} /\ Live(r) => r.key \in funded

\* Reports that are saved, still being made, or on a server's card.
ReportsCovered ==
  /\ Covered(report)
  /\ \A p \in Process : Covered(jobs[p].found)
  /\ \A a \in Agent : Covered(server[a].startup)

WriterOf(f) ==
  CASE f \in SkillTree -> "copy_skill" [] f = "plugin.json" -> "copy_plugin" [] OTHER -> f

InPlace(f) ==
  IF f \in Host \cup {"skill-runtime.json", ".mcp.json"} THEN disk[f] \in Conf
  ELSE disk[f] = Copied

\* A planned file is in place or has its writer to come; a tree that is to be removed has
\* all of its writers to come.
InstallGoesOn ==
  /\ installReport # FALSE /\ install.ok
  /\ "skill-runtime.json" \in install.plan => "aimipay_skill_runner.py" \in install.plan
  /\ \A f \in install.plan : InPlace(f) \/ WriterOf(f) \in Left(Operator)
  /\ "drop_skill" \in Left(Operator)
       => {"copy_skill", "skill-runtime.json"} \subseteq Left(Operator)
  /\ "drop_plugin" \in Left(Operator) => "copy_plugin" \in Left(Operator)
  /\ "copy_plugin" \in Left(Operator) => ".mcp.json" \in Left(Operator)
-------------------------------------------------------------------------------
(***************************************************************************)
(* Lists of steps.                                                         *)
(***************************************************************************)
LEMMA RankOf ==
  /\ \A s \in Step : Rank(s) \in 1 .. 21
  /\ Rank("drop_skill") = 1 /\ Rank("copy_skill") = 2 /\ Rank("skill-runtime.json") = 3
  /\ Rank("drop_plugin") = 4 /\ Rank("copy_plugin") = 5 /\ Rank("marketplace.json") = 6
  /\ Rank(".mcp.json") = 7 /\ Rank("connector") = 8 /\ Rank("verify") = 10
  /\ \A h \in Host : Rank(h) = 9
  /\ Rank("parse") = 11 /\ Rank("prepare") = 12 /\ Rank("apply_profile") = 12
  /\ Rank("wallet") = 13 /\ Rank("read_lines") = 14 /\ Rank("save_env") = 15
  /\ Rank("save_wallet") = 16 /\ Rank("load") = 17 /\ Rank("print_wallet") = 17
  /\ Rank("answer_funding") = 17 /\ Rank("funding") = 18 /\ Rank("probe") = 19
  /\ Rank("report") = 20 /\ Rank("serve") = 21 /\ Rank("answer") = 21
  /\ Rank("preview") = 21 /\ Rank("post_check") = 21
<1> USE DEF Rank
<1>1. /\ \A h \in Host : h \notin NamedStep \cup PackageFile
      /\ PackageFile = {"SKILL.md", "aimipay_skill_runner.py", "skill-runtime.json",
                        "plugin.json", ".mcp.json", "marketplace.json", "connector"}
  BY HostAssumption DEF PackageFile, SkillTree, PluginTree
<1>2. \A h \in Host : Rank(h) = 9
  BY <1>1 DEF NamedStep
<1>3. /\ Rank("drop_skill") = 1 /\ Rank("copy_skill") = 2 /\ Rank("skill-runtime.json") = 3
      /\ Rank("drop_plugin") = 4 /\ Rank("copy_plugin") = 5 /\ Rank("marketplace.json") = 6
      /\ Rank(".mcp.json") = 7 /\ Rank("connector") = 8
  BY <1>1 DEF NamedStep
<1>4. \A s \in NamedStep : s \notin Host
  BY <1>1
<1>5. /\ Rank("verify") = 10 /\ Rank("parse") = 11 /\ Rank("prepare") = 12
      /\ Rank("apply_profile") = 12 /\ Rank("wallet") = 13 /\ Rank("read_lines") = 14
      /\ Rank("save_env") = 15 /\ Rank("save_wallet") = 16
  BY <1>4 DEF NamedStep
<1>6. /\ Rank("load") = 17 /\ Rank("print_wallet") = 17 /\ Rank("answer_funding") = 17
      /\ Rank("funding") = 18 /\ Rank("probe") = 19 /\ Rank("report") = 20
  BY <1>4 DEF NamedStep
<1>7. /\ Rank("serve") = 21 /\ Rank("answer") = 21 /\ Rank("preview") = 21
      /\ Rank("post_check") = 21
  BY <1>4 DEF NamedStep
<1>8. \A s : Rank(s) \in 1 .. 21
  OBVIOUS
<1> QED BY <1>2, <1>3, <1>5, <1>6, <1>7, <1>8

LEMMA RankIsInt == \A s : Rank(s) \in Int
  BY DEF Rank

\* A list of steps that has lost its first is such a list again.
LEMMA Onward ==
  ASSUME NEW todo, Program(todo), todo # <<>>, NEW left, left = SubSeq(todo, 2, Len(todo))
  PROVE  /\ Program(left)
         /\ Head(todo) \in Step /\ Head(todo) \in StepsIn(todo)
         /\ StepsIn(left) = StepsIn(todo) \ {Head(todo)}
         /\ \A s \in StepsIn(left) : Rank(s) > Rank(Head(todo))
<1>1. /\ todo \in Seq(Step) /\ Len(todo) \in Nat \ {0} /\ Head(todo) = todo[1]
      /\ \A i \in 1 .. Len(todo) : todo[i] \in Step
  BY DEF Program
<1>2. /\ left \in Seq(Step) /\ Len(left) = Len(todo) - 1
      /\ \A i \in 1 .. Len(left) : left[i] = todo[i + 1]
  <2>1. \A i \in 2 .. Len(todo) : todo[i] \in Step
    BY <1>1
  <2>2. /\ left \in Seq(Step)
        /\ Len(left) = IF 2 <= Len(todo) THEN Len(todo) - 2 + 1 ELSE 0
        /\ \A i \in 1 .. Len(todo) - 2 + 1 : left[i] = todo[2 + i - 1]
    BY <1>1, <2>1, SubSeqProperties
  <2>3. Len(left) = Len(todo) - 1
    <3>1. PICK n \in Nat \ {0} : n = Len(todo)
      BY <1>1
    <3>2. Len(left) = IF 2 <= n THEN n - 2 + 1 ELSE 0
      BY <2>2, <3>1
    <3>3. Len(left) = n - 1
      BY <3>2
    <3> QED BY <3>1, <3>3
  <2>4. ASSUME NEW i \in 1 .. Len(left) PROVE left[i] = todo[i + 1]
    <3>1. i \in 1 .. Len(todo) - 2 + 1 /\ 2 + i - 1 = i + 1
      BY <1>1, <2>3
    <3> QED BY <3>1, <2>2
  <2> QED BY <2>2, <2>3, <2>4
<1>3. Ordered(left)
  BY <1>1, <1>2 DEF Program, Ordered
<1>4. WalletsAreSaved(left)
  <2> SUFFICES ASSUME NEW i \in 1 .. Len(left), left[i] = "wallet"
               PROVE  /\ i + 3 \in 1 .. Len(left)
                      /\ left[i + 1] = "read_lines" /\ left[i + 2] = "save_env"
                      /\ left[i + 3] = "save_wallet"
    BY DEF WalletsAreSaved
  <2>1. i + 1 \in 1 .. Len(todo) /\ todo[i + 1] = "wallet"
    BY <1>1, <1>2
  <2>2. /\ (i + 1) + 3 \in 1 .. Len(todo)
        /\ todo[(i + 1) + 1] = "read_lines" /\ todo[(i + 1) + 2] = "save_env"
        /\ todo[(i + 1) + 3] = "save_wallet"
    BY <2>1 DEF Program, WalletsAreSaved
  <2>3. i + 3 \in 1 .. Len(left) /\ i + 1 \in 1 .. Len(left) /\ i + 2 \in 1 .. Len(left)
    <3>1. PICK n \in Nat \ {0} : n = Len(todo)
      BY <1>1
    <3>2. (i + 1) + 3 \in 1 .. n /\ i \in 1 .. n - 1
      BY <2>2, <1>2, <3>1
    <3>3. i + 3 \in 1 .. n - 1 /\ i + 1 \in 1 .. n - 1 /\ i + 2 \in 1 .. n - 1
      BY <3>2
    <3> QED BY <3>1, <3>3, <1>2
  <2>4. /\ left[i + 1] = todo[(i + 1) + 1] /\ left[i + 2] = todo[(i + 2) + 1]
        /\ left[i + 3] = todo[(i + 3) + 1]
    BY <2>3, <1>2
  <2>5. (i + 2) + 1 = (i + 1) + 2 /\ (i + 3) + 1 = (i + 1) + 3
    OBVIOUS
  <2> QED BY <2>2, <2>3, <2>4, <2>5
<1>5. \A s \in StepsIn(left) : Rank(s) > Rank(Head(todo))
  <2> SUFFICES ASSUME NEW i \in 1 .. Len(left) PROVE Rank(left[i]) > Rank(Head(todo))
    BY DEF StepsIn
  <2>1. 1 \in 1 .. Len(todo) /\ i + 1 \in 1 .. Len(todo) /\ 1 < i + 1 /\ left[i] = todo[i + 1]
    BY <1>1, <1>2
  <2>2. Rank(todo[1]) < Rank(todo[i + 1])
    BY <2>1 DEF Program, Ordered
  <2>3. Rank(todo[1]) \in Int /\ Rank(todo[i + 1]) \in Int
    BY RankIsInt
  <2> QED BY <2>1, <2>2, <2>3, <1>1
<1>6. StepsIn(left) = StepsIn(todo) \ {Head(todo)}
  <2>1. StepsIn(left) \subseteq StepsIn(todo)
    BY <1>1, <1>2 DEF StepsIn
  <2>2. Head(todo) \notin StepsIn(left)
    BY <1>5, RankIsInt
  <2>3. ASSUME NEW s \in StepsIn(todo), s # Head(todo) PROVE s \in StepsIn(left)
    <3>1. PICK i \in 1 .. Len(todo) : s = todo[i]
      BY DEF StepsIn
    <3>2. i - 1 \in 1 .. Len(left) /\ left[i - 1] = s
      BY <3>1, <2>3, <1>1, <1>2
    <3> QED BY <3>2 DEF StepsIn
  <2> QED BY <2>1, <2>2, <2>3
<1>7. 1 \in 1 .. Len(todo)
  BY <1>1
<1>8. Head(todo) \in Step /\ Head(todo) \in StepsIn(todo)
  BY <1>1, <1>7 DEF StepsIn
<1> QED BY <1>2, <1>3, <1>4, <1>5, <1>6, <1>8 DEF Program

\* A list that finds a wallet saves it.
LEMMA WalletFollowed ==
  ASSUME NEW todo, Program(todo), "wallet" \in StepsIn(todo)
  PROVE  {"read_lines", "save_env", "save_wallet"} \subseteq StepsIn(todo)
<1>1. todo \in Seq(Step) /\ Len(todo) \in Nat
  BY DEF Program
<1>2. PICK i \in 1 .. Len(todo) : todo[i] = "wallet"
  BY DEF StepsIn
<1>3. /\ i + 3 \in 1 .. Len(todo)
      /\ todo[i + 1] = "read_lines" /\ todo[i + 2] = "save_env" /\ todo[i + 3] = "save_wallet"
  BY <1>2 DEF Program, WalletsAreSaved
<1>4. i + 1 \in 1 .. Len(todo) /\ i + 2 \in 1 .. Len(todo)
  <2>1. PICK n \in Nat : n = Len(todo)
    BY <1>1
  <2>2. i + 3 \in 1 .. n /\ i \in 1 .. n
    BY <2>1, <1>3
  <2>3. i + 1 \in 1 .. n /\ i + 2 \in 1 .. n
    BY <2>2
  <2> QED BY <2>1, <2>3
<1> QED BY <1>3, <1>4 DEF StepsIn

CreatesWallet == {"wallet", "read_lines", "save_env", "save_wallet"}

\* What is left where the settings have a wallet, and none is saved.
LEMMA SkipsWallet ==
  ASSUME NEW todo, Program(todo), todo # <<>>, Head(todo) = "wallet",
         NEW left, left = SubSeq(todo, Len(SaveWallet) + 2, Len(todo))
  PROVE  /\ Program(left) /\ "wallet" \in StepsIn(todo)
         /\ StepsIn(left) = StepsIn(todo) \ CreatesWallet
         /\ \A s \in StepsIn(left) : Rank(s) > 16
<1>1. /\ todo \in Seq(Step) /\ Len(todo) \in Nat \ {0} /\ todo[1] = "wallet"
      /\ \A i \in 1 .. Len(todo) : todo[i] \in Step
  BY DEF Program
<1>2. /\ 4 \in 1 .. Len(todo)
      /\ todo[2] = "read_lines" /\ todo[3] = "save_env" /\ todo[4] = "save_wallet"
  <2>1. 1 \in 1 .. Len(todo)
    BY <1>1
  <2>2. /\ 1 + 3 \in 1 .. Len(todo)
        /\ todo[1 + 1] = "read_lines" /\ todo[1 + 2] = "save_env"
        /\ todo[1 + 3] = "save_wallet"
    BY <1>1, <2>1 DEF Program, WalletsAreSaved
  <2>3. 1 + 3 = 4 /\ 1 + 1 = 2 /\ 1 + 2 = 3
    OBVIOUS
  <2> QED BY <2>2, <2>3
<1>3. Len(SaveWallet) + 2 = 5
  BY DEF SaveWallet
<1>4. left = SubSeq(todo, 5, Len(todo))
  BY <1>3
<1>5. /\ left \in Seq(Step) /\ Len(left) = Len(todo) - 4
      /\ \A i \in 1 .. Len(left) : left[i] = todo[i + 4]
  <2>1. \A i \in 5 .. Len(todo) : todo[i] \in Step
    BY <1>1
  <2>2. /\ left \in Seq(Step)
        /\ Len(left) = IF 5 <= Len(todo) THEN Len(todo) - 5 + 1 ELSE 0
        /\ \A i \in 1 .. Len(todo) - 5 + 1 : left[i] = todo[5 + i - 1]
    BY <1>1, <1>4, <2>1, SubSeqProperties
  <2>3. Len(left) = Len(todo) - 4
    <3>1. PICK n \in Nat \ {0} : n = Len(todo)
      BY <1>1
    <3>2. 4 \in 1 .. n
      BY <1>2, <3>1
    <3>3. n - 4 = IF 5 <= n THEN n - 5 + 1 ELSE 0
      BY <3>2
    <3> QED BY <2>2, <3>1, <3>3
  <2>4. ASSUME NEW i \in 1 .. Len(left) PROVE left[i] = todo[i + 4]
    <3>1. i \in 1 .. Len(todo) - 5 + 1 /\ 5 + i - 1 = i + 4
      BY <1>1, <2>3
    <3> QED BY <3>1, <2>2
  <2> QED BY <2>2, <2>3, <2>4
<1>6. Ordered(left)
  BY <1>1, <1>5 DEF Program, Ordered
<1>7. WalletsAreSaved(left)
  <2> SUFFICES ASSUME NEW i \in 1 .. Len(left), left[i] = "wallet"
               PROVE  /\ i + 3 \in 1 .. Len(left)
                      /\ left[i + 1] = "read_lines" /\ left[i + 2] = "save_env"
                      /\ left[i + 3] = "save_wallet"
    BY DEF WalletsAreSaved
  <2>1. i + 4 \in 1 .. Len(todo) /\ todo[i + 4] = "wallet"
    BY <1>1, <1>5
  <2>2. /\ (i + 4) + 3 \in 1 .. Len(todo)
        /\ todo[(i + 4) + 1] = "read_lines" /\ todo[(i + 4) + 2] = "save_env"
        /\ todo[(i + 4) + 3] = "save_wallet"
    BY <2>1 DEF Program, WalletsAreSaved
  <2>3. i + 3 \in 1 .. Len(left) /\ i + 1 \in 1 .. Len(left) /\ i + 2 \in 1 .. Len(left)
    <3>1. PICK n \in Nat \ {0} : n = Len(todo)
      BY <1>1
    <3>2. (i + 4) + 3 \in 1 .. n /\ i \in 1 .. n - 4
      BY <2>2, <1>5, <3>1
    <3>3. i + 3 \in 1 .. n - 4 /\ i + 1 \in 1 .. n - 4 /\ i + 2 \in 1 .. n - 4
      BY <3>2
    <3> QED BY <3>1, <3>3, <1>5
  <2>4. /\ left[i + 1] = todo[(i + 1) + 4] /\ left[i + 2] = todo[(i + 2) + 4]
        /\ left[i + 3] = todo[(i + 3) + 4]
    BY <2>3, <1>5
  <2>5. /\ (i + 1) + 4 = (i + 4) + 1 /\ (i + 2) + 4 = (i + 4) + 2
        /\ (i + 3) + 4 = (i + 4) + 3
    OBVIOUS
  <2> QED BY <2>2, <2>3, <2>4, <2>5
<1>8. \A s \in StepsIn(left) : Rank(s) > 16
  <2> SUFFICES ASSUME NEW i \in 1 .. Len(left) PROVE Rank(left[i]) > 16
    BY DEF StepsIn
  <2>1. i + 4 \in 1 .. Len(todo) /\ 4 < i + 4 /\ left[i] = todo[i + 4]
    BY <1>1, <1>5
  <2>2. Rank(todo[4]) < Rank(todo[i + 4])
    BY <2>1, <1>2 DEF Program, Ordered
  <2>3. Rank(todo[i + 4]) \in 1 .. 21 /\ Rank(todo[4]) = 16
    BY <2>1, <1>1, <1>2, RankOf
  <2> QED BY <2>1, <2>2, <2>3
<1>9. StepsIn(left) = StepsIn(todo) \ CreatesWallet
  <2>1. StepsIn(left) \subseteq StepsIn(todo)
    BY <1>1, <1>5 DEF StepsIn
  <2>2. StepsIn(left) \cap CreatesWallet = {}
    <3>1. \A s \in CreatesWallet : ~(Rank(s) > 16)
      <4>1. Rank("wallet") = 13 /\ Rank("read_lines") = 14 /\ Rank("save_env") = 15
            /\ Rank("save_wallet") = 16
        BY RankOf
      <4>2. \A s \in CreatesWallet : Rank(s) \in 13 .. 16
        <5> SUFFICES ASSUME NEW s \in CreatesWallet PROVE Rank(s) \in 13 .. 16
          OBVIOUS
        <5>1. s = "wallet" \/ s = "read_lines" \/ s = "save_env" \/ s = "save_wallet"
          BY DEF CreatesWallet
        <5>2. 13 \in 13 .. 16 /\ 14 \in 13 .. 16 /\ 15 \in 13 .. 16 /\ 16 \in 13 .. 16
          OBVIOUS
        <5> QED BY <4>1, <5>1, <5>2, Zenon
      <4> QED BY <4>2
    <3> QED BY <1>8, <3>1
  <2>3. ASSUME NEW s \in StepsIn(todo) \ CreatesWallet PROVE s \in StepsIn(left)
    <3>1. PICK i \in 1 .. Len(todo) : s = todo[i]
      BY <2>3 DEF StepsIn
    <3>2. i \notin 1 .. 4
      <4>1. i # 1 /\ i # 2 /\ i # 3 /\ i # 4
        BY <3>1, <2>3, <1>1, <1>2 DEF CreatesWallet
      <4> QED BY <4>1, <1>1
    <3>3. i - 4 \in 1 .. Len(left) /\ left[i - 4] = s
      BY <3>1, <3>2, <1>1, <1>5
    <3> QED BY <3>3 DEF StepsIn
  <2> QED BY <2>1, <2>2, <2>3
<1>10. "wallet" \in StepsIn(todo)
  <2>1. 1 \in 1 .. Len(todo)
    BY <1>1
  <2> QED BY <2>1, <1>1 DEF StepsIn
<1> QED BY <1>5, <1>6, <1>7, <1>8, <1>9, <1>10 DEF Program
-------------------------------------------------------------------------------
\* Two lists make one where the second takes up the ranks above the first's.
LEMMA Joined ==
  ASSUME NEW a, NEW b, Program(a), Program(b), NEW k \in Int,
         \A s \in StepsIn(a) : Rank(s) < k, \A s \in StepsIn(b) : Rank(s) >= k
  PROVE  Program(a \o b) /\ StepsIn(a \o b) = StepsIn(a) \cup StepsIn(b)
<1> DEFINE c == a \o b
<1>1. a \in Seq(Step) /\ b \in Seq(Step)
  BY DEF Program
<1>2. PICK m \in Nat, n \in Nat : m = Len(a) /\ n = Len(b)
  BY <1>1
<1>3. c \in Seq(Step) /\ Len(c) = m + n
  BY <1>1, <1>2, ConcatProperties
<1>4. \A i \in 1 .. m : i \in 1 .. m + n /\ c[i] = a[i]
  <2> TAKE i \in 1 .. m
  <2>1. i \in 1 .. m + n /\ i <= m
    OBVIOUS
  <2>2. c[i] = IF i <= Len(a) THEN a[i] ELSE b[i - Len(a)]
    BY <2>1, <1>1, <1>2, ConcatProperties
  <2> QED BY <2>1, <2>2, <1>2
<1>5. \A i \in 1 .. m + n : i > m => i - m \in 1 .. n /\ c[i] = b[i - m]
  <2> TAKE i \in 1 .. m + n
  <2> HAVE i > m
  <2>1. i - m \in 1 .. n /\ ~(i <= m)
    OBVIOUS
  <2>2. c[i] = IF i <= Len(a) THEN a[i] ELSE b[i - Len(a)]
    BY <1>1, <1>2, ConcatProperties
  <2> QED BY <2>1, <2>2, <1>2
<1>6. \A i \in 1 .. n : i + m \in 1 .. m + n /\ c[i + m] = b[i]
  <2> TAKE i \in 1 .. n
  <2>1. i + m \in 1 .. m + n /\ i + m > m /\ (i + m) - m = i
    OBVIOUS
  <2>2. c[i + m] = b[(i + m) - m]
    BY <2>1, <1>5
  <2> QED BY <2>1, <2>2
<1> HIDE DEF c
<1>7. StepsIn(c) = StepsIn(a) \cup StepsIn(b)
  <2>1. StepsIn(a) \subseteq StepsIn(c)
    BY <1>2, <1>3, <1>4 DEF StepsIn
  <2>2. StepsIn(b) \subseteq StepsIn(c)
    <3> SUFFICES ASSUME NEW i \in 1 .. n PROVE b[i] \in StepsIn(c)
      BY <1>2 DEF StepsIn
    <3>1. i + m \in 1 .. Len(c) /\ c[i + m] = b[i]
      BY <1>3, <1>6
    <3> QED BY <3>1 DEF StepsIn
  <2>3. StepsIn(c) \subseteq StepsIn(a) \cup StepsIn(b)
    <3> SUFFICES ASSUME NEW i \in 1 .. m + n PROVE c[i] \in StepsIn(a) \cup StepsIn(b)
      BY <1>3 DEF StepsIn
    <3>1. CASE i <= m
      <4>1. i \in 1 .. Len(a) /\ c[i] = a[i]
        BY <3>1, <1>2, <1>4
      <4> QED BY <4>1 DEF StepsIn
    <3>2. CASE i > m
      <4>1. i - m \in 1 .. Len(b) /\ c[i] = b[i - m]
        BY <3>2, <1>2, <1>5
      <4> QED BY <4>1 DEF StepsIn
    <3> QED BY <3>1, <3>2
  <2> QED BY <2>1, <2>2, <2>3
<1>8. Ordered(c)
  <2> SUFFICES ASSUME NEW i \in 1 .. m + n, NEW j \in 1 .. m + n, i < j
               PROVE  Rank(c[i]) < Rank(c[j])
    BY <1>3 DEF Ordered
  <2>1. CASE j <= m
    <3>1. i \in 1 .. Len(a) /\ j \in 1 .. Len(a) /\ c[i] = a[i] /\ c[j] = a[j]
      BY <2>1, <1>2, <1>4
    <3> QED BY <3>1 DEF Program, Ordered
  <2>2. CASE i > m
    <3>1. /\ i - m \in 1 .. n /\ j - m \in 1 .. n /\ i - m < j - m
          /\ c[i] = b[i - m] /\ c[j] = b[j - m]
      BY <2>2, <1>5
    <3>2. i - m \in 1 .. Len(b) /\ j - m \in 1 .. Len(b)
      BY <3>1, <1>2
    <3>3. Rank(b[i - m]) < Rank(b[j - m])
      BY <3>1, <3>2 DEF Program, Ordered
    <3> QED BY <3>1, <3>3
  <2>3. CASE i <= m /\ j > m
    <3>1. i \in 1 .. Len(a) /\ c[i] = a[i]
      BY <2>3, <1>2, <1>4
    <3>2. j - m \in 1 .. Len(b) /\ c[j] = b[j - m]
      BY <2>3, <1>2, <1>5
    <3>3. Rank(c[i]) < k /\ Rank(c[j]) >= k
      BY <3>1, <3>2 DEF StepsIn
    <3>4. Rank(c[i]) \in Int /\ Rank(c[j]) \in Int
      BY RankIsInt
    <3> QED BY <3>3, <3>4
  <2> QED BY <2>1, <2>2, <2>3
<1>9. WalletsAreSaved(c)
  <2> SUFFICES ASSUME NEW i \in 1 .. m + n, c[i] = "wallet"
               PROVE  /\ i + 3 \in 1 .. m + n
                      /\ c[i + 1] = "read_lines" /\ c[i + 2] = "save_env"
                      /\ c[i + 3] = "save_wallet"
    BY <1>3 DEF WalletsAreSaved
  <2>1. CASE i <= m
    <3>1. i \in 1 .. Len(a) /\ c[i] = a[i]
      BY <2>1, <1>2, <1>4
    <3>2. /\ i + 3 \in 1 .. m
          /\ a[i + 1] = "read_lines" /\ a[i + 2] = "save_env" /\ a[i + 3] = "save_wallet"
      <4>1. WalletsAreSaved(a) /\ a[i] = "wallet"
        BY <3>1 DEF Program
      <4> QED BY <4>1, <3>1, <1>2 DEF WalletsAreSaved
    <3>3. i + 3 \in 1 .. m
      BY <3>2
    <3>4. i + 1 \in 1 .. m /\ i + 2 \in 1 .. m /\ i + 3 \in 1 .. m + n
      BY <3>3
    <3>5. c[i + 1] = a[i + 1] /\ c[i + 2] = a[i + 2] /\ c[i + 3] = a[i + 3]
      BY <3>3, <3>4, <1>4
    <3> QED BY <3>2, <3>4, <3>5
  <2>2. CASE i > m
    <3>1. i - m \in 1 .. Len(b) /\ c[i] = b[i - m]
      BY <2>2, <1>2, <1>5
    <3>2. /\ (i - m) + 3 \in 1 .. n
          /\ b[(i - m) + 1] = "read_lines" /\ b[(i - m) + 2] = "save_env"
          /\ b[(i - m) + 3] = "save_wallet"
      <4>1. WalletsAreSaved(b) /\ b[i - m] = "wallet"
        BY <3>1 DEF Program
      <4> QED BY <4>1, <3>1, <1>2 DEF WalletsAreSaved
    <3>6. (i - m) + 3 \in 1 .. n
      BY <3>2
    <3>3. (i - m) + 1 \in 1 .. n /\ (i - m) + 2 \in 1 .. n
      BY <3>6, <2>2
    <3>4. /\ ((i - m) + 1) + m = i + 1 /\ ((i - m) + 2) + m = i + 2
          /\ ((i - m) + 3) + m = i + 3
      OBVIOUS
    <3>5. /\ c[((i - m) + 1) + m] = "read_lines" /\ c[((i - m) + 2) + m] = "save_env"
          /\ ((i - m) + 3) + m \in 1 .. m + n /\ c[((i - m) + 3) + m] = "save_wallet"
      BY <3>2, <3>3, <3>6, <1>6
    <3> QED BY <3>4, <3>5, Zenon
  <2> QED BY <2>1, <2>2
<1> QED BY <1>3, <1>7, <1>8, <1>9 DEF c, Program

LEMMA OneStep ==
  ASSUME NEW s \in Step, s # "wallet"
  PROVE  Program(<<s>>) /\ StepsIn(<<s>>) = {s}
<1>1. <<s>> \in Seq(Step) /\ Len(<<s>>) = 1 /\ <<s>>[1] = s
  OBVIOUS
<1>2. Ordered(<<s>>)
  BY <1>1 DEF Ordered
<1>3. WalletsAreSaved(<<s>>)
  <2>1. \A i \in 1 .. Len(<<s>>) : <<s>>[i] # "wallet"
    BY <1>1
  <2> QED BY <2>1 DEF WalletsAreSaved
<1>4. StepsIn(<<s>>) = {s}
  BY <1>1 DEF StepsIn
<1> QED BY <1>1, <1>2, <1>3, <1>4 DEF Program

LEMMA NoStep == Program(<<>>) /\ StepsIn(<<>>) = {}
  BY DEF Program, Ordered, WalletsAreSaved, StepsIn

\* The lists that the tools are made of.
LEMMA Blocks ==
  /\ Program(EnsureWallet) /\ StepsIn(EnsureWallet) = CreatesWallet
  /\ Program(Prepare) /\ StepsIn(Prepare) = {"parse", "prepare"}
  /\ Program(Inspect) /\ StepsIn(Inspect) = {"funding", "probe", "report"}
  /\ Program(<<"parse", "apply_profile">>)
  /\ StepsIn(<<"parse", "apply_profile">>) = {"parse", "apply_profile"}
<1>1. ASSUME NEW s \in Step, NEW t \in Step, s # "wallet", t # "wallet", Rank(s) < Rank(t)
      PROVE  Program(<<s, t>>) /\ StepsIn(<<s, t>>) = {s, t}
  <2>1. /\ <<s, t>> \in Seq(Step) /\ Len(<<s, t>>) = 2
        /\ <<s, t>>[1] = s /\ <<s, t>>[2] = t /\ 1 .. 2 = {1, 2}
    OBVIOUS
  <2>2. Ordered(<<s, t>>)
    BY <1>1, <2>1 DEF Ordered
  <2>3. WalletsAreSaved(<<s, t>>)
    BY <1>1, <2>1 DEF WalletsAreSaved
  <2>4. StepsIn(<<s, t>>) = {s, t}
    BY <2>1 DEF StepsIn
  <2> QED BY <2>1, <2>2, <2>3, <2>4 DEF Program
<1>2. /\ {"parse", "prepare", "apply_profile", "funding", "probe", "report"} \subseteq Step
      /\ CreatesWallet \subseteq Step
  BY DEF Step, NamedStep, CreatesWallet
<1>3. /\ Rank("parse") = 11 /\ Rank("prepare") = 12 /\ Rank("apply_profile") = 12
      /\ Rank("funding") = 18 /\ Rank("probe") = 19 /\ Rank("report") = 20
      /\ Rank("wallet") = 13 /\ Rank("read_lines") = 14 /\ Rank("save_env") = 15
      /\ Rank("save_wallet") = 16
  BY RankOf
<1>4. /\ Program(Prepare) /\ StepsIn(Prepare) = {"parse", "prepare"}
      /\ Program(<<"parse", "apply_profile">>)
      /\ StepsIn(<<"parse", "apply_profile">>) = {"parse", "apply_profile"}
  <2>1. Rank("parse") < Rank("prepare") /\ Rank("parse") < Rank("apply_profile")
    BY <1>3
  <2> QED BY <1>1, <1>2, <2>1 DEF Prepare
<1>5. Program(Inspect) /\ StepsIn(Inspect) = {"funding", "probe", "report"}
  <2> DEFINE c == Inspect
  <2>1. c = <<"funding", "probe", "report">>
    BY DEF Inspect
  <2>2. c \in Seq(Step)
    BY <1>2, <2>1
  <2>3. Len(c) = 3 /\ c[1] = "funding" /\ c[2] = "probe" /\ c[3] = "report"
    BY <2>1
  <2> HIDE DEF c
  <2>4. 1 .. 3 = {1, 2, 3}
    OBVIOUS
  <2>5. Rank(c[1]) < Rank(c[2]) /\ Rank(c[1]) < Rank(c[3]) /\ Rank(c[2]) < Rank(c[3])
    BY <2>3, <1>3
  <2>6. Ordered(c)
    BY <2>3, <2>5 DEF Ordered
  <2>7. \A i \in 1 .. Len(c) : c[i] # "wallet"
    BY <2>3, <2>4
  <2>8. StepsIn(c) = {"funding", "probe", "report"}
    BY <2>3, <2>4 DEF StepsIn
  <2> QED BY <2>2, <2>6, <2>7, <2>8 DEF Program, WalletsAreSaved, c
<1>6. Program(EnsureWallet) /\ StepsIn(EnsureWallet) = CreatesWallet
  <2> DEFINE c == EnsureWallet
  <2> DEFINE a == <<"wallet">>
  <2>0. a \in Seq(Step) /\ Len(a) = 1 /\ a[1] = "wallet"
    BY <1>2 DEF CreatesWallet
  <2>1. /\ SaveWallet \in Seq(Step) /\ Len(SaveWallet) = 3 /\ SaveWallet[1] = "read_lines"
        /\ SaveWallet[2] = "save_env" /\ SaveWallet[3] = "save_wallet"
    BY <1>2 DEF CreatesWallet, SaveWallet
  <2> HIDE DEF a
  <2>2. /\ a \o SaveWallet \in Seq(Step) /\ Len(a \o SaveWallet) = 4
        /\ \A i \in 1 .. 4 : (a \o SaveWallet)[i] = IF i <= 1 THEN a[i] ELSE SaveWallet[i - 1]
    <3>1. /\ a \o SaveWallet \in Seq(Step) /\ Len(a \o SaveWallet) = Len(a) + Len(SaveWallet)
          /\ \A i \in 1 .. Len(a) + Len(SaveWallet) :
               (a \o SaveWallet)[i] = IF i <= Len(a) THEN a[i] ELSE SaveWallet[i - Len(a)]
      BY <2>0, <2>1, ConcatProperties
    <3>2. Len(a) + Len(SaveWallet) = 4
      BY <2>0, <2>1
    <3> QED BY <3>1, <3>2, <2>0
  <2>9. c = a \o SaveWallet
    BY DEF a, EnsureWallet
  <2>3. /\ c \in Seq(Step) /\ Len(c) = 4
        /\ c[1] = "wallet" /\ c[2] = "read_lines" /\ c[3] = "save_env" /\ c[4] = "save_wallet"
    BY <2>0, <2>1, <2>2, <2>9
  <2> HIDE DEF c
  <2>4. 1 .. 4 = {1, 2, 3, 4}
    OBVIOUS
  <2>5. /\ Rank(c[1]) < Rank(c[2]) /\ Rank(c[1]) < Rank(c[3]) /\ Rank(c[1]) < Rank(c[4])
        /\ Rank(c[2]) < Rank(c[3]) /\ Rank(c[2]) < Rank(c[4]) /\ Rank(c[3]) < Rank(c[4])
    BY <2>3, <1>3
  <2>6. Ordered(c)
    <3>1. \A i, j \in {1, 2, 3, 4} : i < j => Rank(c[i]) < Rank(c[j])
      BY <2>5
    <3> QED BY <3>1, <2>3, <2>4 DEF Ordered
  <2>7. WalletsAreSaved(c)
    <3>1. \A i \in 1 .. Len(c) : c[i] = "wallet" => i = 1
      BY <2>3, <2>4
    <3>2. 1 + 1 = 2 /\ 1 + 2 = 3 /\ 1 + 3 = 4 /\ 4 \in 1 .. 4
      OBVIOUS
    <3> QED BY <3>1, <3>2, <2>3, Zenon DEF WalletsAreSaved
  <2>8. StepsIn(c) = CreatesWallet
    BY <2>3, <2>4 DEF StepsIn, CreatesWallet
  <2> QED BY <2>3, <2>6, <2>7, <2>8 DEF Program, c
<1> QED BY <1>4, <1>5, <1>6
-------------------------------------------------------------------------------
Whole(todo) ==
  LET S == StepsIn(todo)
  IN  /\ Program(todo)
      /\ S \cap (CreatesWallet \cup UsesKey \cup UsesFound \cup Saved) # {} => "wallet" \in S
      /\ S \cap UsesFound # {} => "funding" \in S
      /\ S \cap {"prepare", "apply_profile"} # {} => "parse" \in S
      /\ "drop_skill" \in S => {"copy_skill", "skill-runtime.json"} \subseteq S
      /\ "drop_plugin" \in S => "copy_plugin" \in S
      /\ "copy_plugin" \in S => ".mcp.json" \in S

Fresh(job) ==
  /\ job \in JobType /\ job.key = None /\ job.lines = None /\ job.found = None
  /\ Whole(job.todo)
  /\ "apply_profile" \in StepsIn(job.todo) => job.profile \in Profile

\* Steps are kept apart from files.
LEMMA NamedSteps == NamedStep \subseteq Step /\ CreatesWallet \subseteq NamedStep
  BY DEF Step, NamedStep, CreatesWallet

LEMMA FileIsNotNamed == File \cap NamedStep = {}
<1>1. \A h \in Host : h \notin NamedStep
  BY HostAssumption
<1> QED BY <1>1 DEF File, PackageFile, SkillTree, PluginTree, NamedStep

LEMMA OnboardSteps ==
  /\ Program(Onboard) /\ StepsIn(Onboard) = CreatesWallet \cup {"funding", "probe", "report"}
  /\ Program(Prepare \o Onboard)
  /\ StepsIn(Prepare \o Onboard)
       = {"parse", "prepare"} \cup CreatesWallet \cup {"funding", "probe", "report"}
<1>1. /\ \A s \in CreatesWallet : Rank(s) < 17 /\ Rank(s) >= 13
      /\ \A s \in {"funding", "probe", "report"} : Rank(s) >= 17
      /\ \A s \in {"parse", "prepare"} : Rank(s) < 13
  BY RankOf DEF CreatesWallet
<1>2. /\ Program(Onboard)
      /\ StepsIn(Onboard) = CreatesWallet \cup {"funding", "probe", "report"}
  BY <1>1, Blocks, Joined, 17 \in Int DEF Onboard
<1>3. \A s \in StepsIn(Onboard) : Rank(s) >= 13
  BY <1>1, <1>2, RankIsInt
<1>4. /\ Program(Prepare \o Onboard)
      /\ StepsIn(Prepare \o Onboard) = StepsIn(Prepare) \cup StepsIn(Onboard)
  BY <1>1, <1>2, <1>3, Blocks, Joined, 13 \in Int
<1> QED BY <1>2, <1>4, Blocks

\* The tools of the operator's shell write no installed file.
LEMMA ShellPrograms ==
  /\ Whole(EnsureWallet \o <<"print_wallet">>) /\ Whole(Prepare)
  /\ Whole(<<"parse", "apply_profile">>) /\ Whole(Onboard) /\ Whole(Prepare \o Onboard)
  /\ "apply_profile" \notin StepsIn(EnsureWallet \o <<"print_wallet">>)
  /\ "apply_profile" \notin StepsIn(Prepare) /\ "apply_profile" \notin StepsIn(Onboard)
  /\ "apply_profile" \notin StepsIn(Prepare \o Onboard)
  /\ StepsIn(EnsureWallet \o <<"print_wallet">>) \cap File = {}
  /\ StepsIn(Prepare) \cap File = {} /\ StepsIn(<<"parse", "apply_profile">>) \cap File = {}
  /\ StepsIn(Onboard) \cap File = {} /\ StepsIn(Prepare \o Onboard) \cap File = {}
<1> USE DEF CreatesWallet, UsesKey, UsesFound, Saved
<1>1. /\ Program(<<"print_wallet">>) /\ StepsIn(<<"print_wallet">>) = {"print_wallet"}
  BY OneStep DEF Step, NamedStep
<1>2. /\ \A s \in StepsIn(EnsureWallet) : Rank(s) < 17
      /\ \A s \in StepsIn(<<"print_wallet">>) : Rank(s) >= 17
  BY <1>1, Blocks, RankOf
<1>3. /\ Program(EnsureWallet \o <<"print_wallet">>)
      /\ StepsIn(EnsureWallet \o <<"print_wallet">>) = CreatesWallet \cup {"print_wallet"}
  BY <1>1, <1>2, Blocks, Joined, 17 \in Int
<1>4. Whole(EnsureWallet \o <<"print_wallet">>)
  BY <1>3 DEF Whole
<1>5. Whole(Prepare) /\ Whole(<<"parse", "apply_profile">>)
  BY Blocks DEF Whole
<1>6. Whole(Onboard) /\ Whole(Prepare \o Onboard)
  BY OnboardSteps DEF Whole
<1>7. \A f \in File : f \notin CreatesWallet \cup {"print_wallet", "parse", "prepare",
                                        "apply_profile", "funding", "probe", "report"}
  BY FileIsNotNamed DEF NamedStep
<1>8. /\ StepsIn(EnsureWallet \o <<"print_wallet">>) \cap File = {}
      /\ StepsIn(Prepare) \cap File = {} /\ StepsIn(<<"parse", "apply_profile">>) \cap File = {}
      /\ StepsIn(Onboard) \cap File = {} /\ StepsIn(Prepare \o Onboard) \cap File = {}
  BY <1>3, <1>7, Blocks, OnboardSteps
<1> QED BY <1>3, <1>4, <1>5, <1>6, <1>8, Blocks, OnboardSteps

\* A server's start, and the tools it offers.
LEMMA ServerPrograms ==
  /\ Whole(Start) /\ Whole(EnsureWallet \o <<"answer_funding">>)
  /\ Whole(Onboard \o <<"answer">>) /\ Whole(Prepare \o Onboard \o <<"preview">>)
  /\ Whole(<<"answer_funding">>)
  /\ "apply_profile" \notin StepsIn(Start) \cup StepsIn(EnsureWallet \o <<"answer_funding">>)
  /\ "apply_profile" \notin StepsIn(Onboard \o <<"answer">>)
  /\ "apply_profile" \notin StepsIn(Prepare \o Onboard \o <<"preview">>)
  /\ "apply_profile" \notin StepsIn(<<"answer_funding">>)
<1> USE DEF CreatesWallet, UsesKey, UsesFound, Saved
<1>1. ASSUME NEW s \in NamedStep, s # "wallet"
      PROVE  Program(<<s>>) /\ StepsIn(<<s>>) = {s}
  BY <1>1, OneStep, NamedSteps
<1>2. {"load", "serve", "answer", "preview", "answer_funding"} \subseteq NamedStep
  BY DEF NamedStep
<1>3. /\ Program(EnsureWallet \o <<"answer_funding">>)
      /\ StepsIn(EnsureWallet \o <<"answer_funding">>) = CreatesWallet \cup {"answer_funding"}
  <2>1. /\ \A s \in StepsIn(EnsureWallet) : Rank(s) < 17
        /\ \A s \in StepsIn(<<"answer_funding">>) : Rank(s) >= 17
    BY <1>1, <1>2, Blocks, RankOf
  <2> QED BY <1>1, <1>2, <2>1, Blocks, Joined, 17 \in Int
<1>4. /\ Program(EnsureWallet \o <<"load">>)
      /\ StepsIn(EnsureWallet \o <<"load">>) = CreatesWallet \cup {"load"}
  <2>1. /\ \A s \in StepsIn(EnsureWallet) : Rank(s) < 17
        /\ \A s \in StepsIn(<<"load">>) : Rank(s) >= 17
    BY <1>1, <1>2, Blocks, RankOf
  <2> QED BY <1>1, <1>2, <2>1, Blocks, Joined, 17 \in Int
<1>5. /\ Program(EnsureWallet \o <<"load">> \o Inspect)
      /\ StepsIn(EnsureWallet \o <<"load">> \o Inspect)
           = CreatesWallet \cup {"load", "funding", "probe", "report"}
  <2>1. /\ \A s \in StepsIn(EnsureWallet \o <<"load">>) : Rank(s) < 18
        /\ \A s \in StepsIn(Inspect) : Rank(s) >= 18
    BY <1>4, Blocks, RankOf
  <2>2. /\ Program(EnsureWallet \o <<"load">> \o Inspect)
        /\ StepsIn(EnsureWallet \o <<"load">> \o Inspect)
             = StepsIn(EnsureWallet \o <<"load">>) \cup StepsIn(Inspect)
    BY <1>4, <2>1, Blocks, Joined, 18 \in Int
  <2> QED BY <1>4, <2>2, Blocks
<1>6. /\ Program(Start)
      /\ StepsIn(Start) = CreatesWallet \cup {"load", "funding", "probe", "report", "serve"}
  <2>1. /\ \A s \in StepsIn(EnsureWallet \o <<"load">> \o Inspect) : Rank(s) < 21
        /\ \A s \in StepsIn(<<"serve">>) : Rank(s) >= 21
    BY <1>1, <1>2, <1>5, RankOf
  <2>2. /\ Program(Start)
        /\ StepsIn(Start)
             = StepsIn(EnsureWallet \o <<"load">> \o Inspect) \cup StepsIn(<<"serve">>)
    BY <1>1, <1>2, <1>5, <2>1, Joined, 21 \in Int DEF Start
  <2> QED BY <1>1, <1>2, <1>5, <2>2
<1>7. /\ Program(Onboard \o <<"answer">>)
      /\ StepsIn(Onboard \o <<"answer">>) = StepsIn(Onboard) \cup {"answer"}
  <2>1. /\ \A s \in StepsIn(Onboard) : Rank(s) < 21
        /\ \A s \in StepsIn(<<"answer">>) : Rank(s) >= 21
    BY <1>1, <1>2, OnboardSteps, RankOf
  <2> QED BY <1>1, <1>2, <2>1, OnboardSteps, Joined, 21 \in Int
<1>8. /\ Program(Prepare \o Onboard \o <<"preview">>)
      /\ StepsIn(Prepare \o Onboard \o <<"preview">>)
           = StepsIn(Prepare \o Onboard) \cup {"preview"}
  <2>1. /\ \A s \in StepsIn(Prepare \o Onboard) : Rank(s) < 21
        /\ \A s \in StepsIn(<<"preview">>) : Rank(s) >= 21
    BY <1>1, <1>2, OnboardSteps, RankOf
  <2> QED BY <1>1, <1>2, <2>1, OnboardSteps, Joined, 21 \in Int
<1>9. Whole(EnsureWallet \o <<"answer_funding">>) /\ Whole(<<"answer_funding">>)
  BY <1>1, <1>2, <1>3 DEF Whole
<1>10. Whole(Start)
  BY <1>6 DEF Whole
<1>11. Whole(Onboard \o <<"answer">>) /\ Whole(Prepare \o Onboard \o <<"preview">>)
  BY <1>7, <1>8, OnboardSteps DEF Whole
<1>12. /\ "apply_profile" \notin StepsIn(Onboard)
       /\ "apply_profile" \notin StepsIn(Prepare \o Onboard)
  BY OnboardSteps
<1>13. "apply_profile" \notin StepsIn(<<"answer_funding">>)
  BY <1>1, <1>2
<1> QED BY <1>3, <1>6, <1>7, <1>8, <1>9, <1>10, <1>11, <1>12, <1>13

\* The parts of an installation.
LEMMA InstallSteps ==
  /\ Program(SkillSteps) /\ StepsIn(SkillSteps) = {"drop_skill", "copy_skill", "skill-runtime.json"}
  /\ Program(PluginSteps)
  /\ StepsIn(PluginSteps) = {"drop_plugin", "copy_plugin", "marketplace.json", ".mcp.json"}
  /\ Program(ConnectorSteps) /\ StepsIn(ConnectorSteps) = {"connector"}
<1>1. {"drop_skill", "copy_skill", "skill-runtime.json", "drop_plugin", "copy_plugin",
       "marketplace.json", ".mcp.json", "connector"} \subseteq Step
  BY DEF Step, NamedStep, File, PackageFile, SkillTree, PluginTree
<1>2. /\ Rank("drop_skill") = 1 /\ Rank("copy_skill") = 2 /\ Rank("skill-runtime.json") = 3
      /\ Rank("drop_plugin") = 4 /\ Rank("copy_plugin") = 5 /\ Rank("marketplace.json") = 6
      /\ Rank(".mcp.json") = 7 /\ Rank("connector") = 8
  BY RankOf
<1>3. /\ Program(SkillSteps)
      /\ StepsIn(SkillSteps) = {"drop_skill", "copy_skill", "skill-runtime.json"}
  <2> DEFINE c == SkillSteps
  <2>1. c = <<"drop_skill", "copy_skill", "skill-runtime.json">>
    BY DEF SkillSteps
  <2>2. c \in Seq(Step)
    BY <1>1, <2>1
  <2>3. Len(c) = 3 /\ c[1] = "drop_skill" /\ c[2] = "copy_skill" /\ c[3] = "skill-runtime.json"
    BY <2>1
  <2> HIDE DEF c
  <2>4. 1 .. 3 = {1, 2, 3}
    OBVIOUS
  <2>5. Rank(c[1]) < Rank(c[2]) /\ Rank(c[1]) < Rank(c[3]) /\ Rank(c[2]) < Rank(c[3])
    BY <2>3, <1>2
  <2>6. Ordered(c)
    BY <2>3, <2>5 DEF Ordered
  <2>7. \A i \in 1 .. Len(c) : c[i] # "wallet"
    BY <2>3, <2>4
  <2>8. StepsIn(c) = {"drop_skill", "copy_skill", "skill-runtime.json"}
    BY <2>3, <2>4 DEF StepsIn
  <2> QED BY <2>2, <2>6, <2>7, <2>8 DEF Program, WalletsAreSaved, c
<1>4. /\ Program(PluginSteps)
      /\ StepsIn(PluginSteps) = {"drop_plugin", "copy_plugin", "marketplace.json", ".mcp.json"}
  <2> DEFINE c == PluginSteps
  <2>1. c = <<"drop_plugin", "copy_plugin", "marketplace.json", ".mcp.json">>
    BY DEF PluginSteps
  <2>2. c \in Seq(Step)
    BY <1>1, <2>1
  <2>3. /\ Len(c) = 4 /\ c[1] = "drop_plugin" /\ c[2] = "copy_plugin"
        /\ c[3] = "marketplace.json" /\ c[4] = ".mcp.json"
    BY <2>1
  <2> HIDE DEF c
  <2>4. 1 .. 4 = {1, 2, 3, 4}
    OBVIOUS
  <2>5. /\ Rank(c[1]) < Rank(c[2]) /\ Rank(c[1]) < Rank(c[3]) /\ Rank(c[1]) < Rank(c[4])
        /\ Rank(c[2]) < Rank(c[3]) /\ Rank(c[2]) < Rank(c[4]) /\ Rank(c[3]) < Rank(c[4])
    BY <2>3, <1>2
  <2>6. Ordered(c)
    <3>1. \A i, j \in {1, 2, 3, 4} : i < j => Rank(c[i]) < Rank(c[j])
      BY <2>5
    <3> QED BY <3>1, <2>3, <2>4 DEF Ordered
  <2>7. \A i \in 1 .. Len(c) : c[i] # "wallet"
    BY <2>3, <2>4
  <2>8. StepsIn(c) = {"drop_plugin", "copy_plugin", "marketplace.json", ".mcp.json"}
    BY <2>3, <2>4 DEF StepsIn
  <2> QED BY <2>2, <2>6, <2>7, <2>8 DEF Program, WalletsAreSaved, c
<1>5. Program(ConnectorSteps) /\ StepsIn(ConnectorSteps) = {"connector"}
  BY <1>1, OneStep DEF ConnectorSteps
<1> QED BY <1>3, <1>4, <1>5

\* Every target has the writers of the files it plans, each tree dropped before.
LEMMA TargetSteps ==
  ASSUME NEW target \in Agent
  PROVE  /\ Program(StepsOf(target)) /\ StepsIn(StepsOf(target)) \cap NamedStep
              \subseteq {"drop_skill", "copy_skill", "drop_plugin", "copy_plugin"}
         /\ \A s \in StepsIn(StepsOf(target)) : Rank(s) < 10
         /\ LET S == StepsIn(StepsOf(target))
            IN  /\ "drop_skill" \in S => {"copy_skill", "skill-runtime.json"} \subseteq S
                /\ "drop_plugin" \in S => "copy_plugin" \in S
                /\ "copy_plugin" \in S => ".mcp.json" \in S
                /\ \A f \in PlanOf(target) : WriterOf(f) \in S
         /\ PlanOf(target) \subseteq File
         /\ "skill-runtime.json" \in PlanOf(target)
              => "aimipay_skill_runner.py" \in PlanOf(target)
<1>1. \A h \in Host : /\ h \notin NamedStep /\ h \notin PackageFile /\ h # Skill /\ h # "wallet"
                      /\ h \in Step /\ h \in File /\ Rank(h) = 9
  BY HostAssumption, RankOf DEF NamedStep, Step, File
<1>2. \A h \in Host : Program(<<h>>) /\ StepsIn(<<h>>) = {h}
  BY <1>1, OneStep
<1>3. PackageFile = {"SKILL.md", "aimipay_skill_runner.py", "skill-runtime.json",
                     "plugin.json", ".mcp.json", "marketplace.json", "connector"}
  BY DEF PackageFile, SkillTree, PluginTree
<1>4. /\ Rank("drop_skill") = 1 /\ Rank("copy_skill") = 2 /\ Rank("skill-runtime.json") = 3
      /\ Rank("drop_plugin") = 4 /\ Rank("copy_plugin") = 5 /\ Rank("marketplace.json") = 6
      /\ Rank(".mcp.json") = 7 /\ Rank("connector") = 8
  BY RankOf
<1>5. CASE target = Skill
  <2>1. StepsOf(target) = SkillSteps /\ PlanOf(target) = SkillTree \cup {"skill-runtime.json"}
    BY <1>5 DEF StepsOf, PlanOf, Skill
  <2>2. /\ WriterOf("SKILL.md") = "copy_skill" /\ WriterOf("aimipay_skill_runner.py") = "copy_skill"
        /\ WriterOf("skill-runtime.json") = "skill-runtime.json"
    BY DEF WriterOf, SkillTree
  <2>3. PlanOf(target) = {"SKILL.md", "aimipay_skill_runner.py", "skill-runtime.json"}
    BY <2>1 DEF SkillTree
  <2> QED BY <2>1, <2>2, <2>3, <1>3, <1>4, InstallSteps DEF NamedStep, File
<1>6. CASE target = "codex" /\ target # Skill
  <2>1. /\ StepsOf(target) = SkillSteps \o PluginSteps \o ConnectorSteps \o <<"codex">>
        /\ PlanOf(target) = File \ (Host \ {"codex"}) /\ "codex" \in Host
    BY <1>6 DEF StepsOf, PlanOf, Agent
  <2>2. /\ Program(SkillSteps \o PluginSteps)
        /\ StepsIn(SkillSteps \o PluginSteps) = StepsIn(SkillSteps) \cup StepsIn(PluginSteps)
    <3>1. /\ \A s \in StepsIn(SkillSteps) : Rank(s) < 4
          /\ \A s \in StepsIn(PluginSteps) : Rank(s) >= 4
      BY <1>4, InstallSteps
    <3> QED BY <3>1, InstallSteps, Joined, 4 \in Int
  <2>3. /\ Program(SkillSteps \o PluginSteps \o ConnectorSteps)
        /\ StepsIn(SkillSteps \o PluginSteps \o ConnectorSteps)
             = StepsIn(SkillSteps \o PluginSteps) \cup {"connector"}
    <3>1. /\ \A s \in StepsIn(SkillSteps \o PluginSteps) : Rank(s) < 8
          /\ \A s \in StepsIn(ConnectorSteps) : Rank(s) >= 8
      BY <2>2, <1>4, InstallSteps
    <3> QED BY <2>2, <3>1, InstallSteps, Joined, 8 \in Int
  <2>4. /\ Program(StepsOf(target))
        /\ StepsIn(StepsOf(target))
             = StepsIn(SkillSteps \o PluginSteps \o ConnectorSteps) \cup {"codex"}
    <3>1. \A s \in StepsIn(SkillSteps \o PluginSteps \o ConnectorSteps) : Rank(s) < 9
      BY <2>2, <2>3, <1>4, InstallSteps
    <3>2. \A s \in StepsIn(<<"codex">>) : Rank(s) >= 9
      BY <1>1, <1>2, <2>1
    <3>3. /\ Program(<<"codex">>) /\ StepsIn(<<"codex">>) = {"codex"}
      BY <1>2, <2>1
    <3> DEFINE a == SkillSteps \o PluginSteps \o ConnectorSteps
               b == <<"codex">>
    <3>4. /\ Program(a) /\ Program(b) /\ \A s \in StepsIn(a) : Rank(s) < 9
          /\ \A s \in StepsIn(b) : Rank(s) >= 9
      BY <2>3, <3>1, <3>2, <3>3
    <3>5. StepsOf(target) = a \o b
      BY <2>1
    <3> HIDE DEF a, b
    <3>6. Program(a \o b) /\ StepsIn(a \o b) = StepsIn(a) \cup StepsIn(b)
      BY <3>4, Joined, 9 \in Int
    <3> QED BY <3>3, <3>5, <3>6 DEF a, b
  <2>5. StepsIn(StepsOf(target))
          = {"drop_skill", "copy_skill", "skill-runtime.json", "drop_plugin", "copy_plugin",
             "marketplace.json", ".mcp.json", "connector", "codex"}
    BY <2>2, <2>3, <2>4, InstallSteps
  <2>6. PlanOf(target) = PackageFile \cup {"codex"}
    BY <2>1, <1>1 DEF File
  <2>7. \A f \in PlanOf(target) : WriterOf(f) \in StepsIn(StepsOf(target))
    BY <2>5, <2>6, <1>3 DEF WriterOf, SkillTree
  <2>8. \A s \in StepsIn(StepsOf(target)) : Rank(s) < 10
    BY <2>5, <2>1, <1>1, <1>4
  <2> QED BY <2>1, <2>4, <2>5, <2>6, <2>7, <2>8, <1>1, <1>3 DEF NamedStep, File
<1>7. CASE target # "codex" /\ target # Skill
  <2>1. /\ StepsOf(target) = ConnectorSteps \o <<target>> /\ PlanOf(target) = {"connector", target}
        /\ target \in Host
    BY <1>7 DEF StepsOf, PlanOf, Agent
  <2>2. /\ Program(StepsOf(target)) /\ StepsIn(StepsOf(target)) = {"connector", target}
    <3>1. /\ \A s \in StepsIn(ConnectorSteps) : Rank(s) < 9
          /\ \A s \in StepsIn(<<target>>) : Rank(s) >= 9
      BY <2>1, <1>1, <1>2, <1>4, InstallSteps
    <3>2. StepsIn(StepsOf(target)) = StepsIn(ConnectorSteps) \cup StepsIn(<<target>>)
      BY <2>1, <3>1, <1>2, InstallSteps, Joined, 9 \in Int
    <3>3. Program(StepsOf(target))
      BY <2>1, <3>1, <1>2, InstallSteps, Joined, 9 \in Int
    <3> QED BY <2>1, <3>2, <3>3, <1>2, InstallSteps
  <2>3. WriterOf("connector") = "connector" /\ WriterOf(target) = target
    BY <2>1, <1>1, <1>3 DEF WriterOf, SkillTree
  <2>4. \A s \in StepsIn(StepsOf(target)) : Rank(s) < 10
    BY <2>1, <2>2, <1>1, <1>4
  <2>5. /\ target \notin {"drop_skill", "copy_skill", "drop_plugin", "copy_plugin",
                          "skill-runtime.json"}
        /\ target \notin NamedStep /\ "connector" \notin NamedStep
        /\ target \in File /\ "connector" \in File
    BY <2>1, <1>1, <1>3 DEF NamedStep, File
  <2> QED BY <2>1, <2>2, <2>3, <2>4, <2>5
<1> QED BY <1>5, <1>6, <1>7

\* The installer, with the onboarding or without it.
LEMMA InstallPrograms ==
  ASSUME NEW target \in Agent, NEW steps, steps \in {<<>>, Prepare \o Onboard},
         NEW todo, todo = StepsOf(target) \o <<"verify">> \o steps \o <<"post_check">>
  PROVE  /\ Whole(todo) /\ "apply_profile" \notin StepsIn(todo)
         /\ \A f \in PlanOf(target) : WriterOf(f) \in StepsIn(todo)
<1>1. /\ Program(<<"verify">>) /\ StepsIn(<<"verify">>) = {"verify"}
      /\ Program(<<"post_check">>) /\ StepsIn(<<"post_check">>) = {"post_check"}
  BY OneStep DEF Step, NamedStep
<1>2. Rank("verify") = 10 /\ Rank("post_check") = 21
  BY RankOf
<1>3. /\ Program(StepsOf(target) \o <<"verify">>)
      /\ StepsIn(StepsOf(target) \o <<"verify">>) = StepsIn(StepsOf(target)) \cup {"verify"}
  <2>1. \A s \in StepsIn(<<"verify">>) : Rank(s) >= 10
    BY <1>1, <1>2
  <2> QED BY <1>1, <2>1, TargetSteps, Joined, 10 \in Int
<1>4. /\ Program(steps)
      /\ StepsIn(steps) \in {{}, {"parse", "prepare"} \cup CreatesWallet
                                   \cup {"funding", "probe", "report"}}
  BY NoStep, OnboardSteps
<1>5. \A s \in StepsIn(steps) : Rank(s) >= 11 /\ Rank(s) < 21
  <2>1. /\ Rank("parse") = 11 /\ Rank("prepare") = 12 /\ Rank("wallet") = 13
        /\ Rank("read_lines") = 14 /\ Rank("save_env") = 15 /\ Rank("save_wallet") = 16
        /\ Rank("funding") = 18 /\ Rank("probe") = 19 /\ Rank("report") = 20
    BY RankOf
  <2>2. StepsIn(steps) \subseteq {"parse", "prepare", "wallet", "read_lines", "save_env",
                                "save_wallet", "funding", "probe", "report"}
    BY <1>4 DEF CreatesWallet
  <2> QED BY <2>1, <2>2
<1>6. /\ Program(StepsOf(target) \o <<"verify">> \o steps)
      /\ StepsIn(StepsOf(target) \o <<"verify">> \o steps)
           = StepsIn(StepsOf(target)) \cup {"verify"} \cup StepsIn(steps)
  <2>1. \A s \in StepsIn(StepsOf(target) \o <<"verify">>) : Rank(s) < 11
    BY <1>2, <1>3, TargetSteps, RankIsInt
  <2> QED BY <1>3, <1>4, <1>5, <2>1, Joined, 11 \in Int
<1>7. /\ Program(todo)
      /\ StepsIn(todo) = StepsIn(StepsOf(target)) \cup {"verify"} \cup StepsIn(steps)
                           \cup {"post_check"}
  <2>1. \A s \in StepsIn(StepsOf(target) \o <<"verify">> \o steps) : Rank(s) < 21
    BY <1>2, <1>5, <1>6, TargetSteps, RankIsInt
  <2>2. \A s \in StepsIn(<<"post_check">>) : Rank(s) >= 21
    BY <1>1, <1>2
  <2> QED BY <1>1, <1>6, <2>1, <2>2, Joined, 21 \in Int
<1>8. \A s \in StepsIn(StepsOf(target)) :
        s \in NamedStep => s \in {"drop_skill", "copy_skill", "drop_plugin", "copy_plugin"}
  BY TargetSteps
<1>9. {"wallet", "funding", "parse", "apply_profile", "prepare"} \cup CreatesWallet \cup UsesKey
        \cup UsesFound \cup Saved \subseteq NamedStep
  BY DEF NamedStep, CreatesWallet, UsesKey, UsesFound, Saved
<1>10. "apply_profile" \notin StepsIn(todo)
  BY <1>4, <1>7, <1>8, <1>9 DEF CreatesWallet
<1>11. \A s \in CreatesWallet \cup UsesKey \cup UsesFound \cup Saved \cup {"prepare"} :
         s \in StepsIn(todo) => s \in StepsIn(steps)
  BY <1>7, <1>8, <1>9 DEF CreatesWallet, UsesKey, UsesFound, Saved
<1>12. StepsIn(steps) # {} => {"wallet", "funding", "parse"} \subseteq StepsIn(todo)
  BY <1>4, <1>7 DEF CreatesWallet
<1>13. {"drop_skill", "drop_plugin", "copy_plugin"} \cap StepsIn(todo)
         \subseteq StepsIn(StepsOf(target))
  BY <1>4, <1>7 DEF CreatesWallet
<1>14. Whole(todo)
  <2> DEFINE S == StepsIn(todo)
  <2>1. /\ S \cap (CreatesWallet \cup UsesKey \cup UsesFound \cup Saved) # {} => "wallet" \in S
        /\ S \cap UsesFound # {} => "funding" \in S
        /\ S \cap {"prepare", "apply_profile"} # {} => "parse" \in S
    BY <1>10, <1>11, <1>12
  <2>2. /\ "drop_skill" \in S => {"copy_skill", "skill-runtime.json"} \subseteq S
        /\ "drop_plugin" \in S => "copy_plugin" \in S
        /\ "copy_plugin" \in S => ".mcp.json" \in S
    BY <1>7, <1>13, TargetSteps
  <2> QED BY <1>7, <2>1, <2>2 DEF Whole
<1> QED BY <1>7, <1>10, <1>14, TargetSteps
-------------------------------------------------------------------------------
SameLocals(new, old) ==
  /\ new.force = old.force /\ new.url = old.url /\ new.profile = old.profile
  /\ new.lines = old.lines /\ new.key = old.key /\ new.found = old.found

Goes(p, job, S) ==
  /\ jobs' \in [Process -> JobType]
  /\ \A q \in Process \ {p} : jobs'[q] = jobs[q]
  /\ Program(jobs'[p].todo) /\ StepsIn(jobs'[p].todo) = S
  /\ SameLocals(jobs'[p], job) \/ (S = {} /\ SameLocals(jobs'[p], NoJob))

LEMMA NoJobIsJob == NoJob \in JobType /\ NoJob.todo = <<>>
  BY DEF NoJob, JobType

\* A job that goes on has the steps that are left, and its locals; one that ends has none.
LEMMA JobGoesOn ==
  ASSUME NEW p \in Process, NEW job \in JobType, NEW left, jobs \in [Process -> JobType],
         jobs' = [jobs EXCEPT ![p] = IF left = <<>> THEN NoJob ELSE [job EXCEPT !.todo = left]],
         Program(left)
  PROVE  Goes(p, job, StepsIn(left))
<1>1. left \in Seq(Step)
  BY DEF Program
<1>2. [job EXCEPT !.todo = left] \in JobType
  BY <1>1 DEF JobType
<1>3. jobs' \in [Process -> JobType] /\ \A q \in Process \ {p} : jobs'[q] = jobs[q]
  BY <1>2, NoJobIsJob
<1>4. CASE left = <<>>
  <2>1. jobs'[p] = NoJob
    BY <1>4
  <2> QED BY <2>1, <1>3, <1>4, NoStep, NoJobIsJob DEF Goes, SameLocals
<1>5. CASE left # <<>>
  <2>1. jobs'[p] = [job EXCEPT !.todo = left]
    BY <1>5
  <2>2. jobs'[p].todo = left /\ SameLocals(jobs'[p], job)
    BY <2>1 DEF SameLocals, JobType
  <2> QED BY <2>2, <1>3 DEF Goes
<1> QED BY <1>4, <1>5

\* The step that is taken is the lowest of those left, and is left no more.
LEMMA StepTaken ==
  ASSUME NEW p \in Process, NEW step, NEW job \in JobType, jobs \in [Process -> JobType],
         Program(jobs[p].todo), job.todo = jobs[p].todo, At(p, step), Then(p, job)
  PROVE  /\ step \in Left(p) /\ Goes(p, job, Left(p) \ {step})
         /\ \A s \in Left(p) \ {step} : Rank(s) > Rank(step)
<1> DEFINE left == SubSeq(job.todo, 2, Len(job.todo))
<1>1. job.todo # <<>> /\ Head(job.todo) = step /\ Program(job.todo)
  BY DEF At, Working
<1>2. jobs' = [jobs EXCEPT ![p] = IF left = <<>> THEN NoJob ELSE [job EXCEPT !.todo = left]]
  BY DEF Then, ThenSkip
<1> HIDE DEF left
<1>3. left = SubSeq(job.todo, 2, Len(job.todo))
  BY DEF left
<1>4. /\ Program(left) /\ step \in StepsIn(job.todo)
      /\ StepsIn(left) = StepsIn(job.todo) \ {step}
      /\ \A s \in StepsIn(left) : Rank(s) > Rank(step)
  BY <1>1, <1>3, Onward
<1>5. Goes(p, job, StepsIn(left))
  BY <1>2, <1>4, JobGoesOn
<1> QED BY <1>4, <1>5 DEF Left

LEMMA WalletSkipped ==
  ASSUME NEW p \in Process, NEW job \in JobType, jobs \in [Process -> JobType],
         Program(jobs[p].todo), job.todo = jobs[p].todo, At(p, "wallet"),
         ThenSkip(p, Len(SaveWallet), job)
  PROVE  /\ CreatesWallet \subseteq Left(p) /\ Goes(p, job, Left(p) \ CreatesWallet)
         /\ \A s \in Left(p) \ CreatesWallet : Rank(s) > 16
<1> DEFINE left == SubSeq(job.todo, Len(SaveWallet) + 2, Len(job.todo))
<1>1. job.todo # <<>> /\ Head(job.todo) = "wallet" /\ Program(job.todo)
  BY DEF At, Working
<1>2. jobs' = [jobs EXCEPT ![p] = IF left = <<>> THEN NoJob ELSE [job EXCEPT !.todo = left]]
  BY DEF ThenSkip
<1> HIDE DEF left
<1>3. left = SubSeq(job.todo, Len(SaveWallet) + 2, Len(job.todo))
  BY DEF left
<1>4. /\ Program(left) /\ "wallet" \in StepsIn(job.todo)
      /\ StepsIn(left) = StepsIn(job.todo) \ CreatesWallet
      /\ \A s \in StepsIn(left) : Rank(s) > 16
  BY <1>1, <1>3, SkipsWallet
<1>5. Goes(p, job, StepsIn(left))
  BY <1>2, <1>4, JobGoesOn
<1>6. CreatesWallet \subseteq StepsIn(job.todo)
  BY <1>1, <1>4, WalletFollowed DEF CreatesWallet
<1> QED BY <1>4, <1>5, <1>6 DEF Left

LEMMA Stopped ==
  ASSUME NEW p \in Process, jobs \in [Process -> JobType], jobs' = [jobs EXCEPT ![p] = NoJob]
  PROVE  Goes(p, NoJob, {})
  BY NoJobIsJob, NoStep DEF Goes, SameLocals

\* The jobs that Begin is called with.
LEMMA FreshJob ==
  ASSUME NEW todo, Whole(todo), NEW force \in BOOLEAN, NEW url \in Url \cup {None},
         NEW profile \in Profile \cup {None},
         "apply_profile" \in StepsIn(todo) => profile \in Profile
  PROVE  /\ Fresh([Job(todo) EXCEPT !.force = force])
              \/ "apply_profile" \in StepsIn(todo)
         /\ Fresh([Job(todo) EXCEPT !.url = url, !.profile = profile])
         /\ Fresh([Job(todo) EXCEPT !.profile = profile])
         /\ Fresh([Job(todo) EXCEPT !.url = url]) \/ "apply_profile" \in StepsIn(todo)
         /\ Fresh(Job(todo)) \/ "apply_profile" \in StepsIn(todo)
<1>1. todo \in Seq(Step)
  BY DEF Whole, Program
<1>2. ASSUME NEW job, job \in JobType, job.todo = todo, job.key = None, job.lines = None,
             job.found = None, "apply_profile" \in StepsIn(todo) => job.profile \in Profile
      PROVE  Fresh(job)
  BY <1>2 DEF Fresh
<1>3. /\ Job(todo) \in JobType /\ Job(todo).todo = todo /\ Job(todo).key = None
      /\ Job(todo).lines = None /\ Job(todo).found = None
  BY <1>1 DEF Job, NoJob, JobType
<1>4. ASSUME "apply_profile" \notin StepsIn(todo)
      PROVE  /\ Fresh(Job(todo)) /\ Fresh([Job(todo) EXCEPT !.force = force])
             /\ Fresh([Job(todo) EXCEPT !.url = url])
  <2>1. Fresh(Job(todo))
    BY <1>2, <1>3, <1>4
  <2>2. Fresh([Job(todo) EXCEPT !.force = force])
    <3> DEFINE job == [Job(todo) EXCEPT !.force = force]
    <3>1. /\ job \in JobType /\ job.todo = todo /\ job.key = None /\ job.lines = None
          /\ job.found = None
      BY <1>3 DEF JobType
    <3> HIDE DEF job
    <3>2. Fresh(job)
      BY <3>1, <1>2, <1>4
    <3> QED BY <3>2 DEF job
  <2>3. Fresh([Job(todo) EXCEPT !.url = url])
    <3> DEFINE job == [Job(todo) EXCEPT !.url = url]
    <3>1. /\ job \in JobType /\ job.todo = todo /\ job.key = None /\ job.lines = None
          /\ job.found = None
      BY <1>3 DEF JobType
    <3> HIDE DEF job
    <3>2. Fresh(job)
      BY <3>1, <1>2, <1>4
    <3> QED BY <3>2 DEF job
  <2> QED BY <2>1, <2>2, <2>3
<1>5. Fresh([Job(todo) EXCEPT !.url = url, !.profile = profile])
  <2> DEFINE job == [Job(todo) EXCEPT !.url = url, !.profile = profile]
  <2>1. /\ job \in JobType /\ job.todo = todo /\ job.key = None /\ job.lines = None
        /\ job.found = None /\ job.profile = profile
    BY <1>3 DEF JobType
  <2> QED BY <2>1, <1>2
<1>6. Fresh([Job(todo) EXCEPT !.profile = profile])
  <2> DEFINE job == [Job(todo) EXCEPT !.profile = profile]
  <2>1. /\ job \in JobType /\ job.todo = todo /\ job.key = None /\ job.lines = None
        /\ job.found = None /\ job.profile = profile
    BY <1>3 DEF JobType
  <2> QED BY <2>1, <1>2
<1> QED BY <1>4, <1>5, <1>6

\* A tool is started with no locals but its arguments, and with all of its steps.
Begins(p, job) == Fresh(job) /\ Begin(p, job)

LEMMA OperatorBegins ==
  ASSUME ShellTool
  PROVE  \E job : Begins(Operator, job) /\ StepsIn(job.todo) \cap File = {}
<1>1. ASSUME NEW force \in BOOLEAN, WalletSetup(Operator, force)
      PROVE  \E job : Begins(Operator, job) /\ StepsIn(job.todo) \cap File = {}
  <2>1. Fresh([Job(EnsureWallet \o <<"print_wallet">>) EXCEPT !.force = force])
    BY ShellPrograms, FreshJob
  <2>2. StepsIn(EnsureWallet \o <<"print_wallet">>) \cap File = {}
    BY ShellPrograms
  <2>3. [Job(EnsureWallet \o <<"print_wallet">>) EXCEPT !.force = force].todo
          = EnsureWallet \o <<"print_wallet">>
    BY DEF Job, NoJob
  <2> QED BY <2>2, <2>3, <1>1, <2>1 DEF WalletSetup, Begins
<1>2. ASSUME NEW force \in BOOLEAN, AgentOnboarding(Operator, force)
      PROVE  \E job : Begins(Operator, job) /\ StepsIn(job.todo) \cap File = {}
  <2>1. Fresh([Job(Onboard) EXCEPT !.force = force])
    BY ShellPrograms, FreshJob
  <2>2. StepsIn(Onboard) \cap File = {}
    BY ShellPrograms
  <2>3. [Job(Onboard) EXCEPT !.force = force].todo = Onboard
    BY DEF Job, NoJob
  <2> QED BY <2>2, <2>3, <1>2, <2>1 DEF AgentOnboarding, Begins
<1>3. ASSUME NEW url \in Url \cup {None}, NEW profile \in Profile \cup {None},
             BuyerInstallEnv(Operator, url, profile)
      PROVE  \E job : Begins(Operator, job) /\ StepsIn(job.todo) \cap File = {}
  <2>1. Fresh([Job(Prepare) EXCEPT !.url = url, !.profile = profile])
    BY ShellPrograms, FreshJob
  <2>2. StepsIn(Prepare) \cap File = {}
    BY ShellPrograms
  <2>3. [Job(Prepare) EXCEPT !.url = url, !.profile = profile].todo = Prepare
    BY DEF Job, NoJob
  <2> QED BY <2>2, <2>3, <1>3, <2>1 DEF BuyerInstallEnv, Begins
<1>4. ASSUME NEW profile \in Profile, NetworkProfileSetup(Operator, profile)
      PROVE  \E job : Begins(Operator, job) /\ StepsIn(job.todo) \cap File = {}
  <2>1. Fresh([Job(<<"parse", "apply_profile">>) EXCEPT !.profile = profile])
    BY ShellPrograms, FreshJob
  <2>2. StepsIn(<<"parse", "apply_profile">>) \cap File = {}
    BY ShellPrograms
  <2>3. [Job(<<"parse", "apply_profile">>) EXCEPT !.profile = profile].todo
          = <<"parse", "apply_profile">>
    BY DEF Job, NoJob
  <2> QED BY <2>2, <2>3, <1>4, <2>1 DEF NetworkProfileSetup, Begins
<1>5. ASSUME NEW url \in Url, NEW profile \in Profile \cup {None},
             UpdateMerchantUrl(Operator, url, profile)
      PROVE  \E job : Begins(Operator, job) /\ StepsIn(job.todo) \cap File = {}
  <2>1. Fresh([Job(Prepare \o Onboard) EXCEPT !.url = url, !.profile = profile])
    BY ShellPrograms, FreshJob
  <2>2. StepsIn(Prepare \o Onboard) \cap File = {}
    BY ShellPrograms
  <2>3. [Job(Prepare \o Onboard) EXCEPT !.url = url, !.profile = profile].todo = Prepare \o Onboard
    BY DEF Job, NoJob
  <2> QED BY <2>2, <2>3, <1>5, <2>1 DEF UpdateMerchantUrl, Begins
<1> QED BY <1>1, <1>2, <1>3, <1>4, <1>5 DEF ShellTool

LEMMA InstallerBegins ==
  ASSUME NEW target \in Agent, NEW url \in Url \cup {None}, NEW onboarding \in BOOLEAN, env \in Env,
         InstallAgentPackage(target, url, onboarding)
  PROVE  \E job : /\ Begins(Operator, job) /\ InstallValues(url) \in Conf
                  /\ install' = [conf |-> InstallValues(url), plan |-> PlanOf(target), ok |-> TRUE]
                  /\ \A f \in PlanOf(target) : WriterOf(f) \in StepsIn(job.todo)
<1> DEFINE steps == IF onboarding THEN Prepare \o Onboard ELSE <<>>
           todo == StepsOf(target) \o <<"verify">> \o steps \o <<"post_check">>
           job == [Job(todo) EXCEPT !.url = InstallValues(url).url]
<1>1. InstallValues(url) \in Conf
  BY SetupAssumption DEF InstallValues, Conf, Env
<1>2. Begin(Operator, job)
      /\ install' = [conf |-> InstallValues(url), plan |-> PlanOf(target), ok |-> TRUE]
  BY DEF InstallAgentPackage
<1>3. steps \in {<<>>, Prepare \o Onboard}
  OBVIOUS
<1> HIDE DEF steps
<1>4. /\ Whole(todo) /\ "apply_profile" \notin StepsIn(todo)
      /\ \A f \in PlanOf(target) : WriterOf(f) \in StepsIn(todo)
  BY <1>3, InstallPrograms
<1> HIDE DEF todo
<1>5. InstallValues(url).url \in Url \cup {None}
  BY <1>1 DEF Conf
<1>6. Fresh(job)
  BY <1>4, <1>5, FreshJob
<1>7. job.todo = todo
  BY DEF Job, NoJob
<1> QED BY <1>1, <1>2, <1>4, <1>6, <1>7 DEF Begins

LEMMA AgentBegins ==
  ASSUME NEW a \in Agent,
         \/ Begin(a, Job(Start))
         \/ \E force \in BOOLEAN : CreateWallet(a, force) \/ RunOnboarding(a, force)
         \/ \E url \in Url, profile \in Profile \cup {None} : SetMerchantUrl(a, url, profile)
         \/ CheckWalletFunding(a)
  PROVE  \E job : Begins(a, job)
<1>1. CASE Begin(a, Job(Start))
  <2>1. Fresh(Job(Start))
    BY ServerPrograms, FreshJob
  <2> QED BY <1>1, <2>1 DEF Begins
<1>2. ASSUME NEW force \in BOOLEAN, CreateWallet(a, force) PROVE \E job : Begins(a, job)
  <2>1. Fresh([Job(EnsureWallet \o <<"answer_funding">>) EXCEPT !.force = force])
    BY ServerPrograms, FreshJob
  <2> QED BY <1>2, <2>1 DEF CreateWallet, CallTool, Begins
<1>3. ASSUME NEW force \in BOOLEAN, RunOnboarding(a, force) PROVE \E job : Begins(a, job)
  <2>1. Fresh([Job(Onboard \o <<"answer">>) EXCEPT !.force = force])
    BY ServerPrograms, FreshJob
  <2> QED BY <1>3, <2>1 DEF RunOnboarding, CallTool, Begins
<1>4. ASSUME NEW url \in Url, NEW profile \in Profile \cup {None}, SetMerchantUrl(a, url, profile)
      PROVE  \E job : Begins(a, job)
  <2>1. Fresh([Job(Prepare \o Onboard \o <<"preview">>) EXCEPT !.url = url, !.profile = profile])
    BY ServerPrograms, FreshJob
  <2> QED BY <1>4, <2>1 DEF SetMerchantUrl, CallTool, Begins
<1>5. CASE CheckWalletFunding(a)
  <2>1. Fresh(Job(<<"answer_funding">>))
    BY ServerPrograms, FreshJob
  <2> QED BY <1>5, <2>1 DEF CheckWalletFunding, CallTool, Begins
<1> QED BY <1>1, <1>2, <1>3, <1>4, <1>5
-------------------------------------------------------------------------------
LEMMA NoneIsNothing ==
  /\ None \notin Key /\ None \notin Url /\ None \notin Network /\ None \notin Profile
  /\ None \notin Env /\ None \notin Report /\ Blank \notin Network
  /\ Torn \notin Key /\ Torn \notin Report
  BY SetupAssumption

\* What the settings are made of, and what writing them keeps.
LEMMA EnvFields ==
  ASSUME NEW e \in Env
  PROVE  /\ e.key \in Key \cup {None} /\ e.url \in Url \cup {None}
         /\ e.rpc \in Network \cup {Blank, None} /\ e.contracts \in Network \cup {None}
  BY DEF Env

LEMMA WithProfileKeeps ==
  ASSUME NEW lines \in Env, NEW p \in Profile
  PROVE  WithProfile(lines, p) \in Env /\ WithProfile(lines, p).key = lines.key
<1>1. Profiles[p].rpc \in Network \cup {None} /\ Profiles[p].contracts \in Network \cup {None}
  BY SetupAssumption DEF Profile
<1> QED BY <1>1 DEF WithProfile, Env

LEMMA PreparedKeeps ==
  ASSUME NEW lines \in Env, NEW url \in Url \cup {None}, NEW profile \in Profile \cup {None}
  PROVE  Prepared(lines, url, profile) \in Env /\ Prepared(lines, url, profile).key = lines.key
<1>1. Named(lines, url) \in Env /\ Named(lines, url).key = lines.key
  BY SetupAssumption DEF Named, Env
<1>2. CASE profile # None
  BY <1>1, <1>2, WithProfileKeeps DEF Prepared
<1>3. CASE profile = None /\ url # None
  BY <1>1, <1>3 DEF Prepared, Env
<1>4. CASE profile = None /\ url = None
  BY <1>1, <1>4 DEF Prepared
<1> QED BY <1>2, <1>3, <1>4

LEMMA Reports ==
  ASSUME env \in Env, NEW answered \in BOOLEAN
  PROVE  Inspected(answered) \in Report /\ Inspected(answered).key = env.key
  BY DEF Inspected, Env, Report, Funding, LiveNextStep, NextStep

LEMMA AdvisedIsReport ==
  ASSUME NEW r \in Report, NEW url, NEW probe \in Probe
  PROVE  Advice(r.next, url, probe) \in NextStep
  BY DEF Report, Advice, Probe, NextStep

\* The parts of BuyerInv follow, for all processes, from what holds for the one that moved.
LEMMA ReadySame ==
  ASSUME NEW a, NEW b, SameLocals(a, b), NEW S, ReadyFor(b, S)
  PROVE  ReadyFor(a, S)
  BY DEF SameLocals, ReadyFor

LEMMA ReadyGoesOn ==
  ASSUME NEW p \in Process, NEW job, NEW S, Goes(p, job, S), JobsReady, ReadyFor(job, S)
  PROVE  JobsReady'
<1>1. ASSUME NEW q \in Process, q # p PROVE Program(jobs'[q].todo) /\ ReadyFor(jobs'[q], Left(q)')
  BY <1>1 DEF Goes, JobsReady, Left
<1>2. Program(jobs'[p].todo) /\ StepsIn(jobs'[p].todo) = S
  BY DEF Goes
<1>3. ReadyFor(jobs'[p], S)
  <2>1. CASE SameLocals(jobs'[p], job)
    BY <2>1, ReadySame
  <2>2. CASE S = {}
    BY <2>2 DEF ReadyFor
  <2> QED BY <2>1, <2>2 DEF Goes
<1> QED BY <1>1, <1>2, <1>3 DEF JobsReady, Left

LEMMA KnownGoesOn ==
  ASSUME NEW p \in Process, NEW job, NEW S, Goes(p, job, S), KeysMade, BuyerTypes,
         made' \in Nat, made <= made', KeysKnown(job, 1 .. made'),
         env'.key \in (1 .. made') \cup {None}
  PROVE  KeysMade'
<1>1. 1 .. made \subseteq 1 .. made'
  BY DEF BuyerTypes
<1>2. ASSUME NEW q \in Process, q # p PROVE KeysKnown(jobs'[q], 1 .. made')
  <2>1. jobs'[q] = jobs[q] /\ KeysKnown(jobs[q], 1 .. made)
    BY <1>2 DEF Goes, KeysMade
  <2> QED BY <1>1, <2>1 DEF KeysKnown
<1>3. KeysKnown(jobs'[p], 1 .. made')
  BY DEF Goes, SameLocals, KeysKnown, NoJob
<1> QED BY <1>2, <1>3 DEF KeysMade

LEMMA QuietGoesOn ==
  ASSUME NEW p \in Process, NEW job, NEW S, Goes(p, job, S), S \subseteq Left(p), OneWriter,
         QuietFor(job, S, env'), \A q \in Process \ {p} : QuietFor(jobs[q], Left(q), env')
  PROVE  OneWriter' /\ \A q \in Process : QuietFor(jobs'[q], Left(q)', env')
<1>1. /\ \A q \in Process \ {p} : jobs'[q] = jobs[q] /\ Left(q)' = Left(q)
      /\ Left(p)' = S
  BY DEF Goes, Left
<1>2. OneWriter'
  BY <1>1 DEF OneWriter
<1>3. QuietFor(jobs'[p], S, env')
  <2>1. CASE SameLocals(jobs'[p], job)
    BY <2>1 DEF SameLocals, QuietFor
  <2>2. CASE S = {} /\ SameLocals(jobs'[p], NoJob)
    BY <2>2 DEF SameLocals, NoJob, QuietFor
  <2> QED BY <2>1, <2>2 DEF Goes
<1> QED BY <1>1, <1>2, <1>3

\* The settings' wallet is as it was, or was just written where there was none: nothing
\* is to be undone by tools that do not write the settings.
LEMMA OthersStayQuiet ==
  ASSUME NEW q, NEW S, NEW e, NEW f, QuietFor(q, S, e),
         e = f \/ (S \cap Writing = {} /\ (e.key = f.key \/ (e.key = None /\ f.key # None)))
  PROVE  QuietFor(q, S, f)
  BY DEF QuietFor, Writing
-------------------------------------------------------------------------------
\* What BuyerInv says of a process.
LEMMA JobTyped ==
  ASSUME NEW p \in Process, BuyerInv
  PROVE  /\ jobs \in [Process -> JobType] /\ jobs[p] \in JobType
         /\ Program(jobs[p].todo) /\ ReadyFor(jobs[p], Left(p))
         /\ KeysKnown(jobs[p], 1 .. made) /\ 1 .. made \subseteq Key
         /\ jobs[p].force \in BOOLEAN /\ jobs[p].url \in Url \cup {None}
         /\ jobs[p].profile \in Profile \cup {None} /\ jobs[p].lines \in Env \cup {None}
         /\ jobs[p].key \in Key \cup {None} /\ jobs[p].found \in Report \cup {None}
  BY SetupAssumption DEF BuyerInv, BuyerTypes, JobType, JobsReady, KeysMade, Key

\* A step that leaves the settings and the process's locals as they are.
LEMMA PlainGoesOn ==
  ASSUME NEW p \in Process, NEW step, BuyerInv, At(p, step), Then(p, jobs[p]),
         step \notin {"wallet", "funding", "parse", "read_lines", "save_env"},
         env' = env, report' = report, funded' = funded, made' = made, runs' = runs,
         deaths' = deaths, disturbed' = disturbed,
         \/ walletFile' = walletFile
         \/ step = "save_wallet" /\ walletFile' = jobs[p].key,
         \/ told' = told
         \/ step = "print_wallet" /\ told' = told \cup {jobs[p].key}
         \/ step = "answer_funding" /\ told' = told \cup ({jobs[p].key} \ {None})
  PROVE  BuyerInv'
<1> DEFINE S == Left(p) \ {step}
<1>1. /\ step \in Left(p) /\ Goes(p, jobs[p], S) /\ \A s \in S : Rank(s) > Rank(step)
  BY JobTyped, StepTaken
<1>2. ReadyFor(jobs[p], Left(p)) /\ KeysKnown(jobs[p], 1 .. made) /\ 1 .. made \subseteq Key
  BY JobTyped
<1>3. ReadyFor(jobs[p], S)
  BY <1>2 DEF ReadyFor
<1>4. JobsReady'
  BY <1>1, <1>3, ReadyGoesOn DEF BuyerInv
<1>5. KeysMade'
  <2>1. made \in Nat /\ made' \in Nat /\ made <= made' /\ env'.key \in (1 .. made') \cup {None}
    BY DEF BuyerInv, BuyerTypes, KeysMade
  <2> QED BY <1>1, <1>2, <2>1, KnownGoesOn DEF BuyerInv
<1>6. ASSUME step \in {"save_wallet", "print_wallet", "answer_funding"}
      PROVE  "wallet" \notin Left(p) /\ "save_env" \notin Left(p)
  BY <1>1, <1>6, RankOf
<1>9. ASSUME step \in {"save_wallet", "print_wallet"} PROVE jobs[p].key \in 1 .. made
  <2>1. jobs[p].key \in Key
    BY <1>1, <1>2, <1>6, <1>9 DEF ReadyFor, UsesKey
  <2> QED BY <1>2, <2>1, NoneIsNothing DEF KeysKnown
<1>7. BuyerTypes'
  <2>1. jobs' \in [Process -> JobType]
    BY <1>1 DEF Goes
  <2>2. told \subseteq told' /\ told' \subseteq 1 .. made
    BY <1>2, <1>9 DEF BuyerInv, BuyerTypes, KeysKnown
  <2>3. walletFile' \in Key \cup {Torn, None}
    BY <1>2, <1>9 DEF BuyerInv, BuyerTypes
  <2> QED BY <2>1, <2>2, <2>3 DEF BuyerInv, BuyerTypes
<1>8. ASSUME ~disturbed
      PROVE  OneWriter' /\ WalletKept' /\ \A q \in Process : QuietFor(jobs'[q], Left(q)', env')
  <2>1. OneWriter /\ WalletKept /\ \A q \in Process : QuietFor(jobs[q], Left(q), env)
    BY <1>8 DEF BuyerInv, Quiet
  <2>2. QuietFor(jobs[p], Left(p), env)
    BY <2>1
  <2>3. QuietFor(jobs[p], S, env)
    BY <2>2 DEF QuietFor
  <2>4. OneWriter' /\ \A q \in Process : QuietFor(jobs'[q], Left(q)', env')
    BY <1>1, <2>1, <2>3, QuietGoesOn
  <2>5. WalletKept'
    <3>1. ASSUME step \in {"save_wallet", "print_wallet"} PROVE jobs[p].key = env.key
      <4>1. jobs[p].key # None
        BY <1>2, <1>9, <3>1, NoneIsNothing
      <4> QED BY <1>6, <2>2, <3>1, <4>1 DEF QuietFor
    <3>2. ASSUME step = "answer_funding" PROVE jobs[p].key \in {None, env.key}
      BY <1>6, <2>2, <3>2 DEF QuietFor
    <3> QED BY <2>1, <3>1, <3>2 DEF WalletKept
  <2> QED BY <2>4, <2>5
<1> QED BY <1>4, <1>5, <1>7, <1>8 DEF BuyerInv, Quiet

\* A wallet is created only for settings that have none, unless the user asks for it.
LEMMA FindWalletGoesOn ==
  ASSUME NEW p \in Process, BuyerInv, FindWallet(p)
  PROVE  BuyerInv'
<1>0. /\ UNCHANGED <<files, funded, told, disturbed, runs, deaths>> /\ At(p, "wallet")
      /\ Program(jobs[p].todo) /\ ReadyFor(jobs[p], Left(p))
      /\ KeysKnown(jobs[p], 1 .. made) /\ 1 .. made \subseteq Key /\ made \in Nat
      /\ env.key \in (1 .. made) \cup {None}
  BY JobTyped DEF FindWallet, BuyerInv, BuyerTypes, KeysMade
<1>1. CASE jobs[p].force \/ env.key = None
  <2> DEFINE job == [jobs[p] EXCEPT !.key = made + 1]
             S == Left(p) \ {"wallet"}
  <2>1. made < MaxKeys /\ made' = made + 1 /\ Then(p, job)
    BY <1>1 DEF FindWallet
  <2>2. made + 1 \in Key /\ made' \in Nat /\ made <= made' /\ made' \in 0 .. MaxKeys
    BY <1>0, <2>1, SetupAssumption DEF Key
  <2>3. /\ job \in JobType /\ job.todo = jobs[p].todo /\ job.key = made + 1
        /\ job.lines = jobs[p].lines /\ job.found = jobs[p].found
        /\ job.profile = jobs[p].profile /\ job.force = jobs[p].force
    BY <2>2, JobTyped DEF JobType
  <2> HIDE DEF job
  <2>4. /\ "wallet" \in Left(p) /\ Goes(p, job, S) /\ \A s \in S : Rank(s) > Rank("wallet")
    BY <1>0, <2>1, <2>3, JobTyped, StepTaken
  <2>5. /\ {"read_lines", "save_env", "save_wallet"} \subseteq S
        /\ S \cap {"parse", "prepare", "apply_profile"} = {}
    <3>1. {"read_lines", "save_env", "save_wallet"} \subseteq Left(p)
      BY <1>0, <2>4, WalletFollowed DEF Left
    <3>2. S \cap {"parse", "prepare", "apply_profile"} = {}
      BY <2>4, RankOf
    <3> QED BY <3>1, <3>2
  <2>6. ReadyFor(job, S)
    BY <1>0, <2>2, <2>3, <2>5 DEF ReadyFor
  <2>7. JobsReady'
    BY <2>4, <2>6, ReadyGoesOn DEF BuyerInv
  <2>8. KeysMade'
    <3>1. made + 1 \in 1 .. made' /\ 1 .. made \subseteq 1 .. made' /\ env' = env
      BY <1>0, <2>1 DEF files
    <3>2. KeysKnown(job, 1 .. made')
      BY <1>0, <2>3, <3>1 DEF KeysKnown
    <3> QED BY <1>0, <2>2, <2>4, <3>1, <3>2, KnownGoesOn DEF BuyerInv
  <2>9. BuyerTypes'
    <3>1. jobs' \in [Process -> JobType]
      BY <2>4 DEF Goes
    <3>2. 1 .. made \subseteq 1 .. made'
      BY <1>0, <2>1
    <3> QED BY <1>0, <2>2, <3>1, <3>2 DEF BuyerInv, BuyerTypes, files
  <2>10. ASSUME ~disturbed
         PROVE  OneWriter' /\ WalletKept' /\ \A q \in Process : QuietFor(jobs'[q], Left(q)', env')
    <3>1. OneWriter /\ WalletKept /\ \A q \in Process : QuietFor(jobs[q], Left(q), env)
      BY <2>10 DEF BuyerInv, Quiet
    <3>2. env' = env /\ walletFile' = walletFile /\ report' = report /\ told' = told
      BY <1>0 DEF files
    <3>3. ~jobs[p].force /\ env.key = None
      BY <1>1, <3>1 DEF QuietFor
    <3>4. QuietFor(job, S, env')
      BY <2>3, <2>4, <2>5, <3>2, <3>3 DEF QuietFor
    <3>5. OneWriter' /\ \A q \in Process : QuietFor(jobs'[q], Left(q)', env')
      BY <2>4, <3>1, <3>2, <3>4, QuietGoesOn
    <3> QED BY <3>1, <3>2, <3>5 DEF WalletKept
  <2> QED BY <1>0, <2>7, <2>8, <2>9, <2>10 DEF BuyerInv, Quiet
<1>2. CASE ~(jobs[p].force \/ env.key = None)
  <2> DEFINE job == [jobs[p] EXCEPT !.key = env.key]
             S == Left(p) \ CreatesWallet
  <2>1. made' = made /\ ThenSkip(p, Len(SaveWallet), job) /\ env.key # None
    BY <1>2 DEF FindWallet
  <2>2. env.key \in 1 .. made /\ env.key \in Key
    BY <1>0, <2>1
  <2>3. /\ job \in JobType /\ job.todo = jobs[p].todo /\ job.key = env.key
        /\ job.lines = jobs[p].lines /\ job.found = jobs[p].found
        /\ job.profile = jobs[p].profile /\ job.force = jobs[p].force
    BY <2>2, JobTyped DEF JobType
  <2> HIDE DEF job
  <2>4. /\ CreatesWallet \subseteq Left(p) /\ Goes(p, job, S) /\ \A s \in S : Rank(s) > 16
    BY <1>0, <2>1, <2>3, JobTyped, WalletSkipped
  <2>5. S \cap {"parse", "prepare", "apply_profile", "save_env", "wallet"} = {}
    BY <2>4, RankOf
  <2>6. ReadyFor(job, S)
    BY <1>0, <2>2, <2>3, <2>5 DEF ReadyFor, CreatesWallet
  <2>7. JobsReady'
    BY <2>4, <2>6, ReadyGoesOn DEF BuyerInv
  <2>8. KeysMade'
    <3>1. KeysKnown(job, 1 .. made') /\ made' \in Nat /\ made <= made' /\ env' = env
      BY <1>0, <2>1, <2>2, <2>3 DEF KeysKnown, files
    <3> QED BY <1>0, <2>1, <2>4, <3>1, KnownGoesOn DEF BuyerInv
  <2>9. BuyerTypes'
    <3>1. jobs' \in [Process -> JobType]
      BY <2>4 DEF Goes
    <3> QED BY <1>0, <2>1, <3>1 DEF BuyerInv, BuyerTypes, files
  <2>10. ASSUME ~disturbed
         PROVE  OneWriter' /\ WalletKept' /\ \A q \in Process : QuietFor(jobs'[q], Left(q)', env')
    <3>1. OneWriter /\ WalletKept /\ \A q \in Process : QuietFor(jobs[q], Left(q), env)
      BY <2>10 DEF BuyerInv, Quiet
    <3>2. env' = env /\ walletFile' = walletFile /\ report' = report /\ told' = told
      BY <1>0 DEF files
    <3>3. ~jobs[p].force
      BY <3>1 DEF QuietFor
    <3>4. QuietFor(job, S, env')
      BY <2>1, <2>3, <2>5, <3>2, <3>3 DEF QuietFor
    <3>5. OneWriter' /\ \A q \in Process : QuietFor(jobs'[q], Left(q)', env')
      BY <2>4, <3>1, <3>2, <3>4, QuietGoesOn
    <3> QED BY <3>1, <3>2, <3>5 DEF WalletKept
  <2> QED BY <1>0, <2>7, <2>8, <2>9, <2>10 DEF BuyerInv, Quiet
<1> QED BY <1>1, <1>2

\* The settings that are read are those of an undisturbed tool until it writes them back.
LEMMA ReadLinesGoesOn ==
  ASSUME NEW p \in Process, BuyerInv, ReadLines(p)
  PROVE  BuyerInv'
<1> DEFINE job == [jobs[p] EXCEPT !.lines = env]
<1>1. PICK step \in {"read_lines", "parse"} : At(p, step)
  BY DEF ReadLines
<1> DEFINE S == Left(p) \ {step}
<1>2. /\ UNCHANGED <<files, funded, told, disturbed, bounds>> /\ Then(p, job)
      /\ Program(jobs[p].todo) /\ ReadyFor(jobs[p], Left(p))
      /\ KeysKnown(jobs[p], 1 .. made) /\ 1 .. made \subseteq Key /\ made \in Nat
      /\ env.key \in (1 .. made) \cup {None} /\ env \in Env
  BY JobTyped DEF ReadLines, BuyerInv, BuyerTypes, KeysMade
<1>3. /\ job \in JobType /\ job.todo = jobs[p].todo /\ job.key = jobs[p].key
      /\ job.lines = env /\ job.found = jobs[p].found
      /\ job.profile = jobs[p].profile /\ job.force = jobs[p].force
  BY <1>2, JobTyped DEF JobType
<1> HIDE DEF job
<1>4. /\ step \in Left(p) /\ Goes(p, job, S) /\ \A s \in S : Rank(s) > Rank(step)
  BY <1>1, <1>2, <1>3, JobTyped, StepTaken
<1>5. step = "read_lines" => S \cap {"parse", "prepare", "apply_profile"} = {}
  BY <1>4, RankOf
<1>6. ReadyFor(job, S)
  BY <1>2, <1>3, <1>5 DEF ReadyFor
<1>7. JobsReady'
  BY <1>4, <1>6, ReadyGoesOn DEF BuyerInv
<1>8. KeysMade'
  <2>1. KeysKnown(job, 1 .. made') /\ made' \in Nat /\ made <= made' /\ env' = env /\ made' = made
    BY <1>2, <1>3 DEF KeysKnown, files, bounds
  <2> QED BY <1>2, <1>4, <2>1, KnownGoesOn DEF BuyerInv
<1>9. BuyerTypes'
  <2>1. jobs' \in [Process -> JobType]
    BY <1>4 DEF Goes
  <2> QED BY <1>2, <2>1 DEF BuyerInv, BuyerTypes, files, bounds
<1>10. ASSUME ~disturbed
       PROVE  OneWriter' /\ WalletKept' /\ \A q \in Process : QuietFor(jobs'[q], Left(q)', env')
  <2>1. OneWriter /\ WalletKept /\ \A q \in Process : QuietFor(jobs[q], Left(q), env)
    BY <1>10 DEF BuyerInv, Quiet
  <2>2. env' = env /\ walletFile' = walletFile /\ report' = report /\ told' = told
    BY <1>2 DEF files
  <2>3. QuietFor(jobs[p], Left(p), env)
    BY <2>1
  <2>4. QuietFor(job, S, env')
    BY <1>3, <1>4, <2>2, <2>3 DEF QuietFor
  <2>5. OneWriter' /\ \A q \in Process : QuietFor(jobs'[q], Left(q)', env')
    BY <1>4, <2>1, <2>2, <2>4, QuietGoesOn
  <2> QED BY <2>1, <2>2, <2>5 DEF WalletKept
<1> QED BY <1>2, <1>7, <1>8, <1>9, <1>10 DEF BuyerInv, Quiet

\* A process that writes the settings, where no other is about to.
LEMMA WriterIsAlone ==
  ASSUME NEW p \in Process, NEW step \in Writing, step \in Left(p), OneWriter,
         NEW q \in Process \ {p}
  PROVE  Left(q) \cap Writing = {}
  BY DEF OneWriter

\* A wallet is saved into settings that still have none.
LEMMA SaveEnvGoesOn ==
  ASSUME NEW p \in Process, BuyerInv, SaveEnv(p)
  PROVE  BuyerInv'
<1> DEFINE job == [jobs[p] EXCEPT !.lines = None]
           S == Left(p) \ {"save_env"}
<1>1. At(p, "save_env") /\ Then(p, job) /\ env' = WithWallet(jobs[p])
      /\ UNCHANGED <<walletFile, report, funded, told, disturbed, bounds>>
  BY DEF SaveEnv
<1>2. /\ Program(jobs[p].todo) /\ ReadyFor(jobs[p], Left(p))
      /\ KeysKnown(jobs[p], 1 .. made) /\ 1 .. made \subseteq Key /\ made \in Nat
      /\ env.key \in (1 .. made) \cup {None}
  BY JobTyped DEF BuyerInv, BuyerTypes, KeysMade
<1>3. /\ job \in JobType /\ job.todo = jobs[p].todo /\ job.key = jobs[p].key
      /\ job.lines = None /\ job.found = jobs[p].found
      /\ job.profile = jobs[p].profile /\ job.force = jobs[p].force
  BY JobTyped DEF JobType
<1> HIDE DEF job
<1>4. /\ "save_env" \in Left(p) /\ Goes(p, job, S) /\ \A s \in S : Rank(s) > Rank("save_env")
  BY <1>1, <1>2, <1>3, JobTyped, StepTaken
<1>5. /\ S \cap {"parse", "prepare", "apply_profile", "wallet", "read_lines", "save_env"} = {}
      /\ "wallet" \notin Left(p) /\ "read_lines" \notin Left(p)
  BY <1>4, RankOf
<1>6. jobs[p].key \in 1 .. made /\ jobs[p].key # None /\ jobs[p].lines \in Env
  <2>1. jobs[p].key \in Key /\ jobs[p].lines \in Env
    BY <1>2, <1>4, <1>5 DEF ReadyFor, UsesKey
  <2> QED BY <1>2, <2>1, NoneIsNothing DEF KeysKnown
<1>7. env' \in Env /\ env'.key = jobs[p].key
  BY <1>1, <1>2, <1>6 DEF WithWallet, Env
<1>8. ReadyFor(job, S)
  BY <1>2, <1>3, <1>5 DEF ReadyFor
<1>9. JobsReady'
  BY <1>4, <1>8, ReadyGoesOn DEF BuyerInv
<1>10. KeysMade'
  <2>1. KeysKnown(job, 1 .. made') /\ made' \in Nat /\ made <= made' /\ made' = made
    BY <1>1, <1>2, <1>3 DEF KeysKnown, bounds
  <2> QED BY <1>4, <1>6, <1>7, <2>1, KnownGoesOn DEF BuyerInv
<1>11. BuyerTypes'
  <2>1. jobs' \in [Process -> JobType]
    BY <1>4 DEF Goes
  <2> QED BY <1>1, <1>7, <2>1 DEF BuyerInv, BuyerTypes, bounds
<1>12. ASSUME ~disturbed
       PROVE  OneWriter' /\ WalletKept' /\ \A q \in Process : QuietFor(jobs'[q], Left(q)', env')
  <2>1. OneWriter /\ WalletKept /\ \A q \in Process : QuietFor(jobs[q], Left(q), env)
    BY <1>12 DEF BuyerInv, Quiet
  <2>2. walletFile' = walletFile /\ report' = report /\ told' = told
    BY <1>1
  <2>3. env.key = None /\ env'.key # None
    BY <1>4, <1>5, <1>6, <1>7, <2>1 DEF QuietFor
  <2>4. QuietFor(job, S, env')
    BY <1>3, <1>5, <1>7, <2>1, <2>3 DEF QuietFor
  <2>5. ASSUME NEW q \in Process \ {p} PROVE QuietFor(jobs[q], Left(q), env')
    <3>1. Left(q) \cap Writing = {}
      BY <1>4, <2>1, WriterIsAlone DEF Writing
    <3> QED BY <2>1, <2>3, <3>1, OthersStayQuiet
  <2>6. OneWriter' /\ \A q \in Process : QuietFor(jobs'[q], Left(q)', env')
    BY <1>4, <2>1, <2>4, <2>5, QuietGoesOn
  <2>7. WalletKept'
    <3>1. told = {}
      <4>1. told \subseteq Key
        BY <1>2 DEF BuyerInv, BuyerTypes
      <4> QED BY <2>1, <2>3, <4>1, NoneIsNothing DEF WalletKept
    <3> QED BY <2>1, <2>2, <2>3, <3>1 DEF WalletKept
  <2> QED BY <2>6, <2>7
<1> QED BY <1>1, <1>9, <1>10, <1>11, <1>12 DEF BuyerInv, Quiet

\* prepare and the network profile write back the settings they read, wallet and all.
LEMMA RewriteGoesOn ==
  ASSUME NEW p \in Process, BuyerInv, NEW step \in {"prepare", "apply_profile"}, At(p, step),
         NEW job \in JobType, job.todo = jobs[p].todo, job.key = jobs[p].key,
         job.lines = None, job.found = jobs[p].found, job.force = jobs[p].force, Then(p, job),
         jobs[p].lines \in Env => env' \in Env /\ env'.key = jobs[p].lines.key,
         UNCHANGED <<walletFile, report, funded, told, disturbed, bounds>>
  PROVE  BuyerInv'
<1> DEFINE S == Left(p) \ {step}
<1>2. /\ Program(jobs[p].todo) /\ ReadyFor(jobs[p], Left(p))
      /\ KeysKnown(jobs[p], 1 .. made) /\ 1 .. made \subseteq Key /\ made \in Nat
      /\ env.key \in (1 .. made) \cup {None}
  BY JobTyped DEF BuyerInv, BuyerTypes, KeysMade
<1>4. /\ step \in Left(p) /\ Goes(p, job, S) /\ \A s \in S : Rank(s) > Rank(step)
  BY <1>2, JobTyped, StepTaken
<1>5. /\ S \cap {"parse", "prepare", "apply_profile"} = {} /\ "parse" \notin Left(p)
      /\ "save_env" \in S => "read_lines" \in S
  <2>1. S \cap {"parse", "prepare", "apply_profile"} = {} /\ "parse" \notin Left(p)
    BY <1>4, RankOf
  <2>2. "save_env" \in S => "read_lines" \in S
    BY <1>2, <1>4 DEF ReadyFor
  <2> QED BY <2>1, <2>2
<1>6. jobs[p].lines \in Env
  BY <1>2, <1>4, <1>5 DEF ReadyFor
<1>7. env' \in Env /\ env'.key = jobs[p].lines.key /\ env'.key \in (1 .. made) \cup {None}
  BY <1>2, <1>6, NoneIsNothing DEF KeysKnown
<1>8. ReadyFor(job, S)
  BY <1>2, <1>5 DEF ReadyFor
<1>9. JobsReady'
  BY <1>4, <1>8, ReadyGoesOn DEF BuyerInv
<1>10. KeysMade'
  <2>1. KeysKnown(job, 1 .. made') /\ made' \in Nat /\ made <= made' /\ made' = made
    BY <1>2 DEF KeysKnown, bounds
  <2> QED BY <1>4, <1>7, <2>1, KnownGoesOn DEF BuyerInv
<1>11. BuyerTypes'
  <2>1. jobs' \in [Process -> JobType]
    BY <1>4 DEF Goes
  <2> QED BY <1>7, <2>1 DEF BuyerInv, BuyerTypes, bounds
<1>12. ASSUME ~disturbed
       PROVE  OneWriter' /\ WalletKept' /\ \A q \in Process : QuietFor(jobs'[q], Left(q)', env')
  <2>1. OneWriter /\ WalletKept /\ \A q \in Process : QuietFor(jobs[q], Left(q), env)
    BY <1>12 DEF BuyerInv, Quiet
  <2>2. QuietFor(jobs[p], Left(p), env)
    BY <2>1
  <2>3. env'.key = env.key
    BY <1>4, <1>5, <1>7, <2>2 DEF QuietFor
  <2>4. QuietFor(job, S, env')
    BY <1>5, <2>2, <2>3 DEF QuietFor
  <2>5. ASSUME NEW q \in Process \ {p} PROVE QuietFor(jobs[q], Left(q), env')
    <3>1. Left(q) \cap Writing = {}
      BY <1>4, <2>1, WriterIsAlone DEF Writing
    <3> QED BY <2>1, <2>3, <3>1, OthersStayQuiet
  <2>6. OneWriter' /\ \A q \in Process : QuietFor(jobs'[q], Left(q)', env')
    BY <1>4, <2>1, <2>4, <2>5, QuietGoesOn
  <2> QED BY <2>1, <2>3, <2>6 DEF WalletKept
<1> QED BY <1>9, <1>10, <1>11, <1>12 DEF BuyerInv, Quiet

LEMMA WritePreparedGoesOn ==
  ASSUME NEW p \in Process, BuyerInv, WritePrepared(p)
  PROVE  BuyerInv'
<1> DEFINE job == [jobs[p] EXCEPT !.lines = None, !.url = None, !.profile = None]
<1>1. /\ At(p, "prepare") /\ Then(p, job)
      /\ env' = Prepared(jobs[p].lines, jobs[p].url, jobs[p].profile)
      /\ UNCHANGED <<walletFile, report, funded, told, disturbed, bounds>>
  BY DEF WritePrepared
<1>2. /\ job \in JobType /\ job.todo = jobs[p].todo /\ job.key = jobs[p].key
      /\ job.lines = None /\ job.found = jobs[p].found /\ job.force = jobs[p].force
  BY JobTyped DEF JobType
<1>3. jobs[p].lines \in Env => env' \in Env /\ env'.key = jobs[p].lines.key
  BY <1>1, JobTyped, PreparedKeeps
<1> HIDE DEF job
<1> QED BY <1>1, <1>2, <1>3, RewriteGoesOn

LEMMA ApplyNetworkProfileGoesOn ==
  ASSUME NEW p \in Process, BuyerInv, ApplyNetworkProfile(p)
  PROVE  BuyerInv'
<1> DEFINE job == [jobs[p] EXCEPT !.lines = None, !.profile = None]
<1>1. /\ At(p, "apply_profile") /\ Then(p, job)
      /\ env' = WithProfile(jobs[p].lines, jobs[p].profile)
      /\ UNCHANGED <<walletFile, report, funded, told, disturbed, bounds>>
  BY DEF ApplyNetworkProfile
<1>2. /\ job \in JobType /\ job.todo = jobs[p].todo /\ job.key = jobs[p].key
      /\ job.lines = None /\ job.found = jobs[p].found /\ job.force = jobs[p].force
  BY JobTyped DEF JobType
<1> HIDE DEF job
<1>3. jobs[p].profile \in Profile
  <2>1. "apply_profile" \in Left(p)
    BY <1>1, <1>2, JobTyped, StepTaken
  <2> QED BY <2>1, JobTyped DEF ReadyFor
<1>4. jobs[p].lines \in Env => env' \in Env /\ env'.key = jobs[p].lines.key
  BY <1>1, <1>3, WithProfileKeeps
<1> QED BY <1>1, <1>2, <1>4, RewriteGoesOn

\* What the inspection of the wallet and the merchants found is kept for the report.
LEMMA FoundGoesOn ==
  ASSUME NEW p \in Process, BuyerInv, NEW step \in {"funding", "probe"}, At(p, step),
         NEW r \in Report, NEW job \in JobType, job.todo = jobs[p].todo, job.key = jobs[p].key,
         job.lines = jobs[p].lines, job.profile = jobs[p].profile, job.found = r,
         job.force = jobs[p].force, Then(p, job),
         UNCHANGED <<files, funded, told, disturbed, bounds>>
  PROVE  BuyerInv'
<1> DEFINE S == Left(p) \ {step}
<1>2. /\ Program(jobs[p].todo) /\ ReadyFor(jobs[p], Left(p))
      /\ KeysKnown(jobs[p], 1 .. made) /\ made \in Nat /\ env.key \in (1 .. made) \cup {None}
  BY JobTyped DEF BuyerInv, BuyerTypes, KeysMade
<1>4. /\ step \in Left(p) /\ Goes(p, job, S)
  BY <1>2, JobTyped, StepTaken
<1>5. ReadyFor(job, S)
  BY <1>2 DEF ReadyFor
<1>6. JobsReady'
  BY <1>4, <1>5, ReadyGoesOn DEF BuyerInv
<1>7. KeysMade'
  <2>1. KeysKnown(job, 1 .. made') /\ made' \in Nat /\ made <= made' /\ env' = env /\ made' = made
    BY <1>2 DEF KeysKnown, files, bounds
  <2> QED BY <1>2, <1>4, <2>1, KnownGoesOn DEF BuyerInv
<1>8. BuyerTypes'
  <2>1. jobs' \in [Process -> JobType]
    BY <1>4 DEF Goes
  <2> QED BY <2>1 DEF BuyerInv, BuyerTypes, files, bounds
<1>9. ASSUME ~disturbed
      PROVE  OneWriter' /\ WalletKept' /\ \A q \in Process : QuietFor(jobs'[q], Left(q)', env')
  <2>1. OneWriter /\ WalletKept /\ \A q \in Process : QuietFor(jobs[q], Left(q), env)
    BY <1>9 DEF BuyerInv, Quiet
  <2>2. env' = env /\ walletFile' = walletFile /\ report' = report /\ told' = told
    BY DEF files
  <2>3. QuietFor(jobs[p], Left(p), env)
    BY <2>1
  <2>4. QuietFor(job, S, env')
    BY <2>2, <2>3 DEF QuietFor
  <2>5. OneWriter' /\ \A q \in Process : QuietFor(jobs'[q], Left(q)', env')
    BY <1>4, <2>1, <2>2, <2>4, QuietGoesOn
  <2> QED BY <2>1, <2>2, <2>5 DEF WalletKept
<1> QED BY <1>6, <1>7, <1>8, <1>9 DEF BuyerInv, Quiet

LEMMA InspectFundingGoesOn ==
  ASSUME NEW p \in Process, BuyerInv, InspectFunding(p)
  PROVE  BuyerInv'
<1>1. PICK answered \in BOOLEAN : Then(p, [jobs[p] EXCEPT !.found = Inspected(answered)])
  BY DEF InspectFunding
<1> DEFINE job == [jobs[p] EXCEPT !.found = Inspected(answered)]
<1>2. Inspected(answered) \in Report
  BY Reports DEF BuyerInv, BuyerTypes
<1>3. /\ job \in JobType /\ job.todo = jobs[p].todo /\ job.key = jobs[p].key
      /\ job.lines = jobs[p].lines /\ job.profile = jobs[p].profile
      /\ job.found = Inspected(answered) /\ job.force = jobs[p].force
  BY <1>2, JobTyped DEF JobType
<1>4. Then(p, job)
  BY <1>1
<1> HIDE DEF job
<1> QED BY <1>2, <1>3, <1>4, FoundGoesOn DEF InspectFunding

LEMMA ReportReady ==
  ASSUME NEW p \in Process, BuyerInv, NEW step \in UsesFound, At(p, step),
         "funding" \notin Left(p)
  PROVE  jobs[p].found \in Report
<1>1. step \in Left(p)
  <2>1. jobs[p].todo # <<>> /\ Head(jobs[p].todo) = step /\ Program(jobs[p].todo)
    BY JobTyped DEF At, Working
  <2> QED BY <2>1, Onward DEF Left
<1> QED BY <1>1, JobTyped DEF ReadyFor

\* A step that uses a report comes after the inspection that makes it.
LEMMA FundingIsPast ==
  ASSUME NEW p \in Process, BuyerInv, NEW step \in UsesFound, At(p, step)
  PROVE  "funding" \notin Left(p) /\ jobs[p].found \in Report
<1>1. jobs[p].todo # <<>> /\ Head(jobs[p].todo) = step /\ Program(jobs[p].todo)
  BY JobTyped DEF At, Working
<1> DEFINE left == SubSeq(jobs[p].todo, 2, Len(jobs[p].todo))
<1> HIDE DEF left
<1>2. /\ StepsIn(left) = Left(p) \ {step}
      /\ \A s \in StepsIn(left) : Rank(s) > Rank(step)
  BY <1>1, Onward DEF left, Left
<1>3. "funding" \notin Left(p)
  BY <1>2, RankOf DEF UsesFound
<1> QED BY <1>3, ReportReady

LEMMA ProbeMerchantsGoesOn ==
  ASSUME NEW p \in Process, BuyerInv, ProbeMerchants(p)
  PROVE  BuyerInv'
<1>1. PICK probe \in Probe :
        Then(p, [jobs[p] EXCEPT !.found.next = Advice(jobs[p].found.next, env.url, probe)])
  BY DEF ProbeMerchants
<1> DEFINE next == Advice(jobs[p].found.next, env.url, probe)
           r == [jobs[p].found EXCEPT !.next = next]
           job == [jobs[p] EXCEPT !.found.next = next]
<1>2. jobs[p].found \in Report
  BY FundingIsPast DEF ProbeMerchants, UsesFound
<1>3. next \in NextStep
  BY <1>2, AdvisedIsReport
<1> HIDE DEF next
<1>4. r \in Report
  BY <1>2, <1>3 DEF Report
<1>5. /\ job \in JobType /\ job.todo = jobs[p].todo /\ job.key = jobs[p].key
      /\ job.lines = jobs[p].lines /\ job.profile = jobs[p].profile
      /\ job.found = r /\ job.force = jobs[p].force
  BY <1>4, JobTyped DEF JobType
<1>6. Then(p, job)
  BY <1>1 DEF next
<1> HIDE DEF job, r
<1> QED BY <1>4, <1>5, <1>6, FoundGoesOn DEF ProbeMerchants

\* The wallet that is told is the one of the settings.
LEMMA SaveReportGoesOn ==
  ASSUME NEW p \in Process, BuyerInv, SaveReport(p)
  PROVE  BuyerInv'
<1> DEFINE job == [jobs[p] EXCEPT !.key = None, !.force = FALSE]
           S == Left(p) \ {"report"}
<1>1. /\ At(p, "report") /\ Then(p, job) /\ report' = jobs[p].found
      /\ told' = told \cup {jobs[p].key}
      /\ UNCHANGED <<env, walletFile, funded, disturbed, bounds>>
  BY DEF SaveReport
<1>2. /\ Program(jobs[p].todo) /\ ReadyFor(jobs[p], Left(p))
      /\ KeysKnown(jobs[p], 1 .. made) /\ made \in Nat /\ env.key \in (1 .. made) \cup {None}
      /\ 1 .. made \subseteq Key
  BY JobTyped DEF BuyerInv, BuyerTypes, KeysMade
<1>3. /\ job \in JobType /\ job.todo = jobs[p].todo /\ job.key = None
      /\ job.lines = jobs[p].lines /\ job.profile = jobs[p].profile
      /\ job.found = jobs[p].found /\ job.force = FALSE
  BY JobTyped DEF JobType
<1> HIDE DEF job
<1>4. /\ "report" \in Left(p) /\ Goes(p, job, S) /\ \A s \in S : Rank(s) > Rank("report")
  BY <1>1, <1>2, <1>3, JobTyped, StepTaken
<1>5. /\ S \cap {"parse", "prepare", "apply_profile", "save_env", "wallet"} = {}
      /\ S \cap UsesKey = {} /\ "save_env" \notin Left(p) /\ "wallet" \notin Left(p)
  BY <1>4, RankOf DEF UsesKey
<1>6. jobs[p].found \in Report
  BY <1>1, FundingIsPast DEF UsesFound
<1>7. jobs[p].key \in 1 .. made /\ jobs[p].key # None
  <2>1. jobs[p].key \in Key
    BY <1>2, <1>4, <1>5 DEF ReadyFor, UsesKey
  <2> QED BY <1>2, <2>1, NoneIsNothing DEF KeysKnown
<1>8. ReadyFor(job, S)
  BY <1>2, <1>3, <1>5, <1>6 DEF ReadyFor
<1>9. JobsReady'
  BY <1>4, <1>8, ReadyGoesOn DEF BuyerInv
<1>10. KeysMade'
  <2>1. KeysKnown(job, 1 .. made') /\ made' \in Nat /\ made <= made' /\ made' = made
    BY <1>1, <1>2, <1>3 DEF KeysKnown, bounds
  <2> QED BY <1>1, <1>2, <1>4, <2>1, KnownGoesOn DEF BuyerInv
<1>11. BuyerTypes'
  <2>1. jobs' \in [Process -> JobType]
    BY <1>4 DEF Goes
  <2>2. told \subseteq told' /\ told' \subseteq 1 .. made
    BY <1>1, <1>7 DEF BuyerInv, BuyerTypes
  <2> QED BY <1>1, <1>6, <2>1, <2>2 DEF BuyerInv, BuyerTypes, bounds
<1>12. ASSUME ~disturbed
       PROVE  OneWriter' /\ WalletKept' /\ \A q \in Process : QuietFor(jobs'[q], Left(q)', env')
  <2>1. OneWriter /\ WalletKept /\ \A q \in Process : QuietFor(jobs[q], Left(q), env)
    BY <1>12 DEF BuyerInv, Quiet
  <2>2. QuietFor(jobs[p], Left(p), env)
    BY <2>1
  <2>3. jobs[p].key = env.key
    BY <1>5, <1>7, <2>2 DEF QuietFor
  <2>4. QuietFor(job, S, env')
    BY <1>1, <1>3, <1>5, <1>7, <2>2, <2>3 DEF QuietFor
  <2>5. OneWriter' /\ \A q \in Process : QuietFor(jobs'[q], Left(q)', env')
    BY <1>1, <1>4, <2>1, <2>4, QuietGoesOn
  <2> QED BY <1>1, <1>7, <2>1, <2>3, <2>5 DEF WalletKept
<1> QED BY <1>1, <1>9, <1>10, <1>11, <1>12 DEF BuyerInv, Quiet

\* The steps of the buyer's tools keep BuyerInv.
LEMMA BuyerStepGoesOn ==
  ASSUME NEW p \in Process, BuyerInv, BuyerStep(p)
  PROVE  BuyerInv'
<1>1. CASE SaveWalletFile(p)
  <2>1. /\ At(p, "save_wallet") /\ Then(p, jobs[p]) /\ walletFile' = jobs[p].key
        /\ UNCHANGED <<env, report, funded, told, disturbed, made, runs, deaths>>
    BY <1>1 DEF SaveWalletFile, bounds
  <2> QED BY <2>1, PlainGoesOn
<1>2. CASE PrintWallet(p)
  <2>1. /\ At(p, "print_wallet") /\ Then(p, jobs[p]) /\ told' = told \cup {jobs[p].key}
        /\ UNCHANGED <<env, report, walletFile, funded, disturbed, made, runs, deaths>>
    BY <1>2 DEF PrintWallet, bounds, files
  <2> QED BY <2>1, PlainGoesOn
<1> QED BY <1>1, <1>2, FindWalletGoesOn, ReadLinesGoesOn, SaveEnvGoesOn, WritePreparedGoesOn,
           ApplyNetworkProfileGoesOn, InspectFundingGoesOn, ProbeMerchantsGoesOn,
           SaveReportGoesOn DEF BuyerStep

\* A tool that starts while another is about to write the settings is what the
\* undisturbed runs leave out.
LEMMA BeginGoesOn ==
  ASSUME NEW p \in Process, BuyerInv, NEW job, Begins(p, job)
  PROVE  BuyerInv'
<1> DEFINE S == StepsIn(job.todo)
<1>1. /\ Fresh(job) /\ jobs' = [jobs EXCEPT ![p] = job] /\ ~Working(p)
      /\ runs < MaxRuns /\ runs' = runs + 1
      /\ disturbed' = (disturbed \/ job.force \/ Overlaps(job.todo))
      /\ UNCHANGED <<files, funded, told, made, deaths>>
  BY DEF Begins, Begin
<1>2. /\ job \in JobType /\ job.key = None /\ job.lines = None /\ Program(job.todo)
      /\ Whole(job.todo) /\ job.todo \in Seq(Step) /\ Len(job.todo) \in Nat
      /\ "apply_profile" \in S => job.profile \in Profile
  BY <1>1 DEF Fresh, Whole, Program
<1>3. /\ jobs' \in [Process -> JobType] /\ \A q \in Process \ {p} : jobs'[q] = jobs[q]
      /\ jobs'[p] = job
  BY <1>1, <1>2 DEF BuyerInv, BuyerTypes
<1>4. Goes(p, job, S)
  BY <1>2, <1>3 DEF Goes, SameLocals
<1>5. "save_env" \in S => "read_lines" \in S
  BY <1>2, WalletFollowed DEF Whole, CreatesWallet
<1>6. ReadyFor(job, S)
  BY <1>2, <1>5 DEF ReadyFor, Whole
<1>7. JobsReady'
  BY <1>4, <1>6, ReadyGoesOn DEF BuyerInv
<1>8. KeysMade'
  <2>1. KeysKnown(job, 1 .. made') /\ made' \in Nat /\ made <= made' /\ made' = made /\ env' = env
    BY <1>1, <1>2 DEF KeysKnown, BuyerInv, BuyerTypes, files
  <2> QED BY <1>4, <2>1, KnownGoesOn DEF BuyerInv, KeysMade
<1>9. BuyerTypes'
  <2>1. runs' \in 0 .. MaxRuns
    BY <1>1, SetupAssumption DEF BuyerInv, BuyerTypes
  <2>2. disturbed' \in BOOLEAN
    BY <1>1
  <2> QED BY <1>1, <1>3, <2>1, <2>2 DEF BuyerInv, BuyerTypes, files
<1>10. ASSUME ~disturbed'
       PROVE  OneWriter' /\ WalletKept' /\ \A q \in Process : QuietFor(jobs'[q], Left(q)', env')
  <2>1. ~disturbed /\ ~job.force /\ ~Overlaps(job.todo)
    BY <1>1, <1>10
  <2>2. OneWriter /\ WalletKept /\ \A q \in Process : QuietFor(jobs[q], Left(q), env)
    BY <2>1 DEF BuyerInv, Quiet
  <2>3. S \cap Writing # {} => \A q \in Process : Left(q) \cap Writing = {}
    <3> SUFFICES ASSUME S \cap Writing # {}, NEW q \in Process, Left(q) \cap Writing # {}
                 PROVE  FALSE
      OBVIOUS
    <3>1. MayWrite(job.todo)
      BY DEF MayWrite, StepsIn
    <3>2. MayWrite(jobs[q].todo)
      BY DEF MayWrite, StepsIn, Left
    <3> QED BY <2>1, <3>1, <3>2 DEF Overlaps
  <2>4. /\ Left(p)' = S /\ \A q \in Process \ {p} : Left(q)' = Left(q)
    BY <1>3 DEF Left
  <2>5. OneWriter'
    BY <2>2, <2>3, <2>4 DEF OneWriter
  <2>6. env' = env /\ walletFile' = walletFile /\ report' = report /\ told' = told
    BY <1>1 DEF files
  <2>7. QuietFor(job, S, env)
    BY <1>2, <1>5, <2>1, WalletFollowed DEF QuietFor, Whole, CreatesWallet
  <2>8. \A q \in Process : QuietFor(jobs'[q], Left(q)', env')
    BY <1>3, <2>2, <2>4, <2>6, <2>7
  <2> QED BY <2>2, <2>5, <2>6, <2>8 DEF WalletKept
<1> QED BY <1>7, <1>8, <1>9, <1>10 DEF BuyerInv, Quiet

\* A process that ends early leaves no job behind; what it was writing may be cut off.
LEMMA EndGoesOn ==
  ASSUME NEW p \in Process, BuyerInv, jobs' = [jobs EXCEPT ![p] = NoJob],
         env' \in {env, NoLines}, walletFile' \in {walletFile, Torn}, report' \in {report, Torn},
         disturbed' = (disturbed \/ env' # env), UNCHANGED <<funded, told, made, runs>>,
         deaths' \in 0 .. MaxDeaths
  PROVE  BuyerInv'
<1>1. Goes(p, NoJob, {})
  BY Stopped DEF BuyerInv, BuyerTypes
<1>2. ReadyFor(NoJob, {})
  BY DEF ReadyFor
<1>3. JobsReady'
  BY <1>1, <1>2, ReadyGoesOn DEF BuyerInv
<1>4. KeysMade'
  <2>1. KeysKnown(NoJob, 1 .. made') /\ made' \in Nat /\ made <= made' /\ made' = made
    BY DEF KeysKnown, BuyerInv, BuyerTypes, NoJob
  <2>2. env'.key \in (1 .. made') \cup {None}
    BY DEF BuyerInv, KeysMade, NoLines
  <2> QED BY <1>1, <2>1, <2>2, KnownGoesOn DEF BuyerInv
<1>5. BuyerTypes'
  <2>1. NoLines \in Env
    BY DEF NoLines, Env
  <2>2. jobs' \in [Process -> JobType] /\ disturbed' \in BOOLEAN
    BY <1>1 DEF Goes, BuyerInv, BuyerTypes
  <2> QED BY <2>1, <2>2 DEF BuyerInv, BuyerTypes
<1>6. ASSUME ~disturbed'
      PROVE  OneWriter' /\ WalletKept' /\ \A q \in Process : QuietFor(jobs'[q], Left(q)', env')
  <2>1. ~disturbed /\ env' = env
    BY <1>6
  <2>2. OneWriter /\ WalletKept /\ \A q \in Process : QuietFor(jobs[q], Left(q), env)
    BY <2>1 DEF BuyerInv, Quiet
  <2>3. QuietFor(NoJob, {}, env')
    BY DEF QuietFor, NoJob
  <2>4. OneWriter' /\ \A q \in Process : QuietFor(jobs'[q], Left(q)', env')
    BY <1>1, <2>1, <2>2, <2>3, QuietGoesOn
  <2> QED BY <2>1, <2>2, <2>4 DEF WalletKept
<1> QED BY <1>3, <1>4, <1>5, <1>6 DEF BuyerInv, Quiet

\* So does a process that dies, and what touches no file.
LEMMA DieGoesOn ==
  ASSUME NEW p \in Process, BuyerInv, Die(p)
  PROVE  BuyerInv'
<1>1. /\ env' \in {env, NoLines} /\ walletFile' \in {walletFile, Torn} /\ report' \in {report, Torn}
  BY DEF Die, CutOff
<1>2. deaths' \in 0 .. MaxDeaths
  BY SetupAssumption DEF Die, BuyerInv, BuyerTypes
<1> QED BY <1>1, <1>2, EndGoesOn DEF Die

LEMMA IdleGoesOn ==
  ASSUME BuyerInv, UNCHANGED <<files, jobs, told, disturbed, bounds>>, funded' \subseteq told
  PROVE  BuyerInv'
<1>1. /\ env' = env /\ walletFile' = walletFile /\ report' = report /\ jobs' = jobs
      /\ told' = told /\ disturbed' = disturbed /\ made' = made /\ runs' = runs /\ deaths' = deaths
  BY DEF files, bounds
<1>2. BuyerTypes'
  BY <1>1 DEF BuyerInv, BuyerTypes
<1>3. JobsReady'
  BY <1>1 DEF BuyerInv, JobsReady, Left
<1>4. KeysMade'
  BY <1>1 DEF BuyerInv, KeysMade
<1>5. \A p \in Process : Left(p)' = Left(p)
  BY <1>1 DEF Left
<1>6. Quiet'
  BY <1>1, <1>5 DEF BuyerInv, Quiet, OneWriter, WalletKept
<1> QED BY <1>2, <1>3, <1>4, <1>6 DEF BuyerInv

\* BuyerInv holds from the start on.
LEMMA BuyerInvInit == Init => BuyerInv
<1> SUFFICES ASSUME Init PROVE BuyerInv
  OBVIOUS
<1>1. /\ env = NoLines /\ walletFile = None /\ report = None
      /\ jobs = [p \in Process |-> NoJob]
      /\ funded = {} /\ told = {} /\ disturbed = FALSE
      /\ made = 0 /\ runs = 0 /\ deaths = 0
  BY DEF Init, BuyerInit
<1>2. \A p \in Process : jobs[p] = NoJob /\ Left(p) = {}
  BY <1>1, NoJobIsJob, NoStep DEF Left
<1>3. BuyerTypes
  <2>1. NoLines \in Env
    BY DEF NoLines, Env
  <2>2. jobs \in [Process -> JobType]
    BY <1>1, NoJobIsJob
  <2>3. 0 \in 0 .. MaxKeys /\ 0 \in 0 .. MaxRuns /\ 0 \in 0 .. MaxDeaths
    BY SetupAssumption
  <2>4. disturbed \in BOOLEAN /\ funded \subseteq told /\ told \subseteq 1 .. made
    BY <1>1
  <2> QED BY <1>1, <2>1, <2>2, <2>3, <2>4 DEF BuyerTypes
<1>4. JobsReady
  BY <1>2, NoJobIsJob, NoStep DEF JobsReady, ReadyFor
<1>5. KeysMade
  BY <1>1, <1>2 DEF KeysMade, KeysKnown, NoJob, NoLines
<1>6. Quiet
  BY <1>1, <1>2 DEF Quiet, OneWriter, WalletKept, QuietFor, NoJob, NoLines
<1> QED BY <1>3, <1>4, <1>5, <1>6 DEF BuyerInv

\* The installer's steps leave the buyer's files alone.
LEMMA InstallerGoesOn ==
  ASSUME BuyerInv, Installer
  PROVE  BuyerInv'
<1>1. Operator \in Process /\ Skill \in Agent
  BY HostAssumption DEF Agent
<1>2. ASSUME NEW target \in Agent, NEW url \in Url \cup {None}, NEW onboarding \in BOOLEAN,
             InstallAgentPackage(target, url, onboarding)
      PROVE  BuyerInv'
  <2>1. env \in Env
    BY DEF BuyerInv, BuyerTypes
  <2>2. PICK job : Begins(Operator, job)
    BY <1>2, <2>1, InstallerBegins
  <2> QED BY <1>1, <2>2, BeginGoesOn
<1>3. CASE CopyOrWrite
  <2>1. PICK step \in {"drop_skill", "copy_skill", "drop_plugin", "copy_plugin"} \cup File :
          At(Operator, step) /\ Then(Operator, jobs[Operator])
    BY <1>3 DEF CopyOrWrite, DropTree, CopyTree, WriteFile
  <2>2. step \notin {"wallet", "funding", "parse", "read_lines", "save_env"}
    BY FileIsNotNamed DEF NamedStep
  <2>3. /\ env' = env /\ walletFile' = walletFile /\ report' = report /\ funded' = funded
        /\ told' = told /\ made' = made /\ runs' = runs /\ deaths' = deaths
        /\ disturbed' = disturbed
    BY <1>3 DEF CopyOrWrite, files, bounds
  <2> QED BY <1>1, <2>1, <2>2, <2>3, PlainGoesOn
<1>4. CASE VerifyAgentInstallation
  <2>1. /\ env' = env /\ walletFile' = walletFile /\ report' = report /\ funded' = funded
        /\ told' = told /\ made' = made /\ runs' = runs /\ deaths' = deaths
        /\ disturbed' = disturbed /\ At(Operator, "verify")
    BY <1>4 DEF VerifyAgentInstallation, files, bounds
  <2>2. CASE Then(Operator, jobs[Operator])
    BY <1>1, <2>1, <2>2, PlainGoesOn
  <2>3. CASE jobs' = [jobs EXCEPT ![Operator] = NoJob]
    <3>1. deaths' \in 0 .. MaxDeaths /\ disturbed' = (disturbed \/ env' # env)
      BY <2>1 DEF BuyerInv, BuyerTypes
    <3> QED BY <1>1, <2>1, <2>3, <3>1, EndGoesOn
  <2> QED BY <1>4, <2>2, <2>3 DEF VerifyAgentInstallation
<1>5. CASE HostPostInstallCheck
  <2>1. /\ env' = env /\ walletFile' = walletFile /\ report' = report /\ funded' = funded
        /\ told' = told /\ made' = made /\ runs' = runs /\ deaths' = deaths
        /\ disturbed' = disturbed /\ At(Operator, "post_check")
        /\ Then(Operator, jobs[Operator])
    BY <1>5 DEF HostPostInstallCheck, files, bounds
  <2> QED BY <1>1, <2>1, PlainGoesOn
<1> QED BY <1>1, <1>2, <1>3, <1>4, <1>5 DEF Installer, InstallAiHost, InstallAimipaySkill

\* A server's tools work on the buyer's files as the shell's do.
LEMMA SetupToolGoesOn ==
  ASSUME NEW h \in Host, BuyerInv, SetupTool(h)
  PROVE  BuyerInv'
<1>1. h \in Process /\ h \in Agent /\ funded \subseteq told
  BY HostAssumption DEF Agent, BuyerInv, BuyerTypes
<1>2. CASE \/ \E force \in BOOLEAN : CreateWallet(h, force) \/ RunOnboarding(h, force)
           \/ \E url \in Url, profile \in Profile \cup {None} : SetMerchantUrl(h, url, profile)
           \/ CheckWalletFunding(h)
  <2>1. PICK job : Begins(h, job)
    BY <1>1, <1>2, AgentBegins
  <2> QED BY <1>1, <2>1, BeginGoesOn
<1>3. CASE ConnectRefused(h) \/ GetStartupOnboarding(h)
  <2>1. UNCHANGED <<files, jobs, told, disturbed, bounds>> /\ funded' = funded
    BY <1>3 DEF ConnectRefused, GetStartupOnboarding, buyerVars
  <2> QED BY <1>1, <2>1, IdleGoesOn
<1>4. ASSUME NEW step \in {"answer", "preview", "answer_funding"}, At(h, step),
             NEW answer, Answer(h, answer),
             \/ told' = told
             \/ step = "answer_funding" /\ told' = told \cup ({jobs[h].key} \ {None})
      PROVE  BuyerInv'
  <2>1. /\ env' = env /\ walletFile' = walletFile /\ report' = report /\ funded' = funded
        /\ made' = made /\ runs' = runs /\ deaths' = deaths /\ disturbed' = disturbed
        /\ Then(h, jobs[h])
    BY <1>4 DEF Answer, files, bounds
  <2>2. step \notin {"wallet", "funding", "parse", "read_lines", "save_env"}
    OBVIOUS
  <2> QED BY <1>1, <1>4, <2>1, <2>2, PlainGoesOn
<1>5. CASE AnswerOnboarding(h)
  BY <1>4, <1>5 DEF AnswerOnboarding
<1>6. CASE AnswerPreview(h)
  BY <1>4, <1>6 DEF AnswerPreview
<1>7. CASE AnswerFunding(h)
  BY <1>4, <1>7 DEF AnswerFunding
<1> QED BY <1>2, <1>3, <1>5, <1>6, <1>7 DEF SetupTool

\* Servers read the settings and do not write them.
LEMMA ServerGoesOn ==
  ASSUME NEW a \in Agent, BuyerInv, LoadEnv(a) \/ BuildServer(a) \/ StopServer(a)
  PROVE  BuyerInv'
<1>1. a \in Process /\ funded \subseteq told
  BY HostAssumption DEF BuyerInv, BuyerTypes
<1>2. ASSUME NEW step \in {"load", "serve"}, At(a, step), Then(a, jobs[a]),
             UNCHANGED <<files, funded, told, disturbed, bounds>>
      PROVE  BuyerInv'
  <2>1. /\ env' = env /\ walletFile' = walletFile /\ report' = report /\ funded' = funded
        /\ told' = told /\ made' = made /\ runs' = runs /\ deaths' = deaths
        /\ disturbed' = disturbed
    BY <1>2 DEF files, bounds
  <2>2. step \notin {"wallet", "funding", "parse", "read_lines", "save_env"}
    OBVIOUS
  <2> QED BY <1>1, <1>2, <2>1, <2>2, PlainGoesOn
<1>3. CASE LoadEnv(a)
  BY <1>2, <1>3 DEF LoadEnv
<1>4. CASE BuildServer(a)
  BY <1>2, <1>4 DEF BuildServer
<1>5. CASE StopServer(a)
  BY <1>1, <1>5, IdleGoesOn DEF StopServer, buyerVars
<1> QED BY <1>3, <1>4, <1>5

LEMMA BuyerInvStep == BuyerInv /\ [Next]_vars => BuyerInv'
<1> SUFFICES ASSUME BuyerInv, [Next]_vars PROVE BuyerInv'
  OBVIOUS
<1>1. /\ Operator \in Process /\ Skill \in Agent /\ Agent \subseteq Process /\ Host \subseteq Agent
      /\ funded \subseteq told
  BY HostAssumption DEF Agent, BuyerInv, BuyerTypes
<1>2. CASE ShellTool
  BY <1>1, <1>2, OperatorBegins, BeginGoesOn
<1>3. CASE Installer
  BY <1>3, InstallerGoesOn
<1>4. ASSUME NEW h \in Host, StartServer(h) PROVE BuyerInv'
  BY <1>1, <1>4, AgentBegins, BeginGoesOn DEF StartServer
<1>5. CASE RunSkill
  BY <1>1, <1>5, AgentBegins, BeginGoesOn DEF RunSkill
<1>6. ASSUME NEW p \in Process, ToolStep(p) \/ ProcessDies(p) PROVE BuyerInv'
  BY <1>6, BuyerStepGoesOn, DieGoesOn DEF ToolStep, ProcessDies
<1>7. ASSUME NEW key \in told \ funded, Fund(key) PROVE BuyerInv'
  <2>1. funded' \subseteq told /\ UNCHANGED <<files, jobs, told, disturbed, bounds>>
    BY <1>1, <1>7 DEF Fund
  <2> QED BY <2>1, IdleGoesOn
<1>8. CASE UNCHANGED vars
  BY <1>1, <1>8, IdleGoesOn DEF vars, buyerVars
<1> QED BY <1>2, <1>3, <1>4, <1>5, <1>6, <1>7, <1>8, SetupToolGoesOn, ServerGoesOn DEF Next

LEMMA BuyerInvHolds == Spec => []BuyerInv
  BY BuyerInvInit, BuyerInvStep, PTL DEF Spec
-------------------------------------------------------------------------------
\* The wallet whose address a tool has told its user stays the wallet of the settings,
\* and of the wallet file, and no report is shown next to a missing wallet, as long as no
\* two tools that write the settings overlap, no such write is cut off and no tool is
\* told to replace the wallet (BuyerSetup.ToldWalletIsKept).
THEOREM WalletIsKept == Spec => []ToldWalletIsKept
<1>1. BuyerInv => ToldWalletIsKept
  <2>1. report = Torn => SavedReport = None
    BY DEF SavedReport
  <2>2. report = None => SavedReport = None
    BY DEF SavedReport
  <2> QED BY <2>1, <2>2 DEF BuyerInv, Quiet, WalletKept, ToldWalletIsKept, InstallReport
<1> QED BY <1>1, BuyerInvHolds, PTL
-------------------------------------------------------------------------------
BuyerSteps ==
  CreatesWallet \cup {"parse", "prepare", "apply_profile", "funding", "probe", "report",
                      "print_wallet"}

\* What a step of a buyer tool leaves of its process's report.
FoundBy(p, found) ==
  \/ found = jobs[p].found
  \/ \E answered \in BOOLEAN : found = Inspected(answered)
  \/ /\ jobs[p].found \in Report
     /\ \E probe \in Probe :
          found = [jobs[p].found EXCEPT !.next = Advice(jobs[p].found.next, env.url, probe)]

\* A step of a buyer tool in terms of the job it leaves.
LEMMA BuyerStepMoves ==
  ASSUME NEW p \in Process, BuyerInv, BuyerStep(p)
  PROVE  \E job, S : /\ Goes(p, job, S) /\ S \subseteq Left(p) /\ Left(p) \ S \subseteq BuyerSteps
                     /\ FoundBy(p, job.found)
<1>1. jobs \in [Process -> JobType] /\ jobs[p] \in JobType /\ Program(jobs[p].todo)
  BY JobTyped
<1>2. ASSUME NEW job \in JobType, job.todo = jobs[p].todo, FoundBy(p, job.found),
             NEW step \in BuyerSteps, At(p, step), Then(p, job)
      PROVE  \E j, S : /\ Goes(p, j, S) /\ S \subseteq Left(p) /\ Left(p) \ S \subseteq BuyerSteps
                       /\ FoundBy(p, j.found)
  <2>1. Goes(p, job, Left(p) \ {step})
    BY <1>1, <1>2, StepTaken
  <2>2. Left(p) \ {step} \subseteq Left(p) /\ Left(p) \ (Left(p) \ {step}) \subseteq BuyerSteps
    OBVIOUS
  <2> QED BY <1>2, <2>1, <2>2
<1>3. CASE FindWallet(p)
  <2>1. CASE Then(p, [jobs[p] EXCEPT !.key = made']) /\ made' \in Key
    <3> DEFINE job == [jobs[p] EXCEPT !.key = made']
    <3>1. job \in JobType /\ job.todo = jobs[p].todo /\ job.found = jobs[p].found
      BY <1>1, <2>1 DEF JobType
    <3>2. At(p, "wallet") /\ Then(p, job) /\ "wallet" \in BuyerSteps
      BY <1>3, <2>1 DEF FindWallet, BuyerSteps, CreatesWallet
    <3> HIDE DEF job
    <3> QED BY <1>2, <3>1, <3>2 DEF FoundBy
  <2>2. CASE ThenSkip(p, Len(SaveWallet), [jobs[p] EXCEPT !.key = env.key])
    <3> DEFINE job == [jobs[p] EXCEPT !.key = env.key]
    <3>1. env.key \in Key \cup {None}
      BY EnvFields DEF BuyerInv, BuyerTypes
    <3>2. job \in JobType /\ job.todo = jobs[p].todo /\ job.found = jobs[p].found
      BY <1>1, <3>1 DEF JobType
    <3>3. At(p, "wallet") /\ ThenSkip(p, Len(SaveWallet), job)
      BY <1>3, <2>2 DEF FindWallet
    <3> HIDE DEF job
    <3>4. Goes(p, job, Left(p) \ CreatesWallet)
      BY <1>1, <3>2, <3>3, WalletSkipped
    <3> QED BY <3>2, <3>4 DEF FoundBy, BuyerSteps
  <2>3. made < MaxKeys => made + 1 \in Key
    BY SetupAssumption DEF BuyerInv, BuyerTypes, Key
  <2> QED BY <1>3, <2>1, <2>2, <2>3 DEF FindWallet
<1>4. CASE ReadLines(p)
  <2> DEFINE job == [jobs[p] EXCEPT !.lines = env]
  <2>1. job \in JobType /\ job.todo = jobs[p].todo /\ job.found = jobs[p].found
    BY <1>1 DEF JobType, BuyerInv, BuyerTypes
  <2>2. /\ Then(p, job)
        /\ At(p, "read_lines") \/ At(p, "parse")
        /\ "read_lines" \in BuyerSteps /\ "parse" \in BuyerSteps
    BY <1>4 DEF ReadLines, BuyerSteps, CreatesWallet
  <2> HIDE DEF job
  <2> QED BY <1>2, <2>1, <2>2 DEF FoundBy
<1>5. CASE SaveEnv(p)
  <2> DEFINE job == [jobs[p] EXCEPT !.lines = None]
  <2>1. job \in JobType /\ job.todo = jobs[p].todo /\ job.found = jobs[p].found
    BY <1>1 DEF JobType
  <2>2. Then(p, job) /\ At(p, "save_env") /\ "save_env" \in BuyerSteps
    BY <1>5 DEF SaveEnv, BuyerSteps, CreatesWallet
  <2> HIDE DEF job
  <2> QED BY <1>2, <2>1, <2>2 DEF FoundBy
<1>6. CASE WritePrepared(p)
  <2> DEFINE job == [jobs[p] EXCEPT !.lines = None, !.url = None, !.profile = None]
  <2>1. job \in JobType /\ job.todo = jobs[p].todo /\ job.found = jobs[p].found
    BY <1>1 DEF JobType
  <2>2. Then(p, job) /\ At(p, "prepare") /\ "prepare" \in BuyerSteps
    BY <1>6 DEF WritePrepared, BuyerSteps
  <2> HIDE DEF job
  <2> QED BY <1>2, <2>1, <2>2 DEF FoundBy
<1>7. CASE ApplyNetworkProfile(p)
  <2> DEFINE job == [jobs[p] EXCEPT !.lines = None, !.profile = None]
  <2>1. job \in JobType /\ job.todo = jobs[p].todo /\ job.found = jobs[p].found
    BY <1>1 DEF JobType
  <2>2. Then(p, job) /\ At(p, "apply_profile") /\ "apply_profile" \in BuyerSteps
    BY <1>7 DEF ApplyNetworkProfile, BuyerSteps
  <2> HIDE DEF job
  <2> QED BY <1>2, <2>1, <2>2 DEF FoundBy
<1>8. CASE InspectFunding(p)
  <2>1. PICK answered \in BOOLEAN : Then(p, [jobs[p] EXCEPT !.found = Inspected(answered)])
    BY <1>8 DEF InspectFunding
  <2> DEFINE job == [jobs[p] EXCEPT !.found = Inspected(answered)]
  <2>2. Inspected(answered) \in Report
    BY Reports DEF BuyerInv, BuyerTypes
  <2>3. job \in JobType /\ job.todo = jobs[p].todo /\ job.found = Inspected(answered)
    BY <1>1, <2>2 DEF JobType
  <2>4. Then(p, job) /\ At(p, "funding") /\ "funding" \in BuyerSteps
    BY <1>8, <2>1 DEF InspectFunding, BuyerSteps
  <2> HIDE DEF job
  <2> QED BY <1>2, <2>3, <2>4 DEF FoundBy
<1>9. CASE ProbeMerchants(p)
  <2>1. PICK probe \in Probe :
          Then(p, [jobs[p] EXCEPT !.found.next = Advice(jobs[p].found.next, env.url, probe)])
    BY <1>9 DEF ProbeMerchants
  <2> DEFINE next == Advice(jobs[p].found.next, env.url, probe)
             r == [jobs[p].found EXCEPT !.next = next]
             job == [jobs[p] EXCEPT !.found.next = next]
  <2>2. jobs[p].found \in Report
    BY <1>9, FundingIsPast DEF ProbeMerchants, UsesFound
  <2>3. next \in NextStep
    BY <2>2, AdvisedIsReport
  <2> HIDE DEF next
  <2>4. r \in Report
    BY <2>2, <2>3 DEF Report
  <2>5. job \in JobType /\ job.todo = jobs[p].todo /\ job.found = r
    BY <1>1, <2>4 DEF JobType
  <2>6. FoundBy(p, r)
    BY <2>2 DEF FoundBy, next
  <2>7. Then(p, job) /\ At(p, "probe") /\ "probe" \in BuyerSteps
    BY <1>9, <2>1 DEF ProbeMerchants, BuyerSteps, next
  <2> HIDE DEF job, r
  <2> QED BY <1>2, <2>5, <2>6, <2>7
<1>10. CASE SaveReport(p)
  <2> DEFINE job == [jobs[p] EXCEPT !.key = None, !.force = FALSE]
  <2>1. job \in JobType /\ job.todo = jobs[p].todo /\ job.found = jobs[p].found
    BY <1>1 DEF JobType
  <2>2. Then(p, job) /\ At(p, "report") /\ "report" \in BuyerSteps
    BY <1>10 DEF SaveReport, BuyerSteps
  <2> HIDE DEF job
  <2> QED BY <1>2, <2>1, <2>2 DEF FoundBy
<1>11. CASE SaveWalletFile(p) \/ PrintWallet(p)
  <2>1. /\ Then(p, jobs[p]) /\ "save_wallet" \in BuyerSteps /\ "print_wallet" \in BuyerSteps
        /\ At(p, "save_wallet") \/ At(p, "print_wallet")
    BY <1>11 DEF SaveWalletFile, PrintWallet, BuyerSteps, CreatesWallet
  <2> QED BY <1>1, <1>2, <2>1 DEF FoundBy
<1> QED BY <1>3, <1>4, <1>5, <1>6, <1>7, <1>8, <1>9, <1>10, <1>11 DEF BuyerStep

\* What a step does to the steps an agent or the operator has left.
LEMMA PlainMoves ==
  ASSUME NEW p \in Process, NEW step, BuyerInv, At(p, step), Then(p, jobs[p])
  PROVE  /\ Goes(p, jobs[p], Left(p) \ {step}) /\ step \in Left(p)
         /\ Left(p)' = Left(p) \ {step}
         /\ \A s \in Left(p) \ {step} : Rank(s) > Rank(step)
         /\ \A q \in Process \ {p} : Left(q)' = Left(q) /\ jobs'[q] = jobs[q]
<1>1. /\ step \in Left(p) /\ Goes(p, jobs[p], Left(p) \ {step})
      /\ \A s \in Left(p) \ {step} : Rank(s) > Rank(step)
  BY JobTyped, StepTaken
<1> QED BY <1>1 DEF Goes, Left

\* A tool begins, or ends early, for one process alone.
LEMMA BeginMoves ==
  ASSUME NEW p \in Process, NEW job, BuyerInv, Begins(p, job)
  PROVE  /\ Left(p) = {} /\ Left(p)' = StepsIn(job.todo) /\ Fresh(job)
         /\ jobs'[p].found = None
         /\ \A q \in Process \ {p} : Left(q)' = Left(q) /\ jobs'[q] = jobs[q]
<1>1. /\ Fresh(job) /\ jobs' = [jobs EXCEPT ![p] = job] /\ ~Working(p)
  BY DEF Begins, Begin
<1>2. jobs'[p] = job /\ \A q \in Process \ {p} : jobs'[q] = jobs[q]
  BY <1>1, JobTyped
<1> QED BY <1>1, <1>2, NoStep DEF Fresh, Working, Left

LEMMA EndMoves ==
  ASSUME NEW p \in Process, BuyerInv, jobs' = [jobs EXCEPT ![p] = NoJob]
  PROVE  /\ Left(p)' = {} /\ jobs'[p].found = None
         /\ \A q \in Process \ {p} : Left(q)' = Left(q) /\ jobs'[q] = jobs[q]
<1>1. jobs'[p] = NoJob /\ \A q \in Process \ {p} : jobs'[q] = jobs[q]
  BY JobTyped
<1> QED BY <1>1, NoStep, NoJobIsJob DEF Left, NoJob

LEMMA ToolMoves ==
  ASSUME NEW p \in Process, BuyerInv, BuyerStep(p)
  PROVE  \A q \in Process : Left(q)' \subseteq Left(q) /\ Left(q) \ Left(q)' \subseteq BuyerSteps
<1>1. PICK job, S : Goes(p, job, S) /\ S \subseteq Left(p) /\ Left(p) \ S \subseteq BuyerSteps
  BY BuyerStepMoves
<1>2. Left(p)' = S /\ \A q \in Process \ {p} : Left(q)' = Left(q)
  BY <1>1 DEF Goes, Left
<1> QED BY <1>1, <1>2
-------------------------------------------------------------------------------
\* HostInv holds from the start on.
LEMMA HostInvInit == Init => HostInv
<1> SUFFICES ASSUME Init PROVE HostInv
  OBVIOUS
<1>1. /\ disk = [f \in File |-> None] /\ install = NoInstall /\ installReport = None
      /\ server = [a \in Agent |-> Down] /\ reply = [a \in Agent |-> None] /\ outdated = {}
      /\ jobs = [p \in Process |-> NoJob]
  BY DEF Init, BuyerInit
<1>2. HostTypes
  <2>1. Down \in [up : BOOLEAN, key : Key \cup {None}, url : Url \cup {None},
                  startup : Report \cup {None}]
    BY DEF Down
  <2>2. NoInstall \in [conf : Conf \cup {None}, plan : SUBSET File, ok : BOOLEAN]
    BY DEF NoInstall
  <2> QED BY <1>1, <2>1, <2>2 DEF HostTypes
<1>3. CardsKnown
  BY <1>1 DEF CardsKnown, Down, Agent
<1>4. InstallReady
  <2>1. Left(Operator) = {}
    BY <1>1, NoJobIsJob, NoStep, HostAssumption DEF Left
  <2> QED BY <2>1 DEF InstallReady
<1> QED BY <1>2, <1>3, <1>4 DEF HostInv

LEMMA InstallTyped ==
  ASSUME HostInv
  PROVE  /\ install.conf \in Conf \cup {None} /\ install.plan \subseteq File
         /\ install.ok \in BOOLEAN
         /\ \A a \in Agent :
              /\ server[a].up \in BOOLEAN /\ server[a].key \in Key \cup {None}
              /\ server[a].url \in Url \cup {None} /\ server[a].startup \in Report \cup {None}
  BY DEF HostInv, HostTypes

\* The installer's steps.
LEMMA InstallerHostInv ==
  ASSUME BuyerInv, HostInv, Installer
  PROVE  HostInv'
<1>1. Operator \in Process /\ Skill \in Agent
  BY HostAssumption DEF Agent
<1>2. ASSUME NEW target \in Agent, NEW url \in Url \cup {None}, NEW onboarding \in BOOLEAN,
             InstallAgentPackage(target, url, onboarding)
      PROVE  HostInv'
  <2>1. /\ InstallValues(url) \in Conf
        /\ install' = [conf |-> InstallValues(url), plan |-> PlanOf(target), ok |-> TRUE]
    BY <1>2, InstallerBegins DEF BuyerInv, BuyerTypes
  <2>2. PlanOf(target) \subseteq File
    BY TargetSteps
  <2>3. /\ install'.conf \in Conf
        /\ install' \in [conf : Conf \cup {None}, plan : SUBSET File, ok : BOOLEAN]
    BY <2>1, <2>2
  <2>4. UNCHANGED <<disk, installReport, server, reply, outdated>>
    BY <1>2 DEF InstallAgentPackage
  <2> QED BY <2>3, <2>4 DEF HostInv, HostTypes, CardsKnown, InstallReady
<1>3. CASE CopyOrWrite
  <2>1. UNCHANGED <<install, installReport, server, reply, outdated>>
    BY <1>3 DEF CopyOrWrite
  <2>2. PICK step : /\ At(Operator, step) /\ Then(Operator, jobs[Operator])
                    /\ \/ \E tree \in {SkillTree, PluginTree} :
                            disk' = Without(Directory(tree)) \/ disk' = With(tree)
                       \/ step \in File /\ disk' = [disk EXCEPT ![step] = Contents(step)]
    BY <1>3 DEF CopyOrWrite, DropTree, CopyTree, WriteFile
  <2>3. step \in Left(Operator) /\ Left(Operator)' = Left(Operator) \ {step}
    BY <1>1, <2>2, PlainMoves
  <2>4. disk' \in [File -> Conf \cup {Copied, Torn, None}]
    <3>1. CASE \E tree \in {SkillTree, PluginTree} :
                 disk' = Without(Directory(tree)) \/ disk' = With(tree)
      BY <3>1 DEF HostInv, HostTypes, Without, With
    <3>2. CASE step \in File /\ disk' = [disk EXCEPT ![step] = Contents(step)]
      <4>1. install.conf \in Conf
        BY <2>3, <3>2 DEF HostInv, InstallReady
      <4>2. Contents(step) \in Conf \cup {Copied}
        BY <4>1 DEF Contents, Conf
      <4> QED BY <3>2, <4>2 DEF HostInv, HostTypes
    <3> QED BY <2>2, <3>1, <3>2
  <2> QED BY <2>1, <2>3, <2>4 DEF HostInv, HostTypes, CardsKnown, InstallReady
<1>4. CASE VerifyAgentInstallation
  <2>1. UNCHANGED <<disk, installReport, server, reply, outdated>> /\ At(Operator, "verify")
    BY <1>4 DEF VerifyAgentInstallation
  <2>2. CASE install' = [install EXCEPT !.ok = @ /\ Verified] /\ Then(Operator, jobs[Operator])
    <3>1. Left(Operator)' \subseteq Left(Operator)
      BY <1>1, <2>1, <2>2, PlainMoves
    <3>2. /\ install' \in [conf : Conf \cup {None}, plan : SUBSET File, ok : BOOLEAN]
          /\ install'.conf = install.conf
      BY <2>2 DEF HostInv, HostTypes
    <3> QED BY <2>1, <3>1, <3>2 DEF HostInv, HostTypes, CardsKnown, InstallReady
  <2>3. CASE install' = NoInstall /\ jobs' = [jobs EXCEPT ![Operator] = NoJob]
    <3>1. Left(Operator)' = {}
      BY <1>1, <2>3, EndMoves
    <3>2. NoInstall \in [conf : Conf \cup {None}, plan : SUBSET File, ok : BOOLEAN]
      BY DEF NoInstall
    <3> QED BY <2>1, <2>3, <3>1, <3>2 DEF HostInv, HostTypes, CardsKnown, InstallReady
  <2> QED BY <1>4, <2>2, <2>3 DEF VerifyAgentInstallation
<1>5. CASE HostPostInstallCheck
  <2>1. /\ installReport' = (install.ok /\ PostInstallOk) /\ install' = NoInstall
        /\ UNCHANGED <<disk, server, reply, outdated>>
        /\ At(Operator, "post_check") /\ Then(Operator, jobs[Operator])
    BY <1>5 DEF HostPostInstallCheck
  <2>2. Left(Operator)' \cap File = {}
    <3>1. /\ Left(Operator)' = Left(Operator) \ {"post_check"}
          /\ \A s \in Left(Operator) \ {"post_check"} : Rank(s) > Rank("post_check")
      BY <1>1, <2>1, PlainMoves
    <3> QED BY <3>1, RankOf DEF Step
  <2>3. NoInstall \in [conf : Conf \cup {None}, plan : SUBSET File, ok : BOOLEAN]
    BY DEF NoInstall
  <2>4. installReport' \in BOOLEAN
    BY <2>1, InstallTyped
  <2> QED BY <2>1, <2>2, <2>3, <2>4 DEF HostInv, HostTypes, CardsKnown, InstallReady
<1> QED BY <1>1, <1>2, <1>3, <1>4, <1>5 DEF Installer, InstallAiHost, InstallAimipaySkill

\* A step that leaves the host's files and servers alone, and the installer no nearer
\* to writing a file.
LEMMA SameHost ==
  ASSUME HostInv, UNCHANGED <<disk, install, installReport>>,
         server' = server, reply' \in [Agent -> NextStep \cup {"refused", None}],
         outdated' \subseteq Agent, Left(Operator)' \cap File \subseteq Left(Operator)
  PROVE  HostInv'
  BY DEF HostInv, HostTypes, CardsKnown, InstallReady

\* The answers of a server's tools are next steps.
LEMMA SetupToolHostInv ==
  ASSUME NEW h \in Host, BuyerInv, HostInv, SetupTool(h)
  PROVE  HostInv'
<1>1. /\ h \in Process /\ h \in Agent /\ Operator \in Process \ {h}
      /\ reply \in [Agent -> NextStep \cup {"refused", None}] /\ outdated \subseteq Agent
  BY HostAssumption DEF Agent, HostInv, HostTypes
<1>2. CASE \/ \E force \in BOOLEAN : CreateWallet(h, force) \/ RunOnboarding(h, force)
           \/ \E url \in Url, profile \in Profile \cup {None} : SetMerchantUrl(h, url, profile)
           \/ CheckWalletFunding(h)
  <2>1. PICK job : Begins(h, job)
    BY <1>1, <1>2, AgentBegins
  <2>2. Left(Operator)' = Left(Operator)
    BY <1>1, <2>1, BeginMoves
  <2>3. UNCHANGED <<disk, install, installReport, server, reply, outdated>>
    BY <1>2 DEF CreateWallet, RunOnboarding, SetMerchantUrl, CheckWalletFunding, CallTool, hostVars
  <2> QED BY <1>1, <2>2, <2>3, SameHost
<1>3. CASE ConnectRefused(h) \/ GetStartupOnboarding(h)
  <2>1. jobs' = jobs /\ UNCHANGED <<disk, install, installReport, server, outdated>>
    BY <1>3 DEF ConnectRefused, GetStartupOnboarding, buyerVars
  <2>2. Left(Operator)' = Left(Operator)
    BY <2>1 DEF Left
  <2>3. reply' \in [Agent -> NextStep \cup {"refused", None}]
    <3>1. server[h].up => server[h].startup.next \in NextStep
      BY DEF HostInv, CardsKnown, Report
    <3> QED BY <1>1, <1>3, <3>1 DEF ConnectRefused, GetStartupOnboarding
  <2> QED BY <1>1, <2>1, <2>2, <2>3, SameHost
<1>4. ASSUME NEW step, At(h, step), NEW answer \in NextStep, Answer(h, answer)
      PROVE  HostInv'
  <2>1. Left(Operator)' = Left(Operator)
    BY <1>1, <1>4, PlainMoves DEF Answer
  <2>2. reply' \in [Agent -> NextStep \cup {"refused", None}]
    BY <1>1, <1>4 DEF Answer
  <2>3. UNCHANGED <<disk, install, installReport, server, outdated>>
    BY <1>4 DEF Answer
  <2> QED BY <1>1, <2>1, <2>2, <2>3, SameHost
<1>5. CASE AnswerOnboarding(h)
  <2>1. jobs[h].found.next \in NextStep
    BY <1>1, <1>5, FundingIsPast DEF AnswerOnboarding, UsesFound, Report
  <2> QED BY <1>4, <1>5, <2>1 DEF AnswerOnboarding
<1>6. CASE AnswerPreview(h)
  <2>1. jobs[h].found.next \in NextStep
    BY <1>1, <1>6, FundingIsPast DEF AnswerPreview, UsesFound, Report
  <2>2. PICK probe \in Probe :
          Answer(h, CASE probe = "offers" -> "review_offers"
                      [] probe = "no_offers" -> "discover_offers"
                      [] OTHER -> jobs[h].found.next)
    BY <1>6 DEF AnswerPreview
  <2>3. (CASE probe = "offers" -> "review_offers"
           [] probe = "no_offers" -> "discover_offers"
           [] OTHER -> jobs[h].found.next) \in NextStep
    BY <2>1 DEF NextStep
  <2> QED BY <1>4, <1>6, <2>2, <2>3 DEF AnswerPreview
<1>7. CASE AnswerFunding(h)
  <2>1. \A answered \in BOOLEAN : AdapterFunding(answered) \in NextStep
    BY DEF AdapterFunding, LiveNextStep, NextStep
  <2> QED BY <1>4, <1>7, <2>1 DEF AnswerFunding
<1> QED BY <1>2, <1>3, <1>5, <1>6, <1>7 DEF SetupTool

\* A server is started, is given its environment, runs, and stops.
LEMMA ServerTyped ==
  ASSUME NEW a \in Agent, HostInv, UNCHANGED <<disk, install, installReport>>,
         NEW s \in [up : BOOLEAN, key : Key \cup {None}, url : Url \cup {None},
                    startup : Report \cup {None}],
         server' = [server EXCEPT ![a] = s], a \in Host /\ s.up => s.startup \in Report,
         reply' \in [Agent -> NextStep \cup {"refused", None}],
         outdated' \subseteq Agent, Left(Operator)' = Left(Operator)
  PROVE  HostInv'
<1>1. HostTypes'
  BY DEF HostInv, HostTypes
<1>2. CardsKnown'
  <2> SUFFICES ASSUME NEW h \in Host, server'[h].up PROVE server'[h].startup \in Report
    BY DEF CardsKnown
  <2>1. h \in Agent /\ server \in [Agent -> [up : BOOLEAN, key : Key \cup {None},
                                          url : Url \cup {None}, startup : Report \cup {None}]]
    BY DEF Agent, HostInv, HostTypes
  <2>2. CASE h = a
    BY <2>1, <2>2
  <2>3. CASE h # a
    BY <2>1, <2>3 DEF HostInv, CardsKnown
  <2> QED BY <2>2, <2>3
<1> QED BY <1>1, <1>2 DEF HostInv, InstallReady

\* A server that was built has what its start has found.
LEMMA ServerHostInv ==
  ASSUME NEW a \in Agent, BuyerInv, HostInv,
         \/ a \in Host /\ StartServer(a)
         \/ a = Skill /\ RunSkill
         \/ LoadEnv(a) \/ BuildServer(a) \/ StopServer(a)
  PROVE  HostInv'
<1> DEFINE ServerType == [up : BOOLEAN, key : Key \cup {None}, url : Url \cup {None},
                          startup : Report \cup {None}]
<1>1. /\ a \in Process /\ Operator \in Process \ {a} /\ server[a] \in ServerType
      /\ reply \in [Agent -> NextStep \cup {"refused", None}] /\ outdated \subseteq Agent
      /\ env.key \in Key \cup {None} /\ env.url \in Url \cup {None}
  BY HostAssumption, EnvFields DEF HostInv, HostTypes, BuyerInv, BuyerTypes
<1>2. ASSUME NEW key \in Key \cup {None}, NEW url \in Url \cup {None}, Begin(a, Job(Start)),
             server' = [server EXCEPT ![a] = [Down EXCEPT !.key = key, !.url = url]],
             UNCHANGED <<disk, install, installReport, reply, outdated>>
      PROVE  HostInv'
  <2>1. PICK job : Begins(a, job)
    BY <1>2, AgentBegins
  <2>2. Left(Operator)' = Left(Operator)
    BY <1>1, <2>1, BeginMoves
  <2> DEFINE s == [Down EXCEPT !.key = key, !.url = url]
  <2>3. s \in ServerType /\ ~s.up
    BY DEF Down
  <2>4. server' = [server EXCEPT ![a] = s]
    BY <1>2
  <2> HIDE DEF s
  <2> QED BY <1>1, <1>2, <2>2, <2>3, <2>4, ServerTyped
<1>3. CASE a \in Host /\ StartServer(a)
  <2>1. disk[a].key \in Key \cup {None} /\ disk[a].url \in Url \cup {None}
    BY <1>3 DEF StartServer, Conf
  <2> QED BY <1>2, <1>3, <2>1 DEF StartServer
<1>4. CASE a = Skill /\ RunSkill
  <2>1. disk["skill-runtime.json"].url \in Url \cup {None}
    BY <1>4 DEF RunSkill, Conf
  <2> QED BY <1>1, <1>2, <1>4, <2>1 DEF RunSkill
<1>5. Loaded(server[a]) \in ServerType /\ Loaded(server[a]).up = server[a].up
      /\ Loaded(server[a]).startup = server[a].startup
  BY <1>1 DEF Loaded
<1>6. CASE LoadEnv(a)
  <2>1. Left(Operator)' = Left(Operator)
    BY <1>1, <1>6, PlainMoves DEF LoadEnv
  <2>2. /\ server' = [server EXCEPT ![a] = Loaded(server[a])]
        /\ UNCHANGED <<disk, install, installReport, reply, outdated>>
    BY <1>6 DEF LoadEnv
  <2>3. a \in Host /\ Loaded(server[a]).up => Loaded(server[a]).startup \in Report
    BY <1>5 DEF HostInv, CardsKnown
  <2> QED BY <1>1, <1>5, <2>1, <2>2, <2>3, ServerTyped
<1>7. CASE BuildServer(a)
  <2> DEFINE s == [Loaded(server[a]) EXCEPT !.up = TRUE,
                                            !.startup = IF a = Skill THEN None ELSE jobs[a].found]
  <2>1. Left(Operator)' = Left(Operator) /\ jobs[a].found \in Report
    BY <1>1, <1>7, PlainMoves, FundingIsPast DEF BuildServer, UsesFound
  <2>2. server' = [server EXCEPT ![a] = s] /\ outdated' \subseteq Agent
        /\ UNCHANGED <<disk, install, installReport, reply>>
    BY <1>1, <1>7 DEF BuildServer
  <2>3. a \in Host => a # Skill
    BY HostAssumption
  <2>4. s \in ServerType /\ (a \in Host => s.startup \in Report)
    BY <1>5, <2>1, <2>3
  <2> HIDE DEF s
  <2> QED BY <1>1, <2>1, <2>2, <2>4, ServerTyped
<1>8. CASE StopServer(a)
  <2>1. Left(Operator)' = Left(Operator) /\ Down \in ServerType /\ ~Down.up
    BY <1>8 DEF StopServer, buyerVars, Left, Down
  <2>2. /\ server' = [server EXCEPT ![a] = Down] /\ outdated' \subseteq Agent
        /\ reply' \in [Agent -> NextStep \cup {"refused", None}]
        /\ UNCHANGED <<disk, install, installReport>>
    BY <1>1, <1>8 DEF StopServer
  <2> QED BY <2>1, <2>2, ServerTyped
<1> QED BY <1>3, <1>4, <1>6, <1>7, <1>8

\* A process that dies takes its server with it; a file it wrote may be cut off.
LEMMA DiskCutOffTyped ==
  ASSUME HostInv, DiskCutOff
  PROVE  disk' \in [File -> Conf \cup {Copied, Torn, None}]
<1>1. disk \in [File -> Conf \cup {Copied, Torn, None}]
  BY DEF HostInv, HostTypes
<1>2. \A S : Without(S) \in [File -> Conf \cup {Copied, Torn, None}]
  BY <1>1 DEF Without
<1>3. ASSUME At(Operator, "drop_skill") \/ At(Operator, "copy_skill")
      PROVE  /\ ~(At(Operator, "drop_plugin") \/ At(Operator, "copy_plugin"))
             /\ ~(Working(Operator) /\ Head(jobs[Operator].todo) \in File)
  BY <1>3, FileIsNotNamed DEF At, NamedStep
<1>4. ASSUME At(Operator, "drop_plugin") \/ At(Operator, "copy_plugin")
      PROVE  ~(Working(Operator) /\ Head(jobs[Operator].todo) \in File)
  BY <1>4, FileIsNotNamed DEF At, NamedStep
<1>5. CASE At(Operator, "drop_skill") \/ At(Operator, "copy_skill")
  <2>1. PICK S \in SUBSET SkillTree :
          disk' = [Without(Directory(SkillTree)) EXCEPT
            !["SKILL.md"] = IF "SKILL.md" \in S THEN Copied ELSE None,
            !["aimipay_skill_runner.py"] =
                IF "aimipay_skill_runner.py" \in S THEN Copied ELSE None]
    BY <1>5, <1>3 DEF DiskCutOff
  <2> QED BY <1>2, <2>1
<1>6. CASE /\ ~(At(Operator, "drop_skill") \/ At(Operator, "copy_skill"))
           /\ At(Operator, "drop_plugin") \/ At(Operator, "copy_plugin")
  <2>1. PICK S \in SUBSET PluginTree :
          disk' = [Without(PluginTree) EXCEPT
            !["plugin.json"] = IF "plugin.json" \in S THEN Copied ELSE None,
            ![".mcp.json"] = IF ".mcp.json" \in S THEN Copied ELSE None]
    BY <1>6, <1>4 DEF DiskCutOff
  <2> QED BY <1>2, <2>1
<1>7. CASE /\ ~(At(Operator, "drop_skill") \/ At(Operator, "copy_skill"))
           /\ ~(At(Operator, "drop_plugin") \/ At(Operator, "copy_plugin"))
  BY <1>1, <1>7 DEF DiskCutOff
<1> QED BY <1>5, <1>6, <1>7

LEMMA DieHostInv ==
  ASSUME NEW p \in Process, BuyerInv, HostInv, ProcessDies(p)
  PROVE  HostInv'
<1>1. jobs' = [jobs EXCEPT ![p] = NoJob]
  BY DEF ProcessDies, Die
<1>2. /\ Left(p)' = {} /\ \A q \in Process \ {p} : Left(q)' = Left(q)
      /\ Operator \in Process
  BY <1>1, EndMoves, HostAssumption
<1>3. HostTypes'
  <2>1. disk' \in [File -> Conf \cup {Copied, Torn, None}]
    BY DiskCutOffTyped DEF ProcessDies, HostInv, HostTypes
  <2>2. install' \in [conf : Conf \cup {None}, plan : SUBSET File, ok : BOOLEAN]
    <3>1. install' = NoInstall \/ install' = install
      BY DEF ProcessDies
    <3>2. NoInstall \in [conf : Conf \cup {None}, plan : SUBSET File, ok : BOOLEAN]
      BY DEF NoInstall
    <3> QED BY <3>1, <3>2 DEF HostInv, HostTypes
  <2>3. server' \in [Agent -> [up : BOOLEAN, key : Key \cup {None}, url : Url \cup {None},
                               startup : Report \cup {None}]]
    BY DEF ProcessDies, HostInv, HostTypes, Down
  <2>4. reply' \in [Agent -> NextStep \cup {"refused", None}] /\ outdated' \subseteq Agent
        /\ installReport' \in BOOLEAN \cup {None}
    BY DEF ProcessDies, HostInv, HostTypes
  <2> QED BY <2>1, <2>2, <2>3, <2>4 DEF HostTypes
<1>4. CardsKnown'
  BY DEF ProcessDies, HostInv, CardsKnown, Down, Agent
<1>5. InstallReady'
  BY <1>2 DEF ProcessDies, HostInv, InstallReady
<1> QED BY <1>3, <1>4, <1>5 DEF HostInv

\* Every step keeps HostInv.
LEMMA HostInvStep == BuyerInv /\ HostInv /\ [Next]_vars => HostInv'
<1> SUFFICES ASSUME BuyerInv, HostInv, [Next]_vars PROVE HostInv'
  OBVIOUS
<1>1. /\ Operator \in Process /\ Skill \in Agent /\ Agent \subseteq Process /\ Host \subseteq Agent
      /\ reply \in [Agent -> NextStep \cup {"refused", None}] /\ outdated \subseteq Agent
  BY HostAssumption DEF Agent, HostInv, HostTypes
<1>2. CASE ShellTool
  <2>1. PICK job : Begins(Operator, job) /\ StepsIn(job.todo) \cap File = {}
    BY <1>2, OperatorBegins
  <2>2. Left(Operator)' \cap File = {}
    BY <1>1, <2>1, BeginMoves
  <2>3. UNCHANGED <<disk, install, installReport, server, reply, outdated>>
    BY <1>2 DEF ShellTool, hostVars
  <2> QED BY <1>1, <2>2, <2>3, SameHost
<1>3. ASSUME NEW p \in Process, ToolStep(p) PROVE HostInv'
  <2>1. Left(Operator)' \subseteq Left(Operator)
    BY <1>1, <1>3, ToolMoves DEF ToolStep
  <2>2. UNCHANGED <<disk, install, installReport, server, reply>> /\ outdated' \subseteq Agent
    BY <1>1, <1>3 DEF ToolStep
  <2> QED BY <1>1, <2>1, <2>2, SameHost
<1>4. ASSUME NEW key \in told \ funded, Fund(key), UNCHANGED hostVars PROVE HostInv'
  <2>1. Left(Operator)' = Left(Operator)
    BY <1>4 DEF Fund, Left
  <2> QED BY <1>1, <1>4, <2>1, SameHost DEF hostVars
<1>5. CASE UNCHANGED vars
  <2>1. Left(Operator)' = Left(Operator)
    BY <1>5 DEF vars, buyerVars, Left
  <2> QED BY <1>1, <1>5, <2>1, SameHost DEF vars, hostVars
<1> QED BY <1>1, <1>2, <1>3, <1>4, <1>5, InstallerHostInv, SetupToolHostInv, ServerHostInv,
           DieHostInv DEF Next

LEMMA HostInvHolds == Spec => [](BuyerInv /\ HostInv)
<1>1. Init => BuyerInv /\ HostInv
  BY BuyerInvInit, HostInvInit
<1>2. BuyerInv /\ HostInv /\ [Next]_vars => (BuyerInv /\ HostInv)'
  BY BuyerInvStep, HostInvStep
<1> QED BY <1>1, <1>2, PTL DEF Spec

\* The settings, the files, the servers and the answers have their types.
THEOREM TypesHold == Spec => []TypeOK
<1>1. BuyerInv /\ HostInv => TypeOK
  <2> SUFFICES ASSUME BuyerInv, HostInv PROVE TypeOK
    OBVIOUS
  <2>1. BuyerTypeOK
    BY JobTyped DEF BuyerInv, BuyerTypes, BuyerTypeOK
  <2> QED BY <2>1, InstallTyped DEF HostInv, HostTypes, TypeOK
<1> QED BY <1>1, HostInvHolds, PTL
-------------------------------------------------------------------------------
\* A report is covered from the inspection of the wallet on: what the balances leave
\* open, no merchant makes up for.
LEMMA NothingIsCovered == Covered(None) /\ Covered(Torn)
  BY NoneIsNothing DEF Covered

\* The inspection says that a live wallet is ready only of one that holds the balances.
LEMMA InspectedIsCovered ==
  ASSUME NEW answered \in BOOLEAN
  PROVE  Covered(Inspected(answered))
<1> DEFINE r == Inspected(answered)
<1>1. r.key = env.key /\ r.rpc = env.rpc /\ r.next = Funding(env, answered)
  BY DEF Inspected
<1>2. Live(r) => env.rpc \in Network /\ env.rpc \notin {Smoke, Blank, None}
  BY <1>1, NoneIsNothing DEF Live
<1>3. Live(r) => Funding(env, answered) \in {"create_wallet", LiveNextStep(env, answered)}
  BY <1>2 DEF Funding
<1>4. LiveNextStep(env, answered) # "fund_wallet" => env.key \in funded
  BY DEF LiveNextStep
<1> HIDE DEF r
<1> QED BY <1>1, <1>3, <1>4 DEF Covered, r

\* No answer of a merchant leads past a wallet that is to be created or funded.
LEMMA AdvisedIsCovered ==
  ASSUME NEW r \in Report, Covered(r), NEW url, NEW probe \in Probe
  PROVE  Covered([r EXCEPT !.next = Advice(r.next, url, probe)])
<1> DEFINE next == Advice(r.next, url, probe)
           s == [r EXCEPT !.next = next]
<1>1. s.key = r.key /\ s.rpc = r.rpc /\ s.next = next
  BY DEF Report
<1>2. r.next \in {"create_wallet", "fund_wallet"} => next = r.next
  BY DEF Advice
<1> HIDE DEF s, next
<1>3. Covered(s)
  BY <1>1, <1>2 DEF Covered, Live
<1> QED BY <1>3 DEF s, next

\* What the steps that are no step of a buyer tool do to the buyer's files and jobs.
LEMMA OtherStep ==
  ASSUME BuyerInv, [Next]_vars, \A p \in Process : ~ToolStep(p)
  PROVE  /\ funded \subseteq funded' /\ report' \in {report, Torn}
         /\ ~disturbed' => ~disturbed /\ env' = env
         /\ \A q \in Process : jobs'[q].found \in {jobs[q].found, None}
<1> DEFINE Kept == \A q \in Process : jobs'[q].found \in {jobs[q].found, None}
           Same == UNCHANGED <<env, report, funded>> /\ (~disturbed' => ~disturbed)
<1>1. /\ Operator \in Process /\ Skill \in Agent /\ Agent \subseteq Process /\ Host \subseteq Agent
  BY HostAssumption DEF Agent
<1>2. ASSUME NEW p \in Process, NEW step, At(p, step), Then(p, jobs[p]) PROVE Kept
  <2>1. /\ Goes(p, jobs[p], Left(p) \ {step})
        /\ \A q \in Process \ {p} : jobs'[q] = jobs[q]
    BY <1>2, PlainMoves
  <2>2. jobs'[p].found \in {jobs[p].found, None}
    BY <2>1 DEF Goes, SameLocals, NoJob
  <2> QED BY <2>1, <2>2
<1>3. ASSUME NEW p \in Process, NEW job, Begins(p, job) PROVE Kept /\ Same
  <2>1. Kept
    BY <1>3, BeginMoves
  <2>2. Same
    BY <1>3 DEF Begins, Begin, files
  <2> QED BY <2>1, <2>2
<1>4. ASSUME NEW p \in Process, jobs' = [jobs EXCEPT ![p] = NoJob] PROVE Kept
  BY <1>4, EndMoves
<1>5. CASE ShellTool
  BY <1>1, <1>3, <1>5, OperatorBegins
<1>6. CASE Installer
  <2>1. ASSUME NEW target \in Agent, NEW url \in Url \cup {None}, NEW onboarding \in BOOLEAN,
               InstallAgentPackage(target, url, onboarding)
        PROVE  Kept /\ Same
    BY <1>1, <1>3, <2>1, InstallerBegins DEF BuyerInv, BuyerTypes
  <2>2. CASE CopyOrWrite
    <3>1. PICK step : At(Operator, step) /\ Then(Operator, jobs[Operator])
      BY <2>2 DEF CopyOrWrite, DropTree, CopyTree, WriteFile
    <3>2. Same
      BY <2>2 DEF CopyOrWrite, files
    <3> QED BY <1>1, <1>2, <3>1, <3>2
  <2>3. CASE VerifyAgentInstallation
    <3>1. Same
      BY <2>3 DEF VerifyAgentInstallation, files
    <3> QED BY <1>1, <1>2, <1>4, <2>3, <3>1 DEF VerifyAgentInstallation
  <2>4. CASE HostPostInstallCheck
    <3>1. Same
      BY <2>4 DEF HostPostInstallCheck, files
    <3> QED BY <1>1, <1>2, <2>4, <3>1 DEF HostPostInstallCheck
  <2> QED BY <1>1, <1>6, <2>1, <2>2, <2>3, <2>4 DEF Installer, InstallAiHost, InstallAimipaySkill
<1>7. ASSUME NEW h \in Host, StartServer(h) PROVE Kept /\ Same
  BY <1>1, <1>3, <1>7, AgentBegins DEF StartServer
<1>8. CASE RunSkill
  BY <1>1, <1>3, <1>8, AgentBegins DEF RunSkill
<1>9. ASSUME NEW h \in Host, SetupTool(h) PROVE Kept /\ Same
  <2>1. CASE \/ \E force \in BOOLEAN : CreateWallet(h, force) \/ RunOnboarding(h, force)
             \/ \E url \in Url, profile \in Profile \cup {None} : SetMerchantUrl(h, url, profile)
             \/ CheckWalletFunding(h)
    BY <1>1, <1>3, <2>1, AgentBegins
  <2>2. CASE ConnectRefused(h) \/ GetStartupOnboarding(h)
    BY <2>2 DEF ConnectRefused, GetStartupOnboarding, buyerVars, files
  <2>3. ASSUME NEW step, At(h, step), NEW answer, Answer(h, answer) PROVE Kept /\ Same
    <3>1. Same
      BY <2>3 DEF Answer, files
    <3> QED BY <1>1, <1>2, <2>3, <3>1 DEF Answer
  <2>4. CASE AnswerOnboarding(h) \/ AnswerPreview(h) \/ AnswerFunding(h)
    BY <2>3, <2>4 DEF AnswerOnboarding, AnswerPreview, AnswerFunding
  <2> QED BY <1>9, <2>1, <2>2, <2>4 DEF SetupTool
<1>10. ASSUME NEW a \in Agent, LoadEnv(a) \/ BuildServer(a) \/ StopServer(a) PROVE Kept /\ Same
  <2>1. Same
    BY <1>10 DEF LoadEnv, BuildServer, StopServer, buyerVars, files
  <2>2. CASE LoadEnv(a) \/ BuildServer(a)
    BY <1>1, <1>2, <2>1, <2>2 DEF LoadEnv, BuildServer
  <2>3. CASE StopServer(a)
    BY <2>1, <2>3 DEF StopServer, buyerVars
  <2> QED BY <1>10, <2>2, <2>3
<1>11. ASSUME NEW p \in Process, ProcessDies(p)
       PROVE  Kept /\ funded' = funded /\ report' \in {report, Torn}
              /\ (~disturbed' => ~disturbed /\ env' = env)
  BY <1>4, <1>11 DEF ProcessDies, Die, CutOff
<1>12. ASSUME NEW key \in told \ funded, Fund(key) 
       PROVE  Kept /\ funded \subseteq funded' /\ UNCHANGED <<env, report, disturbed>>
  BY <1>12 DEF Fund, files
<1>13. CASE UNCHANGED vars
  BY <1>13 DEF vars, buyerVars, files
<1> QED BY <1>1, <1>5, <1>6, <1>7, <1>8, <1>9, <1>10, <1>11, <1>12, <1>13 DEF Next

\* What a step does to a server: nothing, an end or a new start, or a look at the settings.
ServerMoves(a) ==
  \/ server'[a] = server[a] /\ (a \in outdated => a \in outdated')
  \/ ~server'[a].up /\ server'[a].startup = None
  \/ LoadEnv(a) /\ server'[a] = Loaded(server[a])
  \/ BuildServer(a) /\ server'[a] = [Loaded(server[a]) EXCEPT !.up = TRUE,
                                     !.startup = IF a = Skill THEN None ELSE jobs[a].found]

LEMMA ServerStep ==
  ASSUME HostInv, [Next]_vars, NEW a \in Agent
  PROVE  ServerMoves(a)
<1>1. DOMAIN server = Agent /\ Host \subseteq Agent /\ Skill \in Agent
  BY DEF HostInv, HostTypes, Agent
<1>2. CASE UNCHANGED <<server, outdated>>
  BY <1>2 DEF ServerMoves
<1>3. ASSUME NEW b \in Agent, NEW key, NEW url, UNCHANGED outdated,
             server' = [server EXCEPT ![b] = [Down EXCEPT !.key = key, !.url = url]]
      PROVE  ServerMoves(a)
  <2> DEFINE s == [Down EXCEPT !.key = key, !.url = url]
  <2>1. ~s.up /\ s.startup = None
    BY DEF Down
  <2>2. server' = [server EXCEPT ![b] = s]
    BY <1>3
  <2> HIDE DEF s
  <2> QED BY <1>1, <1>3, <2>1, <2>2 DEF ServerMoves
<1>4. ASSUME NEW h \in Host, StartServer(h) PROVE ServerMoves(a)
  BY <1>1, <1>3, <1>4 DEF StartServer
<1>5. CASE RunSkill
  BY <1>1, <1>3, <1>5 DEF RunSkill
<1>6. ASSUME NEW b \in Agent, LoadEnv(b) PROVE ServerMoves(a)
  <2>1. server' = [server EXCEPT ![b] = Loaded(server[b])] /\ outdated' = outdated
    BY <1>6 DEF LoadEnv
  <2>2. CASE a = b
    BY <1>1, <1>6, <2>1, <2>2 DEF ServerMoves
  <2>3. CASE a # b
    BY <1>1, <2>1, <2>3 DEF ServerMoves
  <2> QED BY <2>2, <2>3
<1>7. ASSUME NEW b \in Agent, BuildServer(b) PROVE ServerMoves(a)
  <2> DEFINE s == [Loaded(server[b]) EXCEPT !.up = TRUE,
                                            !.startup = IF b = Skill THEN None ELSE jobs[b].found]
  <2>1. server' = [server EXCEPT ![b] = s] /\ outdated' = outdated \ {b}
    BY <1>7 DEF BuildServer
  <2>2. CASE a = b
    BY <1>1, <1>7, <2>1, <2>2 DEF ServerMoves
  <2>3. CASE a # b
    BY <1>1, <2>1, <2>3 DEF ServerMoves
  <2> QED BY <2>2, <2>3
<1>8. ASSUME NEW b \in Agent, StopServer(b) PROVE ServerMoves(a)
  BY <1>1, <1>8 DEF StopServer, ServerMoves, Down
<1>9. ASSUME NEW p \in Process, ProcessDies(p) PROVE ServerMoves(a)
  BY <1>9 DEF ProcessDies, ServerMoves, Down
<1>10. ASSUME NEW p \in Process, ToolStep(p) PROVE ServerMoves(a)
  BY <1>10 DEF ToolStep, ServerMoves
<1>11. CASE ShellTool \/ Installer
  <2>1. UNCHANGED <<server, outdated>>
    BY <1>11 DEF ShellTool, hostVars, Installer, InstallAiHost, InstallAimipaySkill,
       InstallAgentPackage, CopyOrWrite, VerifyAgentInstallation, HostPostInstallCheck
  <2> QED BY <1>2, <2>1
<1>12. ASSUME NEW h \in Host, SetupTool(h) PROVE ServerMoves(a)
  <2>1. UNCHANGED <<server, outdated>>
    BY <1>12 DEF SetupTool, ConnectRefused, CreateWallet, RunOnboarding, SetMerchantUrl, CallTool,
       CheckWalletFunding, GetStartupOnboarding, AnswerOnboarding, AnswerPreview,
       AnswerFunding, Answer, hostVars
  <2> QED BY <1>2, <2>1
<1> QED BY <1>2, <1>4, <1>5, <1>6, <1>7, <1>8, <1>9, <1>10, <1>11, <1>12
        DEF Next, vars, hostVars

\* Reports go from jobs to the file and the cards, and wallets stay funded.
LEMMA ReportsStep == BuyerInv /\ HostInv /\ ReportsCovered /\ [Next]_vars => ReportsCovered'
<1> SUFFICES ASSUME BuyerInv, HostInv, ReportsCovered, [Next]_vars PROVE ReportsCovered'
  OBVIOUS
<1>1. Agent \subseteq Process
  BY HostAssumption
<1>2. /\ funded \subseteq funded'
      /\ \A p \in Process : Covered(jobs'[p].found)
      /\ Covered(report')
  <2>1. CASE \A p \in Process : ~ToolStep(p)
    BY <2>1, OtherStep, NothingIsCovered DEF ReportsCovered
  <2>2. ASSUME NEW p \in Process, ToolStep(p)
        PROVE  /\ funded' = funded /\ Covered(report')
               /\ \A q \in Process : Covered(jobs'[q].found)
    <3>1. funded' = funded /\ report' \in {report, jobs[p].found}
      BY <2>2 DEF ToolStep, BuyerStep, FindWallet, ReadLines, SaveEnv, SaveWalletFile,
         WritePrepared, ApplyNetworkProfile, InspectFunding, ProbeMerchants, SaveReport,
         PrintWallet, files
    <3>2. PICK job, S : Goes(p, job, S) /\ FoundBy(p, job.found)
      BY <2>2, BuyerStepMoves DEF ToolStep
    <3>3. Covered(job.found)
      <4>1. CASE job.found = jobs[p].found
        BY <4>1 DEF ReportsCovered
      <4>2. CASE \E answered \in BOOLEAN : job.found = Inspected(answered)
        BY <4>2, InspectedIsCovered
      <4>3. ASSUME jobs[p].found \in Report, NEW probe \in Probe,
                   job.found = [jobs[p].found EXCEPT !.next =
                                  Advice(jobs[p].found.next, env.url, probe)]
            PROVE  Covered(job.found)
        <5>1. Covered(jobs[p].found)
          BY DEF ReportsCovered
        <5> QED BY <4>3, <5>1, AdvisedIsCovered
      <4> QED BY <3>2, <4>1, <4>2, <4>3 DEF FoundBy
    <3>4. jobs'[p].found \in {job.found, None} /\ \A q \in Process \ {p} : jobs'[q] = jobs[q]
      BY <3>2 DEF Goes, SameLocals, NoJob
    <3> QED BY <3>1, <3>3, <3>4, NothingIsCovered DEF ReportsCovered
  <2> QED BY <2>1, <2>2
<1>3. \A a \in Agent : Covered(server'[a].startup)
  <2> SUFFICES ASSUME NEW a \in Agent PROVE Covered(server'[a].startup)
    OBVIOUS
  <2>1. server[a] \in [up : BOOLEAN, key : Key \cup {None}, url : Url \cup {None},
                      startup : Report \cup {None}]
    BY DEF HostInv, HostTypes
  <2>2. server'[a].startup \in {server[a].startup, jobs[a].found, None}
    BY <2>1, ServerStep DEF ServerMoves, Loaded
  <2> QED BY <1>1, <2>2, NothingIsCovered DEF ReportsCovered
<1> QED BY <1>2, <1>3 DEF ReportsCovered, Covered, Live

LEMMA ReportsInit == Init => ReportsCovered
<1> SUFFICES ASSUME Init PROVE ReportsCovered
  OBVIOUS
<1>1. report = None /\ jobs = [p \in Process |-> NoJob] /\ server = [a \in Agent |-> Down]
  BY DEF Init, BuyerInit
<1>2. NoJob.found = None /\ Down.startup = None
  BY DEF NoJob, Down
<1> QED BY <1>1, <1>2, NothingIsCovered DEF ReportsCovered

\* Neither the doctor's page nor a running server's card says that the buyer can purchase
\* on a live network unless the wallet that was looked at held the minimum balances
\* (AgentHosts.CompletedIsFunded), whatever merchants answer, and whoever overlaps or dies.
THEOREM CompletedHasFunds == Spec => []CompletedIsFunded
<1>1. BuyerInv /\ HostInv /\ ReportsCovered => CompletedIsFunded
  <2> SUFFICES ASSUME BuyerInv, HostInv, ReportsCovered PROVE CompletedIsFunded
    OBVIOUS
  <2>1. ASSUME NEW r \in Report, Covered(r), Completed(r), Live(r) PROVE r.key \in funded
    BY <2>1 DEF Covered, Completed
  <2>2. \/ InstallReport.onboarding = None
        \/ InstallReport.onboarding = report /\ report \in Report
    BY DEF InstallReport, SavedReport, BuyerInv, BuyerTypes
  <2>3. ASSUME NEW h \in Host, StartupCard(h).tone = "success", Live(server[h].startup)
        PROVE  server[h].startup.key \in funded
    <3>1. server[h].startup # None /\ Completed(server[h].startup)
      BY <2>3 DEF StartupCard
    <3>2. server[h].startup \in Report /\ Covered(server[h].startup)
      BY <3>1, InstallTyped DEF Agent, ReportsCovered
    <3> QED BY <2>1, <2>3, <3>1, <3>2
  <2> QED BY <2>1, <2>2, <2>3 DEF CompletedIsFunded, ReportsCovered
<1>2. Init => BuyerInv /\ HostInv /\ ReportsCovered
  BY BuyerInvInit, HostInvInit, ReportsInit
<1>3. BuyerInv /\ HostInv /\ ReportsCovered /\ [Next]_vars
        => (BuyerInv /\ HostInv /\ ReportsCovered)'
  BY BuyerInvStep, HostInvStep, ReportsStep
<1> QED BY <1>1, <1>2, <1>3, PTL DEF Spec
-------------------------------------------------------------------------------
\* Nobody but a tool that was told to, or that overlapped with another, changes the wallet
\* the settings have.
LEMMA KeyIsKept ==
  ASSUME NEW p \in Process, BuyerInv, BuyerStep(p), ~disturbed, env.key # None
  PROVE  env'.key = env.key
<1>1. /\ QuietFor(jobs[p], Left(p), env) /\ ReadyFor(jobs[p], Left(p))
      /\ jobs \in [Process -> JobType] /\ jobs[p] \in JobType /\ Program(jobs[p].todo)
  BY JobTyped DEF BuyerInv, Quiet
<1>2. ASSUME NEW step, At(p, step)
      PROVE  step \in Left(p) /\ \A s \in Left(p) \ {step} : Rank(s) > Rank(step)
  <2>1. jobs[p].todo # <<>> /\ Head(jobs[p].todo) = step
    BY <1>2 DEF At, Working
  <2> DEFINE left == SubSeq(jobs[p].todo, 2, Len(jobs[p].todo))
  <2> HIDE DEF left
  <2> QED BY <1>1, <2>1, Onward DEF Left, left
<1>3. CASE SaveEnv(p)
  <2>1. "save_env" \in Left(p) /\ "wallet" \notin Left(p)
    BY <1>2, <1>3, RankOf DEF SaveEnv
  <2> QED BY <1>1, <2>1 DEF QuietFor
<1>4. ASSUME NEW step \in {"prepare", "apply_profile"}, At(p, step)
      PROVE  step \in Left(p) /\ jobs[p].lines = env
  <2>1. step \in Left(p) /\ "parse" \notin Left(p)
    BY <1>2, <1>4, RankOf
  <2> QED BY <1>1, <2>1 DEF QuietFor
<1>5. env \in Env
  BY DEF BuyerInv, BuyerTypes
<1>6. CASE WritePrepared(p)
  <2>1. jobs[p].lines = env /\ env' = Prepared(env, jobs[p].url, jobs[p].profile)
    BY <1>4, <1>6 DEF WritePrepared
  <2> QED BY <1>5, <2>1, JobTyped, PreparedKeeps
<1>7. CASE ApplyNetworkProfile(p)
  <2>1. /\ jobs[p].lines = env /\ env' = WithProfile(env, jobs[p].profile)
        /\ "apply_profile" \in Left(p)
    BY <1>4, <1>7 DEF ApplyNetworkProfile
  <2>2. jobs[p].profile \in Profile
    BY <1>1, <2>1 DEF ReadyFor
  <2> QED BY <1>5, <2>1, <2>2, WithProfileKeeps
<1> QED BY <1>3, <1>6, <1>7 DEF BuyerStep, FindWallet, ReadLines, SaveWalletFile, InspectFunding,
        ProbeMerchants, SaveReport, PrintWallet, files

\* A server gets its wallet from the settings when it is built, and they keep it.
LEMMA ServersStep ==
  BuyerInv /\ HostInv /\ ServerMatchesSettings /\ [Next]_vars => ServerMatchesSettings'
<1> SUFFICES ASSUME BuyerInv, HostInv, ServerMatchesSettings, [Next]_vars, ~disturbed',
                    NEW a \in Agent, server'[a].up
             PROVE  /\ server'[a].key = env'.key /\ env'.key # None
                    /\ a \in outdated' \/ env'.url \in {server'[a].url, None}
  BY DEF ServerMatchesSettings
<1>1. a \in Process /\ server[a] \in [up : BOOLEAN, key : Key \cup {None}, url : Url \cup {None},
                                    startup : Report \cup {None}]
  BY HostAssumption DEF HostInv, HostTypes
<1>2. ASSUME ~disturbed, server[a].up
      PROVE  /\ server[a].key = env.key /\ env.key # None
             /\ a \in outdated \/ env.url \in {server[a].url, None}
  BY <1>2 DEF ServerMatchesSettings
<1>3. ASSUME NEW p \in Process, ToolStep(p)
      PROVE  /\ server'[a].key = env'.key /\ env'.key # None
             /\ a \in outdated' \/ env'.url \in {server'[a].url, None}
  <2>1. /\ server' = server /\ disturbed' = disturbed
        /\ outdated' = IF env'.url = env.url THEN outdated
                       ELSE outdated \cup {b \in Agent : server[b].up}
    BY <1>3 DEF ToolStep, BuyerStep, FindWallet, ReadLines, SaveEnv, SaveWalletFile,
       WritePrepared, ApplyNetworkProfile, InspectFunding, ProbeMerchants, SaveReport, PrintWallet
  <2>2. env'.key = env.key
    BY <1>2, <1>3, <2>1, KeyIsKept DEF ToolStep
  <2> QED BY <1>2, <2>1, <2>2
<1>4. ASSUME \A p \in Process : ~ToolStep(p)
      PROVE  /\ server'[a].key = env'.key /\ env'.key # None
             /\ a \in outdated' \/ env'.url \in {server'[a].url, None}
  <2>1. ~disturbed /\ env' = env
    BY <1>4, OtherStep
  <2>2. CASE server'[a] = server[a] /\ (a \in outdated => a \in outdated')
    BY <1>2, <2>1, <2>2
  <2>3. CASE LoadEnv(a) /\ server'[a] = Loaded(server[a])
    <3>1. outdated' = outdated /\ server[a].up
      BY <1>1, <2>3 DEF LoadEnv, Loaded
    <3> QED BY <1>1, <1>2, <2>1, <2>3, <3>1 DEF Loaded
  <2>4. CASE BuildServer(a) /\ server'[a] = [Loaded(server[a]) EXCEPT !.up = TRUE,
                                     !.startup = IF a = Skill THEN None ELSE jobs[a].found]
    <3>1. At(a, "serve") /\ Then(a, jobs[a])
      BY <2>4 DEF BuildServer
    <3>2. "serve" \in Left(a) /\ \A s \in Left(a) \ {"serve"} : Rank(s) > Rank("serve")
      BY <1>1, <3>1, PlainMoves
    <3>3. "save_env" \notin Left(a)
      BY <3>2, RankOf
    <3>4. env.key # None
      BY <1>1, <2>1, <3>2, <3>3 DEF BuyerInv, Quiet, QuietFor, Saved
    <3> QED BY <1>1, <2>1, <2>4, <3>4 DEF Loaded
  <2> QED BY <2>2, <2>3, <2>4, ServerStep DEF ServerMoves
<1> QED BY <1>3, <1>4

\* As long as no two tools that write the settings overlap, no such write is cut off and no
\* tool is told to replace the wallet, every server that runs has the wallet and, unless the
\* merchant was changed since it started, the merchant of the settings
\* (AgentHosts.ServerMatchesSettings).
THEOREM ServersFollowSettings == Spec => []ServerMatchesSettings
<1>1. Init => BuyerInv /\ HostInv /\ ServerMatchesSettings
  <2>1. Init => ServerMatchesSettings
    BY DEF Init, ServerMatchesSettings, Down
  <2> QED BY <2>1, BuyerInvInit, HostInvInit
<1>2. BuyerInv /\ HostInv /\ ServerMatchesSettings /\ [Next]_vars
        => (BuyerInv /\ HostInv /\ ServerMatchesSettings)'
  BY BuyerInvStep, HostInvStep, ServersStep
<1> QED BY <1>1, <1>2, PTL DEF Spec
-------------------------------------------------------------------------------
\* Whatever an earlier installation left behind, the files of this one are in place, or
\* the step that puts them there is still to come.
LEMMA InstallGoesOnInit == Init => InstallGoesOn
<1> SUFFICES ASSUME Init PROVE InstallGoesOn
  OBVIOUS
<1>1. /\ install = NoInstall /\ installReport = None /\ jobs = [p \in Process |-> NoJob]
      /\ None \notin BOOLEAN
  BY HostAssumption DEF Init, BuyerInit
<1>2. Left(Operator) = {}
  BY <1>1, NoJobIsJob, NoStep, HostAssumption DEF Left
<1> QED BY <1>1, <1>2 DEF InstallGoesOn, NoInstall

\* Steps that write no installed file.
LEMMA SameInstall ==
  ASSUME HostInv, InstallGoesOn, UNCHANGED <<disk, install, installReport>>,
         Left(Operator)' \subseteq Left(Operator),
         Left(Operator) \ Left(Operator)' \subseteq BuyerSteps
  PROVE  InstallGoesOn'
<1>1. \A f \in File : WriterOf(f) \in File \cup {"copy_skill", "copy_plugin"}
  BY DEF WriterOf
<1>2. /\ BuyerSteps \cap (File \cup {"drop_skill", "copy_skill", "drop_plugin", "copy_plugin"}) = {}
      /\ "skill-runtime.json" \in File /\ ".mcp.json" \in File
  BY FileIsNotNamed DEF BuyerSteps, CreatesWallet, NamedStep, File, PackageFile, PluginTree
<1>3. ASSUME NEW f \in install.plan PROVE InPlace(f)' \/ WriterOf(f) \in Left(Operator)'
  <2>1. InPlace(f)' = InPlace(f)
    BY DEF InPlace
  <2>2. WriterOf(f) \notin BuyerSteps
    BY <1>1, <1>2, InstallTyped
  <2> QED BY <2>1, <2>2 DEF InstallGoesOn
<1> QED BY <1>2, <1>3 DEF InstallGoesOn

\* A file's writer comes before the files are checked.
LEMMA Writers ==
  ASSUME NEW f \in File
  PROVE  /\ WriterOf(f) \in Step /\ Rank(WriterOf(f)) < 10
         /\ f \in {"skill-runtime.json", ".mcp.json", "marketplace.json", "connector"} \cup Host
              => WriterOf(f) = f
<1>1. f \in {"SKILL.md", "aimipay_skill_runner.py"} \/ f = "plugin.json"
        \/ f \in {"skill-runtime.json", ".mcp.json", "marketplace.json", "connector"} \cup Host
  BY DEF File, PackageFile, SkillTree, PluginTree
<1>2. \A h \in Host : h \notin PackageFile
  BY HostAssumption
<1>3. CASE f \in {"SKILL.md", "aimipay_skill_runner.py"}
  <2>1. WriterOf(f) = "copy_skill"
    BY <1>3 DEF WriterOf, SkillTree
  <2>2. /\ f \notin Host
        /\ f \notin {"skill-runtime.json", ".mcp.json", "marketplace.json", "connector"}
    BY <1>2, <1>3 DEF PackageFile, SkillTree
  <2> QED BY <2>1, <2>2, RankOf DEF Step, NamedStep
<1>4. CASE f = "plugin.json"
  <2>1. WriterOf(f) = "copy_plugin"
    BY <1>4 DEF WriterOf, SkillTree
  <2>2. f \notin Host
    BY <1>2, <1>4 DEF PackageFile, PluginTree
  <2> QED BY <1>4, <2>1, <2>2, RankOf DEF Step, NamedStep
<1>5. CASE f \in {"skill-runtime.json", ".mcp.json", "marketplace.json", "connector"} \cup Host
  <2>1. WriterOf(f) = f
    BY <1>2, <1>5 DEF WriterOf, SkillTree, PluginTree, PackageFile
  <2>2. Rank(f) < 10
    BY <1>5, RankOf
  <2> QED BY <2>1, <2>2 DEF Step
<1> QED BY <1>1, <1>3, <1>4, <1>5

\* Once the files are to be checked, they are in place.
LEMMA AllInPlace ==
  ASSUME HostInv, InstallGoesOn, \A s \in Left(Operator) : Rank(s) >= 10
  PROVE  /\ \A f \in install.plan : InPlace(f)
         /\ Verified /\ PostInstallOk
<1>1. \A f \in install.plan : f \in File /\ InPlace(f)
  <2> SUFFICES ASSUME NEW f \in install.plan PROVE f \in File /\ InPlace(f)
    OBVIOUS
  <2>1. f \in File
    BY InstallTyped
  <2>2. Rank(WriterOf(f)) < 10 /\ Rank(WriterOf(f)) \in Int
    BY <2>1, Writers, RankIsInt
  <2>3. WriterOf(f) \notin Left(Operator)
    BY <2>2
  <2> QED BY <2>1, <2>3 DEF InstallGoesOn
<1>2. \A f \in install.plan : disk[f] # None
  BY <1>1, HostAssumption DEF InPlace
<1>3. ".mcp.json" \in install.plan => disk[".mcp.json"] \in Conf
  BY <1>1 DEF InPlace
<1>4. Verified
  BY <1>2, <1>3 DEF Verified
<1>5. "skill-runtime.json" \in install.plan => SkillDoctorChecks
  <2> SUFFICES ASSUME "skill-runtime.json" \in install.plan PROVE SkillDoctorChecks
    OBVIOUS
  <2>1. disk["skill-runtime.json"] \in Conf
    BY <1>1 DEF InPlace
  <2>2. disk["aimipay_skill_runner.py"] = Copied
    <3>1. "aimipay_skill_runner.py" \in install.plan
      BY DEF InstallGoesOn
    <3>2. "aimipay_skill_runner.py" \notin Host \cup {"skill-runtime.json", ".mcp.json"}
      BY HostAssumption DEF PackageFile, SkillTree
    <3> QED BY <1>1, <3>1, <3>2 DEF InPlace
  <2>3. DoctorOk(disk["skill-runtime.json"])
    BY <2>1, NoneIsNothing DEF DoctorOk, Conf
  <2> QED BY <2>1, <2>2, <2>3 DEF SkillDoctorChecks
<1>6. "connector" \in install.plan => CapabilityManifestChecks
  <2>1. "connector" \notin Host \cup {"skill-runtime.json", ".mcp.json"}
    BY HostAssumption DEF PackageFile
  <2> QED BY <1>1, <2>1 DEF InPlace, CapabilityManifestChecks
<1> QED BY <1>1, <1>4, <1>5, <1>6 DEF PostInstallOk

\* What a step of the installer takes from the steps it has left.
LEMMA InstallerMoves ==
  ASSUME NEW step, BuyerInv, At(Operator, step), Then(Operator, jobs[Operator])
  PROVE  /\ step \in Left(Operator) /\ Left(Operator)' = Left(Operator) \ {step}
         /\ \A s \in Left(Operator) \ {step} : Rank(s) > Rank(step)
  BY PlainMoves, HostAssumption

\* What stays in place where a tree is removed or copied: all the files outside of it.
LEMMA OutsideTree ==
  ASSUME HostInv, NEW S, disk' = Without(S) \/ disk' = With(S), NEW f \in File \ S
  PROVE  InPlace(f)' = InPlace(f)
  BY DEF HostInv, HostTypes, Without, With, InPlace

\* The files of the copied trees and the steps that write them.
LEMMA TreeFiles ==
  /\ "skill-runtime.json" \in File /\ ".mcp.json" \in File /\ "plugin.json" \in File
  /\ SkillTree \cup PluginTree \subseteq File
  /\ \A f \in SkillTree : WriterOf(f) = "copy_skill"
  /\ WriterOf("plugin.json") = "copy_plugin" /\ WriterOf(".mcp.json") = ".mcp.json"
  /\ WriterOf("skill-runtime.json") = "skill-runtime.json"
  /\ \A f \in SkillTree \cup {"plugin.json"} :
       f \notin Host \cup {"skill-runtime.json", ".mcp.json"}
  /\ Directory(SkillTree) = SkillTree \cup {"skill-runtime.json"}
  /\ Directory(PluginTree) = PluginTree
<1>1. SkillTree # PluginTree
  BY DEF SkillTree, PluginTree
<1>2. \A h \in Host : h \notin PackageFile
  BY HostAssumption
<1> QED BY <1>1, <1>2 DEF File, PackageFile, SkillTree, PluginTree, WriterOf, Directory

\* A tree that is removed has its writers to come.
LEMMA DropGoesOn ==
  ASSUME BuyerInv, HostInv, InstallGoesOn, UNCHANGED <<install, installReport>>,
         NEW step, NEW tree,
         \/ step = "drop_skill" /\ tree = SkillTree
         \/ step = "drop_plugin" /\ tree = PluginTree,
         DropTree(step, tree)
  PROVE  InstallGoesOn'
<1> DEFINE L == Left(Operator)
<1>1. /\ step \in L /\ L' = L \ {step} /\ disk' = Without(Directory(tree))
      /\ \A s \in L \ {step} : Rank(s) > Rank(step)
  BY InstallerMoves DEF DropTree
<1>2. \A f \in File : WriterOf(f) # step
  BY TreeFiles, FileIsNotNamed DEF WriterOf, NamedStep
<1>3. ASSUME NEW f \in install.plan PROVE InPlace(f)' \/ WriterOf(f) \in L'
  <2>1. f \in File
    BY InstallTyped
  <2>2. CASE f \in Directory(tree)
    <3>1. CASE step = "drop_skill" /\ tree = SkillTree
      <4>1. {"copy_skill", "skill-runtime.json"} \subseteq L
        BY <1>1, <3>1 DEF InstallGoesOn
      <4>2. WriterOf(f) \in {"copy_skill", "skill-runtime.json"}
        BY <2>2, <3>1, TreeFiles
      <4> QED BY <1>1, <1>2, <2>1, <4>1, <4>2
    <3>2. CASE step = "drop_plugin" /\ tree = PluginTree
      <4>1. {"copy_plugin", ".mcp.json"} \subseteq L
        BY <1>1, <3>2 DEF InstallGoesOn
      <4>2. WriterOf(f) \in {"copy_plugin", ".mcp.json"}
        BY <2>2, <3>2, TreeFiles DEF PluginTree
      <4> QED BY <1>1, <1>2, <2>1, <4>1, <4>2
    <3> QED BY <3>1, <3>2
  <2>3. CASE f \notin Directory(tree)
    <3>1. InPlace(f)' = InPlace(f)
      BY <1>1, <2>1, <2>3, OutsideTree
    <3> QED BY <1>1, <1>2, <2>1, <3>1 DEF InstallGoesOn
  <2> QED BY <2>2, <2>3
<1>4. /\ "drop_skill" \in L' => {"copy_skill", "skill-runtime.json"} \subseteq L'
      /\ "drop_plugin" \in L' => "copy_plugin" \in L'
      /\ "copy_plugin" \in L' => ".mcp.json" \in L'
  BY <1>1 DEF InstallGoesOn
<1> QED BY <1>3, <1>4 DEF InstallGoesOn

\* A tree that is copied is in place, but for the plugin's config, which is written next.
LEMMA CopyGoesOn ==
  ASSUME BuyerInv, HostInv, InstallGoesOn, UNCHANGED <<install, installReport>>,
         NEW step, NEW tree,
         \/ step = "copy_skill" /\ tree = SkillTree
         \/ step = "copy_plugin" /\ tree = PluginTree,
         CopyTree(step, tree)
  PROVE  InstallGoesOn'
<1> DEFINE L == Left(Operator)
<1>1. /\ step \in L /\ L' = L \ {step} /\ disk' = With(tree)
      /\ \A s \in L \ {step} : Rank(s) > Rank(step)
  BY InstallerMoves DEF CopyTree
<1>2. ASSUME NEW f \in install.plan PROVE InPlace(f)' \/ WriterOf(f) \in L'
  <2>1. f \in File
    BY InstallTyped
  <2>2. CASE f \in tree /\ f # ".mcp.json"
    <3>1. disk'[f] = Copied
      BY <1>1, <2>1, <2>2 DEF With
    <3>2. f \notin Host \cup {"skill-runtime.json", ".mcp.json"}
      BY <2>2, TreeFiles DEF PluginTree
    <3> QED BY <3>1, <3>2 DEF InPlace
  <2>3. CASE f \in tree /\ f = ".mcp.json"
    <3>1. step = "copy_plugin"
      BY <2>3 DEF SkillTree
    <3>2. ".mcp.json" \in L'
      BY <1>1, <3>1 DEF InstallGoesOn
    <3> QED BY <2>3, <3>2, TreeFiles
  <2>4. CASE f \notin tree
    <3>1. InPlace(f)' = InPlace(f)
      BY <1>1, <2>1, <2>4, OutsideTree
    <3>2. WriterOf(f) # step
      BY <2>1, <2>4, FileIsNotNamed DEF WriterOf, NamedStep, PluginTree
    <3> QED BY <1>1, <3>1, <3>2 DEF InstallGoesOn
  <2> QED BY <2>2, <2>3, <2>4
<1>3. /\ "drop_skill" \in L' => {"copy_skill", "skill-runtime.json"} \subseteq L'
      /\ "drop_plugin" \in L' => "copy_plugin" \in L'
      /\ "copy_plugin" \in L' => ".mcp.json" \in L'
  <2>1. step = "copy_skill" => "drop_skill" \notin L'
    BY <1>1, RankOf
  <2>2. step = "copy_plugin" => "drop_plugin" \notin L'
    BY <1>1, RankOf
  <2> QED BY <1>1, <2>1, <2>2 DEF InstallGoesOn
<1> QED BY <1>2, <1>3 DEF InstallGoesOn

\* A file that is written is in place.
LEMMA WriteFileGoesOn ==
  ASSUME BuyerInv, HostInv, InstallGoesOn, UNCHANGED <<install, installReport>>,
         NEW f \in File, WriteFile(f)
  PROVE  InstallGoesOn'
<1> DEFINE L == Left(Operator)
<1>1. /\ f \in L /\ L' = L \ {f} /\ disk' = [disk EXCEPT ![f] = Contents(f)]
      /\ \A s \in L \ {f} : Rank(s) > Rank(f)
  BY InstallerMoves DEF WriteFile
<1>2. install.conf \in Conf
  BY <1>1 DEF HostInv, InstallReady
<1>3. disk \in [File -> Conf \cup {Copied, Torn, None}]
  BY DEF HostInv, HostTypes
<1>4. InPlace(f)'
  <2>1. disk'[f] = Contents(f)
    BY <1>1, <1>3
  <2>2. CASE f = "skill-runtime.json"
    <3>1. [install.conf EXCEPT !.key = None] \in Conf
      BY <1>2 DEF Conf
    <3>2. f \notin Host \cup {".mcp.json"}
      BY <2>2, HostAssumption DEF PackageFile
    <3>3. Contents(f) = [install.conf EXCEPT !.key = None]
      BY <2>2, <3>2 DEF Contents
    <3> QED BY <2>1, <2>2, <3>1, <3>3 DEF InPlace
  <2>3. CASE f # "skill-runtime.json" /\ f \in Host \cup {".mcp.json"}
    BY <1>2, <2>1, <2>3 DEF InPlace, Contents
  <2>4. CASE f # "skill-runtime.json" /\ f \notin Host \cup {".mcp.json"}
    BY <2>1, <2>4 DEF InPlace, Contents
  <2> QED BY <2>2, <2>3, <2>4
<1>5. ASSUME NEW g \in install.plan PROVE InPlace(g)' \/ WriterOf(g) \in L'
  <2>1. g \in File
    BY InstallTyped
  <2>2. CASE g # f
    <3>1. InPlace(g)' = InPlace(g)
      BY <1>1, <1>3, <2>1, <2>2 DEF InPlace
    <3>2. WriterOf(g) # f
      BY <2>2, FileIsNotNamed DEF WriterOf, NamedStep
    <3> QED BY <1>1, <3>1, <3>2 DEF InstallGoesOn
  <2> QED BY <1>4, <2>2
<1>6. /\ "drop_skill" \in L' => {"copy_skill", "skill-runtime.json"} \subseteq L'
      /\ "drop_plugin" \in L' => "copy_plugin" \in L'
      /\ "copy_plugin" \in L' => ".mcp.json" \in L'
  <2>1. f # "copy_skill" /\ f # "copy_plugin"
    BY FileIsNotNamed DEF NamedStep
  <2>2. f = "skill-runtime.json" => "drop_skill" \notin L'
    BY <1>1, RankOf
  <2>3. f = ".mcp.json" => "copy_plugin" \notin L'
    BY <1>1, RankOf
  <2> QED BY <1>1, <2>1, <2>2, <2>3 DEF InstallGoesOn
<1> QED BY <1>5, <1>6 DEF InstallGoesOn

\* Both checks find in place what was planned.
LEMMA VerifyGoesOn ==
  ASSUME BuyerInv, HostInv, InstallGoesOn, VerifyAgentInstallation
  PROVE  InstallGoesOn'
<1> DEFINE L == Left(Operator)
<1>1. UNCHANGED <<disk, installReport>> /\ At(Operator, "verify")
  BY DEF VerifyAgentInstallation
<1>2. CASE install' = [install EXCEPT !.ok = @ /\ Verified] /\ Then(Operator, jobs[Operator])
  <2>1. "verify" \in L /\ L' = L \ {"verify"} /\ \A s \in L \ {"verify"} : Rank(s) > Rank("verify")
    BY <1>1, <1>2, InstallerMoves
  <2>2. \A s \in L : Rank(s) >= 10
    BY <2>1, RankOf, RankIsInt
  <2>3. Verified
    BY <2>2, AllInPlace
  <2>4. install'.plan = install.plan /\ install'.ok
    BY <1>2, <2>3 DEF InstallGoesOn, HostInv, HostTypes
  <2>5. \A f \in install.plan : InPlace(f)' /\ InPlace(f)' = InPlace(f)
    BY <1>1, <2>2, AllInPlace DEF InPlace
  <2> QED BY <1>1, <2>1, <2>4, <2>5 DEF InstallGoesOn
<1>3. CASE install' = NoInstall /\ jobs' = [jobs EXCEPT ![Operator] = NoJob]
  <2>1. L' = {}
    BY <1>3, EndMoves, HostAssumption
  <2> QED BY <1>1, <1>3, <2>1 DEF InstallGoesOn, NoInstall
<1> QED BY <1>2, <1>3 DEF VerifyAgentInstallation

LEMMA PostCheckGoesOn ==
  ASSUME BuyerInv, HostInv, InstallGoesOn, HostPostInstallCheck
  PROVE  InstallGoesOn'
<1> DEFINE L == Left(Operator)
<1>1. /\ installReport' = (install.ok /\ PostInstallOk) /\ install' = NoInstall
      /\ At(Operator, "post_check") /\ Then(Operator, jobs[Operator])
  BY DEF HostPostInstallCheck
<1>2. /\ "post_check" \in L /\ L' = L \ {"post_check"}
      /\ \A s \in L \ {"post_check"} : Rank(s) > Rank("post_check")
  BY <1>1, InstallerMoves
<1>3. \A s \in L : Rank(s) >= 10
  BY <1>2, RankOf, RankIsInt
<1>4. installReport'
  BY <1>1, <1>3, AllInPlace DEF InstallGoesOn
<1>5. {"drop_skill", "drop_plugin", "copy_plugin"} \cap L' = {}
  BY <1>2, RankOf
<1> QED BY <1>1, <1>4, <1>5 DEF InstallGoesOn, NoInstall

LEMMA InstallerInstallGoesOn ==
  ASSUME BuyerInv, HostInv, InstallGoesOn, Installer
  PROVE  InstallGoesOn'
<1>1. Operator \in Process /\ Skill \in Agent
  BY HostAssumption DEF Agent
<1>2. ASSUME NEW target \in Agent, NEW url \in Url \cup {None}, NEW onboarding \in BOOLEAN,
             InstallAgentPackage(target, url, onboarding)
      PROVE  InstallGoesOn'
  <2>1. PICK job : /\ Begins(Operator, job) /\ InstallValues(url) \in Conf
                   /\ install' = [conf |-> InstallValues(url), plan |-> PlanOf(target), ok |-> TRUE]
                   /\ \A f \in PlanOf(target) : WriterOf(f) \in StepsIn(job.todo)
    BY <1>2, InstallerBegins DEF BuyerInv, BuyerTypes
  <2>2. Left(Operator)' = StepsIn(job.todo) /\ Whole(job.todo)
    BY <1>1, <2>1, BeginMoves DEF Fresh
  <2>3. installReport' = installReport
    BY <1>2 DEF InstallAgentPackage
  <2>4. install'.plan = PlanOf(target) /\ install'.ok
    BY <2>1
  <2>5. "skill-runtime.json" \in PlanOf(target) => "aimipay_skill_runner.py" \in PlanOf(target)
    BY TargetSteps
  <2> QED BY <2>1, <2>2, <2>3, <2>4, <2>5 DEF InstallGoesOn, Whole
<1>3. CASE CopyOrWrite
  <2>1. UNCHANGED <<install, installReport>>
    BY <1>3 DEF CopyOrWrite
  <2> QED BY <1>3, <2>1, DropGoesOn, CopyGoesOn, WriteFileGoesOn DEF CopyOrWrite
<1> QED BY <1>1, <1>2, <1>3, VerifyGoesOn, PostCheckGoesOn
        DEF Installer, InstallAiHost, InstallAimipaySkill

\* Every step keeps InstallGoesOn.
LEMMA InstallStep == BuyerInv /\ HostInv /\ InstallGoesOn /\ [Next]_vars => InstallGoesOn'
<1> SUFFICES ASSUME BuyerInv, HostInv, InstallGoesOn, [Next]_vars PROVE InstallGoesOn'
  OBVIOUS
<1>1. /\ Operator \in Process /\ Skill \in Agent /\ Agent \subseteq Process /\ Host \subseteq Agent
      /\ Operator \notin Agent
  BY HostAssumption DEF Agent
<1>2. ASSUME UNCHANGED <<disk, install, installReport>>, Left(Operator)' = Left(Operator)
      PROVE  InstallGoesOn'
  BY <1>2, SameInstall
<1>3. CASE ShellTool
  <2>1. PICK job : Begins(Operator, job)
    BY <1>3, OperatorBegins
  <2>2. Left(Operator) = {} /\ Left(Operator)' = StepsIn(job.todo) /\ Whole(job.todo)
    BY <1>1, <2>1, BeginMoves DEF Fresh
  <2>3. UNCHANGED <<disk, install, installReport>>
    BY <1>3 DEF ShellTool, hostVars
  <2>4. \A f \in install.plan : InPlace(f)' = InPlace(f)
    BY <2>3 DEF InPlace
  <2> QED BY <2>2, <2>3, <2>4 DEF InstallGoesOn, Whole
<1>4. ASSUME NEW a \in Agent, NEW job, Begins(a, job), UNCHANGED <<disk, install, installReport>>
      PROVE  InstallGoesOn'
  <2>1. Left(Operator)' = Left(Operator)
    BY <1>1, <1>4, BeginMoves
  <2> QED BY <1>2, <1>4, <2>1
<1>5. ASSUME NEW a \in Agent, NEW step, At(a, step), Then(a, jobs[a]),
             UNCHANGED <<disk, install, installReport>>
      PROVE  InstallGoesOn'
  <2>1. Left(Operator)' = Left(Operator)
    BY <1>1, <1>5, PlainMoves
  <2> QED BY <1>2, <1>5, <2>1
<1>6. ASSUME NEW h \in Host, StartServer(h) PROVE InstallGoesOn'
  BY <1>1, <1>4, <1>6, AgentBegins DEF StartServer
<1>7. CASE RunSkill
  BY <1>1, <1>4, <1>7, AgentBegins DEF RunSkill
<1>8. ASSUME NEW h \in Host, SetupTool(h) PROVE InstallGoesOn'
  <2>1. UNCHANGED <<disk, install, installReport>>
    BY <1>8 DEF SetupTool, ConnectRefused, CreateWallet, RunOnboarding, SetMerchantUrl, CallTool,
       CheckWalletFunding, GetStartupOnboarding, AnswerOnboarding, AnswerPreview,
       AnswerFunding, Answer, hostVars
  <2>2. CASE \/ \E force \in BOOLEAN : CreateWallet(h, force) \/ RunOnboarding(h, force)
             \/ \E url \in Url, profile \in Profile \cup {None} : SetMerchantUrl(h, url, profile)
             \/ CheckWalletFunding(h)
    BY <1>1, <1>4, <2>1, <2>2, AgentBegins
  <2>3. CASE ConnectRefused(h) \/ GetStartupOnboarding(h)
    <3>1. Left(Operator)' = Left(Operator)
      BY <2>3 DEF ConnectRefused, GetStartupOnboarding, buyerVars, Left
    <3> QED BY <1>2, <2>1, <3>1
  <2>4. CASE AnswerOnboarding(h) \/ AnswerPreview(h) \/ AnswerFunding(h)
    <3>1. Then(h, jobs[h]) /\ \E step : At(h, step)
      BY <2>4 DEF AnswerOnboarding, AnswerPreview, AnswerFunding, Answer
    <3> QED BY <1>1, <1>5, <2>1, <3>1
  <2> QED BY <1>8, <2>2, <2>3, <2>4 DEF SetupTool
<1>9. ASSUME NEW a \in Agent, LoadEnv(a) \/ BuildServer(a) PROVE InstallGoesOn'
  BY <1>5, <1>9 DEF LoadEnv, BuildServer
<1>10. ASSUME NEW a \in Agent, StopServer(a) PROVE InstallGoesOn'
  BY <1>2, <1>10 DEF StopServer, buyerVars, Left
<1>11. ASSUME NEW p \in Process, ToolStep(p) PROVE InstallGoesOn'
  <2>1. /\ Left(Operator)' \subseteq Left(Operator)
        /\ Left(Operator) \ Left(Operator)' \subseteq BuyerSteps
    BY <1>1, <1>11, ToolMoves DEF ToolStep
  <2> QED BY <1>11, <2>1, SameInstall DEF ToolStep
<1>12. ASSUME NEW p \in Process, ProcessDies(p) PROVE InstallGoesOn'
  <2>1. Left(p)' = {} /\ \A q \in Process \ {p} : Left(q)' = Left(q)
    BY <1>12, EndMoves DEF ProcessDies, Die
  <2>2. CASE p = Operator
    <3>1. Left(Operator)' = {}
      BY <2>1, <2>2
    <3>2. install'.ok /\ install'.plan = {} /\ installReport' = installReport
      BY <1>12, <2>2 DEF ProcessDies, NoInstall
    <3> QED BY <3>1, <3>2 DEF InstallGoesOn
  <2>3. CASE p # Operator
    BY <1>1, <1>2, <1>12, <2>1, <2>3 DEF ProcessDies
  <2> QED BY <2>2, <2>3
<1>13. ASSUME NEW key \in told \ funded, Fund(key), UNCHANGED hostVars PROVE InstallGoesOn'
  BY <1>2, <1>13 DEF Fund, hostVars, Left
<1>14. CASE UNCHANGED vars
  BY <1>2, <1>14 DEF vars, hostVars, buyerVars, Left
<1> QED BY <1>3, <1>6, <1>7, <1>8, <1>9, <1>10, <1>11, <1>12, <1>13, <1>14,
           InstallerInstallGoesOn DEF Next

\* An installation that runs to its end reports that all is in place, whatever an earlier
\* one left behind that was killed half way (AgentHosts.FinishedInstallWorks).
THEOREM InstallsWork == Spec => []FinishedInstallWorks
<1>1. Init => BuyerInv /\ HostInv /\ InstallGoesOn
  BY BuyerInvInit, HostInvInit, InstallGoesOnInit
<1>2. BuyerInv /\ HostInv /\ InstallGoesOn /\ [Next]_vars => (BuyerInv /\ HostInv /\ InstallGoesOn)'
  BY BuyerInvStep, HostInvStep, InstallStep
<1>3. InstallGoesOn => FinishedInstallWorks
  BY DEF InstallGoesOn, FinishedInstallWorks
<1> QED BY <1>1, <1>2, <1>3, PTL DEF Spec
==============================================================================

----------------------------- MODULE Deployment ------------------------------
(***************************************************************************)
(* The deployment scripts, scripts/deploy.ts and scripts/deployment.       *)
(*                                                                         *)
(* deploy.ts runs one script after the other, each a process of its own,   *)
(* and stops at the first that fails.  A script reads the addresses that   *)
(* earlier scripts recorded in JSON files, deploys contracts linked with   *)
(* them, and records theirs.  A process may die between any two effects,   *)
(* also while it writes a file; the operator then comments out scripts in  *)
(* deploy.ts and runs the rest.  On a fork, a restarted node forgets the   *)
(* contracts while the files stay.                                         *)
(*                                                                         *)
(* An address is <<creator, nonce>>, as CREATE computes it, so that a      *)
(* restarted chain may put other contracts at the addresses in the files.  *)
(***************************************************************************)
EXTENDS Naturals, FiniteSets, SequencesExt

CONSTANTS
  Wanted,      \* bound: the entries of the files to deploy
  Chains,      \* chains to deploy to, among "fork" and "live"
  MaxMishaps   \* bound: crashes, restarts and detours

Phases == {"phase1", "phase2", "rtoken"}  \* one file each

VARIABLES
  network, phase3,  \* the chain, and whether phase 3 is commented in
  chain,            \* the contracts the burner account has created
  file, entry,      \* the files: missing, torn or ok; and their addresses
  script,           \* index of the script deploy.ts is at, 0 if it is not running
  running, todo,    \* the script's process has started; what it has yet to do
  local, recorded,  \* its addresses, and the ones it has put in its copy of the file
  resume,           \* history: the first script that is yet to be completed
  skipped,          \* history: this run began later than that
  mishaps

process == <<running, todo, local, recorded>>
vars == <<network, phase3, chain, file, entry, script, process, resume, skipped, mishaps>>

-----------------------------------------------------------------------------
(* Contracts and the entries of the files *)

Libraries == <<"tradingLib", "rewardableLib", "permitLib", "oracleLib">>
Implementations ==
  <<"main", "trade", "assetRegistry", "backingManager", "basketHandler", "broker",
    "distributor", "furnace", "rsrTrader", "rTokenTrader", "rToken", "stRSR">>
Assets == <<"stkAAVE", "COMP">>
Fiat == <<"DAI", "USDC", "USDT", "USDP">>
ATokens == <<"aUSDC", "aUSDT", "aBUSD", "aUSDP">>
FiatCTokens == <<"cDAI", "cUSDC", "cUSDT", "cUSDP">>

\* StaticATokenLM wraps an aToken for its collateral; no file records it.
Static == [aDAI |-> "static aDAI", aUSDC |-> "static aUSDC", aUSDT |-> "static aUSDT",
           aBUSD |-> "static aBUSD", aUSDP |-> "static aUSDP"]
StaticTokens == {Static[a] : a \in DOMAIN Static}

Phase1Entries ==
  ToSet(Libraries) \cup ToSet(Implementations)
    \cup {"rsrAsset", "facadeRead", "deployer", "facadeWriteLib", "facadeWrite", "facadeAct"}
Phase2Entries ==
  ToSet(Assets) \cup ToSet(Fiat) \cup DOMAIN Static \cup ToSet(FiatCTokens)
    \cup {"TUSD", "BUSD", "cWBTC", "cETH", "WBTC", "WETH", "EURT"}
\* "RToken" stands for main, its components and rTokenAsset, recorded together;
\* "governance" for governance and timelock.
RTokenEntries == {"facadeWrite of RToken", "RToken", "governance"}
Entries == Phase1Entries \cup Phase2Entries \cup RTokenEntries \cup StaticTokens

FileOf(e) == IF e \in RTokenEntries THEN "rtoken"
             ELSE IF e \in Phase1Entries THEN "phase1" ELSE "phase2"

\* Two entries may hold the same contract.
KindOf(e) == CASE e = "rTokenTrader" -> "rsrTrader"
               [] e = "facadeWrite of RToken" -> "facadeWrite"
               [] OTHER -> e

ASSUME BoundAssumption == MaxMishaps \in Nat
\* A bounded choice of entries keeps what is recorded last in phase 2 and what phase 3
\* looks up, and no entry without the contract it is about.
ASSUME WantedAssumption ==
  /\ Wanted \subseteq Entries
  /\ {"EURT", "deployer", "facadeWrite", "facadeWrite of RToken"} \subseteq Wanted
  /\ "rTokenTrader" \in Wanted => "rsrTrader" \in Wanted
  /\ \A a \in DOMAIN Static : a \in Wanted => Static[a] \in Wanted

NoAddress == <<0, 0>>  \* the empty string, or an entry that is not there
Empty == [e \in Entries \cap Wanted |-> NoAddress]

\* isValidContract(): there is code at the address.
IsValidContract(a) == \E c \in chain : c.at = a
Valid(e) == e \in Wanted => IsValidContract(entry[e])

\* What the contract at a is, if any.
IsA(a, kind) == \E c \in chain : c.at = a /\ c.kind = kind /\ c.ok

-----------------------------------------------------------------------------
(* What each contract is linked with or gets as constructor arguments.  The
   tasks in tasks/deployment deploy one asset or collateral each. *)

ImplementationLinks(e) ==
  CASE e = "backingManager" -> {"rewardableLib", "tradingLib"}
    [] e = "rsrTrader" -> {"rewardableLib"}
    [] e = "rToken" -> {"rewardableLib", "permitLib"}
    [] e = "stRSR" -> {"permitLib"}
    [] OTHER -> {}

\* The task takes oracleLib and does not link it.
DeployAsset == {}
DeployFiatCollateral == {"oracleLib"}
DeployATokenFiatCollateral(e) == {"oracleLib", Static[e]}
DeployCTokenFiatCollateral == {"oracleLib"}
DeployCTokenNonFiatCollateral == {"oracleLib"}
DeployCTokenSelfReferentialCollateral == {"oracleLib"}
DeployNonFiatCollateral == {"oracleLib"}
\* A self-referential collateral cannot lose its peg: no library either.
DeploySelfReferentialCollateral == {}
DeployEURFiatCollateral == {"oracleLib"}

CollateralLinks(e) ==
  CASE e \in ToSet(Fiat) \cup {"TUSD", "BUSD"} -> DeployFiatCollateral
    [] e \in DOMAIN Static -> DeployATokenFiatCollateral(e)
    [] e \in ToSet(FiatCTokens) -> DeployCTokenFiatCollateral
    [] e = "cWBTC" -> DeployCTokenNonFiatCollateral
    [] e = "cETH" -> DeployCTokenSelfReferentialCollateral
    [] e = "WBTC" -> DeployNonFiatCollateral
    [] e = "WETH" -> DeploySelfReferentialCollateral
    [] e = "EURT" -> DeployEURFiatCollateral

\* The assets and the collateral of the RToken that phase 3 deploys.
RTokenSetup == {"stkAAVE", "COMP", "DAI", "aDAI", "cDAI", "USDC"}

Links(e) == Wanted \cap
  CASE e \in ToSet(Implementations) -> ImplementationLinks(e)
    [] e \in ToSet(Assets) \cup {"rsrAsset"} -> DeployAsset
    [] e = "deployer" -> {"rsrAsset"} \cup ToSet(Implementations)
    [] e = "facadeWrite" -> {"facadeWriteLib", "deployer"}
    [] e \in Phase2Entries \ ToSet(Assets) -> CollateralLinks(e)
    [] e = "RToken" -> {"facadeWrite of RToken"} \cup RTokenSetup
    [] e = "governance" -> {"facadeWrite of RToken", "RToken"}
    [] OTHER -> {}

\* Static tokens are named after their aToken, with a prefix.
StaticPrefix == "s"
DataOf(e) == IF e \in StaticTokens THEN StaticPrefix ELSE ""

-----------------------------------------------------------------------------
(* What a script does: deploy contracts, record addresses in its copy of the
   file, and write the copy.  A script is a set of steps, each with its turn. *)

\* The j-th thing a script does for its i-th entry.
Do(i, j, do, e) == [turn |-> 5 * i + j, do |-> do, what |-> e]
WriteAtLast == Do(99, 0, "write", "")

RecordThenWrite(i, e) == {Do(i, 1, "deploy", e), Do(i, 2, "record", e), Do(i, 3, "write", e)}
WriteThenRecord(i, e) == {Do(i, 1, "deploy", e), Do(i, 2, "write", e), Do(i, 3, "record", e)}
DeployAndRecord(i, e) == {Do(i, 1, "deploy", e), Do(i, 2, "record", e)}
DeployStatic(i, e) == {Do(i, 0, "deploy", Static[e])}

\* Block(i, e) for each wanted e of es, in this order, after n other entries.
Position(es, e) == CHOOSE i \in DOMAIN es : es[i] = e
Each(n, es, Block(_, _)) ==
  UNION {Block(n + Position(es, e), e) : e \in ToSet(es) \cap Wanted}

\* Mutation: the addresses never get into the file.
DeployLibrariesUnwritten == Each(0, Libraries, DeployAndRecord)

DeployLibraries == Each(0, Libraries, DeployAndRecord) \cup {WriteAtLast}

\* rTokenTrader gets the contract of rsrTrader.
DeployImplementation(i, e) ==
  IF e = "rTokenTrader" THEN RecordThenWrite(i, e) \ {Do(i, 1, "deploy", e)}
  ELSE RecordThenWrite(i, e)
DeployImplementations == Each(0, Implementations, DeployImplementation)

DeployRSRAsset == Each(0, <<"rsrAsset">>, RecordThenWrite)
DeployFacade == Each(0, <<"facadeRead">>, RecordThenWrite)
DeployDeployer == Each(0, <<"deployer">>, RecordThenWrite)
DeployFacadeWrite ==
  LET both == <<"facadeWriteLib", "facadeWrite">>
      One(i, e) == {Do(i, 1, "deploy", e)}
      Note(i, e) == {Do(i, 1, "record", e)}
  IN Each(0, both, One) \cup Each(2, both, Note) \cup {WriteAtLast}
DeployFacadeAct == Each(0, <<"facadeAct">>, RecordThenWrite)

DeployAssets == Each(0, Assets, DeployAndRecord) \cup {WriteAtLast}

\* The file is written before the new address is put in the copy: it lags one
\* contract behind, until the next write.
DeployFiat == Each(0, Fiat, WriteThenRecord)
DeployTUSD == Each(4, <<"TUSD">>, DeployAndRecord)
DeployBUSD == Each(5, <<"BUSD">>, WriteThenRecord)
DeployADAI == Each(6, <<"aDAI">>, DeployStatic) \cup Each(6, <<"aDAI">>, WriteThenRecord)
DeployATokens == Each(7, ATokens, DeployStatic) \cup Each(7, ATokens, RecordThenWrite)
DeployFiatCTokens == Each(11, FiatCTokens, RecordThenWrite)
DeployOtherCTokens == Each(15, <<"cWBTC", "cETH">>, RecordThenWrite)

\* Mutation: the file is written before EURT is recorded, as for the first ones.
DeployLastWritingFirst ==
  Each(17, <<"WBTC", "WETH">>, RecordThenWrite) \cup Each(19, <<"EURT">>, WriteThenRecord)

DeployLast == Each(17, <<"WBTC", "WETH", "EURT">>, RecordThenWrite)
DeployCollateral ==
  DeployFiat \cup DeployTUSD \cup DeployBUSD \cup DeployADAI \cup DeployATokens
    \cup DeployFiatCTokens \cup DeployOtherCTokens \cup DeployLast

\* Both phase 3 scripts send one transaction to FacadeWrite.
DeployRToken == Each(0, <<"RToken">>, RecordThenWrite)
DeployGovernance == Each(0, <<"governance">>, RecordThenWrite)

\* A set-up script creates its file, empty but for what the configuration says, which
\* is taken to be right; phase 3 copies facadeWrite into it.
SetupPhase1 == {WriteAtLast}
SetupPhase2 == {WriteAtLast}
SetupRToken == {Do(1, 1, "record", "facadeWrite of RToken"), WriteAtLast}

-----------------------------------------------------------------------------
(* deploy.ts *)

Scripts ==
  <<"phase1/0_setup", "1_deploy_libraries", "2_deploy_implementations",
    "3_deploy_rsrAsset", "4_deploy_facade", "5_deploy_deployer",
    "6_deploy_facadeWrite", "7_deploy_facadeAct",
    "phase2/0_setup", "1_deploy_assets", "2_deploy_collateral",
    "phase3/0_setup", "1_deploy_rtoken", "2_deploy_governance">>
\* The scripts of phase 3 are commented out unless governance is updated.
LastScript == IF phase3 THEN 14 ELSE 11
SetupOf(p) == CASE p = "phase1" -> 1 [] p = "phase2" -> 9 [] p = "rtoken" -> 12
PhaseOf(s) == IF s < SetupOf("phase2") THEN "phase1"
              ELSE IF s < SetupOf("rtoken") THEN "phase2" ELSE "rtoken"
IsSetup(s) == s \in {SetupOf(p) : p \in Phases}

Body(s) ==
  CASE s = 1 -> SetupPhase1         [] s = 9 -> SetupPhase2
    [] s = 2 -> DeployLibraries     [] s = 3 -> DeployImplementations
    [] s = 4 -> DeployRSRAsset      [] s = 5 -> DeployFacade
    [] s = 6 -> DeployDeployer      [] s = 7 -> DeployFacadeWrite
    [] s = 8 -> DeployFacadeAct     [] s = 10 -> DeployAssets
    [] s = 11 -> DeployCollateral   [] s = 12 -> SetupRToken
    [] s = 13 -> DeployRToken       [] s = 14 -> DeployGovernance

\* getDeploymentFile() throws if a file is not there or cannot be parsed.
Readable(p) == file[p] = "ok"

ValidateImplementations == \A e \in ToSet(Implementations) : Valid(e)

\* What each script checks before it deploys anything.
Phase1SetupReady == file["phase1"] = "missing"
LibrariesReady == Readable("phase1")
\* permitLib is linked without a check.
ImplementationsReady == Readable("phase1") /\ Valid("tradingLib") /\ Valid("rewardableLib")
RSRAssetReady == Readable("phase1") /\ ValidateImplementations
FacadeReady == Readable("phase1") /\ ValidateImplementations /\ Valid("rsrAsset")
DeployerReady == Readable("phase1") /\ ValidateImplementations /\ Valid("facadeRead")
\* "Check previous step executed" looks for rsrAsset, not for deployer.
FacadeWriteReady == Readable("phase1") /\ ValidateImplementations /\ Valid("rsrAsset")
FacadeActReady == Readable("phase1") /\ ValidateImplementations /\ Valid("rsrAsset")
Phase2SetupReady == file["phase1"] /= "missing" /\ file["phase2"] = "missing"
AssetsReady == Readable("phase1") /\ Readable("phase2")
CollateralReady == Readable("phase1") /\ Readable("phase2")
Phase3SetupReady == file["rtoken"] = "missing" /\ Readable("phase1") /\ Valid("facadeWrite")
RTokenReady == Readable("rtoken") /\ Readable("phase2") /\ \A e \in RTokenSetup : Valid(e)
GovernanceReady == Readable("rtoken") /\ Valid("RToken")

Ready(s) ==
  CASE s = 1 -> Phase1SetupReady      [] s = 2 -> LibrariesReady
    [] s = 3 -> ImplementationsReady  [] s = 4 -> RSRAssetReady
    [] s = 5 -> FacadeReady           [] s = 6 -> DeployerReady
    [] s = 7 -> FacadeWriteReady      [] s = 8 -> FacadeActReady
    [] s = 9 -> Phase2SetupReady      [] s = 10 -> AssetsReady
    [] s = 11 -> CollateralReady      [] s = 12 -> Phase3SetupReady
    [] s = 13 -> RTokenReady          [] s = 14 -> GovernanceReady

-----------------------------------------------------------------------------

Init ==
  /\ network \in Chains /\ phase3 \in BOOLEAN
  /\ chain = {} /\ file = [p \in Phases |-> "missing"] /\ entry = Empty
  /\ script = 0 /\ running = FALSE /\ todo = {} /\ local = Empty /\ recorded = {}
  /\ resume = 1 /\ skipped = FALSE /\ mishaps = 0

NoProcess == running' = FALSE /\ todo' = {} /\ local' = Empty /\ recorded' = {}
Mishap == mishaps < MaxMishaps /\ mishaps' = mishaps + 1

\* setupGovernance() takes the ownership from FacadeWrite: once per RToken.
Governed(a) == \E c \in chain : c.kind = "governance" /\ c.args["RToken"] = a

\* Where the operator picks up: at the script that failed, but past a set-up
\* script that will not overwrite its file (phase 3's copy of facadeWrite may be
\* stale, so that file has to go), and with a new RToken if this one has its
\* governance but no record of it.
PickUpAt ==
  IF ~running /\ script \in {1, 9} /\ Readable(PhaseOf(script)) THEN script + 1
  ELSE IF script = 14 /\ Governed(entry["RToken"]) THEN 13
  ELSE script

\* Mutation: deploy.ts goes on with the next script.
FailGoingOn ==
  /\ script' = script + 1 /\ NoProcess
  /\ UNCHANGED <<network, phase3, resume, skipped>>

\* deploy.ts stops when a script exits with an error.
Fail ==
  /\ script' = 0 /\ NoProcess
  /\ resume' = IF skipped THEN resume ELSE PickUpAt
  /\ UNCHANGED <<network, phase3, skipped>>

\* The operator comments out what comes before s and runs deploy.ts.
Start(s) ==
  /\ script = 0 /\ s \in 1..LastScript
  /\ script' = s /\ skipped' = (s > resume)
  /\ UNCHANGED <<network, phase3, chain, file, entry, process, resume>>

Detour == \E s \in 1..LastScript : s /= resume /\ Start(s) /\ Mishap

Begin ==
  /\ script /= 0 /\ ~running /\ Ready(script)
  /\ running' = TRUE /\ todo' = Body(script)
  /\ UNCHANGED <<network, phase3, chain, file, entry, script, local, recorded,
                 resume, skipped, mishaps>>

Refuse ==
  /\ script /= 0 /\ ~running /\ ~Ready(script)
  /\ Fail /\ UNCHANGED <<chain, file, entry, mishaps>>

\* The address a script uses for e: its own contract, or what its file says.
Lookup(e) == IF local[KindOf(e)] /= NoAddress THEN local[KindOf(e)] ELSE entry[e]

\* Who creates the contract: the burner, or the contract the transaction calls.
CreatorOf(e) ==
  LET facade == CHOOSE c \in chain : c.at = entry["facadeWrite of RToken"]
  IN CASE e = "RToken" -> facade.args["deployer"][2]
       [] e = "governance" -> facade.at[2]
       [] OTHER -> 0
\* Every contract of chain took the burner one transaction.
NextAddress(creator) ==
  <<creator, 1 + IF creator = 0 THEN Cardinality(chain)
                 ELSE Cardinality({c \in chain : c.at[1] = creator})>>

Sound(e) == \A d \in Links(e) : IsA(Lookup(d), KindOf(d))

\* A missing address makes the script throw; what is at the addresses matters
\* only to the transactions that call it.
Deployable(e) ==
  /\ \A d \in Links(e) : Lookup(d) /= NoAddress
  /\ e \in {"RToken", "governance"} => Sound(e)
  /\ e = "governance" => ~Governed(entry["RToken"])

\* The step whose turn it is.
Now == CHOOSE step \in todo : \A other \in todo : step.turn <= other.turn
Doing(do) == running /\ todo /= {} /\ Now.do = do

DeployContract ==
  /\ Doing("deploy")
  /\ LET e == Now.what IN
       /\ Deployable(e)
       /\ LET at == NextAddress(CreatorOf(e)) IN
            /\ chain' = chain \cup
                 {[at |-> at, kind |-> e, args |-> [d \in Links(e) |-> Lookup(d)],
                   data |-> DataOf(e), ok |-> Sound(e)]}
            /\ local' = [local EXCEPT ![e] = at]
  /\ todo' = todo \ {Now}
  /\ UNCHANGED <<network, phase3, file, entry, script, running, recorded,
                 resume, skipped, mishaps>>

Throw ==
  /\ Doing("deploy") /\ ~Deployable(Now.what)
  /\ Fail /\ UNCHANGED <<chain, file, entry, mishaps>>

RecordAddress ==
  /\ Doing("record") /\ recorded' = recorded \cup {Now.what} /\ todo' = todo \ {Now}
  /\ UNCHANGED <<network, phase3, chain, file, entry, script, running, local,
                 resume, skipped, mishaps>>

Written(e) == IF e = "facadeWrite of RToken" THEN entry["facadeWrite"] ELSE local[KindOf(e)]

WriteFile ==
  /\ Doing("write") /\ todo' = todo \ {Now}
  /\ file' = [file EXCEPT ![PhaseOf(script)] = "ok"]
  /\ entry' = [e \in DOMAIN entry |-> IF e \in recorded THEN Written(e) ELSE entry[e]]
  /\ UNCHANGED <<network, phase3, chain, script, running, local, recorded,
                 resume, skipped, mishaps>>

NextScript ==
  /\ running /\ todo = {} /\ NoProcess
  /\ script' = IF script = LastScript THEN 0 ELSE script + 1
  /\ resume' = IF script = LastScript /\ ~skipped THEN LastScript + 1 ELSE resume
  /\ UNCHANGED <<network, phase3, chain, file, entry, skipped, mishaps>>

\* A file that cannot be read has no addresses to tell.
WithoutFile(p) == [e \in DOMAIN entry |-> IF FileOf(e) = p THEN NoAddress ELSE entry[e]]

\* The process dies; writeFileSync() has truncated the file and not filled it yet.
Crash ==
  /\ running /\ Mishap /\ Fail
  /\ \/ UNCHANGED <<file, entry>>
     \/ /\ Doing("write")
        /\ file' = [file EXCEPT ![PhaseOf(script)] = "torn"]
        /\ entry' = WithoutFile(PhaseOf(script))
  /\ UNCHANGED chain

\* The operator deletes a file, when deploy.ts cannot go on with it or any time.
MustGo(p) == file[p] = "torn" \/ (p = "rtoken" /\ file[p] = "ok" /\ resume = SetupOf(p))
Delete(p) ==
  /\ script = 0 /\ file[p] /= "missing"
  /\ file' = [file EXCEPT ![p] = "missing"] /\ entry' = WithoutFile(p)
  /\ resume' = IF resume < SetupOf(p) \/ (p = "rtoken" /\ ~phase3) THEN resume ELSE SetupOf(p)
  /\ IF MustGo(p) THEN UNCHANGED mishaps ELSE Mishap
  /\ UNCHANGED <<network, phase3, chain, script, process, skipped>>

\* The node of a fork is restarted.
Restart ==
  /\ network = "fork" /\ script = 0 /\ Mishap
  /\ chain' = {} /\ resume' = 1
  /\ UNCHANGED <<network, phase3, file, entry, script, process, skipped>>

\* The operator goes on where deploy.ts stopped.
PickUp ==
  /\ resume <= LastScript /\ \A p \in Phases : ~MustGo(p)
  /\ Start(resume) /\ UNCHANGED mishaps

Step == Begin \/ Refuse \/ DeployContract \/ Throw \/ RecordAddress \/ WriteFile \/ NextScript
GoOn == PickUp \/ \E p \in Phases : MustGo(p) /\ Delete(p)
Next ==
  \/ Step \/ PickUp \/ Detour \/ Crash \/ Restart \/ \E p \in Phases : Delete(p)

Spec == Init /\ [][Next]_vars
\* Scripts run on, and an operator picks up what has failed.
LiveSpec == Spec /\ WF_vars(Step) /\ WF_vars(GoOn)

-----------------------------------------------------------------------------
(* Properties *)

Done == script = 0 /\ resume = LastScript + 1

\* Entries have one address or none, a file that is not there has none, and the
\* process of a script exists only while deploy.ts is at it.
TypeOK ==
  /\ network \in Chains /\ phase3 \in BOOLEAN /\ mishaps \in 0..MaxMishaps
  /\ file \in [Phases -> {"missing", "torn", "ok"}]
  /\ script \in 0..LastScript /\ resume \in 1..(LastScript + 1)
  /\ \A e \in DOMAIN entry : file[FileOf(e)] /= "ok" => entry[e] = NoAddress
  /\ running => script /= 0
  /\ ~running => todo = {} /\ local = Empty /\ recorded = {}
  /\ \A c, d \in chain : c.at = d.at => c = d

\* The entries phases 1 and 2 record, and with phase 3 all of them.
Recorded == IF phase3 THEN Entries ELSE Entries \ RTokenEntries

\* Whatever crashed, was redone or was forgotten on the way (scripts 0_setup to
\* 2_deploy_governance): once the scripts have run from where they stopped, every
\* entry names a contract of its kind, and what that contract was built on is what
\* the files name today.
Coherent ==
  Done => \A e \in (Recorded \cap Wanted) \ StaticTokens : \E c \in chain :
            /\ c.at = entry[e] /\ c.kind = KindOf(e) /\ c.ok
            /\ \A d \in DOMAIN c.args \ StaticTokens : c.args[d] = entry[d]

\* Whatever happens, an operator who picks up where a script failed gets to the
\* end: no order of crashes leaves files that the scripts refuse for ever (the
\* checks at the top of each script, and FacadeWrite.setupGovernance()).
Completes == []<>Done
=============================================================================

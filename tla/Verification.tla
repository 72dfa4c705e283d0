---------------------------- MODULE Verification -----------------------------
(***************************************************************************)
(* Confirmation and verification after a deployment: scripts/confirm.ts    *)
(* and scripts/verify_etherscan.ts with the scripts they run.              *)
(*                                                                         *)
(* For each contract verify_etherscan.ts tells Etherscan the constructor   *)
(* arguments, which it takes from the deployment files, the configuration  *)
(* and the contracts themselves.  Etherscan accepts those the contract was *)
(* built with.  What it rejects is logged and skipped; a script that gets  *)
(* no answer at all, or misses a file, throws, and the run stops there.    *)
(*                                                                         *)
(* One operator: no verification while deploy.ts runs.                     *)
(***************************************************************************)
EXTENDS Deployment

VARIABLES
  verified,  \* addresses of the contracts Etherscan has the source of
  vscript,   \* index of the verification script that runs, 0 if none
  vtodo      \* entries it has yet to verify, NotBegun before it has checked its files

vvars == <<verified, vscript, vtodo>>
allVars == <<vars, vvars>>

NotBegun == <<"not begun">>

-----------------------------------------------------------------------------
(* The scripts: what they read and what they verify *)

VerifyLibraries == Libraries
\* The two revenue traders are one contract.
VerifyImplementations == SelectSeq(Implementations, LAMBDA e : e /= "rTokenTrader")
VerifyRSRAsset == <<"rsrAsset">>
VerifyDeployer == <<"deployer">>
VerifyFacade == <<"facadeRead">>
VerifyFacadeWrite == <<"facadeWriteLib", "facadeWrite">>
\* One contract of each kind: Etherscan knows the others by their code.
VerifyCollateral ==
  <<"DAI", "static aDAI", "aDAI", "cDAI", "cWBTC", "cETH", "WBTC", "WETH", "EURT">>
VerifyRToken == <<"RToken">>
VerifyGovernance == <<"governance">>

VScripts ==
  <<VerifyLibraries, VerifyImplementations, VerifyRSRAsset, VerifyDeployer, VerifyFacade,
    VerifyFacadeWrite, VerifyCollateral, VerifyRToken, VerifyGovernance>>

Needed(s) == CASE s = 7 -> {"phase1", "phase2"}
               [] s = 8 -> {"phase1", "rtoken"}
               [] s = 9 -> {"rtoken"}
               [] OTHER -> {"phase1"}

\* A static token is the erc20() of its collateral.
AddressOf(e) ==
  IF e \in StaticTokens
  THEN LET a == CHOOSE x \in DOMAIN Static : Static[x] = e
           c == CHOOSE x \in chain : x.at = entry[a]
       IN c.args[e]
  ELSE entry[e]

At(a) == CHOOSE c \in chain : c.at = a

\* The implementation of the RToken's proxy: that of the Deployer of its FacadeWrite.
ProxyImplementation(c) ==
  At(At(c.args["facadeWrite of RToken"]).args["deployer"]).args["rToken"]

\* The static token is verified with a prefix it was not deployed with.
VerifiedPrefix == "stat"

\* Do the arguments that are told agree with those the contract c was built with?
ArgumentsAgree(e, c) ==
  CASE e = "deployer" -> \A d \in DOMAIN c.args : c.args[d] = entry[d]
    [] e = "facadeWrite" -> c.args["deployer"] = entry["deployer"]
    [] e = "RToken" -> ProxyImplementation(c) = entry["rToken"]
    [] e = "governance" -> c.args["RToken"] = entry["RToken"]
    [] e \in StaticTokens -> c.data = VerifiedPrefix
    [] OTHER -> TRUE

\* The scripts of confirm.ts: components, assets and collateral are there and can be
\* asked.  deploy.ts makes the file of the RToken in phase 3 only.
ConfirmComponents == Readable("rtoken") /\ Valid("RToken") /\ Valid("governance")
ConfirmAssets == \A e \in Phase2Entries : Valid(e)
ConfirmPasses == Readable("phase1") /\ Readable("phase2") /\ ConfirmComponents /\ ConfirmAssets

-----------------------------------------------------------------------------

VInit == Init /\ verified = {} /\ vscript = 0 /\ vtodo = NotBegun

\* verify_etherscan.ts stops when a script exits with an error.
Stop == vscript' = 0 /\ vtodo' = NotBegun

\* Not on a development chain, and not before phases 1 and 2 have their files.
Verify ==
  /\ network = "live" /\ script = 0 /\ vscript = 0
  /\ Readable("phase1") /\ Readable("phase2")
  /\ vscript' = 1 /\ UNCHANGED <<verified, vtodo>>

VerifyDone == Verify /\ Done /\ UNCHANGED vars
VerifyEarly == Verify /\ ~Done /\ Mishap
               /\ UNCHANGED <<network, phase3, chain, file, entry, script, process, resume, skipped>>

BeginVScript ==
  /\ vscript /= 0 /\ vtodo = NotBegun
  /\ IF \A p \in Needed(vscript) : Readable(p)
     THEN /\ vtodo' = SelectSeq(VScripts[vscript], LAMBDA e : e \in Wanted)
          /\ UNCHANGED vscript
     ELSE Stop
  /\ UNCHANGED <<vars, verified>>

Verifying == vscript /= 0 /\ vtodo /= NotBegun /\ vtodo /= <<>>

\* There is nothing at the address: the API has no answer, or reading fails.
NothingThere(e) ==
  IF e \in StaticTokens THEN ~IsA(entry["aDAI"], "aDAI") ELSE ~IsValidContract(entry[e])

\* Mutation: a rejected verification ends the script.
RejectedThrowing == Stop

\* A rejected verification is caught and logged.
Rejected == vtodo' = Tail(vtodo) /\ UNCHANGED vscript

\* verifyContract(): checks what Etherscan has, and verifies if it has nothing.
VerifyContract ==
  /\ Verifying
  /\ LET e == Head(vtodo) IN
       \/ NothingThere(e) /\ Stop /\ UNCHANGED verified
       \/ /\ ~NothingThere(e)
          /\ \/ /\ AddressOf(e) \in verified \/ ArgumentsAgree(e, At(AddressOf(e)))
                /\ verified' = verified \cup {AddressOf(e)}
                /\ vtodo' = Tail(vtodo) /\ UNCHANGED vscript
             \/ /\ AddressOf(e) \notin verified /\ ~ArgumentsAgree(e, At(AddressOf(e)))
                /\ Rejected /\ UNCHANGED verified
  /\ UNCHANGED vars

\* The API cannot be reached: verifyContract() throws.
APIFails ==
  /\ Verifying /\ Stop /\ Mishap
  /\ UNCHANGED <<network, phase3, chain, file, entry, script, process, resume, skipped, verified>>

NextVScript ==
  /\ vscript /= 0 /\ vtodo = <<>>
  /\ vscript' = IF vscript = Len(VScripts) THEN 0 ELSE vscript + 1
  /\ vtodo' = NotBegun
  /\ UNCHANGED <<vars, verified>>

VStep == BeginVScript \/ VerifyContract \/ NextVScript
DeploymentNext == vscript = 0 /\ Next /\ UNCHANGED vvars
VNext == DeploymentNext \/ VerifyDone \/ VerifyEarly \/ VStep \/ APIFails

VSpec == VInit /\ [][VNext]_allVars
\* Scripts run on; the operator goes on deploying, and verifies what is deployed.
VLiveSpec ==
  /\ VSpec
  /\ WF_allVars(vscript = 0 /\ Step /\ UNCHANGED vvars)
  /\ WF_allVars(vscript = 0 /\ GoOn /\ UNCHANGED vvars)
  /\ WF_allVars(VStep) /\ WF_allVars(VerifyDone)

-----------------------------------------------------------------------------
(* Properties *)

\* What some verification script is about; scripts 7 and 8 need phase 3.
Verifiable ==
  LET n == IF phase3 THEN Len(VScripts) ELSE 7
  IN Wanted \cap UNION {ToSet(VScripts[i]) : i \in 1..n}

\* Whatever failed while deploying or verifying: all that the scripts are to verify
\* is verified in the end with the arguments it was built with, except for the
\* static tokens, and with phase 3 the confirmation passes (verifyContract(),
\* verify_etherscan.ts).
VerifiedInTheEnd ==
  []<>(network = "live" =>
         /\ Done
         /\ \A e \in Verifiable \ StaticTokens : AddressOf(e) \in verified
         /\ phase3 => ConfirmPasses)
=============================================================================

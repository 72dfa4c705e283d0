-------------------------- MODULE DeploymentProofs ---------------------------
(***************************************************************************)
(* Proofs about Deployment, also while Verification goes on: the types,    *)
(* and that the files name what was built together.                        *)
(*                                                                         *)
(* What a script does is data: BodiesOK says of each of the fourteen that  *)
(* it deploys what it records, after its links, and writes afterwards.     *)
(* The inductive invariant follows the mark, the first script that is yet  *)
(* to be completed: what scripts before it have recorded is sound.         *)
(***************************************************************************)
EXTENDS Verification, ArithmeticProofs, TLAPS

(***************************************************************************)
(* What the scripts do                                                     *)
(***************************************************************************)

\* The entries that each script records.
EntriesOf(s) == Wanted \cap
  CASE s = 2 -> ToSet(Libraries) [] s = 3 -> ToSet(Implementations)
    [] s = 4 -> {"rsrAsset"} [] s = 5 -> {"facadeRead"} [] s = 6 -> {"deployer"}
    [] s = 7 -> {"facadeWriteLib", "facadeWrite"} [] s = 8 -> {"facadeAct"}
    [] s = 10 -> ToSet(Assets) [] s = 11 -> Phase2Entries \ ToSet(Assets)
    [] s = 12 -> {"facadeWrite of RToken"} [] s = 13 -> {"RToken"}
    [] s = 14 -> {"governance"}
    [] OTHER -> {}

Deploys(x, e) == x.do = "deploy" /\ x.what = e
Records(x, e) == x.do = "record" /\ x.what = e

\* The link d of what step x of the script deploys: deployed before in the same script,
\* or recorded by an earlier one.
LinkOK(s, body, x, d) ==
  \/ /\ d \in StaticTokens \cup EntriesOf(s)
     /\ \E y \in body : Deploys(y, KindOf(d)) /\ y.turn < x.turn
  \/ /\ \E t \in 1..14 : t < s /\ d \in EntriesOf(t)
     /\ \A y \in body : ~Deploys(y, KindOf(d))

\* What a script records it has deployed, and writes later; what it deploys it deploys once,
\* after its links.
StepsOK(body) == \A x \in body : x.turn \in Nat /\ x.do \in {"deploy", "record", "write"}
RecordsOK(s, body) ==
  /\ \A x \in body : x.do = "record" => x.what \in EntriesOf(s)
  /\ \A e \in EntriesOf(s) :
       \E x, y \in body : Records(x, e) /\ y.do = "write" /\ x.turn < y.turn
  /\ s # 12 => \A x \in body : x.do = "record" =>
       /\ \E y \in body : Deploys(y, KindOf(x.what))
       /\ \A y \in body : Deploys(y, KindOf(x.what)) => y.turn < x.turn
DeploysOK(s, body) ==
  \A x \in body : x.do = "deploy" =>
    /\ s # 12 /\ x.what \in Wanted
    /\ \A y \in body : Deploys(y, x.what) => y = x
    /\ \A d \in Links(x.what) : LinkOK(s, body, x, d)
BodyOK(s, body) == StepsOK(body) /\ RecordsOK(s, body) /\ DeploysOK(s, body)

LEMMA Lists ==
  /\ ToSet(Libraries) = {"tradingLib", "rewardableLib", "permitLib", "oracleLib"}
  /\ ToSet(Implementations) =
       {"main", "trade", "assetRegistry", "backingManager", "basketHandler", "broker",
        "distributor", "furnace", "rsrTrader", "rTokenTrader", "rToken", "stRSR"}
  /\ ToSet(Assets) = {"stkAAVE", "COMP"}
  /\ ToSet(Fiat) = {"DAI", "USDC", "USDT", "USDP"}
  /\ ToSet(ATokens) = {"aUSDC", "aUSDT", "aBUSD", "aUSDP"}
  /\ ToSet(FiatCTokens) = {"cDAI", "cUSDC", "cUSDT", "cUSDP"}
  /\ DOMAIN Static = {"aDAI", "aUSDC", "aUSDT", "aBUSD", "aUSDP"}
  /\ StaticTokens = {"static aDAI", "static aUSDC", "static aUSDT",
                     "static aBUSD", "static aUSDP"}
<1>1. ToSet(Libraries) = {"tradingLib", "rewardableLib", "permitLib", "oracleLib"}
  BY DEF ToSet, Libraries
<1>2. ToSet(Implementations) =
       {"main", "trade", "assetRegistry", "backingManager", "basketHandler", "broker",
        "distributor", "furnace", "rsrTrader", "rTokenTrader", "rToken", "stRSR"}
  BY DEF ToSet, Implementations
<1>3. /\ ToSet(Assets) = {"stkAAVE", "COMP"}
      /\ ToSet(Fiat) = {"DAI", "USDC", "USDT", "USDP"}
      /\ ToSet(ATokens) = {"aUSDC", "aUSDT", "aBUSD", "aUSDP"}
      /\ ToSet(FiatCTokens) = {"cDAI", "cUSDC", "cUSDT", "cUSDP"}
  BY DEF ToSet, Assets, Fiat, ATokens, FiatCTokens
<1>4. DOMAIN Static = {"aDAI", "aUSDC", "aUSDT", "aBUSD", "aUSDP"}
  BY DEF Static
<1>5. /\ Static["aDAI"] = "static aDAI" /\ Static["aUSDC"] = "static aUSDC"
      /\ Static["aUSDT"] = "static aUSDT" /\ Static["aBUSD"] = "static aBUSD"
      /\ Static["aUSDP"] = "static aUSDP"
  BY DEF Static
<1>6. StaticTokens = {"static aDAI", "static aUSDC", "static aUSDT",
                     "static aBUSD", "static aUSDP"}
  BY <1>4, <1>5 DEF StaticTokens
<1> QED
  BY <1>1, <1>2, <1>3, <1>4, <1>6

\* The place of an entry in a list is one of its indices.
LEMMA PositionIn ==
  ASSUME NEW es, NEW e \in ToSet(es)
  PROVE  Position(es, e) \in DOMAIN es /\ es[Position(es, e)] = e
<1>1. \E i \in DOMAIN es : es[i] = e
  BY DEF ToSet
<1> QED
  BY <1>1 DEF Position

LEMMA StepOfDo ==
  ASSUME NEW i, NEW j, NEW do, NEW e
  PROVE  /\ Do(i, j, do, e).turn = 5 * i + j
         /\ Do(i, j, do, e).do = do /\ Do(i, j, do, e).what = e
  BY DEF Do

\* The steps of a list of entries.
LEMMA EachRecordThenWrite ==
  ASSUME NEW n, NEW es, NEW x
  PROVE  x \in Each(n, es, RecordThenWrite) <=>
           \E e \in ToSet(es) \cap Wanted :
             \/ x = Do(n + Position(es, e), 1, "deploy", e)
             \/ x = Do(n + Position(es, e), 2, "record", e)
             \/ x = Do(n + Position(es, e), 3, "write", e)
  BY DEF Each, RecordThenWrite

LEMMA EachWriteThenRecord ==
  ASSUME NEW n, NEW es, NEW x
  PROVE  x \in Each(n, es, WriteThenRecord) <=>
           \E e \in ToSet(es) \cap Wanted :
             \/ x = Do(n + Position(es, e), 1, "deploy", e)
             \/ x = Do(n + Position(es, e), 2, "write", e)
             \/ x = Do(n + Position(es, e), 3, "record", e)
  BY DEF Each, WriteThenRecord

LEMMA EachDeployAndRecord ==
  ASSUME NEW n, NEW es, NEW x
  PROVE  x \in Each(n, es, DeployAndRecord) <=>
           \E e \in ToSet(es) \cap Wanted :
             \/ x = Do(n + Position(es, e), 1, "deploy", e)
             \/ x = Do(n + Position(es, e), 2, "record", e)
  BY DEF Each, DeployAndRecord

\* A script that deploys, records and writes one entry after the other.
Plain(s, es) ==
  /\ EntriesOf(s) = ToSet(es) \cap Wanted
  /\ DOMAIN es \subseteq 1..20 /\ s # 12
  /\ \A e \in EntriesOf(s) :
       /\ KindOf(e) = e
       /\ \A d \in Links(e) : /\ KindOf(d) \notin EntriesOf(s)
                              /\ \E t \in 1..14 : t < s /\ d \in EntriesOf(t)

LEMMA PlainScript ==
  ASSUME NEW s, NEW es, Plain(s, es)
  PROVE  BodyOK(s, Each(0, es, RecordThenWrite))
<1> DEFINE at(e) == 0 + Position(es, e)
           body == Each(0, es, RecordThenWrite)
<1>1. \A e \in EntriesOf(s) : at(e) \in Nat
  BY PositionIn DEF Plain
<1>2. \A x : x \in body <=> \E e \in EntriesOf(s) :
               \/ x = Do(at(e), 1, "deploy", e)
               \/ x = Do(at(e), 2, "record", e)
               \/ x = Do(at(e), 3, "write", e)
  BY EachRecordThenWrite DEF Plain
<1> HIDE DEF at, body
<1>3. StepsOK(body)
  BY <1>1, <1>2, StepOfDo DEF StepsOK
<1>4. RecordsOK(s, body)
  <2>1. ASSUME NEW e \in EntriesOf(s)
        PROVE  \E x, y \in body : Records(x, e) /\ y.do = "write" /\ x.turn < y.turn
    <3>1. /\ Do(at(e), 2, "record", e) \in body /\ Do(at(e), 3, "write", e) \in body
          /\ 5 * at(e) + 2 < 5 * at(e) + 3
      BY <1>1, <1>2
    <3> QED
      BY <3>1, StepOfDo DEF Records
  <2>2. ASSUME NEW x \in body, x.do = "record"
        PROVE  /\ x.what \in EntriesOf(s)
               /\ \E y \in body : Deploys(y, KindOf(x.what))
               /\ \A y \in body : Deploys(y, KindOf(x.what)) => y.turn < x.turn
    <3>1. x.what \in EntriesOf(s) /\ x = Do(at(x.what), 2, "record", x.what)
      BY <1>2, <2>2, StepOfDo
    <3>2. KindOf(x.what) = x.what
      BY <3>1 DEF Plain
    <3>3. Deploys(Do(at(x.what), 1, "deploy", x.what), x.what)
      BY StepOfDo DEF Deploys
    <3>4. ASSUME NEW y \in body, Deploys(y, x.what)
          PROVE  y.turn < x.turn
      <4>1. y = Do(at(x.what), 1, "deploy", x.what)
        BY <1>2, <3>4, StepOfDo DEF Deploys
      <4>2. y.turn = 5 * at(x.what) + 1 /\ x.turn = 5 * at(x.what) + 2
        BY <3>1, <4>1, StepOfDo
      <4> QED
        BY <1>1, <3>1, <4>2
    <3> QED
      BY <1>2, <3>1, <3>2, <3>3, <3>4
  <2> QED
    BY <2>1, <2>2 DEF RecordsOK
<1>5. DeploysOK(s, body)
  <2> SUFFICES ASSUME NEW x \in body, x.do = "deploy"
               PROVE  /\ s # 12 /\ x.what \in Wanted
                      /\ \A y \in body : Deploys(y, x.what) => y = x
                      /\ \A d \in Links(x.what) : LinkOK(s, body, x, d)
    BY DEF DeploysOK
  <2>1. x.what \in EntriesOf(s) /\ x = Do(at(x.what), 1, "deploy", x.what)
    BY <1>2, StepOfDo
  <2>2. \A y \in body : y.do = "deploy" => y.what \in EntriesOf(s)
                                           /\ y = Do(at(y.what), 1, "deploy", y.what)
    BY <1>2, StepOfDo
  <2>3. \A d \in Links(x.what) : LinkOK(s, body, x, d)
    BY <2>1, <2>2 DEF LinkOK, Plain, Deploys
  <2> QED
    BY <2>1, <2>2, <2>3 DEF Deploys, Plain
<1> QED
  BY <1>3, <1>4, <1>5 DEF BodyOK, body

\* A script that deploys and records one entry after the other, and writes at last.
LEMMA PlainScriptAtLast ==
  ASSUME NEW s, NEW es, Plain(s, es)
  PROVE  BodyOK(s, Each(0, es, DeployAndRecord) \cup {WriteAtLast})
<1> DEFINE at(e) == 0 + Position(es, e)
           body == Each(0, es, DeployAndRecord) \cup {WriteAtLast}
<1>1. \A e \in EntriesOf(s) : at(e) \in Nat /\ at(e) <= 20
  BY PositionIn DEF Plain
<1>2. \A x : x \in body <=> \/ x = WriteAtLast
                            \/ \E e \in EntriesOf(s) :
                                 \/ x = Do(at(e), 1, "deploy", e)
                                 \/ x = Do(at(e), 2, "record", e)
  BY EachDeployAndRecord DEF Plain
<1>3. WriteAtLast.turn = 495 /\ WriteAtLast.do = "write"
  BY DEF WriteAtLast, Do
<1> HIDE DEF at, body
<1>4. StepsOK(body)
  BY <1>1, <1>2, <1>3, StepOfDo DEF StepsOK
<1>5. RecordsOK(s, body)
  <2>1. ASSUME NEW e \in EntriesOf(s)
        PROVE  \E x, y \in body : Records(x, e) /\ y.do = "write" /\ x.turn < y.turn
    <3>1. /\ Do(at(e), 2, "record", e) \in body /\ WriteAtLast \in body
          /\ 5 * at(e) + 2 < 495
      BY <1>1, <1>2
    <3> QED
      BY <1>3, <3>1, StepOfDo DEF Records
  <2>2. ASSUME NEW x \in body, x.do = "record"
        PROVE  /\ x.what \in EntriesOf(s)
               /\ \E y \in body : Deploys(y, KindOf(x.what))
               /\ \A y \in body : Deploys(y, KindOf(x.what)) => y.turn < x.turn
    <3>1. x.what \in EntriesOf(s) /\ x = Do(at(x.what), 2, "record", x.what)
      BY <1>2, <1>3, <2>2, StepOfDo
    <3>2. KindOf(x.what) = x.what
      BY <3>1 DEF Plain
    <3>3. Deploys(Do(at(x.what), 1, "deploy", x.what), x.what)
      BY StepOfDo DEF Deploys
    <3>4. ASSUME NEW y \in body, Deploys(y, x.what)
          PROVE  y.turn < x.turn
      <4>1. y = Do(at(x.what), 1, "deploy", x.what)
        BY <1>2, <1>3, <3>4, StepOfDo DEF Deploys
      <4>2. y.turn = 5 * at(x.what) + 1 /\ x.turn = 5 * at(x.what) + 2
        BY <3>1, <4>1, StepOfDo
      <4> QED
        BY <1>1, <3>1, <4>2
    <3> QED
      BY <1>2, <3>1, <3>2, <3>3, <3>4
  <2> QED
    BY <2>1, <2>2 DEF RecordsOK
<1>6. DeploysOK(s, body)
  <2> SUFFICES ASSUME NEW x \in body, x.do = "deploy"
               PROVE  /\ s # 12 /\ x.what \in Wanted
                      /\ \A y \in body : Deploys(y, x.what) => y = x
                      /\ \A d \in Links(x.what) : LinkOK(s, body, x, d)
    BY DEF DeploysOK
  <2>1. x.what \in EntriesOf(s) /\ x = Do(at(x.what), 1, "deploy", x.what)
    BY <1>2, <1>3, StepOfDo
  <2>2. \A y \in body : y.do = "deploy" => y.what \in EntriesOf(s)
                                           /\ y = Do(at(y.what), 1, "deploy", y.what)
    BY <1>2, <1>3, StepOfDo
  <2>3. \A d \in Links(x.what) : LinkOK(s, body, x, d)
    BY <2>1, <2>2 DEF LinkOK, Plain, Deploys
  <2> QED
    BY <2>1, <2>2, <2>3 DEF Deploys, Plain
<1> QED
  BY <1>4, <1>5, <1>6 DEF BodyOK, body

\* A list of one entry.
LEMMA Single ==
  ASSUME NEW e PROVE ToSet(<<e>>) = {e} /\ DOMAIN <<e>> \subseteq 1..20
  BY DEF ToSet

LEMMA EntriesAre ==
  /\ EntriesOf(1) = {} /\ EntriesOf(9) = {}
  /\ EntriesOf(2) = Wanted \cap ToSet(Libraries)
  /\ EntriesOf(3) = Wanted \cap ToSet(Implementations)
  /\ EntriesOf(4) = Wanted \cap {"rsrAsset"}
  /\ EntriesOf(5) = Wanted \cap {"facadeRead"}
  /\ EntriesOf(6) = Wanted \cap {"deployer"}
  /\ EntriesOf(7) = Wanted \cap {"facadeWriteLib", "facadeWrite"}
  /\ EntriesOf(8) = Wanted \cap {"facadeAct"}
  /\ EntriesOf(10) = Wanted \cap ToSet(Assets)
  /\ EntriesOf(11) = Wanted \cap (Phase2Entries \ ToSet(Assets))
  /\ EntriesOf(12) = Wanted \cap {"facadeWrite of RToken"}
  /\ EntriesOf(13) = Wanted \cap {"RToken"}
  /\ EntriesOf(14) = Wanted \cap {"governance"}
  BY DEF EntriesOf

\* What is deployed without links.
LEMMA NoLinks ==
  ASSUME NEW e \in ToSet(Libraries) \cup ToSet(Assets)
                     \cup {"rsrAsset", "facadeRead", "facadeAct", "facadeWriteLib"}
  PROVE  Links(e) = {} /\ KindOf(e) = e
<1>1. e \notin ToSet(Implementations)
  BY Lists
<1>2. KindOf(e) = e
  BY Lists DEF KindOf
<1>3. e \notin Phase2Entries \ ToSet(Assets)
  BY Lists DEF Phase2Entries
<1>4. e \notin {"deployer", "facadeWrite", "RToken", "governance"}
  BY Lists
<1> QED
  BY <1>1, <1>2, <1>3, <1>4 DEF Links, DeployAsset

LEMMA LibrariesOK == BodyOK(2, Body(2))
<1>1. EntriesOf(2) = ToSet(Libraries) \cap Wanted
  BY DEF EntriesOf
<1>2. DOMAIN Libraries \subseteq 1..20
  BY DEF Libraries
<1>3. Plain(2, Libraries)
  BY <1>1, <1>2, NoLinks DEF Plain
<1> QED
  BY <1>3, PlainScriptAtLast DEF Body, DeployLibraries

LEMMA AssetsOK == BodyOK(10, Body(10))
<1>1. EntriesOf(10) = ToSet(Assets) \cap Wanted
  BY DEF EntriesOf
<1>2. DOMAIN Assets \subseteq 1..20
  BY DEF Assets
<1>3. Plain(10, Assets)
  BY <1>1, <1>2, NoLinks DEF Plain
<1> QED
  BY <1>3, PlainScriptAtLast DEF Body, DeployAssets

LEMMA RSRAssetOK == BodyOK(4, Body(4))
<1>1. EntriesOf(4) = ToSet(<<"rsrAsset">>) \cap Wanted
  BY Single DEF EntriesOf
<1>2. Plain(4, <<"rsrAsset">>)
  BY <1>1, Single, NoLinks DEF Plain
<1> QED
  BY <1>2, PlainScript DEF Body, DeployRSRAsset

LEMMA FacadeOK == BodyOK(5, Body(5))
<1>1. EntriesOf(5) = ToSet(<<"facadeRead">>) \cap Wanted
  BY Single DEF EntriesOf
<1>2. Plain(5, <<"facadeRead">>)
  BY <1>1, Single, NoLinks DEF Plain
<1> QED
  BY <1>2, PlainScript DEF Body, DeployFacade

LEMMA FacadeActOK == BodyOK(8, Body(8))
<1>1. EntriesOf(8) = ToSet(<<"facadeAct">>) \cap Wanted
  BY Single DEF EntriesOf
<1>2. Plain(8, <<"facadeAct">>)
  BY <1>1, Single, NoLinks DEF Plain
<1> QED
  BY <1>2, PlainScript DEF Body, DeployFacadeAct

\* Links, one kind of contract after the other.
LEMMA LinksOfDeployer ==
  Links("deployer") = Wanted \cap ({"rsrAsset"} \cup ToSet(Implementations))
<1>1. /\ "deployer" \notin ToSet(Implementations)
      /\ "deployer" \notin ToSet(Assets) \cup {"rsrAsset"}
      /\ "deployer" \notin Phase2Entries \ ToSet(Assets)
  BY Lists DEF Phase2Entries
<1> QED
  BY <1>1 DEF Links

LEMMA LinksOfRToken ==
  Links("RToken") = Wanted \cap ({"facadeWrite of RToken"} \cup RTokenSetup)
<1>1. /\ "RToken" \notin ToSet(Implementations)
      /\ "RToken" \notin ToSet(Assets) \cup {"rsrAsset"}
      /\ "RToken" \notin Phase2Entries \ ToSet(Assets)
  BY Lists DEF Phase2Entries
<1> QED
  BY <1>1 DEF Links

LEMMA LinksOfGovernance ==
  Links("governance") = Wanted \cap {"facadeWrite of RToken", "RToken"}
<1>1. /\ "governance" \notin ToSet(Implementations)
      /\ "governance" \notin ToSet(Assets) \cup {"rsrAsset"}
      /\ "governance" \notin Phase2Entries \ ToSet(Assets)
  BY Lists DEF Phase2Entries
<1> QED
  BY <1>1 DEF Links

LEMMA DeployerOK == BodyOK(6, Body(6))
<1>1. EntriesOf(6) = ToSet(<<"deployer">>) \cap Wanted
  BY Single DEF EntriesOf
<1>2. ASSUME NEW d \in Links("deployer")
      PROVE  KindOf(d) # "deployer" /\ \E t \in 1..14 : t < 6 /\ d \in EntriesOf(t)
  <2>1. d \in Wanted /\ d \in {"rsrAsset"} \cup ToSet(Implementations)
    BY <1>2, LinksOfDeployer
  <2>2. d \in EntriesOf(4) \/ d \in EntriesOf(3)
    BY <2>1, EntriesAre
  <2>3. KindOf(d) # "deployer"
    BY <2>1, Lists DEF KindOf
  <2> QED
    BY <2>2, <2>3
<1>3. KindOf("deployer") = "deployer"
  BY DEF KindOf
<1>4. Plain(6, <<"deployer">>)
  BY <1>1, <1>2, <1>3, Single DEF Plain
<1> QED
  BY <1>4, PlainScript DEF Body, DeployDeployer

LEMMA RTokenOK == BodyOK(13, Body(13))
<1>1. EntriesOf(13) = ToSet(<<"RToken">>) \cap Wanted
  BY Single DEF EntriesOf
<1>2. ASSUME NEW d \in Links("RToken")
      PROVE  KindOf(d) # "RToken" /\ \E t \in 1..14 : t < 13 /\ d \in EntriesOf(t)
  <2>1. d \in Wanted /\ d \in {"facadeWrite of RToken", "stkAAVE", "COMP", "DAI", "aDAI",
                              "cDAI", "USDC"}
    BY <1>2, LinksOfRToken DEF RTokenSetup
  <2>2. d \in EntriesOf(12) \/ d \in EntriesOf(10) \/ d \in EntriesOf(11)
    BY <2>1, EntriesAre, Lists DEF Phase2Entries
  <2>3. KindOf(d) # "RToken"
    BY <2>1 DEF KindOf
  <2> QED
    BY <2>2, <2>3
<1>3. KindOf("RToken") = "RToken"
  BY DEF KindOf
<1>4. Plain(13, <<"RToken">>)
  BY <1>1, <1>2, <1>3, Single DEF Plain
<1> QED
  BY <1>4, PlainScript DEF Body, DeployRToken

LEMMA GovernanceOK == BodyOK(14, Body(14))
<1>1. EntriesOf(14) = ToSet(<<"governance">>) \cap Wanted
  BY Single DEF EntriesOf
<1>2. ASSUME NEW d \in Links("governance")
      PROVE  KindOf(d) # "governance" /\ \E t \in 1..14 : t < 14 /\ d \in EntriesOf(t)
  <2>1. d \in Wanted /\ d \in {"facadeWrite of RToken", "RToken"}
    BY <1>2, LinksOfGovernance
  <2>2. d \in EntriesOf(12) \/ d \in EntriesOf(13)
    BY <2>1, EntriesAre
  <2>3. KindOf(d) # "governance"
    BY <2>1 DEF KindOf
  <2> QED
    BY <2>2, <2>3
<1>3. KindOf("governance") = "governance"
  BY DEF KindOf
<1>4. Plain(14, <<"governance">>)
  BY <1>1, <1>2, <1>3, Single DEF Plain
<1> QED
  BY <1>4, PlainScript DEF Body, DeployGovernance

LEMMA LinksOfFacadeWrite ==
  Links("facadeWrite") = Wanted \cap {"facadeWriteLib", "deployer"}
<1>1. /\ "facadeWrite" \notin ToSet(Implementations)
      /\ "facadeWrite" \notin ToSet(Assets) \cup {"rsrAsset"}
      /\ "facadeWrite" \notin Phase2Entries \ ToSet(Assets)
  BY Lists DEF Phase2Entries
<1> QED
  BY <1>1 DEF Links

LEMMA LinksOfImplementations ==
  ASSUME NEW e \in ToSet(Implementations)
  PROVE  Links(e) \subseteq Wanted \cap ToSet(Libraries)
<1>1. /\ e \notin ToSet(Assets) \cup {"rsrAsset", "deployer", "facadeWrite", "RToken", "governance"}
      /\ e \notin Phase2Entries \ ToSet(Assets)
  BY Lists DEF Phase2Entries
<1>2. Links(e) = Wanted \cap ImplementationLinks(e)
  BY <1>1 DEF Links
<1>3. ImplementationLinks(e) \subseteq ToSet(Libraries)
  BY Lists DEF ImplementationLinks
<1> QED
  BY <1>2, <1>3

\* Script 3: rTokenTrader is recorded without a deployment, after rsrTrader.
LEMMA ImplementationsOK == BodyOK(3, Body(3))
<1> DEFINE at(e) == 0 + Position(Implementations, e)
           body == Each(0, Implementations, DeployImplementation)
<1>1. \A e \in EntriesOf(3) : at(e) \in Nat
  <2>1. DOMAIN Implementations = 1..12
    BY DEF Implementations
  <2>2. \A e \in EntriesOf(3) : e \in ToSet(Implementations)
    BY EntriesAre
  <2>3. \A e \in EntriesOf(3) : Position(Implementations, e) \in 1..12
    BY <2>1, <2>2, PositionIn
  <2> QED
    BY <2>3
<1>2. at("rsrTrader") < at("rTokenTrader")
  <2>1. /\ Position(Implementations, "rsrTrader") \in DOMAIN Implementations
        /\ Implementations[Position(Implementations, "rsrTrader")] = "rsrTrader"
        /\ Position(Implementations, "rTokenTrader") \in DOMAIN Implementations
        /\ Implementations[Position(Implementations, "rTokenTrader")] = "rTokenTrader"
    BY PositionIn, Lists
  <2>2. \A i \in DOMAIN Implementations : /\ Implementations[i] = "rsrTrader" => i = 9
                                          /\ Implementations[i] = "rTokenTrader" => i = 10
    BY DEF Implementations
  <2> QED
    BY <2>1, <2>2
<1>3. \A x : x \in body <=> \E e \in EntriesOf(3) :
               \/ x = Do(at(e), 1, "deploy", e) /\ e # "rTokenTrader"
               \/ x = Do(at(e), 2, "record", e)
               \/ x = Do(at(e), 3, "write", e)
  <2>1. \A e : DeployImplementation(at(e), e) =
                 {Do(at(e), 2, "record", e), Do(at(e), 3, "write", e)}
                   \cup (IF e = "rTokenTrader" THEN {} ELSE {Do(at(e), 1, "deploy", e)})
    BY DEF DeployImplementation, RecordThenWrite, Do
  <2>2. body = UNION {DeployImplementation(at(e), e) : e \in EntriesOf(3)}
    BY EntriesAre, Zenon DEF Each
  <2> HIDE DEF at, body
  <2>3. \A x : x \in body <=> \E e \in EntriesOf(3) : x \in DeployImplementation(at(e), e)
    BY <2>2
  <2>4. \A e, x : x \in DeployImplementation(at(e), e) <=>
                    \/ x = Do(at(e), 1, "deploy", e) /\ e # "rTokenTrader"
                    \/ x = Do(at(e), 2, "record", e)
                    \/ x = Do(at(e), 3, "write", e)
    <3> TAKE e, x
    <3>1. CASE e = "rTokenTrader"
      BY <2>1, <3>1
    <3>2. CASE e # "rTokenTrader"
      BY <2>1, <3>2
    <3> QED
      BY <3>1, <3>2
  <2> QED
    BY <2>3, <2>4, Zenon
<1> HIDE DEF at, body
<1>4. StepsOK(body)
  BY <1>1, <1>3, StepOfDo DEF StepsOK
<1>5. \A e \in EntriesOf(3) : KindOf(e) = IF e = "rTokenTrader" THEN "rsrTrader" ELSE e
  BY EntriesAre, Lists DEF KindOf
<1>6. \A e \in EntriesOf(3) : KindOf(e) \in EntriesOf(3) /\ KindOf(e) # "rTokenTrader"
  BY <1>5, EntriesAre, Lists, WantedAssumption
<1>7. \A y \in body : y.do = "deploy" => y.what \in EntriesOf(3)
                                         /\ y = Do(at(y.what), 1, "deploy", y.what)
  BY <1>3, StepOfDo
<1>8. RecordsOK(3, body)
  <2>1. ASSUME NEW e \in EntriesOf(3)
        PROVE  \E x, y \in body : Records(x, e) /\ y.do = "write" /\ x.turn < y.turn
    <3>1. /\ Do(at(e), 2, "record", e) \in body /\ Do(at(e), 3, "write", e) \in body
          /\ 5 * at(e) + 2 < 5 * at(e) + 3
      BY <1>1, <1>3
    <3> QED
      BY <3>1, StepOfDo DEF Records
  <2>2. ASSUME NEW x \in body, x.do = "record"
        PROVE  /\ x.what \in EntriesOf(3)
               /\ \E y \in body : Deploys(y, KindOf(x.what))
               /\ \A y \in body : Deploys(y, KindOf(x.what)) => y.turn < x.turn
    <3> DEFINE e == x.what
               k == KindOf(e)
    <3>1. e \in EntriesOf(3) /\ x = Do(at(e), 2, "record", e)
      BY <1>3, <2>2, StepOfDo
    <3>2. k \in EntriesOf(3) /\ k # "rTokenTrader"
      BY <1>6, <3>1
    <3>3. Do(at(k), 1, "deploy", k) \in body
      BY <1>3, <3>2
    <3>4. Deploys(Do(at(k), 1, "deploy", k), k)
      BY StepOfDo DEF Deploys
    <3>5. at(k) \in Nat /\ at(e) \in Nat /\ at(k) <= at(e)
      BY <1>1, <1>2, <1>5, <3>1, <3>2
    <3>6. ASSUME NEW y \in body, Deploys(y, k)
          PROVE  y.turn < x.turn
      <4>1. y.turn = 5 * at(k) + 1 /\ x.turn = 5 * at(e) + 2
        BY <1>7, <3>1, <3>6, StepOfDo DEF Deploys
      <4> QED
        BY <3>5, <4>1
    <3> QED
      BY <3>1, <3>3, <3>4, <3>6
  <2> QED
    BY <2>1, <2>2 DEF RecordsOK
<1>9. DeploysOK(3, body)
  <2> SUFFICES ASSUME NEW x \in body, x.do = "deploy"
               PROVE  /\ x.what \in Wanted
                      /\ \A y \in body : Deploys(y, x.what) => y = x
                      /\ \A d \in Links(x.what) : LinkOK(3, body, x, d)
    BY DEF DeploysOK
  <2>1. x.what \in EntriesOf(3)
    BY <1>7
  <2>2. ASSUME NEW d \in Links(x.what) PROVE LinkOK(3, body, x, d)
    <3>1. d \in Wanted /\ d \in ToSet(Libraries)
      BY <2>1, LinksOfImplementations, EntriesAre
    <3>2. d \in EntriesOf(2) /\ KindOf(d) = d
      BY <3>1, NoLinks, EntriesAre
    <3>3. d \notin EntriesOf(3)
      BY <3>1, Lists, EntriesAre
    <3> QED
      BY <1>7, <3>2, <3>3 DEF LinkOK, Deploys
  <2>3. x.what \in Wanted
    BY <2>1, EntriesAre
  <2>4. \A y \in body : Deploys(y, x.what) => y = x
    BY <1>7 DEF Deploys
  <2> QED
    BY <2>2, <2>3, <2>4
<1> QED
  BY <1>4, <1>8, <1>9 DEF BodyOK, body, Body, DeployImplementations

\* Script 7: both contracts are deployed before either is recorded.
LEMMA FacadeWriteOK == BodyOK(7, Body(7))
<1> DEFINE both == <<"facadeWriteLib", "facadeWrite">>
           at(e) == IF e = "facadeWriteLib" THEN 1 ELSE 2
           body == DeployFacadeWrite
<1>0. EntriesOf(7) = {"facadeWriteLib", "facadeWrite"} \cap Wanted
  BY EntriesAre
<1>1. ToSet(both) = {"facadeWriteLib", "facadeWrite"}
  BY DEF ToSet
<1>2. Position(both, "facadeWriteLib") = 1 /\ Position(both, "facadeWrite") = 2
  <2>1. /\ Position(both, "facadeWriteLib") \in DOMAIN both
        /\ both[Position(both, "facadeWriteLib")] = "facadeWriteLib"
        /\ Position(both, "facadeWrite") \in DOMAIN both
        /\ both[Position(both, "facadeWrite")] = "facadeWrite"
    BY <1>1, PositionIn
  <2>2. \A i \in DOMAIN both : /\ both[i] = "facadeWriteLib" => i = 1
                               /\ both[i] = "facadeWrite" => i = 2
    OBVIOUS
  <2> QED
    BY <2>1, <2>2
<1>3. \A x : x \in body <=>
        \/ x = WriteAtLast
        \/ \E e \in EntriesOf(7) : \/ x = Do(at(e), 1, "deploy", e)
                                   \/ x = Do(2 + at(e), 1, "record", e)
  <2> HIDE DEF both
  <2>1. \A e \in EntriesOf(7) : at(e) = 0 + Position(both, e)
    BY <1>0, <1>2
  <2>2. \A e \in EntriesOf(7) : 2 + at(e) = 2 + Position(both, e)
    BY <1>0, <1>2
  <2>3. \A x : x \in body <=>
        \/ x = WriteAtLast
        \/ \E e \in EntriesOf(7) : \/ x = Do(0 + Position(both, e), 1, "deploy", e)
                                   \/ x = Do(2 + Position(both, e), 1, "record", e)
    <3> DEFINE One(i, e) == {Do(i, 1, "deploy", e)}
               Note(i, e) == {Do(i, 1, "record", e)}
    <3>1. body = Each(0, both, One) \cup Each(2, both, Note) \cup {WriteAtLast}
      BY DEF DeployFacadeWrite, both
    <3>2. \A x : x \in Each(0, both, One) <=>
                   \E e \in EntriesOf(7) : x = Do(0 + Position(both, e), 1, "deploy", e)
      BY <1>0, <1>1 DEF Each
    <3>3. \A x : x \in Each(2, both, Note) <=>
                   \E e \in EntriesOf(7) : x = Do(2 + Position(both, e), 1, "record", e)
      BY <1>0, <1>1 DEF Each
    <3> QED
      BY <3>1, <3>2, <3>3
  <2> HIDE DEF at, body
  <2> QED
    BY <2>1, <2>2, <2>3
<1>4. WriteAtLast.turn = 495 /\ WriteAtLast.do = "write"
  BY DEF WriteAtLast, Do
<1>5. \A e : at(e) \in 1..2
  OBVIOUS
<1> HIDE DEF body
<1>6. StepsOK(body)
  BY <1>3, <1>4, <1>5, StepOfDo DEF StepsOK
<1>7. \A e \in EntriesOf(7) : KindOf(e) = e /\ e \in Wanted /\ e \in {"facadeWriteLib", "facadeWrite"}
  BY EntriesAre DEF KindOf
<1>8. \A y \in body : y.do = "deploy" => /\ y.what \in EntriesOf(7)
                                         /\ y = Do(at(y.what), 1, "deploy", y.what)
                                         /\ y.turn = 5 * at(y.what) + 1
  BY <1>3, <1>4, StepOfDo
<1>9. RecordsOK(7, body)
  <2>1. ASSUME NEW e \in EntriesOf(7)
        PROVE  \E x, y \in body : Records(x, e) /\ y.do = "write" /\ x.turn < y.turn
    <3>1. /\ Do(2 + at(e), 1, "record", e) \in body /\ WriteAtLast \in body
          /\ 5 * (2 + at(e)) + 1 < 495
      BY <1>3, <1>5
    <3> QED
      BY <1>4, <3>1, StepOfDo DEF Records
  <2>2. ASSUME NEW x \in body, x.do = "record"
        PROVE  /\ x.what \in EntriesOf(7)
               /\ \E y \in body : Deploys(y, KindOf(x.what))
               /\ \A y \in body : Deploys(y, KindOf(x.what)) => y.turn < x.turn
    <3>1. /\ x.what \in EntriesOf(7) /\ x = Do(2 + at(x.what), 1, "record", x.what)
          /\ x.turn = 5 * (2 + at(x.what)) + 1
      BY <1>3, <1>4, <2>2, StepOfDo
    <3>2. /\ Do(at(x.what), 1, "deploy", x.what) \in body
          /\ Deploys(Do(at(x.what), 1, "deploy", x.what), x.what)
      BY <1>3, <3>1, StepOfDo DEF Deploys
    <3>3. \A y \in body : Deploys(y, x.what) => y.turn < x.turn
      BY <1>5, <1>8, <3>1 DEF Deploys
    <3> QED
      BY <1>7, <3>1, <3>2, <3>3
  <2> QED
    BY <2>1, <2>2 DEF RecordsOK
<1>10. DeploysOK(7, body)
  <2> SUFFICES ASSUME NEW x \in body, x.do = "deploy"
               PROVE  /\ x.what \in Wanted
                      /\ \A y \in body : Deploys(y, x.what) => y = x
                      /\ \A d \in Links(x.what) : LinkOK(7, body, x, d)
    BY DEF DeploysOK
  <2>1. CASE x.what = "facadeWriteLib"
    BY <1>7, <1>8, <2>1, NoLinks DEF Deploys
  <2>2. CASE x.what = "facadeWrite"
    <3>1. ASSUME NEW d \in Links(x.what) PROVE LinkOK(7, body, x, d)
      <4>1. CASE d = "facadeWriteLib"
        <5>1. d \in Wanted /\ d \in EntriesOf(7) /\ KindOf(d) = d
          BY <2>2, <3>1, <4>1, LinksOfFacadeWrite, EntriesAre, NoLinks
        <5>2. Do(at(d), 1, "deploy", d) \in body /\ Deploys(Do(at(d), 1, "deploy", d), d)
          BY <1>3, <5>1, StepOfDo DEF Deploys
        <5>3. \A y \in body : Deploys(y, d) => y.turn < x.turn
          BY <1>8, <2>2, <4>1 DEF Deploys
        <5> QED
          BY <5>1, <5>2, <5>3 DEF LinkOK
      <4>2. CASE d = "deployer"
        <5>1. d \in EntriesOf(6) /\ KindOf(d) = d /\ d \notin EntriesOf(7)
          BY <2>2, <3>1, <4>2, LinksOfFacadeWrite, EntriesAre DEF KindOf
        <5> QED
          BY <1>8, <5>1 DEF LinkOK, Deploys
      <4> QED
        BY <2>2, <3>1, <4>1, <4>2, LinksOfFacadeWrite
    <3> QED
      BY <1>7, <1>8, <3>1 DEF Deploys
  <2> QED
    BY <1>7, <1>8, <2>1, <2>2
<1> QED
  BY <1>6, <1>9, <1>10 DEF BodyOK, body, Body

\* The set-up scripts.
LEMMA SetupOK == /\ BodyOK(1, Body(1)) /\ BodyOK(9, Body(9)) /\ BodyOK(12, Body(12))
                 /\ \A s \in {1, 9, 12} : \E x \in Body(s) : x.do = "write"
<1>1. WriteAtLast.turn = 495 /\ WriteAtLast.do = "write"
  BY DEF WriteAtLast, Do
<1>2. Body(1) = {WriteAtLast} /\ Body(9) = {WriteAtLast}
  BY DEF Body, SetupPhase1, SetupPhase2
<1>3. Body(12) = {Do(1, 1, "record", "facadeWrite of RToken"), WriteAtLast}
  BY DEF Body, SetupRToken
<1>4. ASSUME NEW s, EntriesOf(s) = {}
      PROVE  BodyOK(s, {WriteAtLast})
  BY <1>1, <1>4 DEF BodyOK, StepsOK, RecordsOK, DeploysOK
<1>5. BodyOK(12, Body(12))
  <2> DEFINE e == "facadeWrite of RToken"
             note == Do(1, 1, "record", e)
  <2>1. note.turn = 6 /\ note.do = "record" /\ note.what = e
    BY DEF Do
  <2>2. EntriesOf(12) = {e}
    BY EntriesAre, WantedAssumption
  <2>3. Body(12) = {note, WriteAtLast}
    BY <1>3
  <2> HIDE DEF e, note
  <2>4. StepsOK({note, WriteAtLast}) /\ DeploysOK(12, {note, WriteAtLast})
    BY <1>1, <2>1 DEF StepsOK, DeploysOK
  <2>5. RecordsOK(12, {note, WriteAtLast})
    BY <1>1, <2>1, <2>2 DEF RecordsOK, Records
  <2> QED
    BY <2>3, <2>4, <2>5 DEF BodyOK
<1>6. \A s \in {1, 9, 12} : \E x \in Body(s) : x.do = "write"
  <2> SUFFICES ASSUME NEW s \in {1, 9, 12} PROVE WriteAtLast \in Body(s)
    BY <1>1
  <2>1. WriteAtLast \in Body(1) /\ WriteAtLast \in Body(9) /\ WriteAtLast \in Body(12)
    BY <1>2, <1>3
  <2>2. s = 1 \/ s = 9 \/ s = 12
    OBVIOUS
  <2> QED
    BY <2>1, <2>2, Zenon
<1>7. EntriesOf(1) = {} /\ EntriesOf(9) = {}
  BY EntriesAre
<1>8. BodyOK(1, {WriteAtLast}) /\ BodyOK(9, {WriteAtLast})
  BY <1>4, <1>7
<1> QED
  BY <1>2, <1>5, <1>6, <1>8, Zenon

\* Static tokens are deployed before they are wrapped, and recorded nowhere.
LEMMA EachStatic ==
  ASSUME NEW n, NEW es, NEW x
  PROVE  x \in Each(n, es, DeployStatic) <=>
           \E e \in ToSet(es) \cap Wanted : x = Do(n + Position(es, e), 0, "deploy", Static[e])
  BY DEF Each, DeployStatic

\* The groups of script 11.
Group ==
  [one |-> ToSet(Fiat) \cap Wanted, two |-> {"TUSD"} \cap Wanted,
   three |-> {"BUSD"} \cap Wanted, four |-> {"aDAI"} \cap Wanted,
   five |-> ToSet(ATokens) \cap Wanted, six |-> ToSet(FiatCTokens) \cap Wanted,
   seven |-> {"cWBTC", "cETH"} \cap Wanted, eight |-> {"WBTC", "WETH", "EURT"} \cap Wanted]

PlaceOf(e) ==
  IF e \in Group.one THEN 0 + Position(Fiat, e)
  ELSE IF e \in Group.two THEN 4 + Position(<<"TUSD">>, e)
  ELSE IF e \in Group.three THEN 5 + Position(<<"BUSD">>, e)
  ELSE IF e \in Group.four THEN 6 + Position(<<"aDAI">>, e)
  ELSE IF e \in Group.five THEN 7 + Position(ATokens, e)
  ELSE IF e \in Group.six THEN 11 + Position(FiatCTokens, e)
  ELSE IF e \in Group.seven THEN 15 + Position(<<"cWBTC", "cETH">>, e)
  ELSE 17 + Position(<<"WBTC", "WETH", "EURT">>, e)

WithStatic == Group.four \cup Group.five
\* Recorded after they are written, or before.
Lagging == Group.one \cup Group.three \cup Group.four
Prompt == Group.five \cup Group.six \cup Group.seven \cup Group.eight

LEMMA Groups ==
  /\ EntriesOf(11) = Group.one \cup Group.two \cup Group.three \cup Group.four
                       \cup Group.five \cup Group.six \cup Group.seven \cup Group.eight
  /\ WithStatic = DOMAIN Static \cap Wanted
  /\ "EURT" \in Group.eight
<1>1. Phase2Entries \ ToSet(Assets) =
        ToSet(Fiat) \cup {"TUSD"} \cup {"BUSD"} \cup {"aDAI"} \cup ToSet(ATokens)
          \cup ToSet(FiatCTokens) \cup {"cWBTC", "cETH"} \cup {"WBTC", "WETH", "EURT"}
  BY Lists DEF Phase2Entries
<1>2. DOMAIN Static = {"aDAI"} \cup ToSet(ATokens)
  BY Lists
<1> QED
  BY <1>1, <1>2, EntriesAre, WantedAssumption DEF Group, WithStatic

\* Where each group starts.
LEMMA Places ==
  /\ \A e \in Group.one : PlaceOf(e) = 0 + Position(Fiat, e)
  /\ \A e \in Group.two : PlaceOf(e) = 4 + Position(<<"TUSD">>, e)
  /\ \A e \in Group.three : PlaceOf(e) = 5 + Position(<<"BUSD">>, e)
  /\ \A e \in Group.four : PlaceOf(e) = 6 + Position(<<"aDAI">>, e)
  /\ \A e \in Group.five : PlaceOf(e) = 7 + Position(ATokens, e)
  /\ \A e \in Group.six : PlaceOf(e) = 11 + Position(FiatCTokens, e)
  /\ \A e \in Group.seven : PlaceOf(e) = 15 + Position(<<"cWBTC", "cETH">>, e)
  /\ \A e \in Group.eight : PlaceOf(e) = 17 + Position(<<"WBTC", "WETH", "EURT">>, e)
<1> DEFINE p1 == Position(Fiat, "")
<1>1. /\ \A e \in Group.two \cup Group.three \cup Group.four \cup Group.five \cup Group.six
                   \cup Group.seven \cup Group.eight : e \notin Group.one
      /\ \A e \in Group.three \cup Group.four \cup Group.five \cup Group.six
                   \cup Group.seven \cup Group.eight : e \notin Group.two
      /\ \A e \in Group.four \cup Group.five \cup Group.six
                   \cup Group.seven \cup Group.eight : e \notin Group.three
      /\ \A e \in Group.five \cup Group.six
                   \cup Group.seven \cup Group.eight : e \notin Group.four
      /\ \A e \in Group.six \cup Group.seven \cup Group.eight : e \notin Group.five
      /\ \A e \in Group.seven \cup Group.eight : e \notin Group.six
      /\ \A e \in Group.eight : e \notin Group.seven
  BY Lists DEF Group
<1> QED
  BY <1>1, Zenon DEF PlaceOf

LEMMA PlaceBounds ==
  /\ \A e \in EntriesOf(11) : PlaceOf(e) \in Nat
  /\ \A e \in Group.two \cup Lagging : PlaceOf(e) <= 7
  /\ PlaceOf("EURT") >= 18
<1>1. /\ ToSet(<<"TUSD">>) = {"TUSD"} /\ ToSet(<<"BUSD">>) = {"BUSD"}
      /\ ToSet(<<"aDAI">>) = {"aDAI"} /\ ToSet(<<"cWBTC", "cETH">>) = {"cWBTC", "cETH"}
      /\ ToSet(<<"WBTC", "WETH", "EURT">>) = {"WBTC", "WETH", "EURT"}
  BY DEF ToSet
<1>2. /\ DOMAIN <<"TUSD">> = 1..1 /\ DOMAIN <<"BUSD">> = 1..1 /\ DOMAIN <<"aDAI">> = 1..1
      /\ DOMAIN <<"cWBTC", "cETH">> = 1..2 /\ DOMAIN <<"WBTC", "WETH", "EURT">> = 1..3
      /\ DOMAIN Fiat = 1..4 /\ DOMAIN ATokens = 1..4 /\ DOMAIN FiatCTokens = 1..4
  BY DEF Fiat, ATokens, FiatCTokens
<1>3. /\ \A e \in Group.one : Position(Fiat, e) \in 1..4
      /\ \A e \in Group.five : Position(ATokens, e) \in 1..4
      /\ \A e \in Group.six : Position(FiatCTokens, e) \in 1..4
  <2>1. /\ \A e \in Group.one : e \in ToSet(Fiat)
        /\ \A e \in Group.five : e \in ToSet(ATokens)
        /\ \A e \in Group.six : e \in ToSet(FiatCTokens)
    BY DEF Group
  <2> QED
    BY <1>2, <2>1, PositionIn
<1>4. /\ \A e \in Group.two : Position(<<"TUSD">>, e) \in 1..1
      /\ \A e \in Group.three : Position(<<"BUSD">>, e) \in 1..1
      /\ \A e \in Group.four : Position(<<"aDAI">>, e) \in 1..1
  <2> DEFINE l2 == <<"TUSD">>
             l3 == <<"BUSD">>
             l4 == <<"aDAI">>
  <2>1. /\ \A e \in Group.two : e \in ToSet(l2)
        /\ \A e \in Group.three : e \in ToSet(l3)
        /\ \A e \in Group.four : e \in ToSet(l4)
    BY <1>1 DEF Group
  <2>2. DOMAIN l2 = 1..1 /\ DOMAIN l3 = 1..1 /\ DOMAIN l4 = 1..1
    BY <1>2
  <2> HIDE DEF l2, l3, l4
  <2>3. /\ \A e \in Group.two : Position(l2, e) \in 1..1
        /\ \A e \in Group.three : Position(l3, e) \in 1..1
        /\ \A e \in Group.four : Position(l4, e) \in 1..1
    BY <2>1, <2>2, PositionIn
  <2> QED
    BY <2>3 DEF l2, l3, l4
<1>5. /\ \A e \in Group.seven : Position(<<"cWBTC", "cETH">>, e) \in 1..2
      /\ \A e \in Group.eight : Position(<<"WBTC", "WETH", "EURT">>, e) \in 1..3
  <2> DEFINE l7 == <<"cWBTC", "cETH">>
             l8 == <<"WBTC", "WETH", "EURT">>
  <2>1. /\ \A e \in Group.seven : e \in ToSet(l7)
        /\ \A e \in Group.eight : e \in ToSet(l8)
    BY <1>1 DEF Group
  <2>2. DOMAIN l7 = 1..2 /\ DOMAIN l8 = 1..3
    BY <1>2
  <2> HIDE DEF l7, l8
  <2>3. /\ \A e \in Group.seven : Position(l7, e) \in 1..2
        /\ \A e \in Group.eight : Position(l8, e) \in 1..3
    BY <2>1, <2>2, PositionIn
  <2> QED
    BY <2>3 DEF l7, l8
<1>6. /\ \A e \in Group.one : PlaceOf(e) \in 1..4
      /\ \A e \in Group.two \cup Group.three \cup Group.four : PlaceOf(e) \in 5..7
      /\ \A e \in Group.five \cup Group.six \cup Group.seven : PlaceOf(e) \in 8..17
      /\ \A e \in Group.eight : PlaceOf(e) \in 18..20
  BY <1>3, <1>4, <1>5, Places
<1> QED
  BY <1>6, Groups DEF Lagging

\* Every step of script 11.
CollateralStep(x) ==
  \/ \E e \in EntriesOf(11) : x = Do(PlaceOf(e), 1, "deploy", e)
  \/ \E a \in WithStatic : x = Do(PlaceOf(a), 0, "deploy", Static[a])
  \/ \E e \in Group.two \cup Prompt : x = Do(PlaceOf(e), 2, "record", e)
  \/ \E e \in Lagging : x = Do(PlaceOf(e), 3, "record", e)
  \/ \E e \in Lagging : x = Do(PlaceOf(e), 2, "write", e)
  \/ \E e \in Prompt : x = Do(PlaceOf(e), 3, "write", e)

PromptSteps(G, x) ==
  \E e \in G : \/ x = Do(PlaceOf(e), 1, "deploy", e) \/ x = Do(PlaceOf(e), 2, "record", e)
               \/ x = Do(PlaceOf(e), 3, "write", e)
LaggingSteps(G, x) ==
  \E e \in G : \/ x = Do(PlaceOf(e), 1, "deploy", e) \/ x = Do(PlaceOf(e), 2, "write", e)
               \/ x = Do(PlaceOf(e), 3, "record", e)
StaticSteps(G, x) == \E a \in G : x = Do(PlaceOf(a), 0, "deploy", Static[a])

LEMMA PromptGroup ==
  ASSUME NEW n, NEW es, NEW G, ToSet(es) \cap Wanted = G,
         \A e \in G : PlaceOf(e) = n + Position(es, e)
  PROVE  \A x : x \in Each(n, es, RecordThenWrite) <=> PromptSteps(G, x)
<1> DEFINE at(e) == n + Position(es, e)
<1>1. \A e \in G : PlaceOf(e) = at(e)
  OBVIOUS
<1>2. ToSet(es) \cap Wanted = G
  OBVIOUS
<1> TAKE x
<1> QED
  BY <1>1, <1>2, EachRecordThenWrite DEF PromptSteps

LEMMA LaggingGroup ==
  ASSUME NEW n, NEW es, NEW G, ToSet(es) \cap Wanted = G,
         \A e \in G : PlaceOf(e) = n + Position(es, e)
  PROVE  \A x : x \in Each(n, es, WriteThenRecord) <=> LaggingSteps(G, x)
<1> DEFINE at(e) == n + Position(es, e)
<1>1. \A e \in G : PlaceOf(e) = at(e)
  OBVIOUS
<1>2. ToSet(es) \cap Wanted = G
  OBVIOUS
<1> TAKE x
<1> QED
  BY <1>1, <1>2, EachWriteThenRecord DEF LaggingSteps

LEMMA StaticGroup ==
  ASSUME NEW n, NEW es, NEW G, ToSet(es) \cap Wanted = G,
         \A e \in G : PlaceOf(e) = n + Position(es, e)
  PROVE  \A x : x \in Each(n, es, DeployStatic) <=> StaticSteps(G, x)
<1> DEFINE at(e) == n + Position(es, e)
<1>1. \A e \in G : PlaceOf(e) = at(e)
  OBVIOUS
<1>2. ToSet(es) \cap Wanted = G
  OBVIOUS
<1> TAKE x
<1> QED
  BY <1>1, <1>2, EachStatic DEF StaticSteps

LEMMA CollateralSteps == \A x : x \in DeployCollateral <=> CollateralStep(x)
<1> DEFINE l2 == <<"TUSD">>
           l3 == <<"BUSD">>
           l4 == <<"aDAI">>
           l7 == <<"cWBTC", "cETH">>
           l8 == <<"WBTC", "WETH", "EURT">>
<1>1. /\ DeployTUSD = Each(4, l2, DeployAndRecord) /\ DeployBUSD = Each(5, l3, WriteThenRecord)
      /\ DeployADAI = Each(6, l4, DeployStatic) \cup Each(6, l4, WriteThenRecord)
      /\ DeployOtherCTokens = Each(15, l7, RecordThenWrite)
      /\ DeployLast = Each(17, l8, RecordThenWrite)
  BY Zenon DEF DeployTUSD, DeployBUSD, DeployADAI, DeployOtherCTokens, DeployLast
<1>2. /\ ToSet(l2) \cap Wanted = Group.two /\ ToSet(l3) \cap Wanted = Group.three
      /\ ToSet(l4) \cap Wanted = Group.four /\ ToSet(l7) \cap Wanted = Group.seven
      /\ ToSet(l8) \cap Wanted = Group.eight
  BY DEF ToSet, Group
<1>3. /\ ToSet(Fiat) \cap Wanted = Group.one /\ ToSet(ATokens) \cap Wanted = Group.five
      /\ ToSet(FiatCTokens) \cap Wanted = Group.six
  BY DEF Group
<1>4. /\ \A e \in Group.one : PlaceOf(e) = 0 + Position(Fiat, e)
      /\ \A e \in Group.two : PlaceOf(e) = 4 + Position(l2, e)
      /\ \A e \in Group.three : PlaceOf(e) = 5 + Position(l3, e)
      /\ \A e \in Group.four : PlaceOf(e) = 6 + Position(l4, e)
      /\ \A e \in Group.five : PlaceOf(e) = 7 + Position(ATokens, e)
      /\ \A e \in Group.six : PlaceOf(e) = 11 + Position(FiatCTokens, e)
      /\ \A e \in Group.seven : PlaceOf(e) = 15 + Position(l7, e)
      /\ \A e \in Group.eight : PlaceOf(e) = 17 + Position(l8, e)
  BY Places, Zenon
<1> HIDE DEF l2, l3, l4, l7, l8
<1>5. \A x : /\ x \in DeployFiat <=> LaggingSteps(Group.one, x)
             /\ x \in DeployBUSD <=> LaggingSteps(Group.three, x)
  BY <1>1, <1>2, <1>3, <1>4, LaggingGroup DEF DeployFiat
<1>6. \A x : x \in DeployTUSD <=>
               \E e \in Group.two : \/ x = Do(PlaceOf(e), 1, "deploy", e)
                                    \/ x = Do(PlaceOf(e), 2, "record", e)
  BY <1>1, <1>2, <1>4, EachDeployAndRecord
<1>7. \A x : x \in DeployADAI <=> StaticSteps(Group.four, x) \/ LaggingSteps(Group.four, x)
  <2>1. \A x : /\ x \in Each(6, l4, DeployStatic) <=> StaticSteps(Group.four, x)
               /\ x \in Each(6, l4, WriteThenRecord) <=> LaggingSteps(Group.four, x)
    BY <1>2, <1>4, StaticGroup, LaggingGroup
  <2> QED
    BY <1>1, <2>1
<1>8. \A x : x \in DeployATokens <=> StaticSteps(Group.five, x) \/ PromptSteps(Group.five, x)
  <2>1. \A x : /\ x \in Each(7, ATokens, DeployStatic) <=> StaticSteps(Group.five, x)
               /\ x \in Each(7, ATokens, RecordThenWrite) <=> PromptSteps(Group.five, x)
    BY <1>3, <1>4, StaticGroup, PromptGroup
  <2> QED
    BY <2>1 DEF DeployATokens
<1>9. \A x : /\ x \in DeployFiatCTokens <=> PromptSteps(Group.six, x)
             /\ x \in DeployOtherCTokens <=> PromptSteps(Group.seven, x)
             /\ x \in DeployLast <=> PromptSteps(Group.eight, x)
  BY <1>1, <1>2, <1>3, <1>4, PromptGroup DEF DeployFiatCTokens
<1>10. \A x : x \in DeployCollateral <=>
         \/ x \in DeployFiat \/ x \in DeployTUSD \/ x \in DeployBUSD \/ x \in DeployADAI
         \/ x \in DeployATokens \/ x \in DeployFiatCTokens \/ x \in DeployOtherCTokens
         \/ x \in DeployLast
  BY DEF DeployCollateral
<1>11. \A e : e \in EntriesOf(11) <=>
         \/ e \in Group.one \/ e \in Group.two \/ e \in Group.three \/ e \in Group.four
         \/ e \in Group.five \/ e \in Group.six \/ e \in Group.seven \/ e \in Group.eight
  BY Groups
<1>12. \A e : /\ e \in WithStatic <=> e \in Group.four \/ e \in Group.five
              /\ e \in Lagging <=> e \in Group.one \/ e \in Group.three \/ e \in Group.four
              /\ e \in Prompt <=> \/ e \in Group.five \/ e \in Group.six
                                  \/ e \in Group.seven \/ e \in Group.eight
              /\ e \in Group.two \cup Prompt <=> e \in Group.two \/ e \in Prompt
  BY DEF WithStatic, Lagging, Prompt
<1> TAKE x
<1>13. x \in DeployCollateral => CollateralStep(x)
  <2>1. CASE x \in DeployFiat \/ x \in DeployBUSD
    BY <1>5, <1>11, <1>12, <2>1, Zenon DEF CollateralStep, LaggingSteps
  <2>2. CASE x \in DeployTUSD
    BY <1>6, <1>11, <1>12, <2>2, Zenon DEF CollateralStep
  <2>3. CASE x \in DeployADAI
    BY <1>7, <1>11, <1>12, <2>3, Zenon DEF CollateralStep, LaggingSteps, StaticSteps
  <2>4. CASE x \in DeployATokens
    BY <1>8, <1>11, <1>12, <2>4, Zenon DEF CollateralStep, PromptSteps, StaticSteps
  <2>5. CASE x \in DeployFiatCTokens \/ x \in DeployOtherCTokens \/ x \in DeployLast
    BY <1>9, <1>11, <1>12, <2>5, Zenon DEF CollateralStep, PromptSteps
  <2> QED
    BY <1>10, <2>1, <2>2, <2>3, <2>4, <2>5, Zenon
<1>14. CollateralStep(x) => x \in DeployCollateral
  <2> SUFFICES ASSUME CollateralStep(x)
               PROVE  \/ x \in DeployFiat \/ x \in DeployTUSD \/ x \in DeployBUSD
                      \/ x \in DeployADAI \/ x \in DeployATokens \/ x \in DeployFiatCTokens
                      \/ x \in DeployOtherCTokens \/ x \in DeployLast
    BY <1>10, Zenon
  <2>1. ASSUME NEW e \in EntriesOf(11), x = Do(PlaceOf(e), 1, "deploy", e)
        PROVE  \/ LaggingSteps(Group.one, x) \/ x \in DeployTUSD \/ LaggingSteps(Group.three, x)
               \/ LaggingSteps(Group.four, x) \/ PromptSteps(Group.five, x)
               \/ PromptSteps(Group.six, x) \/ PromptSteps(Group.seven, x)
               \/ PromptSteps(Group.eight, x)
    BY <1>6, <1>11, <2>1, Zenon DEF LaggingSteps, PromptSteps
  <2>2. ASSUME NEW a \in WithStatic, x = Do(PlaceOf(a), 0, "deploy", Static[a])
        PROVE  StaticSteps(Group.four, x) \/ StaticSteps(Group.five, x)
    BY <1>12, <2>2, Zenon DEF StaticSteps
  <2>3. ASSUME NEW e \in Group.two \cup Prompt, x = Do(PlaceOf(e), 2, "record", e)
        PROVE  \/ x \in DeployTUSD \/ PromptSteps(Group.five, x) \/ PromptSteps(Group.six, x)
               \/ PromptSteps(Group.seven, x) \/ PromptSteps(Group.eight, x)
    BY <1>6, <1>12, <2>3, Zenon DEF PromptSteps
  <2>4. ASSUME NEW e \in Lagging,
               \/ x = Do(PlaceOf(e), 3, "record", e) \/ x = Do(PlaceOf(e), 2, "write", e)
        PROVE  \/ LaggingSteps(Group.one, x) \/ LaggingSteps(Group.three, x)
               \/ LaggingSteps(Group.four, x)
    BY <1>12, <2>4, Zenon DEF LaggingSteps
  <2>5. ASSUME NEW e \in Prompt, x = Do(PlaceOf(e), 3, "write", e)
        PROVE  \/ PromptSteps(Group.five, x) \/ PromptSteps(Group.six, x)
               \/ PromptSteps(Group.seven, x) \/ PromptSteps(Group.eight, x)
    BY <1>12, <2>5, Zenon DEF PromptSteps
  <2>6. /\ \A G : LaggingSteps(G, x) <=> LaggingSteps(G, x)
        /\ LaggingSteps(Group.one, x) => x \in DeployFiat
        /\ LaggingSteps(Group.three, x) => x \in DeployBUSD
        /\ LaggingSteps(Group.four, x) => x \in DeployADAI
        /\ StaticSteps(Group.four, x) => x \in DeployADAI
        /\ StaticSteps(Group.five, x) => x \in DeployATokens
        /\ PromptSteps(Group.five, x) => x \in DeployATokens
        /\ PromptSteps(Group.six, x) => x \in DeployFiatCTokens
        /\ PromptSteps(Group.seven, x) => x \in DeployOtherCTokens
        /\ PromptSteps(Group.eight, x) => x \in DeployLast
    BY <1>5, <1>7, <1>8, <1>9, Zenon
  <2>7. CASE \E e \in EntriesOf(11) : x = Do(PlaceOf(e), 1, "deploy", e)
    BY <2>1, <2>6, <2>7, Zenon
  <2>8. CASE \E a \in WithStatic : x = Do(PlaceOf(a), 0, "deploy", Static[a])
    BY <2>2, <2>6, <2>8, Zenon
  <2>9. CASE \E e \in Group.two \cup Prompt : x = Do(PlaceOf(e), 2, "record", e)
    BY <2>3, <2>6, <2>9, Zenon
  <2>10. CASE \E e \in Lagging : \/ x = Do(PlaceOf(e), 3, "record", e)
                                 \/ x = Do(PlaceOf(e), 2, "write", e)
    BY <2>4, <2>6, <2>10, Zenon
  <2>11. CASE \E e \in Prompt : x = Do(PlaceOf(e), 3, "write", e)
    BY <2>5, <2>6, <2>11, Zenon
  <2> QED
    BY <2>7, <2>8, <2>9, <2>10, <2>11, Zenon DEF CollateralStep
<1> QED
  BY <1>13, <1>14

\* What collateral is linked with.
LEMMA LinksOfCollateral ==
  /\ \A e \in EntriesOf(11) : /\ KindOf(e) = e /\ e \notin StaticTokens
                              /\ \A d \in Links(e) : \/ d = "oracleLib"
                                                     \/ e \in WithStatic /\ d = Static[e]
  /\ \A a \in WithStatic : Links(Static[a]) = {} /\ KindOf(Static[a]) = Static[a]
                           /\ Static[a] \in StaticTokens \cap Wanted
  /\ \A a, b \in WithStatic : Static[a] = Static[b] => a = b
<1>1. ASSUME NEW e \in EntriesOf(11)
      PROVE  /\ KindOf(e) = e /\ e \notin StaticTokens
             /\ \A d \in Links(e) : d = "oracleLib" \/ (e \in WithStatic /\ d = Static[e])
  <2>1. e \in Wanted /\ e \in Phase2Entries \ ToSet(Assets)
    BY EntriesAre
  <2>2. e \in {"DAI", "USDC", "USDT", "USDP", "aDAI", "aUSDC", "aUSDT", "aBUSD", "aUSDP",
               "cDAI", "cUSDC", "cUSDT", "cUSDP", "TUSD", "BUSD", "cWBTC", "cETH", "WBTC",
               "WETH", "EURT"}
    BY <2>1, Lists DEF Phase2Entries
  <2>3. KindOf(e) = e /\ e \notin StaticTokens
    BY <2>2, Lists DEF KindOf
  <2>4. /\ e \notin ToSet(Implementations) /\ e \notin ToSet(Assets) \cup {"rsrAsset"}
        /\ e # "deployer" /\ e # "facadeWrite" /\ e # "RToken" /\ e # "governance"
    BY <2>2, Lists
  <2>5. Links(e) = Wanted \cap CollateralLinks(e)
    BY <2>1, <2>4 DEF Links
  <2>6. ASSUME NEW d \in CollateralLinks(e)
        PROVE  d = "oracleLib" \/ (e \in DOMAIN Static /\ d = Static[e])
    <3>1. CASE e \in ToSet(Fiat) \cup {"TUSD", "BUSD"}
      <4>1. e \notin DOMAIN Static /\ e \notin ToSet(FiatCTokens) /\ e # "cWBTC" /\ e # "cETH"
            /\ e # "WBTC" /\ e # "WETH" /\ e # "EURT"
        BY <3>1, Lists
      <4>2. CollateralLinks(e) = {"oracleLib"}
        BY <3>1, <4>1, Zenon DEF CollateralLinks, DeployFiatCollateral
      <4> QED
        BY <2>6, <4>2
    <3>2. CASE e \in DOMAIN Static
      <4>1. e \notin ToSet(Fiat) \cup {"TUSD", "BUSD"} /\ e \notin ToSet(FiatCTokens)
            /\ e # "cWBTC" /\ e # "cETH" /\ e # "WBTC" /\ e # "WETH" /\ e # "EURT"
        BY <3>2, Lists
      <4>2. CollateralLinks(e) = {"oracleLib", Static[e]}
        BY <3>2, <4>1, Zenon DEF CollateralLinks, DeployATokenFiatCollateral
      <4> QED
        BY <2>6, <3>2, <4>2
    <3>3. CASE e \in ToSet(FiatCTokens)
      <4>1. e \notin ToSet(Fiat) \cup {"TUSD", "BUSD"} /\ e \notin DOMAIN Static
            /\ e # "cWBTC" /\ e # "cETH" /\ e # "WBTC" /\ e # "WETH" /\ e # "EURT"
        BY <3>3, Lists
      <4>2. CollateralLinks(e) = {"oracleLib"}
        BY <3>3, <4>1, Zenon DEF CollateralLinks, DeployCTokenFiatCollateral
      <4> QED
        BY <2>6, <4>2
    <3>4. CASE e \in {"cWBTC", "cETH", "WBTC", "WETH", "EURT"}
      <4>1. e \notin ToSet(Fiat) \cup {"TUSD", "BUSD"} /\ e \notin DOMAIN Static
            /\ e \notin ToSet(FiatCTokens)
        BY <3>4, Lists
      <4>2. CollateralLinks(e) = IF e = "WETH" THEN {} ELSE {"oracleLib"}
        BY <3>4, <4>1
        DEF CollateralLinks, DeployCTokenNonFiatCollateral, DeployNonFiatCollateral,
            DeployCTokenSelfReferentialCollateral, DeploySelfReferentialCollateral,
            DeployEURFiatCollateral
      <4> QED
        BY <2>6, <4>2
    <3> QED
      BY <2>2, <3>1, <3>2, <3>3, <3>4, Lists
  <2> QED
    BY <2>1, <2>3, <2>5, <2>6, Groups
<1>2. ASSUME NEW a \in WithStatic
      PROVE  /\ Links(Static[a]) = {} /\ KindOf(Static[a]) = Static[a]
             /\ Static[a] \in StaticTokens \cap Wanted
  <2> DEFINE e == Static[a]
  <2>1. a \in DOMAIN Static /\ a \in Wanted
    BY Groups
  <2>2. e \in StaticTokens /\ e \in Wanted
    BY <2>1, WantedAssumption DEF StaticTokens
  <2>3. e \in {"static aDAI", "static aUSDC", "static aUSDT", "static aBUSD", "static aUSDP"}
    BY <2>2, Lists
  <2> HIDE DEF e
  <2>4. KindOf(e) = e
    BY <2>3 DEF KindOf
  <2>5. /\ e \notin ToSet(Implementations) /\ e \notin ToSet(Assets) \cup {"rsrAsset"}
        /\ e # "deployer" /\ e # "facadeWrite" /\ e # "RToken" /\ e # "governance"
    BY <2>3, Lists
  <2>6. e \notin Phase2Entries \ ToSet(Assets)
    BY <2>3, Lists DEF Phase2Entries
  <2>7. Links(e) = {}
    BY <2>5, <2>6 DEF Links
  <2> QED
    BY <2>2, <2>4, <2>7 DEF e
<1>3. \A a, b \in WithStatic : Static[a] = Static[b] => a = b
  <2>1. \A a \in WithStatic : a \in {"aDAI", "aUSDC", "aUSDT", "aBUSD", "aUSDP"}
    BY Groups, Lists
  <2>2. /\ Static["aDAI"] = "static aDAI" /\ Static["aUSDC"] = "static aUSDC"
        /\ Static["aUSDT"] = "static aUSDT" /\ Static["aBUSD"] = "static aBUSD"
        /\ Static["aUSDP"] = "static aUSDP"
    BY DEF Static
  <2> QED
    BY <2>1, <2>2
<1> QED
  BY <1>1, <1>2, <1>3

LEMMA CollateralOK == BodyOK(11, Body(11))
<1> DEFINE body == DeployCollateral
<1>1. \A x : x \in body <=> CollateralStep(x)
  BY CollateralSteps
<1>2. /\ \A e \in EntriesOf(11) : PlaceOf(e) \in Nat
      /\ \A e \in Group.two \cup Lagging : PlaceOf(e) <= 7
      /\ PlaceOf("EURT") >= 18
  BY PlaceBounds
<1>3. /\ \A e : e \in EntriesOf(11) <=> e \in Group.two \cup Lagging \/ e \in Prompt
      /\ \A a \in WithStatic : a \in EntriesOf(11)
      /\ "EURT" \in Prompt
  BY Groups DEF Lagging, Prompt, WithStatic
<1> HIDE DEF body
<1>4. StepsOK(body)
  BY <1>1, <1>2, <1>3, StepOfDo DEF StepsOK, CollateralStep
\* What is deployed is an entry, or a static token.
<1>5. ASSUME NEW y \in body, y.do = "deploy"
      PROVE  \/ /\ y.what \in EntriesOf(11) /\ y = Do(PlaceOf(y.what), 1, "deploy", y.what)
                /\ y.turn = 5 * PlaceOf(y.what) + 1
             \/ \E a \in WithStatic : /\ y.what = Static[a]
                                      /\ y = Do(PlaceOf(a), 0, "deploy", Static[a])
                                      /\ y.turn = 5 * PlaceOf(a) + 0
  BY <1>1, <1>5, StepOfDo DEF CollateralStep
<1>6. ASSUME NEW e \in EntriesOf(11)
      PROVE  /\ Do(PlaceOf(e), 1, "deploy", e) \in body
             /\ Deploys(Do(PlaceOf(e), 1, "deploy", e), e)
             /\ \A y \in body : Deploys(y, e) => /\ y = Do(PlaceOf(e), 1, "deploy", e)
                                                 /\ y.turn = 5 * PlaceOf(e) + 1
  BY <1>1, <1>5, LinksOfCollateral, StepOfDo DEF CollateralStep, Deploys
<1>7. RecordsOK(11, body)
  <2>1. ASSUME NEW e \in EntriesOf(11)
        PROVE  \E x, y \in body : Records(x, e) /\ y.do = "write" /\ x.turn < y.turn
    <3>1. CASE e \in Prompt
      <4>1. /\ Do(PlaceOf(e), 2, "record", e) \in body
            /\ Do(PlaceOf(e), 3, "write", e) \in body
            /\ 5 * PlaceOf(e) + 2 < 5 * PlaceOf(e) + 3
        BY <1>1, <1>2, <3>1 DEF CollateralStep
      <4> QED
        BY <4>1, StepOfDo DEF Records
    <3>2. CASE e \in Group.two \cup Lagging
      <4>1. Do(PlaceOf("EURT"), 3, "write", "EURT") \in body
        BY <1>1, <1>3 DEF CollateralStep
      <4>2. PICK j \in 2..3 : Do(PlaceOf(e), j, "record", e) \in body
        BY <1>1, <3>2 DEF CollateralStep
      <4>3. 5 * PlaceOf(e) + j < 5 * PlaceOf("EURT") + 3
        BY <1>2, <1>3, <3>2, <4>2
      <4> QED
        BY <4>1, <4>2, <4>3, StepOfDo DEF Records
    <3> QED
      BY <1>3, <3>1, <3>2
  <2>2. ASSUME NEW x \in body, x.do = "record"
        PROVE  /\ x.what \in EntriesOf(11)
               /\ \E y \in body : Deploys(y, KindOf(x.what))
               /\ \A y \in body : Deploys(y, KindOf(x.what)) => y.turn < x.turn
    <3>1. /\ x.what \in EntriesOf(11)
          /\ x.turn = 5 * PlaceOf(x.what) + 2 \/ x.turn = 5 * PlaceOf(x.what) + 3
      BY <1>1, <1>3, <2>2, StepOfDo DEF CollateralStep
    <3>2. KindOf(x.what) = x.what
      BY <3>1, LinksOfCollateral
    <3> QED
      BY <1>2, <1>6, <3>1, <3>2
  <2> QED
    BY <2>1, <2>2 DEF RecordsOK
<1>8. DeploysOK(11, body)
  <2> SUFFICES ASSUME NEW x \in body, x.do = "deploy"
               PROVE  /\ x.what \in Wanted
                      /\ \A y \in body : Deploys(y, x.what) => y = x
                      /\ \A d \in Links(x.what) : LinkOK(11, body, x, d)
    BY DEF DeploysOK
  <2>1. CASE x.what \in EntriesOf(11)
    <3> DEFINE e == x.what
    <3>1. x = Do(PlaceOf(e), 1, "deploy", e) /\ x.turn = 5 * PlaceOf(e) + 1
      BY <1>6, <2>1 DEF Deploys
    <3>2. ASSUME NEW d \in Links(e) PROVE LinkOK(11, body, x, d)
      <4>1. CASE d = "oracleLib"
        <5>1. d \in Wanted
          BY <3>2 DEF Links
        <5>2. d \in ToSet(Libraries)
          BY <4>1, Lists
        <5>3. d \in EntriesOf(2) /\ KindOf(d) = d
          BY <5>1, <5>2, EntriesAre, NoLinks
        <5>4. d \notin EntriesOf(11) /\ \A a \in WithStatic : Static[a] # d
          <6>1. d \notin Phase2Entries \ ToSet(Assets) /\ d \notin StaticTokens
            BY <4>1, Lists DEF Phase2Entries
          <6>2. \A a \in WithStatic : Static[a] \in StaticTokens
            BY LinksOfCollateral
          <6>3. EntriesOf(11) \subseteq Phase2Entries \ ToSet(Assets)
            BY EntriesAre
          <6> QED
            BY <6>1, <6>2, <6>3
        <5> QED
          BY <1>5, <5>3, <5>4 DEF LinkOK, Deploys
      <4>2. CASE e \in WithStatic /\ d = Static[e]
        <5>1. KindOf(d) = d /\ d \in StaticTokens /\ d \notin EntriesOf(11)
          BY <4>2, LinksOfCollateral
        <5>2. Do(PlaceOf(e), 0, "deploy", d) \in body
              /\ Deploys(Do(PlaceOf(e), 0, "deploy", d), d)
          BY <1>1, <4>2, StepOfDo DEF CollateralStep, Deploys
        <5>3. \A y \in body : Deploys(y, d) => y.turn = 5 * PlaceOf(e) + 0
          BY <1>5, <4>2, <5>1, LinksOfCollateral DEF Deploys
        <5> QED
          BY <1>2, <2>1, <3>1, <5>1, <5>2, <5>3 DEF LinkOK
      <4> QED
        BY <2>1, <3>2, <4>1, <4>2, LinksOfCollateral
    <3>3. e \in Wanted
      BY <2>1, EntriesAre
    <3> QED
      BY <1>6, <2>1, <3>1, <3>2, <3>3
  <2>2. CASE x.what \notin EntriesOf(11)
    <3>1. PICK a \in WithStatic : /\ x.what = Static[a]
                                  /\ x = Do(PlaceOf(a), 0, "deploy", Static[a])
      BY <1>5, <2>2
    <3>2. x.what \in Wanted /\ Links(x.what) = {} /\ x.what \in StaticTokens
      BY <3>1, LinksOfCollateral
    <3>3. ASSUME NEW y \in body, Deploys(y, x.what)
          PROVE  y = x
      <4>1. PICK b \in WithStatic : /\ y.what = Static[b]
                                    /\ y = Do(PlaceOf(b), 0, "deploy", Static[b])
        BY <1>5, <2>2, <3>3 DEF Deploys
      <4>2. a = b
        BY <3>1, <3>3, <4>1, LinksOfCollateral DEF Deploys
      <4> QED
        BY <3>1, <4>1, <4>2
    <3> QED
      BY <3>2, <3>3
  <2> QED
    BY <2>1, <2>2
<1>9. Body(11) = body
  BY DEF Body, body
<1> QED
  BY <1>4, <1>7, <1>8, <1>9 DEF BodyOK

\* All scripts.
LEMMA BodiesOK == \A s \in 1..14 : BodyOK(s, Body(s))
<1>1. \A s \in 1..14 : s \in {1, 9, 12} \/ s \in {2, 3, 4, 5, 6, 7, 8, 10, 11, 13, 14}
  OBVIOUS
<1> QED
  BY <1>1, SetupOK, LibrariesOK, ImplementationsOK, RSRAssetOK, FacadeOK, DeployerOK,
     FacadeWriteOK, FacadeActOK, AssetsOK, CollateralOK, RTokenOK, GovernanceOK

\* The scripts of a phase, and the last of them.
LastOf(p) == CASE p = "phase1" -> 8 [] p = "phase2" -> 11 [] p = "rtoken" -> 14

LEMMA PhaseFacts ==
  /\ Phases = {"phase1", "phase2", "rtoken"}
  /\ SetupOf("phase1") = 1 /\ SetupOf("phase2") = 9 /\ SetupOf("rtoken") = 12
  /\ LastOf("phase1") = 8 /\ LastOf("phase2") = 11 /\ LastOf("rtoken") = 14
  /\ \A s \in Nat : PhaseOf(s) = IF s < 9 THEN "phase1" ELSE IF s < 12 THEN "phase2" ELSE "rtoken"
  /\ \A s : IsSetup(s) <=> s \in {1, 9, 12}
<1>1. SetupOf("phase1") = 1 /\ SetupOf("phase2") = 9 /\ SetupOf("rtoken") = 12
  BY DEF SetupOf
<1>2. LastOf("phase1") = 8 /\ LastOf("phase2") = 11 /\ LastOf("rtoken") = 14
  BY DEF LastOf
<1>3. Phases = {"phase1", "phase2", "rtoken"}
  BY DEF Phases
<1>4. \A s \in Nat : PhaseOf(s) = IF s < 9 THEN "phase1" ELSE IF s < 12 THEN "phase2" ELSE "rtoken"
  BY <1>1 DEF PhaseOf
<1>5. \A s : IsSetup(s) <=> s \in {1, 9, 12}
  BY <1>1, <1>3 DEF IsSetup
<1> QED
  BY <1>1, <1>2, <1>3, <1>4, <1>5, Zenon

LEMMA PhaseOrder ==
  /\ \A s \in 1..14 : /\ PhaseOf(s) \in Phases
                      /\ SetupOf(PhaseOf(s)) <= s /\ s <= LastOf(PhaseOf(s))
                      /\ IsSetup(s) <=> s = SetupOf(PhaseOf(s))
  /\ \A p \in Phases : /\ SetupOf(p) \in 1..14 /\ LastOf(p) \in 1..14 /\ SetupOf(p) < LastOf(p)
                       /\ \A u \in 1..14 : u < SetupOf(p) => PhaseOf(u) # p
  BY PhaseFacts

\* Whose entries a file has.
LEMMA FileEntries ==
  /\ \A e \in Phase1Entries : FileOf(e) = "phase1" /\ e \notin StaticTokens
                              /\ e \notin RTokenEntries
  /\ \A e \in Phase2Entries : FileOf(e) = "phase2" /\ e \notin StaticTokens
                              /\ e \notin RTokenEntries
  /\ \A e \in RTokenEntries : FileOf(e) = "rtoken" /\ e \notin StaticTokens
<1>1. ASSUME NEW e \in Phase1Entries
      PROVE  e \notin StaticTokens /\ e \notin RTokenEntries
  BY Lists DEF Phase1Entries, RTokenEntries
<1>2. ASSUME NEW e \in Phase2Entries
      PROVE  e \notin StaticTokens /\ e \notin RTokenEntries /\ e \notin Phase1Entries
  <2>1. e \notin StaticTokens /\ e \notin RTokenEntries
    BY Lists DEF Phase2Entries, RTokenEntries
  <2>2. e \notin Phase1Entries
    <3>1. CASE e \in ToSet(Assets) \cup ToSet(Fiat) \cup DOMAIN Static
      BY <3>1, Lists DEF Phase1Entries
    <3>2. CASE e \in ToSet(FiatCTokens) \cup {"TUSD", "BUSD", "cWBTC", "cETH", "WBTC", "WETH", "EURT"}
      BY <3>2, Lists DEF Phase1Entries
    <3> QED
      BY <3>1, <3>2 DEF Phase2Entries
  <2> QED
    BY <2>1, <2>2
<1>3. ASSUME NEW e \in RTokenEntries PROVE e \notin StaticTokens
  BY Lists DEF RTokenEntries
<1> QED
  BY <1>1, <1>2, <1>3 DEF FileOf

LEMMA EntriesOfPhase ==
  ASSUME NEW s \in 1..14
  PROVE  /\ s < 9 => EntriesOf(s) \subseteq Phase1Entries
         /\ s >= 9 /\ s < 12 => EntriesOf(s) \subseteq Phase2Entries
         /\ s >= 12 => EntriesOf(s) \subseteq RTokenEntries
<1>1. /\ EntriesOf(1) \subseteq Phase1Entries /\ EntriesOf(2) \subseteq Phase1Entries
      /\ EntriesOf(3) \subseteq Phase1Entries /\ EntriesOf(4) \subseteq Phase1Entries
      /\ EntriesOf(5) \subseteq Phase1Entries /\ EntriesOf(6) \subseteq Phase1Entries
      /\ EntriesOf(7) \subseteq Phase1Entries /\ EntriesOf(8) \subseteq Phase1Entries
  BY EntriesAre DEF Phase1Entries
<1>2. /\ EntriesOf(9) \subseteq Phase2Entries /\ EntriesOf(10) \subseteq Phase2Entries
      /\ EntriesOf(11) \subseteq Phase2Entries
  BY EntriesAre DEF Phase2Entries
<1>3. /\ EntriesOf(12) \subseteq RTokenEntries /\ EntriesOf(13) \subseteq RTokenEntries
      /\ EntriesOf(14) \subseteq RTokenEntries
  BY EntriesAre DEF RTokenEntries
<1>4. /\ s < 9 => s \in {1, 2, 3, 4, 5, 6, 7, 8}
      /\ s >= 9 /\ s < 12 => s \in {9, 10, 11}
      /\ s >= 12 => s \in {12, 13, 14}
  OBVIOUS
<1> QED
  BY <1>1, <1>2, <1>3, <1>4

LEMMA EntryFacts ==
  ASSUME NEW s \in 1..14, NEW e \in EntriesOf(s)
  PROVE  /\ e \in Entries \cap Wanted /\ e \notin StaticTokens
         /\ FileOf(e) = PhaseOf(s)
         /\ s # 12 => e # "facadeWrite of RToken"
<1>1. e \in Wanted
  BY DEF EntriesOf
<1>2. \/ s < 9 /\ e \in Phase1Entries
      \/ s >= 9 /\ s < 12 /\ e \in Phase2Entries
      \/ s >= 12 /\ e \in RTokenEntries
  BY EntriesOfPhase
<1>3. FileOf(e) = PhaseOf(s) /\ e \notin StaticTokens
  BY <1>2, FileEntries, PhaseFacts
<1>4. s # 12 => e # "facadeWrite of RToken"
  <2>1. "facadeWrite of RToken" \in RTokenEntries
    BY DEF RTokenEntries
  <2>2. e \in RTokenEntries => s >= 12
    BY <1>2, FileEntries
  <2>3. ASSUME e = "facadeWrite of RToken" PROVE s = 12 \/ s = 13 \/ s = 14
    <3>1. s >= 12
      BY <2>1, <2>2, <2>3
    <3> QED
      BY <3>1
  <2>4. "facadeWrite of RToken" \notin EntriesOf(13) \cup EntriesOf(14)
    BY EntriesAre
  <2> QED
    BY <2>3, <2>4
<1> QED
  BY <1>1, <1>2, <1>3, <1>4 DEF Entries

LEMMA Disjoint ==
  ASSUME NEW s \in 1..14, NEW t \in 1..14, NEW e \in EntriesOf(s), e \in EntriesOf(t)
  PROVE  s = t
<1>1. PhaseOf(s) = PhaseOf(t)
  <2>1. FileOf(e) = PhaseOf(s) /\ FileOf(e) = PhaseOf(t)
    BY EntryFacts
  <2> QED
    BY <2>1
<1>2. \/ s \in {1, 2, 3, 4, 5, 6, 7, 8} /\ t \in {1, 2, 3, 4, 5, 6, 7, 8}
      \/ s \in {9, 10, 11} /\ t \in {9, 10, 11}
      \/ s \in {12, 13, 14} /\ t \in {12, 13, 14}
  BY <1>1, PhaseFacts
<1>3. /\ EntriesOf(1) = {} /\ EntriesOf(9) = {}
      /\ EntriesOf(2) \cap (EntriesOf(3) \cup EntriesOf(4) \cup EntriesOf(5) \cup EntriesOf(6)
                              \cup EntriesOf(7) \cup EntriesOf(8)) = {}
      /\ EntriesOf(3) \cap (EntriesOf(4) \cup EntriesOf(5) \cup EntriesOf(6)
                              \cup EntriesOf(7) \cup EntriesOf(8)) = {}
  BY Lists, EntriesAre
<1>4. CASE s \in {12, 13, 14}
  <2>1. /\ EntriesOf(12) \cap EntriesOf(13) = {} /\ EntriesOf(12) \cap EntriesOf(14) = {}
        /\ EntriesOf(13) \cap EntriesOf(14) = {}
    BY EntriesAre
  <2> QED
    BY <1>2, <1>4, <2>1
<1>5. CASE s \in {9, 10, 11}
  <2>1. EntriesOf(10) \cap EntriesOf(11) = {}
    BY EntriesAre
  <2> QED
    BY <1>2, <1>3, <1>5, <2>1
<1>6. CASE s \in {1, 2, 3}
  BY <1>2, <1>3, <1>6
<1>7. CASE s \in {4, 5, 6, 7, 8}
  <2>1. e \notin EntriesOf(1) /\ e \notin EntriesOf(2) /\ e \notin EntriesOf(3)
    BY <1>3, <1>7
  <2>2. t \in {4, 5, 6, 7, 8}
    BY <1>2, <1>7, <2>1
  <2> QED
    BY <1>7, <2>2, EntriesAre
<1> QED
  BY <1>2, <1>4, <1>5, <1>6, <1>7

LEMMA Covered ==
  ASSUME NEW e \in (Entries \cap Wanted) \ StaticTokens
  PROVE  \E s \in 1..14 : e \in EntriesOf(s) /\ (e \notin RTokenEntries => s <= 11)
<1>1. CASE e \in Phase1Entries
  <2>1. \/ e \in EntriesOf(2) \/ e \in EntriesOf(3) \/ e \in EntriesOf(4) \/ e \in EntriesOf(5)
        \/ e \in EntriesOf(6) \/ e \in EntriesOf(7) \/ e \in EntriesOf(8)
    BY <1>1, EntriesAre DEF Phase1Entries
  <2> QED
    BY <2>1
<1>2. CASE e \in Phase2Entries
  <2>1. e \in EntriesOf(10) \/ e \in EntriesOf(11)
    BY <1>2, EntriesAre
  <2> QED
    BY <2>1
<1>3. CASE e \in RTokenEntries
  <2>1. e \in EntriesOf(12) \/ e \in EntriesOf(13) \/ e \in EntriesOf(14)
    BY <1>3, EntriesAre DEF RTokenEntries
  <2> QED
    BY <1>3, <2>1
<1> QED
  BY <1>1, <1>2, <1>3 DEF Entries

LEMMA FacadeWriteEntry ==
  /\ "facadeWrite" \in EntriesOf(7) /\ KindOf("facadeWrite") = "facadeWrite"
  /\ KindOf("facadeWrite of RToken") = "facadeWrite"
  /\ "facadeWrite of RToken" \in EntriesOf(12)
  BY EntriesAre, WantedAssumption DEF KindOf

\* What a recorded contract is linked with is recorded with it, or by an earlier script.
LEMMA BackLinks ==
  ASSUME NEW s \in 1..14, NEW e \in EntriesOf(s), NEW d \in Links(KindOf(e)) \ StaticTokens
  PROVE  \E u \in 1..14 : u <= s /\ d \in EntriesOf(u)
<1>1. ASSUME NEW t \in 1..14, t # 12, NEW f \in EntriesOf(t), KindOf(f) = KindOf(e), t <= s
      PROVE  \E u \in 1..14 : u <= s /\ d \in EntriesOf(u)
  <2>1. RecordsOK(t, Body(t)) /\ DeploysOK(t, Body(t))
    BY BodiesOK DEF BodyOK
  <2>2. PICK x \in Body(t) : x.do = "record" /\ x.what = f
    BY <2>1 DEF RecordsOK, Records
  <2>3. PICK y \in Body(t) : y.do = "deploy" /\ y.what = KindOf(f)
    BY <1>1, <2>1, <2>2 DEF RecordsOK, Deploys
  <2>4. LinkOK(t, Body(t), y, d)
    BY <1>1, <2>1, <2>3 DEF DeploysOK
  <2> QED
    BY <1>1, <2>4 DEF LinkOK
<1>2. CASE s # 12
  BY <1>1, <1>2
<1>3. CASE s = 12
  <2>1. e = "facadeWrite of RToken"
    BY <1>3, EntriesAre
  <2> QED
    <3>1. "facadeWrite" \in EntriesOf(7) /\ KindOf("facadeWrite") = KindOf(e)
      BY <2>1, FacadeWriteEntry
    <3>2. 7 \in 1..14 /\ 7 # 12 /\ 7 <= s
      BY <1>3
    <3> QED
      BY <1>1, <3>1, <3>2
<1> QED
  BY <1>2, <1>3

(***************************************************************************)
(* The inductive invariant                                                 *)
(***************************************************************************)

Addresses == Nat \X Nat

TypesOK ==
  /\ network \in Chains /\ phase3 \in BOOLEAN /\ mishaps \in 0..MaxMishaps
  /\ file \in [Phases -> {"missing", "torn", "ok"}]
  /\ entry \in [Entries \cap Wanted -> Addresses] /\ local \in [Entries \cap Wanted -> Addresses]
  /\ script \in 0..LastScript /\ resume \in 1..(LastScript + 1)
  /\ running \in BOOLEAN /\ skipped \in BOOLEAN
  /\ running => script /= 0
  /\ ~running => todo = {} /\ local = Empty /\ recorded = {}

\* A file that cannot be read has no addresses.
NothingStale == \A e \in Entries \cap Wanted : file[FileOf(e)] /= "ok" => entry[e] = NoAddress

\* What one account has created: nonces count on, so that addresses are fresh.
Created(creator) == IF creator = 0 THEN chain ELSE {c \in chain : c.at[1] = creator}
ChainOK ==
  /\ IsFiniteSet(chain)
  /\ \A c \in chain : /\ c.at \in Addresses /\ c.at[2] >= 1
                      /\ c.at[2] <= Cardinality(Created(c.at[1]))
                      /\ c.args \in [Links(c.kind) -> Addresses]
  /\ \A c, d \in chain : c.at = d.at => c = d

\* A process has done what is not left to do, in the order of the turns.
Finished == Body(script) \ todo
ProcessOK ==
  running =>
    /\ todo \subseteq Body(script)
    /\ \A x \in todo, y \in Body(script) : x.turn < y.turn => y \in todo
    /\ recorded \subseteq Entries \cap Wanted
    /\ \A e \in Entries \cap Wanted :
         /\ e \in recorded <=> \E x \in Finished : Records(x, e)
         /\ local[e] /= NoAddress <=> \E x \in Finished : Deploys(x, e)

\* The script that is yet to be completed, or that this run is at if it is no later.
Mark == IF script = 0 \/ skipped THEN resume ELSE script

\* A file is missing or torn only until a script is to be redone that writes it.
FilesOK ==
  /\ \A p \in Phases : /\ file[p] = "missing" => Mark <= SetupOf(p)
                       /\ file[p] = "torn" => Mark <= LastOf(p)
  /\ running => \/ file[PhaseOf(script)] = "ok"
                \/ /\ IsSetup(script) /\ file[PhaseOf(script)] = "missing"
                   /\ \E x \in todo : x.do = "write"
  /\ skipped /\ script # 0 => resume < script

\* A run that skipped nothing has deployed sound contracts, and its file says what
\* it recorded before it wrote last.
IsBuilt(c, e) ==
  /\ c.at = local[e] /\ c.kind = e /\ c.ok
  /\ \A d \in Links(e) \ StaticTokens : c.args[d] = Lookup(d)
Built ==
  running /\ ~skipped =>
    /\ \A e \in Entries \cap Wanted : local[e] /= NoAddress => \E c \in chain : IsBuilt(c, e)
    /\ \A x, y \in Finished : x.do = "record" /\ y.do = "write" /\ x.turn < y.turn
                              => entry[x.what] = Written(x.what)

\* Up to the mark, the files that are there name sound contracts, built on what the
\* files name.
IsNamed(c, e) ==
  /\ c.at = entry[e] /\ c.kind = KindOf(e) /\ c.ok
  /\ \A d \in Links(KindOf(e)) \ StaticTokens : c.args[d] = entry[d]
Named(e) == \E c \in chain : IsNamed(c, e)
Frontier ==
  \A s \in 1..14 : s < Mark /\ file[PhaseOf(s)] = "ok" => \A e \in EntriesOf(s) : Named(e)

IInv == TypesOK /\ NothingStale /\ ChainOK /\ ProcessOK /\ FilesOK /\ Built /\ Frontier

LEMMA LastScripts == TypesOK => /\ LastScript \in {11, 14}
                                /\ script \in Nat /\ (script # 0 => script \in 1..14)
                                /\ resume \in 1..15
  BY DEF TypesOK, LastScript

LEMMA KindIsWanted ==
  ASSUME NEW e \in Entries \cap Wanted
  PROVE  KindOf(e) \in Entries \cap Wanted
<1>1. CASE e = "rTokenTrader"
  BY <1>1, WantedAssumption, Lists DEF KindOf, Entries, Phase1Entries
<1>2. CASE e = "facadeWrite of RToken"
  <2>1. "facadeWrite" \in Entries \cap Wanted
    BY WantedAssumption DEF Entries, Phase1Entries
  <2> QED
    BY <1>2, <2>1 DEF KindOf
<1>3. CASE e # "rTokenTrader" /\ e # "facadeWrite of RToken"
  BY <1>3 DEF KindOf
<1> QED
  BY <1>1, <1>2, <1>3

LEMMA LinksWanted == \A e : Links(e) \subseteq Entries \cap Wanted
  BY WantedAssumption DEF Links

\* The step whose turn it is comes before the others.
LEMMA NowFirst ==
  TypesOK /\ ProcessOK /\ running /\ todo /= {} =>
    /\ script \in 1..14 /\ Now \in todo /\ Now \in Body(script)
    /\ \A y \in todo : ~(y.turn < Now.turn)
<1> SUFFICES ASSUME TypesOK, ProcessOK, running, todo /= {}
             PROVE  /\ script \in 1..14 /\ Now \in todo /\ Now \in Body(script)
                    /\ \A y \in todo : ~(y.turn < Now.turn)
  OBVIOUS
<1>1. script \in 1..14
  BY LastScripts DEF TypesOK
<1>2. todo \subseteq Body(script)
  BY DEF ProcessOK
<1>3. \A x \in todo : x.turn \in Nat
  BY <1>1, <1>2, BodiesOK DEF BodyOK, StepsOK
<1> DEFINE turns == {x.turn : x \in todo}
<1>4. PICK m \in turns : \A n \in turns : m <= n
  <2>1. turns \subseteq Nat /\ turns # {}
    BY <1>3
  <2> HIDE DEF turns
  <2> QED
    BY <2>1, LeastNumber
<1>5. \E x \in todo : \A y \in todo : x.turn <= y.turn
  BY <1>4
<1>6. Now \in todo /\ \A y \in todo : Now.turn <= y.turn
  BY <1>5 DEF Now
<1> QED
  BY <1>1, <1>2, <1>3, <1>6

\* A step is reached when nothing before it is left to do.
Reached(x) == x \in Body(script) /\ \A y \in todo : ~(y.turn < x.turn)

LEMMA FinishedReached ==
  ProcessOK /\ running => \A x \in Finished : Reached(x)
  BY DEF ProcessOK, Finished, Reached

LEMMA NowReached ==
  TypesOK /\ ProcessOK /\ running /\ todo /= {} => Reached(Now)
  BY NowFirst DEF Reached

\* What comes before a step that is reached is finished.
LEMMA BeforeReached ==
  ASSUME NEW x, Reached(x), NEW y \in Body(script), y.turn < x.turn
  PROVE  y \in Finished
  BY DEF Reached, Finished

(***************************************************************************)
(* Initially                                                               *)
(***************************************************************************)

LEMMA EmptyIs == Empty \in [Entries \cap Wanted -> Addresses]
                 /\ \A e \in Entries \cap Wanted : Empty[e] = NoAddress
  BY DEF Empty, NoAddress, Addresses

LEMMA InitIInv == Init => IInv
<1> SUFFICES ASSUME Init PROVE IInv
  OBVIOUS
<1>1. LastScript \in {11, 14} /\ phase3 \in BOOLEAN
  BY DEF Init, LastScript
<1>2. TypesOK
  <2>1. file \in [Phases -> {"missing", "torn", "ok"}]
    BY DEF Init
  <2>2. /\ entry \in [Entries \cap Wanted -> Addresses]
        /\ local \in [Entries \cap Wanted -> Addresses]
    BY EmptyIs DEF Init
  <2>3. /\ script \in 0..LastScript /\ resume \in 1..(LastScript + 1)
        /\ mishaps \in 0..MaxMishaps
    BY <1>1, BoundAssumption DEF Init
  <2> QED
    BY <2>1, <2>2, <2>3 DEF Init, TypesOK
<1>3. NothingStale
  BY EmptyIs DEF Init, NothingStale
<1>4. ChainOK
  BY FS_EmptySet DEF Init, ChainOK
<1>5. Mark = 1
  BY DEF Init, Mark
<1>6. FilesOK
  BY <1>5, PhaseOrder DEF Init, FilesOK
<1>7. Frontier
  BY <1>5 DEF Frontier
<1> QED
  BY <1>2, <1>3, <1>4, <1>6, <1>7 DEF Init, IInv, ProcessOK, Built

(***************************************************************************)
(* Types, and no stale addresses                                           *)
(***************************************************************************)

LEMMA PickUpAtIs ==
  TypesOK => /\ PickUpAt \in 1..(LastScript + 1) \/ script = 0
             /\ running /\ PickUpAt # 13 => PickUpAt = script
             /\ PickUpAt <= script \/ /\ PickUpAt = script + 1 /\ ~running
                                      /\ script \in {1, 9} /\ Readable(PhaseOf(script))
             /\ PickUpAt = 13 => script >= 13
<1> SUFFICES ASSUME TypesOK
             PROVE  /\ PickUpAt \in 1..(LastScript + 1) \/ script = 0
                    /\ running /\ PickUpAt # 13 => PickUpAt = script
                    /\ PickUpAt <= script \/ /\ PickUpAt = script + 1 /\ ~running
                                             /\ script \in {1, 9} /\ Readable(PhaseOf(script))
                    /\ PickUpAt = 13 => script >= 13
  OBVIOUS
<1>1. LastScript \in {11, 14} /\ script \in 0..LastScript
  BY LastScripts DEF TypesOK
<1>2. CASE ~running /\ script \in {1, 9} /\ Readable(PhaseOf(script))
  <2>1. PickUpAt = script + 1
    BY <1>2 DEF PickUpAt
  <2> QED
    BY <1>1, <1>2, <2>1
<1>3. CASE ~(~running /\ script \in {1, 9} /\ Readable(PhaseOf(script)))
  <2>1. PickUpAt = script \/ (script = 14 /\ PickUpAt = 13)
    BY <1>3 DEF PickUpAt
  <2> QED
    BY <1>1, <2>1
<1> QED
  BY <1>2, <1>3

\* What every way to fail has in common.
LEMMA FailTypes ==
  TypesOK /\ script # 0 /\ Fail =>
    /\ script' = 0 /\ running' = FALSE /\ todo' = {} /\ local' = Empty /\ recorded' = {}
    /\ resume' \in 1..(LastScript + 1) /\ skipped' = skipped /\ LastScript' = LastScript
    /\ network' = network /\ phase3' = phase3
<1> SUFFICES ASSUME TypesOK, script # 0, Fail
             PROVE  /\ resume' \in 1..(LastScript + 1) /\ LastScript' = LastScript
  BY DEF Fail, NoProcess
<1>1. LastScript' = LastScript
  BY DEF Fail, LastScript
<1>2. resume' = resume \/ resume' = PickUpAt
  BY DEF Fail
<1> QED
  BY <1>1, <1>2, PickUpAtIs DEF TypesOK

LEMMA WithoutFileIs ==
  ASSUME entry \in [Entries \cap Wanted -> Addresses], NEW p
  PROVE  /\ WithoutFile(p) \in [Entries \cap Wanted -> Addresses]
         /\ \A e \in Entries \cap Wanted :
              WithoutFile(p)[e] = IF FileOf(e) = p THEN NoAddress ELSE entry[e]
  BY DEF WithoutFile, NoAddress, Addresses

LEMMA WrittenIs ==
  ASSUME TypesOK, NEW e \in Entries \cap Wanted
  PROVE  Written(e) \in Addresses
<1>1. KindOf(e) \in Entries \cap Wanted /\ "facadeWrite" \in Entries \cap Wanted
  BY KindIsWanted, WantedAssumption DEF Entries, Phase1Entries
<1> QED
  BY <1>1 DEF TypesOK, Written

\* What no step changes but its own.
LEMMA BeginTypes == TypesOK /\ NothingStale /\ Begin => (TypesOK /\ NothingStale)'
  BY DEF TypesOK, NothingStale, Begin, LastScript

LEMMA RecordTypes == TypesOK /\ NothingStale /\ RecordAddress => (TypesOK /\ NothingStale)'
  BY DEF TypesOK, NothingStale, RecordAddress, Doing, LastScript

LEMMA NextScriptTypes == TypesOK /\ NothingStale /\ NextScript => (TypesOK /\ NothingStale)'
<1> SUFFICES ASSUME TypesOK, NothingStale, NextScript PROVE (TypesOK /\ NothingStale)'
  OBVIOUS
<1>1. LastScript' = LastScript /\ LastScript \in {11, 14}
  BY LastScripts DEF NextScript, LastScript
<1>2. script' \in 0..LastScript /\ resume' \in 1..(LastScript + 1)
  BY <1>1 DEF NextScript, TypesOK
<1> QED
  BY <1>1, <1>2, EmptyIs DEF NextScript, NoProcess, TypesOK, NothingStale

LEMMA StartTypes ==
  ASSUME TypesOK, NothingStale, NEW s \in 1..LastScript, Start(s), mishaps' \in 0..MaxMishaps
  PROVE  (TypesOK /\ NothingStale)'
<1>1. LastScript' = LastScript /\ LastScript \in {11, 14}
  BY LastScripts DEF Start, LastScript
<1>2. running' = running /\ todo' = todo /\ local' = local /\ recorded' = recorded
  BY DEF Start, process
<1>3. script' \in 0..LastScript' /\ resume' \in 1..(LastScript' + 1) /\ skipped' \in BOOLEAN
  BY <1>1 DEF Start, TypesOK
<1>4. TypesOK'
  BY <1>2, <1>3 DEF Start, TypesOK
<1> QED
  BY <1>4 DEF Start, NothingStale

LEMMA MishapIs == TypesOK /\ Mishap => mishaps' \in 0..MaxMishaps
  BY BoundAssumption DEF TypesOK, Mishap

LEMMA FailedTypes ==
  TypesOK /\ NothingStale /\ script # 0 /\ Fail /\ UNCHANGED <<file, entry>>
    /\ mishaps' \in 0..MaxMishaps => (TypesOK /\ NothingStale)'
<1> SUFFICES ASSUME TypesOK, NothingStale, script # 0, Fail, UNCHANGED <<file, entry>>,
                    mishaps' \in 0..MaxMishaps
             PROVE  (TypesOK /\ NothingStale)'
  OBVIOUS
<1>1. LastScript \in {11, 14}
  BY LastScripts
<1>2. /\ script' = 0 /\ running' = FALSE /\ todo' = {} /\ local' = Empty /\ recorded' = {}
      /\ resume' \in 1..(LastScript + 1) /\ skipped' = skipped /\ LastScript' = LastScript
      /\ network' = network /\ phase3' = phase3
  BY FailTypes
<1>3. script' \in 0..LastScript' /\ resume' \in 1..(LastScript' + 1)
  BY <1>1, <1>2
<1>4. TypesOK'
  BY <1>2, <1>3, EmptyIs DEF TypesOK
<1> QED
  BY <1>4 DEF NothingStale

\* A file that is lost takes its addresses with it.
LEMMA LostFile ==
  ASSUME TypesOK, NothingStale, NEW p \in Phases, NEW how \in {"missing", "torn"},
         file' = [file EXCEPT ![p] = how], entry' = WithoutFile(p)
  PROVE  /\ file' \in [Phases -> {"missing", "torn", "ok"}]
         /\ entry' \in [Entries \cap Wanted -> Addresses]
         /\ NothingStale'
         /\ \A q \in Phases : file'[q] = "ok" => q # p /\ file[q] = "ok"
         /\ \A e \in Entries \cap Wanted : FileOf(e) # p => entry'[e] = entry[e]
<1>1. /\ entry' \in [Entries \cap Wanted -> Addresses]
      /\ \A e \in Entries \cap Wanted : entry'[e] = IF FileOf(e) = p THEN NoAddress ELSE entry[e]
  BY WithoutFileIs DEF TypesOK
<1>2. \A e : FileOf(e) \in Phases
  BY DEF FileOf, Phases
<1>3. /\ file' \in [Phases -> {"missing", "torn", "ok"}]
      /\ \A q \in Phases : file'[q] = IF q = p THEN how ELSE file[q]
  BY DEF TypesOK
<1> QED
  BY <1>1, <1>2, <1>3 DEF NothingStale

LEMMA CrashTypes == TypesOK /\ NothingStale /\ Crash => (TypesOK /\ NothingStale)'
<1> SUFFICES ASSUME TypesOK, NothingStale, Crash PROVE (TypesOK /\ NothingStale)'
  OBVIOUS
<1>1. /\ script # 0 /\ script \in 1..14 /\ Fail /\ mishaps' \in 0..MaxMishaps
      /\ LastScript \in {11, 14}
  BY LastScripts, MishapIs DEF Crash, TypesOK
<1>2. CASE UNCHANGED <<file, entry>>
  BY <1>1, <1>2, FailedTypes
<1>3. CASE /\ file' = [file EXCEPT ![PhaseOf(script)] = "torn"]
           /\ entry' = WithoutFile(PhaseOf(script))
  <2>1. PhaseOf(script) \in Phases
    BY <1>1, PhaseOrder
  <2>2. /\ file' \in [Phases -> {"missing", "torn", "ok"}]
        /\ entry' \in [Entries \cap Wanted -> Addresses] /\ NothingStale'
    BY <1>3, <2>1, LostFile
  <2>3. /\ script' = 0 /\ running' = FALSE /\ todo' = {} /\ local' = Empty /\ recorded' = {}
        /\ resume' \in 1..(LastScript + 1) /\ skipped' = skipped /\ LastScript' = LastScript
        /\ network' = network /\ phase3' = phase3
    BY <1>1, FailTypes
  <2>4. script' \in 0..LastScript' /\ resume' \in 1..(LastScript' + 1)
    BY <1>1, <2>3
  <2>5. TypesOK'
    BY <1>1, <2>2, <2>3, <2>4, EmptyIs DEF TypesOK
  <2> QED
    BY <2>2, <2>5
<1> QED
  BY <1>2, <1>3 DEF Crash

LEMMA DeleteTypes ==
  ASSUME TypesOK, NothingStale, NEW p \in Phases, Delete(p)
  PROVE  (TypesOK /\ NothingStale)'
<1>1. /\ LastScript' = LastScript /\ LastScript \in {11, 14} /\ ~running
      /\ running' = running /\ todo' = todo /\ local' = local /\ recorded' = recorded
  BY LastScripts DEF Delete, LastScript, process, TypesOK
<1>2. /\ file' \in [Phases -> {"missing", "torn", "ok"}]
      /\ entry' \in [Entries \cap Wanted -> Addresses] /\ NothingStale'
  BY LostFile DEF Delete
<1>3. mishaps' \in 0..MaxMishaps
  BY MishapIs DEF Delete, TypesOK
<1>4. resume' \in 1..(LastScript + 1)
  <2>1. SetupOf(p) \in {1, 9, 12} /\ (p # "rtoken" => SetupOf(p) <= 9)
    BY PhaseFacts
  <2>2. p = "rtoken" /\ phase3 => LastScript = 14
    BY DEF LastScript
  <2> QED
    BY <1>1, <2>1, <2>2 DEF Delete, TypesOK
<1>5. TypesOK'
  BY <1>1, <1>2, <1>3, <1>4 DEF Delete, TypesOK
<1> QED
  BY <1>2, <1>5

LEMMA RestartTypes == TypesOK /\ NothingStale /\ Restart => (TypesOK /\ NothingStale)'
<1> SUFFICES ASSUME TypesOK, NothingStale, Restart PROVE (TypesOK /\ NothingStale)'
  OBVIOUS
<1>1. /\ LastScript' = LastScript /\ LastScript \in {11, 14} /\ mishaps' \in 0..MaxMishaps
      /\ running' = running /\ todo' = todo /\ local' = local /\ recorded' = recorded
  BY LastScripts, MishapIs DEF Restart, LastScript, process
<1>2. TypesOK'
  BY <1>1 DEF Restart, TypesOK
<1> QED
  BY <1>2 DEF Restart, NothingStale

LEMMA WriteTypes ==
  TypesOK /\ NothingStale /\ ProcessOK /\ WriteFile => (TypesOK /\ NothingStale)'
<1> SUFFICES ASSUME TypesOK, NothingStale, ProcessOK, WriteFile
             PROVE  (TypesOK /\ NothingStale)'
  OBVIOUS
<1>1. running /\ todo # {} /\ script \in 1..14 /\ PhaseOf(script) \in Phases
  BY LastScripts, PhaseOrder DEF WriteFile, Doing, TypesOK
<1>2. \A e \in recorded : e \in EntriesOf(script)
  <2>1. \A x \in Finished : x.do = "record" => x.what \in EntriesOf(script)
    BY <1>1, BodiesOK DEF Finished, BodyOK, RecordsOK
  <2> QED
    BY <1>1, <2>1 DEF ProcessOK, Records
<1>3. /\ file' \in [Phases -> {"missing", "torn", "ok"}]
      /\ \A p \in Phases : file'[p] = IF p = PhaseOf(script) THEN "ok" ELSE file[p]
  BY <1>1 DEF WriteFile, TypesOK
<1>4. /\ entry' \in [Entries \cap Wanted -> Addresses]
      /\ \A e \in Entries \cap Wanted : e \notin recorded => entry'[e] = entry[e]
  BY WrittenIs DEF WriteFile, TypesOK
<1>5. LastScript' = LastScript
  BY DEF WriteFile, LastScript
<1>6. TypesOK'
  BY <1>1, <1>3, <1>4, <1>5 DEF WriteFile, TypesOK
<1>7. ASSUME NEW e \in Entries \cap Wanted, file'[FileOf(e)] /= "ok"
      PROVE  entry'[e] = NoAddress
  <2>1. FileOf(e) \in Phases
    BY DEF FileOf, Phases
  <2>2. FileOf(e) # PhaseOf(script) /\ file[FileOf(e)] /= "ok"
    BY <1>3, <1>7, <2>1
  <2>3. e \notin recorded
    BY <1>1, <1>2, <2>2, EntryFacts
  <2> QED
    BY <1>4, <2>2, <2>3 DEF NothingStale
<1> QED
  BY <1>6, <1>7 DEF NothingStale

(***************************************************************************)
(* What a contract is linked with when it is deployed                      *)
(***************************************************************************)

LEMMA FoundLinks ==
  ASSUME TypesOK, ProcessOK, running, NEW x, Reached(x), x.do = "deploy", NEW d \in Links(x.what)
  PROVE  /\ script \in 1..14 /\ script # 12 /\ KindOf(d) \in Entries \cap Wanted
         /\ \/ local[KindOf(d)] # NoAddress /\ d \in StaticTokens \cup EntriesOf(script)
            \/ /\ local[KindOf(d)] = NoAddress
               /\ \E t \in 1..14 : t < script /\ d \in EntriesOf(t)
<1>1. script \in 1..14
  BY LastScripts DEF TypesOK
<1>2. x \in Body(script) /\ DeploysOK(script, Body(script))
  BY <1>1, BodiesOK DEF Reached, BodyOK
<1>3. script # 12 /\ LinkOK(script, Body(script), x, d)
  BY <1>2 DEF DeploysOK
<1>4. KindOf(d) \in Entries \cap Wanted
  BY LinksWanted, KindIsWanted
<1>5. CASE /\ d \in StaticTokens \cup EntriesOf(script)
           /\ \E y \in Body(script) : Deploys(y, KindOf(d)) /\ y.turn < x.turn
  BY <1>1, <1>3, <1>4, <1>5, BeforeReached DEF ProcessOK
<1>6. CASE /\ \E t \in 1..14 : t < script /\ d \in EntriesOf(t)
           /\ \A y \in Body(script) : ~Deploys(y, KindOf(d))
  BY <1>1, <1>3, <1>4, <1>6 DEF ProcessOK, Finished
<1> QED
  BY <1>3, <1>5, <1>6 DEF LinkOK

\* What is yet to be deployed is no link of what is or has been.
LEMMA LinksComeFirst ==
  ASSUME TypesOK, ProcessOK, running, NEW x, Reached(x), x.do = "deploy", NEW d \in Links(x.what),
         NEW y \in todo, y.do = "deploy"
  PROVE  KindOf(d) # y.what
<1>1. script \in 1..14 /\ y \in Body(script)
  BY LastScripts DEF TypesOK, ProcessOK
<1>2. x \in Body(script) /\ DeploysOK(script, Body(script))
  BY <1>1, BodiesOK DEF Reached, BodyOK
<1>3. LinkOK(script, Body(script), x, d)
  BY <1>2 DEF DeploysOK
<1>4. \A z \in Body(script) : Deploys(z, y.what) => z = y
  BY <1>1, <1>2 DEF DeploysOK
<1>5. ASSUME NEW z \in Body(script), Deploys(z, KindOf(d)), z.turn < x.turn
      PROVE  KindOf(d) # y.what
  BY <1>4, <1>5, BeforeReached DEF Finished
<1>6. ASSUME \A z \in Body(script) : ~Deploys(z, KindOf(d))
      PROVE  KindOf(d) # y.what
  BY <1>1, <1>6 DEF Deploys
<1> QED
  BY <1>3, <1>5, <1>6 DEF LinkOK

\* The creator of the next contract is the burner, or one of the contracts.
LEMMA CreatorIsNumber ==
  ASSUME TypesOK, ChainOK, ProcessOK, running, todo # {}, Now.do = "deploy",
         Deployable(Now.what)
  PROVE  CreatorOf(Now.what) \in Nat
<1> DEFINE d == "facadeWrite of RToken"
           facade == CHOOSE c \in chain : c.at = entry[d]
<1>1. ASSUME Now.what \in {"RToken", "governance"}
      PROVE  /\ facade \in chain /\ facade.at = entry[d] /\ facade.kind = "facadeWrite"
  <2>1. d \in Links(Now.what)
    BY <1>1, LinksOfRToken, LinksOfGovernance, WantedAssumption
  <2>2. IsA(Lookup(d), KindOf(d))
    BY <1>1, <2>1 DEF Deployable, Sound
  <2>3. KindOf(d) = "facadeWrite" /\ d \in EntriesOf(12)
    BY FacadeWriteEntry
  <2> HIDE DEF d
  <2>4. Reached(Now)
    BY NowReached
  <2>5. /\ script \in 1..14 /\ script # 12
        /\ local[KindOf(d)] # NoAddress => d \in StaticTokens \cup EntriesOf(script)
    BY <2>1, <2>4, FoundLinks
  <2>6. d \notin StaticTokens \cup EntriesOf(script)
    <3>1. 12 \in 1..14
      OBVIOUS
    <3> QED
      BY <2>3, <2>5, <3>1, EntryFacts, Disjoint
  <2>7. Lookup(d) = entry[d]
    BY <2>5, <2>6 DEF Lookup
  <2>8. \E c \in chain : c.at = entry[d] /\ c.kind = "facadeWrite"
    BY <2>2, <2>3, <2>7 DEF IsA
  <2> QED
    BY <2>8 DEF ChainOK, d
<1>2. "deployer" \in Links("facadeWrite")
  BY LinksOfFacadeWrite, WantedAssumption
<1>3. CASE Now.what = "RToken"
  <2> DEFINE deployer == facade.args["deployer"]
  <2>1. deployer \in Nat \X Nat
    <3> HIDE DEF facade
    <3> QED
      BY <1>1, <1>2, <1>3 DEF ChainOK, Addresses
  <2>2. CreatorOf(Now.what) = deployer[2]
    BY <1>3 DEF CreatorOf
  <2> HIDE DEF deployer
  <2> QED
    BY <2>1, <2>2
<1>4. CASE Now.what = "governance"
  <2>1. facade.at[2] \in Nat
    <3> HIDE DEF facade
    <3> QED
      BY <1>1, <1>4 DEF ChainOK, Addresses
  <2> QED
    BY <1>4, <2>1 DEF CreatorOf
<1>5. CASE Now.what \notin {"RToken", "governance"}
  BY <1>5 DEF CreatorOf
<1> QED
  BY <1>3, <1>4, <1>5

\* A new contract gets an address that no other has.
LEMMA FreshAddress ==
  ASSUME ChainOK, NEW k \in Nat
  PROVE  /\ Cardinality(Created(k)) \in Nat
         /\ NextAddress(k) = <<k, 1 + Cardinality(Created(k))>>
         /\ NextAddress(k) \in Addresses
         /\ \A c \in chain : c.at # NextAddress(k)
<1>1. IsFiniteSet(Created(k)) /\ Created(k) \subseteq chain
  <2>1. Created(k) \subseteq chain
    BY DEF Created
  <2> QED
    BY <2>1, FS_Subset DEF ChainOK
<1>2. Cardinality(Created(k)) \in Nat
  BY <1>1, FS_CardinalityType
<1>3. NextAddress(k) = <<k, 1 + Cardinality(Created(k))>>
  BY DEF NextAddress, Created
<1>4. ASSUME NEW c \in chain, c.at = NextAddress(k)
      PROVE  FALSE
  <2>1. c.at[1] = k /\ c.at[2] = 1 + Cardinality(Created(k))
    BY <1>3, <1>4
  <2>2. c.at[2] <= Cardinality(Created(k))
    BY <2>1 DEF ChainOK
  <2> QED
    BY <1>2, <2>1, <2>2
<1> QED
  BY <1>2, <1>3, <1>4 DEF Addresses

LEMMA LookupIs ==
  ASSUME TypesOK, NEW e, NEW d \in Links(e)
  PROVE  Lookup(d) \in Addresses
<1>1. d \in Entries \cap Wanted /\ KindOf(d) \in Entries \cap Wanted
  BY LinksWanted, KindIsWanted
<1> QED
  BY <1>1 DEF Lookup, TypesOK

\* The contract that a step adds.
IsNew(c, e) ==
  /\ c.kind = e /\ c.at \in Addresses /\ c.at[2] = 1 + Cardinality(Created(c.at[1]))
  /\ \A b \in chain : b.at # c.at
  /\ c.args \in [Links(e) -> Addresses] /\ \A d \in Links(e) : c.args[d] = Lookup(d)
  /\ c.ok = Sound(e)

LEMMA DeployIs ==
  ASSUME TypesOK, ChainOK, ProcessOK, DeployContract
  PROVE  /\ running /\ Reached(Now) /\ Now \in todo /\ Now.do = "deploy"
         /\ Now.what \in Entries \cap Wanted /\ Deployable(Now.what)
         /\ \E c : /\ IsNew(c, Now.what) /\ chain' = chain \cup {c}
                   /\ local' \in [Entries \cap Wanted -> Addresses]
                   /\ c.at # NoAddress
                   /\ \A e \in Entries \cap Wanted :
                        local'[e] = IF e = Now.what THEN c.at ELSE local[e]
<1> DEFINE e == Now.what
           at == NextAddress(CreatorOf(e))
           c == [at |-> at, kind |-> e, args |-> [d \in Links(e) |-> Lookup(d)],
                 data |-> DataOf(e), ok |-> Sound(e)]
<1>1. /\ running /\ todo # {} /\ Now.do = "deploy" /\ Deployable(e)
      /\ chain' = chain \cup {c} /\ local' = [local EXCEPT ![e] = at]
  BY DEF DeployContract, Doing
<1>2. Reached(Now) /\ Now \in todo /\ script \in 1..14 /\ Now \in Body(script)
  BY <1>1, NowReached, NowFirst
<1>3. e \in Entries \cap Wanted
  <2>1. DeploysOK(script, Body(script))
    BY <1>2, BodiesOK DEF BodyOK
  <2>2. e \in Wanted
    BY <1>1, <1>2, <2>1 DEF DeploysOK
  <2> QED
    BY <2>2, WantedAssumption
<1>4. CreatorOf(e) \in Nat
  BY <1>1, CreatorIsNumber
<1>5. /\ Cardinality(Created(CreatorOf(e))) \in Nat
      /\ at = <<CreatorOf(e), 1 + Cardinality(Created(CreatorOf(e)))>>
      /\ at \in Addresses /\ \A b \in chain : b.at # at
  BY <1>4, FreshAddress
<1>6. at[1] = CreatorOf(e) /\ at[2] = 1 + Cardinality(Created(CreatorOf(e)))
  BY <1>5
<1>7. at # NoAddress
  BY <1>5, <1>6 DEF NoAddress
<1>8. c.args \in [Links(e) -> Addresses] /\ \A d \in Links(e) : c.args[d] = Lookup(d)
  <2>1. c.args = [d \in Links(e) |-> Lookup(d)]
    OBVIOUS
  <2> HIDE DEF c
  <2> QED
    BY <2>1, LookupIs
<1>9. c.at = at /\ c.kind = e /\ c.ok = Sound(e)
  OBVIOUS
<1> HIDE DEF c, at
<1>10. IsNew(c, e)
  BY <1>5, <1>6, <1>8, <1>9 DEF IsNew
<1>11. /\ local' \in [Entries \cap Wanted -> Addresses]
       /\ \A f \in Entries \cap Wanted : local'[f] = IF f = e THEN at ELSE local[f]
  BY <1>1, <1>3, <1>5 DEF TypesOK
<1> QED
  BY <1>1, <1>2, <1>3, <1>7, <1>9, <1>10, <1>11

LEMMA DeployTypes ==
  TypesOK /\ NothingStale /\ ChainOK /\ ProcessOK /\ DeployContract => (TypesOK /\ NothingStale)'
<1> SUFFICES ASSUME TypesOK, NothingStale, ChainOK, ProcessOK, DeployContract
             PROVE  (TypesOK /\ NothingStale)'
  OBVIOUS
<1>1. running /\ local' \in [Entries \cap Wanted -> Addresses]
  BY DeployIs
<1>2. LastScript' = LastScript
  BY DEF DeployContract, LastScript
<1>3. TypesOK'
  BY <1>1, <1>2 DEF DeployContract, TypesOK
<1> QED
  BY <1>3 DEF DeployContract, NothingStale

LEMMA AddedContract ==
  ASSUME ChainOK, NEW e, NEW c, IsNew(c, e), chain' = chain \cup {c}
  PROVE  ChainOK'
<1> DEFINE k == c.at[1]
<1>0. k \in Nat /\ c.at[2] \in Nat
  BY DEF IsNew, Addresses
<1>1. IsFiniteSet(chain) /\ IsFiniteSet(chain') /\ c \notin chain
  BY FS_AddElement DEF ChainOK, IsNew
<1>2. \A n : /\ Created(n) \subseteq chain /\ Created(n)' \subseteq chain'
             /\ Created(n) \subseteq Created(n)'
  BY DEF Created
<1>3. \A n : /\ IsFiniteSet(Created(n)) /\ IsFiniteSet(Created(n)')
             /\ Cardinality(Created(n)) \in Nat /\ Cardinality(Created(n)') \in Nat
             /\ Cardinality(Created(n)) <= Cardinality(Created(n)')
  <2> TAKE n
  <2>1. IsFiniteSet(Created(n)) /\ IsFiniteSet(Created(n)')
    BY <1>1, <1>2, FS_Subset
  <2> QED
    BY <1>2, <2>1, FS_Subset, FS_CardinalityType
<1>4. Created(k)' = Created(k) \cup {c} /\ c \notin Created(k)
  BY <1>1, <1>2 DEF Created
<1>5. Cardinality(Created(k)') = Cardinality(Created(k)) + 1
  BY <1>3, <1>4, FS_AddElement
<1>6. ASSUME NEW b \in chain'
      PROVE  /\ b.at \in Addresses /\ b.at[2] >= 1
             /\ b.at[2] <= Cardinality(Created(b.at[1])')
             /\ b.args \in [Links(b.kind) -> Addresses]
  <2>1. CASE b \in chain
    <3>1. /\ b.at \in Addresses /\ b.at[2] >= 1 /\ b.at[2] <= Cardinality(Created(b.at[1]))
          /\ b.args \in [Links(b.kind) -> Addresses]
      BY <2>1 DEF ChainOK
    <3>2. b.at[2] \in Nat
      BY <3>1 DEF Addresses
    <3> DEFINE old == Cardinality(Created(b.at[1]))
               new == Cardinality(Created(b.at[1])')
    <3>3. old <= new /\ old \in Nat /\ new \in Nat
      BY <1>3
    <3>4. b.at[2] <= old
      BY <3>1
    <3> HIDE DEF old, new
    <3>5. b.at[2] <= new
      BY <3>2, <3>3, <3>4
    <3> QED
      BY <3>1, <3>5 DEF new
  <2>2. CASE b = c
    <3>1. c.at[2] = 1 + Cardinality(Created(k))
      BY DEF IsNew
    <3> QED
      BY <1>0, <1>3, <1>5, <2>2, <3>1 DEF IsNew
  <2> QED
    BY <2>1, <2>2
<1>7. \A b, d \in chain' : b.at = d.at => b = d
  BY DEF ChainOK, IsNew
<1> QED
  BY <1>1, <1>6, <1>7 DEF ChainOK

LEMMA SameChain == ChainOK /\ chain' = chain => ChainOK'
  BY DEF ChainOK, Created

(***************************************************************************)
(* The process                                                             *)
(***************************************************************************)

\* One step done.
Advance ==
  /\ running /\ todo # {} /\ running' = TRUE /\ script' = script /\ todo' = todo \ {Now}

LEMMA Advanced ==
  TypesOK /\ ProcessOK /\ Advance =>
    /\ todo' \subseteq Body(script')
    /\ \A x \in todo', y \in Body(script') : x.turn < y.turn => y \in todo'
    /\ Finished' = Finished \cup {Now}
<1> SUFFICES ASSUME TypesOK, ProcessOK, Advance
             PROVE  /\ todo' \subseteq Body(script')
                    /\ \A x \in todo', y \in Body(script') : x.turn < y.turn => y \in todo'
                    /\ Finished' = Finished \cup {Now}
  OBVIOUS
<1>1. /\ Now \in todo /\ Now \in Body(script) /\ \A y \in todo : ~(y.turn < Now.turn)
      /\ todo \subseteq Body(script) /\ script' = script /\ todo' = todo \ {Now}
  BY NowFirst DEF Advance, ProcessOK
<1>2. \A x \in todo, y \in Body(script) : x.turn < y.turn => y \in todo
  BY DEF Advance, ProcessOK
<1>3. Finished' = Finished \cup {Now}
  BY <1>1 DEF Finished
<1> QED
  BY <1>1, <1>2, <1>3

LEMMA NotRunning == TypesOK /\ ~running' => ProcessOK' /\ Built'
  BY DEF ProcessOK, Built

LEMMA BeginProcess == TypesOK /\ Begin => ProcessOK' /\ Built'
<1> SUFFICES ASSUME TypesOK, Begin PROVE ProcessOK' /\ Built'
  OBVIOUS
<1>1. Finished' = {}
  BY DEF Begin, Finished
<1>2. \A e \in Entries \cap Wanted : local'[e] = NoAddress
  BY EmptyIs DEF Begin, TypesOK
<1>3. recorded' = {} /\ todo' = Body(script')
  BY DEF Begin, TypesOK
<1> QED
  BY <1>1, <1>2, <1>3 DEF ProcessOK, Built

LEMMA DeployProcess ==
  TypesOK /\ ChainOK /\ ProcessOK /\ DeployContract => ProcessOK'
<1> SUFFICES ASSUME TypesOK, ChainOK, ProcessOK, DeployContract PROVE ProcessOK'
  OBVIOUS
<1>1. Advance /\ recorded' = recorded
  BY DEF Advance, DeployContract, Doing
<1>2. Now.do = "deploy" /\ Now.what \in Entries \cap Wanted
  BY DeployIs
<1>3. PICK c : /\ c.at # NoAddress
               /\ \A e \in Entries \cap Wanted :
                    local'[e] = IF e = Now.what THEN c.at ELSE local[e]
  BY DeployIs
<1>4. /\ recorded \subseteq Entries \cap Wanted
      /\ \A e \in Entries \cap Wanted :
           /\ e \in recorded <=> \E x \in Finished : Records(x, e)
           /\ local[e] /= NoAddress <=> \E x \in Finished : Deploys(x, e)
  BY <1>1 DEF Advance, ProcessOK
<1>5. \A e : ~Records(Now, e) /\ (Deploys(Now, e) <=> e = Now.what)
  BY <1>2 DEF Records, Deploys
<1>6. Finished' = Finished \cup {Now}
  BY <1>1, Advanced
<1>7. \A e \in Entries \cap Wanted :
           /\ e \in recorded' <=> \E x \in Finished' : Records(x, e)
           /\ local'[e] /= NoAddress <=> \E x \in Finished' : Deploys(x, e)
  <2> TAKE e \in Entries \cap Wanted
  <2>1. e \in recorded' <=> \E x \in Finished' : Records(x, e)
    BY <1>1, <1>4, <1>5, <1>6
  <2>2. CASE e = Now.what
    BY <1>3, <1>5, <1>6, <2>1, <2>2
  <2>3. CASE e # Now.what
    BY <1>3, <1>4, <1>5, <1>6, <2>1, <2>3
  <2> QED
    BY <2>2, <2>3
<1>8. /\ todo' \subseteq Body(script')
      /\ \A x \in todo', y \in Body(script') : x.turn < y.turn => y \in todo'
  BY <1>1, Advanced
<1> QED
  BY <1>1, <1>4, <1>7, <1>8 DEF ProcessOK

\* What a script records is an entry of its file.
LEMMA RecordedEntries ==
  ASSUME TypesOK, ProcessOK, running
  PROVE  /\ script \in 1..14
         /\ \A x \in Body(script) : x.do = "record" =>
              x.what \in EntriesOf(script) /\ x.what \in Entries \cap Wanted
         /\ \A e \in recorded : e \in EntriesOf(script)
<1>1. script \in 1..14
  BY LastScripts DEF TypesOK
<1>2. \A x \in Body(script) : x.do = "record" => x.what \in EntriesOf(script)
  BY <1>1, BodiesOK DEF BodyOK, RecordsOK
<1>3. \A e \in EntriesOf(script) : e \in Entries \cap Wanted
  BY <1>1, EntryFacts
<1>4. \A e \in recorded : \E x \in Body(script) : x.do = "record" /\ x.what = e
  BY DEF ProcessOK, Finished, Records
<1> QED
  BY <1>1, <1>2, <1>3, <1>4

LEMMA RecordProcess == TypesOK /\ ProcessOK /\ RecordAddress => ProcessOK'
<1> SUFFICES ASSUME TypesOK, ProcessOK, RecordAddress PROVE ProcessOK'
  OBVIOUS
<1>1. /\ Advance /\ recorded' = recorded \cup {Now.what} /\ local' = local /\ Now.do = "record"
      /\ running
  BY DEF Advance, RecordAddress, Doing
<1>2. Now.what \in Entries \cap Wanted
  BY <1>1, NowReached, RecordedEntries DEF Advance, Reached
<1>3. /\ recorded \subseteq Entries \cap Wanted
      /\ \A e \in Entries \cap Wanted :
           /\ e \in recorded <=> \E x \in Finished : Records(x, e)
           /\ local[e] /= NoAddress <=> \E x \in Finished : Deploys(x, e)
  BY <1>1 DEF ProcessOK
<1>4. \A e : ~Deploys(Now, e) /\ (Records(Now, e) <=> e = Now.what)
  BY <1>1 DEF Records, Deploys
<1>5. Finished' = Finished \cup {Now}
  BY <1>1, Advanced
<1>6. \A e \in Entries \cap Wanted :
           /\ e \in recorded' <=> \E x \in Finished' : Records(x, e)
           /\ local'[e] /= NoAddress <=> \E x \in Finished' : Deploys(x, e)
  BY <1>1, <1>3, <1>4, <1>5
<1>7. /\ todo' \subseteq Body(script')
      /\ \A x \in todo', y \in Body(script') : x.turn < y.turn => y \in todo'
  BY <1>1, Advanced
<1> QED
  BY <1>1, <1>2, <1>3, <1>6, <1>7 DEF ProcessOK

LEMMA WriteProcess == TypesOK /\ ProcessOK /\ WriteFile => ProcessOK'
<1> SUFFICES ASSUME TypesOK, ProcessOK, WriteFile PROVE ProcessOK'
  OBVIOUS
<1>1. /\ Advance /\ recorded' = recorded /\ local' = local /\ Now.do = "write" /\ running
  BY DEF Advance, WriteFile, Doing
<1>2. /\ recorded \subseteq Entries \cap Wanted
      /\ \A e \in Entries \cap Wanted :
           /\ e \in recorded <=> \E x \in Finished : Records(x, e)
           /\ local[e] /= NoAddress <=> \E x \in Finished : Deploys(x, e)
  BY <1>1 DEF ProcessOK
<1>3. \A e : ~Deploys(Now, e) /\ ~Records(Now, e)
  BY <1>1 DEF Records, Deploys
<1>4. Finished' = Finished \cup {Now}
  BY <1>1, Advanced
<1>5. \A e \in Entries \cap Wanted :
           /\ e \in recorded' <=> \E x \in Finished' : Records(x, e)
           /\ local'[e] /= NoAddress <=> \E x \in Finished' : Deploys(x, e)
  BY <1>1, <1>2, <1>3, <1>4
<1>6. /\ todo' \subseteq Body(script')
      /\ \A x \in todo', y \in Body(script') : x.turn < y.turn => y \in todo'
  BY <1>1, Advanced
<1> QED
  BY <1>1, <1>2, <1>5, <1>6 DEF ProcessOK

(***************************************************************************)
(* The files, and what they name                                           *)
(***************************************************************************)

LEMMA MarkIs ==
  TypesOK /\ FilesOK => /\ Mark \in 1..15 /\ Mark <= LastScript + 1
                        /\ script # 0 => Mark <= script
  BY LastScripts DEF TypesOK, FilesOK, Mark

\* The address of what was recorded up to s, and of what it is linked with.
Settled(s) == \A u \in 1..14 : u <= s => \A d \in EntriesOf(u) : entry'[d] = entry[d]

LEMMA StillNamed ==
  ASSUME NEW s \in 1..14, NEW e \in EntriesOf(s), Named(e), chain \subseteq chain', Settled(s)
  PROVE  Named(e)'
<1>1. PICK c \in chain : IsNamed(c, e)
  BY DEF Named
<1>2. entry'[e] = entry[e]
  BY DEF Settled
<1>3. \A d \in Links(KindOf(e)) \ StaticTokens : entry'[d] = entry[d]
  BY BackLinks DEF Settled
<1>4. IsNamed(c, e)'
  BY <1>1, <1>2, <1>3 DEF IsNamed
<1> QED
  BY <1>1, <1>4 DEF Named

\* What a step may do to the files and the mark.
Behind(s) == s < Mark /\ file[PhaseOf(s)] = "ok"
LEMMA FrontierKept ==
  ASSUME Frontier, chain \subseteq chain',
         \A s \in 1..14 : Behind(s)' => Settled(s) /\ (Behind(s) \/ EntriesOf(s) = {})
  PROVE  Frontier'
<1> SUFFICES ASSUME NEW s \in 1..14, Behind(s)', NEW e \in EntriesOf(s)
             PROVE  Named(e)'
  BY DEF Frontier, Behind
<1>1. Settled(s) /\ Behind(s)
  OBVIOUS
<1>2. Named(e)
  BY <1>1 DEF Frontier, Behind
<1> QED
  BY <1>1, <1>2, StillNamed

LEMMA FrontierSame ==
  Frontier /\ chain' = chain /\ UNCHANGED <<file, entry, script, skipped, resume>> => Frontier'
<1> SUFFICES ASSUME Frontier, chain' = chain, UNCHANGED <<file, entry, script, skipped, resume>>
             PROVE  Frontier'
  OBVIOUS
<1>1. \A s \in 1..14 : Settled(s)
  BY DEF Settled
<1>2. Mark' = Mark
  BY DEF Mark
<1>3. \A s \in 1..14 : Behind(s)' => Behind(s)
  BY <1>2 DEF Behind
<1> QED
  BY <1>1, <1>3, FrontierKept

LEMMA ReadyFile ==
  ASSUME NEW s \in 1..14, Ready(s)
  PROVE  file[PhaseOf(s)] = IF IsSetup(s) THEN "missing" ELSE "ok"
<1>1. s \in {1, 2, 3, 4, 5, 6, 7, 8, 9, 10, 11, 12, 13, 14}
  OBVIOUS
<1>0. /\ Ready(1) => Phase1SetupReady
      /\ Ready(2) => LibrariesReady
      /\ Ready(3) => ImplementationsReady
      /\ Ready(4) => RSRAssetReady
      /\ Ready(5) => FacadeReady
      /\ Ready(6) => DeployerReady
      /\ Ready(7) => FacadeWriteReady
      /\ Ready(8) => FacadeActReady
      /\ Ready(9) => Phase2SetupReady
      /\ Ready(10) => AssetsReady
      /\ Ready(11) => CollateralReady
      /\ Ready(12) => Phase3SetupReady
      /\ Ready(13) => RTokenReady
      /\ Ready(14) => GovernanceReady
  BY DEF Ready
<1>2. CASE s \in {1, 9, 12}
  <2>1. PhaseOf(1) = "phase1" /\ PhaseOf(9) = "phase2" /\ PhaseOf(12) = "rtoken" /\ IsSetup(s)
    BY <1>2, PhaseFacts
  <2>2. file[PhaseOf(s)] = "missing"
    BY <1>0, <1>2, <2>1 DEF Phase1SetupReady, Phase2SetupReady, Phase3SetupReady
  <2> QED
    BY <2>1, <2>2
<1>3. CASE s \in {2, 3, 4, 5, 6, 7, 8}
  <2>1. PhaseOf(s) = "phase1" /\ ~IsSetup(s)
    BY <1>3, PhaseFacts
  <2>2. Readable("phase1")
    BY <1>0, <1>3 DEF LibrariesReady, ImplementationsReady, RSRAssetReady, FacadeReady,
               DeployerReady, FacadeWriteReady, FacadeActReady
  <2> QED
    BY <2>1, <2>2 DEF Readable
<1>4. CASE s \in {10, 11}
  <2>1. PhaseOf(s) = "phase2" /\ ~IsSetup(s)
    BY <1>4, PhaseFacts
  <2>2. Readable("phase2")
    BY <1>0, <1>4 DEF AssetsReady, CollateralReady
  <2> QED
    BY <2>1, <2>2 DEF Readable
<1>5. CASE s \in {13, 14}
  <2>1. PhaseOf(s) = "rtoken" /\ ~IsSetup(s)
    BY <1>5, PhaseFacts
  <2>2. Readable("rtoken")
    BY <1>0, <1>5 DEF RTokenReady, GovernanceReady
  <2> QED
    BY <2>1, <2>2 DEF Readable
<1> QED
  BY <1>1, <1>2, <1>3, <1>4, <1>5

LEMMA BeginFiles == TypesOK /\ FilesOK /\ Frontier /\ Begin => (FilesOK /\ Frontier)'
<1> SUFFICES ASSUME TypesOK, FilesOK, Frontier, Begin PROVE (FilesOK /\ Frontier)'
  OBVIOUS
<1>1. /\ UNCHANGED <<chain, file, entry, script, skipped, resume>>
      /\ script \in 1..14 /\ Ready(script) /\ todo' = Body(script)
  BY LastScripts DEF Begin
<1>2. Mark' = Mark
  BY <1>1 DEF Mark
<1>3. file[PhaseOf(script)] = IF IsSetup(script) THEN "missing" ELSE "ok"
  BY <1>1, ReadyFile
<1>4. IsSetup(script) => \E x \in todo' : x.do = "write"
  BY <1>1, SetupOK, PhaseFacts
<1>5. FilesOK'
  BY <1>1, <1>2, <1>3, <1>4 DEF FilesOK
<1> QED
  BY <1>1, <1>5, FrontierSame

\* A step of a process that leaves the files alone.
LEMMA WorkFiles ==
  TypesOK /\ ProcessOK /\ FilesOK /\ Frontier /\ Advance /\ Now.do # "write" /\ chain \subseteq chain'
    /\ UNCHANGED <<file, entry, skipped, resume>> => (FilesOK /\ Frontier)'
<1> SUFFICES ASSUME TypesOK, ProcessOK, FilesOK, Frontier, Advance, Now.do # "write",
                    chain \subseteq chain', UNCHANGED <<file, entry, skipped, resume>>
             PROVE  (FilesOK /\ Frontier)'
  OBVIOUS
<1>1. Mark' = Mark /\ script' = script /\ running /\ running' /\ todo' = todo \ {Now}
  BY DEF Advance, Mark
<1>2. FilesOK'
  BY <1>1 DEF FilesOK
<1>3. \A s \in 1..14 : Settled(s) /\ (Behind(s)' => Behind(s))
  BY <1>1 DEF Settled, Behind
<1> QED
  BY <1>2, <1>3, FrontierKept

LEMMA WriteFiles ==
  TypesOK /\ ProcessOK /\ FilesOK /\ Frontier /\ WriteFile => (FilesOK /\ Frontier)'
<1> SUFFICES ASSUME TypesOK, ProcessOK, FilesOK, Frontier, WriteFile
             PROVE  (FilesOK /\ Frontier)'
  OBVIOUS
<1>1. /\ running /\ running' = running /\ script \in 1..14
      /\ UNCHANGED <<chain, script, skipped, resume>>
  BY LastScripts DEF WriteFile, Doing, TypesOK
<1>2. PhaseOf(script) \in Phases /\ \A s \in 1..14 : PhaseOf(s) \in Phases
  BY <1>1, PhaseOrder
<1>3. \A p \in Phases : file'[p] = IF p = PhaseOf(script) THEN "ok" ELSE file[p]
  BY DEF WriteFile, TypesOK
<1>4. Mark' = Mark /\ Mark \in Nat /\ Mark <= script
  BY <1>1, MarkIs DEF Mark
<1>5. FilesOK'
  BY <1>1, <1>2, <1>3, <1>4 DEF FilesOK
<1>6. ASSUME NEW s \in 1..14, Behind(s)'
      PROVE  Settled(s) /\ Behind(s)
  <2>1. s < Mark /\ s < script /\ file'[PhaseOf(s)] = "ok"
    BY <1>1, <1>4, <1>6 DEF Behind
  <2>2. ASSUME NEW u \in 1..14, u <= s, NEW d \in EntriesOf(u)
        PROVE  entry'[d] = entry[d]
    <3>1. u # script
      BY <2>1, <2>2
    <3>2. d \notin recorded
      BY <1>1, <3>1, RecordedEntries, Disjoint
    <3>3. d \in Entries \cap Wanted
      BY EntryFacts
    <3> QED
      BY <3>2, <3>3 DEF WriteFile, TypesOK
  <2>3. file[PhaseOf(s)] = "ok"
    <3>1. CASE PhaseOf(s) # PhaseOf(script)
      BY <1>2, <1>3, <2>1, <3>1
    <3>2. CASE PhaseOf(s) = PhaseOf(script)
      <4>1. ~IsSetup(script)
        BY <1>1, <2>1, <3>2, PhaseOrder
      <4> QED
        BY <1>1, <3>2, <4>1 DEF FilesOK
    <3> QED
      BY <3>1, <3>2
  <2> QED
    BY <2>1, <2>2, <2>3 DEF Settled, Behind
<1>7. Frontier'
  BY <1>1, <1>6, FrontierKept
<1> QED
  BY <1>5, <1>7

LEMMA StartFiles ==
  ASSUME TypesOK, FilesOK, Frontier, NEW s \in 1..LastScript, Start(s)
  PROVE  (FilesOK /\ Frontier)'
<1>1. /\ script = 0 /\ script' = s /\ skipped' = (s > resume) /\ ~running'
      /\ UNCHANGED <<chain, file, entry, resume>>
  BY DEF Start, TypesOK, process
<1>2. s \in 1..14 /\ resume \in 1..15
  BY LastScripts
<1>3. Mark = resume /\ Mark \in Nat /\ Mark' \in Nat /\ Mark' <= Mark
  <2>1. Mark = resume
    BY <1>1 DEF Mark
  <2>2. CASE s > resume
    <3>1. Mark' = resume
      BY <1>1, <2>2 DEF Mark
    <3> QED
      BY <1>2, <2>1, <3>1
  <2>3. CASE ~(s > resume)
    <3>1. ~skipped'
      BY <1>1, <2>3, Zenon
    <3>2. script' # 0 /\ script' = s
      BY <1>1, <1>2
    <3>3. Mark' = s
      BY <3>1, <3>2 DEF Mark
    <3> QED
      BY <1>2, <2>1, <2>3, <3>3
  <2> QED
    BY <2>2, <2>3
<1>4. \A p \in Phases : SetupOf(p) \in Nat /\ LastOf(p) \in Nat
  BY PhaseOrder
<1>5. \A p \in Phases : /\ file'[p] = "missing" => Mark' <= SetupOf(p)
                        /\ file'[p] = "torn" => Mark' <= LastOf(p)
  BY <1>1, <1>3, <1>4 DEF FilesOK
<1>6. FilesOK'
  BY <1>1, <1>2, <1>5 DEF FilesOK
<1>7. \A t \in 1..14 : Settled(t) /\ (Behind(t)' => Behind(t))
  BY <1>1, <1>3 DEF Settled, Behind
<1> QED
  BY <1>1, <1>6, <1>7, FrontierKept

\* Where the mark is after a failure.
LEMMA FailMark ==
  TypesOK /\ FilesOK /\ script # 0 /\ Fail =>
    /\ Mark' \in Nat /\ Mark \in Nat
    /\ Mark' <= Mark \/ /\ Mark' = Mark + 1 /\ Mark = script /\ ~running
                        /\ script \in {1, 9} /\ Readable(PhaseOf(script))
<1> SUFFICES ASSUME TypesOK, FilesOK, script # 0, Fail
             PROVE  /\ Mark' \in Nat /\ Mark \in Nat
                    /\ Mark' <= Mark \/ /\ Mark' = Mark + 1 /\ Mark = script /\ ~running
                                        /\ script \in {1, 9} /\ Readable(PhaseOf(script))
  OBVIOUS
<1>1. Mark \in Nat /\ resume' \in Nat /\ script' = 0
  <2>1. LastScript \in {11, 14}
    BY LastScripts
  <2> QED
    BY <2>1, MarkIs, FailTypes
<1>2. Mark' = resume'
  BY <1>1 DEF Mark
<1>3. CASE skipped
  BY <1>1, <1>2, <1>3 DEF Fail, Mark
<1>4. CASE ~skipped
  <2>1. Mark = script /\ Mark' = PickUpAt
    BY <1>2, <1>4 DEF Fail, Mark
  <2> QED
    BY <1>1, <1>2, <2>1, PickUpAtIs
<1> QED
  BY <1>3, <1>4 DEF TypesOK

LEMMA FailedFiles ==
  TypesOK /\ FilesOK /\ Frontier /\ script # 0 /\ Fail /\ UNCHANGED <<chain, file, entry>>
    => (FilesOK /\ Frontier)'
<1> SUFFICES ASSUME TypesOK, FilesOK, Frontier, script # 0, Fail, UNCHANGED <<chain, file, entry>>
             PROVE  (FilesOK /\ Frontier)'
  OBVIOUS
<1>1. script' = 0 /\ ~running'
  BY FailTypes
<1>2. /\ Mark' \in Nat /\ Mark \in Nat
      /\ Mark' <= Mark \/ /\ Mark' = Mark + 1 /\ Mark = script
                          /\ script \in {1, 9} /\ file[PhaseOf(script)] = "ok"
  BY FailMark DEF Readable
<1>3. \A p \in Phases : SetupOf(p) \in Nat /\ LastOf(p) \in Nat
  BY PhaseOrder
<1>4. \A p \in Phases : /\ file[p] = "missing" => Mark <= SetupOf(p)
                        /\ file[p] = "torn" => Mark <= LastOf(p)
  BY DEF FilesOK
<1>5. CASE Mark' <= Mark
  <2>1. \A p \in Phases : /\ file'[p] = "missing" => Mark' <= SetupOf(p)
                          /\ file'[p] = "torn" => Mark' <= LastOf(p)
    BY <1>2, <1>3, <1>4, <1>5
  <2>2. FilesOK'
    BY <1>1, <2>1 DEF FilesOK
  <2>3. \A t \in 1..14 : Settled(t) /\ (Behind(t)' => Behind(t))
    BY <1>2, <1>5 DEF Settled, Behind
  <2> QED
    BY <2>2, <2>3, FrontierKept
<1>6. CASE /\ Mark' = Mark + 1 /\ Mark = script
           /\ script \in {1, 9} /\ file[PhaseOf(script)] = "ok"
  <2>1. \A p \in Phases : /\ file'[p] = "missing" => Mark' <= SetupOf(p)
                          /\ file'[p] = "torn" => Mark' <= LastOf(p)
    BY <1>2, <1>4, <1>6, PhaseFacts
  <2>2. FilesOK'
    BY <1>1, <2>1 DEF FilesOK
  <2>3. EntriesOf(script) = {}
    BY <1>6, EntriesAre
  <2>4. \A t \in 1..14 : Behind(t)' => Settled(t) /\ (Behind(t) \/ EntriesOf(t) = {})
    <3> SUFFICES ASSUME NEW t \in 1..14, Behind(t)'
                 PROVE  Settled(t) /\ (Behind(t) \/ EntriesOf(t) = {})
      OBVIOUS
    <3>1. t < Mark' /\ file[PhaseOf(t)] = "ok"
      BY DEF Behind
    <3>2. t < Mark \/ t = script
      BY <1>2, <1>6, <3>1
    <3> QED
      BY <2>3, <3>1, <3>2 DEF Settled, Behind
  <2> QED
    BY <2>2, <2>4, FrontierKept
<1> QED
  BY <1>2, <1>5, <1>6

\* A file is lost: what was recorded before that file's scripts is still there.
LEMMA LostFiles ==
  ASSUME TypesOK, NothingStale, FilesOK, Frontier, NEW p \in Phases,
         NEW how \in {"missing", "torn"},
         file' = [file EXCEPT ![p] = how], entry' = WithoutFile(p), chain' = chain,
         ~running', script' = 0, Mark' \in Nat, Mark \in Nat, Mark' <= Mark,
         how = "missing" => Mark' <= SetupOf(p), Mark' <= LastOf(p)
  PROVE  (FilesOK /\ Frontier)'
<1>1. /\ \A q \in Phases : file'[q] = IF q = p THEN how ELSE file[q]
      /\ \A e \in Entries \cap Wanted : FileOf(e) # p => entry'[e] = entry[e]
  BY LostFile DEF TypesOK
<1>2. \A q \in Phases : SetupOf(q) \in Nat /\ LastOf(q) \in Nat
  BY PhaseOrder
<1>3. \A q \in Phases : /\ file'[q] = "missing" => Mark' <= SetupOf(q)
                        /\ file'[q] = "torn" => Mark' <= LastOf(q)
  <2> TAKE q \in Phases
  <2>1. CASE q = p
    BY <1>1, <2>1
  <2>2. CASE q # p
    BY <1>1, <1>2, <2>2 DEF FilesOK
  <2> QED
    BY <2>1, <2>2
<1>4. FilesOK'
  BY <1>3 DEF FilesOK
<1>5. ASSUME NEW s \in 1..14, Behind(s)'
      PROVE  Settled(s) /\ Behind(s)
  <2>1. s < Mark' /\ file'[PhaseOf(s)] = "ok" /\ PhaseOf(s) \in Phases
    BY <1>5, PhaseOrder DEF Behind
  <2>2. PhaseOf(s) # p /\ file[PhaseOf(s)] = "ok"
    BY <1>1, <2>1
  <2>3. s < LastOf(p)
    BY <1>2, <2>1
  <2>4. s < SetupOf(p)
    BY <2>2, <2>3, PhaseFacts
  <2>5. ASSUME NEW u \in 1..14, u <= s, NEW d \in EntriesOf(u)
        PROVE  entry'[d] = entry[d]
    <3>1. u < SetupOf(p)
      BY <1>2, <2>4, <2>5
    <3>2. PhaseOf(u) # p
      BY <3>1, PhaseOrder
    <3>3. FileOf(d) = PhaseOf(u) /\ d \in Entries \cap Wanted
      BY EntryFacts
    <3> QED
      BY <1>1, <3>2, <3>3
  <2>6. s < Mark
    BY <2>1
  <2> QED
    BY <2>2, <2>5, <2>6 DEF Settled, Behind
<1>6. Frontier'
  BY <1>5, FrontierKept
<1> QED
  BY <1>4, <1>6

LEMMA CrashFiles ==
  TypesOK /\ NothingStale /\ FilesOK /\ Frontier /\ Crash => (FilesOK /\ Frontier)'
<1> SUFFICES ASSUME TypesOK, NothingStale, FilesOK, Frontier, Crash PROVE (FilesOK /\ Frontier)'
  OBVIOUS
<1>1. running /\ script # 0 /\ script \in 1..14 /\ Fail /\ chain' = chain
  BY LastScripts DEF Crash, TypesOK
<1>2. CASE UNCHANGED <<file, entry>>
  BY <1>1, <1>2, FailedFiles
<1>3. CASE /\ file' = [file EXCEPT ![PhaseOf(script)] = "torn"]
           /\ entry' = WithoutFile(PhaseOf(script))
  <2>1. PhaseOf(script) \in Phases /\ script <= LastOf(PhaseOf(script))
        /\ LastOf(PhaseOf(script)) \in 1..14
    BY <1>1, PhaseOrder
  <2>2. Mark' \in Nat /\ Mark \in Nat /\ Mark' <= Mark
    BY <1>1, FailMark
  <2>3. Mark <= script
    BY <1>1, MarkIs
  <2>4. Mark' <= LastOf(PhaseOf(script))
    BY <1>1, <2>1, <2>2, <2>3
  <2>5. ~running' /\ script' = 0
    BY <1>1, FailTypes
  <2> QED
    BY <1>1, <1>3, <2>1, <2>2, <2>4, <2>5, LostFiles
<1> QED
  BY <1>2, <1>3 DEF Crash

LEMMA DeleteFiles ==
  ASSUME TypesOK, NothingStale, FilesOK, Frontier, NEW p \in Phases, Delete(p)
  PROVE  (FilesOK /\ Frontier)'
<1>1. /\ script = 0 /\ script' = 0 /\ ~running' /\ chain' = chain
      /\ file' = [file EXCEPT ![p] = "missing"] /\ entry' = WithoutFile(p)
  BY DEF Delete, TypesOK, process
<1>2. Mark = resume /\ Mark' = resume' /\ resume \in 1..15 /\ resume <= LastScript + 1
  BY <1>1, LastScripts DEF Mark, TypesOK
<1>3. SetupOf(p) \in 1..14 /\ LastOf(p) \in 1..14 /\ SetupOf(p) < LastOf(p)
  BY PhaseOrder
<1>4. resume' \in Nat /\ resume' <= resume /\ resume' <= SetupOf(p)
  <2>1. CASE resume < SetupOf(p)
    BY <1>2, <1>3, <2>1 DEF Delete
  <2>2. CASE p = "rtoken" /\ ~phase3
    BY <1>2, <2>2, PhaseFacts DEF Delete, LastScript
  <2>3. CASE ~(resume < SetupOf(p)) /\ ~(p = "rtoken" /\ ~phase3)
    BY <1>2, <1>3, <2>3 DEF Delete
  <2> QED
    BY <2>1, <2>2, <2>3
<1>5. /\ Mark' \in Nat /\ Mark \in Nat /\ Mark' <= Mark /\ Mark' <= SetupOf(p)
      /\ Mark' <= LastOf(p)
  BY <1>2, <1>3, <1>4
<1> QED
  BY <1>1, <1>5, LostFiles

LEMMA RestartFiles ==
  TypesOK /\ FilesOK /\ Frontier /\ Restart => ChainOK' /\ (FilesOK /\ Frontier)'
<1> SUFFICES ASSUME TypesOK, FilesOK, Frontier, Restart
             PROVE  ChainOK' /\ (FilesOK /\ Frontier)'
  OBVIOUS
<1>1. chain' = {} /\ script' = 0 /\ resume' = 1 /\ ~running' /\ UNCHANGED <<file, entry>>
  BY DEF Restart, TypesOK, process
<1>2. Mark' = 1
  BY <1>1 DEF Mark
<1>3. FilesOK'
  BY <1>1, <1>2, PhaseFacts DEF FilesOK
<1>4. Frontier'
  BY <1>2 DEF Frontier
<1>5. ChainOK'
  BY <1>1, FS_EmptySet DEF ChainOK
<1> QED
  BY <1>3, <1>4, <1>5

\* A run that skipped scripts moves no mark.
LEMMA SkippedFiles ==
  TypesOK /\ FilesOK /\ Frontier /\ NextScript /\ skipped => (FilesOK /\ Frontier)'
<1> SUFFICES ASSUME TypesOK, FilesOK, Frontier, NextScript, skipped
             PROVE  (FilesOK /\ Frontier)'
  OBVIOUS
<1>1. /\ UNCHANGED <<chain, file, entry, skipped, resume>> /\ ~running'
      /\ script' = 0 \/ script' = script + 1
      /\ script # 0 /\ script \in 1..14 /\ resume \in 1..15
  BY LastScripts DEF NextScript, NoProcess, TypesOK
<1>2. Mark' = Mark
  BY <1>1 DEF Mark
<1>3. FilesOK'
  BY <1>1, <1>2 DEF FilesOK
<1>4. \A t \in 1..14 : Settled(t) /\ (Behind(t)' => Behind(t))
  BY <1>1, <1>2 DEF Settled, Behind
<1> QED
  BY <1>1, <1>3, <1>4, FrontierKept

(***************************************************************************)
(* What is built and named                                                 *)
(***************************************************************************)

\* What a contract is linked with is sound when it is deployed by a run that
\* skipped nothing.
LEMMA SoundWhenBuilt ==
  ASSUME TypesOK, NothingStale, ProcessOK, Built, Frontier, running, ~skipped, todo # {},
         Now.do = "deploy", Deployable(Now.what)
  PROVE  Sound(Now.what)
<1> SUFFICES ASSUME NEW d \in Links(Now.what)
             PROVE  IsA(Lookup(d), KindOf(d))
  BY DEF Sound
<1>1. Reached(Now)
  BY NowReached
<1>2. /\ script \in 1..14 /\ KindOf(d) \in Entries \cap Wanted
      /\ \/ local[KindOf(d)] # NoAddress
         \/ /\ local[KindOf(d)] = NoAddress
            /\ \E t \in 1..14 : t < script /\ d \in EntriesOf(t)
  BY <1>1, FoundLinks
<1>3. CASE local[KindOf(d)] # NoAddress
  <2>1. PICK c \in chain : IsBuilt(c, KindOf(d))
    BY <1>2, <1>3 DEF Built
  <2> QED
    BY <1>3, <2>1 DEF IsBuilt, IsA, Lookup
<1>4. ASSUME local[KindOf(d)] = NoAddress, NEW t \in 1..14, t < script, d \in EntriesOf(t)
      PROVE  IsA(Lookup(d), KindOf(d))
  <2>1. Lookup(d) = entry[d] /\ entry[d] # NoAddress
    BY <1>4 DEF Lookup, Deployable
  <2>2. file[PhaseOf(t)] = "ok"
    BY <1>4, <2>1, EntryFacts DEF NothingStale
  <2>3. Mark = script
    BY <1>2 DEF Mark
  <2>4. Named(d)
    BY <1>4, <2>2, <2>3 DEF Frontier
  <2> QED
    BY <2>1, <2>4 DEF Named, IsNamed, IsA
<1> QED
  BY <1>2, <1>3, <1>4

LEMMA DeployBuilt ==
  TypesOK /\ NothingStale /\ ChainOK /\ ProcessOK /\ Built /\ Frontier /\ DeployContract => Built'
<1> SUFFICES ASSUME TypesOK, NothingStale, ChainOK, ProcessOK, Built, Frontier, DeployContract,
                    ~skipped
             PROVE  Built'
  BY DEF DeployContract, Built
<1> DEFINE e == Now.what
<1>1. /\ Advance /\ running /\ todo # {} /\ Reached(Now) /\ Now \in todo /\ Now.do = "deploy"
      /\ Deployable(e) /\ e \in Entries \cap Wanted /\ UNCHANGED <<entry, script>>
  BY DeployIs DEF Advance, DeployContract, Doing
<1>2. PICK c : /\ IsNew(c, e) /\ chain' = chain \cup {c}
               /\ \A f \in Entries \cap Wanted : local'[f] = IF f = e THEN c.at ELSE local[f]
  BY DeployIs
<1>3. Finished' = Finished \cup {Now}
  BY <1>1, Advanced
<1>4. Sound(e)
  BY <1>1, SoundWhenBuilt
<1>5. ASSUME NEW x, Reached(x), x.do = "deploy", NEW d \in Links(x.what)
      PROVE  Lookup(d)' = Lookup(d)
  <2>1. KindOf(d) # e
    BY <1>1, <1>5, LinksComeFirst
  <2>2. KindOf(d) \in Entries \cap Wanted
    BY LinksWanted, KindIsWanted
  <2>3. local'[KindOf(d)] = local[KindOf(d)]
    BY <1>2, <2>1, <2>2
  <2> QED
    BY <1>1, <2>3 DEF Lookup
<1>6. ASSUME NEW f \in Entries \cap Wanted, local'[f] /= NoAddress
      PROVE  \E b \in chain' : IsBuilt(b, f)'
  <2>1. CASE f = e
    <3>1. \A d \in Links(e) : Lookup(d)' = Lookup(d)
      BY <1>1, <1>5
    <3>2. /\ c.at = local'[f] /\ c.kind = f /\ c.ok
          /\ \A d \in Links(f) \ StaticTokens : c.args[d] = Lookup(d)'
      BY <1>2, <1>4, <2>1, <3>1 DEF IsNew
    <3> QED
      BY <1>2, <3>2 DEF IsBuilt
  <2>2. CASE f # e
    <3>1. local[f] /= NoAddress /\ local'[f] = local[f]
      BY <1>2, <1>6, <2>2
    <3>2. PICK b \in chain : IsBuilt(b, f)
      BY <1>1, <3>1 DEF Built
    <3>3. PICK x \in Finished : Deploys(x, f)
      BY <1>1, <3>1 DEF ProcessOK
    <3>4. Reached(x)
      BY <1>1, <3>3, FinishedReached
    <3>5. \A d \in Links(f) : Lookup(d)' = Lookup(d)
      BY <1>5, <3>3, <3>4 DEF Deploys
    <3>6. IsBuilt(b, f)'
      BY <3>1, <3>2, <3>5 DEF IsBuilt
    <3> QED
      BY <1>2, <3>2, <3>6
  <2> QED
    BY <2>1, <2>2
<1>7. ASSUME NEW x \in Finished', NEW y \in Finished', x.do = "record", y.do = "write",
             x.turn < y.turn
      PROVE  entry'[x.what] = Written(x.what)'
  <2>1. x \in Finished /\ y \in Finished
    BY <1>1, <1>3, <1>7
  <2>2. entry[x.what] = Written(x.what)
    BY <1>1, <1>7, <2>1 DEF Built
  <2>3. x \in Body(script) /\ Now \in Body(script) /\ Reached(x) /\ script \in 1..14
    BY <1>1, <2>1, FinishedReached, RecordedEntries DEF Reached
  <2>4. RecordsOK(script, Body(script)) /\ DeploysOK(script, Body(script))
    BY <2>3, BodiesOK DEF BodyOK
  <2>5. script # 12
    BY <1>1, <2>3, <2>4 DEF DeploysOK
  <2>6. KindOf(x.what) # e
    BY <1>1, <1>7, <2>3, <2>4, <2>5 DEF RecordsOK, Deploys, Reached
  <2>7. KindOf(x.what) \in Entries \cap Wanted
    BY <1>1, <1>7, <2>3, RecordedEntries, KindIsWanted
  <2>8. local'[KindOf(x.what)] = local[KindOf(x.what)]
    BY <1>2, <2>6, <2>7
  <2> QED
    BY <1>1, <2>2, <2>8 DEF Written
<1> QED
  BY <1>6, <1>7 DEF Built

LEMMA RecordBuilt == TypesOK /\ ProcessOK /\ Built /\ RecordAddress => Built'
<1> SUFFICES ASSUME TypesOK, ProcessOK, Built, RecordAddress, ~skipped PROVE Built'
  BY DEF RecordAddress, Built
<1>1. /\ Advance /\ running /\ Now.do = "record" /\ UNCHANGED <<chain, entry, local>>
  BY DEF Advance, RecordAddress, Doing
<1>2. Finished' = Finished \cup {Now} /\ Now \in todo
  BY <1>1, Advanced, NowFirst DEF Advance
<1>3. ASSUME NEW f \in Entries \cap Wanted, local'[f] /= NoAddress
      PROVE  \E b \in chain' : IsBuilt(b, f)'
  <2>1. PICK b \in chain : IsBuilt(b, f)
    BY <1>1, <1>3 DEF Built
  <2>2. \A d : Lookup(d)' = Lookup(d)
    BY <1>1 DEF Lookup
  <2>3. IsBuilt(b, f)'
    BY <1>1, <2>1, <2>2 DEF IsBuilt
  <2> QED
    BY <1>1, <2>3
<1>4. ASSUME NEW x \in Finished', NEW y \in Finished', x.do = "record", y.do = "write",
             x.turn < y.turn
      PROVE  entry'[x.what] = Written(x.what)'
  <2>1. y \in Finished
    BY <1>1, <1>2, <1>4
  <2>2. x # Now
    BY <1>1, <1>2, <1>4, <2>1 DEF ProcessOK, Finished
  <2>3. entry[x.what] = Written(x.what)
    BY <1>1, <1>2, <1>4, <2>1, <2>2 DEF Built
  <2> QED
    BY <1>1, <2>3 DEF Written
<1> QED
  BY <1>3, <1>4 DEF Built

LEMMA WriteBuilt == TypesOK /\ ProcessOK /\ Built /\ WriteFile => Built'
<1> SUFFICES ASSUME TypesOK, ProcessOK, Built, WriteFile, ~skipped PROVE Built'
  BY DEF WriteFile, Built
<1>1. /\ Advance /\ running /\ Now.do = "write" /\ UNCHANGED <<chain, local>>
  BY DEF Advance, WriteFile, Doing
<1>2. Finished' = Finished \cup {Now}
  BY <1>1, Advanced
<1>3. \A f \in Entries \cap Wanted : entry'[f] = IF f \in recorded THEN Written(f) ELSE entry[f]
  BY DEF WriteFile, TypesOK
<1>4. script \in 1..14 /\ \A f \in recorded : f \in EntriesOf(script)
  BY <1>1, RecordedEntries
<1>5. ASSUME NEW f \in Entries \cap Wanted, local'[f] /= NoAddress
      PROVE  \E b \in chain' : IsBuilt(b, f)'
  <2>1. PICK b \in chain : IsBuilt(b, f)
    BY <1>1, <1>5 DEF Built
  <2>2. PICK x \in Finished : Deploys(x, f)
    BY <1>1, <1>5 DEF ProcessOK
  <2>3. Reached(x) /\ x.do = "deploy" /\ x.what = f
    BY <1>1, <2>2, FinishedReached DEF Deploys
  <2>4. ASSUME NEW d \in Links(f)
        PROVE  Lookup(d)' = Lookup(d)
    <3>1. CASE local[KindOf(d)] # NoAddress
      BY <1>1, <3>1 DEF Lookup
    <3>2. CASE local[KindOf(d)] = NoAddress
      <4>1. PICK t \in 1..14 : t < script /\ d \in EntriesOf(t)
        BY <1>1, <2>3, <3>2, FoundLinks
      <4>2. d \notin recorded
        BY <1>4, <4>1, Disjoint
      <4>3. entry'[d] = entry[d]
        BY <1>3, <4>2, LinksWanted
      <4> QED
        BY <1>1, <3>2, <4>3 DEF Lookup
    <3> QED
      BY <3>1, <3>2
  <2>5. IsBuilt(b, f)'
    BY <1>1, <2>1, <2>4 DEF IsBuilt
  <2> QED
    BY <1>1, <2>5
<1>6. ASSUME NEW x \in Finished', NEW y \in Finished', x.do = "record", y.do = "write",
             x.turn < y.turn
      PROVE  entry'[x.what] = Written(x.what)'
  <2>1. x \in Finished /\ x \in Body(script) /\ x.what \in Entries \cap Wanted
        /\ x.what \in EntriesOf(script)
    BY <1>1, <1>2, <1>6, RecordedEntries DEF Finished
  <2>2. x.what \in recorded
    BY <1>1, <1>6, <2>1 DEF ProcessOK, Records
  <2>3. entry'[x.what] = Written(x.what)
    BY <1>3, <2>1, <2>2
  <2>4. CASE x.what = "facadeWrite of RToken"
    <3>1. script = 12
      BY <1>4, <2>1, <2>4, EntryFacts
    <3>2. "facadeWrite" \notin recorded /\ "facadeWrite" \in Entries \cap Wanted
      <4>1. 7 \in 1..14
        OBVIOUS
      <4>2. "facadeWrite" \in Entries \cap Wanted
        BY <4>1, FacadeWriteEntry, EntryFacts
      <4>3. "facadeWrite" \notin EntriesOf(12)
        BY EntriesAre
      <4> QED
        BY <1>4, <3>1, <4>2, <4>3
    <3>3. entry'["facadeWrite"] = entry["facadeWrite"]
      BY <1>3, <3>2
    <3> QED
      BY <2>3, <2>4, <3>3 DEF Written
  <2>5. CASE x.what # "facadeWrite of RToken"
    BY <1>1, <2>3, <2>5 DEF Written
  <2> QED
    BY <2>4, <2>5
<1> QED
  BY <1>5, <1>6 DEF Built

\* What a script has recorded is named soundly once the script is through.
LEMMA ThroughNamed ==
  ASSUME TypesOK, ProcessOK, FilesOK, Built, Frontier, running, todo = {}, ~skipped,
         NEW e \in EntriesOf(script)
  PROVE  Named(e)
<1>1. script \in 1..14 /\ Finished = Body(script) /\ Mark = script
  BY LastScripts DEF TypesOK, Finished, Mark
<1>2. RecordsOK(script, Body(script)) /\ DeploysOK(script, Body(script))
  BY <1>1, BodiesOK DEF BodyOK
<1>3. \A d \in EntriesOf(script) : entry[d] = Written(d)
  <2> TAKE d \in EntriesOf(script)
  <2>1. PICK x \in Finished, y \in Finished : Records(x, d) /\ y.do = "write" /\ x.turn < y.turn
    BY <1>1, <1>2 DEF RecordsOK
  <2> QED
    BY <2>1 DEF Built, Records
<1>4. CASE script = 12
  <2>1. e = "facadeWrite of RToken"
    BY <1>4, EntriesAre
  <2>2. entry[e] = entry["facadeWrite"]
    BY <1>3, <2>1 DEF Written
  <2>3. PhaseOf(7) = "phase1" /\ "phase1" \in Phases
    BY PhaseFacts
  <2>4. file["phase1"] = "ok"
    <3>1. file["phase1"] # "missing" /\ file["phase1"] # "torn"
      BY <1>1, <1>4, <2>3, PhaseFacts DEF FilesOK
    <3> QED
      BY <2>3, <3>1 DEF TypesOK
  <2>5. 7 \in 1..14 /\ 7 < Mark
    BY <1>1, <1>4
  <2>6. Named("facadeWrite")
    BY <2>3, <2>4, <2>5, FacadeWriteEntry DEF Frontier
  <2>7. KindOf(e) = KindOf("facadeWrite")
    BY <2>1, FacadeWriteEntry
  <2> QED
    BY <2>2, <2>6, <2>7 DEF Named, IsNamed
<1>5. CASE script # 12
  <2>1. \A d \in EntriesOf(script) : entry[d] = local[KindOf(d)]
    BY <1>1, <1>3, <1>5, EntryFacts DEF Written
  <2>2. PICK x \in Body(script) : Records(x, e)
    BY <1>2 DEF RecordsOK
  <2>3. PICK y \in Finished : Deploys(y, KindOf(e))
    BY <1>1, <1>2, <1>5, <2>2 DEF RecordsOK, Records
  <2>4. KindOf(e) \in Entries \cap Wanted
    BY <1>1, EntryFacts, KindIsWanted
  <2>5. local[KindOf(e)] /= NoAddress
    BY <2>3, <2>4 DEF ProcessOK
  <2>6. PICK c \in chain : IsBuilt(c, KindOf(e))
    BY <2>4, <2>5 DEF Built
  <2>7. y.do = "deploy" /\ y.what = KindOf(e) /\ Reached(y)
    BY <2>3, FinishedReached DEF Deploys
  <2>8. ASSUME NEW d \in Links(KindOf(e)) \ StaticTokens
        PROVE  Lookup(d) = entry[d]
    <3>1. local[KindOf(d)] # NoAddress => d \in StaticTokens \cup EntriesOf(script)
      BY <2>7, FoundLinks
    <3> QED
      BY <2>1, <3>1 DEF Lookup
  <2>9. IsNamed(c, e)
    <3>1. c.at = entry[e] /\ c.kind = KindOf(e) /\ c.ok
      BY <2>1, <2>6 DEF IsBuilt
    <3>2. \A d \in Links(KindOf(e)) \ StaticTokens : c.args[d] = entry[d]
      BY <2>6, <2>8 DEF IsBuilt
    <3> QED
      BY <3>1, <3>2 DEF IsNamed
  <2> QED
    BY <2>6, <2>9 DEF Named
<1> QED
  BY <1>4, <1>5

LEMMA ThroughFiles ==
  TypesOK /\ ProcessOK /\ FilesOK /\ Built /\ Frontier /\ NextScript /\ ~skipped
    => (FilesOK /\ Frontier)'
<1> SUFFICES ASSUME TypesOK, ProcessOK, FilesOK, Built, Frontier, NextScript, ~skipped
             PROVE  (FilesOK /\ Frontier)'
  OBVIOUS
<1>1. /\ UNCHANGED <<chain, file, entry, skipped>> /\ ~running' /\ running /\ todo = {}
      /\ script # 0 /\ script \in 1..14 /\ Mark = script
  BY LastScripts DEF NextScript, NoProcess, TypesOK, Mark
<1>2. Mark' = script + 1
  <2>1. CASE script = LastScript
    BY <1>1, <2>1 DEF NextScript, Mark, LastScript
  <2>2. CASE script # LastScript
    <3>1. script' = script + 1 /\ script' # 0 /\ ~skipped'
      BY <1>1, <2>2 DEF NextScript
    <3> QED
      BY <3>1 DEF Mark
  <2> QED
    BY <2>1, <2>2
<1>3. file[PhaseOf(script)] = "ok"
  BY <1>1 DEF FilesOK
<1>4. \A p \in Phases : /\ file'[p] = "missing" => Mark' <= SetupOf(p)
                        /\ file'[p] = "torn" => Mark' <= LastOf(p)
  <2> TAKE p \in Phases
  <2>1. /\ SetupOf(p) \in Nat /\ LastOf(p) \in Nat
        /\ PhaseOf(SetupOf(p)) = p /\ PhaseOf(LastOf(p)) = p
    BY PhaseFacts
  <2>2. /\ file[p] = "missing" => script <= SetupOf(p)
        /\ file[p] = "torn" => script <= LastOf(p)
    BY <1>1 DEF FilesOK
  <2>3. /\ file[p] = "missing" => script # SetupOf(p)
        /\ file[p] = "torn" => script # LastOf(p)
    BY <1>3, <2>1
  <2> QED
    BY <1>1, <1>2, <2>1, <2>2, <2>3
<1>5. FilesOK'
  BY <1>1, <1>4 DEF FilesOK
<1>6. ASSUME NEW s \in 1..14, Behind(s)', NEW e \in EntriesOf(s)
      PROVE  Named(e)'
  <2>1. s < script + 1 /\ file[PhaseOf(s)] = "ok"
    BY <1>1, <1>2, <1>6 DEF Behind
  <2>2. Named(e)
    <3>1. CASE s = script
      BY <1>1, <1>6, <3>1, ThroughNamed
    <3>2. CASE s < script
      BY <1>1, <1>6, <2>1, <3>2 DEF Frontier
    <3> QED
      BY <1>1, <2>1, <3>1, <3>2
  <2> QED
    BY <1>1, <2>2 DEF Named, IsNamed
<1>7. Frontier'
  BY <1>6 DEF Frontier, Behind
<1> QED
  BY <1>5, <1>7

(***************************************************************************)
(* Every step preserves the invariant                                      *)
(***************************************************************************)

\* A process that is not there has nothing to show.
LEMMA IdleIInv ==
  (TypesOK /\ NothingStale)' /\ ChainOK' /\ (FilesOK /\ Frontier)' /\ ~running' => IInv'
<1> SUFFICES ASSUME (TypesOK /\ NothingStale)', ChainOK', (FilesOK /\ Frontier)', ~running'
             PROVE  IInv'
  OBVIOUS
<1>1. ProcessOK' /\ Built'
  BY DEF ProcessOK, Built
<1> QED
  BY <1>1 DEF IInv

LEMMA BeginIInv == IInv /\ Begin => IInv'
<1> SUFFICES ASSUME IInv, Begin PROVE IInv'
  OBVIOUS
<1>1. ChainOK'
  BY SameChain DEF IInv, Begin
<1> QED
  BY <1>1, BeginTypes, BeginProcess, BeginFiles DEF IInv

LEMMA FailedIInv ==
  IInv /\ script # 0 /\ Fail /\ UNCHANGED <<chain, file, entry>> /\ mishaps' \in 0..MaxMishaps
    => IInv'
<1> SUFFICES ASSUME IInv, script # 0, Fail, UNCHANGED <<chain, file, entry>>,
                    mishaps' \in 0..MaxMishaps
             PROVE  IInv'
  OBVIOUS
<1>1. (TypesOK /\ NothingStale)'
  BY FailedTypes DEF IInv
<1>2. ChainOK' /\ (FilesOK /\ Frontier)'
  BY SameChain, FailedFiles DEF IInv
<1>3. ~running'
  BY DEF Fail, NoProcess
<1> QED
  BY <1>1, <1>2, <1>3, IdleIInv

LEMMA DeployIInv == IInv /\ DeployContract => IInv'
<1> SUFFICES ASSUME IInv, DeployContract PROVE IInv'
  OBVIOUS
<1>1. PICK c : IsNew(c, Now.what) /\ chain' = chain \cup {c}
  BY DeployIs DEF IInv
<1>2. ChainOK'
  BY <1>1, AddedContract DEF IInv
<1>3. (FilesOK /\ Frontier)'
  <2>1. Advance /\ Now.do # "write" /\ UNCHANGED <<file, entry, skipped, resume>>
    BY DEF Advance, DeployContract, Doing
  <2> QED
    BY <1>1, <2>1, WorkFiles DEF IInv
<1>4. (TypesOK /\ NothingStale)' /\ ProcessOK' /\ Built'
  BY DeployTypes, DeployProcess, DeployBuilt DEF IInv
<1> QED
  BY <1>2, <1>3, <1>4 DEF IInv

LEMMA RecordIInv == IInv /\ RecordAddress => IInv'
<1> SUFFICES ASSUME IInv, RecordAddress PROVE IInv'
  OBVIOUS
<1>1. ChainOK'
  BY SameChain DEF IInv, RecordAddress
<1>2. (FilesOK /\ Frontier)'
  <2>1. /\ Advance /\ Now.do # "write" /\ chain \subseteq chain'
        /\ UNCHANGED <<file, entry, skipped, resume>>
    BY DEF Advance, RecordAddress, Doing
  <2> QED
    BY <2>1, WorkFiles DEF IInv
<1>3. (TypesOK /\ NothingStale)' /\ ProcessOK' /\ Built'
  BY RecordTypes, RecordProcess, RecordBuilt DEF IInv
<1> QED
  BY <1>1, <1>2, <1>3 DEF IInv

LEMMA WriteIInv == IInv /\ WriteFile => IInv'
<1> SUFFICES ASSUME IInv, WriteFile PROVE IInv'
  OBVIOUS
<1>1. ChainOK'
  BY SameChain DEF IInv, WriteFile
<1>2. (TypesOK /\ NothingStale)' /\ ProcessOK' /\ Built' /\ (FilesOK /\ Frontier)'
  BY WriteTypes, WriteProcess, WriteBuilt, WriteFiles DEF IInv
<1> QED
  BY <1>1, <1>2 DEF IInv

LEMMA NextScriptIInv == IInv /\ NextScript => IInv'
<1> SUFFICES ASSUME IInv, NextScript PROVE IInv'
  OBVIOUS
<1>1. ChainOK' /\ ~running'
  BY SameChain DEF IInv, NextScript, NoProcess
<1>2. (FilesOK /\ Frontier)'
  BY SkippedFiles, ThroughFiles DEF IInv
<1>3. (TypesOK /\ NothingStale)'
  BY NextScriptTypes DEF IInv
<1> QED
  BY <1>1, <1>2, <1>3, IdleIInv

LEMMA StartIInv ==
  ASSUME IInv, NEW s \in 1..LastScript, Start(s), mishaps' \in 0..MaxMishaps
  PROVE  IInv'
<1>1. ChainOK' /\ ~running'
  BY SameChain DEF IInv, Start, process, TypesOK
<1>2. (FilesOK /\ Frontier)'
  BY StartFiles DEF IInv
<1>3. (TypesOK /\ NothingStale)'
  BY StartTypes DEF IInv
<1> QED
  BY <1>1, <1>2, <1>3, IdleIInv

LEMMA CrashIInv == IInv /\ Crash => IInv'
<1> SUFFICES ASSUME IInv, Crash PROVE IInv'
  OBVIOUS
<1>1. ChainOK' /\ ~running'
  BY SameChain DEF IInv, Crash, Fail, NoProcess
<1>2. (TypesOK /\ NothingStale)' /\ (FilesOK /\ Frontier)'
  BY CrashTypes, CrashFiles DEF IInv
<1> QED
  BY <1>1, <1>2, IdleIInv

LEMMA DeleteIInv ==
  ASSUME IInv, NEW p \in Phases, Delete(p)
  PROVE  IInv'
<1>1. ChainOK' /\ ~running'
  BY SameChain DEF IInv, Delete, process, TypesOK
<1>2. (FilesOK /\ Frontier)'
  BY DeleteFiles DEF IInv
<1>3. (TypesOK /\ NothingStale)'
  BY DeleteTypes DEF IInv
<1> QED
  BY <1>1, <1>2, <1>3, IdleIInv

LEMMA RestartIInv == IInv /\ Restart => IInv'
<1> SUFFICES ASSUME IInv, Restart PROVE IInv'
  OBVIOUS
<1>1. ~running'
  BY DEF IInv, Restart, process, TypesOK
<1>2. (TypesOK /\ NothingStale)' /\ ChainOK' /\ (FilesOK /\ Frontier)'
  BY RestartTypes, RestartFiles DEF IInv
<1> QED
  BY <1>1, <1>2, IdleIInv

\* Only the count of mishaps changes, if anything.
Only == UNCHANGED <<network, phase3, chain, file, entry, script, process, resume, skipped>>
LEMMA OnlyIInv == IInv /\ Only /\ mishaps' \in 0..MaxMishaps => IInv'
<1> SUFFICES ASSUME IInv, Only, mishaps' \in 0..MaxMishaps PROVE IInv'
  OBVIOUS
<1>1. /\ UNCHANGED <<network, phase3, chain, file, entry, script, resume, skipped>>
      /\ UNCHANGED <<running, todo, local, recorded>>
  BY DEF Only, process
<1>2. LastScript' = LastScript /\ Finished' = Finished /\ Mark' = Mark
  BY <1>1 DEF LastScript, Finished, Mark
<1>3. /\ \A e : Lookup(e)' = Lookup(e) /\ Written(e)' = Written(e)
      /\ \A k : Created(k)' = Created(k)
  BY <1>1 DEF Lookup, Written, Created
<1>4. (TypesOK /\ NothingStale)'
  BY <1>1, <1>2 DEF IInv, TypesOK, NothingStale
<1>5. ChainOK' /\ ProcessOK'
  BY <1>1, <1>2, <1>3 DEF IInv, ChainOK, ProcessOK
<1>6. FilesOK' /\ Frontier'
  BY <1>1, <1>2 DEF IInv, FilesOK, Frontier, Named, IsNamed
<1>7. Built'
  BY <1>1, <1>2, <1>3 DEF IInv, Built, IsBuilt
<1> QED
  BY <1>4, <1>5, <1>6, <1>7 DEF IInv

LEMMA NextIInv == IInv /\ [Next]_vars => IInv'
<1> SUFFICES ASSUME IInv, [Next]_vars PROVE IInv'
  OBVIOUS
<1>1. mishaps \in 0..MaxMishaps /\ (Mishap => mishaps' \in 0..MaxMishaps)
  BY MishapIs DEF IInv, TypesOK
<1>2. CASE Begin
  BY <1>2, BeginIInv
<1>3. CASE Refuse
  BY <1>1, <1>3, FailedIInv DEF Refuse
<1>4. CASE DeployContract
  BY <1>4, DeployIInv
<1>5. CASE Throw
  <2>1. script # 0
    BY <1>5 DEF Throw, Doing, IInv, TypesOK
  <2> QED
    BY <1>1, <1>5, <2>1, FailedIInv DEF Throw
<1>6. CASE RecordAddress
  BY <1>6, RecordIInv
<1>7. CASE WriteFile
  BY <1>7, WriteIInv
<1>8. CASE NextScript
  BY <1>8, NextScriptIInv
<1>9. CASE PickUp
  <2>1. Start(resume) /\ resume \in 1..LastScript /\ mishaps' \in 0..MaxMishaps
    BY <1>1, <1>9 DEF PickUp, Start
  <2> QED
    BY <2>1, StartIInv
<1>10. CASE Detour
  BY <1>1, <1>10, StartIInv DEF Detour
<1>11. CASE Crash
  BY <1>11, CrashIInv
<1>12. CASE Restart
  BY <1>12, RestartIInv
<1>13. CASE \E p \in Phases : Delete(p)
  BY <1>13, DeleteIInv
<1>14. CASE UNCHANGED vars
  BY <1>1, <1>14, OnlyIInv DEF vars, Only
<1> QED
  BY <1>2, <1>3, <1>4, <1>5, <1>6, <1>7, <1>8, <1>9, <1>10, <1>11, <1>12, <1>13, <1>14
     DEF Next, Step

\* Verifying leaves the deployment alone, but for mishaps.
LEMMA VNextIInv == IInv /\ [VNext]_allVars => IInv'
<1> SUFFICES ASSUME IInv, [VNext]_allVars PROVE IInv'
  OBVIOUS
<1>1. mishaps \in 0..MaxMishaps /\ (Mishap => mishaps' \in 0..MaxMishaps)
  BY MishapIs DEF IInv, TypesOK
<1>2. CASE DeploymentNext
  BY <1>2, NextIInv DEF DeploymentNext
<1>3. CASE VerifyEarly \/ APIFails
  BY <1>1, <1>3, OnlyIInv DEF VerifyEarly, APIFails, Only
<1>4. CASE VerifyDone \/ VStep
  <2>1. UNCHANGED vars
    BY <1>4 DEF VerifyDone, VStep, BeginVScript, VerifyContract, NextVScript
  <2> QED
    BY <2>1, NextIInv
<1>5. CASE UNCHANGED allVars
  BY <1>5, NextIInv DEF allVars
<1> QED
  BY <1>2, <1>3, <1>4, <1>5 DEF VNext

(***************************************************************************)
(* The theorems                                                            *)
(***************************************************************************)

LEMMA IInvTypes == IInv => TypeOK
<1> SUFFICES ASSUME IInv PROVE TypeOK
  OBVIOUS
<1>1. \A e \in DOMAIN entry : file[FileOf(e)] /= "ok" => entry[e] = NoAddress
  BY DEF IInv, TypesOK, NothingStale
<1>2. \A c, d \in chain : c.at = d.at => c = d
  BY DEF IInv, ChainOK
<1> QED
  BY <1>1, <1>2 DEF TypeOK, IInv, TypesOK

LEMMA IInvCoherent == IInv => Coherent
<1> SUFFICES ASSUME IInv, Done, NEW e \in (Recorded \cap Wanted) \ StaticTokens
             PROVE  \E c \in chain :
                      /\ c.at = entry[e] /\ c.kind = KindOf(e) /\ c.ok
                      /\ \A d \in DOMAIN c.args \ StaticTokens : c.args[d] = entry[d]
  BY DEF Coherent
<1>1. Mark = LastScript + 1 /\ LastScript = IF phase3 THEN 14 ELSE 11
  BY DEF Done, Mark, LastScript
<1>2. e \in Entries \cap Wanted /\ (~phase3 => e \notin RTokenEntries)
  BY DEF Recorded
<1>3. PICK s \in 1..14 : e \in EntriesOf(s) /\ (e \notin RTokenEntries => s <= 11)
  BY <1>2, Covered
<1>4. s < Mark
  BY <1>1, <1>2, <1>3
<1>5. file[PhaseOf(s)] = "ok"
  <2>0. /\ PhaseOf(s) \in Phases /\ SetupOf(PhaseOf(s)) \in 1..14 /\ LastOf(PhaseOf(s)) \in 1..14
        /\ SetupOf(PhaseOf(s)) < LastOf(PhaseOf(s))
    BY PhaseOrder
  <2>1. LastOf(PhaseOf(s)) < Mark
    <3>1. CASE phase3
      BY <1>1, <2>0, <3>1
    <3>2. CASE ~phase3
      <4>1. s <= 11
        BY <1>2, <1>3, <3>2
      <4>2. PhaseOf(s) = "phase1" \/ PhaseOf(s) = "phase2"
        BY <4>1, PhaseFacts
      <4>3. LastOf(PhaseOf(s)) <= 11
        BY <4>2, PhaseFacts
      <4> QED
        BY <1>1, <2>0, <3>2, <4>3
    <3> QED
      BY <3>1, <3>2
  <2>2. file[PhaseOf(s)] # "missing" /\ file[PhaseOf(s)] # "torn"
    BY <1>1, <2>0, <2>1 DEF IInv, FilesOK
  <2> QED
    BY <2>0, <2>2 DEF IInv, TypesOK
<1>6. PICK c \in chain : IsNamed(c, e)
  BY <1>3, <1>4, <1>5 DEF IInv, Frontier, Named
<1>7. DOMAIN c.args = Links(KindOf(e))
  BY <1>6 DEF IInv, ChainOK, IsNamed
<1> QED
  BY <1>6, <1>7 DEF IsNamed

\* The types, and that every contract has an address of its own, through every order
\* of scripts, crashes, restarts, detours and verification runs (deploy.ts,
\* verify_etherscan.ts).
THEOREM DeploymentTypeCorrect == VSpec => []TypeOK
<1>1. VInit => IInv
  BY InitIInv DEF VInit
<1> QED
  BY <1>1, VNextIInv, IInvTypes, PTL DEF VSpec

\* Once the scripts have run from where they stopped, whatever had crashed, had been
\* redone or forgotten before, every entry of the files names a contract of its kind,
\* built on the contracts that the files name today.
THEOREM DeploymentCoherent == VSpec => []Coherent
<1>1. VInit => IInv
  BY InitIInv DEF VInit
<1> QED
  BY <1>1, VNextIInv, IInvCoherent, PTL DEF VSpec
==============================================================================

------------------------------ MODULE MCBasket -------------------------------
(* Small instances of Basket for TLC. *)
EXTENDS Basket, TLC

CONSTANTS t1, t2, t3, usd, eur, p1, p2, p3, q1

\* Three collaterals with one target unit, and for the first token one more,
\* with another.
MCErc20 == p1 :> t1 @@ p2 :> t2 @@ p3 :> t3 @@ q1 :> t1
MCTargetName == p1 :> usd @@ p2 :> usd @@ p3 :> usd @@ q1 :> eur
MCTargetPerRef == p1 :> 3 @@ p2 :> 2 @@ p3 :> 2 @@ q1 :> 2
MCDelay == [p \in Plugins |-> 2]

MCPrimeBaskets == {t1 :> 3 @@ t2 :> 2 @@ t3 :> 0}
MCBackupConfigs == {[max |-> 2, erc20s |-> <<t2, t3>>]}

\* The feeds are fine, the first collateral is off or broken, or the second is.
MCFeeds ==
  {[p \in Plugins |-> IF p = off[1] THEN off[2] ELSE "SOUND"] :
     off \in {<<None, "SOUND">>, <<p1, "IFFY">>, <<p1, "DISABLED">>,
             <<p2, "DISABLED">>}}
=============================================================================

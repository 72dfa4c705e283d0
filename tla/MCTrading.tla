------------------------------ MODULE MCTrading ------------------------------
(* A small instance of Trading for TLC. *)
EXTENDS Trading, TLC

CONSTANTS a, b

\* The RToken is backed by a; the public has some of everything, stakers RSR.
MCBalances ==
  [x \in Accounts |->
     CASE x = "backingManager" -> a :> 2 @@ b :> 0 @@ "rsr" :> 0 @@ "rToken" :> 0
       [] x = "public" -> a :> 1 @@ b :> 2 @@ "rsr" :> 1 @@ "rToken" :> 2
       [] x = "stRSR" -> a :> 0 @@ b :> 0 @@ "rsr" :> 2 @@ "rToken" :> 0
       [] OTHER -> [t \in Tokens |-> 0]]

\* All revenue goes to the furnace, or all to two others, in halves.
Shares(rTokenDist, rsrDist) == [rTokenDist |-> rTokenDist, rsrDist |-> rsrDist]
MCDistribution ==
  "furnace" :> Shares(1, 0) @@ "stRSR" :> Shares(0, 0) @@ "other" :> Shares(0, 0)
MCDistributions ==
  {"furnace" :> Shares(0, 0) @@ "stRSR" :> Shares(0, 1) @@ "other" :> Shares(0, 1)}

\* Lists without and with duplicates.
MCLists == {<<a, b, "rsr", "rToken">>, <<a, a>>}
=============================================================================

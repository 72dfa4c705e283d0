----------------------------- MODULE Distributor -----------------------------
(***************************************************************************)
(* The distribution of revenue, p1/Distributor.sol: a table from           *)
(* destinations to shares of the RToken and of the RSR revenue.  The table *)
(* is an argument here; Trading keeps it.  An account that is no           *)
(* destination has no shares.                                              *)
(***************************************************************************)
EXTENDS Integers, Functions

CONSTANT MaxShare  \* the most shares of one kind a destination may have, 10000

Destinations == {"furnace", "stRSR", "other"}
Share == [rTokenDist : 0..MaxShare, rsrDist : 0..MaxShare]

\* Shares of dest in the revenue that comes in tokens t.
SharesOf(dist, dest, t) == IF t = "rsr" THEN dist[dest].rsrDist ELSE dist[dest].rTokenDist

\* totals()
TotalShares(dist, t) ==
  SumFunction([dest \in DOMAIN dist |-> SharesOf(dist, dest, t)])

\* _setDistribution() and _ensureNonZeroDistribution(), with the new table.
CanSetDistribution(dist) ==
  /\ dist["furnace"].rsrDist = 0 /\ dist["stRSR"].rTokenDist = 0
  /\ \A dest \in DOMAIN dist : dist[dest] \in Share
  /\ TotalShares(dist, "rToken") > 0 \/ TotalShares(dist, "rsr") > 0

\* What distribute() sends to dest: whole tokens per share.
RevenueOf(dist, dest, t, amount) ==
  (amount \div TotalShares(dist, t)) * SharesOf(dist, dest, t)
=============================================================================

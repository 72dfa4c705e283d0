# A TLA+ model of the Reserve Protocol

This directory models the core of the protocol in `contracts/` (version P1, the
contracts that are deployed) and the scripts that deploy and verify it in TLA+,
model-checks them with TLC on small instances, and proves the most important
invariants with TLAPS for all values of the constants. Paths below are relative to the repository.

## 1. The system

An **RToken** is an ERC20 backed by a basket of collateral tokens. Stakers of
**RSR** insure it: revenue raises the value of their stake, and when collateral
defaults their RSR is seized and sold. One instance consists of the components
below. Each is a contract behind a proxy; every external call is a transaction
that runs to its end or reverts, so that concurrency is the order in which
transactions of different accounts arrive, and failure is a revert.

| component | state | operations | modelled by |
|---|---|---|---|
| Auth (`mixins/Auth.sol`), part of Main | roles, charges, `unfreezeAt`, durations, `paused` | grant, revoke, freeze short, long, for ever, unfreeze, pause | `Auth` |
| Main (`p1/Main.sol`) | addresses of the components | `poke` | `hasRole` in `Auth` |
| StRSR (`p1/StRSR.sol`) | per era: stakes, drafts; the two pools, their rates; rewards | stake, unstake, withdraw, payout, seize | `StRSR` |
| StRSRVotes (`p1/StRSRVotes.sol`) | checkpoints of balances and delegations per era | delegate, hooks of mint, burn and transfer | planned |
| RToken (`p1/RToken.sol`) | supply, `basketsNeeded`, queues of issuances, liabilities, issuance rate | issue, vest, cancel, redeem, mint, melt, setBasketsNeeded | `RToken` |
| RedemptionBattery (`libraries/`) | last block and charge | discharge | `RedemptionBattery` |
| RToken of P0 (`p0/RToken.sol`) | lists of single issuances | as P1 | `IssuanceTickets` |
| Fixed (`libraries/Fixed.sol`) | none | arithmetic of D18 numbers | `FixedPoint` |
| BasketHandler (`p1/`) | prime basket, backup configuration, reference basket, nonce, `disabled` | set prime and backup, refresh, disable | `Basket`; environment of `RToken` |
| AssetRegistry (`p1/`) | registered assets | register, swap, unregister, refresh | `Basket` |
| Collateral (`plugins/assets/`) | status, `whenDefault` | refresh | `Collateral` |
| BackingManager (`p1/`) | open trades, `tradingDelay`, `backingBuffer` | manage tokens: hand out excess, sell surplus or seized RSR, compromise | `Trading`; environment of `StRSR`, `RToken` |
| RecollateralizationLib, TradeLib (`p1/mixins/`) | none | choice and size of a trade | the choice in `Trading`; the size is any that balances allow |
| RevenueTrader (`p1/`), two of them | open trades | manage token | `Trading` |
| Broker (`p1/`), GnosisTrade (`plugins/trading/`) | `disabled`; a trade's state | open, settle, report a violation | `Trading` |
| Distributor, Furnace (`p1/`) | revenue table; last payout | distribute; melt | `Distributor`, `Trading`; effects on `StRSR`, `RToken` |
| Governance (`plugins/governance/`) | era of each proposal | propose, queue, execute, cancel | planned |
| Deployer (`p1/`), FacadeWrite (`facade/`) | ownership of what is set up | deploy an RToken, set up its governance | as the scripts use them, in `Deployment` |
| `scripts/deploy.ts`, `scripts/deployment/`, `tasks/deployment/` | three JSON files of addresses | one script after the other, in three phases | `Deployment` |
| `scripts/confirm.ts`, `scripts/verify_etherscan.ts` and theirs | what Etherscan has verified | confirm, verify | `Verification` |
| FacadeRead, FacadeAct, other `tasks/` | none that the protocol reads | views, bundles of calls | not modelled |
| `plugins/aave`, `plugins/mocks`, `vendor`, EasyAuction | | third-party code and stand-ins | the auction, as an external contract, in `Trading` |

**How they interact.** The backing manager holds the collateral. `issue()`
transfers collateral from the issuer, straight to the backing manager or, when the
issuance has to wait, into the escrow of the RToken; `vest()` moves it on;
`redeem()` takes it out of the backing manager. The furnace melts RToken, the
backing manager mints it out of excess collateral and lowers or raises
`basketsNeeded`. When the RToken is undercollateralized the backing manager trades
through the broker, and at last calls `StRSR.seizeRSR()`. Revenue traders turn
other assets into RSR and RToken, which the distributor sends to the StRSR and
the furnace. Every component asks Main whether it is paused or frozen, and most
ask the basket handler for its status before they do anything irrevocable.

The deployment scripts are processes that `deploy.ts` runs in turn. Each reads the
addresses that earlier ones left in a JSON file, checks some of them, sends
transactions, and writes addresses of its own. Nothing is atomic there: a process
may die between a transaction and the line that records it, or while it writes.

**What is hard.** In the contracts there are no threads and no messages. What goes
wrong there goes wrong over *sequences* of legal calls by several parties, at the *boundary values*
of rounded arithmetic, with *values kept from an earlier transaction* (the rewards
at the last payout, the deposits of an issuance, the rate of a block, a queue
bought for an older basket), when a handler *returns early* halfway through its
writes, and when the passage of time races the calls (delays, freezes, windows, auctions
that anyone may settle). The scripts add crashes, files that lag behind the chain or
survive it, and retries of what may be done already.
`PROJECT.json` lists these hazards line by line, with the properties that cover
them; those without a property say why.

**What makes each component correct.**

- *Auth*: long freezers have charges; freezes are not added up; without the owner
  the system thaws.
- *StRSR*: the pools never exceed the RSR held; each pool covers its shares at its
  rate and no rounded subtraction reverts; balances add up to totals across eras;
  only a seizure lowers the value of a share; a seizure is exact and uniform;
  drafts leave in order, never early, and in the end.
- *RToken*: liabilities are exactly what is owed to issuers; nothing vests for a
  basket it was not bought for; issuance and redemption keep to their rates;
  no operation makes a collateralized RToken undercollateralized; a redemption is
  fair to those who stay.
- *Basket (registry, collateral, handler)*: a default is final and never
  postponed; a status that is not SOUND stops issuance; a refreshed basket
  consists of registered, sound collateral with the target weights of the
  configuration.
- *Trading*: every trade ends; a fully backed RToken stays so until the basket is
  switched, and only a shortage with no trade open costs holders a haircut; the
  counters count the trades; after a sale below its worst price no other begins.
- *Revenue*: no token is lost or paid twice, whoever settles an auction and however
  shares divide; the furnace melts no more than it has.
- *Deployment*: whatever crashed or was redone, the entries of the files name
  contracts of their kinds that were built on each other, and an operator who picks
  up where a script failed gets to the end.
- *Verification*: what can be verified is, in the end.
- *Votes*: checkpoints of one era never count in another; votes add up to the
  stakes that are delegated.

## 2. The modules

| module | role |
|---|---|
| `FixedPoint` | rounding up and to the nearest, `powu`, for an arbitrary denominator |
| `ArithmeticProofs` | what the proofs know of quotients, of `powu` and of sums over finite sets |
| `Auth`, `MCAuth`, `AuthProofs` | roles, freezing and pausing; its instance; proofs |
| `StRSR`, `MCStRSR`, `StRSRProofs` | the staking pool; its instance; proofs |
| `RedemptionBattery` | the redemption throttle, as functions on a record |
| `RToken`, `MCRToken`, `RTokenProofs` | issuance, redemption and supply; its instances; proofs |
| `Collateral` | the default of one plugin, as functions of its deadline |
| `Basket`, `MCBasket`, `BasketProofs` | registry, plugins and basket handler; its instance; proofs |
| `Distributor` | the revenue table and its shares, as functions |
| `Trading`, `MCTrading`, `TradingProofs` | backing manager, revenue traders, broker, auctions, furnace; its instance; proofs |
| `Deployment` | the deployment scripts, their files and the chain |
| `Verification`, `MCDeployment`, `DeploymentProofs` | confirmation and verification on top of `Deployment`; their instance; proofs |
| `IssuanceTickets` | abstract specification of slow issuance, from `p0/RToken.sol` |
| `RTokenRefinement` | proof that `RToken` implements it |

**Correspondence.** A variable has the name of the field it stands for, an action
the name of the function, and one action is one transaction: it includes the
calls the function makes to the same component and their writes. A `require` is a
conjunct; a checked subtraction that would revert is a guard, and where the
question is whether it can revert there is a property that says it cannot.
`PROJECT.json` maps every definition to its lines. A comment beginning with
*Mutation* marks a definition that no specification uses: it is a plausible bug
in the definition after it, and a property it must violate is listed under
`mutants`.

**`Auth`.** Variables `roles`, `longFreezes`, `unfreezeAt`, `shortFreeze`,
`longFreeze`, `paused`, and time. `revokeRole()` and `renounceRole()` are those of
OpenZeppelin's AccessControl and are modelled from how the contract uses it.

**`StRSR`.** Mappings by era are reduced to the current era, whose number only
grows: no entry of an older era is ever read again. `seizeRSR()` is one action
whose parts (`SeizeStakes`, `SeizeDrafts`, `BeginEra`, `BeginDraftEra`) carry the
names of what they do. `powu` is the code's repeated squaring, as a recursive
function. The state of main and of the basket are environment.
`MAX_RATE` is both `MAX_STAKE_RATE` and `MAX_DRAFT_RATE`, which are equal.

**`RToken`.** A queue is `[basketNonce, left, items]`: `right` is the number of
items, since slots at and beyond it are overwritten before they are read; the
`tokens` of a queue are those of the basket with its nonce. `refundSpan()` and
`vestUpTo()` share `Span` (what was issued between two fenceposts) and
`WithoutSpan` (how the indices move). `furnace.melt()`, which `issue()` and
`redeem()` call, melts any amount of a set that leaves a valid rate. Holders'
balances are left to ERC20: any amount up to the supply may be redeemed or melted.
`claimRewards()` and donations are arrivals of tokens. The collateral in the
backing manager is changed by issuance, vesting, redemption and sweeps as the code
does, and by trades to any balance of a set. Three *history variables* record what
was issued in the block and what was redeemed since a block; nothing reads them
but properties.

**`IssuanceTickets`.** What P0 says of slow issuance: lists of tickets, each with
its time, its baskets and its deposit. The list of an account is processed from
its front, can be cancelled from either end, and is refunded when its basket is
gone. It permits what both P0 and P1 do: where P0 may vest a ticket in the issuing
transaction so may P1, and the time at which a ticket becomes available is only
required to grow along the list. `RToken!ImplementsTickets` is the refinement, with
`PendingTickets` reading the tickets off the fenceposts.

**`Basket`.** Registry, plugins and handler in one module, since every operation of
the one calls the other: `refreshBasket()` refreshes all plugins first and then
reads their statuses, `swapRegistered()` and `unregister()` disable the basket.
A basket is a function from tokens to amounts; nobody depends on the order of its
array. The whole state of a plugin is its deadline (`Collateral`), and what the
price feeds and external protocols make of it is the input of each refresh: in the
base class a plugin is SOUND or IFFY, in others DISABLED at once when its
`refPerTok()` falls. A refresh that reverts (an oracle out of gas or without data)
is a refresh that does not happen. `refPerTok()` is positive, and the tokens of the
system, which the handler refuses, are not among the tokens. `Prime` and `Unsound`
replace the index arithmetic over `targetNames`, `totalWeights` and `goodWeights`:
more weight is needed for a target exactly if prime collateral of it is not good,
as amounts are positive. For the same reason the new basket is empty, when there
are backups for all that is needed, only if no prime basket was set.
`builtWith` is a history variable.

**`Trading`.** One module, since the backing manager and the revenue traders share
the broker and the tokens move from one to the next. Balances are those of the
three traders, the destinations of revenue, and one account "public" for everybody
else; what a trade holds is in its record. A trade is `open` until its auction is
settled, by anyone (`SettleAuction`) or by `settle()` itself (`Proceeds`), and gone
after `settleTrade()`. A settlement gives any part of what was sold for any
amount that bidders have (`Outcomes`): they *should* pay the minimum, but the
protocol does not rely on it. Prices are one for one where the code multiplies
with them, and are otherwise a choice: the range of baskets that
`basketRange()` computes, which surplus is enough to sell, and how much of it is
sold, are anything the conditions on balances leave; the order (DISABLED collateral
first, IFFY last, RSR when nothing else is left, and at last a haircut) is the code's.
The statuses of the collateral are an input of each call, which the refresh at the
start of `manageTokens()` makes them. A basket has one unit of each of its tokens. A
seizure brings what is asked for (`StRSR` models its rounding). Issuance and redemption
are left to `RToken`, so that supply and `basketsNeeded` change by hand-outs,
haircuts and melting alone. RSR sent to the RToken trader on purpose, which the
trader would sell, is left out. `violated` is a history variable: it uses a more
forgiving notion of a shortfall (`FallsShort`) than the code's own test.

**`Deployment`.** An address is `<<creator, nonce>>`, as CREATE computes it, so that
a restarted fork puts other contracts at the addresses that the files remember. A
script is a set of elementary steps, each with its turn: deploy a contract, record its
address in the script's copy of the file, write the copy; `Now` is the one whose turn it
is. The turns follow the scripts, whose order of the three differs: the first collateral is
written before it is recorded. The conditions
at the top of a script are its `...Ready`. `Crash` ends a process between any two
steps, with the file torn if it was about to be written; `Restart` loses the chain of
a fork and keeps the files; `Delete` and `Detour` are an operator who removes a
file, or runs the scripts from somewhere else. `resume` and `skipped` are history: where
an operator has to go on, which is what the scripts' messages say, except where a script
refuses for good (`PickUpAt`). There is one operator, and the configuration in
`common/configuration.ts` and the contracts of others that it names are taken to be
right.

**`Verification`.** Etherscan accepts the arguments a contract was built with and
rejects others; what it has once it keeps. `verifyContract()` catches a rejection
and goes on; the API out of reach, or a missing file, ends the run. Verification
happens on the live chain, restarts on the fork.

## 3. The runs

| run | what it asks | size |
|---|---|---|
| `StRSR_safety` | accounting of the pools: two stakers, seizures and new eras | 642 thousand states |
| `StRSR_queue` | order, timing and liveness of drafts under changing delays, pauses, defaults: one staker | 569 thousand states |
| `StRSR_payout` | *finding*: a payout may exceed the rewards | violation |
| `StRSR_drafts` | *finding*: drafts stay in the total without an owner | violation |
| `StRSR_empty` | *finding*: stake RSR without stakes | violation |
| `RToken_queue` | queues: refinement, liabilities, issuance rate, across a basket switch | 12 thousand states |
| `RToken_redeem` | redemption, rates and collateralization | 578 thousand states |
| `Auth_freeze` | freezes by several freezers run out | 288 thousand states |
| `Basket_refresh` | defaults, make-up of new baskets, recovery | 42 thousand states |
| `Trading_auctions` | backing, conservation of tokens, violations, end of trades | 259 thousand states |
| `Deployment_resume` | crashes, restarts and retries of deployment and verification | 627 thousand states |
| `Basket_swap` | *finding*: a swap may leave the basket enabled with other collateral | violation |

### Bounds, and why they are enough

*Scale.* `FIX_ONE` stands for 1e18 and is between 2 and 4, and rates and amounts
are of its order. That is deliberate: at this scale almost every quotient
rounds, where at the real scale almost none does visibly, so that an error in the
direction of a rounding shows within a few steps. Rates still have room to leave 1
(`MAX_RATE` is three times `FIX_ONE`, the range of BU rates 1 to 4 or 6 for 3).

*`StRSR`.* `MaxRSR` 4 lets both pools and the rewards be positive at once, and be
seized separately or together. `MaxEra` 2 lets each pool be wiped out once with
the other intact and once more with both; an era's number is never compared.
`MaxDrafts` 1 suffices for the sums; order within a queue is the subject of
`StRSR_queue`, which has two drafts, two delays, two periods and both states of
main and basket. `MaxTime` 3 and 4 cover a delay of 2 or 4 with payouts before and
after it. Two accounts are the least for which one could dilute another; they are
interchangeable, hence the symmetry.

*`RToken_queue`.* Two issuers compete for the rate; a queue of two items has a
first, a last and a middle fencepost; the switch from basket 1 to basket 2 changes
its token, so that a refund in the wrong token would show; three blocks at a
minimum rate of two let issuances fit, wait, and become ready. Redemption,
minting and melting are off here; they are the subject of the next run.

*`RToken_redeem`.* One issuer, as holders are interchangeable in a redemption. The
quantity of a basket unit is 3 or 4 (of 3), so that it appreciates once and quotes
round; trades may end in a balance of 1, which makes the RToken
undercollateralized; the battery has a floor of 2 and a scaling rate of 0 or 2;
the window starts in the last block but one, so that charge from before it counts.

*`Auth_freeze`.* Two charges instead of six; short freezes of 2, long ones of 1
and 3, so that each may end before or after the other; five units of time.

*`Basket_refresh`.* Three tokens are one prime with backup, one that is prime and
backup, and one that is backup only; targetPerRef is 3 or 2 with a scale of 2, so
that weights round. The fourth plugin is a second one for the first token, with
another target unit. Governance may register, swap and unregister both plugins of
the first token; feeds can break the first token (IFFY or DISABLED) or the second
(DISABLED), one after the other, so that one or both backups are gone. A delay of
two and three points in time allow a default in and after its delay and a recovery
before it; two baskets are a first one and a replacement.

*`Trading_auctions`.* Two collaterals, so that a switch from a basket of the first to
one of both makes the RToken lack the second, with a surplus of the first, of what has
arrived (`MaxReceipts` 1), or of nothing, as the range of baskets has it: sales of
surplus and of RSR and haircuts all happen.
Balances of 1 and 2 are the least for which a sale may be partial, for which a sale of
two may fall short by more than the one token that settlement forgives, and for which a
distribution in halves leaves something over. Revenue goes to the furnace, or in halves to
stakers and a third party; the furnace melts all in a period, so that what it last
counted and what it has differ whenever it melts. Delay, auction and period last 1
and `MaxTime` is 2: a trade opens at 0 or 1 and may be settled at once or late, with a
pause, a basket switch or a trade of another trader in between. The buffer is 0 (a
buffer only makes the backing manager keep more); lists of tokens are one with all
tokens and one with a duplicate.

*`Deployment_resume`.* `Wanted` has 18 of the 52 entries, at least one of every shape: each
library that is linked in another way, an implementation with and without links,
the facades and the deployer, an asset, a collateral that is written before it is
recorded (DAI), one with a static token (aDAI), the last of the list (EURT), and the
three of phase 3. Each further entry repeats the steps of one of these. Two mishaps are
enough for a crash during the recovery from a crash, or a restart after a torn file. Both
chains, with and without phase 3, are initial states.

*Deadlock.* `CHECK_DEADLOCK FALSE` everywhere: time, amounts and eras are bounded,
so that behaviours of the instances end, while the system's go on. None of the
contracts has a state from which no call is possible, and blocked calls are what
`NoUnderflow`, `PayoutsPossible` and the liveness properties are about.

*Symmetry* is used only in runs without liveness.

### Fairness

`DraftsGetOut` (StRSR) assumes that time passes (WF of `Tick`) and strong fairness
of an account's `withdraw()`: anyone may call it for any account, and whoever waits
for the RSR goes on calling. Strong, because pauses and defaults disable it again
and again; the property itself is conditional on the system being released and
sound time and again, which nobody guarantees. `AbandonedThaws` (Auth) assumes
only that blocks are mined: nobody has to call anything. `Recovers` (Basket)
assumes time (WF of `Tick`) and that somebody calls `refreshBasket()` as long as it
is possible for anyone to (WF of the permissionless call, under whichever feed):
`FacadeAct.getActCalldata()` offers it to keepers as the first thing to do. It
claims recovery only if from some point on the system is released, every token of
the old basket has a plugin, and the configuration allows a basket. `TradesEnd`
(Trading) assumes that time passes and that somebody calls `settleTrade()` as long as it
is possible (WF; it is permissionless, and keepers are offered it too); it claims an end
only if the system is not paused or frozen from some point on. `Completes` and
`VerifiedInTheEnd` assume that scripts run on (WF of `Step`, `VStep`: a process that is not
killed goes on) and that an operator goes on where `deploy.ts` or the verification
stopped (WF of `GoOn`, `VerifyDone`); mishaps are bounded, so that they end.

### What the passing runs show

*StRSR.* `Solvent`, `RatesCover`, `RatesBounded`, `NoUnderflow`: in every
interleaving the books are backed, and no arithmetic of `stake`, `unstake`,
`pushDraft` and `withdraw` reverts for any amount as long as a payout does not.
`StakesAddUp`, `DraftsCovered`: no balance or queue survives its era.
`NoDilution`: nothing but a seizure lowers the value of a share, rounding
included. `SeizureExact`: "Must seize at least rsrAmount" holds, and the excess is
at most two qRSR, unless a pool is wiped out. `SeizureUniform`: stakes and drafts
keep their proportion to within one qRSR each. `QueuesOrdered`,
`OnlyAvailableDraftsLeave`: `withdraw()` looks at the time of the last draft
alone, and that is enough. `DraftsGetOut`: a draft whose time has come leaves.

*RToken.* `TypeOK` (with `QueuesWellFormed`), `LiabilitiesExact`, `ImplementsTickets`: fenceposts
and indices always represent lists of issuances, and the escrow can refund all of
them at any time. `IssuanceThrottled`: splitting an issuance gains nothing.
`RedemptionThrottled`: over any window at most a full battery and its recharge.
`StaysCollateralized`, `FairRedemption`: rounding favours the protocol and the
holders who stay, also when the RToken is undercollateralized.

*Auth.* `LongFreezersCharged`, `FreezeBounded`; `FreezesRunOut`: the total time for
which the remaining freezers could keep the system frozen grows by the owner's
actions only; `AbandonedThaws`: without the owner it thaws within that time.

*Basket.* `DefaultsInTime`: no order of refreshes postpones a deadline or brings a
defaulted plugin back. `WeightsKept`: a new basket consists of collateral that is
registered and not DISABLED, and has the configured weight for each target unit, to
within one rounding per token as prime and one as backup. `BuiltWithRegistered`: an
enabled basket is priced by the plugins it was computed with, unless those have
defaulted. `TypeOK`: among the rest, a basket without tokens is never enabled.
`Recovers`: a DISABLED basket is replaced without governance.

*Trading.* `TypeOK`: the counters count the trades, and what the furnace will melt a
share of is never more than it has, so that `melt()` does not underflow.
`NothingStrays`: whoever settles an auction first, and however revenue is divided,
the tokens of each kind add up, RToken to its supply; no RSR is sold by the RToken
trader. `BackingKept`: the hand-out never gives away what the baskets need, and the
rate falls only in a haircut, with no capital out in a trade. `ViolationsStop`: one
bad sale stops all traders, though trades in flight go on and may report again.
`TradesEnd`: no bidder, violation or other trade keeps a trade from being settled.

*Deployment.* `Coherent`: when the scripts have run from where they stopped, every entry
names a contract of its kind that was built on what the files name; a file
that lags behind the chain costs contracts, which are deployed again, and nothing
else. It holds because an operator who restarts a fork starts over, and because phase 3
refuses the file of an older deployment. `Completes`: nothing that can be left on the
way is refused for ever, where the operator deletes what cannot be read, and
sets up a new RToken when the governance of the last was created and not recorded.
`VerifiedInTheEnd`: repeated runs verify all but the static tokens (below), and the
confirmation passes if phase 3 was run.

### Where code and comments disagree

1. **A payout may exceed the rewards** (`StRSR_payout`). `_payoutRewards()` hands
   out a share of `rsrRewardsAtLastPayout`. `seizeRSR()` takes its share of the
   current rewards and leaves that field as it is. If rewards are low enough
   after the seizure, `rsrRewards()` underflows at `StRSR.sol:510` and
   `payoutRewards()`, `stake()` and `unstake()` revert, until RSR arrives. While
   Main is paused or frozen `stake()` works again, as it skips the payout.
2. **Drafts without an owner** (`StRSR_drafts`). A withdrawal that comes to no RSR
   advances the queue and returns before `totalDrafts` is lowered, against
   `[total-drafts]`. `DraftsCovered` is the half that remains true.
3. **Stake RSR without stakes** (`StRSR_empty`). A payout while nobody stakes adds
   to `stakeRSR`, against `[stake-rate]`. A seizure from there would compute a
   rate of zero and divide by it.

4. **A swap that does not disable** (`Basket_swap`). `swapRegistered()` asks for the
   quantity of the token before the swap, and that is zero when its collateral has
   defaulted. The basket stays enabled; with the new plugin, which may have another
   target unit, its status can become SOUND at once, with the reference amounts of
   the old one, against the comment at `AssetRegistry.sol:73`. Weights are then
   those of nobody's configuration until the owner refreshes the basket, or it
   becomes DISABLED again and anyone does.

Two more show in the model without a run. After `unregister()` of a defaulted
collateral the basket stays enabled too; its `status()` then reverts, and with it
the permissionless `refreshBasket()` (`StatusDefined`). And the last loop of
`_switchBasket()` (`BasketHandler.sol:595`) reads the old basket up to the length of
the new one: when no basket can be built but what has been built so far is longer
than the old basket, `refreshBasket()` reverts, where its comment says "Or no such
basket exists and disabled' = true" (the guard of `SwitchBasket`).

*Trading.* `handoutExcessAssets()` says "if needed == 0, conv rate is 1 qRTok/BU", but with
`basketsNeeded` zero the `mint()` that follows leaves a rate of zero and
reverts (`ValidRate` with the old `basketsNeeded` in `HandoutExcessAssets`): baskets
held while there is no RToken are handed out only after someone has issued.
`compromiseBasketsNeeded()` reverts in the same way when no basket at all is held: the
haircut that ends recollateralization "if we run out of capital" is then impossible,
until some of each token arrives.

*Scripts.* `2_deploy_collateral.ts:171` names a static token with the prefix `s`, and
`6_verify_collateral.ts:70` verifies it with `stat`: it is rejected every time, though
`docs/deployment.md` says that running the verification several times may be needed for
all of it to succeed (`VerifiedInTheEnd` leaves it out). FacadeAct is deployed and never
verified. The documentation has the scripts produce three files; phase 3, which makes the
third, is commented out in `deploy.ts`, and without it `confirm.ts` and the last two
verification scripts stop at the missing file. "Check previous step executed"
(`6_deploy_facadeWrite.ts:29`) looks at `rsrAsset`, not at the deployer of the previous
script (`FacadeWriteReady`).

Some other comments are wrong in ways that need no run. `Auth.sol` says that the set of
long freezers is that of accounts with `longFreeze[a] == 0` (it contains those with
charges, and a revoked freezer keeps its charges), that `unfreeze()` requires a
freeze (it does not), and `docs/system-design.md` that a long freeze can only
occur during a short one (it can occur at any time). `RToken.sol:121-125` asks for
baskets and deposits that increase strictly along a queue; an issuance whose
baskets round to nothing adds none, and `QueuesWellFormed` asks for no decrease.

## 4. The proofs

TLAPS checks the following for every finite set of accounts and tokens, every scale, rate
limit, parameter set, bound and choice of deployed entries, from the assumptions stated in the modules: scales are
positive, parameters are in the ranges the setters check, addresses and tokens are
finitely many.

| theorem | property | in |
|---|---|---|
| `TypeCorrect`, `PoolsSolvent`, `PoolsCovered`, `RatesInBounds`, `DraftQueuesOrdered` | the five parts of `Invariance` | `StRSRProofs` |
| `NeverUnderflows`, `BalancesAddUp`, `DraftsAreCovered` | `NoUnderflow`, `StakesAddUp`, `DraftsCovered` | `StRSRProofs` |
| `SeizesExactly`, `SeizesUniformly`, `NeverDiluted`, `OnlyAvailableWithdrawn` | `SeizureExact`, `SeizureUniform`, `NoDilution`, `OnlyAvailableDraftsLeave` | `StRSRProofs` |
| `RTokenTypeCorrect`, `LiabilitiesCovered`, `IssuanceWithinRate`, `RedemptionWithinBattery` | `TypeOK`, `LiabilitiesExact`, `IssuanceThrottled`, `RedemptionThrottled` | `RTokenProofs` |
| `CollateralizationKept`, `RedemptionFair` | `StaysCollateralized`, `FairRedemption` | `RTokenProofs` |
| `QueuesAreTickets` | `ImplementsTickets`, the refinement of P0's tickets | `RTokenRefinement` |
| `AuthTypeCorrect`, `FreezersCharged`, `FreezesBounded`, `FreezesAreSpent` | `TypeOK`, `LongFreezersCharged`, `FreezeBounded`, `FreezesRunOut` | `AuthProofs` |
| `BasketTypeCorrect`, `BuiltFromRegistry`, `DefaultsComeInTime`, `BasketWeightsKept` | `TypeOK`, `BuiltWithRegistered`, `DefaultsInTime`, `WeightsKept` | `BasketProofs` |
| `TradingTypeCorrect`, `NothingIsLost`, `BackingIsKept`, `ViolationsStopTrading` | `TypeOK`, `NothingStrays`, `BackingKept`, `ViolationsStop` | `TradingProofs` |
| `TradesAreCounted`, `TradesOneAtATime` | parts of the invariant | `TradingProofs` |
| `DeploymentTypeCorrect`, `DeploymentCoherent` | `TypeOK`, `Coherent` | `DeploymentProofs` |

**`ArithmeticProofs`.** Three groups of lemmas. *Quotients*: floor, ceiling, cancelling a
factor, monotony. *Sums*: `SumFunction` of the community modules folds over a set in an
order that `CHOOSE` picks, by recursion. The library's induction theorems cannot be
instantiated here, but `WFMin` can: a set of counterexamples has a minimal element.
From it follow two inductions over *sets* of numbers, that the recursion defines a
function, and that the order does not matter; then what sums do when one element changes
(`SumChange`), grows, is scaled, or when elements round (`SumSpreads`, `SumSplits`). *Powers*: `powu`, which is
recursive too, is a function and stays in [0, 1] (`PowerOfFraction`): this is why neither a
payout nor a melting exceeds what it takes its share of.

**`StRSRProofs`.** The inductive invariant is
`IInv == TypeOK /\ Solvent /\ RatesCover /\ RatesBounded /\ QueuesOrdered`. No
conjunct is inductive alone:

- `Solvent` needs that shares of a seizure, rounded up, do not exceed what they are
  taken from, and that a payout is guarded by `rsrRewards()`;
- `RatesCover` is kept by `stake()` and `pushDraft()` because new totals are rounded
  down, by `unstake()` and `withdraw()` because new RSR is rounded up, and by
  payouts and seizures because new rates are;
- `RatesBounded` needs `RatesCover`: a payout keeps the rate below its maximum as
  the pool covered its shares before; the draft rate never falls below one because
  drafts earn nothing, hence `draftRSR <= totalDrafts`, which is why a draft pool
  with RSR always has drafts and its rate is not zero;
- `TypeOK` needs all of them, as its `Nat`s are the absence of underflows.

`StakesAddUp` and `DraftsCovered` are each inductive on top of it; the second needs that
queues are ordered, since what a withdrawal takes out of the total is the difference
of two entries. In `SeizureUniform` both pools lose the same share rounded up, so that the
cross products differ by at most one unit of each.

**`RTokenProofs`.** `IInv == FieldsInv /\ QueuesInv /\ LiabilitiesExact /\ RateInv /\ BatteryInv`.

- `QueuesInv` says of any two items of a queue, not only of neighbours, that the later
  accumulates more, and that what lies between is worth the baskets issued for it: spans
  that are vested, refunded or cancelled start and end anywhere. It ties each queue to the
  basket it was bought for.
- `LiabilitiesExact` is a sum over accounts of the span of each queue, hence a case of
  `SumChange`: one call changes one queue.
- `RateInv` says why splitting gains nothing: what was issued in a block without
  waiting has moved `allVestAt` past the block's start by its time, so that
  `issuedInBlock` times `FIX_ONE` is at most the cached rate times that time.
- `BatteryInv` adds what was redeemed since the window's start to what the battery still
  holds: together at most a full battery and the recharge up to its last block.
  `RedemptionThrottled` follows with the recharge since then.

`CollateralizationKept` and `RedemptionFair` are about single steps, and rest on the
direction of every quotient in `issue()`, `redeem()` and `quote()`; vesting also needs
that a span is worth the baskets issued for it.

**`RTokenRefinement`.** `TicketsOf` reads the tickets off a queue as differences of
neighbouring items. Cutting a queue at the front (moving `left`) or at its end (dropping
items) is `SubSeq` of its tickets, appending an item is appending a ticket, and the sum of
the tickets of a span is the span (`SumTelescopes`). With that, every action maps: `Issue`,
which refunds a stale queue before it appends, to `Issue`; `Vest` to a vesting of a prefix, to
the refund of a stale list, or to a stutter; `Cancel` to `Cancel` from either end; redemption
to redemption; minting, melting and `setBasketsNeeded()` to `Adjust`; blocks, statuses, prices
and switches of the basket to `EnvironmentStep`. All other actions stutter.

**`AuthProofs`.** `IInv == TypeOK /\ LongFreezersCharged /\ FreezeBounded`: the
charges stay in their range because a freezer with none has no role. `FreezesRunOut`
compares a budget before and after a step: the time still frozen, plus one short freeze for
each short freezer, plus a long one for each charge. A short freeze costs the caller's
role and a long one a charge, and neither lasts longer than it costs, since freezes are
not added up; the sum over accounts is bounded with the lemmas on sums.

**`BasketProofs`.** `DefaultsComeInTime` and `BuiltFromRegistry`, from `IInv`. The second is
inductive only together with the fact that the basket was computed with collateral,
and rests on the first: the registry disables the basket unless the plugin it
replaces has defaulted, and what has defaulted never comes back. `TInv` adds types,
deadlines within the delay of their plugin, and that the tokens of the prime basket have amounts
(`Configured`): without the last a new basket could be empty and enabled.
`BasketWeightsKept` adds up two groups of tokens for each target: good prime tokens each get the amount
of their share, rounded up (`RoundedUp`), and backups share out equally what the others leave (`SharedOut`).
A token may be in both groups. The total is therefore at least the configured weight, and above it by
less than one unit per token and group.

**`TradingProofs`.** Two inductive invariants. `IInv == TradesTyped /\ TradesCounted /\ OneAtATime /\ ViolationsDisable`.
The counters count the trades because a trade is only opened where there is none and
only settled where there is one; that needs the trades to be typed, since no trade is the
record it is only if no trade of type `Trade` equals it. The backing manager has at most one
trade because it looks at its counter, not at its trades, which is why counting comes
first (`TradesOneAtATime`). `ViolationsStopTrading` rests on `ViolationsDisable`, a sale
that fell short has disabled the broker: `ShortfallsAreViolations` shows that the test
of `settle()`, with its tolerance of one token, finds every such sale, and
`TryTrade` asks for a broker that is not disabled.

`Ledger == LedgerTyped /\ Unsettled /\ NoRSRForRToken /\ NothingStrays` is inductive
on top of it. `Unsettled` says that an auction that goes on has brought nothing, so that its settlement
adds to the trade exactly what the public pays; `NoRSRForRToken` is why the RToken trader sells no RSR, from an
initial state in which it has none. Each transfer of a transaction moves an amount from one place to
another in a sum over accounts and trades; the distribution divides with a remainder that stays
with the trader. `BackingIsKept` follows: `handoutExcessAssets()` mints for all baskets held and hands out, of
every token, only what exceeds what they need, for any list of tokens, with repetitions;
`compromiseBasketsNeeded()` is reached only with no trade open.

**`DeploymentProofs`.** For every choice of entries and any number of mishaps, and also
while `Verification` goes on. First what the scripts say: `BodiesOK` goes through all
fourteen and shows that each records only entries of its own, deploys what it
records before, and writes after the last record; that it deploys nothing twice; and that
whatever it links is either deployed earlier in the same script, or was recorded by an
earlier one and is not deployed by this one. The rest uses only that.

`IInv == TypesOK /\ NothingStale /\ ChainOK /\ ProcessOK /\ FilesOK /\ Built /\ Frontier`
follows the *mark*: the script the operator has to go on with, or the one that runs if
that comes no later.

- `ProcessOK` derives a process from what it has left to do: what is recorded and what is
  deployed are what its finished steps recorded and deployed.
- `ChainOK`: the nonces of what an account has created do not exceed how much that is, hence
  the next address is fresh on this chain; after a restart the files may still name it.
- `FilesOK`: a missing or torn file implies that a script that writes it is yet to come.
  A run that set out later than it should have (`skipped`) moves no mark.
- `Built`: in a run that skipped nothing each deployed contract is sound and linked with what
  `Lookup` still answers, and what was recorded before the last write is in the file. This
  needs the links to be deployed before the contracts that link them, and nothing to be
  deployed twice: otherwise a later step would change the answer.
- `Frontier`: every entry of a script before the mark, if its file can be read, names a
  sound contract built on what the files name now. It is kept because a file is only lost
  together with everything recorded after it (`Delete` moves the mark back to the set-up of
  the file, a torn file to its scripts), and because a script overwrites no entry
  that something before the mark is linked with. When a script is through, `Built` becomes
  `Frontier` for its entries (`ThroughNamed`).

`Coherent` is `Frontier` with the mark behind the last script. `WantedAssumption` asks of a
choice of entries that EURT is among them: the first collaterals are only in the file
once a later one is written, and EURT is what the code writes last.

**Model-checked only.** `DraftsGetOut`, `AbandonedThaws`, `Recovers`, `TradesEnd`,
`Completes` and `VerifiedInTheEnd` are liveness under fairness, which is out of the
prover's reach. Every invariant and action property that a passing run checks has a
theorem.

## 5. What is not modelled, and why

- Integer widths: amounts are far below the limits of their types, and the
  libraries revert on overflow. Eras, nonces and times do not wrap.
- Call-backs of tokens in the middle of a transaction: registered tokens are plain
  ERC20s, and most functions follow checks-effects-interactions.
- Allowances, permits, names, events; holders' balances of RToken.
- Prices. They decide which trades happen and how large they are, not what the
  components do with the result. That recollateralization succeeds depends on them and
  on bidders, and is not claimed.
- Gnosis fees, the resizing of sales to 96 bits, the slippage and volume
  parameters, changes of the furnace's period and ratio, and the escape hatch
  `transferToOriginAfterTradeComplete()`, which sends on what arrives at a closed trade.
- Upgrades, views of the facades, development tasks, third-party code. Of deployment, two
  operators at once, and errors in the configuration.
- P0 except for the issuance of RToken: it promises the same through the same
  interfaces.

## 6. Plan

In this order, the most important behaviour first; steps 1 to 7 are done.

1. `StRSR` with its proofs. 2. `RToken`, the battery and the refinement of P0's
tickets. 3. `Auth` with its proofs. 4. `Collateral` and `Basket` with their proofs.
5. `Trading` and `Distributor` with their proofs. 6. `Deployment` and `Verification`.

7. Proofs of every invariant and action property, and of the refinement.
8. **Votes**: checkpoints and delegations per era with `Governance`'s test that a
   proposal started in the same era.

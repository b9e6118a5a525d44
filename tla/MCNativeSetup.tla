---------------------------- MODULE MCNativeSetup ----------------------------
\* Routes as the venues of this client build them, and worlds to run them in.
EXTENDS NativeSetup

Ata0(a) == [op |-> "ata", acct |-> a]
Close == [op |-> "close"]
Wrap(amt) == [op |-> "wrap", amt |-> amt]

\* A PumpSwap swap against a pool quoted in "wsol" or "usdc", and a curve swap.
Pool(base, quote, creator, side, cashback, wsol) ==
    LET volume == side = "Buy" \/ cashback
        recipients == << "protocol", creator, "buyback" >>
    IN  [op |-> "pumpswap", recipients |-> recipients, volume |-> volume,
         cashback |-> cashback, uses |-> {base, quote}, sol |-> 0, wsol |-> wsol,
         opens |-> {recipients[i] : i \in 1..3}
                   \cup (IF volume THEN {"pool_volume"} ELSE {})
                   \cup (IF cashback THEN {"cashback"} ELSE {})]
Curve(side, cashback, sol) ==
    LET volume == side = "Buy" \/ cashback
    IN  [op |-> "pumpfun", volume |-> volume, uses |-> {"token"}, sol |-> sol, wsol |-> 0,
         opens |-> IF volume THEN {"curve_volume"} ELSE {}]

\* Legs: a sale guarantees 2 lamports' worth of SOL, which the purchase wraps.
SellForSol(base, creator, cashback, proceeds) ==
    << Ata0("wsol"), Pool(base, "wsol", creator, "Sell", cashback, proceeds), Close >>
BuyWithSol(base, creator, cashback) ==
    << Ata0(base), Ata0("wsol"), Wrap(2),
       Pool(base, "wsol", creator, "Buy", cashback, -2), Close >>

PoolBuy(proceeds) == SellForSol("usdc", "bridge_creator", FALSE, proceeds)
                     \o BuyWithSol("token", "creator", TRUE)
PoolSell(proceeds) == SellForSol("token", "creator", TRUE, proceeds)
                      \o BuyWithSol("usdc", "bridge_creator", FALSE)
CurveBuy(proceeds) == SellForSol("usdc", "bridge_creator", FALSE, proceeds)
                      \o << Ata0("token"), Curve("Buy", FALSE, -2) >>
CurveSell(proceeds) == << Curve("Sell", TRUE, proceeds) >>
                       \o BuyWithSol("usdc", "bridge_creator", FALSE)
UsdcBuy == << Ata0("token"), Ata0("usdc"), Pool("token", "usdc", "creator", "Buy", FALSE, 0) >>
UsdcSell == << Ata0("usdc"), Pool("token", "usdc", "creator", "Sell", TRUE, 0) >>

\* The sale pays the guarantee, or more: by less than a wallet may hold, or by as much.
AllRoutes == {PoolBuy(3), PoolBuy(4), PoolSell(2), PoolSell(4), CurveBuy(4),
              CurveSell(3), CurveSell(4), UsdcBuy, UsdcSell}
PairRoutes == {PoolSell(4), CurveSell(4)}

\* The user holds what it sells; the rest is there, or missing, or half there.
Opened(n) == [initialized |-> TRUE, lamports |-> n]
Bare(n) == [initialized |-> FALSE, lamports |-> n]
World(wsol, others, vault) ==
    [a \in Accounts |->
        CASE a = "wsol" -> wsol
          [] a = "vault" -> vault
          [] a \in {"token", "usdc"} -> Opened(2)
          [] OTHER -> others]
AllWorlds ==
    {World(w, o, v) : w \in {Absent, Bare(1), Opened(3)}, o \in {Absent, Opened(2)},
                      v \in {Absent, Bare(1), Bare(2)}}
\* No lamport of a stranger's at the WSOL address: what a route leaves in the
\* wallet is its own surplus.
FewWorlds == {World(w, Absent, Bare(1)) : w \in {Absent, Opened(3)}}
\* Two routes race for everything, or for all but the volume accounts.
RaceWorlds ==
    {[World(w, Absent, Bare(1)) EXCEPT !["curve_volume"] = v, !["pool_volume"] = v] :
        w \in {Absent, Opened(3)}, v \in {Absent, Opened(2)}}
=============================================================================

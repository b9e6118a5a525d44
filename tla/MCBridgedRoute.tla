--------------------------- MODULE MCBridgedRoute ---------------------------
\* Trades, reserves and fees small enough for TLC's integers.
EXTENDS BridgedRoute

AllTrades ==
    {t \in [side : {"Buy", "Sell"}, settlement : {"Sol", "Usdc"},
            venue : {"PumpFun", "PumpSwap"}, quote : {"sol", "usdc", "other"},
            amount : {1, 3, 1007, 5752, 9000}, slippage_bps : {0, 1, 90, 500}] :
        \* The curve is quoted in SOL, and the adapter's own trades are direct.
        t.venue = "PumpFun" => t.quote = "sol"}

\* Deep and shallow pools, a nearly sold-out curve, virtual reserves of either
\* sign, one pool without a creator, one whose quote side is negative, and one
\* whose price makes the three fees round by three units together.
R(vault, virtual, base, real, creator) ==
    [vault |-> vault, virtual |-> virtual, base |-> base, real |-> real, creator |-> creator]
AllReserves ==
    {R(20000, 0, 31000, 31000, TRUE), R(700, 5200, 40000, 150, TRUE),
     R(30000, -17, 2500, 2500, FALSE), R(10, -20, 900, 900, TRUE),
     R(7235, 0, 60212, 60212, TRUE)}

AllFees ==
    {[lp |-> 20, protocol |-> 95, creator |-> 30], [lp |-> 2, protocol |-> 1000, creator |-> 1],
     [lp |-> 752, protocol |-> 752, creator |-> 752]}
=============================================================================

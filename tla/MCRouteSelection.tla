-------------------------- MODULE MCRouteSelection --------------------------
\* Small values for the constants of RouteSelection.
EXTENDS RouteSelection

\* Clients with both fees, with the SDK fee only, and bare.
FullClient ==
    [sdk |-> TRUE, bps |-> 1000, recipient |-> "treasury", sponsored |-> TRUE,
     payer |-> "sponsor", collector |-> "sponsor", ceiling |-> 9]
FeeClient == [FullClient EXCEPT !.sponsored = FALSE]
BareClient == [FeeClient EXCEPT !.sdk = FALSE]

Trade(side, settlement, venue, amount, wallet) ==
    [side |-> side, settlement |-> settlement, mint |-> "TOKEN", venue |-> venue,
     amount |-> amount, slippage_bps |-> 100, wallet |-> wallet]

\* 10 units cannot carry the ceiling; the treasury cannot pay itself.
SomeTrades ==
    {Trade("Buy", "Usdc", "PumpFun", 30, "alice"), Trade("Sell", "Usdc", "None", 7, "alice"),
     Trade("Buy", "Usdc", "None", 10, "alice"), Trade("Sell", "Sol", "PumpSwap", 7, "alice"),
     Trade("Buy", "Sol", "PumpFun", 30, "treasury"), Trade("Buy", "Sol", "PumpSwap", 30, "alice")}

AllRequests ==
    [client : {FullClient, FeeClient, BareClient}, dflow : BOOLEAN, trade : SomeTrades,
     pool : BOOLEAN, op : {"quote", "prepare"}]

\* Sound offers that tie or differ, one with no minimum, one that cannot pay
\* the fees, one for another input, one without instructions.
Offer(extra, expected, min, empty) ==
    [extra |-> extra, expected |-> expected, min |-> min, empty |-> empty]
AllOffers ==
    {Offer(0, 40, 36, FALSE), Offer(0, 60, 36, FALSE), Offer(0, 40, 30, FALSE),
     Offer(0, 40, 0, FALSE), Offer(0, 40, 4, FALSE), Offer(0, 30, 36, FALSE),
     Offer(1, 80, 80, FALSE), Offer(0, 80, 80, TRUE)}
=============================================================================

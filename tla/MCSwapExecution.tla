--------------------------- MODULE MCSwapExecution ---------------------------
\* Small values for the constants of SwapExecution.
EXTENDS SwapExecution

CONSTANTS c1, c2

OneCall == {c1}
TwoCalls == {c1, c2}

AllAddresses == {"none", "tips", "venue", "alice", "alice_token", "sponsor", "treasury", "stranger"}

\* A 10% SDK fee and a sponsor whose charge is at most 9 USDC units.
FullClient ==
    [sdk |-> TRUE, bps |-> 1000, recipient |-> "treasury", sponsored |-> TRUE,
     payer |-> "sponsor", collector |-> "sponsor", ceiling |-> 9]

Trade(side, settlement, venue, amount) ==
    [side |-> side, settlement |-> settlement, mint |-> "TOKEN", venue |-> venue,
     amount |-> amount, slippage_bps |-> 100, wallet |-> "alice"]

\* 10 units cannot carry both fees; 30 can.
AllTrades ==
    {Trade("Buy", "Usdc", "PumpFun", 30), Trade("Buy", "Usdc", "None", 10),
     Trade("Sell", "Usdc", "PumpSwap", 7), Trade("Buy", "Sol", "PumpFun", 30),
     Trade("Sell", "Sol", "PumpFun", 7), Trade("Sell", "Sol", "None", 7)}

SponsoredBuy == {Trade("Buy", "Usdc", "PumpFun", 30)}

\* 4 cannot pay the fees of a sale, 21 can by one unit, 40 comfortably.
AllOutputs ==
    {[expected |-> 5, min |-> 4], [expected |-> 24, min |-> 12],
     [expected |-> 40, min |-> 36], [expected |-> 40, min |-> 0]}
OneOutput == {[expected |-> 40, min |-> 36]}

\* No setup, a token account for the user, and a foreign signer.
AllSetups ==
    {<< >>, << Ix("create_ata", "sponsor", "alice_token", 0) >>,
     << Ix("create_ata", "stranger", "alice_token", 0) >>}
OneSetup == {<< Ix("create_ata", "sponsor", "alice_token", 0) >>}

AllUnits == {NoEstimate, 0, 1300000}
OneUnit == {300000}

AllAccounts == {"treasury", "sponsor", "alice_token"}
SharedAccounts == {"treasury", "alice_token"}

AllAges == {-1, 1, 3}
FreshAges == {0}
=============================================================================

-------------------------- MODULE MCProviderRoutes --------------------------
\* Small values for the constants of ProviderRoutes.
EXTENDS ProviderRoutes

FullClient ==
    [sdk |-> TRUE, bps |-> 1000, recipient |-> "treasury", sponsored |-> TRUE,
     payer |-> "sponsor", collector |-> "sponsor", ceiling |-> 9]
FeeClient == [FullClient EXCEPT !.sponsored = FALSE]

Trade(side, settlement, mint, amount) ==
    [side |-> side, settlement |-> settlement, mint |-> mint, venue |-> "None",
     amount |-> amount, slippage_bps |-> 2500, wallet |-> "alice"]

\* Sales, buys, and a trade of wrapped SOL for itself.
SomeTrades ==
    {Trade("Buy", "Usdc", "TOKEN", 30), Trade("Sell", "Usdc", "TOKEN", 7),
     Trade("Buy", "Sol", "TOKEN", 30), Trade("Sell", "Sol", "WSOL", 7)}

AllRequests ==
    [venue : {"jupiter", "dflow"}, client : {FullClient, FeeClient}, trade : SomeTrades,
     op : {"quote", "prepare"}]

Mine(op) == Ix(op, "alice", "none", 0)
List(version, budget, setup, data, cleanup, other) ==
    [version |-> version, budget |-> budget, setup |-> setup, swap |-> "alice", data |-> data,
     cleanup |-> cleanup, other |-> other]

\* Sound lists, one with a budget in a place of its own and one among the
\* others, and lists with one thing wrong.
SomeLists ==
    {List("v0", << >>, << >>, TRUE, << >>, << >>),
     List("v0", << Mine("cu_limit"), Mine("cu_price"), Mine("heap") >>, << Mine("setup") >>,
          TRUE, << Mine("cleanup") >>, << >>),
     List("v0", << Mine("loaded_size") >>, << Ix("setup", "sponsor", "none", 0) >>, TRUE,
          << >>, << Mine("cu_price"), Mine("other") >>),
     List("v0", << >>, << >>, TRUE, << >>, << Ix("other", "stranger", "none", 0) >>),
     List("v0", << Mine("unknown_budget") >>, << >>, TRUE, << >>, << >>),
     List("v1", << >>, << >>, TRUE, << >>, << >>),
     List("v0", << >>, << >>, FALSE, << >>, << >>)}

SomeAddresses == {"alice", "sponsor", "stranger", "treasury", "venue", "none"}

SomePrices == {0, 1, 13, 40}
=============================================================================

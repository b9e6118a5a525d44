-------------------------- MODULE MCVenueAccounts ---------------------------
\* Small values for the constants of VenueAccounts.
EXTENDS VenueAccounts

AnyName == STRING

Config(standard, mayhem, buyback) ==
    [standard |-> standard, mayhem |-> mayhem, buyback |-> buyback]

\* The recipients rotate, and one is replaced; a place may be left unset.
TwoFunConfigs ==
    {Config(<< Key("f1"), Key("f2"), SYSTEM >>, << Key("fm") >>, << Key("fb1"), Key("fb2") >>),
     Config(<< Key("f2"), Key("f3"), SYSTEM >>, << Key("fm") >>, << Key("fb2"), Key("fb1") >>)}
TwoSwapConfigs ==
    {Config(<< Key("s1"), Key("s2") >>, << Key("sm"), SYSTEM >>, << Key("sb1"), Key("sb2") >>),
     Config(<< Key("s2"), Key("s3") >>, << Key("sm"), SYSTEM >>, << Key("sb2"), Key("sb1") >>)}

Pool(name, mint, token, quote, creator, mayhem, cashback) ==
    [venue |-> "PumpSwap", address |-> Key(name), mint |-> mint, token |-> token,
     quote |-> quote, creator |-> creator, mayhem |-> mayhem, cashback |-> cashback,
     base_vault |-> Key(name \o "_base"), quote_vault |-> Key(name \o "_quote")]

Curve(token, mayhem, cashback) ==
    [venue |-> "PumpFun", address |-> Pda(PumpFun, "curve", Key("mint")), mint |-> Key("mint"),
     token |-> token, creator |-> Key("dev"), mayhem |-> mayhem, cashback |-> cashback]

TwoBridges ==
    {Pool("bridge", USDC, TOKEN, WSOL, SYSTEM, FALSE, FALSE),
     Pool("bridge", USDC, TOKEN, WSOL, Key("bridge_dev"), FALSE, TRUE)}

\* With both flags or neither.
SomeTargets ==
    {Curve(TOKEN_2022, flag, flag) : flag \in BOOLEAN}
    \cup {Pool("pool", Key("mint"), TOKEN_2022, quote, creator, flag, flag) :
        quote \in {WSOL, USDC}, creator \in {SYSTEM, Key("dev")}, flag \in BOOLEAN}

FourClients ==
    {[sdk |-> TRUE, sponsored |-> FALSE, tip |-> TRUE],
     [sdk |-> FALSE, sponsored |-> TRUE, tip |-> TRUE],
     [sdk |-> TRUE, sponsored |-> TRUE, tip |-> FALSE],
     [sdk |-> TRUE, sponsored |-> TRUE, tip |-> TRUE]}
=============================================================================

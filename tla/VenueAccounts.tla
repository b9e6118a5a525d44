---------------------------- MODULE VenueAccounts ----------------------------
(***************************************************************************)
(* Which accounts a native route names.  The Pump.fun and PumpSwap         *)
(* adapters list them by position; fund_native_setup finds what it has to  *)
(* open by the same positions; shared_lookup_addresses lists, at some      *)
(* other time, those that any trade may need.  Fee recipients rotate on    *)
(* chain while the adapters keep the ones they read first.                 *)
(***************************************************************************)
EXTENDS Integers, Sequences, FiniteSets, SequencesExt

CONSTANTS
    Names,         \* what keys are called
    FunConfigs,    \* what Pump.fun's global account may say
    SwapConfigs,   \* what PumpSwap's global config may say
    BridgePools,   \* what the client's SOL/USDC pool may be
    Targets,       \* pools and curves a trade may name
    Clients,       \* records [sdk, sponsored, tip]
    MaxChanges     \* bound: how often the chain's settings change

-----------------------------------------------------------------------------
\* Addresses: a key, one a program derives, or an associated token account.
\* The system program is also Pubkey::default(), an entry that is not set.

Key(name) == [key |-> name]
Pda(program, seed, of) == [program |-> program, seed |-> seed, of |-> of]
Ata(owner, mint, token) == [owner |-> owner, mint |-> mint, token |-> token]

NoKey == Key("none")
Wallet == Key("wallet")
SYSTEM == Key("system")
TOKEN == Key("token")
TOKEN_2022 == Key("token_2022")
ATA == Key("ata")
BUDGET == Key("compute_budget")
WSOL == Key("wsol")
USDC == Key("usdc")
FEE_PROGRAM == Key("fee_program")
PumpFun == Key("pumpfun")
PumpSwap == Key("pumpswap")
Programs == {SYSTEM, TOKEN, TOKEN_2022, ATA, BUDGET, PumpFun, PumpSwap}

Global(program) == Pda(program, "global", NoKey)
EventAuthority(program) == Pda(program, "event_authority", NoKey)
GlobalVolume(program) == Pda(program, "global_volume", NoKey)
FeeConfig(program) == Pda(FEE_PROGRAM, "fee_config", program)
UserVolume(program) == Pda(program, "user_volume", Wallet)
CreatorVault(program, creator) == Pda(program, "creator_vault", creator)
Second(program, mint) == Pda(program, "v2", mint)

Pubkeys == [key : Names]
Seeds == {"global", "event_authority", "global_volume", "fee_config", "user_volume",
          "creator_vault", "v2", "curve"}
Derived == [program : Pubkeys, seed : Seeds, of : Pubkeys]
TokenAccounts == [owner : Pubkeys \cup Derived, mint : Pubkeys, token : Pubkeys]

\* An instruction: program, accounts in order, who signs, bytes of data.
Ix(op, program, accounts, signers, data) ==
    [op |-> op, program |-> program, accounts |-> accounts, signers |-> signers, data |-> data]

CreateAta(payer, owner, mint, token) ==
    Ix("ata", ATA, << payer, Ata(owner, mint, token), owner, mint, SYSTEM, token >>, {payer}, 1)

Transfer(from, to) == Ix("transfer", SYSTEM, << from, to >>, {from}, 12)

-----------------------------------------------------------------------------
\* Pump.fun.  A curve is [venue, address, mint, token, creator, mayhem,
\* cashback]; settings are the recipients an adapter read.

SettingsOf(config) ==
    [standard |-> config.standard[1], mayhem |-> config.mayhem[1],
     buyback |-> config.buyback[1]]

Recipient(fees, mayhem) == IF mayhem THEN fees.mayhem ELSE fees.standard

CurveStart(curve, fees) ==
    << Global(PumpFun), Recipient(fees, curve.mayhem), curve.mint, curve.address,
       Ata(curve.address, curve.mint, curve.token), Ata(Wallet, curve.mint, curve.token),
       Wallet, SYSTEM >>

CurveBuyAccounts(curve, fees) ==
    CurveStart(curve, fees) \o
    << curve.token, CreatorVault(PumpFun, curve.creator), EventAuthority(PumpFun), PumpFun,
       GlobalVolume(PumpFun), UserVolume(PumpFun), FeeConfig(PumpFun), FEE_PROGRAM,
       Second(PumpFun, curve.mint), fees.buyback >>

CurveSellAccounts(curve, fees) ==
    CurveStart(curve, fees) \o
    << CreatorVault(PumpFun, curve.creator), curve.token, EventAuthority(PumpFun), PumpFun,
       FeeConfig(PumpFun), FEE_PROGRAM >>
    \o (IF curve.cashback THEN << UserVolume(PumpFun) >> ELSE << >>)
    \o << Second(PumpFun, curve.mint), fees.buyback >>

CurveRoute(side, curve, fees) ==
    IF side = "Buy"
    THEN << CreateAta(Wallet, Wallet, curve.mint, curve.token),
            Ix("pumpfun_buy", PumpFun, CurveBuyAccounts(curve, fees), {Wallet}, 25) >>
    ELSE << Ix("pumpfun_sell", PumpFun, CurveSellAccounts(curve, fees), {Wallet}, 24) >>

-----------------------------------------------------------------------------
\* PumpSwap.  A pool is [venue, address, mint, token, quote, creator, mayhem,
\* cashback, base_vault, quote_vault]; quotes are WSOL or USDC, both of TOKEN.

NamedAccounts(pool, fees) ==
    LET recipient == Recipient(fees, pool.mayhem)
        vault == CreatorVault(PumpSwap, pool.creator)
    IN  << pool.address, Wallet, Global(PumpSwap), pool.mint, pool.quote,
           Ata(Wallet, pool.mint, pool.token), Ata(Wallet, pool.quote, TOKEN),
           pool.base_vault, pool.quote_vault, recipient, Ata(recipient, pool.quote, TOKEN),
           pool.token, TOKEN, SYSTEM, ATA, EventAuthority(PumpSwap), PumpSwap,
           Ata(vault, pool.quote, TOKEN), vault >>

RemainingAccounts(side, pool, fees) ==
    (IF pool.cashback
     THEN << Ata(UserVolume(PumpSwap), pool.quote, TOKEN) >>
          \o (IF side = "Sell" THEN << UserVolume(PumpSwap) >> ELSE << >>)
     ELSE << >>)
    \o (IF pool.creator # SYSTEM THEN << Second(PumpSwap, pool.mint) >> ELSE << >>)
    \o << fees.buyback, Ata(fees.buyback, pool.quote, TOKEN) >>

SwapAccounts(side, pool, fees) ==
    NamedAccounts(pool, fees)
    \o (IF side = "Buy" THEN << GlobalVolume(PumpSwap), UserVolume(PumpSwap) >> ELSE << >>)
    \o << FeeConfig(PumpSwap), FEE_PROGRAM >>
    \o RemainingAccounts(side, pool, fees)

UserQuote(pool) == Ata(Wallet, pool.quote, TOKEN)
CloseQuote(pool) ==
    IF pool.quote = WSOL
    THEN << Ix("close", TOKEN, << UserQuote(pool), Wallet, Wallet >>, {Wallet}, 1) >>
    ELSE << >>

PoolBuyRoute(pool, fees) ==
    << CreateAta(Wallet, Wallet, pool.mint, pool.token),
       CreateAta(Wallet, Wallet, pool.quote, TOKEN) >>
    \o (IF pool.quote = WSOL
        THEN << Transfer(Wallet, UserQuote(pool)),
                Ix("sync", TOKEN, << UserQuote(pool) >>, {}, 1) >>
        ELSE << >>)
    \o << Ix("pumpswap", PumpSwap, SwapAccounts("Buy", pool, fees), {Wallet}, 25) >>
    \o CloseQuote(pool)

PoolSellRoute(pool, fees) ==
    << CreateAta(Wallet, Wallet, pool.quote, TOKEN),
       Ix("pumpswap", PumpSwap, SwapAccounts("Sell", pool, fees), {Wallet}, 24) >>
    \o CloseQuote(pool)

PoolRoute(side, pool, fees) ==
    IF side = "Buy" THEN PoolBuyRoute(pool, fees) ELSE PoolSellRoute(pool, fees)

\* The legs of a trade: usdc::prepare, PumpSwap::prepare_swap.
Other(side) == IF side = "Buy" THEN "Sell" ELSE "Buy"

Leg(side, target, funFees, swapFees) ==
    IF target.venue = "PumpFun" THEN CurveRoute(side, target, funFees)
    ELSE PoolRoute(side, target, swapFees)

\* A USDC trade through SOL sells USDC for a buy; a SOL trade of a pool quoted
\* in USDC buys USDC for it.
NativeRoute(side, settlement, target, bridge, funFees, swapFees) ==
    LET leg == Leg(side, target, funFees, swapFees)
        quote == IF target.venue = "PumpFun" THEN WSOL ELSE target.quote
        first(b, l) == IF side = "Buy" THEN b \o l ELSE l \o b
    IN  IF (settlement = "Usdc") <=> (quote = USDC) THEN leg
        ELSE IF settlement = "Usdc"
        THEN first(PoolRoute(Other(side), bridge, swapFees), leg)
        ELSE first(PoolRoute(side, bridge, swapFees), leg)

-----------------------------------------------------------------------------
\* fund_native_setup, for a user of whose accounts only some exist.

Accounts(ix) == ToSet(ix.accounts)

\* The layout checks of append, pumpswap_setup and pumpfun_setup.
Recognised(ix) ==
    CASE ix.op = "ata" -> Len(ix.accounts) = 6
      [] ix.op = "pumpswap" -> Len(ix.accounts) >= 23 /\ ix.accounts[2] = Wallet
      [] ix.op \in {"pumpfun_buy", "pumpfun_sell"} ->
            Len(ix.accounts) >= 14 /\ ix.accounts[7] = Wallet
      [] ix.op = "close" -> Len(ix.accounts) = 3 /\ ix.accounts[2] = Wallet
                            /\ ix.accounts[3] = Wallet
      [] OTHER -> TRUE

\* Slip: the last account is taken for the buyback recipient.
OwnersToFund_Last(ix) ==
    << ix.accounts[10], ix.accounts[19], ix.accounts[Len(ix.accounts)] >>

\* The protocol recipient, the creator's vault authority, the buyback recipient.
OwnersToFund(ix) ==
    << ix.accounts[10], ix.accounts[19], ix.accounts[Len(ix.accounts) - 1] >>

\* The builder: what it knows to be open, what it has built, whether it owes
\* the sponsor a WSOL deposit.
Create(b, payer, owner, mint, token) ==
    LET address == Ata(owner, mint, token)
    IN  IF address \in b.open THEN b
        ELSE [b EXCEPT !.open = @ \cup {address},
                       !.ixs = Append(@, CreateAta(payer, owner, mint, token)),
                       !.refund = @ \/ address = Ata(Wallet, WSOL, TOKEN)]

InitVolume(b, payer, ix) ==
    LET volume == UserVolume(ix.program)
    IN  IF volume \notin Accounts(ix) \/ volume \in b.open THEN b
        ELSE [b EXCEPT !.open = @ \cup {volume},
                       !.ixs = Append(@, Ix("volume", ix.program,
                            << payer, Wallet, volume, SYSTEM, EventAuthority(ix.program),
                               ix.program >>, {payer}, 8))]

PumpSwapSetup(b, payer, ix) ==
    LET mint == ix.accounts[5]
        token == ix.accounts[13]
        owners == OwnersToFund(ix)
        create(c, owner) == Create(c, payer, owner, mint, token)
        funded == create(create(create(InitVolume(b, payer, ix), owners[1]), owners[2]), owners[3])
    IN  IF Ata(UserVolume(PumpSwap), mint, token) \in Accounts(ix)
        THEN create(funded, UserVolume(PumpSwap)) ELSE funded

PumpFunSetup(b, payer, ix) ==
    LET vault == ix.accounts[IF ix.op = "pumpfun_sell" THEN 9 ELSE 10]
        c == InitVolume(b, payer, ix)
    IN  IF vault \in c.open THEN c
        ELSE [c EXCEPT !.open = @ \cup {vault}, !.ixs = Append(@, Transfer(payer, vault))]

CloseWsol(b, payer, ix) ==
    [b EXCEPT !.open = @ \ {ix.accounts[1]},
              !.ixs = @ \o << ix >> \o IF b.refund THEN << Transfer(Wallet, payer) >> ELSE << >>,
              !.refund = FALSE]

Keep(b, ix) == [b EXCEPT !.ixs = Append(@, ix)]

AppendIx(payer, b, ix) ==
    CASE ix.op = "ata" -> Create(b, payer, ix.accounts[3], ix.accounts[4], ix.accounts[6])
      [] ix.op = "pumpswap" -> Keep(PumpSwapSetup(b, payer, ix), ix)
      [] ix.op \in {"pumpfun_buy", "pumpfun_sell"} -> Keep(PumpFunSetup(b, payer, ix), ix)
      [] ix.op = "close" /\ ix.accounts[1] = Ata(Wallet, WSOL, TOKEN) -> CloseWsol(b, payer, ix)
      [] OTHER -> Keep(b, ix)

FundNativeSetup(route, payer, existing) ==
    LET built_by[k \in 0..Len(route)] ==
            IF k = 0 THEN [open |-> existing, ixs |-> << >>, refund |-> FALSE]
            ELSE AppendIx(payer, built_by[k - 1], route[k])
    IN  built_by[Len(route)].ixs

-----------------------------------------------------------------------------
\* Fees, and what build_optimal_tx makes of the list.

Treasury == Key("treasury")
Collector == Key("collector")
Sponsor == Key("sponsor")
TipAccount == Key("bloxroute_tip")

UsdcFee(payer, to) ==
    << CreateAta(payer, to, USDC, TOKEN),
       Ix("usdc_transfer", TOKEN, << Ata(Wallet, USDC, TOKEN), USDC, Ata(to, USDC, TOKEN), Wallet >>,
          {Wallet}, 10) >>

PayerOf(client, settlement) ==
    IF client.sponsored /\ settlement = "Usdc" THEN Sponsor ELSE Wallet

FeeIxs(client, settlement) ==
    LET payer == PayerOf(client, settlement)
    IN  (IF ~client.sdk THEN << >>
         ELSE IF settlement = "Sol" THEN << Transfer(Wallet, Treasury) >>
         ELSE UsdcFee(payer, Treasury))
        \o (IF payer = Sponsor THEN UsdcFee(payer, Collector) ELSE << >>)

Compiled(client, settlement, ixs) ==
    LET payer == PayerOf(client, settlement)
    IN  << Ix("cu_limit", BUDGET, << >>, {}, 5), Ix("cu_price", BUDGET, << >>, {}, 9) >>
        \o ixs \o FeeIxs(client, settlement)
        \o IF client.tip THEN << Transfer(payer, TipAccount) >> ELSE << >>

\* The wire size of the signed v0 transaction: a table replaces the address
\* of an account that is neither a signer nor a program of the message.
Bytes(payer, m, table) ==
    LET invoked == {m[i].program : i \in DOMAIN m}
        signers == {payer} \cup UNION {m[i].signers : i \in DOMAIN m}
        keys == signers \cup invoked \cup UNION {Accounts(m[i]) : i \in DOMAIN m}
        looked == (keys \cap table) \ (signers \cup invoked)
        size(sum, ix) == sum + 3 + Len(ix.accounts) + ix.data
    IN  FoldLeft(size, 0, m)
        + (1 + 64 * Cardinality(signers)) + 4
        + (1 + 32 * Cardinality(keys \ looked)) + 32 + 1
        + (IF looked = {} THEN 1 ELSE 35 + Cardinality(looked))

MAX_TRANSACTION_BYTES == 1232

-----------------------------------------------------------------------------
\* shared_lookup_addresses: three reads, each of the chain as it is then.

CommonAddresses == {SYSTEM, TOKEN, TOKEN_2022, ATA, BUDGET, WSOL, USDC, TipAccount}

\* Slip: only the recipients an adapter picks today are listed.
RecipientsOf_Current(config) == {config.standard[1], config.mayhem[1], config.buyback[1]}

RecipientsOf(config) ==
    ToSet(config.standard) \cup ToSet(config.mayhem) \cup ToSet(config.buyback)

VenueAddresses(program) ==
    {program, FEE_PROGRAM, Global(program), EventAuthority(program), GlobalVolume(program),
     FeeConfig(program)}

FunAddresses(config) == VenueAddresses(PumpFun) \cup RecipientsOf(config)

\* Slip: the recipients' token accounts are left out.
SwapAddresses_KeysOnly(config) ==
    VenueAddresses(PumpSwap) \cup (RecipientsOf(config) \ {SYSTEM})

SwapAddresses(config) ==
    VenueAddresses(PumpSwap) \cup
    UNION {{r, Ata(r, WSOL, TOKEN), Ata(r, USDC, TOKEN)} : r \in RecipientsOf(config) \ {SYSTEM}}

BridgeAddresses(pool) ==
    LET vault == CreatorVault(PumpSwap, pool.creator)
    IN  {pool.address, pool.mint, pool.quote, pool.base_vault, pool.quote_vault, vault,
         Ata(vault, pool.quote, TOKEN), Second(PumpSwap, pool.mint)}

-----------------------------------------------------------------------------
\* What the venues' accounts may hold.  The first place of a list of recipients,
\* the one adapters take, is set; others may not be.

Configs == [standard : Seq(Pubkeys), mayhem : Seq(Pubkeys), buyback : Seq(Pubkeys)]

\* A trade may name its curve; otherwise it is the one derived from its mint.
Curves ==
    {c \in [venue : {"PumpFun"}, address : Pubkeys \cup Derived, mint : Pubkeys,
            token : {TOKEN, TOKEN_2022}, creator : Pubkeys, mayhem : BOOLEAN, cashback : BOOLEAN] :
        c.address \in Derived => c.address = Pda(PumpFun, "curve", c.mint)}

Pools ==
    [venue : {"PumpSwap"}, address : Pubkeys, mint : Pubkeys, token : {TOKEN, TOKEN_2022},
     quote : {WSOL, USDC}, creator : Pubkeys, mayhem : BOOLEAN, cashback : BOOLEAN,
     base_vault : Pubkeys, quote_vault : Pubkeys]

ASSUME AccountsAssumption ==
    /\ MaxChanges \in Nat
    /\ {NoKey, Wallet, Treasury, Collector, Sponsor, TipAccount, WSOL, USDC, FEE_PROGRAM}
         \cup Programs \subseteq Pubkeys
    /\ FunConfigs \subseteq Configs /\ SwapConfigs \subseteq Configs
    /\ \A c \in FunConfigs \cup SwapConfigs :
        \A list \in {c.standard, c.mayhem, c.buyback} : list # << >> /\ list[1] # SYSTEM
    /\ BridgePools \subseteq {p \in Pools : p.mint = USDC /\ p.token = TOKEN /\ p.quote = WSOL}
    /\ Targets \subseteq Curves \cup Pools
    /\ Clients \subseteq [sdk : BOOLEAN, sponsored : BOOLEAN, tip : BOOLEAN]

-----------------------------------------------------------------------------
\* One client: its chain, its adapters' settings, its table, one trade.

VARIABLES
    fun, swap, bridge,      \* the two configs and the SOL/USDC pool on chain
    changes,                \* how often they have changed
    funFees, swapFees,      \* what the adapters read first (their OnceLock)
    tableFun, tableSwap, tableBridge,    \* what the table's program has read
    built                   \* the trade whose route was built

venues == << fun, swap, bridge, changes >>
adapters == << funFees, swapFees >>
table == << tableFun, tableSwap, tableBridge >>
accounts_vars == << venues, adapters, table, built >>

NotRead == NoKey

\* What is open before a sponsored trade besides the asset it sells: nothing,
\* what the venues and their creators own, or also what the user has of them.
Holdings == {"nothing", "venues", "user"}

Trades ==
    [side : {"Buy", "Sell"}, settlement : {"Sol", "Usdc"}, target : Targets,
     client : Clients, holding : Holdings]

\* What the adapters hold is the first of each list of one and the same read.
AccountsTypeOK ==
    LET firsts(fees, configs) ==
            fees # NotRead =>
                \E c \in configs : << fees.standard, fees.mayhem, fees.buyback >>
                                  = << c.standard[1], c.mayhem[1], c.buyback[1] >>
    IN
    /\ fun \in FunConfigs /\ swap \in SwapConfigs /\ bridge \in BridgePools
    /\ changes \in 0..MaxChanges
    /\ firsts(funFees, FunConfigs) /\ firsts(swapFees, SwapConfigs)
    /\ tableFun \in {NotRead} \cup FunConfigs
    /\ tableSwap \in {NotRead} \cup SwapConfigs
    /\ tableBridge \in {NotRead} \cup BridgePools
    /\ built \in {NotRead} \cup Trades

AccountsInit ==
    /\ fun \in FunConfigs /\ swap \in SwapConfigs /\ bridge \in BridgePools
    /\ changes = 0
    /\ funFees = NotRead /\ swapFees = NotRead
    /\ tableFun = NotRead /\ tableSwap = NotRead /\ tableBridge = NotRead
    /\ built = NotRead

\* The venues' admins change a config; the pool's creator is replaced.
Reconfigure ==
    /\ built = NotRead
    /\ changes < MaxChanges
    /\ changes' = changes + 1
    /\ \/ fun' \in FunConfigs \ {fun} /\ UNCHANGED << swap, bridge >>
       \/ swap' \in SwapConfigs \ {swap} /\ UNCHANGED << fun, bridge >>
       \/ bridge' \in BridgePools \ {bridge} /\ UNCHANGED << fun, swap >>
    /\ UNCHANGED << adapters, table, built >>

\* fee_settings: the first read stays.
UseFun ==
    /\ built = NotRead /\ funFees = NotRead
    /\ funFees' = SettingsOf(fun)
    /\ UNCHANGED << venues, swapFees, table, built >>

UseSwap ==
    /\ built = NotRead /\ swapFees = NotRead
    /\ swapFees' = SettingsOf(swap)
    /\ UNCHANGED << venues, funFees, table, built >>

ListFun ==
    /\ built = NotRead /\ tableFun = NotRead
    /\ tableFun' = fun
    /\ UNCHANGED << venues, adapters, tableSwap, tableBridge, built >>

ListSwap ==
    /\ built = NotRead /\ tableSwap = NotRead
    /\ tableSwap' = swap
    /\ UNCHANGED << venues, adapters, tableFun, tableBridge, built >>

ListBridge ==
    /\ built = NotRead /\ tableSwap # NotRead /\ tableBridge = NotRead
    /\ tableBridge' = bridge
    /\ UNCHANGED << venues, adapters, tableFun, tableSwap, built >>

\* The pools of a route are read for each trade.
Build ==
    /\ built = NotRead
    /\ funFees # NotRead /\ swapFees # NotRead
    /\ tableFun # NotRead /\ tableSwap # NotRead /\ tableBridge # NotRead
    /\ built' \in {t \in Trades : PayerOf(t.client, t.settlement) = Wallet => t.holding = "nothing"}
    /\ UNCHANGED << venues, adapters, table >>

AccountsNext == Reconfigure \/ UseFun \/ UseSwap \/ ListFun \/ ListSwap \/ ListBridge \/ Build
AccountsSpec == AccountsInit /\ [][AccountsNext]_accounts_vars

-----------------------------------------------------------------------------
Route ==
    NativeRoute(built.side, built.settlement, built.target, bridge, funFees, swapFees)

Sponsored == built # NotRead /\ PayerOf(built.client, built.settlement) = Sponsor

SoldAsset ==
    IF built.side = "Buy" THEN Ata(Wallet, USDC, TOKEN)
    ELSE Ata(Wallet, built.target.mint, built.target.token)

\* The owners of what fund_native_setup may open for the venues.
Recipients ==
    LET fees == {swapFees.standard, swapFees.mayhem, swapFees.buyback}
    IN  fees \cup {CreatorVault(PumpSwap, p.creator) : p \in {bridge, built.target}}

Existing ==
    {SoldAsset}
    \cup (IF built.holding = "nothing" THEN {}
          ELSE {Ata(owner, mint, TOKEN) : owner \in Recipients, mint \in {USDC, WSOL}}
               \cup {CreatorVault(PumpFun, built.target.creator)})
    \cup (IF built.holding = "user"
          THEN {UserVolume(PumpSwap), UserVolume(PumpFun), Ata(Wallet, WSOL, TOKEN)} ELSE {})

Program ==
    IF Sponsored THEN FundNativeSetup(Route, Sponsor, Existing) ELSE Route

\* What opens an account: its creation, or the rent it was short of.
Opens(ix) ==
    CASE ix.op = "ata" -> {ix.accounts[2]}
      [] ix.op = "volume" -> {ix.accounts[3]}
      [] ix.op = "transfer" -> {ix.accounts[2]}
      [] OTHER -> {}

Closes(ix) == IF ix.op = "close" THEN {ix.accounts[1]} ELSE {}

OpenBefore(m, i) ==
    LET open_after[k \in 0..Len(m)] ==
            IF k = 0 THEN Existing ELSE (open_after[k - 1] \cup Opens(m[k])) \ Closes(m[k])
    IN  open_after[i - 1]

Venue(ix) == ix.op \in {"pumpfun_buy", "pumpfun_sell", "pumpswap"}

\* The accounts a venue instruction needs open: token accounts other than a
\* curve's own, the user's volume, the vault Pump.fun pays a creator into.
Needs(ix) ==
    {a \in Accounts(ix) :
        \/ "owner" \in DOMAIN a /\ a.owner # ix.accounts[IF ix.op = "pumpswap" THEN 1 ELSE 4]
        \/ a = UserVolume(ix.program)
        \/ "program" \in DOMAIN a /\ a.seed = "creator_vault" /\ ix.program = PumpFun}

\* fund_native_setup reads the accounts of every swap by position, whatever
\* its side, its cashback or its creator add to the list: no native route is
\* refused as unsupported, every account a swap needs is open when it runs,
\* and the sponsor opens nothing the route does not use (native.rs:193).
SetupOpensWhatSwapsNeed ==
    Sponsored =>
        /\ \A i \in DOMAIN Route : Recognised(Route[i])
        /\ \A i \in DOMAIN Program :
            /\ Venue(Program[i]) => Needs(Program[i]) \subseteq OpenBefore(Program, i)
            /\ Sponsor \in Program[i].signers /\ Program[i].op # "transfer" =>
                 \E j \in DOMAIN Program : j > i /\ Opens(Program[i]) \subseteq Accounts(Program[j])

\* What a trade brings of its own: its wallet, its target, what is derived
\* from them, and the token accounts of either.
Rooted(address, roots) == (IF address \in Derived THEN address.of ELSE address) \in roots
Mentions(address, roots) ==
    IF address \in TokenAccounts
    THEN Rooted(address.owner, roots) \/ address.mint \in roots
    ELSE Rooted(address, roots)

OwnOf(target) ==
    {Wallet, target.mint, target.address, target.creator}
    \cup (IF target.venue = "PumpSwap" THEN {target.base_vault, target.quote_vault} ELSE {})

UserVolumes == {UserVolume(PumpFun), UserVolume(PumpSwap)}

\* The table still lists what the adapters pay: it was read when their
\* recipients were among the venues', and the bridge has not changed since.
TableIsCurrent ==
    LET lists(config, fees) ==
            /\ fees.standard \in ToSet(config.standard)
            /\ fees.mayhem \in ToSet(config.mayhem)
            /\ fees.buyback \in ToSet(config.buyback)
    IN  lists(tableFun, funFees) /\ lists(tableSwap, swapFees) /\ tableBridge = bridge

Table == CommonAddresses \cup FunAddresses(tableFun) \cup SwapAddresses(tableSwap)
         \cup BridgeAddresses(tableBridge)

\* A table made when the adapters' recipients were anywhere in the venues'
\* lists serves every later trade, whatever recipient is the first by then:
\* each address of a native route is in it or is the trade's own
\* (lookup_table.rs:8, "reusable across target tokens and wallets").
TableCovers ==
    (built # NotRead /\ TableIsCurrent) =>
        \A i \in DOMAIN Route : \A a \in Accounts(Route[i]) \cup {Route[i].program} :
            a \in Table \/ Mentions(a, OwnOf(built.target))

\* With such a table a native trade fits one packet and the size check of
\* build_optimal_tx (executor.rs:169) never asks for another: any trade of a
\* user who pays the network; a sponsored one without SDK fee, unless it tips
\* and has every venue account to open; one with SDK fee but no tip once the
\* user and the venues have their accounts.  (Others may be refused there.)
FitsPacket ==
    LET c == built.client
        small == \/ ~Sponsored
                 \/ ~c.sdk /\ (c.tip => built.holding # "nothing")
                 \/ ~c.tip /\ built.holding = "user"
    IN  (built # NotRead /\ TableIsCurrent /\ small) =>
            Bytes(PayerOf(c, built.settlement), Compiled(c, built.settlement, Program), Table)
                <= MAX_TRANSACTION_BYTES
=============================================================================

----------------------------- MODULE NativeSetup -----------------------------
(***************************************************************************)
(* fund_native_setup: a sponsored native route is rebuilt so that the      *)
(* sponsor, not the user, opens the accounts the route needs.  The builder *)
(* reads each account once, at an await, and remembers what it read and    *)
(* what its own instructions will make of it; everybody else goes on using *)
(* the chain.  The finished program then runs as one transaction against   *)
(* whatever the chain has become.                                          *)
(***************************************************************************)
EXTENDS ListOps, FiniteSets

CONSTANTS
    Calls,         \* routes prepared at the same time
    Routes,        \* raw instruction lists the venues build
    Worlds,        \* functions from Accounts a run may find on the chain
    TokenRent,     \* rent exemption of a token account, in lamports
    VaultRent,     \* rent exemption of an account without data: vault or wallet
    Wallets,       \* lamports the user's wallet may hold at execution
    Drifting,      \* accounts outsiders touch
    MaxMoves       \* bound: how often they do

\* The user's token accounts, the volume accumulators of both programs, the
\* creator vault of a curve and the fee recipients' token accounts.
UserAccounts == {"wsol", "token", "usdc"}
OtherAccounts == {"curve_volume", "pool_volume", "protocol", "creator", "bridge_creator",
                  "buyback", "cashback"}
Accounts == UserAccounts \cup OtherAccounts \cup {"vault"}

SetupAccount == [initialized : BOOLEAN, lamports : Nat]
Absent == [initialized |-> FALSE, lamports |-> 0]
Unread == [initialized |-> FALSE, lamports |-> -1]

Monus(a, b) == IF a > b THEN a - b ELSE 0

VARIABLES
    chain,     \* account -> [initialized, lamports]
    moves,     \* outsiders' moves so far
    phase,     \* per call: building, built, landed, reverted or failed
    route,     \* per call: the raw instructions, fixed
    turn,      \* per call: how many of them are appended
    taken,     \* per call: steps taken for the next of them
    accounts,  \* per call: the builder's cache of accounts
    seen,      \* per call: history, what the RPC said of an account
    refund,    \* per call: wsol_refund
    program,   \* per call: the instructions built
    effect     \* per call: the ledger before and after execution

builder == << phase, turn, taken, accounts, seen, refund, program >>
setup_vars == << chain, moves, route, effect, builder >>

NoEffect == [ran |-> FALSE]

-----------------------------------------------------------------------------
\* The steps NativeSetup::append takes for one raw instruction.

Step(do, acct) == [do |-> do, acct |-> acct]
Keep == << Step("keep", "wsol") >>

Volume(ix, acct) == IF ix.volume THEN << Step("volume", acct) >> ELSE << >>

PumpSwapSetup(ix) ==
    Volume(ix, "pool_volume")
    \o [i \in 1..Len(ix.recipients) |-> Step("ata", ix.recipients[i])]
    \o IF ix.cashback THEN << Step("ata", "cashback") >> ELSE << >>

PumpFunSetup(ix) == Volume(ix, "curve_volume") \o << Step("vault", "vault") >>

StepsFor(ix) ==
    CASE ix.op = "ata" -> << Step("ata", ix.acct) >>
      [] ix.op = "pumpswap" -> PumpSwapSetup(ix) \o Keep
      [] ix.op = "pumpfun" -> PumpFunSetup(ix) \o Keep
      [] OTHER -> Keep

-----------------------------------------------------------------------------
\* The routes the venues build.  A swap names the user's token accounts it
\* uses, the accounts it would open itself, and what it pays the user in SOL
\* and WSOL; a purchase pays less than nothing.

Swaps ==
    [op : {"pumpswap"}, recipients : Seq(OtherAccounts), volume : BOOLEAN,
     cashback : BOOLEAN, uses : SUBSET UserAccounts, opens : SUBSET OtherAccounts,
     sol : Int, wsol : Int]
    \cup [op : {"pumpfun"}, volume : BOOLEAN, uses : SUBSET UserAccounts,
          opens : SUBSET OtherAccounts, sol : Int, wsol : Int]
RawInstructions ==
    [op : {"ata"}, acct : UserAccounts] \cup [op : {"wrap"}, amt : Nat] \cup [op : {"close"}]
    \cup {ix \in Swaps : ix.wsol # 0 => "wsol" \in ix.uses}

\* The accounts a swap may miss are the ones its instruction lists.
Listed(ix) ==
    IF ix.op = "pumpfun" THEN IF ix.volume THEN {"curve_volume"} ELSE {}
    ELSE {ix.recipients[i] : i \in 1..Len(ix.recipients)}
         \cup (IF ix.volume THEN {"pool_volume"} ELSE {})
         \cup (IF ix.cashback THEN {"cashback"} ELSE {})

\* What a route has brought the user so far, in SOL and in an open WSOL account.
Spend(purse, ix) ==
    CASE ix.op = "ata" -> [purse EXCEPT !.open = @ \/ ix.acct = "wsol"]
      [] ix.op = "wrap" -> [purse EXCEPT !.sol = @ - ix.amt, !.wsol = @ + ix.amt]
      [] ix.op = "close" -> [open |-> FALSE, sol |-> purse.sol + purse.wsol, wsol |-> 0]
      [] OTHER -> [purse EXCEPT !.sol = @ + ix.sol, !.wsol = @ + ix.wsol]
Purses(r) ==
    LET purse[n \in 0..Len(r)] ==
            IF n = 0 THEN [open |-> FALSE, sol |-> 0, wsol |-> 0]
            ELSE Spend(purse[n - 1], r[n])
    IN  purse

NeedsWsol(ix) == ix.op \in {"wrap", "close"} \/ (ix \in Swaps /\ "wsol" \in ix.uses)

\* Accounts the user has whatever happens; what a route misses it opens.
Held == {a \in {"token", "usdc"} \ Drifting : \A w \in Worlds : w[a].initialized}

\* Only trades settled in USDC are sponsored (client.rs:80): their routes close
\* the WSOL account they open, use what is open, and spend of SOL only what
\* they have brought, the first leg's guarantee (usdc.rs:60).
WellBuilt(r) ==
    /\ \A i \in 1..Len(r) :
        /\ r[i].op = "ata" /\ r[i].acct = "wsol" =>
                \E j \in (i + 1)..Len(r) : r[j].op = "close"
        /\ NeedsWsol(r[i]) => Purses(r)[i - 1].open
        /\ Purses(r)[i].sol >= 0 /\ Purses(r)[i].wsol >= 0
        /\ r[i] \in Swaps =>
            /\ r[i].opens \subseteq Listed(r[i])
            /\ \A a \in r[i].uses \ ({"wsol"} \cup Held) :
                \E j \in 1..(i - 1) : r[j].op = "ata" /\ r[j].acct = a

ASSUME SetupAssumption ==
    /\ TokenRent \in Nat \ {0} /\ VaultRent \in Nat \ {0} /\ MaxMoves \in Nat
    /\ \A w \in Wallets : w = 0 \/ (w \in Nat /\ w >= VaultRent)
    /\ \A w \in Worlds :
        /\ w \in [Accounts -> SetupAccount]
        /\ w["wsol"].initialized => w["wsol"].lamports >= TokenRent
    /\ \A r \in Routes : r \in Seq(RawInstructions) /\ WellBuilt(r)

SetupInit ==
    /\ chain \in Worlds
    /\ moves = 0
    /\ phase = [c \in Calls |-> "building"]
    /\ route \in [Calls -> Routes]
    /\ turn = [c \in Calls |-> 0]
    /\ taken = [c \in Calls |-> 0]
    /\ seen = [c \in Calls |-> [a \in Accounts |-> Unread]]
    /\ accounts = seen
    /\ refund = [c \in Calls |-> 0]
    /\ program = [c \in Calls |-> << >>]
    /\ effect = [c \in Calls |-> NoEffect]

-----------------------------------------------------------------------------
\* The builder.  NativeSetup::account: the cache first, then the RPC.

Account(c, a) == IF accounts[c][a] = Unread THEN chain[a] ELSE accounts[c][a]

\* The cache after account(a) and an insert of what the program leaves there.
Cached(c, a, after) ==
    /\ seen' = IF accounts[c][a] = Unread THEN [seen EXCEPT ![c][a] = chain[a]] ELSE seen
    /\ accounts' = [accounts EXCEPT ![c][a] = after]

Push(c, ixs) == program' = [program EXCEPT ![c] = @ \o ixs]

Ata(a, strict) == [op |-> "ata", acct |-> a, strict |-> strict]

Appending(c) == phase[c] = "building" /\ turn[c] < Len(route[c])
Raw(c) == route[c][turn[c] + 1]
Now(c) == StepsFor(Raw(c))[taken[c] + 1]
Working(c, do) == Appending(c) /\ Now(c).do = do

\* The step is taken, and with the last one its instruction appended.
Took(c) ==
    /\ IF taken[c] + 1 < Len(StepsFor(Raw(c)))
       THEN taken' = [taken EXCEPT ![c] = @ + 1] /\ UNCHANGED turn
       ELSE taken' = [taken EXCEPT ![c] = 0] /\ turn' = [turn EXCEPT ![c] = @ + 1]
    /\ UNCHANGED << chain, moves, route, phase, effect >>

\* Slip: the refund ignores the lamports already at the address.
Deposit_Whole(account) == TokenRent

Deposit(account) == Monus(TokenRent, account.lamports)

\* Slip: the user's WSOL account is created if it is missing, like the others.
Strict_Never(a) == FALSE

\* Slip: every missing account is created strictly.
Strict_All(a) == TRUE

Strict(a) == a = "wsol"

CreateAta(c) ==
    /\ Working(c, "ata")
    /\ LET a == Now(c).acct
           account == Account(c, a)
       IN  IF account.initialized
           THEN Cached(c, a, account) /\ UNCHANGED << program, refund >>
           ELSE /\ Push(c, << Ata(a, Strict(a)) >>)
                /\ refund' = IF a = "wsol"
                             THEN [refund EXCEPT ![c] = Deposit(account)] ELSE refund
                /\ Cached(c, a, [account EXCEPT !.initialized = TRUE])
    /\ Took(c)

InitVolume(c) ==
    /\ Working(c, "volume")
    /\ LET a == Now(c).acct
           account == Account(c, a)
       IN  IF account.initialized
           THEN Cached(c, a, account) /\ UNCHANGED program
           ELSE /\ Push(c, << [op |-> "volume", acct |-> a] >>)
                /\ Cached(c, a, [initialized |-> TRUE, lamports |-> 0])
    /\ Took(c)
    /\ UNCHANGED refund

FundVault(c) ==
    /\ Working(c, "vault")
    /\ LET account == Account(c, "vault")
       IN  IF account.lamports >= VaultRent
           THEN Cached(c, "vault", account) /\ UNCHANGED program
           ELSE /\ Push(c, << [op |-> "fund", amt |-> VaultRent - account.lamports] >>)
                /\ Cached(c, "vault", [initialized |-> FALSE, lamports |-> VaultRent])
    /\ Took(c)
    /\ UNCHANGED refund

\* Slip: the builder goes on believing in the account it closed.
AfterClose_Open(c) == UNCHANGED << accounts, seen >>

AfterClose(c) ==
    /\ accounts' = [accounts EXCEPT ![c]["wsol"] = Absent]
    /\ UNCHANGED seen

KeepInstruction(c) ==
    /\ Working(c, "keep")
    /\ LET ix == Raw(c)
       IN  IF ix.op = "close"
           THEN /\ Push(c, << ix >> \o
                    IF refund[c] > 0 THEN << [op |-> "refund", amt |-> refund[c]] >> ELSE << >>)
                /\ refund' = [refund EXCEPT ![c] = 0]
                /\ AfterClose(c)
           ELSE Push(c, << ix >>) /\ UNCHANGED << refund, accounts, seen >>
    /\ Took(c)

Built(c) ==
    /\ phase[c] = "building"
    /\ turn[c] = Len(route[c])
    /\ phase' = [phase EXCEPT ![c] = "built"]
    /\ UNCHANGED << chain, moves, route, turn, taken, seen, accounts, refund, program, effect >>

\* An account cannot be read, or is not what its address promises.
ReadFails(c) ==
    /\ Appending(c)
    /\ Now(c).do # "keep"
    /\ phase' = [phase EXCEPT ![c] = "failed"]
    /\ UNCHANGED << chain, moves, route, turn, taken, seen, accounts, refund, program, effect >>

-----------------------------------------------------------------------------
\* The network.  A ledger is the accounts, the user's lamports, what the user
\* was made to pay for missing accounts, what the sponsor put into the user's
\* WSOL account and got back, whether every instruction succeeded, and whether
\* the wallet was left too little.

Ledger(world, lamports) ==
    [at |-> world, user |-> lamports, setup |-> 0, deposit |-> 0, refund |-> 0,
     ok |-> TRUE, dust |-> FALSE]

Reverted(l) == [l EXCEPT !.ok = FALSE]

\* Creation tops an address up to the rent exemption.
RunAta(l, ix) ==
    IF l.at[ix.acct].initialized
    THEN IF ix.strict THEN Reverted(l) ELSE l
    ELSE LET missing == Monus(TokenRent, l.at[ix.acct].lamports)
         IN  [l EXCEPT !.at[ix.acct] = [initialized |-> TRUE, lamports |-> @.lamports + missing],
                       !.deposit = IF ix.acct = "wsol" THEN @ + missing ELSE @]

RunVolume(l, ix) ==
    IF l.at[ix.acct].initialized THEN Reverted(l)
    ELSE [l EXCEPT !.at[ix.acct] = [initialized |-> TRUE, lamports |-> TokenRent]]

RunFund(l, ix) == [l EXCEPT !.at["vault"].lamports = @ + ix.amt]

\* A swap needs the user's token accounts; anything else it misses is opened
\* at the expense of the user, who signs as the trader.
RunSwap(l, ix) ==
    LET missing == {a \in ix.opens : ~l.at[a].initialized}
        vault == IF ix.op = "pumpfun" THEN Monus(VaultRent, l.at["vault"].lamports) ELSE 0
        bill == vault + TokenRent * Cardinality(missing)
        after == [l EXCEPT
            !.at = [a \in Accounts |->
                IF a \in missing THEN [initialized |-> TRUE, lamports |-> TokenRent]
                ELSE IF a = "vault" THEN [l.at[a] EXCEPT !.lamports = @ + vault]
                ELSE IF a = "wsol" THEN [l.at[a] EXCEPT !.lamports = @ + ix.wsol]
                ELSE l.at[a]],
            !.user = @ + ix.sol - bill,
            !.setup = @ + bill]
    IN  IF /\ \A a \in ix.uses : l.at[a].initialized
           /\ after.user >= 0
           /\ "wsol" \in ix.uses => after.at["wsol"].lamports >= TokenRent
        THEN after ELSE Reverted(l)

RunWrap(l, ix) ==
    IF l.user < ix.amt \/ ~l.at["wsol"].initialized THEN Reverted(l)
    ELSE [l EXCEPT !.user = @ - ix.amt, !.at["wsol"].lamports = @ + ix.amt]

RunClose(l) ==
    IF ~l.at["wsol"].initialized THEN Reverted(l)
    ELSE [l EXCEPT !.user = @ + l.at["wsol"].lamports, !.at["wsol"] = Absent]

RunRefund(l, ix) ==
    IF l.user < ix.amt THEN Reverted(l)
    ELSE [l EXCEPT !.user = @ - ix.amt, !.refund = @ + ix.amt]

Run(l, ix) ==
    CASE ~l.ok -> l
      [] l.ok /\ ix.op = "ata" -> RunAta(l, ix)
      [] l.ok /\ ix.op = "volume" -> RunVolume(l, ix)
      [] l.ok /\ ix.op = "fund" -> RunFund(l, ix)
      [] l.ok /\ ix.op \in {"pumpswap", "pumpfun"} -> RunSwap(l, ix)
      [] l.ok /\ ix.op = "wrap" -> RunWrap(l, ix)
      [] l.ok /\ ix.op = "close" -> RunClose(l)
      [] l.ok /\ ix.op = "refund" -> RunRefund(l, ix)

\* The network lets no wallet keep less than the rent exemption, save nothing:
\* the rule FundVault heeds for the vault.
Settle(l) ==
    IF l.ok /\ l.user \in 1..(VaultRent - 1)
    THEN [Reverted(l) EXCEPT !.dust = TRUE] ELSE l

RunAll(prog, start) ==
    LET ledger[n \in 0..Len(prog)] == IF n = 0 THEN start ELSE Run(ledger[n - 1], prog[n])
    IN  ledger[Len(prog)]

\* The user may well hold no SOL: the case sponsorship exists for.
RunProgram(c) ==
    /\ phase[c] = "built"
    /\ \E own \in Wallets :
       LET start == Ledger(chain, own)
           end == Settle(RunAll(program[c], start))
       IN  /\ effect' = [effect EXCEPT ![c] = [ran |-> TRUE, start |-> start, end |-> end]]
           /\ phase' = [phase EXCEPT ![c] = IF end.ok THEN "landed" ELSE "reverted"]
           /\ chain' = IF end.ok THEN end.at ELSE chain
    /\ UNCHANGED << moves, route, turn, taken, seen, accounts, refund, program >>

Outside(a, after) ==
    /\ moves < MaxMoves
    /\ moves' = moves + 1
    /\ chain' = [chain EXCEPT ![a] = after]
    /\ UNCHANGED << route, effect, builder >>

\* Somebody sends lamports to an address, opens an account, or empties one.
Donate(a) ==
    a \in Drifting /\ Outside(a, [chain[a] EXCEPT !.lamports = @ + 1])

Open(a) ==
    /\ a \in Drifting \ {"vault"}
    /\ ~chain[a].initialized
    /\ Outside(a, [initialized |-> TRUE,
                   lamports |-> chain[a].lamports + Monus(TokenRent, chain[a].lamports)])

Empty(a) ==
    /\ a \in Drifting
    /\ chain[a].initialized \/ a = "vault"
    /\ chain[a] # Absent
    /\ Outside(a, Absent)

SetupNext ==
    \/ \E c \in Calls :
        \/ CreateAta(c) \/ InitVolume(c) \/ FundVault(c) \/ KeepInstruction(c)
        \/ Built(c) \/ ReadFails(c) \/ RunProgram(c)
    \/ \E a \in Accounts : Donate(a) \/ Open(a) \/ Empty(a)

SetupSpec == SetupInit /\ [][SetupNext]_setup_vars

-----------------------------------------------------------------------------
Instructions ==
    [op : {"ata"}, acct : Accounts, strict : BOOLEAN]
    \cup [op : {"volume"}, acct : {"curve_volume", "pool_volume"}]
    \cup [op : {"fund", "refund"}, amt : Nat \ {0}]
    \cup {ix \in RawInstructions : ix.op # "ata"}

Ledgers ==
    [at : [Accounts -> SetupAccount], user : Nat, setup : Nat, deposit : Nat, refund : Nat,
     ok : BOOLEAN, dust : BOOLEAN]

\* Variables range as in the code; a call that is still building has no effect.
SetupTypeOK ==
    /\ chain \in [Accounts -> SetupAccount]
    /\ moves \in 0..MaxMoves
    /\ phase \in [Calls -> {"building", "built", "landed", "reverted", "failed"}]
    /\ route \in [Calls -> Routes]
    /\ turn \in [Calls -> Nat] /\ taken \in [Calls -> Nat]
    /\ \A c \in Calls :
        /\ turn[c] \in 0..Len(route[c])
        /\ taken[c] \in IF turn[c] < Len(route[c]) THEN 0..(Len(StepsFor(Raw(c))) - 1) ELSE {0}
    /\ accounts \in [Calls -> [Accounts -> SetupAccount \cup {Unread}]]
    /\ seen \in [Calls -> [Accounts -> SetupAccount \cup {Unread}]]
    /\ refund \in [Calls -> 0..TokenRent]
    /\ program \in [Calls -> Seq(Instructions)]
    /\ effect \in [Calls -> {NoEffect} \cup [ran : {TRUE}, start : Ledgers, end : Ledgers]]
    /\ \A c \in Calls : effect[c].ran <=> phase[c] \in {"landed", "reverted"}

Ran(c) == effect[c].ran
Start(c) == effect[c].start
End(c) == effect[c].end

\* Nothing the builder of c read has changed when its program runs.
Fresh(c) == \A a \in Accounts : seen[c][a] # Unread => Start(c).at[a] = seen[c][a]

\* README.md:171 and 175: the sponsor opens everything the route misses, so
\* only a race with another user of the accounts makes setup fail at
\* execution, or leaves anything for the user to pay.  A user without SOL may
\* besides be refused for what the route itself leaves over in the wallet.
FreshSetupLands ==
    \A c \in Calls :
        Ran(c) /\ Fresh(c) =>
            /\ End(c).setup = 0
            /\ End(c).ok \/ (End(c).dust /\ Start(c).user = 0)

\* What a racing route leaves of an account: it opens what it misses and tops
\* the vault up.  Its own WSOL account is closed again when it has run, and a
\* volume account it opened first makes the other creation fail.
Raced(read, now, a) ==
    IF a \in {"wsol", "curve_volume", "pool_volume"} THEN now = read
    ELSE now.lamports >= read.lamports /\ (read.initialized => now.initialized)

\* native.rs:131 and README.md:175: routes that read the same missing accounts
\* and execute one after the other both land with nothing for the user to pay,
\* for every account that is created idempotently or only topped up.  What is
\* refused is what FreshSetupLands excepts.
RacedSetupLands ==
    \A c \in Calls :
        /\ Ran(c)
        /\ \A a \in Accounts :
            seen[c][a] # Unread => Raced(seen[c][a], Start(c).at[a], a)
        =>  /\ End(c).setup = 0
            /\ End(c).ok \/ (End(c).dust /\ Start(c).user = 0)

\* README.md:165: "No contract deployment or user SOL top-up is needed."
NoTopUpNeeded == \A c \in Calls : Ran(c) /\ Fresh(c) => End(c).ok

\* README.md:173: the sponsor's temporary WSOL deposits, of one route or of
\* both legs of a bridged one, come back to it whole and no more than whole.
WsolDepositReturned ==
    \A c \in Calls :
        Ran(c) /\ End(c).ok /\ Start(c).at["wsol"] = seen[c]["wsol"] =>
            End(c).refund = End(c).deposit

\* What the swaps of a program pay the user in SOL.
Pays(ix) == IF ix.op \in {"pumpswap", "pumpfun"} THEN ix.wsol + ix.sol ELSE 0
Earned(prog) == SumOf([i \in 1..Len(prog) |-> Pays(prog[i])])

\* Lamports that reached the user's unopened WSOL address after it was read.
Late(account, read) ==
    IF account.initialized THEN 0 ELSE Monus(account.lamports, read.lamports)

\* native.rs:85 and 149: whoever opens, fills or empties the user's WSOL
\* account in the meantime, the refund is never taken from the user's own
\* rent, balance or proceeds, save for lamports sent to the bare address.
UserKeepsOwn ==
    \A c \in Calls :
        Ran(c) /\ End(c).ok =>
            End(c).user + End(c).at["wsol"].lamports + End(c).setup
                  + Late(Start(c).at["wsol"], seen[c]["wsol"])
                >= Start(c).user + Start(c).at["wsol"].lamports + Earned(program[c])
=============================================================================

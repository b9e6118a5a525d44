---------------------------- MODULE SwapExecution ----------------------------
(***************************************************************************)
(* TradingClient::submit: a prepared swap becomes a transaction, the       *)
(* sponsor's reimbursement is priced and written into it, the user and     *)
(* then the sponsor sign it, and a submitter is handed it once.  Every     *)
(* await of submit_swap is a step, so any number of calls interleave with  *)
(* each other, with the passing of time, with token accounts being opened  *)
(* and closed, and with the landing of transactions already handed over.   *)
(*                                                                         *)
(* Time is kept as ages that saturate just above the limit they are        *)
(* compared with: of the price quote, of the blockhash, of the wait for    *)
(* the price source.  RPC replies, signers, the price source and the       *)
(* submitter are environment: any reply, at any time, or none.             *)
(***************************************************************************)
EXTENDS FeePolicy, ListOps, FiniteSets

CONSTANTS
    Calls,            \* concurrent submit calls
    Addresses,        \* wallets, token owners and program accounts
    Client,           \* the client configuration, see FeePolicy
    Trades,           \* the trades callers may ask for
    Outputs,          \* records [expected, min]: what a venue may quote
    Setups,           \* instructions a venue may place before its swap
    Units,            \* simulated compute units; NoEstimate for none
    PriorityFee,      \* requested priority fee, lamports
    Tip,              \* the submitter's default tip, lamports; 0 for none
    BaseFee,          \* signature fee of a transaction, lamports
    Rent,             \* rent of one token account, lamports
    Accounts,         \* token accounts a transaction may have to open
    Rates,            \* USDC units per SOL a price source may report
    PriceAges,        \* ages a price may have on arrival; -1 is the future
    LamportsPerSol, MaxCost, ServiceFee,
    MaxPriceAge, PriceTimeout, BlockhashLife

NoEstimate == -1

\* A client as its builders leave it: SdkFee::new, GasSponsor::new.
ClientType ==
    [sdk : BOOLEAN, bps : {b \in Nat : b < BASIS_POINTS}, recipient : Addresses,
     sponsored : BOOLEAN, payer : Addresses, collector : Addresses, ceiling : Nat]

ASSUME ClientAssumption ==
    /\ Client \in ClientType
    /\ Client.sponsored => ValidSponsor(Client.ceiling, ServiceFee, MaxCost)

ASSUME AmountAssumption ==
    /\ LamportsPerSol \in Nat \ {0}
    /\ {MaxCost, ServiceFee, PriorityFee, Tip, BaseFee, Rent} \subseteq Nat
    /\ Rates \subseteq Nat /\ PriceAges \subseteq Int
    /\ {MaxPriceAge, PriceTimeout, BlockhashLife} \subseteq Nat
    /\ Units \subseteq Nat \cup {NoEstimate}

\* What callers and venues may hand in.
TradeType ==
    [side : {"Buy", "Sell"}, settlement : {"Sol", "Usdc"}, mint : STRING,
     venue : STRING, amount : Nat, slippage_bps : Nat, wallet : Addresses]
Ops == {"cu_limit", "cu_price", "tip", "create_ata", "swap_in", "swap_out",
        "sol_transfer", "usdc_transfer"}
Instruction == [op : Ops, by : Addresses, to : Addresses, amt : Int]

\* The operations that stand for the two fees and for the trade itself.
FeeOps == {"usdc_transfer", "sol_transfer"}
TradeOps == {"swap_in", "swap_out"}

ASSUME InputAssumption ==
    /\ {"none", "tips", "venue"} \subseteq Addresses
    /\ Trades \subseteq TradeType
    /\ Outputs \subseteq [expected : Nat, min : Nat]
    /\ Setups \subseteq Seq(Instruction)
    /\ \A setup \in Setups : \A i \in DOMAIN setup :
          setup[i].op \notin FeeOps \cup TradeOps
    /\ IsFiniteSet(Accounts)

VARIABLES
    stage,      \* where each call is in submit_swap
    tr,         \* its trade
    swap,       \* the PreparedSwap it executes
    msg,        \* the compiled message: a sequence of instructions
    est,        \* the sponsor debit the charge was computed from
    rate,       \* the price it was computed with
    priceAge, hashAge, waited,
    sigs,       \* signatures collected: records [by, over]
    res,        \* what submit returned
    chain,      \* held, handed (to the submitter), executed or reverted
    paid,       \* lamports the fee payer lost when it landed
    closed,     \* a token account was closed since the final cost check
    accounts    \* token accounts that exist on chain

vars == << stage, tr, swap, msg, est, rate, priceAge, hashAge, waited,
           sigs, res, chain, paid, closed, accounts >>

Stages == {"idle", "prepare", "units", "blockhash", "cost", "price",
           "recheck", "user_sign", "sponsor_sign", "submit", "done"}

PreparedSwap ==
    [in_amount : Int, expected_out : Int, min_out : Int, application_fee : Int,
     sponsorship_fee : Int, ixs : Seq(Instruction)]
NoSwap == [in_amount |-> 0, expected_out |-> 0, min_out |-> 0, application_fee |-> 0,
           sponsorship_fee |-> 0, ixs |-> << >>]

Pending == [kind |-> "pending", error |-> "None", app |-> 0, spons |-> 0]
Failed(e) == [kind |-> "err", error |-> e, app |-> 0, spons |-> 0]
Submitted(s, fee) == [kind |-> "ok", error |-> "None",
                      app |-> s.application_fee, spons |-> fee]

Sponsored(c) == SponsorFor(Client, tr[c])
Payer(c) == PayerOf(Client, tr[c])

-----------------------------------------------------------------------------
\* The transaction.

DEFAULT_CU_LIMIT == 350000
CU_LIMIT_MAX == 1400000
MicroLamports == 1000000

ComputeLimit(u) ==
    IF u = NoEstimate THEN DEFAULT_CU_LIMIT
    ELSE LET padded == (u * 12) \div 10
         IN  IF padded < 1 THEN 1
             ELSE IF padded > CU_LIMIT_MAX THEN CU_LIMIT_MAX ELSE padded

ComputePrice(limit) == (PriorityFee * MicroLamports) \div limit

TipInstructions(payer) ==
    IF Tip = 0 THEN << >> ELSE << Ix("tip", payer, "tips", Tip) >>

Compile(ixs, limit, payer) ==
    << Ix("cu_limit", payer, "none", limit),
       Ix("cu_price", payer, "none", ComputePrice(limit)) >>
    \o ixs \o TipInstructions(payer)

\* Where the last instruction of the prepared swap sits in the message.
ReimbursementIndex(s) == Len(s.ixs) + 2

RequiredSigners(m) == {m[i].by : i \in DOMAIN m}

\* user_signer_index: exactly the payer and the wallet sign.
SignersExpected(m, wallet, payer) ==
    /\ wallet \in RequiredSigners(m)
    /\ RequiredSigners(m) \subseteq {wallet, payer}

\* What the fee payer loses if the message executes now, and if it fails.
NetworkFee(m) == BaseFee + CeilDiv(m[1].amt * m[2].amt, MicroLamports)
Opened(m, accts) ==
    {a \in Accounts \ accts : \E i \in DOMAIN m : m[i].op = "create_ata" /\ m[i].to = a}
Debit(m, accts) == NetworkFee(m) + Tip + Rent * Cardinality(Opened(m, accts))

\* What a venue hands back for the trade it was given, before any charge.
RawSwap(t, o, setup) ==
    LET routed == RouteTrade(Client, t)
    IN  [in_amount |-> routed.amount, expected_out |-> o.expected,
         min_out |-> o.min, application_fee |-> 0, sponsorship_fee |-> 0,
         ixs |-> Append(setup,
                    IF t.side = "Buy"
                    THEN Ix("swap_in", t.wallet, "venue", routed.amount)
                    ELSE Ix("swap_out", t.wallet, "venue", o.min))]

\* What prepare_swap may return for it: charged as a compared candidate, or,
\* on a native SOL venue, directly.
PreparedSwaps(t, raw) ==
    {s \in {Charged(Client, t, raw)} : CanCharge(Client, t, raw)} \cup
    {s \in {DirectSwap(Client, t, raw)} : /\ ~ComparedByTrade(t)
                                          /\ CanApplySdkFee(Client, t, raw)}

-----------------------------------------------------------------------------
\* The sponsor's cost policy.

PriceIsFresh(age) == age >= 0 /\ age <= MaxPriceAge

\* Slip: the sponsor's lamport cap is not checked.
ChargeAllowed_NoCostCap(cost, price, age) ==
    /\ PriceIsFresh(age)
    /\ price > 0
    /\ ChargeFor(cost, price, ServiceFee, LamportsPerSol) <= Client.ceiling

ChargeAllowed(cost, price, age) ==
    /\ PriceIsFresh(age)
    /\ price > 0
    /\ cost <= MaxCost
    /\ ChargeFor(cost, price, ServiceFee, LamportsPerSol) <= Client.ceiling

\* replace_reimbursement finds the reserved transfer and lowers it.
HoldsReserve(m, i) ==
    i \in DOMAIN m /\ m[i].op = "usdc_transfer" /\ m[i].amt = Client.ceiling

Replaced(m, i, charge) == [m EXCEPT ![i].amt = charge]

\* Slip: the second simulation's result is not compared.
SameCost_Ignored(now, before) == TRUE

SameCost(now, before) == now = before

\* The cost simulations keep the message's own blockhash, so it must be live.
HashIsLive(c) == hashAge[c] <= BlockhashLife

-----------------------------------------------------------------------------
Init ==
    /\ stage = [c \in Calls |-> "idle"]
    /\ tr \in [Calls -> Trades]
    /\ swap = [c \in Calls |-> NoSwap]
    /\ msg = [c \in Calls |-> << >>]
    /\ est = [c \in Calls |-> 0]
    /\ rate = [c \in Calls |-> 0]
    /\ priceAge = [c \in Calls |-> 0]
    /\ hashAge = [c \in Calls |-> 0]
    /\ waited = [c \in Calls |-> 0]
    /\ sigs = [c \in Calls |-> {}]
    /\ res = [c \in Calls |-> Pending]
    /\ chain = [c \in Calls |-> "held"]
    /\ paid = [c \in Calls |-> 0]
    /\ closed = [c \in Calls |-> FALSE]
    /\ accounts \in SUBSET Accounts

At(c, s) == stage[c] = s
Goto(c, s) == stage' = [stage EXCEPT ![c] = s]
\* Slip: the call ends without a result.
Return_Lost(c, r) == Goto(c, "done") /\ UNCHANGED res

Return(c, r) == Goto(c, "done") /\ res' = [res EXCEPT ![c] = r]

costState == << est, rate, priceAge, waited >>
ledger == << paid, closed, accounts >>

\* Entry of submit: the trade is checked before anything is asked of a venue.
Begin(c) ==
    /\ At(c, "idle")
    /\ Routable(Client, tr[c])
    /\ Goto(c, "prepare")
    /\ UNCHANGED << tr, swap, msg, hashAge, sigs, res, chain, costState, ledger >>

Reject(c) ==
    /\ At(c, "idle")
    /\ ~Routable(Client, tr[c])
    /\ Return(c, Failed("Build"))
    /\ UNCHANGED << tr, swap, msg, hashAge, sigs, chain, costState, ledger >>

Prepare(c) ==
    /\ At(c, "prepare")
    /\ \E o \in Outputs, setup \in Setups :
         \E s \in PreparedSwaps(tr[c], RawSwap(tr[c], o, setup)) :
            swap' = [swap EXCEPT ![c] = s]
    /\ Goto(c, "units")
    /\ UNCHANGED << tr, msg, hashAge, sigs, res, chain, costState, ledger >>

\* The unit simulation fixes the compute budget, hence the message.
SimulateUnits(c) ==
    /\ At(c, "units")
    /\ \E u \in Units :
         msg' = [msg EXCEPT ![c] = Compile(swap[c].ixs, ComputeLimit(u), Payer(c))]
    /\ Goto(c, "blockhash")
    /\ UNCHANGED << tr, swap, hashAge, sigs, res, chain, costState, ledger >>

StageAfterCompile(c) == IF Sponsored(c) THEN "cost" ELSE "user_sign"

\* The latest blockhash completes the message; its signers are checked.
FetchBlockhash(c) ==
    /\ At(c, "blockhash")
    /\ SignersExpected(msg[c], tr[c].wallet, Payer(c))
    /\ hashAge' = [hashAge EXCEPT ![c] = 0]
    /\ Goto(c, StageAfterCompile(c))
    /\ UNCHANGED << tr, swap, msg, sigs, res, chain, costState, ledger >>

RefuseSigners(c) ==
    /\ At(c, "blockhash")
    /\ ~SignersExpected(msg[c], tr[c].wallet, Payer(c))
    /\ Return(c, Failed("Sign"))
    /\ UNCHANGED << tr, swap, msg, hashAge, sigs, chain, costState, ledger >>

\* The first cost simulation, of the message as it stands.
SimulateCost(c) ==
    /\ At(c, "cost")
    /\ HashIsLive(c)
    /\ est' = [est EXCEPT ![c] = Debit(msg[c], accounts)]
    /\ waited' = [waited EXCEPT ![c] = 0]
    /\ Goto(c, "price")
    /\ UNCHANGED << tr, swap, msg, rate, priceAge, hashAge, sigs, res, chain, ledger >>

\* The price source answers: the charge replaces the reserved ceiling.
AcceptPrice(c) ==
    /\ At(c, "price")
    /\ \E p \in Rates, age \in PriceAges :
         LET i == ReimbursementIndex(swap[c])
             charge == ChargeFor(est[c], p, ServiceFee, LamportsPerSol)
         IN  /\ ChargeAllowed(est[c], p, age)
             /\ HoldsReserve(msg[c], i)
             /\ msg' = [msg EXCEPT ![c] = Replaced(@, i, charge)]
             /\ rate' = [rate EXCEPT ![c] = p]
             /\ priceAge' = [priceAge EXCEPT ![c] = age]
    /\ Goto(c, "recheck")
    /\ UNCHANGED << tr, swap, est, waited, hashAge, sigs, res, chain, ledger >>

RefusePrice(c) ==
    /\ At(c, "price")
    /\ \E p \in Rates, age \in PriceAges :
         ~(/\ ChargeAllowed(est[c], p, age)
           /\ HoldsReserve(msg[c], ReimbursementIndex(swap[c])))
    /\ Return(c, Failed("Build"))
    /\ UNCHANGED << tr, swap, msg, hashAge, sigs, chain, costState, ledger >>

\* Slip: the price request is awaited without a timeout.
PriceTimesOut_Never(c) == FALSE

PriceTimesOut(c) ==
    /\ At(c, "price")
    /\ waited[c] >= PriceTimeout
    /\ Return(c, Failed("Build"))
    /\ UNCHANGED << tr, swap, msg, hashAge, sigs, chain, costState, ledger >>

\* The second cost simulation, of the message with its final charge.
ChargeStillHolds(c) ==
    /\ SameCost(Debit(msg[c], accounts), est[c])
    /\ ChargeAllowed(est[c], rate[c], priceAge[c])

ConfirmCharge(c) ==
    /\ At(c, "recheck")
    /\ HashIsLive(c)
    /\ ChargeStillHolds(c)
    /\ closed' = [closed EXCEPT ![c] = FALSE]
    /\ Goto(c, "user_sign")
    /\ UNCHANGED << tr, swap, msg, hashAge, sigs, res, chain, costState, paid, accounts >>

RefuseCharge(c) ==
    /\ At(c, "recheck")
    /\ ~ChargeStillHolds(c)
    /\ Return(c, Failed("Build"))
    /\ UNCHANGED << tr, swap, msg, hashAge, sigs, chain, costState, ledger >>

Signed(c, who) == sigs' = [sigs EXCEPT ![c] = @ \cup {[by |-> who, over |-> msg[c]]}]

\* With its last signature the transaction goes to the submitter at once.
HandOver(c) ==
    /\ Goto(c, "submit")
    /\ chain' = [chain EXCEPT ![c] = "handed"]

\* Slip: the transaction leaves with the user's signature alone.
SponsorMustSign_Never(c) == FALSE

SponsorMustSign(c) == Sponsored(c)

\* Slip: a blockhash that aged while the user signed is fetched again.
UserSigns_FreshHash(c) ==
    /\ At(c, "user_sign")
    /\ Signed(c, tr[c].wallet)
    /\ hashAge' = [hashAge EXCEPT ![c] = 0]
    /\ IF SponsorMustSign(c) THEN Goto(c, "sponsor_sign") /\ UNCHANGED chain
                             ELSE HandOver(c)
    /\ UNCHANGED << tr, swap, msg, res, costState, ledger >>

UserSigns(c) ==
    /\ At(c, "user_sign")
    /\ Signed(c, tr[c].wallet)
    /\ IF SponsorMustSign(c) THEN Goto(c, "sponsor_sign") /\ UNCHANGED chain
                             ELSE HandOver(c)
    /\ UNCHANGED << tr, swap, msg, hashAge, res, costState, ledger >>

SponsorSigns(c) ==
    /\ At(c, "sponsor_sign")
    /\ Signed(c, Client.payer)
    /\ HandOver(c)
    /\ UNCHANGED << tr, swap, msg, hashAge, res, costState, ledger >>

\* The sponsorship fee reported is the one finalize_fee returned.
FinalFee(c) ==
    IF Sponsored(c) THEN ChargeFor(est[c], rate[c], ServiceFee, LamportsPerSol)
    ELSE swap[c].sponsorship_fee

SubmitAnswers(c) ==
    /\ At(c, "submit")
    /\ Return(c, Submitted(swap[c], FinalFee(c)))
    /\ UNCHANGED << tr, swap, msg, hashAge, sigs, chain, costState, ledger >>

\* Slip: a submitter's error is reported as an RPC error.
Errors_SubmitAsRpc(s) ==
    CASE s \in {"units", "cost", "recheck"} -> {"Rpc", "Simulation", "Build"}
      [] s = "blockhash" -> {"Rpc", "Build"}
      [] s \in {"prepare", "price"} -> {"Build"}
      [] s \in {"user_sign", "sponsor_sign"} -> {"Sign"}
      [] s = "submit" -> {"Rpc"}
      [] OTHER -> {}

\* Errors an await may end in whatever the values before it.
Errors(s) ==
    CASE s \in {"units", "cost", "recheck"} -> {"Rpc", "Simulation", "Build"}
      [] s = "blockhash" -> {"Rpc", "Build"}
      [] s \in {"prepare", "price"} -> {"Build"}
      [] s \in {"user_sign", "sponsor_sign"} -> {"Sign"}
      [] s = "submit" -> {"Submit"}
      [] OTHER -> {}

Fail(c) ==
    /\ \E e \in Errors(stage[c]) : Return(c, Failed(e))
    /\ UNCHANGED << tr, swap, msg, hashAge, sigs, chain, costState, ledger >>

-----------------------------------------------------------------------------
\* Environment.

FullySigned(c) == \A w \in RequiredSigners(msg[c]) :
                     [by |-> w, over |-> msg[c]] \in sigs[c]

Landable(c) ==
    /\ chain[c] = "handed"
    /\ HashIsLive(c)
    /\ FullySigned(c)

Execute(c) ==
    /\ Landable(c)
    /\ chain' = [chain EXCEPT ![c] = "executed"]
    /\ paid' = [paid EXCEPT ![c] = Debit(msg[c], accounts)]
    /\ accounts' = accounts \cup Opened(msg[c], accounts)
    /\ UNCHANGED << stage, tr, swap, msg, hashAge, sigs, res, closed, costState >>

\* A failed transaction rolls back; its payer still loses the network fee.
Revert(c) ==
    /\ Landable(c)
    /\ chain' = [chain EXCEPT ![c] = "reverted"]
    /\ paid' = [paid EXCEPT ![c] = NetworkFee(msg[c])]
    /\ UNCHANGED << stage, tr, swap, msg, hashAge, sigs, res, closed, accounts, costState >>

OpenAccount ==
    /\ \E a \in Accounts \ accounts : accounts' = accounts \cup {a}
    /\ UNCHANGED << stage, tr, swap, msg, hashAge, sigs, res, chain, paid, closed, costState >>

CloseAccount ==
    /\ \E a \in accounts : accounts' = accounts \ {a}
    /\ closed' = [c \in Calls |-> TRUE]
    /\ UNCHANGED << stage, tr, swap, msg, hashAge, sigs, res, chain, paid, costState >>

\* The blockhash ages from its fetch until the transaction can no longer land.
HashInUse(c) ==
    \/ stage[c] \in {"cost", "price", "recheck", "user_sign", "sponsor_sign", "submit"}
    \/ chain[c] = "handed"

\* So does the price a charge was computed from.
PriceInUse(c) ==
    /\ Sponsored(c)
    /\ \/ stage[c] \in {"recheck", "user_sign", "sponsor_sign", "submit"}
       \/ chain[c] = "handed"

Older(age, limit) == IF age > limit THEN age ELSE age + 1

\* A price older than any that can still land is not told from an older one.
Tick ==
    /\ priceAge' = [c \in Calls |->
          IF PriceInUse(c) THEN Older(priceAge[c], MaxPriceAge + BlockhashLife)
          ELSE priceAge[c]]
    /\ waited' = [c \in Calls |->
          IF At(c, "price") THEN Older(waited[c], PriceTimeout) ELSE waited[c]]
    /\ hashAge' = [c \in Calls |->
          IF HashInUse(c)
          THEN Older(hashAge[c], BlockhashLife) ELSE hashAge[c]]
    /\ UNCHANGED << stage, tr, swap, msg, est, rate, sigs, res, chain, ledger >>

-----------------------------------------------------------------------------
\* Steps the library takes by itself or when an RPC request ends, steps that
\* wait for a signer or the submitter, and the rest of the world.
RpcReply(c) ==
    \/ Prepare(c) \/ SimulateUnits(c)
    \/ FetchBlockhash(c) \/ RefuseSigners(c)
    \/ SimulateCost(c) \/ ConfirmCharge(c) \/ RefuseCharge(c)
    \/ stage[c] \in {"prepare", "units", "blockhash", "cost", "recheck"} /\ Fail(c)

OutsideReply(c) ==
    \/ AcceptPrice(c) \/ RefusePrice(c)
    \/ UserSigns(c) \/ SponsorSigns(c) \/ SubmitAnswers(c)
    \/ stage[c] \in {"price", "user_sign", "sponsor_sign", "submit"} /\ Fail(c)

Step(c) ==
    \/ Begin(c) \/ Reject(c)
    \/ RpcReply(c)
    \/ PriceTimesOut(c)
    \/ OutsideReply(c)

Land(c) == Execute(c) \/ Revert(c)

Next ==
    \/ \E c \in Calls : Step(c) \/ Land(c)
    \/ OpenAccount \/ CloseAccount
    \/ Tick

Spec == Init /\ [][Next]_vars

\* The RPC client bounds every request with a timeout of its own, and tokio
\* fires an elapsed timer: no fairness for signers, price source, submitter.
Fairness ==
    /\ \A c \in Calls : /\ WF_vars(RpcReply(c))
                        /\ WF_vars(PriceTimesOut(c))
                        /\ WF_vars(Begin(c) \/ Reject(c))
    /\ WF_vars(Tick)

FairSpec == Spec /\ Fairness

-----------------------------------------------------------------------------
(* Properties. *)

Result == [kind : {"pending", "ok", "err"},
           error : {"None", "Rpc", "Simulation", "Build", "Sign", "Submit"},
           app : Int, spons : Int]

\* Types, and a result exactly when the call is done.
TypeOK ==
    /\ stage \in [Calls -> Stages]
    /\ tr \in [Calls -> Trades]
    /\ swap \in [Calls -> PreparedSwap]
    /\ msg \in [Calls -> Seq(Instruction)]
    /\ sigs \in [Calls -> SUBSET [by : Addresses, over : Seq(Instruction)]]
    /\ res \in [Calls -> Result]
    /\ est \in [Calls -> Int]
    /\ rate \in [Calls -> Nat]
    /\ priceAge \in [Calls -> Int]
    /\ hashAge \in [Calls -> 0..(BlockhashLife + 1)]
    /\ waited \in [Calls -> 0..(PriceTimeout + 1)]
    /\ \A c \in Calls : res[c].kind = "pending" <=> stage[c] # "done"
    /\ chain \in [Calls -> {"held", "handed", "executed", "reverted"}]
    /\ paid \in [Calls -> Int]
    /\ closed \in [Calls -> BOOLEAN]
    /\ accounts \subseteq Accounts

\* A transaction leaves the library only with the signature of every account
\* its message requires, all over one message, the one that lands: nothing is
\* rewritten after the first signature (executor.rs: finalize_fee, sign).
SignaturesCoverFinalMessage ==
    \A c \in Calls :
        /\ \A s \in sigs[c] : s.over = msg[c]
        /\ chain[c] # "held" => FullySigned(c)

\* Whatever is signed for a sponsored trade, by the user or by the sponsor,
\* moves to the fee collector exactly the charge computed from the simulated
\* cost and the accepted price, and that cost and that charge are within the
\* sponsor's two caps: neither ever signs the reserved ceiling by accident.
SponsorAuthorisesBoundedCharge ==
    \A c \in Calls : \A s \in sigs[c] :
        Sponsored(c) =>
            LET charge == ChargeFor(est[c], rate[c], ServiceFee, LamportsPerSol)
            IN  /\ s.over[ReimbursementIndex(swap[c])] =
                      Ix("usdc_transfer", tr[c].wallet, Client.collector, charge)
                /\ charge <= Client.ceiling
                /\ est[c] <= MaxCost

\* No step asks again how old the price is once the charge is confirmed
\* (executor.rs signs and submits whatever the signers' delay), so only the
\* blockhash bounds it: fetched before the price and never fetched again, it
\* expires first, and a sponsored trade that lands was priced no longer ago
\* than both limits together.
StaleChargeNeverLands ==
    [][\A c \in Calls :
        (Sponsored(c) /\ chain[c] = "handed" /\ chain'[c] # "handed") =>
            priceAge[c] <= MaxPriceAge + BlockhashLife]_vars

\* An error of any kind but Submit means the transaction was never handed
\* over and can never land; the caller may retry without trading twice.
OnlySubmitErrorsLeaveDoubt ==
    \A c \in Calls :
        (res[c].kind = "err" /\ res[c].error # "Submit") => chain[c] = "held"

\* What the instructions of some operations move in a message.
Moved(m, ops) ==
    SumOf([i \in 1..Len(m) |-> IF m[i].op \in ops THEN m[i].amt ELSE 0])

\* Settlement currency the wallet's fee transfers move in a message.
FeesMoved(c) == Moved(msg[c], FeeOps)

\* An executed buy takes at most the requested amount from the wallet, swap
\* input and both fees together; an executed sell that gets the venue's
\* minimum leaves at least the quoted minimum after both fees.
BudgetKept ==
    \A c \in Calls : chain[c] = "executed" =>
        /\ tr[c].side = "Buy" =>
              Moved(msg[c], {"swap_in"}) + FeesMoved(c) <= tr[c].amount
        /\ tr[c].side = "Sell" =>
              Moved(msg[c], {"swap_out"}) - FeesMoved(c) >= swap[c].min_out

\* An executed sponsored trade repays the sponsor at least what it paid, at
\* the accepted price, plus the service fee, and costs it no more than its
\* cap, unless some token account was closed after the last cost check (the
\* drift cost.rs documents).
ReimbursementCoversCost ==
    \A c \in Calls :
        (Sponsored(c) /\ chain[c] = "executed" /\ ~closed[c]) =>
            LET charge == msg[c][ReimbursementIndex(swap[c])].amt
            IN  /\ (charge - ServiceFee) * LamportsPerSol >= paid[c] * rate[c]
                /\ paid[c] <= MaxCost

\* Rounding the compute-unit price down keeps the priority fee the network
\* takes within the one requested, for estimated, missing and clamped limits.
PriorityFeeWithinRequest ==
    \A c \in Calls : msg[c] # << >> => NetworkFee(msg[c]) <= BaseFee + PriorityFee

\* A submit call returns, or waits for a signer or the submitter for ever:
\* the price source cannot hold it, and no RPC failure can.
ReturnsUnlessOutsiderHangs ==
    \A c \in Calls :
        \/ <>(stage[c] = "done")
        \/ <>[](stage[c] \in {"user_sign", "sponsor_sign", "submit"})

-----------------------------------------------------------------------------
(* What a caller sees of it, and the contract that view obeys. *)

PhaseSeen(c) ==
    CASE chain[c] = "held" /\ stage[c] # "done" -> "open"
      [] chain[c] = "held" /\ stage[c] = "done" -> "refused"
      [] chain[c] # "held" /\ stage[c] # "done" -> "handed"
      [] chain[c] # "held" /\ stage[c] = "done" -> "answered"

FeesSeen(c) ==
    IF chain[c] = "held" THEN [moved |-> 0, spons |-> 0]
    ELSE [moved |-> FeesMoved(c),
          spons |-> IF Sponsored(c) THEN msg[c][ReimbursementIndex(swap[c])].amt ELSE 0]

Contract == INSTANCE SwapContract WITH
    Ceiling <- Client.ceiling,
    phase <- [c \in Calls |-> PhaseSeen(c)],
    fees <- [c \in Calls |-> FeesSeen(c)],
    answer <- res,
    outcome <- [c \in Calls |->
        IF chain[c] \in {"executed", "reverted"} THEN chain[c] ELSE "none"]

\* submit keeps the contract its callers rely on: one transaction at most,
\* its fees frozen once it leaves, no answer that contradicts it, and nothing
\* on chain after any error but Submit.
KeepsContract == Contract!Spec
=============================================================================

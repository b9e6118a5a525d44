---------------------------- MODULE BridgedRoute ----------------------------
(***************************************************************************)
(* How a native venue prepares a swap, directly or in two legs: a trade    *)
(* settled in USDC goes through SOL for a curve or a SOL pool, a trade     *)
(* settled in SOL goes through USDC for a USDC pool.  Each leg is priced   *)
(* from reserves read at an await of its own, while others trade, with fee *)
(* settings each adapter reads once and keeps.  The route then runs as one *)
(* transaction in which a venue may pay anything its instruction allows.   *)
(***************************************************************************)
EXTENDS CurveMath, ListOps

CONSTANTS
    Trades,        \* what may be asked for
    Reserves,      \* what a read of a pool or curve may return
    FeeSettings,   \* what a read of an adapter's fee settings may return
    Slack          \* bound: how much better than its limits a venue may do

TradeType ==
    [side : {"Buy", "Sell"}, settlement : {"Sol", "Usdc"}, venue : {"PumpFun", "PumpSwap"},
     quote : {"sol", "usdc", "other"}, amount : Nat, slippage_bps : 0..BPS]
ReserveType == [vault : Nat, virtual : Int, base : Nat, real : Nat, creator : BOOLEAN]
FeeType == [lp : Nat, protocol : Nat, creator : Nat]

ASSUME BridgeAssumption ==
    /\ Slack \in Nat
    /\ Trades \subseteq TradeType
    /\ Reserves \subseteq ReserveType
    /\ FeeSettings \subseteq FeeType

VARIABLES
    trade,      \* the request: fixed
    stage,      \* load, quote, built, run, landed, reverted or error
    cache,      \* per adapter: fee_settings, or Unset
    snapshot,   \* per leg: the pool and fees it is priced from, or Unset
    legs,       \* the priced legs
    answer,     \* the quote of the prepared swap
    ran,        \* legs executed
    wallet      \* asset -> what the transaction has of it

vars == << trade, stage, cache, snapshot, legs, answer, ran, wallet >>

Unset == [unset |-> TRUE]
Assets == {"sol", "usdc", "token"}

-----------------------------------------------------------------------------
\* Which legs a trade takes, in the order they run.

Leg(at, side, form, give, get) ==
    [at |-> at, side |-> side, form |-> form, give |-> give, get |-> get]

Settled(t) == IF t.settlement = "Sol" THEN "sol" ELSE "usdc"
QuoteOf(t) == IF t.venue = "PumpFun" THEN "sol" ELSE t.quote
Bridged(t) == QuoteOf(t) # Settled(t)

Direct(t) ==
    IF t.side = "Buy"
    THEN << Leg("target", "Buy", "exact_in", QuoteOf(t), "token") >>
    ELSE << Leg("target", "Sell", "exact_in", "token", QuoteOf(t)) >>

\* prepare_via_sol; the bridge pool sells USDC against SOL.
ViaSol(t) ==
    IF t.side = "Buy"
    THEN << Leg("bridge", "Sell", "exact_in", "usdc", "sol") >> \o Direct(t)
    ELSE Direct(t) \o << Leg("bridge", "Buy", "exact_in", "sol", "usdc") >>

\* prepare_usdc_route; a buy takes exactly the USDC its second leg spends.
ViaUsdc(t) ==
    IF t.side = "Buy"
    THEN << Leg("bridge", "Buy", "exact_out", "sol", "usdc") >> \o Direct(t)
    ELSE Direct(t) \o << Leg("bridge", "Sell", "exact_in", "usdc", "sol") >>

Route(t) ==
    IF ~Bridged(t) THEN Direct(t)
    ELSE IF QuoteOf(t) = "sol" THEN ViaSol(t) ELSE ViaUsdc(t)

\* A pool quoted in neither currency is refused.
Supported(t) == QuoteOf(t) \in {"sol", "usdc"}

\* The leg that is loaded n-th: the adapter that bridges to USDC itself loads
\* its own pool first, whatever runs first.
LoadOrder(t) ==
    IF Bridged(t) /\ QuoteOf(t) = "usdc" /\ t.side = "Buy"
    THEN << 2, 1 >> ELSE << 1, 2 >>

Adapter(leg) == IF leg.at = "target" THEN trade.venue ELSE "PumpSwap"

Init ==
    /\ trade \in Trades
    /\ stage = "load"
    /\ cache \in [{"PumpFun", "PumpSwap"} -> FeeSettings \cup {Unset}]
    /\ snapshot = [i \in 1..2 |-> Unset]
    /\ legs = << >>
    /\ answer = Unset
    /\ ran = 0
    /\ wallet = [a \in Assets |-> 0]

-----------------------------------------------------------------------------
\* Pricing a leg.

\* effective_quote_reserves.
EffectiveQuote(r) == r.vault + r.virtual

Priced(r) ==
    [quote |-> EffectiveQuote(r), base |-> r.base, real |-> r.real]

Charged(r, f) == IF r.creator THEN f ELSE [f EXCEPT !.creator = 0]

Slippage(leg) ==
    IF ~Bridged(trade) THEN trade.slippage_bps
    ELSE IF leg.at = "bridge" THEN RouteSlippage(trade.slippage_bps).bridge
    ELSE RouteSlippage(trade.slippage_bps).target

\* Dex::prepare_swap's quote for one leg of amount amt.
LegQuote(i, amt, slippage) ==
    LET leg == Route(trade)[i]
        pool == snapshot[i].pool
        fees == snapshot[i].fees
    IN  CASE Adapter(leg) = "PumpFun" /\ leg.side = "Buy" -> CurveBuy(pool, fees, amt, slippage)
          [] Adapter(leg) = "PumpFun" /\ leg.side = "Sell" -> CurveSell(pool, fees, amt, slippage)
          [] Adapter(leg) = "PumpSwap" /\ leg.side = "Buy" -> PoolBuy(pool, fees, amt, slippage)
          [] Adapter(leg) = "PumpSwap" /\ leg.side = "Sell" -> PoolSell(pool, fees, amt, slippage)

FirstQuote == LegQuote(1, trade.amount, Slippage(Route(trade)[1]))

\* Slip: the second leg spends what the first is expected to bring.
SecondInput_Expected(first) == first.expected_out

\* The second leg's input: only what the first leg guarantees.
SecondInput(first) == first.min_out

SecondQuote == LegQuote(2, SecondInput(FirstQuote), Slippage(Route(trade)[2]))

-----------------------------------------------------------------------------
\* Preparation.

Fail == stage' = "error" /\ UNCHANGED << answer, legs >>

Refuse ==
    /\ stage = "load"
    /\ ~Supported(trade)
    /\ Fail
    /\ UNCHANGED << trade, cache, snapshot, ran, wallet >>

Pending == Only(LoadOrder(trade), {i \in 1..Len(Route(trade)) : snapshot[i] = Unset})

\* prepare_via_sol gives up on an empty first leg before it loads the second.
FirstLegEmpty ==
    /\ Bridged(trade) /\ QuoteOf(trade) = "sol"
    /\ snapshot[1] # Unset
    /\ FirstQuote.min_out = 0

GiveUp ==
    /\ stage = "load"
    /\ FirstLegEmpty
    /\ Fail
    /\ UNCHANGED << trade, cache, snapshot, ran, wallet >>

\* Load one leg's pool, then the adapter's fee settings unless it has them.
Load ==
    /\ stage = "load"
    /\ Supported(trade)
    /\ Pending # << >>
    /\ ~FirstLegEmpty
    /\ LET i == Head(Pending)
           adapter == Adapter(Route(trade)[i])
       IN  \E r \in Reserves,
              f \in IF cache[adapter] = Unset THEN FeeSettings ELSE {cache[adapter]} :
            /\ EffectiveQuote(r) >= 0
            /\ cache' = [cache EXCEPT ![adapter] = f]
            /\ snapshot' = [snapshot EXCEPT ![i] =
                               [pool |-> Priced(r), fees |-> Charged(r, f)]]
    /\ stage' = IF Len(Pending) = 1 THEN "quote" ELSE "load"
    /\ UNCHANGED << trade, legs, answer, ran, wallet >>

\* The RPC fails, the curve is complete, the pool is another or cannot be
\* read, or its reserves are negative.
LoadFails ==
    /\ stage = "load"
    /\ Supported(trade)
    /\ ~FirstLegEmpty
    /\ Fail
    /\ UNCHANGED << trade, cache, snapshot, ran, wallet >>

Quotes == IF Bridged(trade) THEN << FirstQuote, SecondQuote >> ELSE << FirstQuote >>

\* A route with an empty leg is refused; a direct swap's quote goes unjudged.
EmptyLeg == Bridged(trade) /\ \E i \in 1..2 : Quotes[i].min_out = 0

\* Slip: the reported minimum leaves the slippage out.
Reported_Expected(quotes) ==
    [quotes[Len(quotes)] EXCEPT !.min_out = quotes[Len(quotes)].expected_out]

\* The quote reported for a route: the last leg's output.
Reported(quotes) == quotes[Len(quotes)]

\* The trade's input, the last leg's output and the bridge's fee.
RouteQuote ==
    LET bridge == CHOOSE i \in 1..Len(Quotes) : Bridged(trade) => Route(trade)[i].at = "bridge"
    IN  [Reported(Quotes) EXCEPT !.in_amount = trade.amount, !.fee = Quotes[bridge].fee]

Assemble ==
    /\ stage = "quote"
    /\ ~EmptyLeg
    /\ stage' = "built"
    /\ legs' = Quotes
    /\ answer' = RouteQuote
    /\ UNCHANGED << trade, cache, snapshot, ran, wallet >>

RefuseEmpty ==
    /\ stage = "quote"
    /\ EmptyLeg
    /\ Fail
    /\ UNCHANGED << trade, cache, snapshot, ran, wallet >>

-----------------------------------------------------------------------------
\* The transaction: the wallet brings the trade's input and nothing else.

Execute ==
    /\ stage = "built"
    /\ stage' = "run"
    /\ wallet' = [wallet EXCEPT ![Route(trade)[1].give] = trade.amount]
    /\ UNCHANGED << trade, cache, snapshot, legs, answer, ran >>

Current == Route(trade)[ran + 1]
Limit == legs[ran + 1]

\* What a venue may take and pay: a sale takes its input whole, a buy of an
\* exact output may take less than its cap.
Taken == IF Current.side = "Sell" THEN {Limit.in_amount}
         ELSE {Less(Limit.in_amount, d) : d \in 0..Slack}
Paid == IF Current.form = "exact_out" THEN {Limit.min_out}
        ELSE {Limit.min_out + d : d \in 0..Slack}

RunLeg ==
    /\ stage = "run"
    /\ \E taken \in Taken, paid \in Paid :
        wallet' = [wallet EXCEPT ![Current.give] = @ - taken, ![Current.get] = @ + paid]
    /\ ran' = ran + 1
    /\ stage' = IF ran + 1 = Len(legs) THEN "landed" ELSE "run"
    /\ UNCHANGED << trade, cache, snapshot, legs, answer >>

\* The venue cannot meet the leg's limit any more.
VenueRefuses ==
    /\ stage = "run"
    /\ stage' = "reverted"
    /\ wallet' = [a \in Assets |-> 0]
    /\ UNCHANGED << trade, cache, snapshot, legs, answer, ran >>

Next ==
    \/ Refuse \/ Load \/ LoadFails \/ GiveUp \/ Assemble \/ RefuseEmpty
    \/ Execute \/ RunLeg \/ VenueRefuses

Spec == Init /\ [][Next]_vars

-----------------------------------------------------------------------------
Stages == {"load", "quote", "built", "run", "landed", "reverted", "error"}

\* Variables range as in the code, and legs exist exactly once they are priced.
TypeOK ==
    /\ trade \in Trades
    /\ stage \in Stages
    /\ \A v \in DOMAIN cache : cache[v] \in FeeSettings \cup {Unset}
    /\ \A i \in 1..Len(legs) :
        /\ legs[i].in_amount \in Nat /\ legs[i].fee \in Nat
        /\ legs[i].min_out \in 0..legs[i].expected_out
    /\ Len(legs) = IF stage \in {"load", "quote", "error"} THEN 0 ELSE Len(Route(trade))
    /\ ran \in 0..2
    /\ wallet \in [Assets -> Int]

\* usdc.rs:60: a bridged route pays its second leg from its first alone; a
\* wallet without the bridging currency never stops it.
LegsFundEachOther == stage = "run" => wallet[Current.give] >= Limit.in_amount

\* A landed route has paid at least the minimum the caller was quoted.
GuaranteeKept ==
    stage = "landed" =>
        LET out == Route(trade)[Len(legs)].get
        IN  wallet[out] >= answer.min_out /\ (Bridged(trade) => answer.min_out > 0)

\* Units of either currency a bridged quote may lose to rounding: the first
\* leg's are what the second spends, and each fee of a sale rounds for itself.
Rounding == 4

\* A request of at most half, over a second leg whose fees take at most three
\* tenths; beyond, a unit of the first leg's output weighs more.
Moderate == trade.slippage_bps <= 5000 /\ PoolBps(snapshot[2].fees) <= 3000

\* Splitting the slippage over two legs never costs the caller more than the
\* slippage requested: the minimum is that close to what the same reserves
\* pay when neither leg slips.
SlippageWithinRequest ==
    stage = "built" /\ Bridged(trade) /\ Moderate =>
        LET unslipped == LegQuote(2, Less(FirstQuote.expected_out, Rounding), 0).expected_out
        IN  answer.min_out + Rounding >= SlippageDown(unslipped, trade.slippage_bps)

\* The fees the program adds to what reaches the reserves, rounding each up on
\* the curve, still fit what the buyer puts in.
BuysFitTheirInput ==
    stage = "built" =>
        \A i \in 1..Len(legs) :
            LET fees == snapshot[i].fees
                amt == legs[i].in_amount
                curve == SolIntoCurve(fees, amt)
                pool == QuoteIntoPool(fees, amt)
            IN  Route(trade)[i].side = "Buy" =>
                    IF Adapter(Route(trade)[i]) = "PumpFun"
                    THEN curve + FeeCeil(curve, fees.protocol) + FeeCeil(curve, fees.creator) <= amt
                    ELSE pool + PoolFee(fees, pool) <= amt
=============================================================================

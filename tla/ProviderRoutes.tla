--------------------------- MODULE ProviderRoutes ---------------------------
(***************************************************************************)
(* The Jupiter and DFlow adapters.  Jupiter answers one request with quote *)
(* and instructions together; DFlow is asked for a quote, then for the     *)
(* instructions of that quote, then the lookup tables are loaded, while    *)
(* the market moves.  A provider may answer wrongly in any field the       *)
(* adapters check.                                                         *)
(***************************************************************************)
EXTENDS FeePolicy, ListOps

CONSTANTS
    Addresses,      \* wallets, token owners and program accounts
    Requests,       \* records [venue, client, trade, op]
    Prices,         \* what the market may pay for the input
    Lists,          \* instruction lists a provider may reply
    RequestTimeout  \* REQUEST_TIMEOUT of one DFlow request, in ticks

\* A client as its builders leave it, and any trade.
ClientType ==
    [sdk : BOOLEAN, bps : {b \in Nat : b < BASIS_POINTS}, recipient : Addresses,
     sponsored : BOOLEAN, payer : Addresses, collector : Addresses, ceiling : Nat]
TradeType ==
    [side : {"Buy", "Sell"}, settlement : {"Sol", "Usdc"}, mint : STRING,
     venue : STRING, amount : Nat, slippage_bps : Nat, wallet : Addresses]

BudgetKinds == {"cu_limit", "cu_price", "heap", "loaded_size", "unknown_budget"}
FeeOps == {"create_ata", "usdc_transfer", "sol_transfer"}
Ops == BudgetKinds \cup FeeOps \cup {"swap", "setup", "cleanup", "other"}
InstructionOf(ops) == [op : ops, by : Addresses, to : Addresses, amt : Int]
Instruction == InstructionOf(Ops)

\* A provider's list: its one swap, named by its signer, data says whether it
\* has any, and the instructions of every other field of the reply.
Beside == Seq(InstructionOf(Ops \ {"swap"}))
ListType ==
    [version : {"v0", "v1"}, budget : Beside, setup : Beside, swap : Addresses,
     data : BOOLEAN, cleanup : Beside, other : Beside]

ASSUME ProviderAssumption ==
    /\ {"none", "venue"} \subseteq Addresses
    /\ Requests \subseteq [venue : {"jupiter", "dflow"}, client : ClientType,
                           trade : TradeType, op : {"quote", "prepare"}]
    /\ Prices \subseteq Nat
    /\ Lists \subseteq ListType
    /\ RequestTimeout \in Nat

VARIABLES
    rq,        \* the request: fixed
    market,    \* what the market pays for the input now
    stage,     \* start, quote, instructions, tables or done
    carried,   \* DFlow: the validated quote, as it is posted back
    got,       \* DFlow: the instructions of the second reply
    elapsed,   \* ticks since the outstanding request was sent
    result,    \* what the adapter returns
    paid       \* what the executed swap paid the wallet, or Unpaid

vars == << rq, market, stage, carried, got, elapsed, result, paid >>

Pending == [state |-> "asked"]
Error(e) == [state |-> "failed", error |-> e]
Quoted(q) == [state |-> "quoted", swap |-> q]
Accepted(s) == [state |-> "replied", swap |-> s]

Nothing == [none |-> TRUE]
Unpaid == -1

\* The trade the venue sees, and the sponsor it is told of.
trade == RouteTrade(rq.client, rq.trade)

Sponsored == rq.op = "prepare" /\ SponsorFor(rq.client, rq.trade)
Signers == {trade.wallet} \cup (IF Sponsored THEN {rq.client.payer} ELSE {})

-----------------------------------------------------------------------------
\* Requests and the checks of a quote.

SettlementMint(t) == IF t.settlement = "Sol" THEN "WSOL" ELSE "USDC"

\* route_mints: input and output.
RouteMints(t) ==
    IF t.side = "Buy" THEN << SettlementMint(t), t.mint >> ELSE << t.mint, SettlementMint(t) >>

CanAsk(t) ==
    /\ t.amount > 0
    /\ t.slippage_bps < BASIS_POINTS
    /\ RouteMints(t)[1] # RouteMints(t)[2]

SlippageFloor(t, expected) == (expected * (BASIS_POINTS - t.slippage_bps)) \div BASIS_POINTS

SoundMinimum(t, q) ==
    /\ q.threshold > 0
    /\ q.threshold <= q.out_amount
    /\ q.threshold >= SlippageFloor(t, q.out_amount)

\* BuildResponse::validate.
JupiterValid(t, q) ==
    /\ q.mode = "ExactIn"
    /\ q.mints = RouteMints(t)
    /\ q.in_amount = t.amount
    /\ SoundMinimum(t, q)

\* QuoteResponse::validated_quote.
DFlowValid(t, q) ==
    /\ q.mints = RouteMints(t)
    /\ q.in_amount = t.amount
    /\ q.slippage_bps = t.slippage_bps
    /\ q.plan
    /\ SoundMinimum(t, q)
    /\ q.min_out_amount = q.threshold
    /\ q.platform_fee = 0

AsQuote(q, ixs) ==
    [in_amount |-> q.in_amount, expected_out |-> q.out_amount, min_out |-> q.threshold,
     application_fee |-> 0, sponsorship_fee |-> 0, ixs |-> ixs]

-----------------------------------------------------------------------------
\* Instructions.  A swap's amt is the output it enforces.

SwapIx(l, limit) == Ix("swap", l.swap, "venue", limit)

JupiterInstructions(l, limit) ==
    l.setup \o << SwapIx(l, limit) >> \o l.cleanup \o l.other

Replaced == {"cu_limit", "cu_price"}

DFlowList(l, limit) ==
    l.budget \o l.setup \o << SwapIx(l, limit) >> \o l.cleanup \o l.other

\* Slip: the provider's compute budget is left in.
Kept_All(ix) == TRUE

\* The executor owns limit and price; heap and loaded size are kept.
Kept(ix) == ix.op \notin Replaced

DFlowInstructions(l, limit) == Only(DFlowList(l, limit), {ix \in Instruction : Kept(ix)})

\* Slip: any signer a route asks for is let through.
NoThirdSigner_Any(ixs) == TRUE

NoThirdSigner(ixs) == \A i \in DOMAIN ixs : ixs[i].by \in Signers

DFlowAcceptable(l, limit) ==
    LET all == DFlowList(l, limit)
    IN  /\ l.version = "v0"
        /\ l.data
        /\ NoThirdSigner(all)
        /\ \A i \in DOMAIN all : all[i].op # "unknown_budget"

-----------------------------------------------------------------------------
\* The providers.  A reply prices the route at the market; its minimum is
\* that of the requested slippage or one unit off, or one field is wrong.

PricedAt(t, price, d) ==
    LET least == SlippageFloor(t, price) + d
    IN  [mints |-> RouteMints(t), mode |-> "ExactIn", in_amount |-> t.amount,
         out_amount |-> price, threshold |-> least, min_out_amount |-> least,
         slippage_bps |-> t.slippage_bps, plan |-> TRUE, platform_fee |-> 0]

WithOneFlaw(q) ==
    {[q EXCEPT !.mints = << @[2], @[1] >>], [q EXCEPT !.mode = "ExactOut"],
     [q EXCEPT !.in_amount = @ + 1], [q EXCEPT !.min_out_amount = @ + 1],
     [q EXCEPT !.slippage_bps = @ + 1], [q EXCEPT !.plan = FALSE],
     [q EXCEPT !.platform_fee = 1]}

QuoteReplies ==
    LET plain == {PricedAt(trade, market, d) : d \in -1..1}
    IN  plain \cup UNION {WithOneFlaw(q) : q \in plain}

\* Jupiter puts compute-budget instructions into a field of their own, which
\* is not read, and its swaps have data; neither is checked.
JupiterLists ==
    {l \in Lists :
        /\ l.data /\ Len(l.cleanup) <= 1
        /\ \A ixs \in {l.setup, l.cleanup, l.other} :
              \A i \in DOMAIN ixs : ixs[i].op \notin BudgetKinds}

-----------------------------------------------------------------------------
Init ==
    /\ rq \in Requests
    /\ market \in Prices
    /\ stage = "start"
    /\ carried = Nothing
    /\ got = Nothing
    /\ elapsed = 0
    /\ result = Pending
    /\ paid = Unpaid

Send(s) == stage' = s /\ elapsed' = 0

\* Slip: the call ends without a result.
Return_Lost(r) == stage' = "done" /\ UNCHANGED << elapsed, result >>

Return(r) == stage' = "done" /\ result' = r /\ UNCHANGED elapsed

Start ==
    /\ stage = "start"
    /\ IF CanAsk(trade)
       THEN Send("quote") /\ UNCHANGED result
       ELSE Return(Error("Build"))
    /\ UNCHANGED << rq, market, carried, got, paid >>

JupiterResult(q, l) ==
    LET ixs == JupiterInstructions(l, q.threshold)
    IN  CASE ~JupiterValid(trade, q) -> Error("Decode")
          [] JupiterValid(trade, q) /\ rq.op = "quote" -> Quoted(AsQuote(q, << >>))
          [] JupiterValid(trade, q) /\ rq.op = "prepare" ->
                IF NoThirdSigner(ixs)
                THEN Accepted(AsQuote(q, ixs))
                ELSE Error("Decode")

JupiterReplies ==
    /\ stage = "quote"
    /\ rq.venue = "jupiter"
    /\ \E q \in QuoteReplies, l \in JupiterLists : Return(JupiterResult(q, l))
    /\ UNCHANGED << rq, market, carried, got, paid >>

DFlowQuotes ==
    /\ stage = "quote"
    /\ rq.venue = "dflow"
    /\ \E q \in QuoteReplies :
          \/ /\ ~DFlowValid(trade, q)
             /\ Return(Error("Decode"))
             /\ UNCHANGED carried
          \/ /\ DFlowValid(trade, q)
             /\ rq.op = "quote"
             /\ Return(Quoted(AsQuote(q, << >>)))
             /\ UNCHANGED carried
          \/ /\ DFlowValid(trade, q)
             /\ rq.op = "prepare"
             /\ Send("instructions")
             /\ carried' = q
             /\ UNCHANGED result
    /\ UNCHANGED << rq, market, got, paid >>

\* Slip: the instructions are built for a quote taken anew.
Posted_Fresh(q) == PricedAt(trade, market, 0)

\* The quote the instructions are built for: the one that was validated.
Posted(q) == q

DFlowInstructs ==
    /\ stage = "instructions"
    /\ \E l \in Lists :
          LET limit == Posted(carried).threshold
          IN  IF DFlowAcceptable(l, limit)
              THEN /\ Send("tables")
                   /\ got' = DFlowInstructions(l, limit)
                   /\ UNCHANGED result
              ELSE Return(Error("Decode")) /\ UNCHANGED got
    /\ UNCHANGED << rq, market, carried, paid >>

\* load_address_lookup_tables.
TablesLoad ==
    /\ stage = "tables"
    /\ Return(Accepted(AsQuote(carried, got)))
    /\ UNCHANGED << rq, market, carried, got, paid >>

\* The classes of error an outstanding request may end in.
RequestErrors ==
    CASE stage = "tables" -> {"Rpc", "Decode"}
      [] stage # "tables" /\ rq.venue = "jupiter" -> {"Config", "Network", "Http", "Decode"}
      [] stage # "tables" /\ rq.venue = "dflow" -> {"Network", "Http", "Decode"}

RequestFails ==
    /\ stage \in {"quote", "instructions", "tables"}
    /\ \E e \in RequestErrors : Return(Error(e))
    /\ UNCHANGED << rq, market, carried, got, paid >>

\* Slip: only the first of the two requests has a timeout.
Bounded_First == stage = "quote"

Bounded == stage \in {"quote", "instructions"}

RequestTimesOut ==
    /\ rq.venue = "dflow"
    /\ Bounded
    /\ elapsed >= RequestTimeout
    /\ Return(Error("Network"))
    /\ UNCHANGED << rq, market, carried, got, paid >>

Tick ==
    /\ rq.venue = "dflow"
    /\ stage \in {"quote", "instructions"}
    /\ elapsed < RequestTimeout
    /\ elapsed' = elapsed + 1
    /\ UNCHANGED << rq, market, stage, carried, got, result, paid >>

MarketMoves ==
    /\ stage # "start"
    /\ market' \in Prices
    /\ UNCHANGED << rq, stage, carried, got, elapsed, result, paid >>

\* The venue pays the market, or fails the transaction below its limit.
Execute ==
    /\ result.state = "replied"
    /\ paid = Unpaid
    /\ \E i \in DOMAIN result.swap.ixs :
          /\ result.swap.ixs[i].op = "swap"
          /\ market >= result.swap.ixs[i].amt
    /\ paid' = market
    /\ UNCHANGED << rq, market, stage, carried, got, elapsed, result >>

Next ==
    \/ Start
    \/ JupiterReplies \/ DFlowQuotes \/ DFlowInstructs \/ TablesLoad
    \/ RequestFails \/ RequestTimesOut
    \/ Tick \/ MarketMoves \/ Execute

Spec == Init /\ [][Next]_vars

\* The adapter is polled, DFlow's timers fire and the RPC client, which has a
\* timeout of its own, ends a load; no provider need answer.
LoadEnds == stage = "tables" /\ (TablesLoad \/ RequestFails)

Fairness ==
    /\ WF_vars(Start) /\ WF_vars(Tick) /\ WF_vars(RequestTimesOut) /\ WF_vars(LoadEnds)

FairSpec == Spec /\ Fairness

-----------------------------------------------------------------------------
(* Properties. *)

\* Types; nothing is returned before the call ends.
TypeOK ==
    /\ rq \in Requests
    /\ market \in Prices
    /\ stage \in {"start", "quote", "instructions", "tables", "done"}
    /\ elapsed \in 0..RequestTimeout
    /\ result.state \in {"asked", "failed", "quoted", "replied"}
    /\ result.state = "asked" <=> stage # "done"
    /\ paid \in Prices \cup {Unpaid}

\* types.rs:174: the swap that executes pays what the accepted quote
\* guaranteed, at most one unit below the requested slippage, although DFlow
\* builds the instructions later, from a market that has moved.
QuoteEnforced ==
    paid # Unpaid =>
        LET s == result.swap
        IN  /\ paid >= s.min_out
            /\ (paid + 1) * BASIS_POINTS
                  > s.expected_out * (BASIS_POINTS - rq.trade.slippage_bps)

\* build_optimal_tx puts its own limit and price before the instructions.
Compiled(ixs) ==
    LET payer == PayerOf(rq.client, rq.trade)
    IN  << Ix("cu_limit", payer, "none", 1), Ix("cu_price", payer, "none", 1) >> \o ixs

\* dflow.rs:271: what an accepted and charged route compiles to has one
\* compute limit and one price, the executor's, and is never refused for its
\* signers: no route asks for a signature the client cannot provide.
ExecutorCanSend ==
    (result.state = "replied" /\ CanCharge(rq.client, rq.trade, result.swap)) =>
        LET m == Compiled(Charged(rq.client, rq.trade, result.swap).ixs)
        IN  /\ \A k \in Replaced : \A i \in DOMAIN m : m[i].op = k => i <= 2
            /\ {m[i].by : i \in DOMAIN m}
                  \subseteq {rq.trade.wallet, PayerOf(rq.client, rq.trade)}

\* Both adapters keep the promise of the Dex trait.
Contract ==
    INSTANCE VenueContract WITH
        client <- rq.client, trade <- rq.trade,
        reply <- IF result.state = "replied" THEN result
                 ELSE IF result.state = "failed" THEN [state |-> "failed"] ELSE Pending

KeepsVenueContract == Contract!Spec

\* DFlow's own timeouts end the call although the provider stays silent.
DFlowReturns == (rq.venue = "dflow" /\ stage = "start") ~> (stage = "done")
=============================================================================

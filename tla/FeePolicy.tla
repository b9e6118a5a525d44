------------------------------ MODULE FeePolicy ------------------------------
(***************************************************************************)
(* The money arithmetic of the trading client: what a trade is reduced to  *)
(* before a venue sees it, and what is charged on the swap the venue       *)
(* returns.  Operators only.  A client configuration is a record           *)
(*   [sdk, bps, recipient,            the SdkFee, if sdk is TRUE           *)
(*    sponsored, payer, collector,    the GasSponsor, if sponsored         *)
(*    ceiling]                        its max_fee_usdc                     *)
(* a trade is a record                                                     *)
(*   [side, settlement, mint, venue, amount, slippage_bps, wallet]         *)
(* and a prepared swap carries its quote's fields beside its instructions. *)
(***************************************************************************)
EXTENDS Integers, Sequences

BASIS_POINTS == 10000

\* An instruction, up to what the fees and the executor read of it.
Ix(op, by, to, amt) == [op |-> op, by |-> by, to |-> to, amt |-> amt]

-----------------------------------------------------------------------------
\* What a trade is reduced to before a venue prices it.

\* SdkFee::amount, zero for a client without an SDK fee.
FeeAmount(cl, basis) ==
    IF cl.sdk THEN (basis * cl.bps) \div BASIS_POINTS ELSE 0

ValidTrade(cl, t) ==
    /\ t.amount > 0
    /\ t.slippage_bps < BASIS_POINTS
    /\ t.settlement = "Usdc" => t.mint # "USDC"
    /\ cl.sdk /\ cl.bps > 0 => t.wallet # cl.recipient

TradeAfterFee(cl, t) ==
    IF t.side = "Buy"
    THEN [t EXCEPT !.amount = @ - FeeAmount(cl, t.amount)]
    ELSE t

SponsorFor(cl, t) == cl.sponsored /\ t.settlement = "Usdc"

\* subtract_fee fails unless something is left.
CanSubtract(amount, fee) == amount > fee

CanReserve(cl, t) ==
    /\ t.settlement = "Usdc"
    /\ t.wallet \notin {cl.payer, cl.collector}
    /\ t.side = "Buy" => CanSubtract(t.amount, cl.ceiling)

ReserveFee(cl, t) ==
    IF t.side = "Buy" THEN [t EXCEPT !.amount = @ - cl.ceiling] ELSE t

\* route_trade as a guard and as a value.
Routable(cl, t) ==
    /\ ValidTrade(cl, t)
    /\ SponsorFor(cl, t) => CanReserve(cl, TradeAfterFee(cl, t))

\* Slip: the sponsor's ceiling is not reserved before routing.
RouteTrade_NoReserve(cl, t) == TradeAfterFee(cl, t)

RouteTrade(cl, t) ==
    IF SponsorFor(cl, t)
    THEN ReserveFee(cl, TradeAfterFee(cl, t))
    ELSE TradeAfterFee(cl, t)

\* Who pays the network fee and opens the token accounts.
PayerOf(cl, t) == IF SponsorFor(cl, t) THEN cl.payer ELSE t.wallet

-----------------------------------------------------------------------------
\* The SDK fee on a quote and on a swap.

FeeBasis(t, q) == IF t.side = "Buy" THEN t.amount ELSE q.expected_out

\* Slip: the sell fee may swallow the minimum.
CanQuoteAfterFee_FeeUnbounded(cl, t, q) ==
    /\ q.min_out > 0
    /\ q.expected_out >= q.min_out

CanQuoteAfterFee(cl, t, q) ==
    /\ q.min_out > 0
    /\ q.expected_out >= q.min_out
    /\ t.side = "Sell" => FeeAmount(cl, q.expected_out) < q.min_out

QuoteAfterFee(cl, t, q) ==
    LET fee == FeeAmount(cl, FeeBasis(t, q))
        cut == IF t.side = "Sell" THEN fee ELSE 0
    IN  [q EXCEPT !.in_amount = t.amount,
                  !.application_fee = fee,
                  !.expected_out = @ - cut,
                  !.min_out = @ - cut]

AppendUsdcFee(ixs, payer, wallet, to, amt) ==
    ixs \o << Ix("create_ata", payer, to, 0), Ix("usdc_transfer", wallet, to, amt) >>

FeeInstructions(cl, t, ixs, fee, payer) ==
    CASE fee = 0 -> ixs
      [] fee > 0 /\ t.settlement = "Sol" ->
            Append(ixs, Ix("sol_transfer", t.wallet, cl.recipient, fee))
      [] fee > 0 /\ t.settlement = "Usdc" ->
            AppendUsdcFee(ixs, payer, t.wallet, cl.recipient, fee)

CanApplySdkFee(cl, t, s) == cl.sdk => CanQuoteAfterFee(cl, t, s)

ApplySdkFee(cl, t, s, payer) ==
    IF cl.sdk
    THEN LET q == QuoteAfterFee(cl, t, s)
         IN  [q EXCEPT !.ixs = FeeInstructions(cl, t, s.ixs, q.application_fee, payer)]
    ELSE s

-----------------------------------------------------------------------------
\* The sponsorship ceiling, charged last, so that its transfer closes the
\* instruction list and the executor finds it by position.

CanApplySponsorship(cl, t, s) ==
    t.side = "Sell" => /\ CanSubtract(s.min_out, cl.ceiling)
                       /\ CanSubtract(s.expected_out, cl.ceiling)

ApplySponsorship(cl, t, s) ==
    LET cut == IF t.side = "Sell" THEN cl.ceiling ELSE 0
    IN  [s EXCEPT !.in_amount = t.amount,
                  !.expected_out = @ - cut,
                  !.min_out = @ - cut,
                  !.sponsorship_fee = cl.ceiling,
                  !.ixs = AppendUsdcFee(@, cl.payer, t.wallet, cl.collector, cl.ceiling)]

-----------------------------------------------------------------------------
\* What becomes of a candidate swap, and of a native swap taken directly.

\* The checks select_best_swap makes before it charges a candidate.
ValidCandidate(cl, t, s) ==
    /\ s.in_amount = RouteTrade(cl, t).amount
    /\ s.application_fee = 0
    /\ s.sponsorship_fee = 0
    /\ s.min_out > 0
    /\ s.min_out <= s.expected_out
    /\ s.ixs # << >>

SdkCharged(cl, t, s) == ApplySdkFee(cl, t, s, PayerOf(cl, t))

CanCharge(cl, t, s) ==
    /\ ValidCandidate(cl, t, s)
    /\ CanApplySdkFee(cl, t, s)
    /\ SponsorFor(cl, t) => CanApplySponsorship(cl, t, SdkCharged(cl, t, s))

Charged(cl, t, s) ==
    IF SponsorFor(cl, t)
    THEN ApplySponsorship(cl, t, SdkCharged(cl, t, s))
    ELSE SdkCharged(cl, t, s)

\* A swap of its selected venue that prepare_swap returns uncompared.
ComparedByTrade(t) ==
    t.venue = "None" \/ t.settlement = "Usdc" \/ t.mint = "USDC"

DirectSwap(cl, t, s) == ApplySdkFee(cl, t, s, t.wallet)

-----------------------------------------------------------------------------
\* GasSponsor construction: the limits its builders leave in force.
ValidSponsor(ceiling, service, maxCost) ==
    /\ maxCost > 0
    /\ ceiling > service

\* SponsorCostPolicy::charge, in USDC units; lps is LAMPORTS_PER_SOL.
CeilDiv(a, b) == (a + b - 1) \div b

ChargeFor(cost, rate, service, lps) == CeilDiv(cost * rate, lps) + service
=============================================================================

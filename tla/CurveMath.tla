------------------------------ MODULE CurveMath ------------------------------
(***************************************************************************)
(* What the two native venues quote: constant-product pricing, the fees of *)
(* each program and the slippage bound.  Operators only.  A pool or curve  *)
(* is a record [quote, base] of reserves, with [real] tokens left on a     *)
(* curve; fees are a record [lp, protocol, creator] in basis points, the   *)
(* creator's already zero for a pool without one.  The program computes in *)
(* u128 and every quotient fits u64, so plain integers are exact.          *)
(***************************************************************************)
EXTENDS Integers

BPS == 10000

Min2(a, b) == IF a < b THEN a ELSE b
Less(a, b) == IF a > b THEN a - b ELSE 0

\* base_out_for_quote_in and quote_out_for_base_in, with the sides swapped.
OutFor(from, to, amt) ==
    IF amt = 0 \/ from = 0 \/ to = 0 THEN 0 ELSE (to * amt) \div (from + amt)

BaseOutForQuoteIn(pool, amt) == OutFor(pool.quote, pool.base, amt)
QuoteOutForBaseIn(pool, amt) == OutFor(pool.base, pool.quote, amt)

FeeFloor(amt, bps) == (amt * bps) \div BPS
FeeCeil(amt, bps) == (amt * bps + BPS - 1) \div BPS

SlippageDown(x, bps) == x - FeeFloor(x, bps)

Quote(in, expected, fee, slippage) ==
    [in_amount |-> in, expected_out |-> expected, fee |-> fee,
     min_out |-> SlippageDown(expected, slippage)]

-----------------------------------------------------------------------------
\* Pump.fun: PumpFun::compute_quote.

CurveBps(fees) == fees.protocol + fees.creator

\* Slip: no lamport is held back for the fees' rounding.
SolIntoCurve_Whole(fees, amt) == (amt * BPS) \div (CurveBps(fees) + BPS)

SolIntoCurve(fees, amt) == (Less(amt, 1) * BPS) \div (CurveBps(fees) + BPS)

CurveBuy(curve, fees, amt, slippage) ==
    LET into == SolIntoCurve(fees, amt)
    IN  Quote(amt, Min2(BaseOutForQuoteIn(curve, into), curve.real),
              Less(amt, into), slippage)

CurveSell(curve, fees, amt, slippage) ==
    LET gross == QuoteOutForBaseIn(curve, amt)
        fee == FeeCeil(gross, fees.protocol) + FeeCeil(gross, fees.creator)
    IN  Quote(amt, Less(gross, fee), fee, slippage)

-----------------------------------------------------------------------------
\* PumpSwap: PumpSwap::compute_quote.

PoolFee(fees, amt) ==
    FeeFloor(amt, fees.lp) + FeeFloor(amt, fees.protocol) + FeeFloor(amt, fees.creator)

PoolBps(fees) == fees.lp + fees.protocol + fees.creator

QuoteIntoPool(fees, amt) ==
    LET into == (amt * BPS) \div (BPS + PoolBps(fees))
    IN  Less(into, Less(into + PoolFee(fees, into), amt))

PoolBuy(pool, fees, amt, slippage) ==
    LET into == QuoteIntoPool(fees, amt)
    IN  Quote(amt, BaseOutForQuoteIn(pool, Less(into, 1)), Less(amt, into), slippage)

PoolSell(pool, fees, amt, slippage) ==
    LET gross == QuoteOutForBaseIn(pool, amt)
        fee == PoolFee(fees, gross)
    IN  Quote(amt, Less(gross, fee), fee, slippage)

-----------------------------------------------------------------------------
\* PumpSwap::route_slippage: the bridge leg's share and the target leg's.

MAX_BRIDGE_SLIPPAGE_BPS == 50

\* Slip: the target leg is given the whole request on top of the bridge.
RouteSlippage_Whole(total) ==
    [bridge |-> Min2(total \div 2, MAX_BRIDGE_SLIPPAGE_BPS), target |-> total]

RouteSlippage(total) ==
    LET bridge == Min2(total \div 2, MAX_BRIDGE_SLIPPAGE_BPS)
    IN  [bridge |-> bridge, target |-> total - bridge]
=============================================================================

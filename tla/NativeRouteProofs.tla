------------------------- MODULE NativeRouteProofs -------------------------
(***************************************************************************)
(* Proofs about native routes.  BridgedRoute, for any trades, reserves,    *)
(* fee settings and slack: the arithmetic of the two venues, what their    *)
(* quotes guarantee, the shape of every route, what two legs do to the     *)
(* slippage, and the invariant of a route that runs.  NativeSetup, for any *)
(* well-built routes, chains, wallets and calls: what a builder step and   *)
(* an instruction do, and the invariant of a route that is funded.         *)
(***************************************************************************)
EXTENDS BridgedRoute, NativeSetup, SequenceFacts, FiniteSetTheorems


-----------------------------------------------------------------------------
(* Arithmetic. *)

LEMMA DivFacts ==
    ASSUME NEW a \in Nat, NEW b \in Nat \ {0}
    PROVE  a \div b \in Nat /\ b * (a \div b) <= a
  OBVIOUS

LEMMA ProductNat == \A a, b \in Nat : a * b \in Nat
  OBVIOUS

LEMMA LessType ==
    ASSUME NEW a \in Nat, NEW b \in Nat
    PROVE  Less(a, b) \in 0..a /\ (a >= b => Less(a, b) = a - b) /\ (a <= b => Less(a, b) = 0)
  BY DEF Less

LEMMA OutForType ==
    ASSUME NEW from \in Nat, NEW to \in Nat, NEW amt \in Nat
    PROVE  OutFor(from, to, amt) \in Nat
  <1>1. CASE amt = 0 \/ from = 0 \/ to = 0  BY <1>1 DEF OutFor
  <1>2. CASE ~(amt = 0 \/ from = 0 \/ to = 0)
    <2>1. to * amt \in Nat /\ from + amt \in Nat \ {0}  BY <1>2, ProductNat
    <2>2. (to * amt) \div (from + amt) \in Nat  BY <2>1, DivFacts
    <2> QED  BY <1>2, <2>2 DEF OutFor
  <1> QED  BY <1>1, <1>2

\* A fee in basis points, and how far rounding moves it.
LEMMA FloorBound ==
    ASSUME NEW amt \in Nat, NEW bps \in Nat
    PROVE  FeeFloor(amt, bps) \in Nat /\ 10000 * FeeFloor(amt, bps) <= amt * bps
  <1>1. PICK p : p = amt * bps  OBVIOUS
  <1>2. p \in Nat  BY <1>1, ProductNat
  <1>3. FeeFloor(amt, bps) = p \div 10000  BY <1>1 DEF FeeFloor, BPS
  <1>4. p \div 10000 \in Nat /\ 10000 * (p \div 10000) <= p  BY <1>2
  <1> QED  BY <1>1, <1>3, <1>4

LEMMA CeilBound ==
    ASSUME NEW amt \in Nat, NEW bps \in Nat
    PROVE  FeeCeil(amt, bps) \in Nat /\ 10000 * FeeCeil(amt, bps) <= amt * bps + 9999
  <1>1. PICK p : p = amt * bps  OBVIOUS
  <1>2. p \in Nat  BY <1>1, ProductNat
  <1>3. FeeCeil(amt, bps) = (p + 10000 - 1) \div 10000  BY <1>1 DEF FeeCeil, BPS
  <1>4. PICK r : r = p + 10000 - 1  OBVIOUS
  <1>5. r \in Nat /\ r = p + 9999  BY <1>2, <1>4
  <1>6. r \div 10000 \in Nat /\ 10000 * (r \div 10000) <= r  BY <1>5
  <1> QED  BY <1>1, <1>3, <1>4, <1>5, <1>6

LEMMA SlippageDownType ==
    ASSUME NEW x \in Nat, NEW bps \in Nat, bps <= 10000
    PROVE  SlippageDown(x, bps) \in 0..x
  <1>1. bps \in Nat /\ bps <= 10000  OBVIOUS
  <1>2. x * bps <= x * 10000 /\ x * bps \in Nat
    <2>1. x * (10000 - bps) \in Nat  BY <1>1, ProductNat
    <2>2. x * (10000 - bps) = x * 10000 - x * bps  BY <1>1
    <2>3. x * bps \in Nat  BY <1>1, ProductNat
    <2> QED  BY <2>1, <2>2, <2>3
  <1>3. FeeFloor(x, bps) \in Nat /\ 10000 * FeeFloor(x, bps) <= x * bps
    BY FloorBound
  <1>4. FeeFloor(x, bps) <= x
    <2> DEFINE f == FeeFloor(x, bps)
               p == x * bps
    <2>1. f \in Nat /\ p \in Nat /\ 10000 * f <= p /\ p <= x * 10000  BY <1>2, <1>3
    <2> HIDE DEF f, p
    <2>2. f <= x  BY <2>1
    <2> QED  BY <2>2 DEF f
  <1> QED  BY <1>3, <1>4 DEF SlippageDown

\* What a buy puts into the reserves: with the fees on it, it is what the
\* buyer gave at most, although the curve's program rounds each fee up.
LEMMA CurveInputFits ==
    ASSUME NEW fees \in FeeType, NEW amt \in Nat
    PROVE  LET n == SolIntoCurve(fees, amt)
           IN  /\ n \in Nat /\ n <= amt
               /\ n + FeeCeil(n, fees.protocol) + FeeCeil(n, fees.creator) <= amt
  <1>a. PICK n, p, c : n = SolIntoCurve(fees, amt) /\ p = fees.protocol /\ c = fees.creator
    OBVIOUS
  <1>1. p \in Nat /\ c \in Nat  BY <1>a DEF FeeType
  <1>2. Less(amt, 1) \in Nat  BY LessType
  <1>3. n = (Less(amt, 1) * 10000) \div (p + c + 10000)
    BY <1>a DEF SolIntoCurve, CurveBps, BPS
  <1>4. n \in Nat /\ (p + c + 10000) * n <= Less(amt, 1) * 10000
    <2>1. Less(amt, 1) * 10000 \in Nat /\ p + c + 10000 \in Nat \ {0}  BY <1>1, <1>2
    <2> QED  BY <1>3, <2>1, DivFacts
  <1>5. n * p \in Nat /\ n * c \in Nat /\ (p + c + 10000) * n = n * p + n * c + 10000 * n
    <2>1. (p + c + 10000) * n = n * p + n * c + 10000 * n  BY <1>1, <1>4
    <2> QED  BY <1>1, <1>4, <2>1, ProductNat
  <1>b. PICK x, y : x = FeeCeil(n, p) /\ y = FeeCeil(n, c)  OBVIOUS
  <1>6. /\ x \in Nat /\ 10000 * x <= n * p + 9999
        /\ y \in Nat /\ 10000 * y <= n * c + 9999
    <2>1. x \in Nat /\ 10000 * x <= n * p + 9999  BY <1>1, <1>4, <1>b, CeilBound
    <2>2. y \in Nat /\ 10000 * y <= n * c + 9999  BY <1>1, <1>4, <1>b, CeilBound
    <2> QED  BY <2>1, <2>2
  <1>7. CASE amt = 0
    <2>1. Less(amt, 1) = 0  BY <1>7, LessType
    <2>2. n = 0  BY <1>4, <1>5, <2>1
    <2>3. n * p = 0 /\ n * c = 0  BY <1>1, <2>2
    <2>4. x = 0 /\ y = 0  BY <1>6, <2>3
    <2> QED  BY <1>a, <1>b, <1>7, <2>2, <2>4
  <1>8. CASE amt >= 1
    <2>1. Less(amt, 1) = amt - 1  BY <1>8, LessType
    <2>a. PICK u, v : u = n * p /\ v = n * c  OBVIOUS
    <2>2. u \in Nat /\ v \in Nat /\ u + v + 10000 * n <= (amt - 1) * 10000
      BY <1>4, <1>5, <2>a, <2>1
    <2>3. 10000 * x <= u + 9999 /\ 10000 * y <= v + 9999  BY <1>6, <2>a
    <2>4. n <= amt /\ n + x + y <= amt  BY <1>4, <1>6, <1>8, <2>2, <2>3
    <2> QED  BY <1>a, <1>b, <1>4, <2>4
  <1> QED  BY <1>7, <1>8

LEMMA PoolFeeType ==
    ASSUME NEW fees \in FeeType, NEW amt \in Nat
    PROVE  PoolFee(fees, amt) \in Nat
  <1>1. PICK l, p, c : l = fees.lp /\ p = fees.protocol /\ c = fees.creator  OBVIOUS
  <1>2. l \in Nat /\ p \in Nat /\ c \in Nat  BY <1>1 DEF FeeType
  <1>3. FeeFloor(amt, l) \in Nat  BY <1>2, FloorBound
  <1>4. FeeFloor(amt, p) \in Nat  BY <1>2, FloorBound
  <1>5. FeeFloor(amt, c) \in Nat  BY <1>2, FloorBound
  <1> QED  BY <1>1, <1>3, <1>4, <1>5 DEF PoolFee

\* The pool's program rounds its fees down, so the whole quotient fits.
LEMMA PoolInputFits ==
    ASSUME NEW fees \in FeeType, NEW amt \in Nat
    PROVE  LET n == QuoteIntoPool(fees, amt)
           IN  /\ n \in Nat /\ n <= amt /\ n + PoolFee(fees, n) <= amt
               /\ n = (amt * 10000) \div (10000 + PoolBps(fees))
  <1>a. PICK l, p, c : l = fees.lp /\ p = fees.protocol /\ c = fees.creator  OBVIOUS
  <1>b. PICK n : n = (amt * 10000) \div (10000 + (l + p + c))  OBVIOUS
  <1>1. l \in Nat /\ p \in Nat /\ c \in Nat  BY <1>a DEF FeeType
  <1>2. n \in Nat /\ (10000 + (l + p + c)) * n <= amt * 10000
    <2>1. amt * 10000 \in Nat /\ 10000 + (l + p + c) \in Nat \ {0}  BY <1>1
    <2> QED  BY <1>b, <2>1, DivFacts
  <1>3. QuoteIntoPool(fees, amt) = Less(n, Less(n + PoolFee(fees, n), amt))
    BY <1>a, <1>b DEF QuoteIntoPool, PoolBps, BPS
  <1>c. PICK x, y, z : x = FeeFloor(n, l) /\ y = FeeFloor(n, p) /\ z = FeeFloor(n, c)
    OBVIOUS
  <1>d. PICK u, v, w : u = n * l /\ v = n * p /\ w = n * c  OBVIOUS
  <1>4. /\ x \in Nat /\ y \in Nat /\ z \in Nat /\ u \in Nat /\ v \in Nat /\ w \in Nat
        /\ 10000 * x <= u /\ 10000 * y <= v /\ 10000 * z <= w
    <2>1. x \in Nat /\ 10000 * x <= u  BY <1>1, <1>2, <1>c, <1>d, FloorBound
    <2>2. y \in Nat /\ 10000 * y <= v  BY <1>1, <1>2, <1>c, <1>d, FloorBound
    <2>3. z \in Nat /\ 10000 * z <= w  BY <1>1, <1>2, <1>c, <1>d, FloorBound
    <2>4. u \in Nat /\ v \in Nat /\ w \in Nat  BY <1>1, <1>2, <1>d, ProductNat
    <2> QED  BY <2>1, <2>2, <2>3, <2>4
  <1>5. 10000 * n + u + v + w <= amt * 10000
    <2>1. (10000 + (l + p + c)) * n = 10000 * n + u + v + w  BY <1>1, <1>2, <1>d
    <2> QED  BY <1>2, <2>1
  <1>6. PoolFee(fees, n) = x + y + z  BY <1>a, <1>c DEF PoolFee
  <1>7. n + PoolFee(fees, n) <= amt /\ n <= amt  BY <1>2, <1>4, <1>5, <1>6
  <1>8. Less(n + PoolFee(fees, n), amt) = 0
    <2>1. n + PoolFee(fees, n) \in Nat  BY <1>2, <1>4, <1>6
    <2> QED  BY <1>7, <2>1, LessType
  <1>9. QuoteIntoPool(fees, amt) = n
    <2>1. Less(n, 0) = n  BY <1>2 DEF Less
    <2> QED  BY <1>3, <1>8, <2>1
  <1>10. PoolBps(fees) = l + p + c  BY <1>a DEF PoolBps
  <1> QED  BY <1>b, <1>2, <1>7, <1>9, <1>10

-----------------------------------------------------------------------------
(* Quotes. *)

PoolType == [quote : Nat, base : Nat, real : Nat]
SnapshotType == [pool : PoolType, fees : FeeType]
QuoteType == [in_amount : Nat, expected_out : Nat, fee : Nat, min_out : Nat]

\* A quote for amt, whose minimum is at most what it expects.
SoundQuote(q, amt) ==
    q \in QuoteType /\ q.in_amount = amt /\ q.min_out <= q.expected_out

LEMMA QuoteFacts ==
    ASSUME NEW amt \in Nat, NEW expected \in Nat, NEW fee \in Nat,
           NEW slippage \in Nat, slippage <= 10000
    PROVE  SoundQuote(Quote(amt, expected, fee, slippage), amt)
  <1>1. SlippageDown(expected, slippage) \in 0..expected  BY SlippageDownType
  <1>2. PICK m : m = SlippageDown(expected, slippage)  OBVIOUS
  <1>3. m \in Nat /\ m <= expected  BY <1>1, <1>2
  <1>4. Quote(amt, expected, fee, slippage) =
          [in_amount |-> amt, expected_out |-> expected, fee |-> fee, min_out |-> m]
    BY <1>2 DEF Quote
  <1> QED  BY <1>3, <1>4 DEF SoundQuote, QuoteType

LEMMA CurveBuyFacts ==
    ASSUME NEW pool \in PoolType, NEW fees \in FeeType, NEW amt \in Nat,
           NEW slippage \in Nat, slippage <= 10000
    PROVE  SoundQuote(CurveBuy(pool, fees, amt, slippage), amt)
  <1>1. PICK n : n = SolIntoCurve(fees, amt)  OBVIOUS
  <1>2. n \in Nat  BY <1>1, CurveInputFits
  <1>3. PICK q, b, r : q = pool.quote /\ b = pool.base /\ r = pool.real  OBVIOUS
  <1>4. q \in Nat /\ b \in Nat /\ r \in Nat  BY <1>3 DEF PoolType
  <1>5. PICK o : o = OutFor(q, b, n)  OBVIOUS
  <1>6. o \in Nat  BY <1>2, <1>4, <1>5, OutForType
  <1>7. PICK e, f : e = Min2(o, r) /\ f = Less(amt, n)  OBVIOUS
  <1>8. e \in Nat  BY <1>4, <1>6, <1>7 DEF Min2
  <1>9. f \in Nat  BY <1>2, <1>7, LessType
  <1>10. CurveBuy(pool, fees, amt, slippage) = Quote(amt, e, f, slippage)
    BY <1>1, <1>3, <1>5, <1>7 DEF CurveBuy, BaseOutForQuoteIn
  <1> QED  BY <1>8, <1>9, <1>10, QuoteFacts

LEMMA PoolBuyFacts ==
    ASSUME NEW pool \in PoolType, NEW fees \in FeeType, NEW amt \in Nat,
           NEW slippage \in Nat, slippage <= 10000
    PROVE  SoundQuote(PoolBuy(pool, fees, amt, slippage), amt)
  <1>1. PICK n : n = QuoteIntoPool(fees, amt)  OBVIOUS
  <1>2. n \in Nat  BY <1>1, PoolInputFits
  <1>3. PICK q, b : q = pool.quote /\ b = pool.base  OBVIOUS
  <1>4. q \in Nat /\ b \in Nat  BY <1>3 DEF PoolType
  <1>5. PICK h, f : h = Less(n, 1) /\ f = Less(amt, n)  OBVIOUS
  <1>6. h \in Nat  BY <1>2, <1>5 DEF Less
  <1>7. f \in Nat  BY <1>2, <1>5 DEF Less
  <1>8. PICK e : e = OutFor(q, b, h)  OBVIOUS
  <1>9. e \in Nat  BY <1>4, <1>6, <1>8, OutForType
  <1>10. PoolBuy(pool, fees, amt, slippage) = Quote(amt, e, f, slippage)
    BY <1>1, <1>3, <1>5, <1>8 DEF PoolBuy, BaseOutForQuoteIn
  <1> QED  BY <1>7, <1>9, <1>10, QuoteFacts

LEMMA CurveSellFacts ==
    ASSUME NEW pool \in PoolType, NEW fees \in FeeType, NEW amt \in Nat,
           NEW slippage \in Nat, slippage <= 10000
    PROVE  SoundQuote(CurveSell(pool, fees, amt, slippage), amt)
  <1>1. PICK q, b : q = pool.quote /\ b = pool.base  OBVIOUS
  <1>2. q \in Nat /\ b \in Nat  BY <1>1 DEF PoolType
  <1>3. PICK g : g = OutFor(b, q, amt)  OBVIOUS
  <1>4. g \in Nat  BY <1>2, <1>3, OutForType
  <1>5. PICK p, c : p = fees.protocol /\ c = fees.creator  OBVIOUS
  <1>6. p \in Nat /\ c \in Nat  BY <1>5 DEF FeeType
  <1>7. PICK x, y : x = FeeCeil(g, p) /\ y = FeeCeil(g, c)  OBVIOUS
  <1>8. x \in Nat  BY <1>4, <1>6, <1>7, CeilBound
  <1>9. y \in Nat  BY <1>4, <1>6, <1>7, CeilBound
  <1>10. PICK e, f : f = x + y /\ e = Less(g, f)  OBVIOUS
  <1>11. f \in Nat  BY <1>8, <1>9, <1>10
  <1>12. e \in Nat  BY <1>4, <1>10, <1>11 DEF Less
  <1>13. CurveSell(pool, fees, amt, slippage) = Quote(amt, e, f, slippage)
    BY <1>1, <1>3, <1>5, <1>7, <1>10 DEF CurveSell, QuoteOutForBaseIn
  <1> QED  BY <1>11, <1>12, <1>13, QuoteFacts

LEMMA PoolSellFacts ==
    ASSUME NEW pool \in PoolType, NEW fees \in FeeType, NEW amt \in Nat,
           NEW slippage \in Nat, slippage <= 10000
    PROVE  SoundQuote(PoolSell(pool, fees, amt, slippage), amt)
  <1>1. PICK q, b : q = pool.quote /\ b = pool.base  OBVIOUS
  <1>2. q \in Nat /\ b \in Nat  BY <1>1 DEF PoolType
  <1>3. PICK g : g = OutFor(b, q, amt)  OBVIOUS
  <1>4. g \in Nat  BY <1>2, <1>3, OutForType
  <1>5. PICK f : f = PoolFee(fees, g)  OBVIOUS
  <1>6. f \in Nat  BY <1>4, <1>5, PoolFeeType
  <1>7. PICK e : e = Less(g, f)  OBVIOUS
  <1>8. e \in Nat  BY <1>4, <1>6, <1>7 DEF Less
  <1>9. PoolSell(pool, fees, amt, slippage) = Quote(amt, e, f, slippage)
    BY <1>1, <1>3, <1>5, <1>7 DEF PoolSell, QuoteOutForBaseIn
  <1> QED  BY <1>6, <1>8, <1>9, QuoteFacts

-----------------------------------------------------------------------------
(* Routes. *)

LegType ==
    [at : {"target", "bridge"}, side : {"Buy", "Sell"}, form : {"exact_in", "exact_out"},
     give : Assets, get : Assets]

\* One leg, or two of which the second gives what the first gets; neither
\* leg, nor the two together, ends with what it began with.  One of two is the
\* bridge, and only that is ever a second leg that sells.
Chained(t) ==
    \/ /\ ~Bridged(t)
       /\ \E a \in LegType : Route(t) = << a >> /\ a.give # a.get
    \/ /\ Bridged(t)
       /\ \E a, b \in LegType :
            /\ Route(t) = << a, b >>
            /\ a.give # a.get /\ b.give = a.get
            /\ b.get \notin {a.give, a.get}
            /\ a.at # b.at
            /\ b.side = "Sell" => b.at = "bridge"

LEMMA PairOf ==
    ASSUME NEW a, NEW b
    PROVE  << a >> \o << b >> = << a, b >>
  <1>1. PICK p, q, r : p = << a >> /\ q = << b >> /\ r = << a, b >>  OBVIOUS
  <1>2. PICK T : T = {a, b}  OBVIOUS
  <1>3. p \in Seq(T) /\ q \in Seq(T) /\ r \in Seq(T)  BY <1>1, <1>2
  <1>4. Len(p) = 1 /\ Len(q) = 1 /\ Len(r) = 2  BY <1>1
  <1>5. r[1] = p[1] /\ r[2] = q[1]  BY <1>1
  <1>6. \A i \in 1..Len(p) : r[i] = p[i]  BY <1>4, <1>5
  <1>7. \A i \in 1..Len(q) : r[Len(p) + i] = q[i]
    <2>1. \A i \in 1..1 : i = 1  OBVIOUS
    <2>2. Len(p) + 1 = 2  BY <1>4
    <2> QED  BY <1>4, <1>5, <2>1, <2>2
  <1>8. Len(r) = Len(p) + Len(q)  BY <1>4
  <1>9. r = p \o q  BY <1>3, <1>6, <1>7, <1>8, IsConcat
  <1> QED  BY <1>1, <1>9

LEMMA RouteIsChained ==
    ASSUME NEW t \in TradeType, Supported(t)
    PROVE  Chained(t)
  <1>1. QuoteOf(t) \in {"sol", "usdc"}  BY DEF Supported
  <1>2. Settled(t) \in {"sol", "usdc"}  BY DEF Settled
  <1>3. t.side \in {"Buy", "Sell"}  BY DEF TradeType
  <1>4. {"sol", "usdc", "token"} = Assets  BY DEF Assets
  <1>5. CASE ~Bridged(t)
    <2>1. Route(t) = Direct(t)  BY <1>5 DEF Route
    <2>2. CASE t.side = "Buy"
      <3>1. PICK a : a = Leg("target", "Buy", "exact_in", QuoteOf(t), "token")  OBVIOUS
      <3>2. a \in LegType /\ a.give = QuoteOf(t) /\ a.get = "token"
        BY <1>1, <1>4, <3>1 DEF Leg, LegType
      <3>3. Route(t) = << a >>  BY <2>1, <2>2, <3>1 DEF Direct
      <3> QED  BY <1>1, <1>5, <3>2, <3>3 DEF Chained
    <2>3. CASE t.side = "Sell"
      <3>1. PICK a : a = Leg("target", "Sell", "exact_in", "token", QuoteOf(t))  OBVIOUS
      <3>2. a \in LegType /\ a.give = "token" /\ a.get = QuoteOf(t)
        BY <1>1, <1>4, <3>1 DEF Leg, LegType
      <3>3. Route(t) = << a >>  BY <2>1, <2>3, <3>1 DEF Direct
      <3> QED  BY <1>1, <1>5, <3>2, <3>3 DEF Chained
    <2> QED  BY <1>3, <2>2, <2>3
  <1>6. CASE Bridged(t) /\ QuoteOf(t) = "sol"
    <2>1. Route(t) = ViaSol(t)  BY <1>6 DEF Route
    <2>2. CASE t.side = "Buy"
      <3>1. PICK a, b : /\ a = Leg("bridge", "Sell", "exact_in", "usdc", "sol")
                        /\ b = Leg("target", "Buy", "exact_in", "sol", "token")
        OBVIOUS
      <3>2. /\ a \in LegType /\ a.give = "usdc" /\ a.get = "sol"
            /\ a.at = "bridge" /\ a.side = "Sell"
        BY <1>4, <3>1 DEF Leg, LegType
      <3>3. /\ b \in LegType /\ b.give = "sol" /\ b.get = "token"
            /\ b.at = "target" /\ b.side = "Buy"
        BY <1>4, <3>1 DEF Leg, LegType
      <3>4. Route(t) = << a, b >>
        BY <1>6, <2>1, <2>2, <3>1, PairOf DEF ViaSol, Direct
      <3> QED  BY <1>6, <3>2, <3>3, <3>4 DEF Chained
    <2>3. CASE t.side = "Sell"
      <3>1. PICK a, b : /\ a = Leg("target", "Sell", "exact_in", "token", "sol")
                        /\ b = Leg("bridge", "Buy", "exact_in", "sol", "usdc")
        OBVIOUS
      <3>2. /\ a \in LegType /\ a.give = "token" /\ a.get = "sol"
            /\ a.at = "target" /\ a.side = "Sell"
        BY <1>4, <3>1 DEF Leg, LegType
      <3>3. /\ b \in LegType /\ b.give = "sol" /\ b.get = "usdc"
            /\ b.at = "bridge" /\ b.side = "Buy"
        BY <1>4, <3>1 DEF Leg, LegType
      <3>4. Route(t) = << a, b >>
        BY <1>6, <2>1, <2>3, <3>1, PairOf DEF ViaSol, Direct
      <3> QED  BY <1>6, <3>2, <3>3, <3>4 DEF Chained
    <2> QED  BY <1>3, <2>2, <2>3
  <1>7. CASE Bridged(t) /\ QuoteOf(t) = "usdc"
    <2>1. Route(t) = ViaUsdc(t)  BY <1>7 DEF Route
    <2>2. CASE t.side = "Buy"
      <3>1. PICK a, b : /\ a = Leg("bridge", "Buy", "exact_out", "sol", "usdc")
                        /\ b = Leg("target", "Buy", "exact_in", "usdc", "token")
        OBVIOUS
      <3>2. /\ a \in LegType /\ a.give = "sol" /\ a.get = "usdc"
            /\ a.at = "bridge" /\ a.side = "Buy"
        BY <1>4, <3>1 DEF Leg, LegType
      <3>3. /\ b \in LegType /\ b.give = "usdc" /\ b.get = "token"
            /\ b.at = "target" /\ b.side = "Buy"
        BY <1>4, <3>1 DEF Leg, LegType
      <3>4. Route(t) = << a, b >>
        BY <1>7, <2>1, <2>2, <3>1, PairOf DEF ViaUsdc, Direct
      <3> QED  BY <1>7, <3>2, <3>3, <3>4 DEF Chained
    <2>3. CASE t.side = "Sell"
      <3>1. PICK a, b : /\ a = Leg("target", "Sell", "exact_in", "token", "usdc")
                        /\ b = Leg("bridge", "Sell", "exact_in", "usdc", "sol")
        OBVIOUS
      <3>2. /\ a \in LegType /\ a.give = "token" /\ a.get = "usdc"
            /\ a.at = "target" /\ a.side = "Sell"
        BY <1>4, <3>1 DEF Leg, LegType
      <3>3. /\ b \in LegType /\ b.give = "usdc" /\ b.get = "sol"
            /\ b.at = "bridge" /\ b.side = "Sell"
        BY <1>4, <3>1 DEF Leg, LegType
      <3>4. Route(t) = << a, b >>
        BY <1>7, <2>1, <2>3, <3>1, PairOf DEF ViaUsdc, Direct
      <3> QED  BY <1>7, <3>2, <3>3, <3>4 DEF Chained
    <2> QED  BY <1>3, <2>2, <2>3
  <1> QED  BY <1>1, <1>5, <1>6, <1>7

\* How many legs there are, and that each has a side, a venue and two assets.
LEMMA RouteShape ==
    ASSUME NEW t \in TradeType, Supported(t)
    PROVE  /\ Len(Route(t)) = IF Bridged(t) THEN 2 ELSE 1
           /\ \A i \in 1..Len(Route(t)) : Route(t)[i] \in LegType
  <1>1. Chained(t)  BY RouteIsChained
  <1>2. CASE ~Bridged(t)
    <2>1. PICK a \in LegType : Route(t) = << a >>  BY <1>1, <1>2 DEF Chained
    <2>2. Len(Route(t)) = 1 /\ Route(t)[1] = a  BY <2>1
    <2> QED  BY <1>2, <2>1, <2>2
  <1>3. CASE Bridged(t)
    <2>1. PICK a, b \in LegType : Route(t) = << a, b >>  BY <1>1, <1>3 DEF Chained
    <2>2. Len(Route(t)) = 2 /\ Route(t)[1] = a /\ Route(t)[2] = b  BY <2>1
    <2>3. \A i \in 1..2 : i = 1 \/ i = 2  OBVIOUS
    <2> QED  BY <1>3, <2>1, <2>2, <2>3
  <1> QED  BY <1>2, <1>3

-----------------------------------------------------------------------------
(* Priced legs. *)

LEMMA SlippageShare ==
    ASSUME trade \in TradeType, NEW leg
    PROVE  Slippage(leg) \in Nat /\ Slippage(leg) <= 10000
  <1>1. PICK s : s = trade.slippage_bps  OBVIOUS
  <1>2. s \in Nat /\ s <= 10000
    <2>1. trade.slippage_bps \in 0..BPS  BY DEF TradeType
    <2>2. s \in 0..BPS  BY <1>1, <2>1
    <2> QED  BY <2>2 DEF BPS
  <1>3. PICK h : h = s \div 2  OBVIOUS
  <1>4. h \in Nat /\ h <= s  BY <1>2, <1>3
  <1>5. PICK b : b = Min2(h, MAX_BRIDGE_SLIPPAGE_BPS)  OBVIOUS
  <1>6. b \in Nat /\ b <= s  BY <1>4, <1>5, <1>2 DEF Min2, MAX_BRIDGE_SLIPPAGE_BPS
  <1>7. RouteSlippage(s) = [bridge |-> b, target |-> s - b]
    BY <1>3, <1>5 DEF RouteSlippage
  <1>8. RouteSlippage(s).bridge = b /\ RouteSlippage(s).target = s - b  BY <1>7
  <1>9. Slippage(leg) \in {s, b, s - b}  BY <1>1, <1>8 DEF Slippage
  <1> QED  BY <1>2, <1>6, <1>9

LEMMA LegQuoteFacts ==
    ASSUME trade \in TradeType, Supported(trade), NEW i \in 1..Len(Route(trade)),
           snapshot[i] \in SnapshotType, NEW amt \in Nat, NEW slippage \in Nat, slippage <= 10000
    PROVE  SoundQuote(LegQuote(i, amt, slippage), amt)
  <1>0. PICK s : s = snapshot[i]  OBVIOUS
  <1>1. PICK leg : leg = Route(trade)[i]  OBVIOUS
  <1>2. PICK pool, fees : pool = s.pool /\ fees = s.fees  OBVIOUS
  <1>3. pool \in PoolType /\ fees \in FeeType  BY <1>0, <1>2 DEF SnapshotType
  <1>4. leg \in LegType  BY <1>1, RouteShape
  <1>5. Adapter(leg) \in {"PumpFun", "PumpSwap"}  BY DEF Adapter, TradeType
  <1>6. leg.side \in {"Buy", "Sell"}  BY <1>4 DEF LegType
  <1>7. CASE Adapter(leg) = "PumpFun" /\ leg.side = "Buy"
    <2>1. LegQuote(i, amt, slippage) = CurveBuy(pool, fees, amt, slippage)
      BY <1>0, <1>1, <1>2, <1>7 DEF LegQuote
    <2> QED  BY <1>3, <2>1, CurveBuyFacts
  <1>8. CASE Adapter(leg) = "PumpFun" /\ leg.side = "Sell"
    <2>1. LegQuote(i, amt, slippage) = CurveSell(pool, fees, amt, slippage)
      BY <1>0, <1>1, <1>2, <1>8 DEF LegQuote
    <2> QED  BY <1>3, <2>1, CurveSellFacts
  <1>9. CASE Adapter(leg) = "PumpSwap" /\ leg.side = "Buy"
    <2>1. LegQuote(i, amt, slippage) = PoolBuy(pool, fees, amt, slippage)
      BY <1>0, <1>1, <1>2, <1>9 DEF LegQuote
    <2> QED  BY <1>3, <2>1, PoolBuyFacts
  <1>10. CASE Adapter(leg) = "PumpSwap" /\ leg.side = "Sell"
    <2>1. LegQuote(i, amt, slippage) = PoolSell(pool, fees, amt, slippage)
      BY <1>0, <1>1, <1>2, <1>10 DEF LegQuote
    <2> QED  BY <1>3, <2>1, PoolSellFacts
  <1> QED  BY <1>5, <1>6, <1>7, <1>8, <1>9, <1>10

\* Quotes for the legs of the trade: the first for what the caller gives, the
\* second for what the first guarantees.
Financed(quotes) ==
    /\ Len(quotes) = Len(Route(trade))
    /\ \A i \in 1..Len(quotes) : SoundQuote(quotes[i], quotes[i].in_amount)
    /\ quotes[1].in_amount = trade.amount
    /\ Bridged(trade) => quotes[2].in_amount = quotes[1].min_out

AllLoaded == Supported(trade) /\ \A i \in 1..Len(Route(trade)) : snapshot[i] \in SnapshotType

LEMMA QuotesAreFinanced ==
    ASSUME trade \in TradeType, AllLoaded
    PROVE  Financed(Quotes)
  <1>1. Supported(trade) /\ \A i \in 1..Len(Route(trade)) : snapshot[i] \in SnapshotType
    BY DEF AllLoaded
  <1>2. Len(Route(trade)) = IF Bridged(trade) THEN 2 ELSE 1  BY <1>1, RouteShape
  <1>3. 1 \in 1..Len(Route(trade))  BY <1>2
  <1>4. PICK amt : amt = trade.amount  OBVIOUS
  <1>5. amt \in Nat  BY <1>4 DEF TradeType
  <1>6. PICK s1, s2 : s1 = Slippage(Route(trade)[1]) /\ s2 = Slippage(Route(trade)[2])
    OBVIOUS
  <1>7. s1 \in Nat /\ s1 <= 10000 /\ s2 \in Nat /\ s2 <= 10000  BY <1>6, SlippageShare
  <1>8. PICK q1 : q1 = FirstQuote  OBVIOUS
  <1>9. q1 = LegQuote(1, amt, s1)  BY <1>4, <1>6, <1>8 DEF FirstQuote
  <1>10. snapshot[1] \in SnapshotType  BY <1>1, <1>3
  <1>11. SoundQuote(q1, amt)  BY <1>1, <1>3, <1>5, <1>7, <1>9, <1>10, LegQuoteFacts
  <1>12. CASE ~Bridged(trade)
    <2>1. Quotes = << q1 >>  BY <1>8, <1>12 DEF Quotes
    <2>2. Len(Quotes) = 1 /\ Quotes[1] = q1  BY <2>1
    <2>3. q1.in_amount = amt  BY <1>11 DEF SoundQuote
    <2>4. \A i \in 1..Len(Quotes) : Quotes[i] = q1  BY <2>2
    <2> QED  BY <1>2, <1>4, <1>11, <1>12, <2>2, <2>3, <2>4 DEF Financed
  <1>13. CASE Bridged(trade)
    <2>1. PICK q2 : q2 = SecondQuote  OBVIOUS
    <2>2. PICK m : m = q1.min_out  OBVIOUS
    <2>3. m \in Nat  BY <1>11, <2>2 DEF SoundQuote, QuoteType
    <2>4. q2 = LegQuote(2, m, s2)  BY <1>6, <1>8, <2>1, <2>2 DEF SecondQuote, SecondInput
    <2>5. 2 \in 1..Len(Route(trade))  BY <1>2, <1>13
    <2>6. snapshot[2] \in SnapshotType  BY <1>1, <2>5
    <2>7. SoundQuote(q2, m)  BY <1>1, <1>7, <2>3, <2>4, <2>5, <2>6, LegQuoteFacts
    <2>8. Quotes = << q1, q2 >>  BY <1>8, <1>13, <2>1 DEF Quotes
    <2>9. Len(Quotes) = 2 /\ Quotes[1] = q1 /\ Quotes[2] = q2  BY <2>8
    <2>10. q1.in_amount = amt /\ q2.in_amount = m  BY <1>11, <2>7 DEF SoundQuote
    <2>11. \A i \in 1..2 : i = 1 \/ i = 2  OBVIOUS
    <2>12. \A i \in 1..Len(Quotes) : SoundQuote(Quotes[i], Quotes[i].in_amount)
      BY <1>11, <2>7, <2>9, <2>10, <2>11
    <2> QED  BY <1>2, <1>4, <1>13, <2>2, <2>9, <2>10, <2>12 DEF Financed
  <1> QED  BY <1>12, <1>13

-----------------------------------------------------------------------------
(* Slippage over two legs.  Multiplied out, rounding becomes a few units on *)
(* the right of an inequality, and the shares of the legs multiply.         *)

LEMMA ProductMonotone ==
    ASSUME NEW k \in Nat, NEW a \in Int, NEW b \in Int, a <= b
    PROVE  k * a <= k * b /\ k * a \in Int /\ k * b \in Int
  <1>1. b - a \in Nat  OBVIOUS
  <1>2. k * (b - a) \in Nat  BY <1>1, ProductNat
  <1>3. k * (b - a) = k * b - k * a  OBVIOUS
  <1> QED  BY <1>2, <1>3

LEMMA ProductCancels ==
    ASSUME NEW k \in Nat \ {0}, NEW a \in Int, NEW b \in Int, k * a <= k * b
    PROVE  a <= b
  <1>1. SUFFICES ASSUME a >= b + 1 PROVE FALSE  OBVIOUS
  <1>2. k * (b + 1) <= k * a  BY <1>1, ProductMonotone
  <1>3. k * (b + 1) = k * b + k  OBVIOUS
  <1>4. k * b \in Int /\ k * a \in Int  OBVIOUS
  <1> QED  BY <1>2, <1>3, <1>4

\* The order and the grouping of a product.
LEMMA ProductSwaps ==
    ASSUME NEW a \in Int, NEW b \in Int, NEW c \in Int
    PROVE  a * (b * c) = b * (a * c)
  OBVIOUS

LEMMA QuotientBounds ==
    ASSUME NEW a \in Nat, NEW b \in Nat \ {0}
    PROVE  a \div b \in Nat /\ b * (a \div b) <= a /\ a + 1 <= b * (a \div b) + b
  <1>1. PICK q : q = a \div b  OBVIOUS
  <1>2. q \in Nat /\ b * q <= a /\ a < b * (q + 1)  BY <1>1
  <1>3. b * (q + 1) = b * q + b /\ b * q \in Nat  BY <1>2, ProductNat
  <1> QED  BY <1>1, <1>2, <1>3

LEMMA SlippageBounds ==
    ASSUME NEW x \in Nat, NEW s \in Nat, s <= 10000
    PROVE  /\ SlippageDown(x, s) \in Nat
           /\ (10000 - s) * x <= 10000 * SlippageDown(x, s)
           /\ 10000 * SlippageDown(x, s) <= (10000 - s) * x + 9999
  <1>1. SlippageDown(x, s) \in 0..x  BY SlippageDownType
  <1>2. PICK p, f : p = x * s /\ f = p \div 10000  OBVIOUS
  <1>3. p \in Nat  BY <1>2, ProductNat
  <1>4. f \in Nat /\ 10000 * f <= p /\ p <= 10000 * f + 9999  BY <1>2, <1>3
  <1>5. SlippageDown(x, s) = x - f  BY <1>2 DEF SlippageDown, FeeFloor, BPS
  <1>6. (10000 - s) * x = 10000 * x - p  BY <1>2
  <1> QED  BY <1>1, <1>3, <1>4, <1>5, <1>6

\* What reaches a pool keeps the share that the input kept, if the input was
\* reduced enough before to pay for the rounding.
LEMMA InputScales ==
    ASSUME NEW D \in Nat \ {0}, NEW k \in Nat, k >= 5000, k <= 10000,
           NEW e \in Nat, NEW m \in Nat, k * e <= 10000 * m,
           NEW X \in Nat, NEW Y \in Nat, 2 * X <= Y,
           NEW x \in Nat, NEW y \in Nat,
           D * y <= 10000 * e - Y, D * x >= 10000 * m - X
    PROVE  k * y <= 10000 * x
  <1>1. PICK E, P, Q, Z : E = k * e /\ P = D * y /\ Q = D * x /\ Z = k * Y  OBVIOUS
  <1>2. E \in Nat /\ P \in Nat /\ Q \in Nat /\ Z \in Nat  BY <1>1, ProductNat
  <1>3. k * P <= 10000 * E - Z
    <2>1. P <= 10000 * e - Y /\ 10000 * e - Y \in Int /\ P \in Int  BY <1>1, <1>2
    <2>2. k * P <= k * (10000 * e - Y)  BY <2>1, ProductMonotone
    <2>3. k * (10000 * e - Y) = 10000 * E - Z  BY <1>1
    <2> QED  BY <2>2, <2>3
  <1>4. Z >= 10000 * X
    <2>1. 5000 * Y <= k * Y
      <3>1. Y * 5000 <= Y * k  BY ProductMonotone
      <3>2. Y * k = k * Y /\ Y * 5000 = 5000 * Y  OBVIOUS
      <3> QED  BY <3>1, <3>2
    <2> QED  BY <1>1, <2>1
  <1>5. 10000 * Q >= 10000 * E - 10000 * X  BY <1>1, <1>2
  <1>6. k * P <= 10000 * Q
    <2>1. k * P \in Nat  BY <1>2, ProductNat
    <2> QED  BY <1>2, <1>3, <1>4, <1>5, <2>1
  <1>7. k * P = D * (k * y) /\ 10000 * Q = D * (10000 * x)
    BY <1>1, ProductSwaps
  <1>8. k * y \in Int /\ 10000 * x \in Int  BY ProductNat
  <1> QED  BY <1>6, <1>7, <1>8, ProductCancels

\* A pool never pays less for more.
LEMMA OutMonotone ==
    ASSUME NEW from \in Nat, NEW to \in Nat, NEW x \in Nat, NEW y \in Nat, y <= x
    PROVE  OutFor(from, to, y) <= OutFor(from, to, x)
  <1>1. OutFor(from, to, x) \in Nat  BY OutForType
  <1>2. CASE y = 0 \/ from = 0 \/ to = 0
    <2>1. OutFor(from, to, y) = 0  BY <1>2 DEF OutFor
    <2> QED  BY <1>1, <2>1
  <1>3. CASE ~(y = 0 \/ from = 0 \/ to = 0)
    <2>1. x # 0 /\ from # 0 /\ to # 0  BY <1>3
    <2>2. PICK g, h, a, c, p, q : /\ a = from + x /\ c = from + y
                                  /\ p = to * x /\ q = to * y
                                  /\ g = p \div a /\ h = q \div c
      OBVIOUS
    <2>3. OutFor(from, to, x) = g /\ OutFor(from, to, y) = h
      BY <1>3, <2>1, <2>2 DEF OutFor
    <2>4. a \in Nat \ {0} /\ c \in Nat \ {0} /\ p \in Nat /\ q \in Nat
      BY <2>1, <2>2, ProductNat
    <2>5. g \in Nat /\ p + 1 <= a * g + a  BY <2>2, <2>4, QuotientBounds
    <2>6. h \in Nat /\ c * h <= q  BY <2>2, <2>4, QuotientBounds
    <2>7. h <= g
      <3>1. SUFFICES ASSUME h >= g + 1 PROVE FALSE  BY <2>5, <2>6
      <3>2. PICK d : d = x - y  OBVIOUS
      <3>3. d \in Nat /\ a = c + d  BY <2>2, <3>2
      <3>4. a * (g + 1) <= a * h  BY <2>4, <2>5, <2>6, <3>1, ProductMonotone
      <3>5. a * (g + 1) = a * g + a  BY <2>4, <2>5
      <3>6. p + 1 <= a * h
        <4>1. a * h \in Int /\ a * g \in Int  BY <2>4, <2>5, <2>6
        <4> QED  BY <2>4, <2>5, <3>4, <3>5, <4>1
      <3>7. a * h = c * h + d * h /\ p = q + to * d
        <4>1. (c + d) * h = c * h + d * h  BY <2>4, <2>6, <3>3
        <4>2. to * (y + d) = to * y + to * d  BY <3>3
        <4>3. x = y + d  BY <3>2, <3>3
        <4> QED  BY <2>2, <3>3, <4>1, <4>2, <4>3
      <3>8. to * d + 1 <= d * h
        <4>1. c * h \in Int /\ d * h \in Int /\ to * d \in Int  BY <2>4, <2>6, <3>3
        <4> QED  BY <2>4, <2>6, <3>6, <3>7, <4>1
      <3>9. h >= to + 1
        <4>1. SUFFICES ASSUME h <= to PROVE FALSE  BY <2>6
        <4>2. d * h <= d * to  BY <2>6, <3>3, <4>1, ProductMonotone
        <4>3. d * to = to * d /\ d * to \in Int /\ d * h \in Int  BY <2>6, <3>3
        <4> QED  BY <3>8, <4>2, <4>3
      <3>10. c * (to + 1) <= c * h  BY <2>4, <2>6, <3>9, ProductMonotone
      <3>11. c * (to + 1) = to * y + to * from + c
        <4>1. c * (to + 1) = c * to + c  BY <2>4
        <4>2. (from + y) * to = to * y + to * from  OBVIOUS
        <4> QED  BY <2>2, <4>1, <4>2
      <3> QED
        <4>1. to * from \in Nat /\ to * y \in Nat /\ c * h \in Int  BY <2>4, <2>6, ProductNat
        <4> QED  BY <2>2, <2>4, <2>6, <3>10, <3>11, <4>1
    <2> QED  BY <2>3, <2>7
  <1> QED  BY <1>2, <1>3

\* The output keeps the share of what reaches the pool, less one for rounding.
LEMMA OutScales ==
    ASSUME NEW from \in Nat, NEW to \in Nat, NEW x \in Nat, NEW y \in Nat,
           NEW k \in Nat, k <= 10000, k * y <= 10000 * x
    PROVE  k * OutFor(from, to, y) <= 10000 * OutFor(from, to, x) + 9999
  <1>1. PICK g, h : g = OutFor(from, to, x) /\ h = OutFor(from, to, y)  OBVIOUS
  <1>2. g \in Nat /\ h \in Nat  BY <1>1, OutForType
  <1>3. CASE y <= x
    <2>1. h <= g  BY <1>1, <1>3, OutMonotone
    <2>2. h * k <= h * 10000  BY <1>2, ProductMonotone
    <2>3. h * k = k * h /\ h * k \in Int  BY <1>2
    <2> QED  BY <1>1, <1>2, <2>1, <2>2, <2>3
  <1>4. CASE from = 0 \/ to = 0
    <2>1. h = 0  BY <1>1, <1>4 DEF OutFor
    <2> QED  BY <1>1, <1>2, <2>1
  <1>5. CASE x < y /\ ~(from = 0 \/ to = 0) /\ x = 0
    <2>1. y >= 1 /\ k * y <= 0  BY <1>5
    <2>2. k * 1 <= k * y  BY <2>1, ProductMonotone
    <2>3. k = 0  BY <2>1, <2>2
    <2> QED  BY <1>1, <1>2, <2>3
  <1>6. CASE x < y /\ ~(from = 0 \/ to = 0) /\ x # 0
    <2>1. PICK a, c, p, q : a = from + x /\ c = from + y /\ p = to * x /\ q = to * y
      OBVIOUS
    <2>2. g = p \div a /\ h = q \div c  BY <1>1, <1>6, <2>1 DEF OutFor
    <2>3. a \in Nat \ {0} /\ c \in Nat \ {0} /\ p \in Nat /\ q \in Nat /\ a <= c
      BY <1>6, <2>1, ProductNat
    <2>4. p + 1 <= a * g + a  BY <2>2, <2>3, QuotientBounds
    <2>5. c * h <= q  BY <2>2, <2>3, QuotientBounds
    <2>6. PICK r : r = k * h  OBVIOUS
    <2>7. r \in Nat  BY <1>2, <2>6, ProductNat
    <2>8. r <= 10000 * g + 9999
      <3>1. SUFFICES ASSUME r >= 10000 * g + 10000 PROVE FALSE  BY <1>2, <2>7
      <3>2. a * (10000 * g + 10000) <= a * r  BY <1>2, <2>3, <2>7, <3>1, ProductMonotone
      <3>3. a * (10000 * g + 10000) = 10000 * (a * g) + 10000 * a  BY <1>2, <2>3
      <3>4. a * g \in Nat /\ a * r \in Nat  BY <1>2, <2>3, <2>7, ProductNat
      <3>5. 10000 * p + 10000 <= a * r  BY <2>3, <2>4, <3>2, <3>3, <3>4
      <3>6. k * q <= 10000 * p
        <4>1. to * (k * y) <= to * (10000 * x)  BY ProductMonotone, ProductNat
        <4>2. to * (k * y) = k * q  BY <2>1, ProductSwaps
        <4>3. to * (10000 * x) = 10000 * p  BY <2>1, ProductSwaps
        <4> QED  BY <4>1, <4>2, <4>3
      <3>7. k * (c * h) <= k * q  BY <1>2, <2>3, <2>5, ProductMonotone
      <3>8. k * (c * h) = c * r  BY <1>2, <2>3, <2>6, ProductSwaps
      <3>9. r * a <= r * c  BY <2>3, <2>7, ProductMonotone
      <3>10. r * a = a * r /\ r * c = c * r  BY <2>3, <2>7
      <3>11. k * q \in Nat /\ c * r \in Nat  BY <2>3, <2>7, ProductNat
      <3> QED  BY <2>3, <3>4, <3>5, <3>6, <3>7, <3>8, <3>9, <3>10, <3>11
    <2> QED  BY <1>1, <2>6, <2>8
  <1> QED  BY <1>3, <1>4, <1>5, <1>6

\* A share of a sale's proceeds survives its fees, each of which may round by
\* one unit more or less.
LEMMA SaleScales ==
    ASSUME NEW fees \in FeeType, PoolBps(fees) <= 10000, NEW g \in Nat, NEW h \in Nat,
           NEW k \in Nat, k <= 10000, k * h <= 10000 * g + 9999
    PROVE  k * Less(h, PoolFee(fees, h)) <= 10000 * Less(g, PoolFee(fees, g)) + 39996
  <1>1. PICK l, p, c : l = fees.lp /\ p = fees.protocol /\ c = fees.creator  OBVIOUS
  <1>2. l \in Nat /\ p \in Nat /\ c \in Nat /\ l + p + c <= 10000
    BY <1>1 DEF FeeType, PoolBps
  <1>3. PICK R : R = 10000 - (l + p + c)  OBVIOUS
  <1>4. R \in Nat /\ R <= 10000  BY <1>2, <1>3
  <1>5. ASSUME NEW a \in Nat
        PROVE  /\ Less(a, PoolFee(fees, a)) \in Nat
               /\ R * a <= 10000 * Less(a, PoolFee(fees, a))
               /\ 10000 * Less(a, PoolFee(fees, a)) <= R * a + 29997
    <2>1. PICK u, v, w : u = a * l /\ v = a * p /\ w = a * c  OBVIOUS
    <2>2. u \in Nat /\ v \in Nat /\ w \in Nat  BY <1>2, <2>1, ProductNat
    <2>3. PICK x, y, z : x = u \div 10000 /\ y = v \div 10000 /\ z = w \div 10000  OBVIOUS
    <2>4. /\ x \in Nat /\ 10000 * x <= u /\ u <= 10000 * x + 9999
          /\ y \in Nat /\ 10000 * y <= v /\ v <= 10000 * y + 9999
          /\ z \in Nat /\ 10000 * z <= w /\ w <= 10000 * z + 9999
      BY <2>2, <2>3
    <2>5. PoolFee(fees, a) = x + y + z
      BY <1>1, <2>1, <2>3 DEF PoolFee, FeeFloor, BPS
    <2>6. R * a = 10000 * a - (u + v + w)  BY <1>2, <1>3, <2>1
    <2>7. R * a \in Nat  BY <1>4, ProductNat
    <2>8. x + y + z <= a /\ x + y + z \in Nat  BY <2>2, <2>4, <2>6, <2>7
    <2>9. Less(a, PoolFee(fees, a)) = a - (x + y + z)  BY <2>5, <2>8, LessType
    <2> QED  BY <2>2, <2>4, <2>6, <2>8, <2>9
  <1>6. PICK n, o : n = Less(g, PoolFee(fees, g)) /\ o = Less(h, PoolFee(fees, h))  OBVIOUS
  <1>7. n \in Nat /\ R * g <= 10000 * n  BY <1>5, <1>6
  <1>8. o \in Nat /\ 10000 * o <= R * h + 29997  BY <1>5, <1>6
  <1>9. PICK s : s = k * h  OBVIOUS
  <1>10. s \in Nat /\ s <= 10000 * g + 9999  BY <1>9, ProductNat
  <1>11. k * (10000 * o) <= R * s + 299970000
    <2>1. R * h \in Nat  BY <1>4, ProductNat
    <2>2. k * (10000 * o) <= k * (R * h + 29997)  BY <1>8, <2>1, ProductMonotone
    <2>3. k * (R * h + 29997) = k * (R * h) + k * 29997  BY <2>1
    <2>4. k * (R * h) = R * s  BY <1>4, <1>9, ProductSwaps
    <2>5. R * s \in Nat  BY <1>4, <1>10, ProductNat
    <2>6. k * 29997 <= 299970000 /\ k * 29997 \in Nat  OBVIOUS
    <2>7. k * (10000 * o) \in Int  BY <1>8
    <2> QED  BY <2>2, <2>3, <2>4, <2>5, <2>6, <2>7
  <1>12. R * s <= 10000 * (R * g) + 99990000
    <2>1. R * s <= R * (10000 * g + 9999)  BY <1>4, <1>10, ProductMonotone
    <2>2. R * (10000 * g + 9999) = 10000 * (R * g) + R * 9999  BY <1>4
    <2>3. R * 9999 <= 99990000  BY <1>4
    <2>4. R * g \in Nat /\ R * s \in Nat  BY <1>4, <1>10, ProductNat
    <2> QED  BY <1>4, <2>1, <2>2, <2>3, <2>4
  <1>13. k * (10000 * o) = 10000 * (k * o) /\ k * o \in Nat /\ R * g \in Nat /\ R * s \in Nat
    BY <1>4, <1>8, <1>10, ProductNat, ProductSwaps
  <1>14. k * o <= 10000 * n + 39996  BY <1>7, <1>11, <1>12, <1>13
  <1> QED  BY <1>6, <1>14

\* The two shares together are no more than the whole: what the second leg
\* guarantees is within four units of the request.
LEMMA SharesCompose ==
    ASSUME NEW s \in Nat, NEW r \in Nat, s + r <= 10000, NEW x \in Nat, NEW y \in Nat,
           (10000 - s) * y <= 10000 * x + 39996
    PROVE  SlippageDown(x, r) + 4 >= SlippageDown(y, s + r)
  <1>1. PICK k, j, i : k = 10000 - s /\ j = 10000 - r /\ i = 10000 - (s + r)  OBVIOUS
  <1>2. k \in Nat /\ j \in Nat /\ i \in Nat /\ j <= 10000  BY <1>1
  <1>3. PICK v, u : v = SlippageDown(x, r) /\ u = SlippageDown(y, s + r)  OBVIOUS
  <1>4. v \in Nat /\ j * x <= 10000 * v
    <2>1. r <= 10000  OBVIOUS
    <2> QED  BY <1>1, <1>3, <2>1, SlippageBounds
  <1>5. u \in Nat /\ 10000 * u <= i * y + 9999
    <2>1. s + r \in Nat  OBVIOUS
    <2> QED  BY <1>1, <1>3, <2>1, SlippageBounds
  <1>6. PICK a : a = k * y  OBVIOUS
  <1>7. a \in Nat /\ a <= 10000 * x + 39996  BY <1>1, <1>2, <1>6, ProductNat
  <1>8. 10000 * i <= j * k
    <2>1. j * k = 10000 * i + s * r  BY <1>1
    <2>2. s * r \in Nat  BY ProductNat
    <2> QED  BY <1>2, <2>1, <2>2
  <1>9. 10000 * (i * y) <= j * a
    <2>1. y * (10000 * i) <= y * (j * k)  BY <1>2, <1>8, ProductMonotone, ProductNat
    <2>2. y * (10000 * i) = 10000 * (y * i) /\ y * i = i * y  BY <1>2, ProductSwaps
    <2>3. y * (j * k) = j * (y * k) /\ y * k = a  BY <1>2, <1>6, ProductSwaps
    <2> QED  BY <2>1, <2>2, <2>3
  <1>10. j * a <= 10000 * (j * x) + 399960000
    <2>1. j * a <= j * (10000 * x + 39996)  BY <1>2, <1>7, ProductMonotone
    <2>2. j * (10000 * x + 39996) = 10000 * (j * x) + j * 39996  BY <1>2
    <2>3. j * 39996 <= 399960000  BY <1>2
    <2>4. j * a \in Nat /\ j * x \in Nat  BY <1>2, <1>7, ProductNat
    <2> QED  BY <1>2, <2>1, <2>2, <2>3, <2>4
  <1>11. i * y \in Nat /\ j * a \in Nat /\ j * x \in Nat  BY <1>2, <1>7, ProductNat
  <1>12. u <= v + 4  BY <1>4, <1>5, <1>9, <1>10, <1>11
  <1> QED  BY <1>3, <1>4, <1>5, <1>12

\* The amounts that the venues price, and what they quote, of an input m that
\* keeps a share of e.
LEMMA CurveBuyScales ==
    ASSUME NEW pool \in PoolType, NEW fees \in FeeType, PoolBps(fees) <= 3000,
           NEW e \in Nat, NEW m \in Nat, NEW k \in Nat, k >= 5000, k <= 10000,
           k * e <= 10000 * m, NEW r \in Nat, r <= 10000
    PROVE  LET x == CurveBuy(pool, fees, m, r)
               y == CurveBuy(pool, fees, Less(e, 4), 0)
           IN  /\ x.expected_out \in Nat /\ y.expected_out \in Nat
               /\ k * y.expected_out <= 10000 * x.expected_out + 39996
               /\ x.min_out = SlippageDown(x.expected_out, r)
  <1>1. PICK p, c, D : p = fees.protocol /\ c = fees.creator /\ D = p + c + 10000  OBVIOUS
  <1>2. D \in Nat \ {0} /\ D <= 13000 /\ D >= 10000  BY <1>1 DEF FeeType, PoolBps
  <1>3. PICK d, mm, dd : d = Less(e, 4) /\ mm = Less(m, 1) * 10000 /\ dd = Less(d, 1) * 10000
    OBVIOUS
  <1>4. d \in Nat /\ (e >= 4 => d = e - 4) /\ (e <= 4 => d = 0)  BY <1>3 DEF Less
  <1>5. /\ mm \in Nat /\ mm >= 10000 * m - 10000
        /\ dd \in Nat /\ (d = 0 => dd = 0) /\ (d >= 1 => dd = 10000 * d - 10000)
    BY <1>3, <1>4 DEF Less
  <1>6. PICK i, j : i = mm \div D /\ j = dd \div D  OBVIOUS
  <1>7. i = SolIntoCurve(fees, m) /\ j = SolIntoCurve(fees, d)
    BY <1>1, <1>3, <1>6 DEF SolIntoCurve, CurveBps, BPS
  <1>8. i \in Nat /\ mm + 1 <= D * i + D
    <2>1. mm \in Nat /\ D \in Nat \ {0}  BY <1>2, <1>5
    <2>2. PICK q : q = mm \div D  OBVIOUS
    <2>3. q \in Nat /\ mm + 1 <= D * q + D  BY ONLY <2>1, <2>2, QuotientBounds
    <2> QED  BY <1>6, <2>2, <2>3
  <1>9. j \in Nat /\ D * j <= dd  BY <1>2, <1>5, <1>6, QuotientBounds
  <1>10. k * j <= 10000 * i
    <2>1. CASE d = 0
      <3>1. D * j <= D * 0  BY <1>2, <1>5, <1>9, <2>1
      <3>2. j <= 0  BY <1>2, <1>9, <3>1, ProductCancels
      <3>3. j = 0  BY <1>9, <3>2
      <3> QED  BY <1>8, <3>3
    <2>2. CASE d # 0
      <3>1. d = e - 4 /\ d >= 1  BY <1>4, <2>2
      <3>2. D * j <= 10000 * e - 50000  BY <1>2, <1>5, <1>9, <3>1, ProductNat
      <3>3. PICK X : X = D + 10000  OBVIOUS
      <3>4. X \in Nat /\ 2 * X <= 50000  BY <1>2, <3>3
      <3>5. D * i >= 10000 * m - X
        <4>1. D * i \in Nat  BY <1>2, <1>8, ProductNat
        <4> QED  BY <1>2, <1>5, <1>8, <3>3, <4>1
      <3> QED  BY <1>2, <1>8, <1>9, <3>2, <3>4, <3>5, InputScales
    <2> QED  BY <2>1, <2>2
  <1>11. PICK q, b, real : q = pool.quote /\ b = pool.base /\ real = pool.real  OBVIOUS
  <1>12. q \in Nat /\ b \in Nat /\ real \in Nat  BY <1>11 DEF PoolType
  <1>13. PICK g, h : g = OutFor(q, b, i) /\ h = OutFor(q, b, j)  OBVIOUS
  <1>14. g \in Nat /\ h \in Nat  BY <1>8, <1>9, <1>12, <1>13, OutForType
  <1>15. k * h <= 10000 * g + 9999  BY <1>8, <1>9, <1>10, <1>12, <1>13, OutScales
  <1>16. PICK gg, hh : gg = Min2(g, real) /\ hh = Min2(h, real)  OBVIOUS
  <1>17. gg \in Nat /\ hh \in Nat /\ hh <= h /\ hh <= real /\ (gg = g \/ gg = real)
    BY <1>12, <1>14, <1>16 DEF Min2
  <1>18. k * hh <= 10000 * gg + 39996
    <2>1. CASE gg = g
      <3>1. k * hh <= k * h /\ k * hh \in Int /\ k * h \in Int  BY <1>14, <1>17, ProductMonotone
      <3> QED  BY <1>14, <1>15, <2>1, <3>1
    <2>2. CASE gg = real
      <3>1. k * hh <= k * real  BY <1>12, <1>17, ProductMonotone
      <3>2. real * k <= real * 10000  BY <1>12, ProductMonotone
      <3>3. real * k = k * real /\ k * real \in Int /\ k * hh \in Int  BY <1>12, <1>17
      <3> QED  BY <1>12, <2>2, <3>1, <3>2, <3>3
    <2> QED  BY <1>17, <2>1, <2>2
  <1>19. PICK u, v : u = Less(m, i) /\ v = Less(d, j)  OBVIOUS
  <1>20. CurveBuy(pool, fees, m, r) = Quote(m, gg, u, r)
    BY <1>7, <1>11, <1>13, <1>16, <1>19 DEF CurveBuy, BaseOutForQuoteIn
  <1>21. CurveBuy(pool, fees, Less(e, 4), 0) = Quote(d, hh, v, 0)
    BY <1>3, <1>7, <1>11, <1>13, <1>16, <1>19 DEF CurveBuy, BaseOutForQuoteIn
  <1>22. /\ Quote(m, gg, u, r).expected_out = gg /\ Quote(d, hh, v, 0).expected_out = hh
         /\ Quote(m, gg, u, r).min_out = SlippageDown(gg, r)
    BY DEF Quote
  <1> QED  BY <1>17, <1>18, <1>20, <1>21, <1>22

LEMMA PoolBuyScales ==
    ASSUME NEW pool \in PoolType, NEW fees \in FeeType, PoolBps(fees) <= 3000,
           NEW e \in Nat, NEW m \in Nat, NEW k \in Nat, k >= 5000, k <= 10000,
           k * e <= 10000 * m, NEW r \in Nat, r <= 10000
    PROVE  LET x == PoolBuy(pool, fees, m, r)
               y == PoolBuy(pool, fees, Less(e, 4), 0)
           IN  /\ x.expected_out \in Nat /\ y.expected_out \in Nat
               /\ k * y.expected_out <= 10000 * x.expected_out + 39996
               /\ x.min_out = SlippageDown(x.expected_out, r)
  <1>1. PICK D : D = 10000 + PoolBps(fees)  OBVIOUS
  <1>2. D \in Nat \ {0} /\ D <= 13000  BY <1>1 DEF FeeType, PoolBps
  <1>3. PICK d, a, c : d = Less(e, 4) /\ a = QuoteIntoPool(fees, m) /\ c = QuoteIntoPool(fees, d)
    OBVIOUS
  <1>4. d \in Nat /\ (e >= 4 => d = e - 4) /\ (e <= 4 => d = 0)  BY <1>3 DEF Less
  <1>5. a \in Nat /\ a = (m * 10000) \div D  BY <1>1, <1>3, PoolInputFits
  <1>6. c \in Nat /\ c <= d /\ c = (d * 10000) \div D  BY <1>1, <1>3, <1>4, PoolInputFits
  <1>7. m * 10000 + 1 <= D * a + D  BY <1>2, <1>5, QuotientBounds
  <1>8. D * c <= d * 10000  BY <1>2, <1>4, <1>6, QuotientBounds
  <1>9. PICK i, j : i = Less(a, 1) /\ j = Less(c, 1)  OBVIOUS
  <1>10. i \in Nat /\ i >= a - 1 /\ j \in Nat /\ (c = 0 => j = 0) /\ (c >= 1 => j = c - 1)
    BY <1>5, <1>6, <1>9 DEF Less
  <1>11. k * j <= 10000 * i
    <2>1. CASE c = 0  BY <1>10, <2>1
    <2>2. CASE c # 0
      <3>1. d = e - 4 /\ d >= 1 /\ j = c - 1  BY <1>4, <1>6, <1>10, <2>2
      <3>2. PICK X, Y : X = 2 * D /\ Y = 40000 + D  OBVIOUS
      <3>3. X \in Nat /\ Y \in Nat /\ 2 * X <= Y  BY <1>2, <3>2
      <3>4. D * j <= 10000 * e - Y
        <4>1. D * (c - 1) = D * c - D /\ D * c \in Nat  BY <1>2, <1>6, ProductNat
        <4> QED  BY <1>2, <1>8, <3>1, <3>2, <4>1
      <3>5. D * i >= 10000 * m - X
        <4>1. D * (a - 1) <= D * i  BY <1>2, <1>5, <1>10, ProductMonotone
        <4>2. D * (a - 1) = D * a - D /\ D * a \in Nat /\ D * i \in Nat
          BY <1>2, <1>5, <1>10, ProductNat
        <4> QED  BY <1>2, <1>7, <3>2, <4>1, <4>2
      <3> QED  BY <1>2, <1>10, <3>3, <3>4, <3>5, InputScales
    <2> QED  BY <2>1, <2>2
  <1>12. PICK q, b : q = pool.quote /\ b = pool.base  OBVIOUS
  <1>13. q \in Nat /\ b \in Nat  BY <1>12 DEF PoolType
  <1>14. PICK g, h : g = OutFor(q, b, i) /\ h = OutFor(q, b, j)  OBVIOUS
  <1>15. g \in Nat /\ h \in Nat  BY <1>10, <1>13, <1>14, OutForType
  <1>16. k * h <= 10000 * g + 9999  BY <1>10, <1>11, <1>13, <1>14, OutScales
  <1>17. k * h <= 10000 * g + 39996
    <2>1. k * h \in Nat  BY <1>15, ProductNat
    <2> QED  BY <1>15, <1>16, <2>1
  <1>18. PICK u, v : u = Less(m, a) /\ v = Less(d, c)  OBVIOUS
  <1>19. PoolBuy(pool, fees, m, r) = Quote(m, g, u, r)
    BY <1>3, <1>9, <1>12, <1>14, <1>18 DEF PoolBuy, BaseOutForQuoteIn
  <1>20. PoolBuy(pool, fees, Less(e, 4), 0) = Quote(d, h, v, 0)
    BY <1>3, <1>9, <1>12, <1>14, <1>18 DEF PoolBuy, BaseOutForQuoteIn
  <1>21. /\ Quote(m, g, u, r).expected_out = g /\ Quote(d, h, v, 0).expected_out = h
         /\ Quote(m, g, u, r).min_out = SlippageDown(g, r)
    BY DEF Quote
  <1> QED  BY <1>15, <1>17, <1>19, <1>20, <1>21

LEMMA PoolSellScales ==
    ASSUME NEW pool \in PoolType, NEW fees \in FeeType, PoolBps(fees) <= 3000,
           NEW e \in Nat, NEW m \in Nat, NEW k \in Nat, k >= 5000, k <= 10000,
           k * e <= 10000 * m, NEW r \in Nat, r <= 10000
    PROVE  LET x == PoolSell(pool, fees, m, r)
               y == PoolSell(pool, fees, Less(e, 4), 0)
           IN  /\ x.expected_out \in Nat /\ y.expected_out \in Nat
               /\ k * y.expected_out <= 10000 * x.expected_out + 39996
               /\ x.min_out = SlippageDown(x.expected_out, r)
  <1>1. PICK d : d = Less(e, 4)  OBVIOUS
  <1>2. d \in Nat /\ d <= e  BY <1>1 DEF Less
  <1>3. k * d <= 10000 * m
    <2>1. k * d <= k * e /\ k * d \in Int /\ k * e \in Int  BY <1>2, ProductMonotone
    <2> QED  BY <2>1
  <1>4. PICK q, b : q = pool.quote /\ b = pool.base  OBVIOUS
  <1>5. q \in Nat /\ b \in Nat  BY <1>4 DEF PoolType
  <1>6. PICK g, h : g = OutFor(b, q, m) /\ h = OutFor(b, q, d)  OBVIOUS
  <1>7. g \in Nat /\ h \in Nat  BY <1>2, <1>5, <1>6, OutForType
  <1>8. k * h <= 10000 * g + 9999  BY <1>2, <1>3, <1>5, <1>6, OutScales
  <1>9. PICK n, o : n = Less(g, PoolFee(fees, g)) /\ o = Less(h, PoolFee(fees, h))  OBVIOUS
  <1>10. PoolBps(fees) <= 10000  BY DEF PoolBps, FeeType
  <1>11. k * o <= 10000 * n + 39996  BY <1>7, <1>8, <1>9, <1>10, SaleScales
  <1>12. n \in Nat /\ o \in Nat  BY <1>7, <1>9, PoolFeeType, LessType
  <1>13. PICK u, v : u = PoolFee(fees, g) /\ v = PoolFee(fees, h)  OBVIOUS
  <1>14. PoolSell(pool, fees, m, r) = Quote(m, n, u, r)
    BY <1>4, <1>6, <1>9, <1>13 DEF PoolSell, QuoteOutForBaseIn
  <1>15. PoolSell(pool, fees, Less(e, 4), 0) = Quote(d, o, v, 0)
    BY <1>1, <1>4, <1>6, <1>9, <1>13 DEF PoolSell, QuoteOutForBaseIn
  <1>16. /\ Quote(m, n, u, r).expected_out = n /\ Quote(d, o, v, 0).expected_out = o
         /\ Quote(m, n, u, r).min_out = SlippageDown(n, r)
    BY DEF Quote
  <1> QED  BY <1>11, <1>12, <1>14, <1>15, <1>16

\* PumpSwap::route_slippage: the legs' shares add up to the request.
LEMMA SharesAddUp ==
    ASSUME trade \in TradeType, Supported(trade), Bridged(trade)
    PROVE  LET first == Slippage(Route(trade)[1])
               second == Slippage(Route(trade)[2])
           IN  first \in Nat /\ second \in Nat /\ first + second = trade.slippage_bps
  <1>1. PICK s : s = trade.slippage_bps  OBVIOUS
  <1>2. s \in Nat
    <2>1. trade.slippage_bps \in 0..BPS  BY DEF TradeType
    <2>2. s \in 0..BPS  BY <1>1, <2>1
    <2> QED  BY <2>2 DEF BPS
  <1>3. PICK h : h = s \div 2  OBVIOUS
  <1>4. h \in Nat /\ h <= s  BY <1>2, <1>3
  <1>5. PICK b : b = Min2(h, MAX_BRIDGE_SLIPPAGE_BPS)  OBVIOUS
  <1>6. b \in Nat /\ b <= s  BY <1>2, <1>4, <1>5 DEF Min2, MAX_BRIDGE_SLIPPAGE_BPS
  <1>7. RouteSlippage(s) = [bridge |-> b, target |-> s - b]
    BY <1>3, <1>5 DEF RouteSlippage
  <1>8. RouteSlippage(s).bridge = b /\ RouteSlippage(s).target = s - b  BY <1>7
  <1>9. Chained(trade)  BY RouteIsChained
  <1>10. PICK x, y \in LegType : Route(trade) = << x, y >> /\ x.at # y.at
    BY <1>9 DEF Chained
  <1>11. Route(trade)[1] = x /\ Route(trade)[2] = y  BY <1>10
  <1>12. (x.at = "bridge" /\ y.at # "bridge") \/ (x.at # "bridge" /\ y.at = "bridge")
    BY <1>10 DEF LegType
  <1>13. \/ Slippage(x) = b /\ Slippage(y) = s - b
         \/ Slippage(x) = s - b /\ Slippage(y) = b
    BY <1>1, <1>8, <1>12 DEF Slippage
  <1> QED  BY <1>1, <1>2, <1>6, <1>11, <1>13

\* The minimum of the first leg is its slippage below what it expects.
LEMMA FirstQuoteSlips ==
    ASSUME trade \in TradeType, AllLoaded, NEW s \in Nat, s <= 10000,
           s = Slippage(Route(trade)[1])
    PROVE  /\ FirstQuote.expected_out \in Nat /\ FirstQuote.min_out \in Nat
           /\ FirstQuote.min_out = SlippageDown(FirstQuote.expected_out, s)
  <1>1. Supported(trade)  BY DEF AllLoaded
  <1>2. 1 \in 1..Len(Route(trade))  BY <1>1, RouteShape
  <1>3. snapshot[1] \in SnapshotType  BY <1>2 DEF AllLoaded
  <1>4. trade.amount \in Nat  BY DEF TradeType
  <1>5. FirstQuote = LegQuote(1, trade.amount, s)  BY DEF FirstQuote
  <1>6. SoundQuote(LegQuote(1, trade.amount, s), trade.amount)
    BY <1>1, <1>2, <1>3, <1>4, LegQuoteFacts
  <1>7. FirstQuote.expected_out \in Nat /\ FirstQuote.min_out \in Nat
    BY <1>5, <1>6 DEF SoundQuote, QuoteType
  <1>8. \E expected, fee : FirstQuote = Quote(trade.amount, expected, fee, s)
    <2>1. PICK leg, pool, fees, amt : /\ leg = Route(trade)[1] /\ amt = trade.amount
                                      /\ pool = snapshot[1].pool /\ fees = snapshot[1].fees
      OBVIOUS
    <2>2. Adapter(leg) \in {"PumpFun", "PumpSwap"} /\ leg.side \in {"Buy", "Sell"}
      <3>1. leg \in LegType  BY <1>1, <1>2, <2>1, RouteShape
      <3> QED  BY <3>1 DEF Adapter, TradeType, LegType
    <2>3. FirstQuote \in {CurveBuy(pool, fees, amt, s), CurveSell(pool, fees, amt, s),
                          PoolBuy(pool, fees, amt, s), PoolSell(pool, fees, amt, s)}
      BY <1>5, <2>1, <2>2 DEF LegQuote
    <2> QED  BY <2>1, <2>3 DEF CurveBuy, CurveSell, PoolBuy, PoolSell
  <1>9. PICK expected, fee : FirstQuote = Quote(trade.amount, expected, fee, s)  BY <1>8
  <1>10. FirstQuote.expected_out = expected /\ FirstQuote.min_out = SlippageDown(expected, s)
    BY <1>9 DEF Quote
  <1> QED  BY <1>7, <1>10

\* What the second leg quotes of an input m that keeps a share of e.  A curve
\* is never sold on there: a second leg that sells is the bridge's.
LEMMA SecondLegScales ==
    ASSUME trade \in TradeType, AllLoaded, Bridged(trade), PoolBps(snapshot[2].fees) <= 3000,
           NEW e \in Nat, NEW m \in Nat, NEW k \in Nat, k >= 5000, k <= 10000,
           k * e <= 10000 * m, NEW r \in Nat, r <= 10000
    PROVE  LET x == LegQuote(2, m, r)
               y == LegQuote(2, Less(e, 4), 0)
           IN  /\ x.expected_out \in Nat /\ y.expected_out \in Nat
               /\ k * y.expected_out <= 10000 * x.expected_out + 39996
               /\ x.min_out = SlippageDown(x.expected_out, r)
  <1>1. Supported(trade)  BY DEF AllLoaded
  <1>2. 2 \in 1..Len(Route(trade))
    <2>1. Len(Route(trade)) = 2  BY <1>1, RouteShape
    <2> QED  BY <2>1
  <1>3. snapshot[2] \in SnapshotType  BY <1>2 DEF AllLoaded
  <1>4. PICK leg, pool, fees : /\ leg = Route(trade)[2]
                               /\ pool = snapshot[2].pool /\ fees = snapshot[2].fees
    OBVIOUS
  <1>5. pool \in PoolType /\ fees \in FeeType /\ PoolBps(fees) <= 3000
    BY <1>3, <1>4 DEF SnapshotType
  <1>6. leg.side \in {"Buy", "Sell"} /\ (leg.side = "Sell" => leg.at = "bridge")
    <2>1. Chained(trade)  BY <1>1, RouteIsChained
    <2>2. PICK a, b \in LegType : /\ Route(trade) = << a, b >>
                                  /\ b.side = "Sell" => b.at = "bridge"
      BY <2>1 DEF Chained
    <2>3. leg = b  BY <1>4, <2>2
    <2> QED  BY <2>2, <2>3 DEF LegType
  <1>7. Adapter(leg) \in {"PumpFun", "PumpSwap"}  BY DEF Adapter, TradeType
  <1>8. CASE leg.side = "Buy" /\ Adapter(leg) = "PumpFun"
    <2>1. \A amt, s : LegQuote(2, amt, s) = CurveBuy(pool, fees, amt, s)
      BY <1>4, <1>8 DEF LegQuote
    <2>3. PICK x, y : x = CurveBuy(pool, fees, m, r) /\ y = CurveBuy(pool, fees, Less(e, 4), 0)
      OBVIOUS
    <2>4. /\ x.expected_out \in Nat /\ y.expected_out \in Nat
          /\ k * y.expected_out <= 10000 * x.expected_out + 39996
          /\ x.min_out = SlippageDown(x.expected_out, r)
      <3>1. LET u == CurveBuy(pool, fees, m, r)
                v == CurveBuy(pool, fees, Less(e, 4), 0)
            IN  /\ u.expected_out \in Nat /\ v.expected_out \in Nat
                /\ k * v.expected_out <= 10000 * u.expected_out + 39996
                /\ u.min_out = SlippageDown(u.expected_out, r)
        BY <1>5, CurveBuyScales
      <3> QED  BY <2>3, <3>1
    <2>5. x = LegQuote(2, m, r) /\ y = LegQuote(2, Less(e, 4), 0)  BY <2>1, <2>3
    <2> QED  BY <2>4, <2>5
  <1>9. CASE leg.side = "Buy" /\ Adapter(leg) = "PumpSwap"
    <2>1. \A amt, s : LegQuote(2, amt, s) = PoolBuy(pool, fees, amt, s)
      BY <1>4, <1>9 DEF LegQuote
    <2>3. PICK x, y : x = PoolBuy(pool, fees, m, r) /\ y = PoolBuy(pool, fees, Less(e, 4), 0)
      OBVIOUS
    <2>4. /\ x.expected_out \in Nat /\ y.expected_out \in Nat
          /\ k * y.expected_out <= 10000 * x.expected_out + 39996
          /\ x.min_out = SlippageDown(x.expected_out, r)
      <3>1. LET u == PoolBuy(pool, fees, m, r)
                v == PoolBuy(pool, fees, Less(e, 4), 0)
            IN  /\ u.expected_out \in Nat /\ v.expected_out \in Nat
                /\ k * v.expected_out <= 10000 * u.expected_out + 39996
                /\ u.min_out = SlippageDown(u.expected_out, r)
        BY <1>5, PoolBuyScales
      <3> QED  BY <2>3, <3>1
    <2>5. x = LegQuote(2, m, r) /\ y = LegQuote(2, Less(e, 4), 0)  BY <2>1, <2>3
    <2> QED  BY <2>4, <2>5
  <1>10. CASE leg.side = "Sell"
    <2>1. Adapter(leg) = "PumpSwap"  BY <1>6, <1>10 DEF Adapter
    <2>2. \A amt, s : LegQuote(2, amt, s) = PoolSell(pool, fees, amt, s)
      BY <1>4, <1>10, <2>1 DEF LegQuote
    <2>3. PICK x, y : x = PoolSell(pool, fees, m, r) /\ y = PoolSell(pool, fees, Less(e, 4), 0)
      OBVIOUS
    <2>4. /\ x.expected_out \in Nat /\ y.expected_out \in Nat
          /\ k * y.expected_out <= 10000 * x.expected_out + 39996
          /\ x.min_out = SlippageDown(x.expected_out, r)
      <3>1. LET u == PoolSell(pool, fees, m, r)
                v == PoolSell(pool, fees, Less(e, 4), 0)
            IN  /\ u.expected_out \in Nat /\ v.expected_out \in Nat
                /\ k * v.expected_out <= 10000 * u.expected_out + 39996
                /\ u.min_out = SlippageDown(u.expected_out, r)
        BY <1>5, PoolSellScales
      <3> QED  BY <2>3, <3>1
    <2>5. x = LegQuote(2, m, r) /\ y = LegQuote(2, Less(e, 4), 0)  BY <2>2, <2>3
    <2> QED  BY <2>4, <2>5
  <1> QED  BY <1>6, <1>7, <1>8, <1>9, <1>10

\* What a route guarantees before it runs, whatever pools it was priced from.
LEMMA RouteKeepsSlippage ==
    ASSUME trade \in TradeType, AllLoaded, Bridged(trade), Moderate
    PROVE  LET unslipped == LegQuote(2, Less(FirstQuote.expected_out, Rounding), 0).expected_out
           IN  SecondQuote.min_out + Rounding >= SlippageDown(unslipped, trade.slippage_bps)
  <1>1. Supported(trade)  BY DEF AllLoaded
  <1>2. PICK s, r : s = Slippage(Route(trade)[1]) /\ r = Slippage(Route(trade)[2])  OBVIOUS
  <1>3. s \in Nat /\ r \in Nat /\ s + r = trade.slippage_bps  BY <1>1, <1>2, SharesAddUp
  <1>4. s + r <= 5000  BY <1>3 DEF Moderate
  <1>5. s <= 10000 /\ r <= 10000 /\ s + r <= 10000 /\ s <= 5000  BY <1>3, <1>4
  <1>6. PICK e, m : e = FirstQuote.expected_out /\ m = FirstQuote.min_out  OBVIOUS
  <1>7. e \in Nat /\ m \in Nat /\ m = SlippageDown(e, s)
    BY <1>2, <1>3, <1>5, <1>6, FirstQuoteSlips
  <1>8. PICK k : k = 10000 - s  OBVIOUS
  <1>9. k \in Nat /\ k >= 5000 /\ k <= 10000  BY <1>3, <1>5, <1>8
  <1>10. k * e <= 10000 * m  BY <1>3, <1>5, <1>7, <1>8, SlippageBounds
  <1>11. PICK x, y : x = LegQuote(2, m, r) /\ y = LegQuote(2, Less(e, 4), 0)  OBVIOUS
  <1>12. PoolBps(snapshot[2].fees) <= 3000  BY DEF Moderate
  <1>13. /\ x.expected_out \in Nat /\ y.expected_out \in Nat
         /\ k * y.expected_out <= 10000 * x.expected_out + 39996
         /\ x.min_out = SlippageDown(x.expected_out, r)
    BY <1>3, <1>5, <1>7, <1>9, <1>10, <1>11, <1>12, SecondLegScales
  <1>14. PICK a, b : a = x.expected_out /\ b = y.expected_out  OBVIOUS
  <1>15. SlippageDown(a, r) + 4 >= SlippageDown(b, s + r)
    <2>1. a \in Nat /\ b \in Nat /\ (10000 - s) * b <= 10000 * a + 39996
      BY <1>8, <1>13, <1>14
    <2> QED  BY <1>3, <1>5, <2>1, SharesCompose
  <1>16. SecondQuote = x  BY <1>2, <1>6, <1>11 DEF SecondQuote, SecondInput
  <1> QED  BY <1>3, <1>6, <1>11, <1>13, <1>14, <1>15, <1>16 DEF Rounding

-----------------------------------------------------------------------------
(* The inductive invariant. *)

\* From the quotes on, every leg's pool has been read.
PoolsRead == stage \in {"quote", "built", "run", "landed", "reverted"} => AllLoaded

\* The legs that run, and the quote reported for them.
LegsSound ==
    /\ stage \in {"load", "quote", "error"} => legs = << >>
    /\ stage \in {"built", "run", "landed", "reverted"} =>
          /\ Financed(legs)
          /\ Bridged(trade) => legs[2].min_out # 0
          /\ answer.min_out = legs[Len(legs)].min_out

\* What the transaction holds: the input, then at least what the first leg
\* guarantees, then at least what the route does.
WalletSound ==
    /\ stage \in {"load", "quote", "built", "error"} => ran = 0 /\ \A a \in Assets : wallet[a] = 0
    /\ stage = "run" =>
          \/ /\ ran = 0
             /\ wallet[Route(trade)[1].give] = trade.amount
             /\ \A a \in Assets : a # Route(trade)[1].give => wallet[a] = 0
          \/ /\ ran = 1 /\ Bridged(trade)
             /\ wallet[Route(trade)[1].get] >= legs[1].min_out
             /\ wallet[Route(trade)[2].get] = 0
    /\ stage = "landed" => wallet[Route(trade)[Len(legs)].get] >= legs[Len(legs)].min_out

Typed ==
    /\ trade \in Trades
    /\ stage \in Stages
    /\ cache \in [{"PumpFun", "PumpSwap"} -> FeeSettings \cup {Unset}]
    /\ snapshot \in [1..2 -> SnapshotType \cup {Unset}]
    /\ ran \in 0..2
    /\ wallet \in [Assets -> Int]

BridgeInv == Typed /\ PoolsRead /\ LegsSound /\ WalletSound

LEMMA InitKeeps == Init => BridgeInv
  <1> SUFFICES ASSUME Init PROVE BridgeInv  OBVIOUS
  <1>1. wallet \in [Assets -> Int] /\ \A a \in Assets : wallet[a] = 0  BY DEF Init
  <1>2. Typed  BY <1>1 DEF Init, Typed, Stages
  <1>3. PoolsRead /\ LegsSound  BY DEF Init, PoolsRead, LegsSound
  <1>4. WalletSound  BY <1>1 DEF Init, WalletSound
  <1> QED  BY <1>2, <1>3, <1>4 DEF BridgeInv

\* Giving up, anywhere in the preparation.
LEMMA FailKeeps ==
    ASSUME BridgeInv, stage \in {"load", "quote"}, Fail,
           UNCHANGED << trade, cache, snapshot, ran, wallet >>
    PROVE  BridgeInv'
  <1> USE DEF BridgeInv, Fail
  <1>1. Typed'  BY DEF Typed, Stages
  <1>2. PoolsRead'  BY DEF PoolsRead
  <1>3. LegsSound'  BY DEF LegsSound
  <1>4. WalletSound'  BY DEF WalletSound
  <1> QED  BY <1>1, <1>2, <1>3, <1>4

\* Loading one leg: with the last of them, every leg is loaded.
LEMMA LoadKeeps ==
    ASSUME BridgeInv, Load
    PROVE  BridgeInv'
  <1>1. Typed /\ LegsSound /\ WalletSound /\ stage = "load" /\ Supported(trade)
    BY DEF BridgeInv, Load
  <1>2. trade \in TradeType  BY <1>1, BridgeAssumption DEF Typed
  <1>3. Len(Route(trade)) = IF Bridged(trade) THEN 2 ELSE 1  BY <1>1, <1>2, RouteShape
  <1>4. PICK order, todo : /\ order = LoadOrder(trade)
                           /\ todo = {i \in 1..Len(Route(trade)) : snapshot[i] = Unset}
    OBVIOUS
  <1>5. order \in Seq(1..2) /\ \A i \in 1..2 : \E j \in 1..Len(order) : order[j] = i
    <2>1. CASE order = << 1, 2 >>
      <3>1. order \in Seq(1..2) /\ Len(order) = 2 /\ order[1] = 1 /\ order[2] = 2  BY <2>1
      <3> QED  BY <3>1
    <2>2. CASE order = << 2, 1 >>
      <3>1. order \in Seq(1..2) /\ Len(order) = 2 /\ order[1] = 2 /\ order[2] = 1  BY <2>2
      <3> QED  BY <3>1
    <2> QED  BY <1>4, <2>1, <2>2 DEF LoadOrder
  <1>6. PICK pending : pending = Only(order, todo)  OBVIOUS
  <1>7. Pending = pending  BY <1>4, <1>6 DEF Pending
  <1>8. pending \in Seq(1..2) /\ pending # << >>  BY <1>5, <1>6, <1>7, OnlyType DEF Load
  <1>9. PICK i : i = Head(pending)  OBVIOUS
  <1>10. i = pending[1] /\ 1 \in 1..Len(pending) /\ i \in 1..2  BY <1>8, <1>9
  <1>11. PICK adapter : adapter = Adapter(Route(trade)[i])  OBVIOUS
  <1>12. adapter \in {"PumpFun", "PumpSwap"}  BY <1>2, <1>11 DEF Adapter, TradeType
  <1>13. \E r \in Reserves,
             f \in IF cache[adapter] = Unset THEN FeeSettings ELSE {cache[adapter]} :
            /\ EffectiveQuote(r) >= 0
            /\ cache' = [cache EXCEPT ![adapter] = f]
            /\ snapshot' = [snapshot EXCEPT ![i] = [pool |-> Priced(r), fees |-> Charged(r, f)]]
    BY <1>7, <1>9, <1>11 DEF Load
  <1>14. cache[adapter] \in FeeSettings \cup {Unset}  BY <1>1, <1>12 DEF Typed
  <1>15. PICK r \in Reserves, f \in FeeSettings :
            /\ EffectiveQuote(r) >= 0
            /\ cache' = [cache EXCEPT ![adapter] = f]
            /\ snapshot' = [snapshot EXCEPT ![i] = [pool |-> Priced(r), fees |-> Charged(r, f)]]
    BY <1>13, <1>14
  <1>16. PICK s : s = [pool |-> Priced(r), fees |-> Charged(r, f)]  OBVIOUS
  <1>17. s \in SnapshotType
    <2>1. r \in ReserveType /\ f \in FeeType  BY <1>15, BridgeAssumption
    <2>2. EffectiveQuote(r) \in Nat  BY <1>15, <2>1 DEF EffectiveQuote, ReserveType
    <2>3. Priced(r) \in PoolType  BY <2>1, <2>2 DEF Priced, PoolType, ReserveType
    <2>4. Charged(r, f) \in FeeType  BY <2>1 DEF Charged, FeeType
    <2> QED  BY <1>16, <2>3, <2>4 DEF SnapshotType
  <1>18. snapshot' \in [1..2 -> SnapshotType \cup {Unset}]
         /\ snapshot'[i] = s /\ \A j \in 1..2 : j # i => snapshot'[j] = snapshot[j]
    BY <1>1, <1>10, <1>15, <1>16, <1>17 DEF Typed
  <1>19. Typed'
    <2>1. cache' \in [{"PumpFun", "PumpSwap"} -> FeeSettings \cup {Unset}]
      BY <1>1, <1>15 DEF Typed
    <2>2. trade' = trade /\ ran' = ran /\ wallet' = wallet /\ stage' \in {"quote", "load"}
      BY DEF Load
    <2> QED  BY <1>1, <1>18, <2>1, <2>2 DEF Typed, Stages
  <1>20. PoolsRead'
    <2>1. CASE Len(pending) # 1
      <3>1. stage' = "load"  BY <1>7, <2>1 DEF Load
      <3> QED  BY <3>1 DEF PoolsRead
    <2>2. CASE Len(pending) = 1
      <3>1. trade' = trade  BY DEF Load
      <3>2. ASSUME NEW j \in 1..Len(Route(trade)) PROVE snapshot'[j] \in SnapshotType
        <4>1. j \in 1..2  BY <1>3
        <4>2. CASE snapshot[j] = Unset
          <5>1. j \in todo  BY <1>4, <4>2
          <5>2. \E k \in 1..Len(pending) : pending[k] = j
            <6>1. \E k \in 1..Len(order) : order[k] = j  BY <1>5, <4>1
            <6>2. order \in Seq(1..2)  BY <1>5
            <6> QED  BY <1>6, <5>1, <6>1, <6>2, OnlyElements
          <5>3. \A k \in 1..1 : k = 1  OBVIOUS
          <5>4. j = i  BY <1>10, <2>2, <5>2, <5>3
          <5> QED  BY <1>17, <1>18, <5>4
        <4>3. CASE snapshot[j] # Unset
          <5>1. snapshot[j] \in SnapshotType  BY <1>1, <4>1, <4>3 DEF Typed
          <5> QED  BY <1>17, <1>18, <4>1, <5>1
        <4> QED  BY <4>2, <4>3
      <3>3. AllLoaded'
        <4>1. Supported(trade') /\ \A j \in 1..Len(Route(trade')) : snapshot'[j] \in SnapshotType
          BY <1>1, <3>1, <3>2
        <4> QED  BY <4>1 DEF AllLoaded
      <3> QED  BY <3>3 DEF PoolsRead
    <2> QED  BY <2>1, <2>2
  <1>21. LegsSound'
    <2>1. legs' = legs /\ stage' \in {"quote", "load"} /\ legs = << >>
      BY <1>1 DEF Load, LegsSound
    <2> QED  BY <2>1 DEF LegsSound
  <1>22. WalletSound'
    <2>1. wallet' = wallet /\ ran' = ran /\ stage' \in {"quote", "load"}  BY DEF Load
    <2>2. ran = 0 /\ \A a \in Assets : wallet[a] = 0  BY <1>1 DEF WalletSound
    <2> QED  BY <2>1, <2>2 DEF WalletSound
  <1> QED  BY <1>19, <1>20, <1>21, <1>22 DEF BridgeInv

LEMMA AssembleKeeps ==
    ASSUME BridgeInv, Assemble
    PROVE  BridgeInv'
  <1>1. Typed /\ PoolsRead /\ LegsSound /\ WalletSound /\ stage = "quote"
    BY DEF BridgeInv, Assemble
  <1>2. /\ stage' = "built" /\ legs' = Quotes /\ answer' = RouteQuote /\ ~EmptyLeg
        /\ UNCHANGED << trade, cache, snapshot, ran, wallet >>
    BY DEF Assemble
  <1>3. trade \in TradeType  BY <1>1, BridgeAssumption DEF Typed
  <1>4. AllLoaded  BY <1>1 DEF PoolsRead
  <1>5. Financed(Quotes)  BY <1>3, <1>4, QuotesAreFinanced
  <1>6. Typed'  BY <1>1, <1>2 DEF Typed, Stages
  <1>7. PoolsRead'  BY <1>2, <1>4 DEF PoolsRead, AllLoaded
  <1>8. WalletSound'  BY <1>1, <1>2 DEF WalletSound
  <1>9. PICK quotes, n : quotes = Quotes /\ n = Len(quotes)  OBVIOUS
  <1>10. n = IF Bridged(trade) THEN 2 ELSE 1
    <2>1. n = Len(Route(trade))  BY <1>5, <1>9 DEF Financed
    <2>2. Supported(trade)  BY <1>4 DEF AllLoaded
    <2> QED  BY <1>3, <2>1, <2>2, RouteShape
  <1>11. Bridged(trade) => quotes[2].min_out # 0  BY <1>2, <1>9 DEF EmptyLeg
  <1>12. answer'.min_out = quotes[n].min_out
    <2>1. PICK last : last = quotes[n]  OBVIOUS
    <2>2. n \in 1..n  BY <1>10
    <2>3. last \in QuoteType  BY <1>5, <1>9, <2>1, <2>2 DEF Financed, SoundQuote
    <2>4. Reported(Quotes) = last  BY <1>9, <2>1 DEF Reported
    <2>5. \A x, y : [last EXCEPT !.in_amount = x, !.fee = y].min_out = last.min_out
      BY <2>3 DEF QuoteType
    <2>6. \E x, y : RouteQuote = [last EXCEPT !.in_amount = x, !.fee = y]
      BY <2>4 DEF RouteQuote
    <2> QED  BY <1>2, <2>1, <2>5, <2>6
  <1>13. LegsSound'
    <2>1. Financed(legs)'
      <3>1. Financed(Quotes) /\ legs' = Quotes /\ trade' = trade  BY <1>2, <1>5
      <3> QED  BY <3>1 DEF Financed
    <2>2. legs' = quotes /\ n = Len(quotes) /\ trade' = trade  BY <1>2, <1>9
    <2> QED  BY <1>2, <1>11, <1>12, <2>1, <2>2 DEF LegsSound
  <1> QED  BY <1>6, <1>7, <1>8, <1>13 DEF BridgeInv

LEMMA ExecuteKeeps ==
    ASSUME BridgeInv, Execute
    PROVE  BridgeInv'
  <1>1. Typed /\ PoolsRead /\ LegsSound /\ WalletSound /\ stage = "built"
    BY DEF BridgeInv, Execute
  <1>2. /\ stage' = "run"
        /\ UNCHANGED << trade, cache, snapshot, legs, answer, ran >>
    BY DEF Execute
  <1>3. PICK give : give = Route(trade)[1].give  OBVIOUS
  <1>4. wallet' = [wallet EXCEPT ![give] = trade.amount]  BY <1>3 DEF Execute
  <1>5. trade \in TradeType /\ Supported(trade)
    BY <1>1, BridgeAssumption DEF Typed, PoolsRead, AllLoaded
  <1>6. give \in Assets
    <2>1. 1 \in 1..Len(Route(trade))  BY <1>5, RouteShape
    <2>2. Route(trade)[1] \in LegType  BY <1>5, <2>1, RouteShape
    <2> QED  BY <1>3, <2>2 DEF LegType
  <1>7. trade.amount \in Nat  BY <1>5 DEF TradeType
  <1>8. /\ wallet' \in [Assets -> Int]
        /\ wallet'[give] = trade.amount
        /\ \A a \in Assets : a # give => wallet'[a] = 0
    BY <1>1, <1>4, <1>6, <1>7 DEF Typed, WalletSound
  <1>9. Typed'  BY <1>1, <1>2, <1>8 DEF Typed, Stages
  <1>10. PoolsRead'  BY <1>1, <1>2 DEF PoolsRead, AllLoaded
  <1>11. LegsSound'  BY <1>1, <1>2 DEF LegsSound, Financed
  <1>12. ran = 0  BY <1>1 DEF WalletSound
  <1>13. WalletSound'  BY <1>2, <1>3, <1>8, <1>12 DEF WalletSound
  <1> QED  BY <1>9, <1>10, <1>11, <1>13 DEF BridgeInv

\* What a leg about to run may spend and must bring.
LEMMA LegInHand ==
    ASSUME BridgeInv, stage = "run"
    PROVE  /\ ran + 1 \in 1..Len(legs)
           /\ Limit \in QuoteType
           /\ Current \in LegType /\ Current.give # Current.get
           /\ wallet[Current.give] >= Limit.in_amount
           /\ wallet[Current.get] = 0
  <1>1. Typed /\ PoolsRead /\ LegsSound /\ WalletSound  BY DEF BridgeInv
  <1>2. trade \in TradeType /\ Supported(trade)
    BY <1>1, BridgeAssumption DEF Typed, PoolsRead, AllLoaded
  <1>3. Chained(trade)  BY <1>2, RouteIsChained
  <1>4. Len(Route(trade)) = IF Bridged(trade) THEN 2 ELSE 1  BY <1>2, RouteShape
  <1>5. Financed(legs)  BY <1>1 DEF LegsSound
  <1>6. CASE ran = 0
    <2>1. Current = Route(trade)[1] /\ Limit = legs[1]  BY <1>6 DEF Current, Limit
    <2>2. 1 \in 1..Len(legs) /\ 1 \in 1..Len(Route(trade))  BY <1>4, <1>5 DEF Financed
    <2>3. Route(trade)[1] \in LegType  BY <1>2, <2>2, RouteShape
    <2>4. legs[1] \in QuoteType /\ legs[1].in_amount = trade.amount
      BY <1>5, <2>2 DEF Financed, SoundQuote
    <2>5. Route(trade)[1].give # Route(trade)[1].get
      <3>1. CASE Bridged(trade)
        <4>1. PICK a, b \in LegType : Route(trade) = << a, b >> /\ a.give # a.get
          BY <1>3, <3>1 DEF Chained
        <4> QED  BY <4>1
      <3>2. CASE ~Bridged(trade)
        <4>1. PICK a \in LegType : Route(trade) = << a >> /\ a.give # a.get
          BY <1>3, <3>2 DEF Chained
        <4> QED  BY <4>1
      <3> QED  BY <3>1, <3>2
    <2>6. /\ wallet[Route(trade)[1].give] = trade.amount
          /\ \A a \in Assets : a # Route(trade)[1].give => wallet[a] = 0
      BY <1>1, <1>6 DEF WalletSound
    <2>7. wallet[Route(trade)[1].get] = 0  BY <2>3, <2>5, <2>6 DEF LegType
    <2>8. trade.amount \in Nat  BY <1>2 DEF TradeType
    <2>9. ran + 1 = 1  BY <1>6
    <2> QED  BY <2>1, <2>2, <2>3, <2>4, <2>5, <2>6, <2>7, <2>8, <2>9
  <1>7. CASE ran = 1 /\ Bridged(trade)
    <2>1. ran + 1 = 2  BY <1>7
    <2>2. Current = Route(trade)[2] /\ Limit = legs[2]  BY <2>1 DEF Current, Limit
    <2>3. 2 \in 1..Len(legs) /\ 2 \in 1..Len(Route(trade))  BY <1>4, <1>5, <1>7 DEF Financed
    <2>4. Route(trade)[2] \in LegType  BY <1>2, <2>3, RouteShape
    <2>5. legs[2] \in QuoteType /\ legs[2].in_amount = legs[1].min_out
      BY <1>5, <1>7, <2>3 DEF Financed, SoundQuote
    <2>6. Route(trade)[2].give = Route(trade)[1].get /\ Route(trade)[2].give # Route(trade)[2].get
      <3>1. PICK a, b \in LegType :
              Route(trade) = << a, b >> /\ b.give = a.get /\ b.get \notin {a.give, a.get}
        BY <1>3, <1>7 DEF Chained
      <3> QED  BY <3>1
    <2>7. /\ wallet[Route(trade)[1].get] >= legs[1].min_out
          /\ wallet[Route(trade)[2].get] = 0
      BY <1>1, <1>7 DEF WalletSound
    <2> QED  BY <2>1, <2>2, <2>3, <2>4, <2>5, <2>6, <2>7
  <1>8. ran = 0 \/ (ran = 1 /\ Bridged(trade))  BY <1>1 DEF WalletSound
  <1> QED  BY <1>6, <1>7, <1>8

LEMMA RunLegKeeps ==
    ASSUME BridgeInv, RunLeg
    PROVE  BridgeInv'
  <1>1. Typed /\ PoolsRead /\ LegsSound /\ WalletSound /\ stage = "run"
    BY DEF BridgeInv, RunLeg
  <1>2. /\ ran' = ran + 1
        /\ stage' = IF ran + 1 = Len(legs) THEN "landed" ELSE "run"
        /\ UNCHANGED << trade, cache, snapshot, legs, answer >>
    BY DEF RunLeg
  <1>3. PICK leg, limit : leg = Current /\ limit = Limit  OBVIOUS
  <1>4. /\ ran + 1 \in 1..Len(legs) /\ limit \in QuoteType
        /\ leg \in LegType /\ leg.give # leg.get /\ wallet[leg.get] = 0
    BY <1>1, <1>3, LegInHand
  <1>5. PICK spent \in Taken, paid \in Paid :
          wallet' = [wallet EXCEPT ![leg.give] = @ - spent, ![leg.get] = @ + paid]
    BY <1>3 DEF RunLeg
  <1>6. limit.in_amount \in Nat /\ limit.min_out \in Nat  BY <1>4 DEF QuoteType
  <1>7. spent \in Int
    <2>1. \A d \in 0..Slack : Less(limit.in_amount, d) \in Int
      BY <1>6, BridgeAssumption DEF Less
    <2> QED  BY <1>3, <1>5, <1>6, <2>1 DEF Taken
  <1>8. paid \in Int /\ paid >= limit.min_out
    BY <1>3, <1>5, <1>6, BridgeAssumption DEF Paid
  <1>9. PICK give, get : give = leg.give /\ get = leg.get  OBVIOUS
  <1>10. give \in Assets /\ get \in Assets /\ give # get  BY <1>4, <1>9 DEF LegType
  <1>11. /\ wallet' \in [Assets -> Int]
         /\ wallet'[get] = wallet[get] + paid
         /\ \A a \in Assets : a \notin {give, get} => wallet'[a] = wallet[a]
    <2>1. wallet' = [wallet EXCEPT ![give] = @ - spent, ![get] = @ + paid]  BY <1>5, <1>9
    <2>2. wallet \in [Assets -> Int]  BY <1>1 DEF Typed
    <2> QED  BY <1>7, <1>8, <1>10, <2>1, <2>2
  <1>12. wallet'[get] >= limit.min_out  BY <1>4, <1>6, <1>8, <1>9, <1>11
  <1>13. trade \in TradeType /\ Supported(trade)
    BY <1>1, BridgeAssumption DEF Typed, PoolsRead, AllLoaded
  <1>14. Len(legs) = IF Bridged(trade) THEN 2 ELSE 1
    <2>1. Len(legs) = Len(Route(trade))  BY <1>1 DEF LegsSound, Financed
    <2> QED  BY <1>13, <2>1, RouteShape
  <1>15. ran \in 0..2 /\ ran' \in 0..2 /\ ran + 1 <= Len(legs)  BY <1>1, <1>2, <1>4, <1>14 DEF Typed
  <1>16. Typed'  BY <1>1, <1>2, <1>11, <1>15 DEF Typed, Stages
  <1>17. PoolsRead'  BY <1>1, <1>2 DEF PoolsRead, AllLoaded
  <1>18. LegsSound'  BY <1>1, <1>2 DEF LegsSound, Financed
  <1>19. WalletSound'
    <2>1. CASE ran + 1 = Len(legs)
      <3>1. stage' = "landed"  BY <1>2, <2>1
      <3>2. get = Route(trade)[Len(legs)].get /\ limit = legs[Len(legs)]
        BY <1>3, <1>9, <2>1 DEF Current, Limit
      <3>3. wallet'[Route(trade')[Len(legs')].get] >= legs'[Len(legs')].min_out
        BY <1>2, <1>12, <3>2
      <3> QED  BY <3>1, <3>3 DEF WalletSound
    <2>2. CASE ran + 1 # Len(legs)
      <3>1. stage' = "run" /\ ran = 0 /\ ran' = 1 /\ Bridged(trade)
        BY <1>2, <1>14, <1>15, <2>2
      <3>2. leg = Route(trade)[1] /\ limit = legs[1]  BY <1>3, <3>1 DEF Current, Limit
      <3>3. PICK a, b \in LegType :
              Route(trade) = << a, b >> /\ b.get \notin {a.give, a.get}
        <4>1. Chained(trade)  BY <1>13, RouteIsChained
        <4> QED  BY <3>1, <4>1 DEF Chained
      <3>4. Route(trade)[1] = a /\ Route(trade)[2] = b  BY <3>3
      <3>5. b.get \in Assets /\ b.get \notin {give, get}  BY <1>9, <3>2, <3>3, <3>4 DEF LegType
      <3>6. wallet[b.get] = 0
        <4>1. \A x \in Assets : x # Route(trade)[1].give => wallet[x] = 0
          BY <1>1, <3>1 DEF WalletSound
        <4> QED  BY <1>9, <3>2, <3>5, <4>1
      <3>7. wallet'[Route(trade)[2].get] = 0  BY <1>11, <3>4, <3>5, <3>6
      <3>8. wallet'[Route(trade)[1].get] >= legs[1].min_out  BY <1>9, <1>12, <3>2
      <3> QED  BY <1>2, <3>1, <3>7, <3>8 DEF WalletSound
    <2> QED  BY <2>1, <2>2
  <1> QED  BY <1>16, <1>17, <1>18, <1>19 DEF BridgeInv

LEMMA VenueRefusesKeeps ==
    ASSUME BridgeInv, VenueRefuses
    PROVE  BridgeInv'
  <1> USE DEF BridgeInv, VenueRefuses
  <1>1. wallet' \in [Assets -> Int]  OBVIOUS
  <1>2. Typed'  BY <1>1 DEF Typed, Stages
  <1>3. PoolsRead'  BY DEF PoolsRead, AllLoaded
  <1>4. LegsSound'  BY DEF LegsSound, Financed
  <1>5. WalletSound'  BY DEF WalletSound
  <1> QED  BY <1>2, <1>3, <1>4, <1>5

LEMMA StepKeeps == BridgeInv /\ [Next]_vars => BridgeInv'
  <1> SUFFICES ASSUME BridgeInv, [Next]_vars PROVE BridgeInv'
    OBVIOUS
  <1>1. CASE Refuse  BY <1>1, FailKeeps DEF Refuse
  <1>2. CASE Load  BY <1>2, LoadKeeps
  <1>3. CASE LoadFails  BY <1>3, FailKeeps DEF LoadFails
  <1>4. CASE GiveUp  BY <1>4, FailKeeps DEF GiveUp
  <1>5. CASE Assemble  BY <1>5, AssembleKeeps
  <1>6. CASE RefuseEmpty  BY <1>6, FailKeeps DEF RefuseEmpty
  <1>7. CASE Execute  BY <1>7, ExecuteKeeps
  <1>8. CASE RunLeg  BY <1>8, RunLegKeeps
  <1>9. CASE VenueRefuses  BY <1>9, VenueRefusesKeeps
  <1>10. CASE UNCHANGED vars
    <2> USE <1>10 DEF vars, BridgeInv
    <2>1. Typed'  BY DEF Typed
    <2>2. PoolsRead'  BY DEF PoolsRead, AllLoaded
    <2>3. LegsSound'  BY DEF LegsSound, Financed
    <2>4. WalletSound'  BY DEF WalletSound
    <2> QED  BY <2>1, <2>2, <2>3, <2>4
  <1> QED
    BY <1>1, <1>2, <1>3, <1>4, <1>5, <1>6, <1>7, <1>8, <1>9, <1>10 DEF Next

LEMMA BridgeSafety == Spec => []BridgeInv
  BY InitKeeps, StepKeeps, PTL DEF Spec

\* A route that is built carries the quotes it was priced with.
BuiltFromQuotes == stage = "built" => legs = Quotes

LEMMA BuiltSafety == Spec => []BuiltFromQuotes
  <1>1. Init => BuiltFromQuotes  BY DEF Init, BuiltFromQuotes
  <1>2. BuiltFromQuotes /\ [Next]_vars => BuiltFromQuotes'
    <2> SUFFICES ASSUME BuiltFromQuotes, [Next]_vars, stage' = "built"
                 PROVE  legs' = Quotes'
      BY DEF BuiltFromQuotes
    <2>1. trade' = trade /\ snapshot' = snapshot /\ legs' = Quotes
      <3>1. CASE Assemble  BY <3>1 DEF Assemble
      <3>2. CASE UNCHANGED vars  BY <3>2 DEF vars, BuiltFromQuotes
      <3>3. CASE Refuse \/ LoadFails \/ GiveUp \/ RefuseEmpty
        BY <3>3 DEF Refuse, LoadFails, GiveUp, RefuseEmpty, Fail
      <3>4. CASE Load  BY <3>4 DEF Load
      <3>5. CASE Execute  BY <3>5 DEF Execute
      <3>6. CASE RunLeg  BY <3>6 DEF RunLeg
      <3>7. CASE VenueRefuses  BY <3>7 DEF VenueRefuses
      <3> QED  BY <3>1, <3>2, <3>3, <3>4, <3>5, <3>6, <3>7 DEF Next
    <2>2. Quotes' = Quotes
      BY <2>1 DEF Quotes, FirstQuote, SecondQuote, SecondInput, LegQuote, Slippage, Adapter
    <2> QED  BY <2>1, <2>2
  <1> QED  BY <1>1, <1>2, PTL DEF Spec

-----------------------------------------------------------------------------
(* The promises of a route. *)

\* Every reachable route is well formed: priced legs exist exactly once both
\* are priced, one for each leg of the route, and none expects less than its
\* minimum.
THEOREM RoutesAreTyped == Spec => []TypeOK
  <1>1. BridgeInv => TypeOK
    <2> SUFFICES ASSUME BridgeInv PROVE TypeOK
      OBVIOUS
    <2>1. Typed /\ PoolsRead /\ LegsSound  BY DEF BridgeInv
    <2>2. \A v \in DOMAIN cache : cache[v] \in FeeSettings \cup {Unset}  BY <2>1 DEF Typed
    <2>3. CASE stage \in {"load", "quote", "error"}
      <3>1. legs = << >>  BY <2>1, <2>3 DEF LegsSound
      <3>2. Len(legs) = 0  BY <3>1
      <3> QED  BY <2>1, <2>2, <2>3, <3>2 DEF Typed, TypeOK
    <2>4. CASE stage \notin {"load", "quote", "error"}
      <3>1. stage \in {"built", "run", "landed", "reverted"}  BY <2>1, <2>4 DEF Typed, Stages
      <3>2. Financed(legs)  BY <2>1, <3>1 DEF LegsSound
      <3>3. Len(legs) = Len(Route(trade))  BY <3>2 DEF Financed
      <3>4. ASSUME NEW i \in 1..Len(legs)
            PROVE  /\ legs[i].in_amount \in Nat /\ legs[i].fee \in Nat
                   /\ legs[i].min_out \in 0..legs[i].expected_out
        <4>1. PICK q : q = legs[i]  OBVIOUS
        <4>2. q \in QuoteType /\ q.min_out <= q.expected_out
          BY <3>2, <4>1 DEF Financed, SoundQuote
        <4>3. /\ q.in_amount \in Nat /\ q.fee \in Nat
              /\ q.min_out \in Nat /\ q.expected_out \in Nat
          BY <4>2 DEF QuoteType
        <4>4. q.min_out \in 0..q.expected_out  BY <4>2, <4>3
        <4> QED  BY <4>1, <4>3, <4>4
      <3> QED  BY <2>1, <2>2, <2>4, <3>3, <3>4 DEF Typed, TypeOK
    <2> QED  BY <2>3, <2>4
  <1> QED  BY <1>1, BridgeSafety, PTL

\* The executor's atomic transaction: whatever the venues pay within their
\* limits, a bridged route buys or sells its second leg with what the first
\* one brought, and never needs the bridging currency from the wallet.
THEOREM LegsAlwaysFunded == Spec => []LegsFundEachOther
  <1>1. BridgeInv => LegsFundEachOther
    BY LegInHand DEF LegsFundEachOther
  <1> QED  BY <1>1, BridgeSafety, PTL

\* A route that landed paid at least the minimum its caller was quoted, which
\* a bridged quote never leaves at zero.
THEOREM MinimumIsPaid == Spec => []GuaranteeKept
  <1>1. BridgeInv => GuaranteeKept
    <2> SUFFICES ASSUME BridgeInv, stage = "landed"
                 PROVE  /\ wallet[Route(trade)[Len(legs)].get] >= answer.min_out
                        /\ Bridged(trade) => answer.min_out > 0
      BY DEF GuaranteeKept
    <2>1. PoolsRead /\ LegsSound /\ WalletSound /\ Typed  BY DEF BridgeInv
    <2>2. answer.min_out = legs[Len(legs)].min_out /\ Financed(legs)  BY <2>1 DEF LegsSound
    <2>3. wallet[Route(trade)[Len(legs)].get] >= answer.min_out
      BY <2>1, <2>2 DEF WalletSound
    <2>4. ASSUME Bridged(trade) PROVE answer.min_out > 0
      <3>1. trade \in TradeType /\ Supported(trade)
        BY <2>1, BridgeAssumption DEF Typed, PoolsRead, AllLoaded
      <3>2. Len(legs) = 2  BY <2>2, <2>4, <3>1, RouteShape DEF Financed
      <3>3. legs[2] \in QuoteType  BY <2>2, <3>2 DEF Financed, SoundQuote
      <3>4. legs[2].min_out # 0  BY <2>1, <2>4 DEF LegsSound
      <3>5. legs[2].min_out \in Nat  BY <3>3 DEF QuoteType
      <3> QED  BY <2>2, <3>2, <3>4, <3>5
    <2> QED  BY <2>3, <2>4
  <1> QED  BY <1>1, BridgeSafety, PTL

\* The venue programs' rounding: what either adapter puts into the reserves,
\* with the fees its program adds, is never more than the buyer gives.
THEOREM InputCoversFees == Spec => []BuysFitTheirInput
  <1>1. BridgeInv => BuysFitTheirInput
    <2> SUFFICES ASSUME BridgeInv, stage = "built", NEW i \in 1..Len(legs)
                 PROVE  LET fees == snapshot[i].fees
                            amt == legs[i].in_amount
                            curve == SolIntoCurve(fees, amt)
                            pool == QuoteIntoPool(fees, amt)
                        IN  /\ curve + FeeCeil(curve, fees.protocol)
                                 + FeeCeil(curve, fees.creator) <= amt
                            /\ pool + PoolFee(fees, pool) <= amt
      BY DEF BuysFitTheirInput
    <2>1. AllLoaded /\ Financed(legs)  BY DEF BridgeInv, PoolsRead, LegsSound
    <2>2. PICK fees, amt : fees = snapshot[i].fees /\ amt = legs[i].in_amount  OBVIOUS
    <2>3. snapshot[i] \in SnapshotType  BY <2>1 DEF AllLoaded, Financed
    <2>4. fees \in FeeType  BY <2>2, <2>3 DEF SnapshotType
    <2>5. legs[i] \in QuoteType  BY <2>1 DEF Financed, SoundQuote
    <2>6. amt \in Nat  BY <2>2, <2>5 DEF QuoteType
    <2>7. SolIntoCurve(fees, amt) + FeeCeil(SolIntoCurve(fees, amt), fees.protocol)
            + FeeCeil(SolIntoCurve(fees, amt), fees.creator) <= amt
      BY <2>4, <2>6, CurveInputFits
    <2>8. QuoteIntoPool(fees, amt) + PoolFee(fees, QuoteIntoPool(fees, amt)) <= amt
      BY <2>4, <2>6, PoolInputFits
    <2> QED  BY <2>2, <2>7, <2>8
  <1> QED  BY <1>1, BridgeSafety, PTL

\* PumpSwap::route_slippage splits the request over the bridge leg and the
\* target leg: together they never cost more than the slippage requested, up
\* to the rounding of each program, for any pools and any amount.
THEOREM SlippageIsBounded == Spec => []SlippageWithinRequest
  <1>1. BridgeInv /\ BuiltFromQuotes => SlippageWithinRequest
    <2> SUFFICES ASSUME BridgeInv, BuiltFromQuotes, stage = "built", Bridged(trade), Moderate
                 PROVE  LET unslipped ==
                              LegQuote(2, Less(FirstQuote.expected_out, Rounding), 0).expected_out
                        IN  answer.min_out + Rounding >= SlippageDown(unslipped, trade.slippage_bps)
      BY DEF SlippageWithinRequest
    <2>1. Typed /\ AllLoaded /\ LegsSound  BY DEF BridgeInv, PoolsRead
    <2>2. trade \in TradeType  BY <2>1, BridgeAssumption DEF Typed
    <2>3. answer.min_out = SecondQuote.min_out
      <3>1. legs = << FirstQuote, SecondQuote >>  BY DEF BuiltFromQuotes, Quotes
      <3>2. Len(legs) = 2 /\ legs[2] = SecondQuote  BY <3>1
      <3> QED  BY <2>1, <3>2 DEF LegsSound
    <2> QED  BY <2>1, <2>2, <2>3, RouteKeepsSlippage
  <1> QED  BY <1>1, BridgeSafety, BuiltSafety, PTL

-----------------------------------------------------------------------------
(* NativeSetup: ledgers, and what each instruction does to them. *)

LEMMA SetupConstants ==
    /\ TokenRent \in Nat \ {0} /\ VaultRent \in Nat \ {0} /\ MaxMoves \in Nat
    /\ \A w \in Wallets : w \in Nat
  BY SetupAssumption

LEMMA MonusFacts ==
    ASSUME NEW a \in Nat, NEW b \in Int
    PROVE  /\ Monus(a, b) \in Nat
           /\ a >= b => b + Monus(a, b) = a
           /\ b >= a => Monus(a, b) = 0
  BY DEF Monus

LEMMA AccountNames ==
    /\ "wsol" \in UserAccounts /\ UserAccounts \subseteq Accounts
    /\ {"cashback", "curve_volume", "pool_volume"} \subseteq OtherAccounts
    /\ OtherAccounts \subseteq Accounts \ {"wsol", "vault"} /\ "vault" \in Accounts
  BY DEF Accounts, UserAccounts, OtherAccounts

LEMMA AccountsFinite == IsFiniteSet(Accounts)
  <1> DEFINE all == << "wsol", "token", "usdc", "curve_volume", "pool_volume", "vault", "protocol",
                       "creator", "bridge_creator", "buyback", "cashback" >>
  <1>1. all \in Seq(Accounts) /\ Len(all) = 11  BY DEF Accounts, UserAccounts, OtherAccounts
  <1>2. \A a \in Accounts : \E i \in 1..11 : all[i] = a  BY DEF Accounts, UserAccounts, OtherAccounts
  <1> QED BY <1>1, <1>2 DEF IsFiniteSet

\* All the lamports a transaction moves between the user, the sponsor's
\* deposit and the accounts it opens.
Balance(l) == l.user + l.at["wsol"].lamports + l.setup + l.refund - l.deposit

OpensWsol(ix) == ix.op = "ata" /\ ix.acct = "wsol"

\* What every instruction does: a ledger stays one, what failed stays failed,
\* lamports come from the swaps alone, a WSOL account keeps its rent until it
\* is closed, and only some instructions touch the deposit or the refund.
RunsTo(l, m, ix) ==
    /\ m \in Ledgers
    /\ m.ok => l.ok /\ Balance(m) = Balance(l) + Pays(ix)
    /\ (l.at["wsol"].initialized => l.at["wsol"].lamports >= TokenRent)
            => (m.at["wsol"].initialized => m.at["wsol"].lamports >= TokenRent)
    /\ \A a \in Accounts \ {"wsol"} : l.at[a].initialized => m.at[a].initialized
    /\ m.ok /\ ix.op # "refund" => m.refund = l.refund
    /\ m.ok /\ ~OpensWsol(ix) => m.deposit = l.deposit
    /\ m.ok /\ ~OpensWsol(ix) /\ ix.op # "close" =>
            /\ m.at["wsol"].initialized = l.at["wsol"].initialized
            /\ ~l.at["wsol"].initialized => m.at["wsol"] = l.at["wsol"]

LEMMA RevertedFacts ==
    ASSUME NEW l \in Ledgers, NEW ix
    PROVE  RunsTo(l, Reverted(l), ix) /\ ~Reverted(l).ok
  BY DEF RunsTo, OpensWsol, Reverted, Ledgers

LEMMA AtaFacts ==
    ASSUME NEW l \in Ledgers, l.ok, NEW ix \in Instructions, ix.op = "ata"
    PROVE  /\ RunsTo(l, RunAta(l, ix), ix)
           /\ RunAta(l, ix).ok /\ OpensWsol(ix) /\ ix.strict =>
                /\ ~l.at["wsol"].initialized /\ RunAta(l, ix).at["wsol"].initialized
                /\ RunAta(l, ix).deposit = l.deposit + Monus(TokenRent, l.at["wsol"].lamports)
  <1>1. ix.acct \in Accounts /\ Pays(ix) = 0  BY DEF Instructions, RawInstructions, Swaps, Pays
  <1>2. CASE l.at[ix.acct].initialized /\ ix.strict
    BY <1>2, RevertedFacts DEF RunAta
  <1>3. CASE l.at[ix.acct].initialized /\ ~ix.strict
    BY <1>1, <1>3, AccountNames DEF RunAta, OpensWsol, RunsTo, Balance, Ledgers, SetupAccount
  <1>4. CASE ~l.at[ix.acct].initialized
    <2> DEFINE missing == Monus(TokenRent, l.at[ix.acct].lamports)
               account == [initialized |-> TRUE, lamports |-> l.at[ix.acct].lamports + missing]
               m == [l EXCEPT !.at[ix.acct] = account,
                              !.deposit = IF ix.acct = "wsol" THEN @ + missing ELSE @]
    <2>1. RunAta(l, ix) = m  BY <1>4 DEF RunAta
    <2>2. /\ missing \in Nat /\ l.at[ix.acct].lamports \in Nat
          /\ l.at[ix.acct].lamports + missing >= TokenRent
      BY <1>1, SetupConstants, MonusFacts DEF Ledgers, SetupAccount, Monus
    <2>12. missing = Monus(TokenRent, l.at[ix.acct].lamports)  OBVIOUS
    <2> HIDE DEF missing
    <2>3. account \in SetupAccount  BY <2>2 DEF SetupAccount
    <2>4. /\ m.at = [l.at EXCEPT ![ix.acct] = account] /\ m.user = l.user /\ m.setup = l.setup
          /\ m.deposit = IF ix.acct = "wsol" THEN l.deposit + missing ELSE l.deposit
          /\ m.refund = l.refund /\ m.ok = l.ok /\ m.dust = l.dust
      BY DEF Ledgers
    <2>5. m \in Ledgers
      <3>1. [l.at EXCEPT ![ix.acct] = account] \in [Accounts -> SetupAccount]
        BY <2>3 DEF Ledgers
      <3>2. (IF ix.acct = "wsol" THEN l.deposit + missing ELSE l.deposit) \in Nat
        BY <2>2 DEF Ledgers
      <3> HIDE DEF account
      <3> QED  BY <3>1, <3>2 DEF Ledgers
    <2>6. \A a \in Accounts : m.at[a] = IF a = ix.acct THEN account ELSE l.at[a]
      BY <1>1, <2>4 DEF Ledgers
    <2>7. l.at["wsol"].lamports \in Nat /\ l.deposit \in Nat /\ l.user \in Nat /\ l.setup \in Nat /\ l.refund \in Nat
      BY AccountNames DEF Ledgers, SetupAccount
    <2> HIDE DEF m
    <2>8. Balance(m) = Balance(l)
      BY <1>1, <2>2, <2>4, <2>6, <2>7, AccountNames DEF Balance
    <2>9. m.at["wsol"].initialized => m.at["wsol"].lamports >= TokenRent \/ m.at["wsol"] = l.at["wsol"]
      BY <2>2, <2>6, AccountNames
    <2>10. \A a \in Accounts \ {"wsol"} : l.at[a].initialized => m.at[a].initialized
      BY <2>6
    <2>11. Balance(l) \in Int  BY <2>7 DEF Balance
    <2>13. RunsTo(l, m, ix)
      <3>1. ~OpensWsol(ix) => m.deposit = l.deposit /\ m.at["wsol"] = l.at["wsol"]
        BY <2>4, <2>6, AccountNames DEF OpensWsol
      <3>2. (l.at["wsol"].initialized => l.at["wsol"].lamports >= TokenRent)
            => (m.at["wsol"].initialized => m.at["wsol"].lamports >= TokenRent)
        BY <2>9
      <3>3. Balance(m) = Balance(l) + Pays(ix)  BY <1>1, <2>8, <2>11
      <3> HIDE DEF account
      <3> QED  BY <2>4, <2>5, <2>10, <3>1, <3>2, <3>3 DEF RunsTo
    <2>14. OpensWsol(ix) => /\ ~l.at["wsol"].initialized /\ m.at["wsol"].initialized
                            /\ m.deposit = l.deposit + Monus(TokenRent, l.at["wsol"].lamports)
      BY <1>1, <1>4, <2>4, <2>6, <2>12 DEF OpensWsol
    <2> QED  BY <2>1, <2>13, <2>14
  <1> QED  BY <1>2, <1>3, <1>4

LEMMA LedgerFields ==
    ASSUME NEW l \in Ledgers
    PROVE  /\ l.user \in Nat /\ l.setup \in Nat /\ l.deposit \in Nat /\ l.refund \in Nat
           /\ l.at \in [Accounts -> SetupAccount] /\ l.at["wsol"].lamports \in Nat
           /\ Balance(l) \in Int
  BY AccountNames DEF Ledgers, SetupAccount, Balance

LEMMA VolumeFacts ==
    ASSUME NEW l \in Ledgers, l.ok, NEW ix \in Instructions, ix.op = "volume"
    PROVE  RunsTo(l, RunVolume(l, ix), ix)
  <1>1. /\ ix.acct \in Accounts \ {"wsol"} /\ Pays(ix) = 0
    BY AccountNames DEF Instructions, RawInstructions, Swaps, Pays
  <1>2. CASE l.at[ix.acct].initialized
    BY <1>2, RevertedFacts DEF RunVolume
  <1>3. CASE ~l.at[ix.acct].initialized
    <2> DEFINE account == [initialized |-> TRUE, lamports |-> TokenRent]
               m == [l EXCEPT !.at[ix.acct] = account]
    <2>1. RunVolume(l, ix) = m  BY <1>3 DEF RunVolume
    <2>2. account \in SetupAccount  BY SetupConstants DEF SetupAccount
    <2>3. m \in Ledgers  BY <2>2 DEF Ledgers
    <2>4. /\ \A a \in Accounts : m.at[a] = IF a = ix.acct THEN account ELSE l.at[a]
          /\ m.user = l.user /\ m.setup = l.setup /\ m.deposit = l.deposit /\ m.refund = l.refund
          /\ m.ok = l.ok
      BY <1>1 DEF Ledgers
    <2> HIDE DEF m
    <2>9. Balance(m) = Balance(l) + Pays(ix)
      BY <1>1, <2>4, LedgerFields, AccountNames DEF Balance
    <2> QED  BY <1>1, <2>1, <2>3, <2>4, <2>9, AccountNames DEF RunsTo, OpensWsol
  <1> QED  BY <1>2, <1>3

LEMMA FundFacts ==
    ASSUME NEW l \in Ledgers, l.ok, NEW ix \in Instructions, ix.op = "fund"
    PROVE  RunsTo(l, RunFund(l, ix), ix)
  <1>1. /\ ix.amt \in Nat /\ Pays(ix) = 0 /\ "vault" \in Accounts \ {"wsol"}
    BY AccountNames DEF Instructions, RawInstructions, Swaps, Pays
  <1> DEFINE account == [l.at["vault"] EXCEPT !.lamports = @ + ix.amt]
             m == [l EXCEPT !.at["vault"] = account]
  <1>2. account \in SetupAccount /\ account.initialized = l.at["vault"].initialized
    BY <1>1, AccountNames DEF SetupAccount, Ledgers
  <1>3. RunFund(l, ix) = m  BY DEF RunFund
  <1> HIDE DEF account
  <1>4. m \in Ledgers  BY <1>2 DEF Ledgers
  <1>5. /\ \A a \in Accounts : m.at[a] = IF a = "vault" THEN account ELSE l.at[a]
        /\ m.user = l.user /\ m.setup = l.setup /\ m.deposit = l.deposit /\ m.refund = l.refund
        /\ m.ok = l.ok
    BY <1>1 DEF Ledgers
  <1> HIDE DEF m
  <1>9. Balance(m) = Balance(l) + Pays(ix)
    BY <1>1, <1>2, <1>3, <1>4, <1>5, LedgerFields, AccountNames DEF Balance
  <1> QED  BY <1>1, <1>2, <1>3, <1>4, <1>5, <1>9, AccountNames DEF RunsTo, OpensWsol

LEMMA WrapFacts ==
    ASSUME NEW l \in Ledgers, l.ok, NEW ix \in Instructions, ix.op = "wrap"
    PROVE  RunsTo(l, RunWrap(l, ix), ix)
  <1>1. /\ ix.amt \in Nat /\ Pays(ix) = 0
    BY AccountNames DEF Instructions, RawInstructions, Swaps, Pays
  <1>2. CASE l.user < ix.amt \/ ~l.at["wsol"].initialized
    BY <1>2, RevertedFacts DEF RunWrap
  <1>3. CASE ~(l.user < ix.amt \/ ~l.at["wsol"].initialized)
    <2> DEFINE account == [l.at["wsol"] EXCEPT !.lamports = @ + ix.amt]
               m == [l EXCEPT !.user = @ - ix.amt, !.at["wsol"] = account]
    <2>1. account \in SetupAccount /\ account.lamports = l.at["wsol"].lamports + ix.amt
      BY <1>1, AccountNames DEF SetupAccount, Ledgers
    <2>2. RunWrap(l, ix) = m  BY <1>3 DEF RunWrap
    <2> HIDE DEF account
    <2>3. l.user - ix.amt \in Nat  BY <1>1, <1>3, LedgerFields
    <2>4. m \in Ledgers  BY <2>1, <2>3 DEF Ledgers
    <2>5. /\ \A a \in Accounts : m.at[a] = IF a = "wsol" THEN account ELSE l.at[a]
          /\ m.user = l.user - ix.amt /\ m.setup = l.setup /\ m.deposit = l.deposit
          /\ m.refund = l.refund /\ m.ok = l.ok
      BY AccountNames DEF Ledgers
    <2> HIDE DEF m
    <2>6. Balance(m) = Balance(l) + Pays(ix)
      BY <1>1, <2>1, <2>5, LedgerFields, AccountNames DEF Balance
    <2>7. l.at["wsol"].lamports >= TokenRent => m.at["wsol"].lamports >= TokenRent
      BY <1>1, <2>1, <2>5, LedgerFields, AccountNames, SetupConstants
    <2>8. m.at["wsol"].initialized = l.at["wsol"].initialized
      BY <2>5, AccountNames DEF account, Ledgers, SetupAccount
    <2> QED  BY <1>3, <2>2, <2>4, <2>5, <2>6, <2>7, <2>8 DEF RunsTo
  <1> QED  BY <1>2, <1>3

LEMMA CloseFacts ==
    ASSUME NEW l \in Ledgers, l.ok, NEW ix \in Instructions, ix.op = "close"
    PROVE  /\ RunsTo(l, RunClose(l), ix)
           /\ RunClose(l).ok => RunClose(l).at["wsol"] = Absent
  <1>1. Pays(ix) = 0
    BY AccountNames DEF Instructions, RawInstructions, Swaps, Pays
  <1>2. CASE ~l.at["wsol"].initialized
    BY <1>2, RevertedFacts DEF RunClose
  <1>3. CASE l.at["wsol"].initialized
    <2> DEFINE m == [l EXCEPT !.user = @ + l.at["wsol"].lamports, !.at["wsol"] = Absent]
    <2>1. Absent \in SetupAccount /\ Absent.lamports = 0 /\ ~Absent.initialized
      BY DEF SetupAccount, Absent
    <2>2. RunClose(l) = m  BY <1>3 DEF RunClose
    <2>3. l.user + l.at["wsol"].lamports \in Nat  BY LedgerFields
    <2>4. m \in Ledgers  BY <2>1, <2>3 DEF Ledgers
    <2>5. /\ \A a \in Accounts : m.at[a] = IF a = "wsol" THEN Absent ELSE l.at[a]
          /\ m.user = l.user + l.at["wsol"].lamports /\ m.setup = l.setup /\ m.deposit = l.deposit
          /\ m.refund = l.refund /\ m.ok = l.ok
      BY AccountNames DEF Ledgers
    <2> HIDE DEF m
    <2>9. Balance(m) = Balance(l) + Pays(ix)
      BY <1>1, <1>3, <2>1, <2>2, <2>4, <2>5, LedgerFields, AccountNames DEF Balance
    <2> QED  BY <1>1, <1>3, <2>1, <2>2, <2>4, <2>5, <2>9, AccountNames DEF RunsTo, OpensWsol
  <1> QED  BY <1>2, <1>3

LEMMA RefundFacts ==
    ASSUME NEW l \in Ledgers, l.ok, NEW ix \in Instructions, ix.op = "refund"
    PROVE  /\ RunsTo(l, RunRefund(l, ix), ix)
           /\ RunRefund(l, ix).ok => RunRefund(l, ix).refund = l.refund + ix.amt
  <1>1. /\ ix.amt \in Nat /\ Pays(ix) = 0
    BY AccountNames DEF Instructions, RawInstructions, Swaps, Pays
  <1>2. CASE l.user < ix.amt
    BY <1>2, RevertedFacts DEF RunRefund
  <1>3. CASE ~(l.user < ix.amt)
    <2> DEFINE m == [l EXCEPT !.user = @ - ix.amt, !.refund = @ + ix.amt]
    <2>1. RunRefund(l, ix) = m  BY <1>3 DEF RunRefund
    <2>2. l.user - ix.amt \in Nat /\ l.refund + ix.amt \in Nat  BY <1>1, <1>3, LedgerFields
    <2>3. m \in Ledgers  BY <2>2 DEF Ledgers
    <2>4. /\ m.at = l.at /\ m.user = l.user - ix.amt /\ m.setup = l.setup /\ m.deposit = l.deposit
          /\ m.refund = l.refund + ix.amt /\ m.ok = l.ok
      BY DEF Ledgers
    <2> HIDE DEF m
    <2>9. Balance(m) = Balance(l) + Pays(ix)
      BY <1>1, <2>4, LedgerFields DEF Balance
    <2> QED  BY <1>1, <2>1, <2>3, <2>4, <2>9, AccountNames DEF RunsTo, OpensWsol
  <1> QED  BY <1>2, <1>3

LEMMA SwapFacts ==
    ASSUME NEW l \in Ledgers, l.ok, NEW ix \in Instructions, ix.op \in {"pumpswap", "pumpfun"}
    PROVE  RunsTo(l, RunSwap(l, ix), ix)
  <1> DEFINE missing == {a \in ix.opens : ~l.at[a].initialized}
             vault == IF ix.op = "pumpfun" THEN Monus(VaultRent, l.at["vault"].lamports) ELSE 0
             bill == vault + TokenRent * Cardinality(missing)
             at == [a \in Accounts |->
                IF a \in missing THEN [initialized |-> TRUE, lamports |-> TokenRent]
                ELSE IF a = "vault" THEN [l.at[a] EXCEPT !.lamports = @ + vault]
                ELSE IF a = "wsol" THEN [l.at[a] EXCEPT !.lamports = @ + ix.wsol]
                ELSE l.at[a]]
             m == [l EXCEPT !.at = at, !.user = @ + ix.sol - bill, !.setup = @ + bill]
             Fits == /\ \A a \in ix.uses : l.at[a].initialized
                     /\ m.user >= 0
                     /\ "wsol" \in ix.uses => m.at["wsol"].lamports >= TokenRent
  <1>1. /\ ix.sol \in Int /\ ix.wsol \in Int /\ Pays(ix) = ix.wsol + ix.sol
        /\ ix.opens \subseteq OtherAccounts /\ ix.uses \subseteq UserAccounts
        /\ ix.wsol # 0 => "wsol" \in ix.uses
    BY DEF Instructions, RawInstructions, Swaps, Pays
  <1>2. RunSwap(l, ix) = IF Fits THEN m ELSE Reverted(l)
    BY DEF RunSwap
  <1>3. missing \subseteq OtherAccounts /\ Cardinality(missing) \in Nat
    <2>1. missing \subseteq OtherAccounts  BY <1>1
    <2>2. IsFiniteSet(missing)  BY <2>1, AccountNames, AccountsFinite, FS_Subset
    <2> QED  BY <2>1, <2>2, FS_CardinalityType
  <1>4. vault \in Nat /\ l.at["vault"] \in SetupAccount /\ l.at["wsol"] \in SetupAccount
        /\ l.at["wsol"].lamports \in Nat /\ l.at["vault"].lamports \in Nat
    <2>1. l.at["vault"] \in SetupAccount /\ l.at["wsol"] \in SetupAccount
      BY AccountNames DEF Ledgers
    <2>2. l.at["wsol"].lamports \in Nat /\ l.at["vault"].lamports \in Nat
      BY <2>1 DEF SetupAccount
    <2>3. Monus(VaultRent, l.at["vault"].lamports) \in Nat
      BY <2>2, SetupConstants DEF Monus
    <2> QED  BY <2>1, <2>2, <2>3
  <1>5. bill \in Nat
    <2>1. TokenRent * Cardinality(missing) \in Nat  
      <3>1. \A x, y \in Nat : x * y \in Nat  OBVIOUS
      <3> HIDE DEF missing
      <3> QED  BY <1>3, <3>1, SetupConstants
    <2> HIDE DEF missing, vault
    <2> QED  BY <1>4, <2>1
  <1>6. "vault" # "wsol" /\ "wsol" \notin missing /\ "wsol" \in Accounts /\ "vault" \in Accounts
    BY <1>3, AccountNames
  <1> HIDE DEF missing, vault, bill
  <1>7. /\ m.at = at /\ m.user = l.user + ix.sol - bill /\ m.setup = l.setup + bill
        /\ m.deposit = l.deposit /\ m.refund = l.refund /\ m.ok = l.ok
    BY DEF Ledgers
  <1>8. /\ at["wsol"].lamports = l.at["wsol"].lamports + ix.wsol
        /\ at["wsol"].initialized = l.at["wsol"].initialized
    BY <1>4, <1>6 DEF SetupAccount
  <1>9. ASSUME Fits PROVE RunsTo(l, m, ix)
    <2>1. l.at["wsol"].lamports + ix.wsol \in Nat
      BY <1>1, <1>4, <1>7, <1>8, <1>9, SetupConstants
    <2>2. ASSUME NEW a \in Accounts PROVE at[a] \in SetupAccount
      <3>1. CASE a \in missing  BY <3>1, SetupConstants DEF SetupAccount
      <3>2. CASE a \notin missing /\ a = "vault"  BY <1>4, <3>2 DEF SetupAccount
      <3>3. CASE a \notin missing /\ a = "wsol"  BY <1>4, <1>6, <2>1, <3>3 DEF SetupAccount
      <3>4. CASE a \notin missing /\ a \notin {"vault", "wsol"}  BY <3>4 DEF Ledgers
      <3> QED  BY <3>1, <3>2, <3>3, <3>4
    <2>3. at \in [Accounts -> SetupAccount]  BY <2>2
    <2>4. l.user + ix.sol - bill \in Nat /\ l.setup + bill \in Nat
      BY <1>1, <1>5, <1>7, <1>9, LedgerFields
    <2>5. m \in Ledgers
      <3> HIDE DEF at
      <3> QED  BY <2>3, <2>4 DEF Ledgers
    <2>6. Balance(m) = Balance(l) + Pays(ix)
      <3> HIDE DEF at, m
      <3> QED  BY <1>1, <1>4, <1>5, <1>7, <1>8, LedgerFields DEF Balance
    <2>7. l.at["wsol"].initialized /\ l.at["wsol"].lamports >= TokenRent => at["wsol"].lamports >= TokenRent
      <3>1. CASE ix.wsol = 0  BY <1>4, <1>8, <3>1
      <3>2. CASE ix.wsol # 0  BY <1>1, <1>7, <1>9, <3>2
      <3> QED  BY <3>1, <3>2
    <2>8. ASSUME NEW a \in Accounts \ {"wsol"}, l.at[a].initialized PROVE at[a].initialized
      <3>1. l.at[a] \in SetupAccount  BY DEF Ledgers
      <3> QED  BY <2>8, <3>1 DEF SetupAccount
    <2>9. ~l.at["wsol"].initialized => at["wsol"] = l.at["wsol"]
      <3>1. ~l.at["wsol"].initialized => ix.wsol = 0  BY <1>1, <1>9
      <3> QED  BY <1>4, <1>6, <3>1 DEF SetupAccount
    <2>10. ix.op \notin {"refund", "ata", "close"}  OBVIOUS
    <2> HIDE DEF at, m
    <2> QED  BY <1>7, <1>8, <2>5, <2>6, <2>7, <2>8, <2>9, <2>10 DEF RunsTo, OpensWsol
  <1> HIDE DEF m
  <1> QED  BY <1>2, <1>9, RevertedFacts

\* One instruction.
LEMMA RunFacts ==
    ASSUME NEW l \in Ledgers, NEW ix \in Instructions
    PROVE  RunsTo(l, Run(l, ix), ix)
  <1>1. CASE ~l.ok
    BY <1>1 DEF Run, RunsTo, Ledgers
  <1>2. CASE l.ok
    <2>1. ix.op \in {"ata", "volume", "fund", "pumpswap", "pumpfun", "wrap", "close", "refund"}
      BY DEF Instructions, RawInstructions, Swaps
    <2>2. CASE ix.op = "ata"  BY <1>2, <2>2, AtaFacts DEF Run
    <2>3. CASE ix.op = "volume"  BY <1>2, <2>3, VolumeFacts DEF Run
    <2>4. CASE ix.op = "fund"  BY <1>2, <2>4, FundFacts DEF Run
    <2>5. CASE ix.op \in {"pumpswap", "pumpfun"}  BY <1>2, <2>5, SwapFacts DEF Run
    <2>6. CASE ix.op = "wrap"  BY <1>2, <2>6, WrapFacts DEF Run
    <2>7. CASE ix.op = "close"  BY <1>2, <2>7, CloseFacts DEF Run
    <2>8. CASE ix.op = "refund"  BY <1>2, <2>8, RefundFacts DEF Run
    <2> QED  BY <2>1, <2>2, <2>3, <2>4, <2>5, <2>6, <2>7, <2>8
  <1> QED  BY <1>1, <1>2 DEF Ledgers

-----------------------------------------------------------------------------
(* Whole programs. *)

\* The recursive function RunAll takes its value from.
LedgersOf(prog, start) ==
    CHOOSE ledger : ledger = [n \in 0..Len(prog) |->
                                IF n = 0 THEN start ELSE Run(ledger[n - 1], prog[n])]

LEMMA RunSteps ==
    ASSUME NEW prog \in Seq(Instructions), NEW start \in Ledgers
    PROVE  /\ RunAll(prog, start) = LedgersOf(prog, start)[Len(prog)]
           /\ LedgersOf(prog, start)[0] = start
           /\ \A n \in 1..Len(prog) :
                LedgersOf(prog, start)[n] = Run(LedgersOf(prog, start)[n - 1], prog[n])
           /\ \A n \in 0..Len(prog) : LedgersOf(prog, start)[n] \in Ledgers
  <1> DEFINE step == [n \in 1..Len(prog) |-> [l \in Ledgers |-> Run(l, prog[n])]]
             Equation(f) == f = [n \in 0..Len(prog) |->
                                    IF n = 0 THEN start ELSE Run(f[n - 1], prog[n])]
             ledgers == LedgersOf(prog, start)
  <1>0. Len(prog) \in Nat /\ \A n \in 1..Len(prog) : prog[n] \in Instructions  OBVIOUS
  <1>1. \E f : f \in [0..Len(prog) -> Ledgers] /\ Equation(f)
    <2>1. step \in [1..Len(prog) -> [Ledgers -> Ledgers]]
      <3>1. \A n \in 1..Len(prog), l \in Ledgers : Run(l, prog[n]) \in Ledgers
        BY <1>0, RunFacts DEF RunsTo
      <3> QED  BY <3>1
    <2>2. PICK f : Follows(f, Len(prog), Ledgers, start, step)
      <3> HIDE DEF step
      <3> QED  BY <1>0, <2>1, Recursion
    <2>3. f \in [0..Len(prog) -> Ledgers] /\ f[0] = start
      BY <2>2 DEF Follows
    <2>4. \A n \in 1..Len(prog) : f[n] = Run(f[n - 1], prog[n])
      <3>1. \A n \in 1..Len(prog) : f[n - 1] \in Ledgers
        <4>1. \A n \in 1..Len(prog) : n - 1 \in 0..Len(prog)  BY <1>0
        <4> HIDE DEF step
        <4> QED  BY <2>3, <4>1
      <3> QED  BY <2>2, <3>1 DEF Follows
    <2>5. Equation(f)  BY <2>3, <2>4
    <2> QED  BY <2>3, <2>5
  <1>2. Equation(ledgers)
    <2>1. ledgers = CHOOSE f : Equation(f)  BY DEF LedgersOf
    <2> HIDE DEF Equation, ledgers
    <2> QED  BY <1>1, <2>1
  <1>3. RunAll(prog, start) = ledgers[Len(prog)]  BY DEF RunAll, LedgersOf
  <1>4. ledgers[0] = start /\ \A n \in 1..Len(prog) : ledgers[n] = Run(ledgers[n - 1], prog[n])
    <2> HIDE DEF ledgers
    <2> QED  BY <1>0, <1>2
  <1>5. 0..Len(prog) \subseteq {n \in 0..Len(prog) : ledgers[n] \in Ledgers}
    <2> DEFINE S == {n \in 0..Len(prog) : ledgers[n] \in Ledgers}
    <2> HIDE DEF ledgers
    <2>1. 0 \in S  BY <1>0, <1>4
    <2>2. \A n \in 1..Len(prog) : n - 1 \in S => n \in S
      <3>1. ASSUME NEW n \in 1..Len(prog), ledgers[n - 1] \in Ledgers
            PROVE  ledgers[n] \in Ledgers
        <4>1. Run(ledgers[n - 1], prog[n]) \in Ledgers
          BY <1>0, <3>1, RunFacts DEF RunsTo
        <4> QED  BY <1>4, <4>1
      <3> QED  BY <1>0, <3>1
    <2> HIDE DEF S
    <2>3. 0..Len(prog) \subseteq S  BY <1>0, <2>1, <2>2, InductionTo
    <2> QED  BY <2>3 DEF S
  <1> QED  BY <1>3, <1>4, <1>5

LEMMA RunAllType ==
    ASSUME NEW prog \in Seq(Instructions), NEW start \in Ledgers
    PROVE  RunAll(prog, start) \in Ledgers
  BY RunSteps

LEMMA RunAllEmpty ==
    ASSUME NEW start \in Ledgers
    PROVE  RunAll(<< >>, start) = start
  <1>1. << >> \in Seq(Instructions) /\ Len(<< >>) = 0  OBVIOUS
  <1> QED  BY <1>1, RunSteps

LEMMA RunAllAppend ==
    ASSUME NEW prog \in Seq(Instructions), NEW ix \in Instructions, NEW start \in Ledgers
    PROVE  RunAll(Append(prog, ix), start) = Run(RunAll(prog, start), ix)
  <1> DEFINE longer == Append(prog, ix)
             f == LedgersOf(prog, start)
             g == LedgersOf(longer, start)
  <1>1. /\ longer \in Seq(Instructions) /\ Len(longer) = Len(prog) + 1 /\ Len(prog) \in Nat
        /\ longer[Len(prog) + 1] = ix /\ \A i \in 1..Len(prog) : longer[i] = prog[i]
    OBVIOUS
  <1> HIDE DEF longer
  <1> DEFINE S == {n \in 0..Len(prog) : g[n] = f[n]}
  <1>2. 0 \in S  BY <1>1, RunSteps
  <1>3. ASSUME NEW n \in 1..Len(prog), n - 1 \in S PROVE n \in S
    <2>1. n \in 1..Len(longer) /\ longer[n] = prog[n]  BY <1>1
    <2>2. g[n] = Run(g[n - 1], longer[n])
      <3> HIDE DEF S
      <3> QED  BY <1>1, <2>1, RunSteps
    <2>3. f[n] = Run(f[n - 1], prog[n])
      <3> HIDE DEF S
      <3> QED  BY RunSteps
    <2>4. g[n - 1] = f[n - 1]  BY <1>3
    <2> HIDE DEF f, g
    <2>5. g[n] = f[n]  BY <2>1, <2>2, <2>3, <2>4
    <2> QED  BY <2>5, <1>1
  <1>4. 0..Len(prog) \subseteq S
    <2> HIDE DEF S
    <2> QED  BY <1>1, <1>2, <1>3, InductionTo
  <1>5. g[Len(prog)] = f[Len(prog)]  BY <1>1, <1>4
  <1>6. g[Len(longer)] = Run(g[Len(prog)], ix)
    <2>1. Len(longer) \in 1..Len(longer) /\ Len(longer) - 1 = Len(prog)  BY <1>1
    <2> QED  BY <1>1, <2>1, RunSteps
  <1> QED  BY <1>1, <1>5, <1>6, RunSteps DEF longer

-----------------------------------------------------------------------------
(* The steps an instruction takes. *)

SetupSteps == [do : {"ata"}, acct : OtherAccounts]
              \cup [do : {"volume"}, acct : {"curve_volume", "pool_volume"}]
              \cup [do : {"vault"}, acct : {"vault"}]

SomeStep == SetupSteps \cup [do : {"ata"}, acct : UserAccounts]
            \cup [do : {"keep"}, acct : {"wsol"}]

\* The setup q of a swap ix: steps that open everything it lists, and the
\* creator's vault if it is a swap on the curve.
Covers(q, ix) ==
    /\ q \in Seq(SetupSteps)
    /\ \A a \in Listed(ix) : \E i \in 1..Len(q) : q[i].do \in {"ata", "volume"} /\ q[i].acct = a
    /\ ix.op = "pumpfun" => \E i \in 1..Len(q) : q[i].do = "vault"

LEMMA ConcatElements ==
    ASSUME NEW T, NEW p \in Seq(T), NEW q \in Seq(T)
    PROVE  /\ p \o q \in Seq(T) /\ Len(p \o q) = Len(p) + Len(q)
           /\ \A i \in 1..Len(p) : i \in 1..Len(p \o q) /\ (p \o q)[i] = p[i]
           /\ \A i \in 1..Len(q) : Len(p) + i \in 1..Len(p \o q) /\ (p \o q)[Len(p) + i] = q[i]
  OBVIOUS

LEMMA ConcatHas ==
    ASSUME NEW T, NEW p \in Seq(T), NEW q \in Seq(T)
    PROVE  /\ \A i \in 1..Len(p) : \E j \in 1..Len(p \o q) : (p \o q)[j] = p[i]
           /\ \A i \in 1..Len(q) : \E j \in 1..Len(p \o q) : (p \o q)[j] = q[i]
  <1>1. ASSUME NEW i \in 1..Len(p) PROVE \E j \in 1..Len(p \o q) : (p \o q)[j] = p[i]
    <2>1. i \in 1..Len(p \o q) /\ (p \o q)[i] = p[i]  OBVIOUS
    <2> QED  BY <2>1
  <1>2. ASSUME NEW i \in 1..Len(q) PROVE \E j \in 1..Len(p \o q) : (p \o q)[j] = q[i]
    <2>1. Len(p) + i \in 1..Len(p \o q) /\ (p \o q)[Len(p) + i] = q[i]  OBVIOUS
    <2> QED  BY <2>1
  <1> QED  BY <1>1, <1>2

LEMMA ConcatLast ==
    ASSUME NEW T, NEW p \in Seq(T), NEW q \in Seq(T), Len(q) = 1
    PROVE  /\ p \o q \in Seq(T) /\ Len(p \o q) = Len(p) + 1 /\ Len(p) \in Nat
           /\ (p \o q)[Len(p) + 1] = q[1]
           /\ \A i \in 1..Len(p) : (p \o q)[i] = p[i]
  <1>1. 1 \in 1..Len(q) /\ Len(p) \in Nat  OBVIOUS
  <1>2. /\ p \o q \in Seq(T) /\ Len(p \o q) = Len(p) + Len(q)
        /\ \A i \in 1..(Len(p) + Len(q)) :
              (p \o q)[i] = IF i <= Len(p) THEN p[i] ELSE q[i - Len(p)]
    BY ConcatProperties
  <1> DEFINE c == p \o q
  <1> HIDE DEF c
  <1>3. c[Len(p) + 1] = q[(Len(p) + 1) - Len(p)]
    <2>1. Len(p) + 1 \in 1..(Len(p) + Len(q)) /\ ~(Len(p) + 1 <= Len(p))  BY <1>1
    <2> QED  BY <1>2, <2>1 DEF c
  <1>4. (Len(p) + 1) - Len(p) = 1  BY <1>1
  <1>5. \A i \in 1..Len(p) : c[i] = p[i]  BY <1>1, <1>2 DEF c
  <1> QED  BY <1>1, <1>2, <1>3, <1>4, <1>5 DEF c

LEMMA OneElement ==
    ASSUME NEW T, NEW x \in T
    PROVE  << x >> \in Seq(T) /\ Len(<< x >>) = 1 /\ << x >>[1] = x
  OBVIOUS

LEMMA VolumeSteps ==
    ASSUME NEW ix, NEW a \in {"curve_volume", "pool_volume"}
    PROVE  /\ Volume(ix, a) \in Seq(SetupSteps)
           /\ ix.volume => Len(Volume(ix, a)) = 1 /\ Volume(ix, a)[1] = Step("volume", a)
  <1>1. Step("volume", a) \in SetupSteps  BY DEF Step, SetupSteps
  <1>2. CASE ix.volume  BY <1>1, <1>2, OneElement DEF Volume
  <1>3. CASE ~ix.volume  BY <1>3 DEF Volume
  <1> QED  BY <1>2, <1>3

LEMMA PumpSwapSteps ==
    ASSUME NEW ix \in RawInstructions, ix.op = "pumpswap"
    PROVE  Covers(PumpSwapSetup(ix), ix)
  <1> DEFINE volume == Volume(ix, "pool_volume")
             owners == [i \in 1..Len(ix.recipients) |-> Step("ata", ix.recipients[i])]
             cashback == IF ix.cashback THEN << Step("ata", "cashback") >> ELSE << >>
             front == volume \o owners
  <1>1. ix.recipients \in Seq(OtherAccounts)
    BY DEF RawInstructions, Swaps
  <1>2. volume \in Seq(SetupSteps)  BY VolumeSteps
  <1>3. /\ owners \in Seq(SetupSteps) /\ Len(owners) = Len(ix.recipients)
        /\ \A i \in 1..Len(ix.recipients) : owners[i] = Step("ata", ix.recipients[i])
    <2>1. \A i \in 1..Len(ix.recipients) : Step("ata", ix.recipients[i]) \in SetupSteps
      BY <1>1 DEF Step, SetupSteps
    <2>2. Len(ix.recipients) \in Nat  BY <1>1
    <2> QED  BY <2>1, <2>2
  <1>4. /\ cashback \in Seq(SetupSteps)
        /\ ix.cashback => Len(cashback) = 1 /\ cashback[1] = Step("ata", "cashback")
    <2>1. Step("ata", "cashback") \in SetupSteps  BY AccountNames DEF Step, SetupSteps
    <2>2. CASE ix.cashback  BY <2>1, <2>2, OneElement
    <2>3. CASE ~ix.cashback  BY <2>3
    <2> QED  BY <2>2, <2>3
  <1>5. PumpSwapSetup(ix) = front \o cashback  BY DEF PumpSwapSetup
  <1> HIDE DEF volume, owners, cashback
  <1>6. front \in Seq(SetupSteps)  BY <1>2, <1>3, ConcatElements
  <1>7. front \o cashback \in Seq(SetupSteps)
    <2> HIDE DEF front
    <2> QED  BY <1>4, <1>6, ConcatElements
  <1>8. ASSUME NEW s, \E i \in 1..Len(front) : front[i] = s
        PROVE  \E i \in 1..Len(front \o cashback) : (front \o cashback)[i] = s
    <2> HIDE DEF front
    <2> QED  BY <1>4, <1>6, <1>8, ConcatElements
  <1>9. ASSUME NEW a \in Listed(ix)
        PROVE  \E i \in 1..Len(front \o cashback) :
                    (front \o cashback)[i] \in {Step("ata", a), Step("volume", a)}
    <2>1. CASE \E i \in 1..Len(ix.recipients) : a = ix.recipients[i]
      <3>1. PICK i \in 1..Len(owners) : owners[i] = Step("ata", a)  BY <1>3, <2>1
      <3>2. \A k \in 1..Len(owners) : \E j \in 1..Len(front) : front[j] = owners[k]
        BY <1>2, <1>3, ConcatHas
      <3>3. \E j \in 1..Len(front) : front[j] = Step("ata", a)
        BY <3>1, <3>2
      <3> HIDE DEF front
      <3> QED  BY <1>8, <3>3
    <2>2. CASE ix.volume /\ a = "pool_volume"
      <3>1. 1 \in 1..Len(volume) /\ volume[1] = Step("volume", a)
        <4>1. Len(volume) = 1 /\ volume[1] = Step("volume", a)
          BY <2>2, VolumeSteps DEF volume
        <4> QED  BY <4>1
      <3>2. \A i \in 1..Len(volume) : \E j \in 1..Len(front) : front[j] = volume[i]
        BY <1>2, <1>3, ConcatHas
      <3>3. \E j \in 1..Len(front) : front[j] = Step("volume", a)
        BY <3>1, <3>2
      <3> HIDE DEF front
      <3> QED  BY <1>8, <3>3
    <2>3. CASE ix.cashback /\ a = "cashback"
      <3>1. Len(cashback) = 1 /\ cashback[1] = Step("ata", a)  BY <1>4, <2>3
      <3> HIDE DEF front
      <3>2. \A i \in 1..Len(cashback) : \E j \in 1..Len(front \o cashback) :
                (front \o cashback)[j] = cashback[i]
        BY <1>4, <1>6, ConcatHas
      <3>3. 1 \in 1..Len(cashback)  BY <3>1
      <3>4. \E j \in 1..Len(front \o cashback) : (front \o cashback)[j] = Step("ata", a)
        BY <3>1, <3>2, <3>3
      <3> QED  BY <3>4
    <2>4. \/ \E i \in 1..Len(ix.recipients) : a = ix.recipients[i]
          \/ ix.volume /\ a = "pool_volume"
          \/ ix.cashback /\ a = "cashback"
      BY DEF Listed
    <2> QED  BY <2>1, <2>2, <2>3, <2>4
  <1>10. \A a : Step("ata", a).do = "ata" /\ Step("ata", a).acct = a
             /\ Step("volume", a).do = "volume" /\ Step("volume", a).acct = a
    BY DEF Step
  <1> HIDE DEF front
  <1> DEFINE q == front \o cashback
  <1>11. ASSUME NEW a \in Listed(ix)
         PROVE  \E i \in 1..Len(q) : q[i].do \in {"ata", "volume"} /\ q[i].acct = a
    <2>1. PICK i \in 1..Len(q) : q[i] \in {Step("ata", a), Step("volume", a)}  BY <1>9
    <2>2. q[i].do \in {"ata", "volume"} /\ q[i].acct = a
      <3> HIDE DEF q
      <3> QED  BY <1>10, <2>1
    <2> QED  BY <2>2
  <1> HIDE DEF q
  <1> QED  BY <1>5, <1>7, <1>11 DEF Covers, q

LEMMA PumpFunSteps ==
    ASSUME NEW ix \in RawInstructions, ix.op = "pumpfun"
    PROVE  Covers(PumpFunSetup(ix), ix)
  <1> DEFINE volume == Volume(ix, "curve_volume")
             vault == << Step("vault", "vault") >>
  <1>1. volume \in Seq(SetupSteps)  BY VolumeSteps
  <1>2. vault \in Seq(SetupSteps) /\ Len(vault) = 1 /\ vault[1].do = "vault"
    BY DEF Step, SetupSteps
  <1>3. PumpFunSetup(ix) = volume \o vault  BY DEF PumpFunSetup
  <1>4. ASSUME NEW a \in Listed(ix)
        PROVE  Len(volume) = 1 /\ volume[1].do = "volume" /\ volume[1].acct = a
    <2>1. ix.volume /\ a = "curve_volume"  BY DEF Listed
    <2>2. Len(volume) = 1 /\ volume[1] = Step("volume", a)
      BY <2>1, VolumeSteps DEF volume
    <2> QED  BY <2>2 DEF Step
  <1> HIDE DEF volume, vault
  <1>5. volume \o vault \in Seq(SetupSteps)  BY <1>1, <1>2, ConcatElements
  <1>6. \A a \in Listed(ix) : \E i \in 1..Len(volume \o vault) :
            (volume \o vault)[i].do \in {"ata", "volume"} /\ (volume \o vault)[i].acct = a
    BY <1>1, <1>2, <1>4, ConcatElements
  <1>7. \E i \in 1..Len(volume \o vault) : (volume \o vault)[i].do = "vault"
    <2>1. /\ Len(volume \o vault) = Len(volume) + 1 /\ Len(volume) \in Nat
          /\ (volume \o vault)[Len(volume) + 1] = vault[1]
      BY <1>1, <1>2, ConcatLast
    <2>2. Len(volume) + 1 \in 1..Len(volume \o vault)  BY <1>1, <2>1
    <2> QED  BY <1>2, <2>1, <2>2
  <1> QED  BY <1>3, <1>5, <1>6, <1>7 DEF Covers

\* Every instruction of a route takes at least one step; an account creation
\* takes one, anything else is kept by its last step, after its setup.
LEMMA StepsFacts ==
    ASSUME NEW ix \in RawInstructions
    PROVE  /\ StepsFor(ix) \in Seq(SomeStep)
           /\ Len(StepsFor(ix)) \in Nat \ {0}
           /\ ix.op = "ata" => StepsFor(ix) = << Step("ata", ix.acct) >>
           /\ ix.op # "ata" =>
                /\ StepsFor(ix)[Len(StepsFor(ix))].do = "keep"
                /\ \A i \in 1..(Len(StepsFor(ix)) - 1) : StepsFor(ix)[i] \in SetupSteps
           /\ ix \in Swaps =>
                \A a \in Listed(ix) : \E i \in 1..(Len(StepsFor(ix)) - 1) :
                    StepsFor(ix)[i].do \in {"ata", "volume"} /\ StepsFor(ix)[i].acct = a
           /\ ix.op = "pumpfun" =>
                \E i \in 1..(Len(StepsFor(ix)) - 1) : StepsFor(ix)[i].do = "vault"
  <1>1. Keep \in Seq(SomeStep) /\ Len(Keep) = 1 /\ Keep[1].do = "keep"
    BY DEF Keep, Step, SomeStep
  <1>2. CASE ix.op = "ata"
    <2>1. StepsFor(ix) = << Step("ata", ix.acct) >>  BY <1>2 DEF StepsFor
    <2>2. Step("ata", ix.acct) \in SomeStep
      BY <1>2 DEF RawInstructions, Swaps, Step, SomeStep
    <2>3. ix \notin Swaps  BY <1>2 DEF Swaps
    <2> QED  BY <1>2, <2>1, <2>2, <2>3
  <1>3. CASE ix.op \in {"wrap", "close"}
    <2>1. StepsFor(ix) = Keep  BY <1>3 DEF StepsFor
    <2>2. ix \notin Swaps  BY <1>3 DEF Swaps
    <2>3. ix.op # "ata" /\ ix.op # "pumpfun"  BY <1>3
    <2>4. \A i \in 1..(Len(Keep) - 1) : FALSE  BY <1>1
    <2>5. StepsFor(ix) \in Seq(SomeStep) /\ Len(StepsFor(ix)) \in Nat \ {0}
          /\ StepsFor(ix)[Len(StepsFor(ix))].do = "keep"
      <3>1. StepsFor(ix) \in Seq(SomeStep) BY <1>1, <2>1
      <3>2. Len(StepsFor(ix)) = 1 BY <1>1, <2>1
      <3>3. StepsFor(ix)[1].do = "keep" BY <1>1, <2>1
      <3> QED  BY <3>1, <3>2, <3>3
    <2> QED  BY <2>1, <2>2, <2>3, <2>4, <2>5, <1>1
  <1>4. CASE ix.op \in {"pumpswap", "pumpfun"}
    <2> DEFINE setup == IF ix.op = "pumpswap" THEN PumpSwapSetup(ix) ELSE PumpFunSetup(ix)
    <2>1. StepsFor(ix) = setup \o Keep  BY <1>4 DEF StepsFor
    <2>2. Covers(setup, ix)  BY <1>4, PumpSwapSteps, PumpFunSteps
    <2> HIDE DEF setup
    <2>3. setup \in Seq(SomeStep) /\ Len(setup) \in Nat /\ \A i \in 1..Len(setup) : setup[i] \in SetupSteps
      BY <2>2 DEF Covers, SomeStep
    <2>4. /\ setup \o Keep \in Seq(SomeStep) /\ Len(setup \o Keep) = Len(setup) + 1
          /\ \A i \in 1..Len(setup) : (setup \o Keep)[i] = setup[i]
          /\ (setup \o Keep)[Len(setup) + 1] = Keep[1]
      BY <1>1, <2>3, ConcatLast
    <2>5. Len(StepsFor(ix)) - 1 = Len(setup)  BY <2>1, <2>3, <2>4
    <2>6. \A a \in Listed(ix) : \E i \in 1..Len(setup) :
              StepsFor(ix)[i].do \in {"ata", "volume"} /\ StepsFor(ix)[i].acct = a
      BY <2>1, <2>2, <2>4 DEF Covers
    <2>7. ix.op = "pumpfun" => \E i \in 1..Len(setup) : StepsFor(ix)[i].do = "vault"
      BY <2>1, <2>2, <2>4 DEF Covers
    <2>8. \A i \in 1..Len(setup) : StepsFor(ix)[i] \in SetupSteps  BY <2>1, <2>3, <2>4
    <2>9. StepsFor(ix)[Len(StepsFor(ix))].do = "keep"  BY <1>1, <2>1, <2>3, <2>4
    <2>10. StepsFor(ix) \in Seq(SomeStep) /\ Len(StepsFor(ix)) \in Nat \ {0}  BY <2>1, <2>3, <2>4
    <2> QED  BY <1>4, <2>5, <2>6, <2>7, <2>8, <2>9, <2>10
  <1>5. ix.op \in {"ata", "wrap", "close", "pumpswap", "pumpfun"}
    BY DEF RawInstructions, Swaps
  <1> QED  BY <1>2, <1>3, <1>4, <1>5

-----------------------------------------------------------------------------
(* Variables range as in the code. *)

LEMMA RouteType ==
    ASSUME SetupTypeOK, NEW c \in Calls
    PROVE  /\ route[c] \in Routes /\ route[c] \in Seq(RawInstructions) /\ WellBuilt(route[c])
           /\ Len(route[c]) \in Nat /\ turn[c] \in 0..Len(route[c])
  <1>1. route[c] \in Routes  BY DEF SetupTypeOK
  <1>2. route[c] \in Seq(RawInstructions) /\ WellBuilt(route[c])  BY <1>1, SetupAssumption
  <1> QED  BY <1>1, <1>2 DEF SetupTypeOK

LEMMA PendingType ==
    ASSUME SetupTypeOK, NEW c \in Calls, Appending(c)
    PROVE  /\ turn[c] + 1 \in 1..Len(route[c]) /\ turn[c] \in Nat
           /\ Raw(c) = route[c][turn[c] + 1] /\ Raw(c) \in RawInstructions
           /\ taken[c] \in 0..(Len(StepsFor(Raw(c))) - 1)
           /\ taken[c] + 1 \in 1..Len(StepsFor(Raw(c)))
           /\ Now(c) = StepsFor(Raw(c))[taken[c] + 1] /\ Now(c) \in SomeStep
  <1>1. turn[c] \in 0..Len(route[c]) /\ turn[c] < Len(route[c]) /\ Len(route[c]) \in Nat
    BY RouteType DEF Appending
  <1>2. turn[c] + 1 \in 1..Len(route[c])  BY <1>1
  <1>3. Raw(c) = route[c][turn[c] + 1] /\ Raw(c) \in RawInstructions
    BY <1>2, RouteType DEF Raw
  <1>4. taken[c] \in 0..(Len(StepsFor(Raw(c))) - 1)
    BY <1>1 DEF SetupTypeOK
  <1>5. StepsFor(Raw(c)) \in Seq(SomeStep) /\ Len(StepsFor(Raw(c))) \in Nat
    BY <1>3, StepsFacts
  <1>6. taken[c] + 1 \in 1..Len(StepsFor(Raw(c)))  BY <1>4, <1>5
  <1> QED  BY <1>1, <1>2, <1>3, <1>4, <1>5, <1>6 DEF Now

\* The builder's place in the route.
Placed ==
    /\ turn \in [Calls -> Nat] /\ taken \in [Calls -> Nat]
    /\ \A c \in Calls :
        /\ turn[c] \in 0..Len(route[c])
        /\ taken[c] \in IF turn[c] < Len(route[c]) THEN 0..(Len(StepsFor(Raw(c))) - 1) ELSE {0}

\* A step goes on within the instruction, or ends it and starts the next.
LEMMA TookFacts ==
    ASSUME SetupTypeOK, NEW c \in Calls, Appending(c), Took(c)
    PROVE  /\ Placed' /\ route' = route
           /\ \A d \in Calls \ {c} : turn'[d] = turn[d] /\ taken'[d] = taken[d]
           /\ \/ /\ taken[c] + 1 < Len(StepsFor(Raw(c)))
                 /\ turn'[c] = turn[c] /\ taken'[c] = taken[c] + 1
              \/ /\ taken[c] + 1 = Len(StepsFor(Raw(c)))
                 /\ turn'[c] = turn[c] + 1 /\ taken'[c] = 0
  <1>1. route' = route  BY DEF Took
  <1>2. turn \in [Calls -> Nat] /\ taken \in [Calls -> Nat]  BY DEF SetupTypeOK
  <1>3. \A d \in Calls \ {c} : turn'[d] = turn[d] /\ taken'[d] = taken[d]
    BY <1>2 DEF Took
  <1>4. ASSUME NEW d \in Calls \ {c}
        PROVE  /\ turn'[d] \in 0..Len(route'[d])
               /\ taken'[d] \in IF turn'[d] < Len(route'[d])
                                THEN 0..(Len(StepsFor(Raw(d))') - 1) ELSE {0}
    <2>1. Raw(d)' = Raw(d)  BY <1>1, <1>3 DEF Raw
    <2>2. StepsFor(Raw(d))' = StepsFor(Raw(d))  BY <2>1 DEF StepsFor, PumpSwapSetup, PumpFunSetup, Volume
    <2> QED  BY <1>1, <1>3, <2>2 DEF SetupTypeOK
  <1>5. CASE taken[c] + 1 < Len(StepsFor(Raw(c)))
    <2>1. taken' = [taken EXCEPT ![c] = @ + 1] /\ turn' = turn  BY <1>5 DEF Took
    <2>2. taken'[c] = taken[c] + 1  BY <1>2, <2>1
    <2>3. Raw(c)' = Raw(c)  BY <1>1, <2>1 DEF Raw
    <2>4. Len(StepsFor(Raw(c)))' = Len(StepsFor(Raw(c)))
      BY <2>3 DEF StepsFor, PumpSwapSetup, PumpFunSetup, Volume
    <2>5. Len(StepsFor(Raw(c))) \in Nat /\ taken[c] \in Nat
      BY PendingType, StepsFacts
    <2>6. taken'[c] \in 0..(Len(StepsFor(Raw(c))') - 1)  BY <1>5, <2>2, <2>4, <2>5
    <2>7. turn'[c] \in 0..Len(route'[c]) /\ turn'[c] < Len(route'[c])
      BY <1>1, <2>1, RouteType DEF Appending
    <2>8. turn' \in [Calls -> Nat] /\ taken' \in [Calls -> Nat]  BY <1>2, <2>1, <2>5
    <2> QED  BY <1>1, <1>3, <1>4, <1>5, <2>1, <2>2, <2>6, <2>7, <2>8 DEF Placed
  <1>6. CASE ~(taken[c] + 1 < Len(StepsFor(Raw(c))))
    <2>1. taken' = [taken EXCEPT ![c] = 0] /\ turn' = [turn EXCEPT ![c] = @ + 1]  BY <1>6 DEF Took
    <2>2. taken'[c] = 0 /\ turn'[c] = turn[c] + 1  BY <1>2, <2>1
    <2>3. taken[c] + 1 = Len(StepsFor(Raw(c)))  BY <1>6, PendingType
    <2>4. turn'[c] \in 0..Len(route'[c])  BY <1>1, <2>2, PendingType, RouteType
    <2>5. taken'[c] \in IF turn'[c] < Len(route'[c]) THEN 0..(Len(StepsFor(Raw(c))') - 1) ELSE {0}
      <3>1. CASE turn'[c] < Len(route'[c])
        <4>1. turn'[c] + 1 \in 1..Len(route[c])  BY <1>1, <2>4, <3>1, RouteType
        <4>2. Raw(c)' \in RawInstructions
          <5>1. Raw(c)' = route[c][turn'[c] + 1]  BY <1>1 DEF Raw
          <5> QED  BY <4>1, <5>1, RouteType
        <4>3. PICK ix \in RawInstructions : Raw(c)' = ix  BY <4>2
        <4>4. StepsFor(Raw(c))' = StepsFor(ix)
          BY <4>3 DEF StepsFor, PumpSwapSetup, PumpFunSetup, Volume
        <4>5. Len(StepsFor(ix)) \in Nat \ {0}  BY StepsFacts
        <4> QED  BY <2>2, <3>1, <4>4, <4>5
      <3>2. CASE ~(turn'[c] < Len(route'[c]))  BY <2>2, <3>2
      <3> QED  BY <3>1, <3>2
    <2>6. turn' \in [Calls -> Nat] /\ taken' \in [Calls -> Nat]  BY <1>2, <2>1, PendingType
    <2> QED  BY <1>1, <1>3, <1>4, <2>2, <2>3, <2>4, <2>5, <2>6 DEF Placed
  <1> QED  BY <1>5, <1>6

\* What the steps of the builder have in common: one call's memory changes,
\* its program grows, and the rest is as it was.
BuilderStep(c) ==
    /\ Appending(c) /\ Took(c)
    /\ program' \in [Calls -> Seq(Instructions)]
    /\ refund' \in [Calls -> 0..TokenRent]
    /\ accounts' \in [Calls -> [Accounts -> SetupAccount \cup {Unread}]]
    /\ seen' \in [Calls -> [Accounts -> SetupAccount \cup {Unread}]]
    /\ \A d \in Calls \ {c} :
        /\ program'[d] = program[d] /\ refund'[d] = refund[d]
        /\ accounts'[d] = accounts[d] /\ seen'[d] = seen[d]

\* The account a step asks for, cached or read.
LEMMA AccountFacts ==
    ASSUME SetupTypeOK, NEW c \in Calls, NEW a \in Accounts
    PROVE  Account(c, a) \in SetupAccount
  BY DEF SetupTypeOK, Account

LEMMA CachedFacts ==
    ASSUME SetupTypeOK, NEW c \in Calls, NEW a \in Accounts, NEW after \in SetupAccount,
           Cached(c, a, after)
    PROVE  /\ accounts' \in [Calls -> [Accounts -> SetupAccount \cup {Unread}]]
           /\ seen' \in [Calls -> [Accounts -> SetupAccount \cup {Unread}]]
           /\ accounts'[c] = [accounts[c] EXCEPT ![a] = after]
           /\ seen'[c] = IF accounts[c][a] = Unread THEN [seen[c] EXCEPT ![a] = chain[a]] ELSE seen[c]
           /\ \A d \in Calls \ {c} : accounts'[d] = accounts[d] /\ seen'[d] = seen[d]
  <1>1. chain[a] \in SetupAccount  BY DEF SetupTypeOK
  <1>2. accounts' = [accounts EXCEPT ![c][a] = after]  BY DEF Cached
  <1>3. seen' = IF accounts[c][a] = Unread THEN [seen EXCEPT ![c][a] = chain[a]] ELSE seen
    BY DEF Cached
  <1>4. /\ accounts \in [Calls -> [Accounts -> SetupAccount \cup {Unread}]]
        /\ seen \in [Calls -> [Accounts -> SetupAccount \cup {Unread}]]
    BY DEF SetupTypeOK
  <1>5. /\ accounts' \in [Calls -> [Accounts -> SetupAccount \cup {Unread}]]
        /\ accounts'[c] = [accounts[c] EXCEPT ![a] = after]
        /\ \A d \in Calls \ {c} : accounts'[d] = accounts[d]
    BY <1>2, <1>4
  <1>6. /\ seen' \in [Calls -> [Accounts -> SetupAccount \cup {Unread}]]
        /\ seen'[c] = IF accounts[c][a] = Unread THEN [seen[c] EXCEPT ![a] = chain[a]] ELSE seen[c]
        /\ \A d \in Calls \ {c} : seen'[d] = seen[d]
    BY <1>1, <1>3, <1>4
  <1> QED  BY <1>5, <1>6

\* Appending one instruction to the program of c.
LEMMA PushFacts ==
    ASSUME SetupTypeOK, NEW c \in Calls, NEW ix \in Instructions, Push(c, << ix >>)
    PROVE  /\ program' \in [Calls -> Seq(Instructions)]
           /\ program'[c] = Append(program[c], ix)
           /\ \A d \in Calls \ {c} : program'[d] = program[d]
  <1>1. program \in [Calls -> Seq(Instructions)]  BY DEF SetupTypeOK
  <1>2. program' = [program EXCEPT ![c] = program[c] \o << ix >>]  BY DEF Push
  <1>3. program[c] \in Seq(Instructions)  BY <1>1
  <1>4. program[c] \o << ix >> = Append(program[c], ix)  BY <1>3
  <1>5. Append(program[c], ix) \in Seq(Instructions)  BY <1>3
  <1> QED  BY <1>1, <1>2, <1>4, <1>5

LEMMA SameProgram ==
    ASSUME SetupTypeOK, UNCHANGED program
    PROVE  program' \in [Calls -> Seq(Instructions)] /\ \A d \in Calls : program'[d] = program[d]
  BY DEF SetupTypeOK

LEMMA SameRefund ==
    ASSUME SetupTypeOK, UNCHANGED refund
    PROVE  refund' \in [Calls -> 0..TokenRent] /\ \A d \in Calls : refund'[d] = refund[d]
  BY DEF SetupTypeOK

\* create_ata: what is there is remembered, what is missing is created.
LEMMA CreateAtaFacts ==
    ASSUME SetupTypeOK, NEW c \in Calls, CreateAta(c),
           NEW a, a = Now(c).acct, NEW account, account = Account(c, a)
    PROVE  /\ BuilderStep(c) /\ Now(c).do = "ata" /\ a \in Accounts /\ account \in SetupAccount
           /\ seen'[c] = IF accounts[c][a] = Unread THEN [seen[c] EXCEPT ![a] = chain[a]] ELSE seen[c]
           /\ \/ /\ account.initialized
                 /\ program'[c] = program[c] /\ refund'[c] = refund[c]
                 /\ accounts'[c] = [accounts[c] EXCEPT ![a] = account]
              \/ /\ ~account.initialized
                 /\ Ata(a, Strict(a)) \in Instructions
                 /\ program'[c] = Append(program[c], Ata(a, Strict(a)))
                 /\ refund'[c] = IF a = "wsol" THEN Monus(TokenRent, account.lamports) ELSE refund[c]
                 /\ accounts'[c] = [accounts[c] EXCEPT ![a] =
                                       [initialized |-> TRUE, lamports |-> account.lamports]]
  <1>1. Appending(c) /\ Took(c) /\ Now(c).do = "ata"  BY DEF CreateAta, Working
  <1>2. a \in Accounts
    <2>1. Now(c) \in SomeStep  BY <1>1, PendingType
    <2> QED  BY <2>1, AccountNames DEF SomeStep, SetupSteps
  <1>3. account \in SetupAccount  BY <1>2, AccountFacts
  <1>4. CASE account.initialized
    <2>1. Cached(c, a, account) /\ UNCHANGED << program, refund >>  BY <1>4 DEF CreateAta
    <2>2. /\ accounts' \in [Calls -> [Accounts -> SetupAccount \cup {Unread}]]
          /\ seen' \in [Calls -> [Accounts -> SetupAccount \cup {Unread}]]
          /\ accounts'[c] = [accounts[c] EXCEPT ![a] = account]
          /\ seen'[c] = IF accounts[c][a] = Unread THEN [seen[c] EXCEPT ![a] = chain[a]] ELSE seen[c]
          /\ \A d \in Calls \ {c} : accounts'[d] = accounts[d] /\ seen'[d] = seen[d]
      BY <1>2, <1>3, <2>1, CachedFacts
    <2> QED  BY <1>1, <1>2, <1>3, <1>4, <2>1, <2>2, SameProgram, SameRefund DEF BuilderStep
  <1>5. CASE ~account.initialized
    <2> DEFINE after == [initialized |-> TRUE, lamports |-> account.lamports]
    <2>1. after \in SetupAccount /\ [account EXCEPT !.initialized = TRUE] = after
      <3>1. account = [initialized |-> account.initialized, lamports |-> account.lamports]
            /\ account.lamports \in Nat
        BY <1>3 DEF SetupAccount
      <3>2. after \in SetupAccount  BY <3>1 DEF SetupAccount
      <3>3. [account EXCEPT !.initialized = TRUE] = after
        <4> DEFINE b == [account EXCEPT !.initialized = TRUE]
        <4>1. b \in SetupAccount  BY <1>3 DEF SetupAccount
        <4>2. b.initialized = TRUE /\ b.lamports = account.lamports  BY <1>3 DEF SetupAccount
        <4>3. \A r \in SetupAccount : r.initialized = TRUE /\ r.lamports = account.lamports => r = after
          BY DEF SetupAccount
        <4> QED  BY <4>1, <4>2, <4>3
      <3> QED  BY <3>2, <3>3
    <2>2. /\ Push(c, << Ata(a, Strict(a)) >>) /\ Cached(c, a, after)
          /\ refund' = IF a = "wsol" THEN [refund EXCEPT ![c] = Deposit(account)] ELSE refund
      BY <1>5, <2>1 DEF CreateAta
    <2>3. Ata(a, Strict(a)) \in Instructions  BY <1>2 DEF Ata, Strict, Instructions
    <2>4. Deposit(account) = Monus(TokenRent, account.lamports) /\ Deposit(account) \in 0..TokenRent
      BY <1>3, SetupConstants DEF Deposit, Monus, SetupAccount
    <2>5. /\ refund' \in [Calls -> 0..TokenRent]
          /\ refund'[c] = IF a = "wsol" THEN Deposit(account) ELSE refund[c]
          /\ \A d \in Calls \ {c} : refund'[d] = refund[d]
      BY <2>2, <2>4 DEF SetupTypeOK
    <2>6. /\ accounts' \in [Calls -> [Accounts -> SetupAccount \cup {Unread}]]
          /\ seen' \in [Calls -> [Accounts -> SetupAccount \cup {Unread}]]
          /\ accounts'[c] = [accounts[c] EXCEPT ![a] = after]
          /\ seen'[c] = IF accounts[c][a] = Unread THEN [seen[c] EXCEPT ![a] = chain[a]] ELSE seen[c]
          /\ \A d \in Calls \ {c} : accounts'[d] = accounts[d] /\ seen'[d] = seen[d]
      BY <1>2, <2>1, <2>2, CachedFacts
    <2>7. /\ program' \in [Calls -> Seq(Instructions)]
          /\ program'[c] = Append(program[c], Ata(a, Strict(a)))
          /\ \A d \in Calls \ {c} : program'[d] = program[d]
      BY <2>2, <2>3, PushFacts
    <2> QED  BY <1>1, <1>2, <1>3, <1>5, <2>3, <2>4, <2>5, <2>6, <2>7 DEF BuilderStep
  <1> QED  BY <1>4, <1>5

\* init_volume.
LEMMA InitVolumeFacts ==
    ASSUME SetupTypeOK, NEW c \in Calls, InitVolume(c),
           NEW a, a = Now(c).acct, NEW account, account = Account(c, a),
           NEW ix, ix = [op |-> "volume", acct |-> a],
           NEW made, made = [initialized |-> TRUE, lamports |-> 0]
    PROVE  /\ BuilderStep(c) /\ Now(c).do = "volume" /\ a \in OtherAccounts /\ account \in SetupAccount
           /\ seen'[c] = IF accounts[c][a] = Unread THEN [seen[c] EXCEPT ![a] = chain[a]] ELSE seen[c]
           /\ refund'[c] = refund[c]
           /\ \/ /\ account.initialized /\ program'[c] = program[c]
                 /\ accounts'[c] = [accounts[c] EXCEPT ![a] = account]
              \/ /\ ~account.initialized
                 /\ ix \in Instructions /\ made \in SetupAccount
                 /\ program'[c] = Append(program[c], ix)
                 /\ accounts'[c] = [accounts[c] EXCEPT ![a] = made]
  <1>1. Appending(c) /\ Took(c) /\ Now(c).do = "volume" /\ UNCHANGED refund  BY DEF InitVolume, Working
  <1>2. a \in {"curve_volume", "pool_volume"} /\ a \in OtherAccounts /\ a \in Accounts
    <2>1. Now(c) \in SomeStep  BY <1>1, PendingType
    <2> QED  BY <1>1, <2>1, AccountNames DEF SomeStep, SetupSteps
  <1>3. account \in SetupAccount  BY <1>2, AccountFacts
  <1>4. CASE account.initialized
    <2>1. Cached(c, a, account) /\ UNCHANGED program  BY <1>4 DEF InitVolume
    <2>2. /\ accounts' \in [Calls -> [Accounts -> SetupAccount \cup {Unread}]]
          /\ seen' \in [Calls -> [Accounts -> SetupAccount \cup {Unread}]]
          /\ accounts'[c] = [accounts[c] EXCEPT ![a] = account]
          /\ seen'[c] = IF accounts[c][a] = Unread THEN [seen[c] EXCEPT ![a] = chain[a]] ELSE seen[c]
          /\ \A d \in Calls \ {c} : accounts'[d] = accounts[d] /\ seen'[d] = seen[d]
      BY <1>2, <1>3, <2>1, CachedFacts
    <2> QED  BY <1>1, <1>2, <1>3, <1>4, <2>1, <2>2, SameProgram, SameRefund DEF BuilderStep
  <1>5. CASE ~account.initialized
    <2>1. made \in SetupAccount  BY DEF SetupAccount
    <2>2. Push(c, << ix >>) /\ Cached(c, a, made)  BY <1>5 DEF InitVolume
    <2>3. ix \in Instructions  BY <1>2 DEF Instructions
    <2>4. /\ accounts' \in [Calls -> [Accounts -> SetupAccount \cup {Unread}]]
          /\ seen' \in [Calls -> [Accounts -> SetupAccount \cup {Unread}]]
          /\ accounts'[c] = [accounts[c] EXCEPT ![a] = made]
          /\ seen'[c] = IF accounts[c][a] = Unread THEN [seen[c] EXCEPT ![a] = chain[a]] ELSE seen[c]
          /\ \A d \in Calls \ {c} : accounts'[d] = accounts[d] /\ seen'[d] = seen[d]
      BY <1>2, <2>1, <2>2, CachedFacts
    <2>5. /\ program' \in [Calls -> Seq(Instructions)]
          /\ program'[c] = Append(program[c], ix)
          /\ \A d \in Calls \ {c} : program'[d] = program[d]
      BY <2>2, <2>3, PushFacts
    <2> QED  BY <1>1, <1>2, <1>3, <1>5, <2>1, <2>3, <2>4, <2>5, SameRefund DEF BuilderStep
  <1> QED  BY <1>4, <1>5

\* The creator's vault in pumpfun_setup.
LEMMA FundVaultFacts ==
    ASSUME SetupTypeOK, NEW c \in Calls, FundVault(c), NEW account, account = Account(c, "vault"),
           NEW fund, fund = [op |-> "fund", amt |-> VaultRent - account.lamports]
    PROVE  /\ BuilderStep(c) /\ Now(c).do = "vault" /\ account \in SetupAccount
           /\ seen'[c] = IF accounts[c]["vault"] = Unread
                         THEN [seen[c] EXCEPT !["vault"] = chain["vault"]] ELSE seen[c]
           /\ refund'[c] = refund[c]
           /\ \/ /\ account.lamports >= VaultRent /\ program'[c] = program[c]
                 /\ accounts'[c] = [accounts[c] EXCEPT !["vault"] = account]
              \/ /\ account.lamports < VaultRent
                 /\ fund \in Instructions
                 /\ program'[c] = Append(program[c], fund)
                 /\ accounts'[c] = [accounts[c] EXCEPT !["vault"] =
                                       [initialized |-> FALSE, lamports |-> VaultRent]]
  <1>1. Appending(c) /\ Took(c) /\ Now(c).do = "vault" /\ UNCHANGED refund  BY DEF FundVault, Working
  <1>2. "vault" \in Accounts  BY AccountNames
  <1>3. account \in SetupAccount  BY <1>2, AccountFacts
  <1>4. CASE account.lamports >= VaultRent
    <2>1. Cached(c, "vault", account) /\ UNCHANGED program  BY <1>4 DEF FundVault
    <2>2. /\ accounts' \in [Calls -> [Accounts -> SetupAccount \cup {Unread}]]
          /\ seen' \in [Calls -> [Accounts -> SetupAccount \cup {Unread}]]
          /\ accounts'[c] = [accounts[c] EXCEPT !["vault"] = account]
          /\ seen'[c] = IF accounts[c]["vault"] = Unread THEN [seen[c] EXCEPT !["vault"] = chain["vault"]] ELSE seen[c]
          /\ \A d \in Calls \ {c} : accounts'[d] = accounts[d] /\ seen'[d] = seen[d]
      BY <1>2, <1>3, <2>1, CachedFacts
    <2> QED  BY <1>1, <1>2, <1>3, <1>4, <2>1, <2>2, SameProgram, SameRefund DEF BuilderStep
  <1>5. CASE ~(account.lamports >= VaultRent)
    <2> DEFINE after == [initialized |-> FALSE, lamports |-> VaultRent]
    <2>0. account.lamports \in Nat /\ VaultRent \in Nat  BY <1>3, SetupConstants DEF SetupAccount
    <2>1. after \in SetupAccount  BY <2>0 DEF SetupAccount
    <2>2. Push(c, << fund >>) /\ Cached(c, "vault", after)  BY <1>5 DEF FundVault
    <2>3. VaultRent - account.lamports \in Nat \ {0} /\ account.lamports < VaultRent  BY <1>5, <2>0
    <2>4. fund \in Instructions  BY <2>3 DEF Instructions
    <2> HIDE DEF after
    <2>5. /\ accounts' \in [Calls -> [Accounts -> SetupAccount \cup {Unread}]]
          /\ seen' \in [Calls -> [Accounts -> SetupAccount \cup {Unread}]]
          /\ accounts'[c] = [accounts[c] EXCEPT !["vault"] = after]
          /\ seen'[c] = IF accounts[c]["vault"] = Unread
                        THEN [seen[c] EXCEPT !["vault"] = chain["vault"]] ELSE seen[c]
          /\ \A d \in Calls \ {c} : accounts'[d] = accounts[d] /\ seen'[d] = seen[d]
      BY <1>2, <2>1, <2>2, CachedFacts
    <2>6. /\ program' \in [Calls -> Seq(Instructions)]
          /\ program'[c] = Append(program[c], fund)
          /\ \A d \in Calls \ {c} : program'[d] = program[d]
      BY <2>2, <2>4, PushFacts
    <2> QED  BY <1>1, <1>3, <2>3, <2>4, <2>5, <2>6, SameRefund DEF BuilderStep, after
  <1> QED  BY <1>4, <1>5

\* append, once the setup of an instruction is done: it is kept, and a close
\* of the WSOL account takes the pending refund with it.
LEMMA KeepFacts ==
    ASSUME SetupTypeOK, NEW c \in Calls, KeepInstruction(c), NEW ix, ix = Raw(c),
           NEW back, back = [op |-> "refund", amt |-> refund[c]]
    PROVE  /\ BuilderStep(c) /\ ix \in Instructions /\ ix \in RawInstructions /\ ix.op # "ata"
           /\ Now(c).do = "keep" /\ taken[c] + 1 = Len(StepsFor(ix))
           /\ seen'[c] = seen[c]
           /\ \/ /\ ix.op # "close" /\ refund'[c] = refund[c]
                 /\ program'[c] = Append(program[c], ix) /\ accounts'[c] = accounts[c]
              \/ /\ ix.op = "close" /\ refund'[c] = 0
                 /\ \/ refund[c] = 0 /\ program'[c] = Append(program[c], ix)
                    \/ /\ refund[c] > 0 /\ back \in Instructions
                       /\ program'[c] = Append(Append(program[c], ix), back)
                 /\ accounts'[c] = [accounts[c] EXCEPT !["wsol"] = Absent]
  <1>1. Appending(c) /\ Took(c) /\ Now(c).do = "keep"  BY DEF KeepInstruction, Working
  <1>2. ix \in RawInstructions /\ taken[c] + 1 \in 1..Len(StepsFor(ix))
        /\ Now(c) = StepsFor(ix)[taken[c] + 1]
    BY <1>1, PendingType
  <1>3. ix.op # "ata"
    <2>1. SUFFICES ASSUME ix.op = "ata" PROVE FALSE  OBVIOUS
    <2>2. StepsFor(ix) = << Step("ata", ix.acct) >>  BY <1>2, <2>1, StepsFacts
    <2>3. Len(<< Step("ata", ix.acct) >>) = 1 /\ << Step("ata", ix.acct) >>[1] = Step("ata", ix.acct)
      OBVIOUS
    <2>4. taken[c] + 1 = 1  BY <1>2, <2>2, <2>3, PendingType
    <2>5. Now(c) = Step("ata", ix.acct)  BY <1>2, <2>2, <2>3, <2>4
    <2> QED  BY <1>1, <2>5 DEF Step
  <1>4. taken[c] + 1 = Len(StepsFor(ix))
    <2>1. \A i \in 1..(Len(StepsFor(ix)) - 1) : StepsFor(ix)[i].do # "keep"
      <3>1. \A s \in SetupSteps : s.do # "keep"  BY DEF SetupSteps
      <3> QED  BY <1>2, <1>3, <3>1, StepsFacts
    <2>2. Len(StepsFor(ix)) \in Nat  BY <1>2, StepsFacts
    <2> QED  BY <1>1, <1>2, <2>1, <2>2
  <1>5. ix \in Instructions  BY <1>2, <1>3 DEF Instructions
  <1>6. /\ accounts \in [Calls -> [Accounts -> SetupAccount \cup {Unread}]]
        /\ seen \in [Calls -> [Accounts -> SetupAccount \cup {Unread}]]
        /\ program \in [Calls -> Seq(Instructions)] /\ refund \in [Calls -> 0..TokenRent]
        /\ TokenRent \in Nat /\ program[c] \in Seq(Instructions) /\ refund[c] \in Nat
    BY SetupConstants DEF SetupTypeOK
  <1>7. CASE ix.op # "close"
    <2>1. Push(c, << ix >>) /\ UNCHANGED << refund, accounts, seen >>  BY <1>7 DEF KeepInstruction
    <2>2. /\ program' \in [Calls -> Seq(Instructions)]
          /\ program'[c] = Append(program[c], ix)
          /\ \A d \in Calls \ {c} : program'[d] = program[d]
      BY <1>5, <2>1, PushFacts
    <2> QED  BY <1>1, <1>2, <1>3, <1>4, <1>5, <1>6, <1>7, <2>1, <2>2 DEF BuilderStep
  <1>8. CASE ix.op = "close"
    <2>1. /\ Push(c, << ix >> \o IF refund[c] > 0 THEN << back >> ELSE << >>)
          /\ refund' = [refund EXCEPT ![c] = 0] /\ AfterClose(c)
      BY <1>8 DEF KeepInstruction
    <2>2. /\ accounts' = [accounts EXCEPT ![c]["wsol"] = Absent] /\ seen' = seen
          /\ Absent \in SetupAccount
      BY <2>1 DEF AfterClose, Absent, SetupAccount
    <2>3. /\ accounts' \in [Calls -> [Accounts -> SetupAccount \cup {Unread}]]
          /\ accounts'[c] = [accounts[c] EXCEPT !["wsol"] = Absent]
          /\ \A d \in Calls \ {c} : accounts'[d] = accounts[d]
      BY <1>6, <2>2
    <2>4. /\ refund' \in [Calls -> 0..TokenRent] /\ refund'[c] = 0
          /\ \A d \in Calls \ {c} : refund'[d] = refund[d]
      BY <1>6, <2>1
    <2>5. CASE refund[c] = 0
      <3>1. Push(c, << ix >>)
        <4>1. << ix >> \o << >> = << ix >>  OBVIOUS
        <4>2. ~(refund[c] > 0)  BY <2>5
        <4> QED  BY <2>1, <4>1, <4>2
      <3>2. /\ program' \in [Calls -> Seq(Instructions)]
            /\ program'[c] = Append(program[c], ix)
            /\ \A d \in Calls \ {c} : program'[d] = program[d]
        BY <1>5, <3>1, PushFacts
      <3> QED  BY <1>1, <1>2, <1>3, <1>4, <1>5, <1>6, <1>8, <2>2, <2>3, <2>4, <2>5, <3>2 DEF BuilderStep
    <2>6. CASE refund[c] > 0
      <3>1. back \in Instructions  BY <1>6, <2>6 DEF Instructions
      <3>2. program' = [program EXCEPT ![c] = program[c] \o (<< ix >> \o << back >>)]
        BY <2>1, <2>6 DEF Push
      <3>3. program[c] \o (<< ix >> \o << back >>) = Append(Append(program[c], ix), back)
        BY <1>5, <1>6, <3>1
      <3>4. Append(Append(program[c], ix), back) \in Seq(Instructions)  BY <1>5, <1>6, <3>1
      <3>5. /\ program' \in [Calls -> Seq(Instructions)]
            /\ program'[c] = Append(Append(program[c], ix), back)
            /\ \A d \in Calls \ {c} : program'[d] = program[d]
        BY <1>6, <3>2, <3>3, <3>4
      <3> QED  BY <1>1, <1>2, <1>3, <1>4, <1>5, <1>6, <1>8, <2>2, <2>3, <2>4, <2>6, <3>1, <3>5 DEF BuilderStep
    <2> QED  BY <1>6, <2>5, <2>6
  <1> QED  BY <1>7, <1>8

LEMMA SetupInitType == SetupInit => SetupTypeOK
  <1> SUFFICES ASSUME SetupInit PROVE SetupTypeOK  OBVIOUS
  <1>1. /\ chain \in [Accounts -> SetupAccount] /\ moves \in 0..MaxMoves
    BY SetupAssumption DEF SetupInit
  <1>2. /\ phase \in [Calls -> {"building", "built", "landed", "reverted", "failed"}]
        /\ route \in [Calls -> Routes]
    BY DEF SetupInit
  <1>3. /\ seen \in [Calls -> [Accounts -> SetupAccount \cup {Unread}]]
        /\ accounts \in [Calls -> [Accounts -> SetupAccount \cup {Unread}]]
    BY DEF SetupInit
  <1>4. refund \in [Calls -> 0..TokenRent]  BY SetupConstants DEF SetupInit
  <1>5. program \in [Calls -> Seq(Instructions)]  BY DEF SetupInit
  <1>6. effect \in [Calls -> {NoEffect} \cup [ran : {TRUE}, start : Ledgers, end : Ledgers]]
    BY DEF SetupInit
  <1>7. \A c \in Calls : effect[c].ran <=> phase[c] \in {"landed", "reverted"}
    BY DEF SetupInit, NoEffect
  <1>8. turn \in [Calls -> Nat] /\ taken \in [Calls -> Nat]  BY DEF SetupInit
  <1>9. ASSUME NEW c \in Calls
        PROVE  /\ turn[c] \in 0..Len(route[c])
               /\ taken[c] \in IF turn[c] < Len(route[c])
                               THEN 0..(Len(StepsFor(Raw(c))) - 1) ELSE {0}
    <2>1. route[c] \in Seq(RawInstructions)  BY <1>2, SetupAssumption
    <2>2. turn[c] = 0 /\ taken[c] = 0  BY DEF SetupInit
    <2>3. Len(route[c]) \in Nat  BY <2>1
    <2>4. turn[c] < Len(route[c]) => Raw(c) \in RawInstructions  BY <2>1, <2>2, <2>3 DEF Raw
    <2>5. turn[c] < Len(route[c]) => Len(StepsFor(Raw(c))) \in Nat \ {0}  BY <2>4, StepsFacts
    <2> QED  BY <2>2, <2>3, <2>5
  <1> QED  BY <1>1, <1>2, <1>3, <1>4, <1>5, <1>6, <1>7, <1>8, <1>9 DEF SetupTypeOK

LEMMA BuilderStepType ==
    ASSUME SetupTypeOK, NEW c \in Calls, BuilderStep(c)
    PROVE  SetupTypeOK'
  <1>1. Placed' /\ route' = route  BY TookFacts DEF BuilderStep
  <1>2. UNCHANGED << chain, moves, phase, effect >>  BY DEF BuilderStep, Took
  <1> QED  BY <1>1, <1>2 DEF SetupTypeOK, BuilderStep, Placed

\* The builder's memory and program.
Memory == << route, turn, taken, accounts, seen, refund, program >>

LEMMA SamePlace ==
    ASSUME SetupTypeOK, UNCHANGED Memory
    PROVE  \A c \in Calls :
              /\ turn'[c] \in 0..Len(route'[c])
              /\ taken'[c] \in IF turn'[c] < Len(route'[c])
                               THEN 0..(Len(StepsFor(Raw(c))') - 1) ELSE {0}
  <1> SUFFICES ASSUME NEW c \in Calls
               PROVE  /\ turn'[c] \in 0..Len(route'[c])
                      /\ taken'[c] \in IF turn'[c] < Len(route'[c])
                                       THEN 0..(Len(StepsFor(Raw(c))') - 1) ELSE {0}
    OBVIOUS
  <1>1. Raw(c)' = Raw(c)  BY DEF Raw, Memory
  <1>2. StepsFor(Raw(c))' = StepsFor(Raw(c))
    BY <1>1 DEF StepsFor, PumpSwapSetup, PumpFunSetup, Volume
  <1> QED  BY <1>2 DEF SetupTypeOK, Memory

LEMMA LedgerType ==
    ASSUME NEW world \in [Accounts -> SetupAccount], NEW own \in Nat
    PROVE  Ledger(world, own) \in Ledgers
  BY DEF Ledger, Ledgers

LEMMA SettleFacts ==
    ASSUME NEW l \in Ledgers
    PROVE  /\ Settle(l) \in Ledgers
           /\ Settle(l).ok => Settle(l) = l
           /\ Settle(l).setup = l.setup
           /\ l.ok => Settle(l).ok \/ (Settle(l).dust /\ l.user \in 1..(VaultRent - 1))
  <1> DEFINE dust == [Reverted(l) EXCEPT !.dust = TRUE]
  <1>1. dust \in Ledgers /\ dust.ok = FALSE /\ dust.dust = TRUE /\ dust.setup = l.setup
    BY DEF Reverted, Ledgers
  <1>2. Settle(l) = dust \/ Settle(l) = l  BY DEF Settle
  <1>3. l.ok /\ Settle(l) # l => Settle(l) = dust /\ l.user \in 1..(VaultRent - 1)
    BY DEF Settle
  <1> HIDE DEF dust
  <1> QED  BY <1>1, <1>2, <1>3

\* A transaction runs the program on the chain it meets.
LEMMA RunProgramFacts ==
    ASSUME SetupTypeOK, NEW c \in Calls, RunProgram(c)
    PROVE  \E own \in Wallets :
              LET start == Ledger(chain, own)
                  end == Settle(RunAll(program[c], start))
              IN  /\ start \in Ledgers /\ end \in Ledgers /\ own \in Nat
                  /\ effect'[c] = [ran |-> TRUE, start |-> start, end |-> end]
                  /\ phase'[c] = IF end.ok THEN "landed" ELSE "reverted"
                  /\ chain' = IF end.ok THEN end.at ELSE chain
  <1>1. PICK own \in Wallets :
          LET start == Ledger(chain, own)
              end == Settle(RunAll(program[c], start))
          IN  /\ effect' = [effect EXCEPT ![c] = [ran |-> TRUE, start |-> start, end |-> end]]
              /\ phase' = [phase EXCEPT ![c] = IF end.ok THEN "landed" ELSE "reverted"]
              /\ chain' = IF end.ok THEN end.at ELSE chain
    BY DEF RunProgram
  <1> DEFINE start == Ledger(chain, own)
             end == Settle(RunAll(program[c], start))
  <1>2. start \in Ledgers /\ own \in Nat
    BY SetupConstants, LedgerType DEF SetupTypeOK
  <1>3. end \in Ledgers
    <2>1. program[c] \in Seq(Instructions)  BY DEF SetupTypeOK
    <2>2. RunAll(program[c], start) \in Ledgers
      <3> HIDE DEF start
      <3> QED  BY <1>2, <2>1, RunAllType
    <2> HIDE DEF start
    <2> QED  BY <2>2, SettleFacts
  <1>4. /\ effect' = [effect EXCEPT ![c] = [ran |-> TRUE, start |-> start, end |-> end]]
        /\ phase' = [phase EXCEPT ![c] = IF end.ok THEN "landed" ELSE "reverted"]
        /\ chain' = IF end.ok THEN end.at ELSE chain
    BY <1>1
  <1>5. c \in DOMAIN effect /\ c \in DOMAIN phase  BY DEF SetupTypeOK
  <1>6. /\ effect'[c] = [ran |-> TRUE, start |-> start, end |-> end]
        /\ phase'[c] = IF end.ok THEN "landed" ELSE "reverted"
    <2> HIDE DEF start, end
    <2> QED  BY <1>4, <1>5
  <1> QED  BY <1>2, <1>3, <1>4, <1>6

LEMMA RunProgramType ==
    ASSUME SetupTypeOK, NEW c \in Calls, RunProgram(c)
    PROVE  /\ SetupTypeOK'
           /\ \A d \in Calls \ {c} : effect'[d] = effect[d] /\ phase'[d] = phase[d]
  <1>1. PICK own \in Wallets :
          LET start == Ledger(chain, own)
              end == Settle(RunAll(program[c], start))
          IN  /\ start \in Ledgers /\ end \in Ledgers /\ own \in Nat
              /\ effect'[c] = [ran |-> TRUE, start |-> start, end |-> end]
              /\ phase'[c] = IF end.ok THEN "landed" ELSE "reverted"
              /\ chain' = IF end.ok THEN end.at ELSE chain
    BY RunProgramFacts
  <1>2. PICK start \in Ledgers, end \in Ledgers :
            /\ effect'[c] = [ran |-> TRUE, start |-> start, end |-> end]
            /\ phase'[c] = IF end.ok THEN "landed" ELSE "reverted"
            /\ chain' = IF end.ok THEN end.at ELSE chain
    BY <1>1
  <1>3. chain' \in [Accounts -> SetupAccount]  BY <1>2 DEF SetupTypeOK, Ledgers
  <1>4. /\ UNCHANGED Memory /\ moves' = moves
        /\ \E e : effect' = [effect EXCEPT ![c] = e]
        /\ \E p : phase' = [phase EXCEPT ![c] = p]
    BY DEF RunProgram, Memory
  <1>5. /\ \A d \in Calls \ {c} : effect'[d] = effect[d] /\ phase'[d] = phase[d]
        /\ DOMAIN effect' = Calls /\ DOMAIN phase' = Calls
        /\ effect' = [d \in Calls |-> effect'[d]] /\ phase' = [d \in Calls |-> phase'[d]]
    BY <1>4 DEF SetupTypeOK
  <1>6. effect'[c] \in [ran : {TRUE}, start : Ledgers, end : Ledgers] /\ effect'[c].ran
    BY <1>2
  <1>7. effect' \in [Calls -> {NoEffect} \cup [ran : {TRUE}, start : Ledgers, end : Ledgers]]
    <2>1. \A d \in Calls \ {c} :
            effect[d] \in {NoEffect} \cup [ran : {TRUE}, start : Ledgers, end : Ledgers]
      BY DEF SetupTypeOK
    <2> QED  BY <1>5, <1>6, <2>1
  <1>8. phase' \in [Calls -> {"building", "built", "landed", "reverted", "failed"}]
    <2>1. \A d \in Calls \ {c} : phase[d] \in {"building", "built", "landed", "reverted", "failed"}
      BY DEF SetupTypeOK
    <2>2. phase'[c] \in {"landed", "reverted"}  BY <1>2
    <2> QED  BY <1>5, <2>1, <2>2
  <1>9. \A d \in Calls : effect'[d].ran <=> phase'[d] \in {"landed", "reverted"}
    <2>1. \A d \in Calls \ {c} : effect[d].ran <=> phase[d] \in {"landed", "reverted"}
      BY DEF SetupTypeOK
    <2>2. phase'[c] \in {"landed", "reverted"}  BY <1>2
    <2> QED  BY <1>5, <1>6, <2>1, <2>2
  <1>10. \A d \in Calls :
              /\ turn'[d] \in 0..Len(route'[d])
              /\ taken'[d] \in IF turn'[d] < Len(route'[d])
                               THEN 0..(Len(StepsFor(Raw(d))') - 1) ELSE {0}
    BY <1>4, SamePlace
  <1> QED  BY <1>3, <1>4, <1>5, <1>7, <1>8, <1>9, <1>10 DEF SetupTypeOK, Memory

\* The builder ends, or gives up.
LEMMA EndFacts ==
    ASSUME SetupTypeOK, NEW c \in Calls, Built(c) \/ ReadFails(c)
    PROVE  /\ UNCHANGED Memory /\ UNCHANGED << chain, moves, effect >>
           /\ \A d \in Calls \ {c} : phase'[d] = phase[d]
           /\ phase'[c] \in {"built", "failed"} /\ ~effect[c].ran
           /\ phase'[c] = "built" => turn[c] = Len(route[c])
           /\ phase' \in [Calls -> {"building", "built", "landed", "reverted", "failed"}]
  <1>1. UNCHANGED Memory /\ UNCHANGED << chain, moves, effect >> /\ phase[c] = "building"
    BY DEF Built, ReadFails, Memory, Appending
  <1>2. \/ phase' = [phase EXCEPT ![c] = "built"] /\ turn[c] = Len(route[c])
        \/ phase' = [phase EXCEPT ![c] = "failed"]
    BY DEF Built, ReadFails
  <1>3. ~effect[c].ran  BY <1>1 DEF SetupTypeOK
  <1> QED  BY <1>1, <1>2, <1>3 DEF SetupTypeOK

LEMMA EndType ==
    ASSUME SetupTypeOK, NEW c \in Calls, Built(c) \/ ReadFails(c)
    PROVE  SetupTypeOK'
  <1>1. /\ UNCHANGED Memory /\ UNCHANGED << chain, moves, effect >>
        /\ phase' \in [Calls -> {"building", "built", "landed", "reverted", "failed"}]
    BY EndFacts
  <1>2. \A d \in Calls : effect[d].ran <=> phase'[d] \in {"landed", "reverted"}
    <2>1. ~effect[c].ran /\ phase'[c] \notin {"landed", "reverted"}  BY EndFacts
    <2>2. \A d \in Calls \ {c} : phase'[d] = phase[d]  BY EndFacts
    <2> QED  BY <2>1, <2>2 DEF SetupTypeOK
  <1>3. \A d \in Calls :
              /\ turn'[d] \in 0..Len(route'[d])
              /\ taken'[d] \in IF turn'[d] < Len(route'[d])
                               THEN 0..(Len(StepsFor(Raw(d))') - 1) ELSE {0}
    BY <1>1, SamePlace
  <1> QED  BY <1>1, <1>2, <1>3 DEF SetupTypeOK, Memory

\* Outsiders touch one account of the chain, and leave it with its rent.
LEMMA OutsideFacts ==
    ASSUME SetupTypeOK, NEW a \in Accounts, Donate(a) \/ Open(a) \/ Empty(a)
    PROVE  /\ UNCHANGED Memory /\ UNCHANGED << phase, effect >>
           /\ moves' \in 0..MaxMoves /\ a \in Drifting
           /\ \E after \in SetupAccount :
                /\ chain' = [chain EXCEPT ![a] = after]
                /\ (chain[a].initialized => chain[a].lamports >= TokenRent)
                        => (after.initialized => after.lamports >= TokenRent)
  <1>1. chain[a] \in SetupAccount /\ chain[a].lamports \in Nat  BY DEF SetupTypeOK, SetupAccount
  <1>2. PICK after : Outside(a, after) /\ a \in Drifting
                     /\ \/ after = [chain[a] EXCEPT !.lamports = @ + 1]
                        \/ after = [initialized |-> TRUE,
                                    lamports |-> chain[a].lamports + Monus(TokenRent, chain[a].lamports)]
                        \/ after = Absent
    BY DEF Donate, Open, Empty
  <1>3. UNCHANGED Memory /\ UNCHANGED << phase, effect >>
    BY <1>2 DEF Outside, builder, Memory
  <1>4. moves' \in 0..MaxMoves
    <2>1. moves \in 0..MaxMoves /\ moves < MaxMoves /\ moves' = moves + 1
      BY <1>2 DEF Outside, SetupTypeOK
    <2> QED  BY <2>1, SetupConstants
  <1>5. chain' = [chain EXCEPT ![a] = after]  BY <1>2 DEF Outside
  <1>6. CASE after = [chain[a] EXCEPT !.lamports = @ + 1]
    <2>1. /\ after \in SetupAccount /\ after.initialized = chain[a].initialized
          /\ after.lamports = chain[a].lamports + 1
      BY <1>1, <1>6 DEF SetupAccount
    <2>2. (chain[a].initialized => chain[a].lamports >= TokenRent)
              => (after.initialized => after.lamports >= TokenRent)
      BY <1>1, <2>1, SetupConstants
    <2> QED  BY <1>2, <1>3, <1>4, <1>5, <2>1, <2>2
  <1>7. CASE after = [initialized |-> TRUE,
                      lamports |-> chain[a].lamports + Monus(TokenRent, chain[a].lamports)]
    <2>1. Monus(TokenRent, chain[a].lamports) \in Nat
          /\ chain[a].lamports + Monus(TokenRent, chain[a].lamports) >= TokenRent
      BY <1>1, SetupConstants DEF Monus
    <2>2. after \in SetupAccount /\ after.lamports >= TokenRent
      BY <1>1, <1>7, <2>1 DEF SetupAccount
    <2> QED  BY <1>2, <1>3, <1>4, <1>5, <2>2
  <1>8. CASE after = Absent
    <2>1. after \in SetupAccount /\ ~after.initialized  BY <1>8 DEF SetupAccount, Absent
    <2> QED  BY <1>2, <1>3, <1>4, <1>5, <2>1
  <1> QED  BY <1>2, <1>6, <1>7, <1>8

LEMMA OutsideType ==
    ASSUME SetupTypeOK, NEW a \in Accounts, Donate(a) \/ Open(a) \/ Empty(a)
    PROVE  SetupTypeOK'
  <1>1. /\ UNCHANGED Memory /\ UNCHANGED << phase, effect >> /\ moves' \in 0..MaxMoves
        /\ \E after \in SetupAccount : chain' = [chain EXCEPT ![a] = after]
    BY OutsideFacts
  <1>2. chain' \in [Accounts -> SetupAccount]  BY <1>1 DEF SetupTypeOK
  <1>3. \A d \in Calls :
              /\ turn'[d] \in 0..Len(route'[d])
              /\ taken'[d] \in IF turn'[d] < Len(route'[d])
                               THEN 0..(Len(StepsFor(Raw(d))') - 1) ELSE {0}
    BY <1>1, SamePlace
  <1> QED  BY <1>1, <1>2, <1>3 DEF SetupTypeOK, Memory

LEMMA StillType ==
    ASSUME SetupTypeOK, UNCHANGED setup_vars
    PROVE  SetupTypeOK'
  <1>1. UNCHANGED Memory /\ UNCHANGED << chain, moves, phase, effect >>
    BY DEF setup_vars, builder, Memory
  <1>2. \A d \in Calls :
              /\ turn'[d] \in 0..Len(route'[d])
              /\ taken'[d] \in IF turn'[d] < Len(route'[d])
                               THEN 0..(Len(StepsFor(Raw(d))') - 1) ELSE {0}
    BY <1>1, SamePlace
  <1> QED  BY <1>1, <1>2 DEF SetupTypeOK, Memory

BuilderActs(c) == CreateAta(c) \/ InitVolume(c) \/ FundVault(c) \/ KeepInstruction(c)

LEMMA BuilderActsStep ==
    ASSUME SetupTypeOK, NEW c \in Calls, BuilderActs(c)
    PROVE  BuilderStep(c)
  <1>1. CreateAta(c) => BuilderStep(c)  BY CreateAtaFacts
  <1>2. InitVolume(c) => BuilderStep(c)  BY InitVolumeFacts
  <1>3. FundVault(c) => BuilderStep(c)  BY FundVaultFacts
  <1>4. KeepInstruction(c) => BuilderStep(c)  BY KeepFacts
  <1> QED  BY <1>1, <1>2, <1>3, <1>4 DEF BuilderActs

LEMMA SetupNextType ==
    ASSUME SetupTypeOK, [SetupNext]_setup_vars
    PROVE  SetupTypeOK'
  <1>1. ASSUME NEW c \in Calls, BuilderActs(c) PROVE SetupTypeOK'
    BY <1>1, BuilderActsStep, BuilderStepType
  <1>2. ASSUME NEW c \in Calls, Built(c) \/ ReadFails(c) PROVE SetupTypeOK'  BY <1>2, EndType
  <1>3. ASSUME NEW c \in Calls, RunProgram(c) PROVE SetupTypeOK'  BY <1>3, RunProgramType
  <1>4. ASSUME NEW a \in Accounts, Donate(a) \/ Open(a) \/ Empty(a) PROVE SetupTypeOK'
    BY <1>4, OutsideType
  <1>5. ASSUME UNCHANGED setup_vars PROVE SetupTypeOK'  BY <1>5, StillType
  <1> QED  BY <1>1, <1>2, <1>3, <1>4, <1>5 DEF SetupNext, BuilderActs

\* The builder's bookkeeping stays within its types whatever the routes, the
\* chain and the outsiders' moves: a refund never exceeds a rent, no wallet or
\* account goes below zero, and only a built program has an effect.
THEOREM SetupTypes == SetupSpec => []SetupTypeOK
  <1>1. SetupInit => SetupTypeOK  BY SetupInitType
  <1>2. SetupTypeOK /\ [SetupNext]_setup_vars => SetupTypeOK'  BY SetupNextType
  <1> QED  BY <1>1, <1>2, PTL DEF SetupSpec

-----------------------------------------------------------------------------
(* What a route brings the user, and what its program has earned. *)

PurseSet == [open : BOOLEAN, sol : Int, wsol : Int]
NoPurse == [open |-> FALSE, sol |-> 0, wsol |-> 0]

LEMMA SpendFacts ==
    ASSUME NEW p \in PurseSet, NEW ix \in RawInstructions
    PROVE  /\ Spend(p, ix) \in PurseSet
           /\ ix.op = "ata" => Spend(p, ix) = [p EXCEPT !.open = @ \/ ix.acct = "wsol"]
           /\ ix.op = "wrap" =>
                Spend(p, ix) = [p EXCEPT !.sol = @ - ix.amt, !.wsol = @ + ix.amt]
           /\ ix.op = "close" =>
                Spend(p, ix) = [open |-> FALSE, sol |-> p.sol + p.wsol, wsol |-> 0]
           /\ ix.op \in {"pumpswap", "pumpfun"} =>
                Spend(p, ix) = [p EXCEPT !.sol = @ + ix.sol, !.wsol = @ + ix.wsol]
  <1>0. p.sol \in Int /\ p.wsol \in Int  BY DEF PurseSet
  <1>6. \A s \in Int, w \in Int : [p EXCEPT !.sol = s, !.wsol = w] \in PurseSet
    BY DEF PurseSet
  <1>1. ix.op \in {"ata", "wrap", "close", "pumpswap", "pumpfun"}
    BY DEF RawInstructions, Swaps
  <1>2. CASE ix.op = "ata"  BY <1>2 DEF Spend, PurseSet
  <1>3. CASE ix.op = "wrap"
    <2>1. ix.amt \in Nat  BY <1>3 DEF RawInstructions, Swaps
    <2>2. Spend(p, ix) = [p EXCEPT !.sol = @ - ix.amt, !.wsol = @ + ix.amt]  BY <1>3 DEF Spend
    <2>3. p.sol - ix.amt \in Int /\ p.wsol + ix.amt \in Int  BY <1>0, <2>1
    <2>4. [p EXCEPT !.sol = @ - ix.amt, !.wsol = @ + ix.amt] \in PurseSet  BY <1>6, <2>3, Zenon
    <2> QED  BY <1>3, <2>2, <2>4
  <1>4. CASE ix.op = "close"  BY <1>4 DEF Spend, PurseSet
  <1>5. CASE ix.op \in {"pumpswap", "pumpfun"}
    <2>1. ix.sol \in Int /\ ix.wsol \in Int  BY <1>5 DEF RawInstructions, Swaps
    <2>2. Spend(p, ix) = [p EXCEPT !.sol = @ + ix.sol, !.wsol = @ + ix.wsol]  BY <1>5 DEF Spend
    <2>3. p.sol + ix.sol \in Int /\ p.wsol + ix.wsol \in Int  BY <1>0, <2>1
    <2>4. [p EXCEPT !.sol = @ + ix.sol, !.wsol = @ + ix.wsol] \in PurseSet  BY <1>6, <2>3, Zenon
    <2> QED  BY <1>5, <2>2, <2>4
  <1> QED  BY <1>1, <1>2, <1>3, <1>4, <1>5

LEMMA PurseSteps ==
    ASSUME NEW r \in Seq(RawInstructions)
    PROVE  /\ Purses(r)[0] = NoPurse
           /\ \A n \in 1..Len(r) : Purses(r)[n] = Spend(Purses(r)[n - 1], r[n])
           /\ \A n \in 0..Len(r) : Purses(r)[n] \in PurseSet
  <1> DEFINE step == [n \in 1..Len(r) |-> [p \in PurseSet |-> Spend(p, r[n])]]
             Equation(f) == f = [n \in 0..Len(r) |->
                                    IF n = 0 THEN NoPurse ELSE Spend(f[n - 1], r[n])]
             purses == Purses(r)
  <1>0. /\ Len(r) \in Nat /\ NoPurse \in PurseSet
        /\ \A n \in 1..Len(r) : r[n] \in RawInstructions
    BY DEF NoPurse, PurseSet
  <1>1. \E f : f \in [0..Len(r) -> PurseSet] /\ Equation(f)
    <2>1. step \in [1..Len(r) -> [PurseSet -> PurseSet]]
      <3>1. \A n \in 1..Len(r), p \in PurseSet : Spend(p, r[n]) \in PurseSet
        BY <1>0, SpendFacts
      <3> QED  BY <3>1
    <2>2. PICK f : Follows(f, Len(r), PurseSet, NoPurse, step)
      <3> HIDE DEF step
      <3> QED  BY <1>0, <2>1, Recursion
    <2>3. f \in [0..Len(r) -> PurseSet] /\ f[0] = NoPurse
      BY <2>2 DEF Follows
    <2>4. \A n \in 1..Len(r) : f[n] = Spend(f[n - 1], r[n])
      <3>1. \A n \in 1..Len(r) : f[n - 1] \in PurseSet
        <4>1. \A n \in 1..Len(r) : n - 1 \in 0..Len(r)  BY <1>0
        <4> HIDE DEF step
        <4> QED  BY <2>3, <4>1
      <3> QED  BY <2>2, <3>1 DEF Follows
    <2>5. Equation(f)  BY <2>3, <2>4
    <2> QED  BY <2>3, <2>5
  <1>2. Equation(purses)
    <2>1. purses = CHOOSE f : Equation(f)  BY DEF Purses, NoPurse
    <2> HIDE DEF Equation, purses
    <2> QED  BY <1>1, <2>1
  <1>4. purses[0] = NoPurse /\ \A n \in 1..Len(r) : purses[n] = Spend(purses[n - 1], r[n])
    <2> HIDE DEF purses
    <2> QED  BY <1>0, <1>2
  <1>5. 0..Len(r) \subseteq {n \in 0..Len(r) : purses[n] \in PurseSet}
    <2> DEFINE S == {n \in 0..Len(r) : purses[n] \in PurseSet}
    <2> HIDE DEF purses
    <2>1. 0 \in S  BY <1>0, <1>4
    <2>2. \A n \in 1..Len(r) : n - 1 \in S => n \in S
      <3>1. ASSUME NEW n \in 1..Len(r), purses[n - 1] \in PurseSet
            PROVE  purses[n] \in PurseSet
        <4>1. Spend(purses[n - 1], r[n]) \in PurseSet  BY <1>0, <3>1, SpendFacts
        <4> QED  BY <1>4, <4>1
      <3> QED  BY <1>0, <3>1
    <2> HIDE DEF S
    <2>3. 0..Len(r) \subseteq S  BY <1>0, <2>1, <2>2, InductionTo
    <2> QED  BY <2>3 DEF S
  <1> QED  BY <1>4, <1>5

LEMMA PaysType ==
    ASSUME NEW ix \in Instructions
    PROVE  Pays(ix) \in Int
  <1>1. ix.op \in {"pumpswap", "pumpfun"} => ix.sol \in Int /\ ix.wsol \in Int
    BY DEF Instructions, RawInstructions, Swaps
  <1> QED  BY <1>1 DEF Pays

LEMMA EarnedEmpty == Earned(<< >>) = 0
  <1>1. [i \in 1..Len(<< >>) |-> Pays(<< >>[i])] = << >>  OBVIOUS
  <1> QED  BY <1>1, SumEmpty DEF Earned

LEMMA EarnedAppend ==
    ASSUME NEW prog \in Seq(Instructions), NEW ix \in Instructions
    PROVE  /\ Earned(prog) \in Int
           /\ Earned(Append(prog, ix)) = Earned(prog) + Pays(ix)
  <1> DEFINE paid == [i \in 1..Len(prog) |-> Pays(prog[i])]
             longer == Append(prog, ix)
             all == [i \in 1..Len(longer) |-> Pays(longer[i])]
  <1>1. /\ Len(prog) \in Nat /\ Len(longer) = Len(prog) + 1 /\ longer[Len(prog) + 1] = ix
        /\ \A i \in 1..Len(prog) : longer[i] = prog[i] /\ prog[i] \in Instructions
    OBVIOUS
  <1>2. Pays(ix) \in Int /\ \A i \in 1..Len(prog) : Pays(prog[i]) \in Int
    BY <1>1, PaysType
  <1>3. paid \in Seq(Int) /\ Len(paid) = Len(prog)
    <2>1. paid \in [1..Len(prog) -> Int]  BY <1>2
    <2> QED  BY <1>1, <2>1
  <1>4. all = Append(paid, Pays(ix))
    <2> HIDE DEF longer
    <2>1. \A i \in 1..(Len(prog) + 1) :
            all[i] = IF i = Len(prog) + 1 THEN Pays(ix) ELSE paid[i]
      BY <1>1
    <2>2. all \in Seq(Int) /\ Len(all) = Len(prog) + 1
      <3>1. all \in [1..(Len(prog) + 1) -> Int]  BY <1>1, <1>2, <2>1
      <3> QED  BY <1>1, <3>1
    <2> HIDE DEF all, paid
    <2>3. /\ Append(paid, Pays(ix)) \in Seq(Int)
          /\ Len(Append(paid, Pays(ix))) = Len(prog) + 1
          /\ \A i \in 1..(Len(prog) + 1) : Append(paid, Pays(ix))[i] = all[i]
      BY <1>1, <1>2, <1>3, <2>1
    <2> DEFINE longest == Append(paid, Pays(ix))
    <2> HIDE DEF longest
    <2>4. longest \in Seq(Int) /\ Len(longest) = Len(all)
          /\ \A i \in 1..Len(all) : longest[i] = all[i]
      BY <2>2, <2>3 DEF longest
    <2> QED  BY <2>2, <2>4 DEF longest
  <1>5. SumOf(Append(paid, Pays(ix))) = SumOf(paid) + Pays(ix) /\ SumOf(paid) \in Int
    <2> HIDE DEF paid
    <2> QED  BY <1>2, <1>3, SumAppend, SumType
  <1>6. Earned(prog) = SumOf(paid) /\ Earned(longer) = SumOf(all)  BY DEF Earned
  <1> HIDE DEF longer, all, paid
  <1>7. Earned(longer) = Earned(prog) + Pays(ix)  BY <1>4, <1>5, <1>6
  <1>8. Earned(prog) \in Int  BY <1>5, <1>6
  <1> QED  BY <1>7, <1>8 DEF longer

-----------------------------------------------------------------------------
(* The inductive invariant: what the builder remembers, what the program so *)
(* far does with the user's money, and what it finds on an unchanged chain. *)

Rented(account) == account.initialized => account.lamports >= TokenRent

\* An account is remembered once it is read, and the WSOL account is known to
\* be open, or closed by the program itself.
Remembered(c) ==
    /\ \A a \in Accounts : accounts[c][a] = Unread => seen[c][a] = Unread
    /\ accounts[c]["wsol"].initialized \/ accounts[c]["wsol"] \in {Unread, Absent}

\* A refund is pending only while the route has the account open, which it
\* will close.
PurseStory(c) ==
    LET purse == Purses(route[c])[turn[c]]
    IN  /\ refund[c] > 0 =>
            /\ purse.open
            /\ \E j \in (turn[c] + 1)..Len(route[c]) : route[c][j].op = "close"
        /\ purse.open => accounts[c]["wsol"].initialized
        /\ ~purse.open => purse.wsol = 0

\* The steps taken have opened their accounts.
Opened(c) ==
    /\ \A j \in 1..turn[c] :
        route[c][j].op = "ata" /\ route[c][j].acct # "wsol" =>
            accounts[c][route[c][j].acct].initialized
    /\ \A i \in 1..taken[c] :
        /\ StepsFor(Raw(c))[i].do \in {"ata", "volume"} =>
                accounts[c][StepsFor(Raw(c))[i].acct].initialized
        /\ StepsFor(Raw(c))[i].do = "vault" => accounts[c]["vault"].lamports >= VaultRent

\* The deposit and the refunds of a program, whatever it runs on: read is what
\* the RPC said of the WSOL account, wsol of the cache, due the pending refund.
Money(prog, read, wsol, due) ==
    \A world \in [Accounts -> SetupAccount], own \in Nat :
        LET l == RunAll(prog, Ledger(world, own))
        IN  l.ok =>
            /\ Balance(l) = own + world["wsol"].lamports + Earned(prog)
            /\ l.deposit + Late(world["wsol"], read) >= l.refund + due
            /\ world["wsol"] = read => l.deposit = l.refund + due
            /\ wsol = Unread =>
                /\ l.deposit = 0 /\ l.refund = 0
                /\ l.at["wsol"].initialized = world["wsol"].initialized
                /\ ~world["wsol"].initialized => l.at["wsol"] = world["wsol"]
            /\ wsol = Absent => l.at["wsol"] = Absent

MoneyStory(c) == Money(program[c], seen[c]["wsol"], accounts[c]["wsol"], refund[c])

\* A chain the program may meet with nothing read changed.
FreshWorlds(read) ==
    {world \in [Accounts -> SetupAccount] :
        /\ \A a \in Accounts : read[a] # Unread => world[a] = read[a]
        /\ Rented(world["wsol"])
        /\ \A a \in Held : world[a].initialized}

\* What a program leaves there is what is known, and what the purse says
\* comes on top of the user's own.
Leaves(l, world, own, known, purse) ==
    /\ l.ok /\ l.setup = 0 /\ l.user >= own + purse.sol
    /\ purse.open => /\ l.at["wsol"].initialized
                     /\ l.at["wsol"].lamports >= TokenRent + purse.wsol
    /\ \A a \in Accounts \ {"vault"} :
        /\ known[a] = Unread => l.at[a] = world[a]
        /\ known[a] # Unread => l.at[a].initialized = known[a].initialized
    /\ known["vault"] = Unread => l.at["vault"] = world["vault"]
    /\ l.at["vault"].lamports >= known["vault"].lamports

Lands(prog, read, known, purse) ==
    \A world \in FreshWorlds(read), own \in Nat :
        Leaves(RunAll(prog, Ledger(world, own)), world, own, known, purse)

FreshStory(c) == Lands(program[c], seen[c], accounts[c], Purses(route[c])[turn[c]])

ChainStory(world) == Rented(world["wsol"]) /\ \A a \in Held : world[a].initialized

\* An effect is that of the whole program on the chain it met.
EffectStory(c) ==
    /\ phase[c] \in {"built", "landed", "reverted"} => turn[c] = Len(route[c])
    /\ Ran(c) =>
        /\ ChainStory(Start(c).at)
        /\ \E own \in Wallets : Start(c) = Ledger(Start(c).at, own)
        /\ End(c) = Settle(RunAll(program[c], Start(c)))

BuilderStory(c) ==
    Remembered(c) /\ PurseStory(c) /\ Opened(c) /\ MoneyStory(c) /\ FreshStory(c)

SetupInv ==
    SetupTypeOK /\ ChainStory(chain) /\ \A c \in Calls : BuilderStory(c) /\ EffectStory(c)

-----------------------------------------------------------------------------
(* The user's money: Money as a program grows. *)

SetupCache == SetupAccount \cup {Unread}

LEMMA NotUnread == Unread \notin SetupAccount /\ Absent \in SetupAccount /\ Unread # Absent
                   /\ ~Unread.initialized /\ ~Absent.initialized
  <1>1. \A r \in SetupAccount : r.lamports \in Nat  BY DEF SetupAccount
  <1>2. Unread.lamports = -1 /\ Absent.lamports = 0  BY DEF Unread, Absent
  <1> QED  BY <1>1, <1>2 DEF Unread, Absent, SetupAccount

LEMMA RentedType ==
    ASSUME NEW world \in [Accounts -> SetupAccount]
    PROVE  world["wsol"] \in SetupAccount /\ world["wsol"].lamports \in Nat
           /\ world["wsol"].initialized \in BOOLEAN
  BY DEF Accounts, UserAccounts, SetupAccount

LEMMA MonusNat ==
    ASSUME NEW a \in Nat, NEW b \in Nat
    PROVE  Monus(a, b) \in Nat
  BY DEF Monus

\* The ledgers of a program and of the program with one instruction more.
LEMMA RunOneMore ==
    ASSUME NEW prog \in Seq(Instructions), NEW ix \in Instructions,
           NEW world \in [Accounts -> SetupAccount], NEW own \in Nat,
           NEW l, l = RunAll(prog, Ledger(world, own)),
           NEW m, m = RunAll(Append(prog, ix), Ledger(world, own))
    PROVE  l \in Ledgers /\ m \in Ledgers /\ m = Run(l, ix) /\ RunsTo(l, m, ix)
  <1>1. Ledger(world, own) \in Ledgers  BY LedgerType
  <1> DEFINE start == Ledger(world, own)
  <1> HIDE DEF start
  <1>2. start \in Ledgers /\ l = RunAll(prog, start) /\ m = RunAll(Append(prog, ix), start)
    BY <1>1 DEF start
  <1>3. l \in Ledgers /\ m = Run(l, ix)  BY <1>2, RunAllType, RunAllAppend
  <1>4. RunsTo(l, Run(l, ix), ix)  BY <1>3, RunFacts
  <1> QED  BY <1>3, <1>4 DEF RunsTo

LEMMA MoneyStart == Money(<< >>, Unread, Unread, 0)
  <1> SUFFICES ASSUME NEW world \in [Accounts -> SetupAccount], NEW own \in Nat
               PROVE  LET l == RunAll(<< >>, Ledger(world, own))
                      IN  /\ Balance(l) = own + world["wsol"].lamports + Earned(<< >>)
                          /\ l.deposit = 0 /\ l.refund = 0 /\ l.at = world
                          /\ Late(world["wsol"], Unread) \in Nat
    <2>1. Unread # Absent  BY NotUnread
    <2> QED  BY <2>1 DEF Money
  <1>1. world["wsol"].lamports \in Nat  BY RentedType
  <1>2. Ledger(world, own) \in Ledgers  BY LedgerType
  <1>3. RunAll(<< >>, Ledger(world, own)) = Ledger(world, own)
    <2> DEFINE start == Ledger(world, own)
    <2> HIDE DEF start
    <2>1. start \in Ledgers  BY <1>2 DEF start
    <2>2. RunAll(<< >>, start) = start  BY <2>1, RunAllEmpty
    <2> QED  BY <2>2 DEF start
  <1>4. Balance(Ledger(world, own)) = own + world["wsol"].lamports
    BY <1>1 DEF Balance, Ledger
  <1>5. Late(world["wsol"], Unread) \in Nat
    <2>1. Unread.lamports = -1 /\ -1 \in Int  BY DEF Unread
    <2>2. Monus(world["wsol"].lamports, -1) \in Nat  BY <1>1, <2>1, MonusFacts
    <2> QED  BY <2>1, <2>2 DEF Late
  <1> QED  BY <1>1, <1>3, <1>4, <1>5, EarnedEmpty DEF Ledger

\* Instructions that leave the deposit, the refund and the WSOL account's
\* being there as they are.
Quiet(ix) == ~OpensWsol(ix) /\ ix.op \notin {"close", "refund"}

LEMMA MoneyQuiet ==
    ASSUME NEW prog \in Seq(Instructions), NEW ix \in Instructions, Quiet(ix),
           NEW read \in SetupCache, NEW wsol \in SetupCache, NEW due \in Nat,
           Money(prog, read, wsol, due)
    PROVE  Money(Append(prog, ix), read, wsol, due)
  <1> SUFFICES ASSUME NEW world \in [Accounts -> SetupAccount], NEW own \in Nat,
                      NEW m, m = RunAll(Append(prog, ix), Ledger(world, own)), m.ok
               PROVE  /\ Balance(m) = own + world["wsol"].lamports + Earned(Append(prog, ix))
                      /\ m.deposit + Late(world["wsol"], read) >= m.refund + due
                      /\ world["wsol"] = read => m.deposit = m.refund + due
                      /\ wsol = Unread =>
                          /\ m.deposit = 0 /\ m.refund = 0
                          /\ m.at["wsol"].initialized = world["wsol"].initialized
                          /\ ~world["wsol"].initialized => m.at["wsol"] = world["wsol"]
                      /\ wsol = Absent => m.at["wsol"] = Absent
    BY DEF Money
  <1>1. PICK l : l = RunAll(prog, Ledger(world, own))  OBVIOUS
  <1>2. l \in Ledgers /\ m \in Ledgers /\ RunsTo(l, m, ix)  BY <1>1, RunOneMore
  <1>3. l.ok /\ m.deposit = l.deposit /\ m.refund = l.refund
        /\ m.at["wsol"].initialized = l.at["wsol"].initialized
        /\ (~l.at["wsol"].initialized => m.at["wsol"] = l.at["wsol"])
        /\ Balance(m) = Balance(l) + Pays(ix)
    BY <1>2 DEF RunsTo, Quiet
  <1>4. /\ Balance(l) = own + world["wsol"].lamports + Earned(prog)
        /\ l.deposit + Late(world["wsol"], read) >= l.refund + due
        /\ world["wsol"] = read => l.deposit = l.refund + due
        /\ wsol = Unread =>
            /\ l.deposit = 0 /\ l.refund = 0
            /\ l.at["wsol"].initialized = world["wsol"].initialized
            /\ ~world["wsol"].initialized => l.at["wsol"] = world["wsol"]
        /\ wsol = Absent => l.at["wsol"] = Absent
    BY <1>1, <1>3 DEF Money
  <1>5. Balance(m) = own + world["wsol"].lamports + Earned(Append(prog, ix))
    <2>1. Earned(Append(prog, ix)) = Earned(prog) + Pays(ix) /\ Earned(prog) \in Int
          /\ Pays(ix) \in Int
      BY EarnedAppend, PaysType
    <2>2. world["wsol"].lamports \in Nat  BY RentedType
    <2> QED  BY <1>3, <1>4, <2>1, <2>2
  <1>6. wsol = Absent => m.at["wsol"] = Absent
    BY <1>3, <1>4, NotUnread
  <1>7. wsol = Unread /\ ~world["wsol"].initialized => m.at["wsol"] = world["wsol"]
    <2>1. l.at["wsol"] \in SetupAccount /\ world["wsol"] \in SetupAccount
      BY <1>2, LedgerFields, RentedType, AccountNames
    <2> QED  BY <1>3, <1>4, <2>1
  <1> QED  BY <1>3, <1>4, <1>5, <1>6, <1>7

\* create_ata for the WSOL account, strict: the deposit is what the bare
\* address then lacks, the pending refund what it lacked when it was read.
LEMMA MoneyOpen ==
    ASSUME NEW prog \in Seq(Instructions), NEW read \in SetupCache,
           NEW wsol \in {Unread, Absent}, Money(prog, read, wsol, 0),
           NEW account \in SetupAccount, ~account.initialized,
           wsol = Absent => account = Absent, NEW after \in SetupAccount, after.initialized = TRUE,
           NEW fresh, fresh = IF wsol = Unread THEN account ELSE read
    PROVE  Money(Append(prog, Ata("wsol", TRUE)), fresh, after, Monus(TokenRent, account.lamports))
  <1> DEFINE ix == Ata("wsol", TRUE)
             due == Monus(TokenRent, account.lamports)
  <1>1. ix \in Instructions /\ ix.op = "ata" /\ OpensWsol(ix) /\ ix.strict /\ Pays(ix) = 0
    BY AccountNames DEF Ata, Instructions, OpensWsol, Pays
  <1>2. after # Unread /\ after # Absent  BY NotUnread
  <1> SUFFICES Money(Append(prog, ix), fresh, after, due)  OBVIOUS
  <1> HIDE DEF ix, due
  <1> SUFFICES ASSUME NEW world \in [Accounts -> SetupAccount], NEW own \in Nat,
                      NEW m, m = RunAll(Append(prog, ix), Ledger(world, own)), m.ok
               PROVE  /\ Balance(m) = own + world["wsol"].lamports + Earned(Append(prog, ix))
                      /\ m.deposit + Late(world["wsol"], fresh) >= m.refund + due
                      /\ world["wsol"] = fresh => m.deposit = m.refund + due
    BY <1>2 DEF Money
  <1>3. PICK l : l = RunAll(prog, Ledger(world, own))  OBVIOUS
  <1>4. l \in Ledgers /\ m = Run(l, ix) /\ RunsTo(l, m, ix)  BY <1>1, <1>3, RunOneMore
  <1>5. l.ok /\ m.refund = l.refund /\ Balance(m) = Balance(l) + Pays(ix)
    BY <1>1, <1>4 DEF RunsTo
  <1>6. m = RunAta(l, ix)  BY <1>1, <1>4, <1>5 DEF Run
  <1>7. /\ ~l.at["wsol"].initialized
        /\ m.deposit = l.deposit + Monus(TokenRent, l.at["wsol"].lamports)
    BY <1>1, <1>4, <1>5, <1>6, AtaFacts
  <1>8. /\ Balance(l) = own + world["wsol"].lamports + Earned(prog)
        /\ l.deposit + Late(world["wsol"], read) >= l.refund + 0
        /\ world["wsol"] = read => l.deposit = l.refund + 0
        /\ wsol = Unread =>
            /\ l.deposit = 0 /\ l.refund = 0
            /\ l.at["wsol"].initialized = world["wsol"].initialized
            /\ ~world["wsol"].initialized => l.at["wsol"] = world["wsol"]
        /\ wsol = Absent => l.at["wsol"] = Absent
    BY <1>3, <1>5 DEF Money
  <1>9. Balance(m) = own + world["wsol"].lamports + Earned(Append(prog, ix))
    <2>1. Earned(Append(prog, ix)) = Earned(prog) + Pays(ix) /\ Earned(prog) \in Int
      BY <1>1, EarnedAppend
    <2>2. world["wsol"].lamports \in Nat  BY RentedType
    <2> QED  BY <1>1, <1>5, <1>8, <2>1, <2>2
  <1>10. /\ l.deposit \in Nat /\ l.refund \in Nat /\ TokenRent \in Nat
         /\ account.lamports \in Nat /\ world["wsol"].lamports \in Nat
    BY <1>4, LedgerFields, SetupConstants, RentedType DEF SetupAccount
  <1>11. CASE wsol = Absent
    <2>1. account.lamports = 0 /\ l.at["wsol"].lamports = 0 /\ fresh = read
      BY <1>8, <1>11, NotUnread DEF Absent
    <2>2. due = TokenRent /\ m.deposit = l.deposit + TokenRent
      BY <1>7, <1>10, <2>1 DEF due, Monus
    <2>3. Late(world["wsol"], read) \in Int
      <3>1. read.lamports \in Int  BY DEF SetupCache, SetupAccount, Unread
      <3>2. Monus(world["wsol"].lamports, read.lamports) \in Nat  BY <1>10, <3>1, MonusFacts
      <3> QED  BY <3>2 DEF Late
    <2> QED  BY <1>5, <1>8, <1>9, <1>10, <2>1, <2>2, <2>3
  <1>12. CASE wsol = Unread
    <2>1. fresh = account /\ ~world["wsol"].initialized /\ l.at["wsol"] = world["wsol"]
      BY <1>7, <1>8, <1>12
    <2>2. m.deposit = Monus(TokenRent, world["wsol"].lamports) /\ m.refund = 0
      <3>1. Monus(TokenRent, world["wsol"].lamports) \in Nat  BY <1>10, MonusNat
      <3> QED  BY <1>5, <1>7, <1>8, <1>12, <2>1, <3>1
    <2>3. Late(world["wsol"], fresh) = Monus(world["wsol"].lamports, account.lamports)
      BY <2>1 DEF Late
    <2>4. m.deposit + Late(world["wsol"], fresh) >= due
      BY <1>10, <2>2, <2>3 DEF due, Monus
    <2>5. world["wsol"] = fresh => m.deposit = due
      BY <2>1, <2>2 DEF due
    <2>6. due \in Nat  BY <1>10 DEF due, Monus
    <2>7. m.deposit + Late(world["wsol"], fresh) >= m.refund + due
      BY <2>2, <2>4, <2>6
    <2>8. world["wsol"] = fresh => m.deposit = m.refund + due
      BY <2>2, <2>5, <2>6
    <2> QED  BY <1>9, <2>7, <2>8
  <1> QED  BY <1>11, <1>12

\* The WSOL account is read, and is open.
LEMMA MoneyRead ==
    ASSUME NEW prog \in Seq(Instructions), Money(prog, Unread, Unread, 0),
           NEW account \in SetupAccount, account.initialized
    PROVE  Money(prog, account, account, 0)
  <1>1. account # Unread /\ account # Absent  BY NotUnread
  <1> SUFFICES ASSUME NEW world \in [Accounts -> SetupAccount], NEW own \in Nat,
                      NEW l, l = RunAll(prog, Ledger(world, own)), l.ok
               PROVE  /\ Balance(l) = own + world["wsol"].lamports + Earned(prog)
                      /\ l.deposit + Late(world["wsol"], account) >= l.refund + 0
                      /\ l.deposit = l.refund + 0
    BY <1>1 DEF Money
  <1>2. /\ Balance(l) = own + world["wsol"].lamports + Earned(prog)
        /\ l.deposit = 0 /\ l.refund = 0
    BY DEF Money
  <1>3. Late(world["wsol"], account) \in Nat
    <2>1. account.lamports \in Nat /\ world["wsol"].lamports \in Nat
      BY RentedType DEF SetupAccount
    <2>2. Monus(world["wsol"].lamports, account.lamports) \in Nat  BY <2>1, MonusNat
    <2> QED  BY <2>2 DEF Late
  <1> QED  BY <1>2, <1>3

\* CloseAccount, and the refund that goes with it.
LEMMA MoneyClose ==
    ASSUME NEW prog \in Seq(Instructions), NEW ix \in Instructions, ix.op = "close",
           NEW read \in SetupCache, NEW wsol \in SetupCache, NEW due \in Nat,
           Money(prog, read, wsol, due)
    PROVE  Money(Append(prog, ix), read, Absent, due)
  <1>1. Absent # Unread /\ Pays(ix) = 0 /\ ~OpensWsol(ix)  BY NotUnread DEF Pays, OpensWsol
  <1> SUFFICES ASSUME NEW world \in [Accounts -> SetupAccount], NEW own \in Nat,
                      NEW m, m = RunAll(Append(prog, ix), Ledger(world, own)), m.ok
               PROVE  /\ Balance(m) = own + world["wsol"].lamports + Earned(Append(prog, ix))
                      /\ m.deposit + Late(world["wsol"], read) >= m.refund + due
                      /\ world["wsol"] = read => m.deposit = m.refund + due
                      /\ m.at["wsol"] = Absent
    BY <1>1 DEF Money
  <1>2. PICK l : l = RunAll(prog, Ledger(world, own))  OBVIOUS
  <1>3. l \in Ledgers /\ m = Run(l, ix) /\ RunsTo(l, m, ix)  BY <1>2, RunOneMore
  <1>4. /\ l.ok /\ m.refund = l.refund /\ m.deposit = l.deposit
        /\ Balance(m) = Balance(l) + Pays(ix)
    BY <1>1, <1>3 DEF RunsTo
  <1>5. m = RunClose(l)  BY <1>3, <1>4 DEF Run
  <1>6. m.at["wsol"] = Absent  BY <1>3, <1>4, <1>5, CloseFacts
  <1>7. /\ Balance(l) = own + world["wsol"].lamports + Earned(prog)
        /\ l.deposit + Late(world["wsol"], read) >= l.refund + due
        /\ world["wsol"] = read => l.deposit = l.refund + due
    BY <1>2, <1>4 DEF Money
  <1>8. Balance(m) = own + world["wsol"].lamports + Earned(Append(prog, ix))
    <2>1. Earned(Append(prog, ix)) = Earned(prog) + Pays(ix) /\ Earned(prog) \in Int
      BY EarnedAppend
    <2>2. world["wsol"].lamports \in Nat  BY RentedType
    <2> QED  BY <1>1, <1>4, <1>7, <2>1, <2>2
  <1> QED  BY <1>4, <1>6, <1>7, <1>8

LEMMA MoneyBack ==
    ASSUME NEW prog \in Seq(Instructions), NEW due \in Nat,
           NEW back \in Instructions, back = [op |-> "refund", amt |-> due],
           NEW read \in SetupCache, Money(prog, read, Absent, due)
    PROVE  Money(Append(prog, back), read, Absent, 0)
  <1>1. Absent # Unread /\ Pays(back) = 0 /\ ~OpensWsol(back) /\ back.op = "refund"
        /\ back.amt = due
    BY NotUnread DEF Pays, OpensWsol
  <1> SUFFICES ASSUME NEW world \in [Accounts -> SetupAccount], NEW own \in Nat,
                      NEW m, m = RunAll(Append(prog, back), Ledger(world, own)), m.ok
               PROVE  /\ Balance(m) = own + world["wsol"].lamports + Earned(Append(prog, back))
                      /\ m.deposit + Late(world["wsol"], read) >= m.refund + 0
                      /\ world["wsol"] = read => m.deposit = m.refund + 0
                      /\ m.at["wsol"] = Absent
    BY <1>1 DEF Money
  <1>2. PICK l : l = RunAll(prog, Ledger(world, own))  OBVIOUS
  <1>3. l \in Ledgers /\ m \in Ledgers /\ m = Run(l, back) /\ RunsTo(l, m, back)
    BY <1>2, RunOneMore
  <1>4. /\ l.ok /\ m.deposit = l.deposit /\ Balance(m) = Balance(l) + Pays(back)
        /\ (~l.at["wsol"].initialized => m.at["wsol"] = l.at["wsol"])
    BY <1>1, <1>3 DEF RunsTo
  <1>5. m = RunRefund(l, back)  BY <1>1, <1>3, <1>4 DEF Run
  <1>6. m.refund = l.refund + due  BY <1>1, <1>3, <1>4, <1>5, RefundFacts
  <1>7. /\ Balance(l) = own + world["wsol"].lamports + Earned(prog)
        /\ l.deposit + Late(world["wsol"], read) >= l.refund + due
        /\ world["wsol"] = read => l.deposit = l.refund + due
        /\ l.at["wsol"] = Absent
    BY <1>2, <1>4 DEF Money
  <1>8. Balance(m) = own + world["wsol"].lamports + Earned(Append(prog, back))
    <2>1. Earned(Append(prog, back)) = Earned(prog) + Pays(back) /\ Earned(prog) \in Int
      BY EarnedAppend
    <2>2. world["wsol"].lamports \in Nat  BY RentedType
    <2> QED  BY <1>1, <1>4, <1>7, <2>1, <2>2
  <1>9. m.at["wsol"] = Absent  BY <1>4, <1>7, NotUnread
  <1>10. l.refund \in Nat  BY <1>3, LedgerFields
  <1>11. m.refund + 0 = l.refund + due  BY <1>6, <1>10
  <1> QED  BY <1>4, <1>7, <1>8, <1>9, <1>11

-----------------------------------------------------------------------------
(* An unchanged chain: Lands as a program grows. *)

\* Whatever a program does, an open WSOL account has its rent and what else is
\* open stays open.
LEMMA RunAllKeeps ==
    ASSUME NEW prog \in Seq(Instructions), NEW start \in Ledgers
    PROVE  /\ RunAll(prog, start) \in Ledgers
           /\ Rented(start.at["wsol"]) => Rented(RunAll(prog, start).at["wsol"])
           /\ \A a \in Accounts \ {"wsol"} :
                start.at[a].initialized => RunAll(prog, start).at[a].initialized
           /\ ChainStory(start.at) => ChainStory(RunAll(prog, start).at)
  <1> DEFINE f == LedgersOf(prog, start)
             S == {n \in 0..Len(prog) :
                     /\ Rented(start.at["wsol"]) => Rented(f[n].at["wsol"])
                     /\ \A a \in Accounts \ {"wsol"} :
                          start.at[a].initialized => f[n].at[a].initialized}
  <1>0. Len(prog) \in Nat /\ \A n \in 1..Len(prog) : prog[n] \in Instructions  OBVIOUS
  <1>1. /\ RunAll(prog, start) = f[Len(prog)] /\ f[0] = start
        /\ \A n \in 1..Len(prog) : f[n] = Run(f[n - 1], prog[n])
        /\ \A n \in 0..Len(prog) : f[n] \in Ledgers
    BY RunSteps
  <1> HIDE DEF f
  <1>2. 0 \in S  BY <1>0, <1>1
  <1>3. ASSUME NEW n \in 1..Len(prog), n - 1 \in S PROVE n \in S
    <2>1. RunsTo(f[n - 1], f[n], prog[n])
      <3>1. f[n - 1] \in Ledgers  BY <1>0, <1>1
      <3>2. RunsTo(f[n - 1], Run(f[n - 1], prog[n]), prog[n])  BY <1>0, <3>1, RunFacts
      <3> QED  BY <1>1, <3>2
    <2>2. Rented(f[n - 1].at["wsol"]) => Rented(f[n].at["wsol"])  BY <2>1 DEF RunsTo, Rented
    <2>3. \A a \in Accounts \ {"wsol"} : f[n - 1].at[a].initialized => f[n].at[a].initialized
      BY <2>1 DEF RunsTo
    <2>4. n \in 0..Len(prog)  BY <1>0
    <2> QED  BY <1>3, <2>2, <2>3, <2>4
  <1>4. Len(prog) \in S
    <2>1. Len(prog) \in 0..Len(prog)  BY <1>0
    <2> HIDE DEF S
    <2> QED  BY <1>0, <1>2, <1>3, <2>1, InductionTo
  <1>5. "wsol" \notin Held /\ Held \subseteq Accounts
    BY DEF Held, Accounts, UserAccounts
  <1> QED  BY <1>0, <1>1, <1>4, <1>5 DEF ChainStory

LEMMA FreshRuns ==
    ASSUME NEW prog \in Seq(Instructions), NEW read, NEW world \in FreshWorlds(read), NEW own \in Nat
    PROVE  /\ world \in [Accounts -> SetupAccount]
           /\ RunAll(prog, Ledger(world, own)) \in Ledgers
           /\ ChainStory(RunAll(prog, Ledger(world, own)).at)
  <1>1. world \in [Accounts -> SetupAccount] /\ ChainStory(world)
    BY DEF FreshWorlds, ChainStory
  <1>2. PICK start : start = Ledger(world, own)  OBVIOUS
  <1>3. start \in Ledgers /\ start.at = world  BY <1>1, <1>2, LedgerType DEF Ledger
  <1>4. RunAll(prog, start) \in Ledgers /\ ChainStory(RunAll(prog, start).at)
    BY <1>1, <1>3, RunAllKeeps
  <1> QED  BY <1>1, <1>2, <1>4

LEMMA LandsOneMore ==
    ASSUME NEW prog \in Seq(Instructions), NEW ix \in Instructions, NEW read,
           NEW known, NEW purse, NEW cache2, NEW purse2, Lands(prog, read, known, purse),
           \A l \in Ledgers, world \in [Accounts -> SetupAccount], own \in Nat :
                Leaves(l, world, own, known, purse) /\ ChainStory(l.at)
                    => Leaves(Run(l, ix), world, own, cache2, purse2)
    PROVE  Lands(Append(prog, ix), read, cache2, purse2)
  <1> SUFFICES ASSUME NEW world \in FreshWorlds(read), NEW own \in Nat
               PROVE  Leaves(RunAll(Append(prog, ix), Ledger(world, own)), world, own, cache2, purse2)
    BY DEF Lands
  <1>1. PICK l : l = RunAll(prog, Ledger(world, own))  OBVIOUS
  <1>2. l \in Ledgers /\ ChainStory(l.at) /\ world \in [Accounts -> SetupAccount]
    BY <1>1, FreshRuns
  <1>3. Leaves(l, world, own, known, purse)  BY <1>1 DEF Lands
  <1>4. RunAll(Append(prog, ix), Ledger(world, own)) = Run(l, ix)
    BY <1>1, <1>2, RunOneMore
  <1> QED  BY <1>2, <1>3, <1>4

LEMMA LandsStart == Lands(<< >>, [a \in Accounts |-> Unread], [a \in Accounts |-> Unread], NoPurse)
  <1> SUFFICES ASSUME NEW world \in FreshWorlds([a \in Accounts |-> Unread]), NEW own \in Nat
               PROVE  Leaves(RunAll(<< >>, Ledger(world, own)), world, own,
                             [a \in Accounts |-> Unread], NoPurse)
    BY DEF Lands
  <1>1. world \in [Accounts -> SetupAccount]  BY DEF FreshWorlds
  <1>2. PICK start : start = Ledger(world, own)  OBVIOUS
  <1>3. start \in Ledgers  BY <1>1, <1>2, LedgerType
  <1>4. RunAll(<< >>, start) = start  BY <1>3, RunAllEmpty
  <1>5. /\ start.ok /\ start.setup = 0 /\ start.user = own /\ start.at = world
    BY <1>2 DEF Ledger
  <1>6. start.at["vault"].lamports >= Unread.lamports
    <2>1. world["vault"].lamports \in Nat  BY <1>1, AccountNames DEF SetupAccount
    <2> QED  BY <1>5, <2>1 DEF Unread
  <1>7. Leaves(start, world, own, [a \in Accounts |-> Unread], NoPurse)
    BY <1>5, <1>6, AccountNames DEF Leaves, NoPurse
  <1> QED  BY <1>2, <1>4, <1>7

\* An account is read.
LEMMA LandsRead ==
    ASSUME NEW prog \in Seq(Instructions), NEW read \in [Accounts -> SetupCache],
           NEW known \in [Accounts -> SetupCache], NEW purse, Lands(prog, read, known, purse),
           NEW a \in Accounts, known[a] = Unread, read[a] = Unread, NEW account \in SetupAccount
    PROVE  Lands(prog, [read EXCEPT ![a] = account], [known EXCEPT ![a] = account], purse)
  <1> DEFINE read2 == [read EXCEPT ![a] = account]
             cache2 == [known EXCEPT ![a] = account]
  <1> SUFFICES ASSUME NEW world \in FreshWorlds(read2), NEW own \in Nat,
                      NEW l, l = RunAll(prog, Ledger(world, own))
               PROVE  Leaves(l, world, own, cache2, purse)
    BY DEF Lands
  <1>1. account # Unread /\ read2[a] = account /\ cache2[a] = account
        /\ \A b \in Accounts \ {a} : read2[b] = read[b] /\ cache2[b] = known[b]
    BY NotUnread
  <1> HIDE DEF read2, cache2
  <1>2. world \in FreshWorlds(read) /\ world[a] = account
    BY <1>1 DEF FreshWorlds
  <1>3. Leaves(l, world, own, known, purse)  BY <1>2 DEF Lands
  <1>4. \A b \in Accounts \ {"vault"} :
            /\ cache2[b] = Unread => l.at[b] = world[b]
            /\ cache2[b] # Unread => l.at[b].initialized = cache2[b].initialized
    BY <1>1, <1>2, <1>3 DEF Leaves
  <1>5. cache2["vault"] = Unread => l.at["vault"] = world["vault"]
    BY <1>1, <1>3, AccountNames DEF Leaves
  <1>6. l.at["vault"].lamports >= cache2["vault"].lamports
    <2>1. CASE a = "vault"
      <3>1. l.at["vault"] = account  BY <1>2, <1>3, <2>1 DEF Leaves
      <3>2. account.lamports \in Nat  BY DEF SetupAccount
      <3> QED  BY <1>1, <2>1, <3>1, <3>2
    <2>2. CASE a # "vault"  BY <1>1, <1>3, <2>2, AccountNames DEF Leaves
    <2> QED  BY <2>1, <2>2
  <1> QED  BY <1>3, <1>4, <1>5, <1>6 DEF Leaves

\* The route opens the WSOL account, which is there by now.
LEMMA LandsKnown ==
    ASSUME NEW prog \in Seq(Instructions), NEW read, NEW known \in [Accounts -> SetupCache],
           NEW purse \in PurseSet, Lands(prog, read, known, purse), known["wsol"].initialized,
           ~purse.open => purse.wsol = 0
    PROVE  Lands(prog, read, known, [purse EXCEPT !.open = TRUE])
  <1> SUFFICES ASSUME NEW world \in FreshWorlds(read), NEW own \in Nat,
                      NEW l, l = RunAll(prog, Ledger(world, own))
               PROVE  Leaves(l, world, own, known, [purse EXCEPT !.open = TRUE])
    BY DEF Lands
  <1>1. Leaves(l, world, own, known, purse) /\ l \in Ledgers /\ ChainStory(l.at)
    BY FreshRuns DEF Lands
  <1>2. known["wsol"] # Unread /\ "wsol" \in Accounts \ {"vault"}
    BY NotUnread, AccountNames
  <1>3. l.at["wsol"].initialized  BY <1>1, <1>2 DEF Leaves
  <1>4. l.at["wsol"].lamports >= TokenRent + purse.wsol
    <2>1. l.at["wsol"].lamports >= TokenRent  BY <1>1, <1>3 DEF ChainStory, Rented
    <2>2. CASE purse.open  BY <1>1, <2>2 DEF Leaves
    <2>3. CASE ~purse.open  BY <2>1, <2>3, SetupConstants
    <2> QED  BY <2>2, <2>3
  <1>5. [purse EXCEPT !.open = TRUE].sol = purse.sol /\ [purse EXCEPT !.open = TRUE].wsol = purse.wsol
    BY DEF PurseSet
  <1> QED  BY <1>1, <1>3, <1>4, <1>5 DEF Leaves

\* A missing account is opened.
LEMMA LeavesOpened ==
    ASSUME NEW l, NEW m, NEW world, NEW own \in Nat, NEW known \in [Accounts -> SetupCache],
           NEW purse, Leaves(l, world, own, known, purse), NEW a \in Accounts \ {"vault"},
           ~l.at[a].initialized, m.ok, m.setup = l.setup, m.user = l.user,
           \A b \in Accounts \ {a} : m.at[b] = l.at[b], m.at[a].initialized = TRUE,
           NEW after \in SetupAccount, after.initialized = TRUE
    PROVE  Leaves(m, world, own, [known EXCEPT ![a] = after], purse)
  <1> DEFINE cache2 == [known EXCEPT ![a] = after]
  <1>1. cache2[a] = after /\ after # Unread /\ \A b \in Accounts \ {a} : cache2[b] = known[b]
    BY NotUnread
  <1> HIDE DEF cache2
  <1>2. \A b \in Accounts \ {"vault"} :
            /\ cache2[b] = Unread => m.at[b] = world[b]
            /\ cache2[b] # Unread => m.at[b].initialized = cache2[b].initialized
    BY <1>1 DEF Leaves
  <1>3. /\ cache2["vault"] = Unread => m.at["vault"] = world["vault"]
        /\ m.at["vault"].lamports >= cache2["vault"].lamports
    BY <1>1, AccountNames DEF Leaves
  <1>4. purse.open => m.at["wsol"] = l.at["wsol"]
    BY AccountNames DEF Leaves
  <1> QED  BY <1>2, <1>3, <1>4 DEF Leaves, cache2

LEMMA LandsAta ==
    ASSUME NEW prog \in Seq(Instructions), NEW read, NEW known \in [Accounts -> SetupCache],
           NEW purse, Lands(prog, read, known, purse), NEW a \in Accounts \ {"vault"},
           known[a] # Unread, ~known[a].initialized, NEW after \in SetupAccount,
           after.initialized = TRUE, NEW ix \in Instructions, ix.op = "ata", ix.acct = a
    PROVE  Lands(Append(prog, ix), read, [known EXCEPT ![a] = after], purse)
  <1>1. SUFFICES ASSUME NEW l \in Ledgers, NEW world \in [Accounts -> SetupAccount],
                        NEW own \in Nat, Leaves(l, world, own, known, purse)
                 PROVE  Leaves(Run(l, ix), world, own, [known EXCEPT ![a] = after], purse)
    BY LandsOneMore
  <1>2. l.ok /\ ~l.at[a].initialized  BY <1>1 DEF Leaves
  <1> DEFINE missing == Monus(TokenRent, l.at[a].lamports)
             m == [l EXCEPT !.at[a] = [initialized |-> TRUE, lamports |-> @.lamports + missing],
                            !.deposit = IF a = "wsol" THEN @ + missing ELSE @]
  <1>3. Run(l, ix) = m  BY <1>2 DEF Run, RunAta
  <1>4. /\ m.ok /\ m.setup = l.setup /\ m.user = l.user
        /\ \A b \in Accounts \ {a} : m.at[b] = l.at[b]
        /\ m.at[a].initialized = TRUE
    <2> HIDE DEF missing
    <2> QED  BY <1>2 DEF Ledgers
  <1> HIDE DEF m
  <1>5. Leaves(m, world, own, [known EXCEPT ![a] = after], purse)
    <2>1. Leaves(l, world, own, known, purse)  BY <1>1
    <2>2. ~l.at[a].initialized  BY <1>2
    <2>3. m.ok  BY <1>4
    <2>4. m.setup = l.setup /\ m.user = l.user  BY <1>4
    <2>5. \A b \in Accounts \ {a} : m.at[b] = l.at[b]  BY <1>4
    <2>6. m.at[a].initialized = TRUE  BY <1>4
    <2> QED
      BY ONLY <2>1, <2>2, <2>3, <2>4, <2>5, <2>6, LeavesOpened, a \in Accounts \ {"vault"}, own \in Nat,
              after \in SetupAccount, after.initialized = TRUE, known \in [Accounts -> SetupCache]
  <1> QED  BY <1>3, <1>5

LEMMA LandsVolume ==
    ASSUME NEW prog \in Seq(Instructions), NEW read, NEW known \in [Accounts -> SetupCache],
           NEW purse, Lands(prog, read, known, purse), NEW a \in Accounts \ {"vault"},
           known[a] # Unread, ~known[a].initialized, NEW after \in SetupAccount,
           after.initialized = TRUE, NEW ix \in Instructions, ix.op = "volume", ix.acct = a
    PROVE  Lands(Append(prog, ix), read, [known EXCEPT ![a] = after], purse)
  <1>1. SUFFICES ASSUME NEW l \in Ledgers, NEW world \in [Accounts -> SetupAccount],
                        NEW own \in Nat, Leaves(l, world, own, known, purse)
                 PROVE  Leaves(Run(l, ix), world, own, [known EXCEPT ![a] = after], purse)
    BY LandsOneMore
  <1>2. l.ok /\ ~l.at[a].initialized  BY <1>1 DEF Leaves
  <1> DEFINE m == [l EXCEPT !.at[a] = [initialized |-> TRUE, lamports |-> TokenRent]]
  <1>3. Run(l, ix) = m  BY <1>2 DEF Run, RunVolume
  <1>4. /\ m.ok /\ m.setup = l.setup /\ m.user = l.user
        /\ \A b \in Accounts \ {a} : m.at[b] = l.at[b]
        /\ m.at[a].initialized = TRUE
    BY <1>2 DEF Ledgers
  <1> HIDE DEF m
  <1>5. Leaves(m, world, own, [known EXCEPT ![a] = after], purse)
    <2>1. Leaves(l, world, own, known, purse)  BY <1>1
    <2>2. ~l.at[a].initialized  BY <1>2
    <2>3. m.ok  BY <1>4
    <2>4. m.setup = l.setup /\ m.user = l.user  BY <1>4
    <2>5. \A b \in Accounts \ {a} : m.at[b] = l.at[b]  BY <1>4
    <2>6. m.at[a].initialized = TRUE  BY <1>4
    <2> QED
      BY ONLY <2>1, <2>2, <2>3, <2>4, <2>5, <2>6, LeavesOpened, a \in Accounts \ {"vault"}, own \in Nat,
              after \in SetupAccount, after.initialized = TRUE, known \in [Accounts -> SetupCache]
  <1> QED  BY <1>3, <1>5

\* The vault is topped up to its rent.
LEMMA LandsFund ==
    ASSUME NEW prog \in Seq(Instructions), NEW read, NEW known \in [Accounts -> SetupCache],
           NEW purse, Lands(prog, read, known, purse), known["vault"] # Unread,
           NEW after \in SetupAccount, after.lamports = VaultRent,
           NEW ix \in Instructions, ix.op = "fund", ix.amt = VaultRent - known["vault"].lamports
    PROVE  Lands(Append(prog, ix), read, [known EXCEPT !["vault"] = after], purse)
  <1>1. SUFFICES ASSUME NEW l \in Ledgers, NEW world \in [Accounts -> SetupAccount],
                        NEW own \in Nat, Leaves(l, world, own, known, purse)
                 PROVE  Leaves(Run(l, ix), world, own, [known EXCEPT !["vault"] = after], purse)
    BY LandsOneMore
  <1> DEFINE cache2 == [known EXCEPT !["vault"] = after]
             m == [l EXCEPT !.at["vault"].lamports = @ + ix.amt]
  <1>2. Run(l, ix) = m  BY <1>1 DEF Run, RunFund, Leaves
  <1>3. cache2["vault"] = after /\ after # Unread
        /\ \A b \in Accounts \ {"vault"} : cache2[b] = known[b]
    BY NotUnread, AccountNames
  <1>4. /\ m.ok = l.ok /\ m.setup = l.setup /\ m.user = l.user
        /\ \A b \in Accounts \ {"vault"} : m.at[b] = l.at[b]
        /\ m.at["vault"].lamports = l.at["vault"].lamports + ix.amt
    BY AccountNames DEF Ledgers, SetupAccount
  <1>5. m.at["vault"].lamports >= after.lamports
    <2>1. l.at["vault"].lamports >= known["vault"].lamports  BY <1>1 DEF Leaves
    <2>2. /\ l.at["vault"].lamports \in Nat /\ known["vault"].lamports \in Nat
          /\ VaultRent \in Nat
      BY AccountNames, SetupConstants DEF Ledgers, SetupAccount, SetupCache
    <2> QED  BY <1>4, <2>1, <2>2
  <1> HIDE DEF m, cache2
  <1>6. \A b \in Accounts \ {"vault"} :
            /\ cache2[b] = Unread => m.at[b] = world[b]
            /\ cache2[b] # Unread => m.at[b].initialized = cache2[b].initialized
    BY <1>1, <1>3, <1>4 DEF Leaves
  <1>7. purse.open => m.at["wsol"] = l.at["wsol"]  BY <1>4, AccountNames
  <1>8. Leaves(m, world, own, cache2, purse)
    BY <1>1, <1>3, <1>4, <1>5, <1>6, <1>7 DEF Leaves
  <1> QED  BY <1>2, <1>8 DEF cache2

LEMMA LandsWrap ==
    ASSUME NEW prog \in Seq(Instructions), NEW read, NEW known \in [Accounts -> SetupCache],
           NEW purse \in PurseSet, Lands(prog, read, known, purse), purse.open,
           known["wsol"].initialized, NEW ix \in Instructions, ix \in RawInstructions,
           ix.op = "wrap", Spend(purse, ix).sol >= 0
    PROVE  Lands(Append(prog, ix), read, known, Spend(purse, ix))
  <1>1. SUFFICES ASSUME NEW l \in Ledgers, NEW world \in [Accounts -> SetupAccount],
                        NEW own \in Nat, Leaves(l, world, own, known, purse)
                 PROVE  Leaves(Run(l, ix), world, own, known, Spend(purse, ix))
    BY LandsOneMore
  <1> DEFINE m == [l EXCEPT !.user = @ - ix.amt, !.at["wsol"].lamports = @ + ix.amt]
  <1>2. ix.amt \in Nat /\ purse.sol \in Int /\ purse.wsol \in Int
    BY DEF RawInstructions, Swaps, PurseSet
  <1>3. PICK purse2 \in PurseSet : purse2 = Spend(purse, ix)  BY SpendFacts
  <1>4. /\ purse2.sol = purse.sol - ix.amt /\ purse2.wsol = purse.wsol + ix.amt
        /\ purse2.open = purse.open
    <2>1. purse2 = [purse EXCEPT !.sol = @ - ix.amt, !.wsol = @ + ix.amt]
      BY <1>3, SpendFacts
    <2> QED  BY <2>1 DEF PurseSet
  <1>5. /\ l.ok /\ l.setup = 0 /\ l.user >= own + purse.sol
        /\ l.at["wsol"].initialized /\ l.at["wsol"].lamports >= TokenRent + purse.wsol
    BY <1>1 DEF Leaves
  <1>6. l.user \in Nat /\ l.at["wsol"].lamports \in Nat  BY LedgerFields
  <1>7. ~(l.user < ix.amt)  BY <1>2, <1>3, <1>4, <1>5, <1>6
  <1>8. Run(l, ix) = m  BY <1>5, <1>7 DEF Run, RunWrap
  <1>9. /\ m.ok /\ m.setup = 0 /\ m.user = l.user - ix.amt
        /\ \A b \in Accounts \ {"wsol"} : m.at[b] = l.at[b]
        /\ m.at["wsol"].lamports = l.at["wsol"].lamports + ix.amt
        /\ m.at["wsol"].initialized = l.at["wsol"].initialized
    BY <1>5, AccountNames DEF Ledgers, SetupAccount
  <1> HIDE DEF m
  <1>10. m.user >= own + purse2.sol  BY <1>2, <1>4, <1>5, <1>6, <1>9
  <1>11. m.at["wsol"].lamports >= TokenRent + purse2.wsol
    BY <1>2, <1>4, <1>5, <1>6, <1>9, SetupConstants
  <1>12. \A b \in Accounts \ {"vault"} :
            /\ known[b] = Unread => m.at[b] = world[b]
            /\ known[b] # Unread => m.at[b].initialized = known[b].initialized
    <2>1. known["wsol"] # Unread  BY NotUnread
    <2> QED  BY <1>1, <1>9, <2>1 DEF Leaves
  <1>13. m.at["vault"] = l.at["vault"]  BY <1>9, AccountNames
  <1>14. Leaves(m, world, own, known, purse2)
    BY <1>1, <1>5, <1>9, <1>10, <1>11, <1>12, <1>13 DEF Leaves
  <1> QED  BY <1>3, <1>8, <1>14

\* A swap whose accounts are all there takes and pays what it says.
LEMMA LandsSwap ==
    ASSUME NEW prog \in Seq(Instructions), NEW read, NEW known \in [Accounts -> SetupCache],
           NEW purse \in PurseSet, Lands(prog, read, known, purse),
           purse.open => known["wsol"].initialized, ~purse.open => purse.wsol = 0,
           NEW ix \in Instructions, ix \in RawInstructions, ix.op \in {"pumpswap", "pumpfun"},
           \A a \in ix.opens : known[a].initialized,
           ix.op = "pumpfun" => known["vault"].lamports >= VaultRent,
           "wsol" \in ix.uses => purse.open,
           \A a \in ix.uses \ ({"wsol"} \cup Held) : known[a].initialized,
           Spend(purse, ix).sol >= 0, Spend(purse, ix).wsol >= 0
    PROVE  Lands(Append(prog, ix), read, known, Spend(purse, ix))
  <1>1. SUFFICES ASSUME NEW l \in Ledgers, NEW world \in [Accounts -> SetupAccount],
                        NEW own \in Nat, Leaves(l, world, own, known, purse), ChainStory(l.at)
                 PROVE  Leaves(Run(l, ix), world, own, known, Spend(purse, ix))
    BY LandsOneMore
  <1>2. /\ ix.sol \in Int /\ ix.wsol \in Int /\ purse.sol \in Int /\ purse.wsol \in Int
        /\ ix.opens \subseteq OtherAccounts /\ ix.uses \subseteq UserAccounts
        /\ ix.wsol # 0 => "wsol" \in ix.uses
    BY DEF RawInstructions, Swaps, PurseSet
  <1>3. PICK purse2 \in PurseSet : purse2 = Spend(purse, ix)  BY SpendFacts
  <1>4. /\ purse2.sol = purse.sol + ix.sol /\ purse2.wsol = purse.wsol + ix.wsol
        /\ purse2.open = purse.open
    <2>1. purse2 = [purse EXCEPT !.sol = @ + ix.sol, !.wsol = @ + ix.wsol]
      BY <1>3, SpendFacts
    <2> QED  BY <2>1 DEF PurseSet
  <1>5. /\ l.ok /\ l.setup = 0 /\ l.user >= own + purse.sol
        /\ purse.open => l.at["wsol"].initialized
                         /\ l.at["wsol"].lamports >= TokenRent + purse.wsol
        /\ l.at["vault"].lamports >= known["vault"].lamports
    BY <1>1 DEF Leaves
  <1>6. /\ l.user \in Nat /\ l.at["wsol"].lamports \in Nat /\ l.at["vault"].lamports \in Nat
        /\ known["vault"].lamports \in Int /\ l.at \in [Accounts -> SetupAccount]
    BY LedgerFields, AccountNames DEF SetupCache, SetupAccount, Unread
  <1>7. \A a \in Accounts \ {"vault"} : known[a].initialized => l.at[a].initialized
    <2>1. \A a \in Accounts : known[a].initialized => known[a] # Unread  BY NotUnread
    <2> QED  BY <1>1, <2>1 DEF Leaves
  <1> DEFINE missing == {a \in ix.opens : ~l.at[a].initialized}
             vault == IF ix.op = "pumpfun" THEN Monus(VaultRent, l.at["vault"].lamports) ELSE 0
             bill == vault + TokenRent * Cardinality(missing)
             m == [l EXCEPT
                !.at = [a \in Accounts |->
                    IF a \in missing THEN [initialized |-> TRUE, lamports |-> TokenRent]
                    ELSE IF a = "vault" THEN [l.at[a] EXCEPT !.lamports = @ + vault]
                    ELSE IF a = "wsol" THEN [l.at[a] EXCEPT !.lamports = @ + ix.wsol]
                    ELSE l.at[a]],
                !.user = @ + ix.sol - bill,
                !.setup = @ + bill]
  <1>8. missing = {}
    <2>1. \A a \in ix.opens : l.at[a].initialized  BY <1>2, <1>7, AccountNames
    <2> QED  BY <2>1
  <1>9. vault = 0
    <2>1. ix.op = "pumpfun" => l.at["vault"].lamports >= VaultRent
      BY <1>5, <1>6, SetupConstants
    <2> QED  BY <1>6, <2>1, SetupConstants DEF Monus
  <1>10. bill = 0
    <2> HIDE DEF missing, vault
    <2>1. Cardinality(missing) = 0  BY <1>8, FS_EmptySet
    <2> QED  BY <1>9, <2>1, SetupConstants
  <1>11. /\ m.ok /\ m.setup = 0 /\ m.user = l.user + ix.sol
         /\ \A b \in Accounts \ {"wsol", "vault"} : m.at[b] = l.at[b]
         /\ m.at["vault"] = [l.at["vault"] EXCEPT !.lamports = @ + 0]
         /\ m.at["wsol"] = [l.at["wsol"] EXCEPT !.lamports = @ + ix.wsol]
    <2> HIDE DEF missing, vault, bill
    <2>1. m.user = l.user + ix.sol - 0 /\ m.setup = l.setup + 0 /\ m.ok
      BY <1>5, <1>10 DEF Ledgers
    <2>2. m.at = [a \in Accounts |->
                    IF a = "vault" THEN [l.at[a] EXCEPT !.lamports = @ + 0]
                    ELSE IF a = "wsol" THEN [l.at[a] EXCEPT !.lamports = @ + ix.wsol]
                    ELSE l.at[a]]
      BY <1>8, <1>9 DEF Ledgers
    <2>3. "wsol" \in Accounts /\ "vault" \in Accounts /\ "wsol" # "vault"  BY AccountNames
    <2> HIDE DEF m
    <2>4. m.user = l.user + ix.sol /\ m.setup = 0  BY <1>2, <1>5, <1>6, <2>1
    <2> QED  BY <2>1, <2>2, <2>3, <2>4
  <1>12. Run(l, ix) = IF /\ \A a \in ix.uses : l.at[a].initialized
                         /\ m.user >= 0
                         /\ "wsol" \in ix.uses => m.at["wsol"].lamports >= TokenRent
                      THEN m ELSE Reverted(l)
    <2>1. Run(l, ix) = RunSwap(l, ix)  BY <1>5 DEF Run
    <2> QED  BY <2>1 DEF RunSwap
  <1> HIDE DEF m, bill, vault, missing
  <1>13. /\ m.at["wsol"].lamports = l.at["wsol"].lamports + ix.wsol
         /\ m.at["wsol"].initialized = l.at["wsol"].initialized
         /\ "wsol" \notin ix.uses => m.at["wsol"] = l.at["wsol"]
         /\ m.at["vault"] = l.at["vault"]
    <2>1. l.at["wsol"] \in SetupAccount /\ l.at["vault"] \in SetupAccount
      BY <1>6, AccountNames
    <2>2. \A r \in SetupAccount : [r EXCEPT !.lamports = @ + 0] = r
      BY DEF SetupAccount
    <2>3. m.at["vault"] = l.at["vault"]  BY <1>11, <2>1, <2>2
    <2>4. "wsol" \notin ix.uses => m.at["wsol"] = l.at["wsol"]
      BY <1>2, <1>11, <2>1, <2>2
    <2>5. /\ m.at["wsol"].lamports = l.at["wsol"].lamports + ix.wsol
          /\ m.at["wsol"].initialized = l.at["wsol"].initialized
      BY <1>11, <2>1 DEF SetupAccount
    <2> QED  BY <2>3, <2>4, <2>5
  <1>14. \A a \in ix.uses : l.at[a].initialized
    <2>1. ix.uses \subseteq Accounts \ {"vault"}
      BY <1>2 DEF Accounts, UserAccounts
    <2>2. \A a \in Held : l.at[a].initialized  BY <1>1 DEF ChainStory
    <2> QED  BY <1>5, <1>7, <2>1, <2>2
  <1>15. m.user >= own + purse2.sol /\ m.user >= 0
    BY <1>2, <1>3, <1>4, <1>5, <1>6, <1>11
  <1>16. purse2.open => m.at["wsol"].initialized
                        /\ m.at["wsol"].lamports >= TokenRent + purse2.wsol
    <2>1. SUFFICES ASSUME purse2.open
                   PROVE  /\ m.at["wsol"].initialized
                          /\ m.at["wsol"].lamports >= TokenRent + purse2.wsol
      OBVIOUS
    <2>2. /\ l.at["wsol"].initialized /\ l.at["wsol"].lamports >= TokenRent + purse.wsol
          /\ purse2.wsol = purse.wsol + ix.wsol
      BY <1>4, <1>5, <2>1
    <2>3. /\ m.at["wsol"].lamports = l.at["wsol"].lamports + ix.wsol
          /\ m.at["wsol"].initialized
      BY <1>13, <2>2
    <2>4. l.at["wsol"].lamports \in Int /\ purse.wsol \in Int /\ ix.wsol \in Int
      BY <1>2, <1>6
    <2>5. TokenRent \in Int  BY SetupConstants
    <2>6. m.at["wsol"].lamports >= TokenRent + purse2.wsol
      <3> DEFINE had == l.at["wsol"].lamports
                 has == m.at["wsol"].lamports
                 came == purse.wsol
                 comes == purse2.wsol
                 paid == ix.wsol
      <3>1. had >= TokenRent + came /\ has = had + paid /\ comes = came + paid
        BY <2>2, <2>3
      <3>2. had \in Int /\ came \in Int /\ paid \in Int  BY <2>4
      <3> HIDE DEF had, has, came, comes, paid
      <3>3. has >= TokenRent + comes  BY <2>5, <3>1, <3>2
      <3> QED  BY <3>3 DEF has, comes
    <2> QED  BY <2>3, <2>6
  <1>17. "wsol" \in ix.uses => m.at["wsol"].lamports >= TokenRent
    <2>1. purse2.wsol >= 0 /\ purse2.wsol \in Int  BY <1>3 DEF PurseSet
    <2>2. m.at["wsol"].lamports \in Int  BY <1>2, <1>6, <1>13
    <2> QED  BY <1>4, <1>16, <2>1, <2>2, SetupConstants
  <1>18. Run(l, ix) = m  BY <1>12, <1>14, <1>15, <1>17
  <1>19. \A b \in Accounts \ {"vault"} :
            /\ known[b] = Unread => m.at[b] = world[b]
            /\ known[b] # Unread => m.at[b].initialized = known[b].initialized
    <2>1. known["wsol"] = Unread => "wsol" \notin ix.uses  BY NotUnread
    <2>2. CASE "wsol" \in ix.uses  BY <1>1, <1>11, <1>13, <2>1, <2>2 DEF Leaves
    <2>3. CASE "wsol" \notin ix.uses  BY <1>1, <1>11, <1>13, <2>3 DEF Leaves
    <2> QED  BY <2>2, <2>3
  <1>20. known["vault"] = Unread => m.at["vault"] = world["vault"]
    BY <1>1, <1>13 DEF Leaves
  <1>21. Leaves(m, world, own, known, purse2)
    BY <1>5, <1>11, <1>13, <1>15, <1>16, <1>19, <1>20 DEF Leaves
  <1> QED  BY <1>3, <1>18, <1>21

\* CloseAccount pays the user the purse, and the rent besides.
LEMMA CloseLeaves ==
    ASSUME NEW l \in Ledgers, NEW world, NEW own \in Nat, NEW known \in [Accounts -> SetupCache],
           NEW purse \in PurseSet, Leaves(l, world, own, known, purse), purse.open,
           NEW ix \in RawInstructions, ix.op = "close"
    PROVE  Leaves(Run(l, ix), world, own + TokenRent, [known EXCEPT !["wsol"] = Absent],
                  Spend(purse, ix))
  <1> DEFINE m == [l EXCEPT !.user = @ + l.at["wsol"].lamports, !.at["wsol"] = Absent]
             cache2 == [known EXCEPT !["wsol"] = Absent]
  <1>1. PICK purse2 \in PurseSet : purse2 = Spend(purse, ix)  BY SpendFacts
  <1>2. purse2.sol = purse.sol + purse.wsol /\ ~purse2.open
    <2>1. purse2 = [open |-> FALSE, sol |-> purse.sol + purse.wsol, wsol |-> 0]
      BY <1>1, SpendFacts
    <2> QED  BY <2>1
  <1>3. /\ l.ok /\ l.setup = 0 /\ l.user >= own + purse.sol
        /\ l.at["wsol"].initialized /\ l.at["wsol"].lamports >= TokenRent + purse.wsol
    BY DEF Leaves
  <1>4. Run(l, ix) = m  BY <1>3 DEF Run, RunClose
  <1>5. /\ m.ok /\ m.setup = 0 /\ m.user = l.user + l.at["wsol"].lamports
        /\ m.at["wsol"] = Absent
        /\ \A b \in Accounts \ {"wsol"} : m.at[b] = l.at[b]
    BY <1>3, AccountNames DEF Ledgers
  <1>6. cache2["wsol"] = Absent /\ \A b \in Accounts \ {"wsol"} : cache2[b] = known[b]
    BY AccountNames
  <1> HIDE DEF m, cache2
  <1>7. m.user >= own + TokenRent + purse2.sol
    <2>1. /\ l.user \in Nat /\ l.at["wsol"].lamports \in Nat /\ TokenRent \in Nat
          /\ purse.sol \in Int /\ purse.wsol \in Int
      BY LedgerFields, SetupConstants DEF PurseSet
    <2> QED  BY <1>2, <1>3, <1>5, <2>1
  <1>8. \A b \in Accounts \ {"vault"} :
            /\ cache2[b] = Unread => m.at[b] = world[b]
            /\ cache2[b] # Unread => m.at[b].initialized = cache2[b].initialized
    BY <1>5, <1>6, NotUnread DEF Leaves
  <1>9. /\ cache2["vault"] = Unread => m.at["vault"] = world["vault"]
        /\ m.at["vault"].lamports >= cache2["vault"].lamports
    BY <1>5, <1>6, AccountNames DEF Leaves
  <1>10. Leaves(m, world, own + TokenRent, cache2, purse2)
    BY <1>2, <1>5, <1>7, <1>8, <1>9 DEF Leaves
  <1> QED  BY <1>1, <1>4, <1>10 DEF cache2

LEMMA LandsClose ==
    ASSUME NEW prog \in Seq(Instructions), NEW read, NEW known \in [Accounts -> SetupCache],
           NEW purse \in PurseSet, Lands(prog, read, known, purse), purse.open,
           NEW ix \in Instructions, ix \in RawInstructions, ix.op = "close"
    PROVE  Lands(Append(prog, ix), read, [known EXCEPT !["wsol"] = Absent], Spend(purse, ix))
  <1>1. SUFFICES ASSUME NEW l \in Ledgers, NEW world \in [Accounts -> SetupAccount],
                        NEW own \in Nat, Leaves(l, world, own, known, purse)
                 PROVE  Leaves(Run(l, ix), world, own, [known EXCEPT !["wsol"] = Absent],
                               Spend(purse, ix))
    BY LandsOneMore
  <1>2. PICK m : m = Run(l, ix)  OBVIOUS
  <1>3. PICK purse2 \in PurseSet : purse2 = Spend(purse, ix)  BY SpendFacts
  <1>4. PICK cache2 : cache2 = [known EXCEPT !["wsol"] = Absent]  OBVIOUS
  <1>5. Leaves(m, world, own + TokenRent, cache2, purse2)
    BY <1>1, <1>2, <1>3, <1>4, CloseLeaves
  <1>6. m \in Ledgers
    <2>1. RunsTo(l, Run(l, ix), ix)  BY RunFacts
    <2> QED  BY <1>2, <2>1 DEF RunsTo
  <1>7. m.user >= own + purse2.sol
    <2>1. m.user >= own + TokenRent + purse2.sol  BY <1>5 DEF Leaves
    <2>2. m.user \in Nat /\ purse2.sol \in Int /\ TokenRent \in Nat
      BY <1>6, LedgerFields, SetupConstants DEF PurseSet
    <2> QED  BY <2>1, <2>2
  <1>8. Leaves(m, world, own, cache2, purse2)  BY <1>5, <1>7 DEF Leaves
  <1> QED  BY <1>2, <1>3, <1>4, <1>8

\* The refund takes no more than that rent.
LEMMA LandsBack ==
    ASSUME NEW prog \in Seq(Instructions), NEW read, NEW known \in [Accounts -> SetupCache],
           NEW purse \in PurseSet, Lands(prog, read, known, purse), purse.open,
           NEW ix \in Instructions, ix \in RawInstructions, ix.op = "close",
           Spend(purse, ix).sol >= 0, NEW due \in 0..TokenRent,
           NEW back \in Instructions, back = [op |-> "refund", amt |-> due]
    PROVE  Lands(Append(Append(prog, ix), back), read, [known EXCEPT !["wsol"] = Absent],
                 Spend(purse, ix))
  <1> SUFFICES ASSUME NEW world \in FreshWorlds(read), NEW own \in Nat
               PROVE  Leaves(RunAll(Append(Append(prog, ix), back), Ledger(world, own)), world, own,
                             [known EXCEPT !["wsol"] = Absent], Spend(purse, ix))
    BY DEF Lands
  <1>1. PICK l : l = RunAll(prog, Ledger(world, own))  OBVIOUS
  <1>2. PICK m : m = RunAll(Append(prog, ix), Ledger(world, own))  OBVIOUS
  <1>3. PICK purse2 \in PurseSet : purse2 = Spend(purse, ix)  BY SpendFacts
  <1>4. PICK cache2 : cache2 = [known EXCEPT !["wsol"] = Absent]  OBVIOUS
  <1>5. l \in Ledgers /\ world \in [Accounts -> SetupAccount]  BY <1>1, FreshRuns
  <1>6. m \in Ledgers /\ m = Run(l, ix)  BY <1>1, <1>2, <1>5, RunOneMore
  <1>7. Leaves(l, world, own, known, purse)  BY <1>1 DEF Lands
  <1>8. Leaves(m, world, own + TokenRent, cache2, purse2)
    BY <1>3, <1>4, <1>5, <1>6, <1>7, CloseLeaves
  <1>9. Append(prog, ix) \in Seq(Instructions)  OBVIOUS
  <1>10. RunAll(Append(Append(prog, ix), back), Ledger(world, own)) = Run(m, back)
    <2>1. PICK longer \in Seq(Instructions) : longer = Append(prog, ix)  BY <1>9
    <2>2. m = RunAll(longer, Ledger(world, own))  BY <1>2, <2>1
    <2>3. RunAll(Append(longer, back), Ledger(world, own)) = Run(m, back)
      BY <1>5, <2>2, RunOneMore
    <2> QED  BY <2>1, <2>3
  <1> DEFINE k == [m EXCEPT !.user = @ - back.amt, !.refund = @ + back.amt]
  <1>11. /\ m.ok /\ m.user >= own + TokenRent + purse2.sol /\ m.setup = 0
         /\ m.user \in Nat /\ purse2.sol \in Int /\ TokenRent \in Nat /\ purse2.sol >= 0
         /\ back.amt = due /\ due \in Nat /\ due <= TokenRent
    BY <1>3, <1>6, <1>8, LedgerFields, SetupConstants DEF PurseSet, Leaves
  <1>12. Run(m, back) = k
    <2>1. ~(m.user < back.amt)  BY <1>11
    <2> QED  BY <1>11, <2>1 DEF Run, RunRefund
  <1>13. k.ok /\ k.setup = 0 /\ k.user = m.user - due /\ k.at = m.at
    BY <1>6, <1>11 DEF Ledgers
  <1> HIDE DEF k
  <1>14. k.user >= own + purse2.sol  BY <1>11, <1>13
  <1>15. Leaves(k, world, own, cache2, purse2)  BY <1>8, <1>13, <1>14 DEF Leaves
  <1> QED  BY <1>3, <1>4, <1>10, <1>12, <1>15

-----------------------------------------------------------------------------
(* The builder's step, and the instruction it works on. *)

\* Creating a user's account is a block of its own; anything else is set up
\* first and kept last.
LEMMA StepKinds ==
    ASSUME SetupTypeOK, NEW c \in Calls, Appending(c)
    PROVE  \/ /\ Raw(c).op = "ata" /\ Raw(c).acct \in UserAccounts
              /\ Now(c).do = "ata" /\ Now(c).acct = Raw(c).acct
              /\ taken[c] + 1 = Len(StepsFor(Raw(c)))
           \/ /\ Raw(c).op # "ata" /\ Now(c) \in SetupSteps
              /\ taken[c] + 1 < Len(StepsFor(Raw(c)))
           \/ /\ Raw(c).op # "ata" /\ Now(c).do = "keep"
              /\ taken[c] + 1 = Len(StepsFor(Raw(c)))
  <1>1. PICK ix \in RawInstructions : ix = Raw(c)  BY PendingType
  <1>2. taken[c] + 1 \in 1..Len(StepsFor(ix)) /\ Now(c) = StepsFor(ix)[taken[c] + 1]
    BY <1>1, PendingType
  <1>3. Len(StepsFor(ix)) \in Nat  BY StepsFacts
  <1>4. CASE ix.op = "ata"
    <2>1. StepsFor(ix) = << Step("ata", ix.acct) >>  BY <1>4, StepsFacts
    <2>2. Len(<< Step("ata", ix.acct) >>) = 1 /\ << Step("ata", ix.acct) >>[1] = Step("ata", ix.acct)
      OBVIOUS
    <2>3. taken[c] + 1 = 1 /\ Len(StepsFor(ix)) = 1  BY <1>2, <2>1, <2>2
    <2>4. Now(c) = Step("ata", ix.acct)  BY <1>2, <2>1, <2>2, <2>3
    <2>5. ix.acct \in UserAccounts  BY <1>4 DEF RawInstructions, Swaps
    <2> QED  BY <1>1, <1>4, <2>3, <2>4, <2>5 DEF Step
  <1>5. CASE ix.op # "ata"
    <2>1. CASE taken[c] + 1 = Len(StepsFor(ix))
      BY <1>1, <1>2, <1>5, <2>1, StepsFacts
    <2>2. CASE taken[c] + 1 # Len(StepsFor(ix))
      <3>1. taken[c] + 1 \in 1..(Len(StepsFor(ix)) - 1) /\ taken[c] + 1 < Len(StepsFor(ix))
        BY <1>2, <1>3, <2>2
      <3>2. StepsFor(ix)[taken[c] + 1] \in SetupSteps  BY <1>5, <3>1, StepsFacts
      <3> QED  BY <1>1, <1>2, <1>5, <3>1, <3>2
    <2> QED  BY <2>1, <2>2
  <1> QED  BY <1>4, <1>5

LEMMA SetupStepKinds ==
    ASSUME NEW s \in SetupSteps
    PROVE  /\ s.do \in {"ata", "volume", "vault"}
           /\ s.do \in {"ata", "volume"} => s.acct \in OtherAccounts
  BY AccountNames DEF SetupSteps

\* Which instruction a step to open an account is for, and whether the step
\* ends it.
LEMMA StepOpens ==
    ASSUME SetupTypeOK, NEW c \in Calls, Appending(c)
    PROVE  /\ Now(c).do = "ata" /\ Now(c).acct \in UserAccounts =>
                /\ Raw(c).op = "ata" /\ Raw(c).acct = Now(c).acct
                /\ taken[c] + 1 = Len(StepsFor(Raw(c)))
           /\ Now(c).do = "ata" /\ Now(c).acct \notin UserAccounts =>
                taken[c] + 1 < Len(StepsFor(Raw(c)))
           /\ Now(c).do \in {"volume", "vault"} => taken[c] + 1 < Len(StepsFor(Raw(c)))
           /\ Now(c).do = "keep" => Raw(c).op # "ata" /\ taken[c] + 1 = Len(StepsFor(Raw(c)))
  <1>1. UserAccounts \cap OtherAccounts = {}  BY DEF UserAccounts, OtherAccounts
  <1>2. Now(c) \in SetupSteps =>
            /\ Now(c).do \in {"ata", "volume", "vault"}
            /\ Now(c).do \in {"ata", "volume"} => Now(c).acct \in OtherAccounts
    BY SetupStepKinds
  <1> QED  BY <1>1, <1>2, StepKinds

\* The purse before and after an instruction, and what a well built route
\* promises of it.
LEMMA PurseNow ==
    ASSUME SetupTypeOK, NEW c \in Calls, Appending(c),
           NEW ix, ix = Raw(c), NEW purse, purse = Purses(route[c])[turn[c]]
    PROVE  /\ purse \in PurseSet /\ Spend(purse, ix) \in PurseSet
           /\ Purses(route[c])[turn[c] + 1] = Spend(purse, ix)
           /\ Spend(purse, ix).sol >= 0 /\ Spend(purse, ix).wsol >= 0
           /\ NeedsWsol(ix) => purse.open
           /\ OpensWsol(ix) => \E j \in (turn[c] + 2)..Len(route[c]) : route[c][j].op = "close"
           /\ ix \in Swaps =>
                /\ ix.opens \subseteq Listed(ix)
                /\ \A a \in ix.uses \ ({"wsol"} \cup Held) :
                    \E j \in 1..turn[c] : route[c][j].op = "ata" /\ route[c][j].acct = a
  <1>1. /\ route[c] \in Seq(RawInstructions) /\ WellBuilt(route[c])
        /\ turn[c] + 1 \in 1..Len(route[c]) /\ turn[c] \in Nat /\ ix = route[c][turn[c] + 1]
        /\ Len(route[c]) \in Nat /\ ix \in RawInstructions
    BY RouteType, PendingType
  <1>2. turn[c] \in 0..Len(route[c]) /\ turn[c] + 1 - 1 = turn[c] /\ turn[c] + 1 + 1 = turn[c] + 2
    BY <1>1
  <1>3. purse \in PurseSet  BY <1>1, <1>2, PurseSteps
  <1>4. Purses(route[c])[turn[c] + 1] = Spend(purse, ix)
    <2>1. Purses(route[c])[turn[c] + 1] = Spend(Purses(route[c])[turn[c] + 1 - 1], route[c][turn[c] + 1])
      BY <1>1, PurseSteps
    <2> QED  BY <1>1, <1>2, <2>1
  <1>5. Spend(purse, ix) \in PurseSet  BY <1>1, <1>3, SpendFacts
  <1>6. /\ OpensWsol(ix) => \E j \in (turn[c] + 1 + 1)..Len(route[c]) : route[c][j].op = "close"
        /\ NeedsWsol(ix) => Purses(route[c])[turn[c] + 1 - 1].open
        /\ Purses(route[c])[turn[c] + 1].sol >= 0 /\ Purses(route[c])[turn[c] + 1].wsol >= 0
        /\ ix \in Swaps =>
            /\ ix.opens \subseteq Listed(ix)
            /\ \A a \in ix.uses \ ({"wsol"} \cup Held) :
                \E j \in 1..(turn[c] + 1 - 1) : route[c][j].op = "ata" /\ route[c][j].acct = a
    BY <1>1 DEF WellBuilt, OpensWsol
  <1> QED  BY <1>2, <1>3, <1>4, <1>5, <1>6

\* What is done for earlier instructions, and for this one so far, stays done.
LEMMA OpenedStep ==
    ASSUME SetupTypeOK, NEW c \in Calls, BuilderStep(c), Opened(c),
           \A a \in Accounts \ {"wsol", "vault"} :
                accounts[c][a].initialized => accounts'[c][a].initialized,
           accounts[c]["vault"].lamports >= VaultRent => accounts'[c]["vault"].lamports >= VaultRent,
           Now(c).do \in {"ata", "volume"} => accounts'[c][Now(c).acct].initialized,
           Now(c).do = "vault" => accounts'[c]["vault"].lamports >= VaultRent
    PROVE  Opened(c)'
  <1>1. Appending(c) /\ Took(c)  BY DEF BuilderStep
  <1>2. /\ route' = route /\ turn[c] \in Nat /\ taken[c] \in Nat /\ turn[c] + 1 \in 1..Len(route[c])
        /\ \A j \in 1..turn[c] : route[c][j] \in RawInstructions
    <2>1. route' = route  BY <1>1, TookFacts
    <2>2. turn[c] \in Nat /\ taken[c] \in Nat  BY DEF SetupTypeOK
    <2>3. turn[c] + 1 \in 1..Len(route[c]) /\ Len(route[c]) \in Nat /\ route[c] \in Seq(RawInstructions)
      BY <1>1, PendingType, RouteType
    <2>4. \A j \in 1..turn[c] : j \in 1..Len(route[c])  BY <2>2, <2>3
    <2> QED  BY <2>1, <2>2, <2>3, <2>4
  <1>3. ASSUME NEW j \in 1..turn[c], route[c][j].op = "ata", route[c][j].acct # "wsol"
        PROVE  accounts'[c][route[c][j].acct].initialized
    <2>1. route[c][j] \in RawInstructions  BY <1>2
    <2>2. route[c][j].acct \in UserAccounts  BY <1>3, <2>1 DEF RawInstructions, Swaps
    <2>3. route[c][j].acct \in Accounts \ {"wsol", "vault"}
      BY <1>3, <2>2 DEF Accounts, UserAccounts
    <2> QED  BY <1>3, <2>3 DEF Opened
  <1>4. CASE /\ taken[c] + 1 < Len(StepsFor(Raw(c)))
             /\ turn'[c] = turn[c] /\ taken'[c] = taken[c] + 1
    <2>1. Raw(c)' = Raw(c)  BY <1>2, <1>4 DEF Raw
    <2>2. StepsFor(Raw(c))' = StepsFor(Raw(c))
      BY <2>1 DEF StepsFor, PumpSwapSetup, PumpFunSetup, Volume
    <2>3. ASSUME NEW i \in 1..(taken[c] + 1)
          PROVE  /\ StepsFor(Raw(c))[i].do \in {"ata", "volume"} =>
                        accounts'[c][StepsFor(Raw(c))[i].acct].initialized
                 /\ StepsFor(Raw(c))[i].do = "vault" => accounts'[c]["vault"].lamports >= VaultRent
      <3>1. CASE i = taken[c] + 1
        <4>1. StepsFor(Raw(c))[i] = Now(c)  BY <3>1 DEF Now
        <4> QED  BY <4>1
      <3>2. CASE i # taken[c] + 1
        <4>1. i \in 1..taken[c] /\ i \in 1..(Len(StepsFor(Raw(c))) - 1)
          <5>1. Len(StepsFor(Raw(c))) \in Nat  BY <1>1, PendingType, StepsFacts
          <5> QED  BY <1>2, <1>4, <3>2, <5>1
        <4>2. Raw(c).op # "ata"  BY <1>1, <1>4, StepKinds
        <4>3. StepsFor(Raw(c))[i] \in SetupSteps
          BY <1>1, <4>1, <4>2, PendingType, StepsFacts
        <4>4. StepsFor(Raw(c))[i].do \in {"ata", "volume"} =>
                    StepsFor(Raw(c))[i].acct \in Accounts \ {"wsol", "vault"}
          BY <4>3, SetupStepKinds, AccountNames
        <4>5. /\ StepsFor(Raw(c))[i].do \in {"ata", "volume"} =>
                    accounts[c][StepsFor(Raw(c))[i].acct].initialized
              /\ StepsFor(Raw(c))[i].do = "vault" => accounts[c]["vault"].lamports >= VaultRent
          BY <4>1 DEF Opened
        <4> QED  BY <4>4, <4>5
      <3> QED  BY <3>1, <3>2
    <2> QED  BY <1>2, <1>3, <1>4, <2>2, <2>3 DEF Opened
  <1>5. CASE /\ taken[c] + 1 = Len(StepsFor(Raw(c)))
             /\ turn'[c] = turn[c] + 1 /\ taken'[c] = 0
    <2>1. ASSUME Raw(c).op = "ata", Raw(c).acct # "wsol"
          PROVE  accounts'[c][Raw(c).acct].initialized
      <3>1. Now(c).do = "ata" /\ Now(c).acct = Raw(c).acct  BY <1>1, <2>1, StepKinds
      <3> QED  BY <3>1
    <2>2. ASSUME NEW j \in 1..(turn[c] + 1), route[c][j].op = "ata", route[c][j].acct # "wsol"
          PROVE  accounts'[c][route[c][j].acct].initialized
      <3>1. CASE j = turn[c] + 1
        <4>1. route[c][j] = Raw(c)  BY <3>1 DEF Raw
        <4> QED  BY <2>1, <2>2, <4>1
      <3>2. CASE j # turn[c] + 1
        <4>1. j \in 1..turn[c]  BY <1>2, <3>2
        <4> QED  BY <1>3, <2>2, <4>1
      <3> QED  BY <3>1, <3>2
    <2>3. 1..0 = {}  OBVIOUS
    <2> QED  BY <1>2, <1>5, <2>2, <2>3 DEF Opened
  <1> QED  BY <1>1, <1>4, <1>5, TookFacts

LEMMA RememberedStep ==
    ASSUME SetupTypeOK, NEW c \in Calls, Remembered(c), NEW a \in Accounts, NEW after \in SetupAccount,
           accounts'[c] = [accounts[c] EXCEPT ![a] = after],
           a = "wsol" => after.initialized \/ after = Absent,
           \A b \in Accounts \ {a} : seen'[c][b] = seen[c][b]
    PROVE  Remembered(c)'
  <1>1. /\ accounts'[c][a] = after /\ after # Unread
        /\ \A b \in Accounts \ {a} : accounts'[c][b] = accounts[c][b]
    BY NotUnread DEF SetupTypeOK
  <1>2. \A b \in Accounts : accounts'[c][b] = Unread => seen'[c][b] = Unread
    BY <1>1 DEF Remembered
  <1>3. accounts'[c]["wsol"].initialized \/ accounts'[c]["wsol"] \in {Unread, Absent}
    BY <1>1, AccountNames DEF Remembered
  <1> QED  BY <1>2, <1>3 DEF Remembered

\* What is read of account a before the step decides.
LEMMA ReadFirst ==
    ASSUME SetupTypeOK, NEW c \in Calls, Remembered(c), FreshStory(c), NEW a \in Accounts,
           NEW account, account = Account(c, a),
           seen'[c] = IF accounts[c][a] = Unread THEN [seen[c] EXCEPT ![a] = chain[a]] ELSE seen[c]
    PROVE  /\ account \in SetupAccount /\ accounts[c] \in [Accounts -> SetupCache]
           /\ program[c] \in Seq(Instructions)
           /\ [accounts[c] EXCEPT ![a] = account] \in [Accounts -> SetupCache]
           /\ \A b \in Accounts \ {a} : seen'[c][b] = seen[c][b]
           /\ Lands(program[c], seen'[c], [accounts[c] EXCEPT ![a] = account],
                    Purses(route[c])[turn[c]])
  <1>1. account \in SetupAccount  BY AccountFacts
  <1>2. /\ accounts[c] \in [Accounts -> SetupCache] /\ seen[c] \in [Accounts -> SetupCache]
        /\ program[c] \in Seq(Instructions)
    BY DEF SetupTypeOK, SetupCache
  <1>3. Lands(program[c], seen[c], accounts[c], Purses(route[c])[turn[c]])  BY DEF FreshStory
  <1>4. CASE accounts[c][a] = Unread
    <2>1. account = chain[a] /\ seen[c][a] = Unread  BY <1>4 DEF Account, Remembered
    <2>2. Lands(program[c], [seen[c] EXCEPT ![a] = account], [accounts[c] EXCEPT ![a] = account],
                Purses(route[c])[turn[c]])
      BY <1>1, <1>2, <1>3, <1>4, <2>1, LandsRead
    <2>3. seen'[c] = [seen[c] EXCEPT ![a] = account]  BY <1>4, <2>1
    <2> QED  BY <1>1, <1>2, <2>2, <2>3 DEF SetupCache
  <1>5. CASE accounts[c][a] # Unread
    <2>1. account = accounts[c][a] /\ seen'[c] = seen[c]  BY <1>5 DEF Account
    <2>2. [accounts[c] EXCEPT ![a] = account] = accounts[c]  BY <1>2, <2>1
    <2> QED  BY <1>1, <1>2, <1>3, <2>1, <2>2
  <1> QED  BY <1>4, <1>5

\* A step that leaves the refund and the WSOL account alone.
LEMMA PurseStay ==
    ASSUME SetupTypeOK, NEW c \in Calls, BuilderStep(c), PurseStory(c), refund'[c] = refund[c],
           turn'[c] = turn[c] + 1 => Raw(c).op # "close",
           Purses(route'[c])[turn'[c]].open = Purses(route[c])[turn[c]].open,
           ~Purses(route'[c])[turn'[c]].open => Purses(route'[c])[turn'[c]].wsol = 0,
           accounts[c]["wsol"].initialized => accounts'[c]["wsol"].initialized
    PROVE  PurseStory(c)'
  <1>1. /\ route' = route /\ turn'[c] \in {turn[c], turn[c] + 1}
        /\ turn[c] \in Nat /\ Raw(c) = route[c][turn[c] + 1] /\ Len(route[c]) \in Nat
    BY TookFacts, PendingType, RouteType DEF BuilderStep
  <1>2. ASSUME refund'[c] > 0
        PROVE  \E j \in (turn'[c] + 1)..Len(route[c]) : route[c][j].op = "close"
    <2>1. PICK j \in (turn[c] + 1)..Len(route[c]) : route[c][j].op = "close"
      BY <1>2 DEF PurseStory
    <2>2. j \in (turn'[c] + 1)..Len(route[c])
      <3>1. CASE turn'[c] = turn[c]  BY <3>1
      <3>2. CASE turn'[c] = turn[c] + 1
        <4>1. j # turn[c] + 1  BY <1>1, <2>1, <3>2
        <4> QED  BY <1>1, <3>2, <4>1
      <3> QED  BY <1>1, <3>1, <3>2
    <2> QED  BY <2>1, <2>2
  <1> QED  BY <1>1, <1>2 DEF PurseStory

\* The builder's step within an instruction leaves the purse, too.
LEMMA SamePurse ==
    ASSUME SetupTypeOK, NEW c \in Calls, BuilderStep(c), taken[c] + 1 < Len(StepsFor(Raw(c)))
    PROVE  turn'[c] = turn[c] /\ route' = route
           /\ Purses(route'[c])[turn'[c]] = Purses(route[c])[turn[c]]
  <1>1. Appending(c) /\ Took(c)  BY DEF BuilderStep
  <1>2. Raw(c) \in RawInstructions  BY <1>1, PendingType
  <1>3. Len(StepsFor(Raw(c))) \in Nat /\ taken[c] \in Nat
    BY <1>2, StepsFacts DEF SetupTypeOK
  <1>4. route' = route /\ turn'[c] = turn[c]  BY <1>1, <1>3, TookFacts
  <1> QED  BY <1>4

LEMMA NextPurse ==
    ASSUME SetupTypeOK, NEW c \in Calls, BuilderStep(c), taken[c] + 1 = Len(StepsFor(Raw(c)))
    PROVE  turn'[c] = turn[c] + 1 /\ route' = route
           /\ Purses(route'[c])[turn'[c]] = Spend(Purses(route[c])[turn[c]], Raw(c))
  <1>1. Appending(c) /\ Took(c)  BY DEF BuilderStep
  <1>2. Raw(c) \in RawInstructions  BY <1>1, PendingType
  <1>3. Len(StepsFor(Raw(c))) \in Nat /\ taken[c] \in Nat
    BY <1>2, StepsFacts DEF SetupTypeOK
  <1>4. route' = route /\ turn'[c] = turn[c] + 1  BY <1>1, <1>3, TookFacts
  <1> QED  BY <1>1, <1>4, PurseNow

\* The WSOL account is opened by a block of the route; every other account
\* create_ata opens leaves the purse as it is.
LEMMA CreatePurse ==
    ASSUME SetupTypeOK, NEW c \in Calls, BuilderStep(c), Now(c).do = "ata",
           NEW a, a = Now(c).acct, NEW purse, purse = Purses(route[c])[turn[c]]
    PROVE  /\ purse \in PurseSet /\ a \in Accounts \ {"vault"}
           /\ turn'[c] = turn[c] + 1 => Raw(c).op = "ata"
           /\ a # "wsol" => Purses(route'[c])[turn'[c]] = purse
           /\ a = "wsol" => /\ OpensWsol(Raw(c)) /\ turn'[c] = turn[c] + 1
                            /\ Purses(route'[c])[turn'[c]] = [purse EXCEPT !.open = TRUE]
  <1>1. Appending(c) /\ Took(c)  BY DEF BuilderStep
  <1>2. Raw(c) \in RawInstructions /\ purse \in PurseSet  BY <1>1, PendingType, PurseNow
  <1>3. Now(c) \in SomeStep  BY <1>1, PendingType
  <1>4. a \in UserAccounts \cup OtherAccounts  BY <1>3 DEF SomeStep, SetupSteps
  <1>5. a \in Accounts \ {"vault"} /\ (a = "wsol" => a \in UserAccounts)
    BY <1>4 DEF Accounts, UserAccounts, OtherAccounts
  <1>6. CASE a \in UserAccounts
    <2>1. Raw(c).op = "ata" /\ Raw(c).acct = a /\ taken[c] + 1 = Len(StepsFor(Raw(c)))
      BY <1>1, <1>6, StepOpens
    <2>2. /\ turn'[c] = turn[c] + 1
          /\ Purses(route'[c])[turn'[c]] = Spend(purse, Raw(c))
      BY <2>1, NextPurse
    <2>3. Spend(purse, Raw(c)) = [purse EXCEPT !.open = @ \/ a = "wsol"]
      BY <1>2, <2>1, SpendFacts
    <2>4. a # "wsol" => [purse EXCEPT !.open = @ \/ a = "wsol"] = purse
      BY <1>2 DEF PurseSet
    <2>5. a = "wsol" => [purse EXCEPT !.open = @ \/ a = "wsol"] = [purse EXCEPT !.open = TRUE]
      BY <1>2 DEF PurseSet
    <2> QED  BY <1>2, <1>5, <2>1, <2>2, <2>3, <2>4, <2>5 DEF OpensWsol
  <1>7. CASE a \notin UserAccounts
    <2>1. taken[c] + 1 < Len(StepsFor(Raw(c)))
      <3>1. Now(c).do = "ata" /\ Now(c).acct \notin UserAccounts  BY <1>7
      <3> QED  BY <1>1, <3>1, StepOpens
    <2>2. turn'[c] = turn[c] /\ Purses(route'[c])[turn'[c]] = purse  BY <2>1, SamePurse
    <2>3. turn[c] \in Nat  BY DEF SetupTypeOK
    <2> QED  BY <1>2, <1>5, <1>7, <2>2, <2>3
  <1> QED  BY <1>6, <1>7

LEMMA CreateAtaPurse ==
    ASSUME SetupTypeOK, NEW c \in Calls, CreateAta(c), BuilderStory(c)
    PROVE  PurseStory(c)'
  <1>1. PICK a : a = Now(c).acct  OBVIOUS
  <1>2. PICK account : account = Account(c, a)  OBVIOUS
  <1>3. /\ BuilderStep(c) /\ Now(c).do = "ata" /\ a \in Accounts /\ account \in SetupAccount
        /\ a # "wsol" => refund'[c] = refund[c]
        /\ \E after \in SetupAccount :
              accounts'[c] = [accounts[c] EXCEPT ![a] = after] /\ after.initialized = TRUE
    <2>1. /\ BuilderStep(c) /\ Now(c).do = "ata" /\ a \in Accounts /\ account \in SetupAccount
          /\ seen'[c] = IF accounts[c][a] = Unread THEN [seen[c] EXCEPT ![a] = chain[a]] ELSE seen[c]
          /\ \/ /\ account.initialized
                /\ program'[c] = program[c] /\ refund'[c] = refund[c]
                /\ accounts'[c] = [accounts[c] EXCEPT ![a] = account]
             \/ /\ ~account.initialized
                /\ Ata(a, Strict(a)) \in Instructions
                /\ program'[c] = Append(program[c], Ata(a, Strict(a)))
                /\ refund'[c] = IF a = "wsol" THEN Monus(TokenRent, account.lamports) ELSE refund[c]
                /\ accounts'[c] = [accounts[c] EXCEPT ![a] =
                                      [initialized |-> TRUE, lamports |-> account.lamports]]
      BY <1>1, <1>2, CreateAtaFacts
    <2>2. /\ account.initialized \in BOOLEAN
          /\ [initialized |-> TRUE, lamports |-> account.lamports] \in SetupAccount
      BY <2>1 DEF SetupAccount
    <2> QED  BY <2>1, <2>2
  <1>4. PICK purse : purse = Purses(route[c])[turn[c]]  OBVIOUS
  <1>5. PICK purse2 : purse2 = Purses(route'[c])[turn'[c]]  OBVIOUS
  <1>6. /\ purse \in PurseSet
        /\ turn'[c] = turn[c] + 1 => Raw(c).op = "ata"
        /\ a # "wsol" => purse2 = purse
        /\ a = "wsol" => /\ OpensWsol(Raw(c)) /\ turn'[c] = turn[c] + 1
                         /\ purse2 = [purse EXCEPT !.open = TRUE]
    BY <1>1, <1>3, <1>4, <1>5, CreatePurse
  <1>7. accounts[c]["wsol"].initialized \/ a = "wsol" => accounts'[c]["wsol"].initialized
    BY <1>3, AccountNames DEF SetupTypeOK
  <1>8. CASE a = "wsol"
    <2>1. Appending(c) /\ route' = route /\ turn[c] \in Nat
      BY <1>3, TookFacts DEF BuilderStep, SetupTypeOK
    <2>2. \E j \in (turn[c] + 2)..Len(route[c]) : route[c][j].op = "close"
      BY <1>6, <1>8, <2>1, PurseNow
    <2>3. purse2.open /\ turn'[c] + 1 = turn[c] + 2  BY <1>6, <1>8, <2>1 DEF PurseSet
    <2>4. \E j \in (turn'[c] + 1)..Len(route'[c]) : route'[c][j].op = "close"
      BY <2>1, <2>2, <2>3
    <2>5. accounts'[c]["wsol"].initialized  BY <1>7, <1>8
    <2> QED  BY <1>5, <2>3, <2>4, <2>5 DEF PurseStory
  <1>9. CASE a # "wsol"
    <2>1. purse2 = purse /\ refund'[c] = refund[c]  BY <1>3, <1>6, <1>9
    <2>2. ~purse.open => purse.wsol = 0  BY <1>4 DEF BuilderStory, PurseStory
    <2>3. turn'[c] = turn[c] + 1 => Raw(c).op # "close"  BY <1>6
    <2>4. PurseStory(c)  BY DEF BuilderStory
    <2> QED  BY <1>3, <1>4, <1>5, <1>7, <2>1, <2>2, <2>3, <2>4, PurseStay
  <1> QED  BY <1>8, <1>9

LEMMA CreateAtaMoney ==
    ASSUME SetupTypeOK, NEW c \in Calls, CreateAta(c), BuilderStory(c)
    PROVE  MoneyStory(c)'
  <1>1. PICK a : a = Now(c).acct  OBVIOUS
  <1>2. PICK account : account = Account(c, a)  OBVIOUS
  <1>3. PICK prog \in Seq(Instructions), read \in SetupCache, wsol \in SetupCache, due \in Nat :
            prog = program[c] /\ read = seen[c]["wsol"] /\ wsol = accounts[c]["wsol"] /\ due = refund[c]
    <2>1. program[c] \in Seq(Instructions) /\ refund[c] \in 0..TokenRent  BY DEF SetupTypeOK
    <2>2. seen[c]["wsol"] \in SetupCache /\ accounts[c]["wsol"] \in SetupCache
      BY AccountNames DEF SetupTypeOK, SetupCache
    <2>3. refund[c] \in Nat  BY <2>1, SetupConstants
    <2> QED  BY <2>1, <2>2, <2>3
  <1>4. /\ a \in Accounts /\ account \in SetupAccount
        /\ seen'[c] = IF accounts[c][a] = Unread THEN [seen[c] EXCEPT ![a] = chain[a]] ELSE seen[c]
        /\ \/ /\ account.initialized
              /\ program'[c] = program[c] /\ refund'[c] = refund[c]
              /\ accounts'[c] = [accounts[c] EXCEPT ![a] = account]
           \/ /\ ~account.initialized
              /\ Ata(a, Strict(a)) \in Instructions
              /\ program'[c] = Append(program[c], Ata(a, Strict(a)))
              /\ refund'[c] = IF a = "wsol" THEN Monus(TokenRent, account.lamports) ELSE refund[c]
              /\ accounts'[c] = [accounts[c] EXCEPT ![a] =
                                    [initialized |-> TRUE, lamports |-> account.lamports]]
    BY <1>1, <1>2, CreateAtaFacts
  <1>5. Money(prog, read, wsol, due)  BY <1>3 DEF BuilderStory, MoneyStory
  <1>6. /\ "wsol" \in Accounts /\ accounts[c] \in [Accounts -> SetupCache]
        /\ seen[c] \in [Accounts -> SetupCache]
    BY AccountNames DEF SetupTypeOK, SetupCache
  <1>7. SUFFICES Money(program'[c], seen'[c]["wsol"], accounts'[c]["wsol"], refund'[c])
    BY DEF MoneyStory
  <1>8. CASE a # "wsol"
    <2>1. seen'[c]["wsol"] = read /\ accounts'[c]["wsol"] = wsol /\ refund'[c] = due
      BY <1>3, <1>4, <1>6, <1>8
    <2>2. CASE account.initialized  BY <1>3, <1>4, <1>5, <2>1, <2>2
    <2>3. CASE ~account.initialized
      <3>1. PICK ix \in Instructions : ix = Ata(a, Strict(a))  BY <1>4, <2>3
      <3>2. Quiet(ix)  BY <1>8, <3>1 DEF Quiet, OpensWsol, Ata
      <3>3. Money(Append(prog, ix), read, wsol, due)  BY <1>5, <3>2, MoneyQuiet
      <3> QED  BY <1>3, <1>4, <2>1, <2>3, <3>1, <3>3
    <2> QED  BY <2>2, <2>3
  <1>9. CASE a = "wsol" /\ account.initialized
    <2>1. /\ program'[c] = prog /\ refund'[c] = due /\ accounts'[c]["wsol"] = account
      BY <1>3, <1>4, <1>6, <1>9
    <2>2. CASE wsol = Unread
      <3>1. due = 0
        <4>1. ~(refund[c] > 0)
          BY <1>3, <2>2, NotUnread DEF BuilderStory, PurseStory
        <4> QED  BY <1>3, <4>1
      <3>2. read = Unread  BY <1>3, <1>6, <2>2 DEF BuilderStory, Remembered
      <3>3. seen'[c]["wsol"] = account
        <4>1. account = chain["wsol"]  BY <1>2, <1>3, <1>9, <2>2 DEF Account
        <4> QED  BY <1>3, <1>4, <1>6, <1>9, <2>2, <4>1
      <3>4. Money(prog, Unread, Unread, 0)  BY <1>5, <2>2, <3>1, <3>2
      <3>5. Money(prog, account, account, 0)  BY <1>4, <1>9, <3>4, MoneyRead
      <3> QED  BY <2>1, <3>1, <3>3, <3>5
    <2>3. CASE wsol # Unread
      <3>1. account = wsol /\ seen'[c]["wsol"] = read
        BY <1>2, <1>3, <1>4, <1>9, <2>3 DEF Account
      <3> QED  BY <1>5, <2>1, <3>1
    <2> QED  BY <2>2, <2>3
  <1>10. CASE a = "wsol" /\ ~account.initialized
    <2>1. /\ program'[c] = Append(prog, Ata("wsol", TRUE))
          /\ refund'[c] = Monus(TokenRent, account.lamports)
          /\ accounts'[c]["wsol"] = [initialized |-> TRUE, lamports |-> account.lamports]
      BY <1>3, <1>4, <1>6, <1>10 DEF Strict
    <2>2. PICK after \in SetupAccount : after = accounts'[c]["wsol"] /\ after.initialized = TRUE
      <3>1. [initialized |-> TRUE, lamports |-> account.lamports] \in SetupAccount
        BY <1>4 DEF SetupAccount
      <3> QED  BY <2>1, <3>1
    <2>3. wsol \in {Unread, Absent}
      <3>1. ~wsol.initialized
        <4>1. wsol # Unread => account = wsol  BY <1>2, <1>3, <1>10 DEF Account
        <4> QED  BY <1>10, <4>1, NotUnread
      <3> QED  BY <1>3, <3>1 DEF BuilderStory, Remembered
    <2>4. wsol = Absent => account = Absent
      BY <1>2, <1>3, <1>10, NotUnread DEF Account
    <2>5. due = 0
      <3>1. ~(refund[c] > 0)
        BY <1>3, <2>3, NotUnread DEF BuilderStory, PurseStory
      <3> QED  BY <1>3, <3>1
    <2>6. PICK fresh : fresh = IF wsol = Unread THEN account ELSE read  OBVIOUS
    <2>7. seen'[c]["wsol"] = fresh
      <3>1. wsol = Unread => account = chain["wsol"]  BY <1>2, <1>3, <1>10 DEF Account
      <3> QED  BY <1>3, <1>4, <1>6, <1>10, <2>6, <3>1
    <2>8. Money(prog, read, wsol, 0)  BY <1>5, <2>5
    <2>9. Money(Append(prog, Ata("wsol", TRUE)), fresh, after, Monus(TokenRent, account.lamports))
      BY <1>4, <1>10, <2>2, <2>3, <2>4, <2>6, <2>8, MoneyOpen
    <2> QED  BY <2>1, <2>2, <2>7, <2>9
  <1> QED  BY <1>8, <1>9, <1>10

LEMMA CreateAtaFresh ==
    ASSUME SetupTypeOK, NEW c \in Calls, CreateAta(c), BuilderStory(c)
    PROVE  FreshStory(c)' /\ Remembered(c)' /\ Opened(c)'
  <1>1. PICK a : a = Now(c).acct  OBVIOUS
  <1>2. PICK account : account = Account(c, a)  OBVIOUS
  <1>3. PICK purse : purse = Purses(route[c])[turn[c]]  OBVIOUS
  <1>4. PICK purse2 : purse2 = Purses(route'[c])[turn'[c]]  OBVIOUS
  <1>5. /\ BuilderStep(c) /\ Now(c).do = "ata" /\ a \in Accounts /\ account \in SetupAccount
        /\ seen'[c] = IF accounts[c][a] = Unread THEN [seen[c] EXCEPT ![a] = chain[a]] ELSE seen[c]
        /\ \/ /\ account.initialized
              /\ program'[c] = program[c] /\ refund'[c] = refund[c]
              /\ accounts'[c] = [accounts[c] EXCEPT ![a] = account]
           \/ /\ ~account.initialized
              /\ Ata(a, Strict(a)) \in Instructions
              /\ program'[c] = Append(program[c], Ata(a, Strict(a)))
              /\ refund'[c] = IF a = "wsol" THEN Monus(TokenRent, account.lamports) ELSE refund[c]
              /\ accounts'[c] = [accounts[c] EXCEPT ![a] =
                                    [initialized |-> TRUE, lamports |-> account.lamports]]
    BY <1>1, <1>2, CreateAtaFacts
  <1>6. Remembered(c) /\ FreshStory(c) /\ PurseStory(c) /\ Opened(c)  BY DEF BuilderStory
  <1>7. PICK known \in [Accounts -> SetupCache] : known = [accounts[c] EXCEPT ![a] = account]
    BY <1>2, <1>5, <1>6, ReadFirst
  <1>8. /\ program[c] \in Seq(Instructions) /\ accounts[c] \in [Accounts -> SetupCache]
        /\ \A b \in Accounts \ {a} : seen'[c][b] = seen[c][b]
        /\ Lands(program[c], seen'[c], known, purse)
    BY <1>2, <1>3, <1>5, <1>6, <1>7, ReadFirst
  <1>9. /\ purse \in PurseSet /\ a \in Accounts \ {"vault"}
        /\ a # "wsol" => purse2 = purse
        /\ a = "wsol" => purse2 = [purse EXCEPT !.open = TRUE]
    BY <1>1, <1>3, <1>4, <1>5, CreatePurse
  <1>10. known[a] = account /\ account # Unread
    BY <1>5, <1>7, <1>8, NotUnread
  <1>11. \E after \in SetupAccount :
            /\ after.initialized = TRUE /\ accounts'[c] = [known EXCEPT ![a] = after]
            /\ accounts'[c] = [accounts[c] EXCEPT ![a] = after]
            /\ Lands(program'[c], seen'[c], [known EXCEPT ![a] = after], purse)
    <2>1. \A after : [known EXCEPT ![a] = after] = [accounts[c] EXCEPT ![a] = after]
      BY <1>5, <1>7, <1>8
    <2>2. CASE account.initialized
      <3>1. [known EXCEPT ![a] = account] = known  BY <1>10
      <3>2. account.initialized = TRUE  BY <1>5, <2>2 DEF SetupAccount
      <3> QED  BY <1>5, <1>7, <1>8, <2>1, <2>2, <3>1, <3>2
    <2>3. CASE ~account.initialized
      <3>1. PICK ix \in Instructions : ix = Ata(a, Strict(a))  BY <1>5, <2>3
      <3>2. ix.op = "ata" /\ ix.acct = a  BY <3>1 DEF Ata
      <3>3. PICK after \in SetupAccount : after = [initialized |-> TRUE, lamports |-> account.lamports]
        BY <1>5 DEF SetupAccount
      <3>4. after.initialized = TRUE  BY <3>3
      <3>5. Lands(Append(program[c], ix), seen'[c], [known EXCEPT ![a] = after], purse)
        BY <1>8, <1>9, <1>10, <2>3, <3>2, <3>4, LandsAta
      <3> QED  BY <1>5, <2>1, <2>3, <3>1, <3>3, <3>4, <3>5
    <2> QED  BY <2>2, <2>3
  <1>12. PICK after \in SetupAccount :
            /\ after.initialized = TRUE /\ accounts'[c] = [known EXCEPT ![a] = after]
            /\ accounts'[c] = [accounts[c] EXCEPT ![a] = after]
            /\ Lands(program'[c], seen'[c], [known EXCEPT ![a] = after], purse)
    BY <1>11
  <1>13. FreshStory(c)'
    <2>1. CASE a # "wsol"  BY <1>4, <1>9, <1>12, <2>1 DEF FreshStory
    <2>2. CASE a = "wsol"
      <3>1. PICK cache2 \in [Accounts -> SetupCache] : cache2 = [known EXCEPT ![a] = after]
        BY DEF SetupCache
      <3>2. cache2["wsol"].initialized  BY <1>9, <1>12, <2>2, <3>1
      <3>3. ~purse.open => purse.wsol = 0  BY <1>3, <1>6 DEF PurseStory
      <3>4. program'[c] \in Seq(Instructions)  BY <1>5 DEF BuilderStep
      <3>5. Lands(program'[c], seen'[c], cache2, [purse EXCEPT !.open = TRUE])
        BY <1>9, <1>12, <3>1, <3>2, <3>3, <3>4, LandsKnown
      <3> QED  BY <1>4, <1>9, <1>12, <2>2, <3>1, <3>5 DEF FreshStory
    <2> QED  BY <2>1, <2>2
  <1>14. Remembered(c)'
    BY <1>5, <1>6, <1>8, <1>12, RememberedStep
  <1>15. /\ accounts'[c][a].initialized
         /\ \A b \in Accounts \ {a} : accounts'[c][b] = accounts[c][b]
    BY <1>5, <1>8, <1>12
  <1>16. Opened(c)'
    <2>1. \A b \in Accounts \ {"wsol", "vault"} :
            accounts[c][b].initialized => accounts'[c][b].initialized
      BY <1>15
    <2>2. accounts'[c]["vault"] = accounts[c]["vault"]  BY <1>9, <1>15, AccountNames
    <2>3. Now(c).do = "ata" /\ accounts'[c][Now(c).acct].initialized  BY <1>1, <1>5, <1>15
    <2> QED  BY <1>5, <1>6, <2>1, <2>2, <2>3, OpenedStep
  <1> QED  BY <1>13, <1>14, <1>16

\* A setup step for an account that is not the user's.
LEMMA SetupStepStory ==
    ASSUME SetupTypeOK, NEW c \in Calls, BuilderStep(c), BuilderStory(c),
           taken[c] + 1 < Len(StepsFor(Raw(c))), NEW a \in Accounts \ {"wsol"},
           seen'[c] = IF accounts[c][a] = Unread THEN [seen[c] EXCEPT ![a] = chain[a]] ELSE seen[c],
           NEW after \in SetupAccount, accounts'[c] = [accounts[c] EXCEPT ![a] = after],
           refund'[c] = refund[c],
           \/ program'[c] = program[c]
           \/ \E ix \in Instructions : Quiet(ix) /\ program'[c] = Append(program[c], ix)
    PROVE  Remembered(c)' /\ PurseStory(c)' /\ MoneyStory(c)'
  <1>1. /\ seen[c] \in [Accounts -> SetupCache] /\ accounts[c] \in [Accounts -> SetupCache]
        /\ program[c] \in Seq(Instructions) /\ refund[c] \in 0..TokenRent /\ "wsol" \in Accounts
    BY AccountNames DEF SetupTypeOK, SetupCache
  <1>2. /\ \A b \in Accounts \ {a} : seen'[c][b] = seen[c][b]
        /\ seen'[c]["wsol"] = seen[c]["wsol"] /\ accounts'[c]["wsol"] = accounts[c]["wsol"]
    BY <1>1
  <1>3. Remembered(c) /\ PurseStory(c) /\ MoneyStory(c)  BY DEF BuilderStory
  <1>4. Remembered(c)'  BY <1>2, <1>3, RememberedStep
  <1>5. PurseStory(c)'
    <2>1. turn'[c] = turn[c] /\ Purses(route'[c])[turn'[c]] = Purses(route[c])[turn[c]]
      BY SamePurse
    <2>2. turn'[c] # turn[c] + 1
      <3>1. turn[c] \in Nat  BY DEF SetupTypeOK
      <3> QED  BY <2>1, <3>1
    <2>3. ~Purses(route[c])[turn[c]].open => Purses(route[c])[turn[c]].wsol = 0
      BY <1>3 DEF PurseStory
    <2> QED  BY <1>2, <1>3, <2>1, <2>2, <2>3, PurseStay
  <1>6. MoneyStory(c)'
    <2>1. Money(program[c], seen[c]["wsol"], accounts[c]["wsol"], refund[c])
      BY <1>3 DEF MoneyStory
    <2>2. CASE program'[c] = program[c]  BY <1>2, <2>1, <2>2 DEF MoneyStory
    <2>3. ASSUME NEW ix \in Instructions, Quiet(ix), program'[c] = Append(program[c], ix)
          PROVE  MoneyStory(c)'
      <3>1. PICK read \in SetupCache, wsol \in SetupCache :
                read = seen[c]["wsol"] /\ wsol = accounts[c]["wsol"]
        BY <1>1
      <3>2. refund[c] \in Nat  BY <1>1, SetupConstants
      <3>3. Money(Append(program[c], ix), read, wsol, refund[c])
        BY <1>1, <2>1, <2>3, <3>1, <3>2, MoneyQuiet
      <3> QED  BY <1>2, <2>3, <3>1, <3>3 DEF MoneyStory
    <2> QED  BY <2>2, <2>3
  <1> QED  BY <1>4, <1>5, <1>6

LEMMA InitVolumeStory ==
    ASSUME SetupTypeOK, NEW c \in Calls, InitVolume(c), BuilderStory(c)
    PROVE  BuilderStory(c)'
  <1>1. PICK a : a = Now(c).acct  OBVIOUS
  <1>2. PICK account : account = Account(c, a)  OBVIOUS
  <1>0. PICK ix, made : ix = [op |-> "volume", acct |-> a] /\ made = [initialized |-> TRUE, lamports |-> 0]
    OBVIOUS
  <1>3. /\ BuilderStep(c) /\ Now(c).do = "volume" /\ a \in OtherAccounts /\ account \in SetupAccount
        /\ seen'[c] = IF accounts[c][a] = Unread THEN [seen[c] EXCEPT ![a] = chain[a]] ELSE seen[c]
        /\ refund'[c] = refund[c]
        /\ \/ /\ account.initialized /\ program'[c] = program[c]
              /\ accounts'[c] = [accounts[c] EXCEPT ![a] = account]
           \/ /\ ~account.initialized
              /\ ix \in Instructions /\ made \in SetupAccount
              /\ program'[c] = Append(program[c], ix)
              /\ accounts'[c] = [accounts[c] EXCEPT ![a] = made]
    BY <1>0, <1>1, <1>2, InitVolumeFacts
  <1>4. a \in Accounts \ {"wsol"} /\ a \in Accounts \ {"vault"}  BY <1>3, AccountNames
  <1>5. Remembered(c) /\ FreshStory(c) /\ Opened(c)  BY DEF BuilderStory
  <1>6. PICK purse : purse = Purses(route[c])[turn[c]]  OBVIOUS
  <1>7. PICK known \in [Accounts -> SetupCache] : known = [accounts[c] EXCEPT ![a] = account]
    BY <1>2, <1>3, <1>4, <1>5, ReadFirst
  <1>8. /\ program[c] \in Seq(Instructions) /\ accounts[c] \in [Accounts -> SetupCache]
        /\ Lands(program[c], seen'[c], known, purse)
    BY <1>2, <1>3, <1>4, <1>5, <1>6, <1>7, ReadFirst
  <1>9. /\ known[a] = account /\ account # Unread
        /\ \A after : [known EXCEPT ![a] = after] = [accounts[c] EXCEPT ![a] = after]
    BY <1>3, <1>4, <1>7, <1>8, NotUnread
  <1>10. /\ taken[c] + 1 < Len(StepsFor(Raw(c)))
         /\ Purses(route'[c])[turn'[c]] = purse
    <2>1. taken[c] + 1 < Len(StepsFor(Raw(c)))  BY <1>3, StepOpens DEF BuilderStep
    <2> QED  BY <1>3, <1>6, <2>1, SamePurse
  <1>11. PICK after \in SetupAccount :
            /\ after.initialized = TRUE /\ accounts'[c] = [accounts[c] EXCEPT ![a] = after]
            /\ Lands(program'[c], seen'[c], accounts'[c], purse)
            /\ \/ program'[c] = program[c]
               \/ \E other \in Instructions : Quiet(other) /\ program'[c] = Append(program[c], other)
    <2>1. CASE account.initialized
      <3>1. account.initialized = TRUE  BY <1>3, <2>1 DEF SetupAccount
      <3>2. accounts'[c] = known /\ program'[c] = program[c]  BY <1>3, <1>7, <2>1
      <3> QED  BY <1>3, <1>7, <1>8, <3>1, <3>2
    <2>2. CASE ~account.initialized
      <3>2. ix.op = "volume" /\ ix.acct = a /\ Quiet(ix)  BY <1>0 DEF Quiet, OpensWsol
      <3>4. made.initialized = TRUE  BY <1>0
      <3>5. Lands(Append(program[c], ix), seen'[c], [known EXCEPT ![a] = made], purse)
        BY <1>3, <1>4, <1>8, <1>9, <2>2, <3>2, <3>4, LandsVolume
      <3>6. accounts'[c] = [known EXCEPT ![a] = made] /\ program'[c] = Append(program[c], ix)
        BY <1>3, <1>9, <2>2
      <3> QED  BY <1>3, <1>9, <2>2, <3>2, <3>4, <3>5, <3>6
    <2> QED  BY <2>1, <2>2
  <1>12. Remembered(c)' /\ PurseStory(c)' /\ MoneyStory(c)'
    BY <1>3, <1>4, <1>10, <1>11, SetupStepStory
  <1>13. FreshStory(c)'  BY <1>10, <1>11 DEF FreshStory
  <1>14. Opened(c)'
    <2>1. accounts'[c][a].initialized /\ \A b \in Accounts \ {a} : accounts'[c][b] = accounts[c][b]
      BY <1>4, <1>8, <1>11
    <2>2. \A b \in Accounts \ {"wsol", "vault"} :
            accounts[c][b].initialized => accounts'[c][b].initialized
      BY <2>1
    <2>3. accounts'[c]["vault"] = accounts[c]["vault"]  BY <1>4, <2>1, AccountNames
    <2>4. Now(c).do = "volume" /\ accounts'[c][Now(c).acct].initialized  BY <1>1, <1>3, <2>1
    <2> QED  BY <1>3, <1>5, <2>2, <2>3, <2>4, OpenedStep
  <1> QED  BY <1>12, <1>13, <1>14 DEF BuilderStory

LEMMA FundVaultStory ==
    ASSUME SetupTypeOK, NEW c \in Calls, FundVault(c), BuilderStory(c)
    PROVE  BuilderStory(c)'
  <1>1. PICK account : account = Account(c, "vault")  OBVIOUS
  <1>2. PICK fund : fund = [op |-> "fund", amt |-> VaultRent - account.lamports]  OBVIOUS
  <1>3. /\ BuilderStep(c) /\ Now(c).do = "vault" /\ account \in SetupAccount
        /\ seen'[c] = IF accounts[c]["vault"] = Unread
                      THEN [seen[c] EXCEPT !["vault"] = chain["vault"]] ELSE seen[c]
        /\ refund'[c] = refund[c]
        /\ \/ /\ account.lamports >= VaultRent /\ program'[c] = program[c]
              /\ accounts'[c] = [accounts[c] EXCEPT !["vault"] = account]
           \/ /\ account.lamports < VaultRent
              /\ fund \in Instructions
              /\ program'[c] = Append(program[c], fund)
              /\ accounts'[c] = [accounts[c] EXCEPT !["vault"] =
                                    [initialized |-> FALSE, lamports |-> VaultRent]]
    BY <1>1, <1>2, FundVaultFacts
  <1>4. "vault" \in Accounts \ {"wsol"}  BY AccountNames
  <1>5. Remembered(c) /\ FreshStory(c) /\ Opened(c)  BY DEF BuilderStory
  <1>6. PICK purse : purse = Purses(route[c])[turn[c]]  OBVIOUS
  <1>7. PICK known \in [Accounts -> SetupCache] : known = [accounts[c] EXCEPT !["vault"] = account]
    BY <1>1, <1>3, <1>4, <1>5, ReadFirst
  <1>8. /\ program[c] \in Seq(Instructions) /\ accounts[c] \in [Accounts -> SetupCache]
        /\ Lands(program[c], seen'[c], known, purse)
    BY <1>1, <1>3, <1>4, <1>5, <1>6, <1>7, ReadFirst
  <1>9. /\ known["vault"] = account /\ account # Unread
        /\ \A after : [known EXCEPT !["vault"] = after] = [accounts[c] EXCEPT !["vault"] = after]
    BY <1>3, <1>4, <1>7, <1>8, NotUnread
  <1>10. /\ taken[c] + 1 < Len(StepsFor(Raw(c)))
         /\ Purses(route'[c])[turn'[c]] = purse
    <2>1. taken[c] + 1 < Len(StepsFor(Raw(c)))  BY <1>3, StepOpens DEF BuilderStep
    <2> QED  BY <1>3, <1>6, <2>1, SamePurse
  <1>11. PICK after \in SetupAccount :
            /\ after.lamports >= VaultRent /\ accounts'[c] = [accounts[c] EXCEPT !["vault"] = after]
            /\ Lands(program'[c], seen'[c], accounts'[c], purse)
            /\ \/ program'[c] = program[c]
               \/ \E ix \in Instructions : Quiet(ix) /\ program'[c] = Append(program[c], ix)
    <2>1. CASE account.lamports >= VaultRent /\ program'[c] = program[c]
                /\ accounts'[c] = [accounts[c] EXCEPT !["vault"] = account]
      BY <1>3, <1>7, <1>8, <2>1
    <2>2. CASE /\ account.lamports < VaultRent
               /\ fund \in Instructions
               /\ program'[c] = Append(program[c], fund)
               /\ accounts'[c] = [accounts[c] EXCEPT !["vault"] =
                                    [initialized |-> FALSE, lamports |-> VaultRent]]
      <3>1. fund.op = "fund" /\ fund.amt = VaultRent - known["vault"].lamports /\ Quiet(fund)
        BY <1>2, <1>9 DEF Quiet, OpensWsol
      <3>2. PICK made \in SetupAccount : made = [initialized |-> FALSE, lamports |-> VaultRent]
        BY SetupConstants DEF SetupAccount
      <3>3. made.lamports = VaultRent /\ made.lamports >= VaultRent  BY <3>2, SetupConstants
      <3>4. Lands(Append(program[c], fund), seen'[c], [known EXCEPT !["vault"] = made], purse)
        BY <1>8, <1>9, <2>2, <3>1, <3>3, LandsFund
      <3>5. accounts'[c] = [known EXCEPT !["vault"] = made]  BY <1>9, <2>2, <3>2
      <3> QED  BY <1>9, <2>2, <3>1, <3>3, <3>4, <3>5
    <2> QED  BY <1>3, <2>1, <2>2
  <1>12. Remembered(c)' /\ PurseStory(c)' /\ MoneyStory(c)'
    BY <1>3, <1>4, <1>10, <1>11, SetupStepStory
  <1>13. FreshStory(c)'  BY <1>10, <1>11 DEF FreshStory
  <1>14. Opened(c)'
    <2>1. /\ accounts'[c]["vault"] = after
          /\ \A b \in Accounts \ {"vault"} : accounts'[c][b] = accounts[c][b]
      BY <1>4, <1>8, <1>11
    <2>2. \A b \in Accounts \ {"wsol", "vault"} :
            accounts[c][b].initialized => accounts'[c][b].initialized
      BY <2>1
    <2> QED  BY <1>3, <1>5, <1>11, <2>1, <2>2, OpenedStep
  <1> QED  BY <1>12, <1>13, <1>14 DEF BuilderStory

\* What is open when a swap is kept: all it lists, the vault of a curve's
\* creator, and the user's accounts.
LEMMA SwapReady ==
    ASSUME SetupTypeOK, NEW c \in Calls, Appending(c), Opened(c),
           taken[c] + 1 = Len(StepsFor(Raw(c))),
           NEW ix, ix = Raw(c), ix.op \in {"pumpswap", "pumpfun"}
    PROVE  /\ \A a \in ix.opens : accounts[c][a].initialized
           /\ ix.op = "pumpfun" => accounts[c]["vault"].lamports >= VaultRent
           /\ \A a \in ix.uses \ ({"wsol"} \cup Held) : accounts[c][a].initialized
           /\ "wsol" \in ix.uses => Purses(route[c])[turn[c]].open
           /\ "wsol" \notin ix.uses => ix.wsol = 0
  <1>1. ix \in RawInstructions  BY PendingType
  <1>2. ix \in Swaps /\ (ix.wsol # 0 => "wsol" \in ix.uses)  BY <1>1 DEF RawInstructions
  <1>3. Len(StepsFor(ix)) - 1 = taken[c]
    <2>1. taken[c] \in Nat  BY DEF SetupTypeOK
    <2> QED  BY <2>1
  <1>4. ix.opens \subseteq Listed(ix)  BY <1>2, PurseNow
  <1>5. ASSUME NEW a \in ix.opens PROVE accounts[c][a].initialized
    <2>1. PICK i \in 1..(Len(StepsFor(ix)) - 1) :
              StepsFor(ix)[i].do \in {"ata", "volume"} /\ StepsFor(ix)[i].acct = a
      BY <1>1, <1>2, <1>4, StepsFacts
    <2> QED  BY <1>3, <2>1 DEF Opened
  <1>6. ASSUME ix.op = "pumpfun" PROVE accounts[c]["vault"].lamports >= VaultRent
    <2>1. PICK i \in 1..(Len(StepsFor(ix)) - 1) : StepsFor(ix)[i].do = "vault"
      BY <1>1, <1>6, StepsFacts
    <2> QED  BY <1>3, <2>1 DEF Opened
  <1>7. ASSUME NEW a \in ix.uses \ ({"wsol"} \cup Held) PROVE accounts[c][a].initialized
    <2>1. PICK j \in 1..turn[c] : route[c][j].op = "ata" /\ route[c][j].acct = a
      BY <1>2, PurseNow
    <2> QED  BY <2>1 DEF Opened
  <1>8. "wsol" \in ix.uses => Purses(route[c])[turn[c]].open
    <2>1. "wsol" \in ix.uses => NeedsWsol(ix)  BY <1>2 DEF NeedsWsol
    <2> QED  BY <2>1, PurseNow
  <1> QED  BY <1>2, <1>5, <1>6, <1>7, <1>8

\* Any other instruction than a close.
LEMMA KeepStory ==
    ASSUME SetupTypeOK, NEW c \in Calls, KeepInstruction(c), BuilderStory(c), Raw(c).op # "close"
    PROVE  BuilderStory(c)'
  <1>1. PICK ix : ix = Raw(c)  OBVIOUS
  <1>2. PICK back : back = [op |-> "refund", amt |-> refund[c]]  OBVIOUS
  <1>3. PICK purse : purse = Purses(route[c])[turn[c]]  OBVIOUS
  <1>4. PICK purse2 : purse2 = Purses(route'[c])[turn'[c]]  OBVIOUS
  <1>5. /\ BuilderStep(c) /\ ix \in Instructions /\ ix \in RawInstructions /\ ix.op # "ata"
        /\ Now(c).do = "keep" /\ taken[c] + 1 = Len(StepsFor(ix))
        /\ seen'[c] = seen[c]
        /\ \/ /\ ix.op # "close" /\ refund'[c] = refund[c]
              /\ program'[c] = Append(program[c], ix) /\ accounts'[c] = accounts[c]
           \/ /\ ix.op = "close" /\ refund'[c] = 0
              /\ \/ refund[c] = 0 /\ program'[c] = Append(program[c], ix)
                 \/ /\ refund[c] > 0 /\ back \in Instructions
                    /\ program'[c] = Append(Append(program[c], ix), back)
              /\ accounts'[c] = [accounts[c] EXCEPT !["wsol"] = Absent]
    BY <1>1, <1>2, KeepFacts
  <1>6. /\ refund'[c] = refund[c] /\ program'[c] = Append(program[c], ix)
        /\ accounts'[c] = accounts[c] /\ ix.op \in {"wrap", "pumpswap", "pumpfun"}
    <2>1. ix.op \in {"ata", "wrap", "close", "pumpswap", "pumpfun"}
      BY <1>5 DEF RawInstructions, Swaps
    <2> QED  BY <1>1, <1>5, <2>1
  <1>7. Remembered(c) /\ PurseStory(c) /\ Opened(c) /\ MoneyStory(c) /\ FreshStory(c)
    BY DEF BuilderStory
  <1>8. Appending(c) /\ turn'[c] = turn[c] + 1 /\ purse2 = Spend(purse, ix)
    BY <1>1, <1>3, <1>4, <1>5, NextPurse DEF BuilderStep
  <1>9. /\ purse \in PurseSet /\ purse2 \in PurseSet /\ purse2.sol >= 0 /\ purse2.wsol >= 0
        /\ NeedsWsol(ix) => purse.open
    <2>1. /\ purse \in PurseSet /\ Spend(purse, ix) \in PurseSet
          /\ Spend(purse, ix).sol >= 0 /\ Spend(purse, ix).wsol >= 0
          /\ NeedsWsol(ix) => purse.open
      BY <1>1, <1>3, <1>8, PurseNow
    <2> QED  BY <1>8, <2>1
  <1>10. /\ program[c] \in Seq(Instructions) /\ accounts[c] \in [Accounts -> SetupCache]
         /\ seen[c]["wsol"] \in SetupCache /\ accounts[c]["wsol"] \in SetupCache
         /\ refund[c] \in Nat
    <2>1. program[c] \in Seq(Instructions) /\ refund[c] \in 0..TokenRent  BY DEF SetupTypeOK
    <2>2. /\ accounts[c] \in [Accounts -> SetupCache]
          /\ seen[c]["wsol"] \in SetupCache /\ accounts[c]["wsol"] \in SetupCache
      BY AccountNames DEF SetupTypeOK, SetupCache
    <2>3. refund[c] \in Nat  BY <2>1, SetupConstants
    <2> QED  BY <2>1, <2>2, <2>3
  <1>11. /\ purse.open => accounts[c]["wsol"].initialized
         /\ ~purse.open => purse.wsol = 0
    BY <1>3, <1>7 DEF PurseStory
  <1>12. Remembered(c)'  BY <1>5, <1>6, <1>7 DEF Remembered
  <1>13. purse2.open = purse.open /\ (~purse2.open => purse2.wsol = 0)
    <2>1. CASE ix.op = "wrap"
      <3>1. purse2 = [purse EXCEPT !.sol = @ - ix.amt, !.wsol = @ + ix.amt]
        BY <1>5, <1>8, <1>9, <2>1, SpendFacts
      <3>2. purse.open  BY <1>9, <2>1 DEF NeedsWsol
      <3> QED  BY <1>9, <3>1, <3>2 DEF PurseSet
    <2>2. CASE ix.op \in {"pumpswap", "pumpfun"}
      <3>1. purse2 = [purse EXCEPT !.sol = @ + ix.sol, !.wsol = @ + ix.wsol]
        BY <1>5, <1>8, <1>9, <2>2, SpendFacts
      <3>2. purse2.open = purse.open /\ purse2.wsol = purse.wsol + ix.wsol
        BY <1>9, <3>1 DEF PurseSet
      <3>3. ~purse.open => ix.wsol = 0
        BY <1>1, <1>3, <1>5, <1>7, <1>8, <2>2, SwapReady
      <3> QED  BY <1>11, <3>2, <3>3
    <2> QED  BY <1>6, <2>1, <2>2
  <1>14. PurseStory(c)'
    BY <1>3, <1>4, <1>5, <1>6, <1>7, <1>13, PurseStay
  <1>15. MoneyStory(c)'
    <2>1. Money(program[c], seen[c]["wsol"], accounts[c]["wsol"], refund[c])
      BY <1>7 DEF MoneyStory
    <2>2. Quiet(ix)  BY <1>6 DEF Quiet, OpensWsol
    <2>3. Money(Append(program[c], ix), seen[c]["wsol"], accounts[c]["wsol"], refund[c])
      BY <1>5, <1>10, <2>1, <2>2, MoneyQuiet
    <2> QED  BY <1>5, <1>6, <2>3 DEF MoneyStory
  <1>16. FreshStory(c)'
    <2>1. Lands(program[c], seen[c], accounts[c], purse)  BY <1>3, <1>7 DEF FreshStory
    <2>2. Lands(Append(program[c], ix), seen[c], accounts[c], purse2)
      <3>1. CASE ix.op = "wrap"
        <4>1. purse.open /\ accounts[c]["wsol"].initialized
          BY <1>9, <1>11, <3>1 DEF NeedsWsol
        <4>2. Spend(purse, ix).sol >= 0  BY <1>8, <1>9
        <4>3. Lands(Append(program[c], ix), seen[c], accounts[c], Spend(purse, ix))
          BY <1>5, <1>9, <1>10, <2>1, <3>1, <4>1, <4>2, LandsWrap
        <4> QED  BY <1>8, <4>3
      <3>2. CASE ix.op \in {"pumpswap", "pumpfun"}
        <4>1. /\ \A a \in ix.opens : accounts[c][a].initialized
              /\ ix.op = "pumpfun" => accounts[c]["vault"].lamports >= VaultRent
              /\ \A a \in ix.uses \ ({"wsol"} \cup Held) : accounts[c][a].initialized
              /\ "wsol" \in ix.uses => purse.open
          BY <1>1, <1>3, <1>5, <1>7, <1>8, <3>2, SwapReady
        <4>2. Spend(purse, ix).sol >= 0 /\ Spend(purse, ix).wsol >= 0  BY <1>8, <1>9
        <4>3. PICK known \in [Accounts -> SetupCache] : known = accounts[c]  BY <1>10
        <4>4. Lands(Append(program[c], ix), seen[c], known, Spend(purse, ix))
          BY <1>5, <1>9, <1>10, <1>11, <2>1, <3>2, <4>1, <4>2, <4>3, LandsSwap
        <4> QED  BY <1>8, <4>3, <4>4
      <3> QED  BY <1>6, <3>1, <3>2
    <2> QED  BY <1>4, <1>5, <1>6, <2>2 DEF FreshStory
  <1>17. Opened(c)'
    BY <1>5, <1>6, <1>7, OpenedStep
  <1> QED  BY <1>12, <1>14, <1>15, <1>16, <1>17 DEF BuilderStory

\* The close of the WSOL account.
LEMMA CloseStory ==
    ASSUME SetupTypeOK, NEW c \in Calls, KeepInstruction(c), BuilderStory(c), Raw(c).op = "close"
    PROVE  BuilderStory(c)'
  <1>1. PICK ix : ix = Raw(c)  OBVIOUS
  <1>2. PICK back : back = [op |-> "refund", amt |-> refund[c]]  OBVIOUS
  <1>3. PICK purse : purse = Purses(route[c])[turn[c]]  OBVIOUS
  <1>4. PICK purse2 : purse2 = Purses(route'[c])[turn'[c]]  OBVIOUS
  <1>5. /\ BuilderStep(c) /\ ix \in Instructions /\ ix \in RawInstructions /\ ix.op # "ata"
        /\ Now(c).do = "keep" /\ taken[c] + 1 = Len(StepsFor(ix))
        /\ seen'[c] = seen[c]
        /\ \/ /\ ix.op # "close" /\ refund'[c] = refund[c]
              /\ program'[c] = Append(program[c], ix) /\ accounts'[c] = accounts[c]
           \/ /\ ix.op = "close" /\ refund'[c] = 0
              /\ \/ refund[c] = 0 /\ program'[c] = Append(program[c], ix)
                 \/ /\ refund[c] > 0 /\ back \in Instructions
                    /\ program'[c] = Append(Append(program[c], ix), back)
              /\ accounts'[c] = [accounts[c] EXCEPT !["wsol"] = Absent]
    BY <1>1, <1>2, KeepFacts
  <1>6. /\ ix.op = "close" /\ refund'[c] = 0
        /\ accounts'[c] = [accounts[c] EXCEPT !["wsol"] = Absent]
        /\ \/ refund[c] = 0 /\ program'[c] = Append(program[c], ix)
           \/ /\ refund[c] > 0 /\ back \in Instructions
              /\ program'[c] = Append(Append(program[c], ix), back)
    BY <1>1, <1>5
  <1>7. Remembered(c) /\ PurseStory(c) /\ Opened(c) /\ MoneyStory(c) /\ FreshStory(c)
    BY DEF BuilderStory
  <1>8. Appending(c) /\ turn'[c] = turn[c] + 1 /\ purse2 = Spend(purse, ix)
    BY <1>1, <1>3, <1>4, <1>5, NextPurse DEF BuilderStep
  <1>9. purse \in PurseSet /\ Spend(purse, ix).sol >= 0 /\ purse.open
    <2>1. NeedsWsol(ix)  BY <1>6 DEF NeedsWsol
    <2> QED  BY <1>1, <1>3, <1>8, <2>1, PurseNow
  <1>10. /\ program[c] \in Seq(Instructions) /\ accounts[c] \in [Accounts -> SetupCache]
         /\ seen[c]["wsol"] \in SetupCache /\ accounts[c]["wsol"] \in SetupCache
         /\ refund[c] \in 0..TokenRent /\ refund[c] \in Nat
    <2>1. program[c] \in Seq(Instructions) /\ refund[c] \in 0..TokenRent  BY DEF SetupTypeOK
    <2>2. /\ accounts[c] \in [Accounts -> SetupCache]
          /\ seen[c]["wsol"] \in SetupCache /\ accounts[c]["wsol"] \in SetupCache
      BY AccountNames DEF SetupTypeOK, SetupCache
    <2>3. refund[c] \in Nat  BY <2>1, SetupConstants
    <2> QED  BY <2>1, <2>2, <2>3
  <1>11. /\ "wsol" \in Accounts /\ accounts'[c]["wsol"] = Absent /\ Absent \in SetupAccount
         /\ \A b \in Accounts \ {"wsol"} : accounts'[c][b] = accounts[c][b]
    BY <1>6, <1>10, AccountNames, NotUnread
  <1>12. Remembered(c)'
    <2>1. \A b \in Accounts \ {"wsol"} : seen'[c][b] = seen[c][b]  BY <1>5
    <2> QED  BY <1>6, <1>7, <1>11, <2>1, RememberedStep
  <1>13. PurseStory(c)'
    <2>1. purse2 = [open |-> FALSE, sol |-> purse.sol + purse.wsol, wsol |-> 0]
      BY <1>5, <1>6, <1>8, <1>9, SpendFacts
    <2>2. ~purse2.open /\ purse2.wsol = 0  BY <2>1
    <2>3. ~(refund'[c] > 0)  BY <1>6
    <2> QED  BY <1>4, <2>2, <2>3 DEF PurseStory
  <1>14. MoneyStory(c)'
    <2>1. PICK prog \in Seq(Instructions), read \in SetupCache, wsol \in SetupCache, due \in Nat :
            prog = program[c] /\ read = seen[c]["wsol"] /\ wsol = accounts[c]["wsol"] /\ due = refund[c]
      BY <1>10
    <2>2. Money(prog, read, wsol, due)  BY <1>7, <2>1 DEF MoneyStory
    <2>3. Money(Append(prog, ix), read, Absent, due)  BY <1>5, <1>6, <2>2, MoneyClose
    <2>4. CASE refund[c] = 0 /\ program'[c] = Append(program[c], ix)
      <3>1. Money(program'[c], seen'[c]["wsol"], accounts'[c]["wsol"], refund'[c])
        BY <1>5, <1>6, <1>11, <2>1, <2>3, <2>4
      <3> QED  BY <3>1 DEF MoneyStory
    <2>5. CASE /\ refund[c] > 0 /\ back \in Instructions
               /\ program'[c] = Append(Append(program[c], ix), back)
      <3>1. PICK longer \in Seq(Instructions) : longer = Append(prog, ix)
        <4>1. ix \in Instructions  BY <1>5
        <4>2. Append(prog, ix) \in Seq(Instructions)  BY ONLY <4>1, prog \in Seq(Instructions)
        <4> QED  BY <4>2
      <3>2. Money(longer, read, Absent, due)  BY <2>3, <3>1
      <3>3. Money(Append(longer, back), read, Absent, 0)
        BY <1>2, <2>1, <2>5, <3>2, MoneyBack
      <3>4. Money(program'[c], seen'[c]["wsol"], accounts'[c]["wsol"], refund'[c])
        BY <1>5, <1>6, <1>11, <2>1, <2>5, <3>1, <3>3
      <3> QED  BY <3>4 DEF MoneyStory
    <2> QED  BY <1>6, <2>4, <2>5
  <1>15. FreshStory(c)'
    <2>1. Lands(program[c], seen[c], accounts[c], purse)  BY <1>3, <1>7 DEF FreshStory
    <2>2. PICK known \in [Accounts -> SetupCache] : known = accounts[c]  BY <1>10
    <2>3. CASE refund[c] = 0 /\ program'[c] = Append(program[c], ix)
      <3>1. Lands(Append(program[c], ix), seen[c], [known EXCEPT !["wsol"] = Absent], Spend(purse, ix))
        BY <1>5, <1>6, <1>9, <1>10, <2>1, <2>2, LandsClose
      <3> QED  BY <1>4, <1>5, <1>6, <1>8, <2>2, <2>3, <3>1 DEF FreshStory
    <2>4. CASE /\ refund[c] > 0 /\ back \in Instructions
               /\ program'[c] = Append(Append(program[c], ix), back)
      <3>1. PICK due \in 0..TokenRent : due = refund[c]  BY <1>10
      <3>2. Lands(Append(Append(program[c], ix), back), seen[c],
                  [known EXCEPT !["wsol"] = Absent], Spend(purse, ix))
        BY <1>2, <1>5, <1>6, <1>9, <1>10, <2>1, <2>2, <2>4, <3>1, LandsBack
      <3> QED  BY <1>4, <1>5, <1>6, <1>8, <2>2, <2>4, <3>2 DEF FreshStory
    <2> QED  BY <1>6, <2>3, <2>4
  <1>16. Opened(c)'
    <2>1. accounts'[c]["vault"] = accounts[c]["vault"]  BY <1>11, AccountNames
    <2>2. \A b \in Accounts \ {"wsol", "vault"} :
            accounts[c][b].initialized => accounts'[c][b].initialized
      BY <1>11
    <2> QED  BY <1>5, <1>7, <2>1, <2>2, OpenedStep
  <1> QED  BY <1>12, <1>13, <1>14, <1>15, <1>16 DEF BuilderStory

-----------------------------------------------------------------------------
(* The inductive invariant is kept. *)

LEMMA BuilderStays ==
    ASSUME NEW d \in Calls, BuilderStory(d), route' = route,
           turn'[d] = turn[d], taken'[d] = taken[d], accounts'[d] = accounts[d],
           seen'[d] = seen[d], refund'[d] = refund[d], program'[d] = program[d]
    PROVE  BuilderStory(d)'
  <1>1. Raw(d)' = Raw(d)  BY DEF Raw
  <1>2. StepsFor(Raw(d))' = StepsFor(Raw(d))
    BY <1>1 DEF StepsFor, PumpSwapSetup, PumpFunSetup, Volume
  <1>3. Remembered(d)'  BY DEF BuilderStory, Remembered
  <1>4. PurseStory(d)'  BY DEF BuilderStory, PurseStory
  <1>5. Opened(d)'  BY <1>2 DEF BuilderStory, Opened
  <1>6. MoneyStory(d)'  BY DEF BuilderStory, MoneyStory
  <1>7. FreshStory(d)'  BY DEF BuilderStory, FreshStory
  <1> QED  BY <1>3, <1>4, <1>5, <1>6, <1>7 DEF BuilderStory

LEMMA EffectStays ==
    ASSUME NEW d \in Calls, EffectStory(d), route' = route, turn'[d] = turn[d],
           program'[d] = program[d], phase'[d] = phase[d], effect'[d] = effect[d]
    PROVE  EffectStory(d)'
  BY DEF EffectStory, Ran, Start, End

\* A call that has not run has nothing to show for it.
LEMMA NoEffectYet ==
    ASSUME SetupTypeOK, NEW d \in Calls, ~Ran(d), effect'[d] = effect[d],
           phase'[d] \in {"built", "landed", "reverted"} => turn'[d] = Len(route'[d])
    PROVE  EffectStory(d)'
  BY DEF EffectStory, Ran

LEMMA BuilderKeeps ==
    ASSUME SetupInv, NEW c \in Calls, BuilderActs(c)
    PROVE  SetupInv'
  <1>1. SetupTypeOK /\ BuilderStory(c)  BY DEF SetupInv
  <1>2. BuilderStep(c)  BY <1>1, BuilderActsStep
  <1>3. SetupTypeOK'  BY <1>1, <1>2, BuilderStepType
  <1>4. BuilderStory(c)'
    <2>1. CASE CreateAta(c)
      BY <1>1, <2>1, CreateAtaPurse, CreateAtaMoney, CreateAtaFresh DEF BuilderStory
    <2>2. CASE InitVolume(c)  BY <1>1, <2>2, InitVolumeStory
    <2>3. CASE FundVault(c)  BY <1>1, <2>3, FundVaultStory
    <2>4. CASE KeepInstruction(c)  BY <1>1, <2>4, KeepStory, CloseStory
    <2> QED  BY <2>1, <2>2, <2>3, <2>4 DEF BuilderActs
  <1>5. /\ phase[c] = "building" /\ UNCHANGED << chain, phase, effect >> /\ route' = route
    BY <1>2 DEF BuilderStep, Appending, Took
  <1>6. ASSUME NEW d \in Calls \ {c} PROVE BuilderStory(d)' /\ EffectStory(d)'
    <2>1. /\ turn'[d] = turn[d] /\ taken'[d] = taken[d] /\ accounts'[d] = accounts[d]
          /\ seen'[d] = seen[d] /\ refund'[d] = refund[d] /\ program'[d] = program[d]
      BY <1>1, <1>2, TookFacts DEF BuilderStep
    <2>2. BuilderStory(d) /\ EffectStory(d)  BY DEF SetupInv
    <2> QED  BY <1>5, <2>1, <2>2, BuilderStays, EffectStays
  <1>7. EffectStory(c)'
    <2>1. ~Ran(c)  BY <1>1, <1>5 DEF SetupTypeOK, Ran
    <2> QED  BY <1>1, <1>5, <2>1, NoEffectYet
  <1>8. ChainStory(chain)'  BY <1>5 DEF SetupInv
  <1> QED  BY <1>3, <1>4, <1>6, <1>7, <1>8 DEF SetupInv

LEMMA EndKeeps ==
    ASSUME SetupInv, NEW c \in Calls, Built(c) \/ ReadFails(c)
    PROVE  SetupInv'
  <1>1. SetupTypeOK  BY DEF SetupInv
  <1>2. SetupTypeOK'  BY <1>1, EndType
  <1>3. /\ UNCHANGED Memory /\ UNCHANGED << chain, moves, effect >>
        /\ \A d \in Calls \ {c} : phase'[d] = phase[d]
        /\ phase'[c] \in {"built", "failed"} /\ ~effect[c].ran
        /\ phase'[c] = "built" => turn[c] = Len(route[c])
    BY <1>1, EndFacts
  <1>4. ASSUME NEW d \in Calls PROVE BuilderStory(d)'
    BY <1>3, BuilderStays DEF SetupInv, Memory
  <1>5. ASSUME NEW d \in Calls \ {c} PROVE EffectStory(d)'
    BY <1>3, EffectStays DEF SetupInv, Memory
  <1>6. EffectStory(c)'
    BY <1>1, <1>3, NoEffectYet DEF Memory, Ran
  <1>7. ChainStory(chain)'  BY <1>3 DEF SetupInv
  <1> QED  BY <1>2, <1>4, <1>5, <1>6, <1>7 DEF SetupInv

LEMMA RunKeeps ==
    ASSUME SetupInv, NEW c \in Calls, RunProgram(c)
    PROVE  SetupInv'
  <1>1. SetupTypeOK /\ ChainStory(chain)  BY DEF SetupInv
  <1>2. /\ SetupTypeOK'
        /\ \A d \in Calls \ {c} : effect'[d] = effect[d] /\ phase'[d] = phase[d]
    BY <1>1, RunProgramType
  <1>3. UNCHANGED Memory /\ phase[c] = "built"  BY DEF RunProgram, Memory
  <1>4. PICK own \in Wallets :
          LET start == Ledger(chain, own)
              end == Settle(RunAll(program[c], start))
          IN  /\ start \in Ledgers /\ end \in Ledgers /\ own \in Nat
              /\ effect'[c] = [ran |-> TRUE, start |-> start, end |-> end]
              /\ phase'[c] = IF end.ok THEN "landed" ELSE "reverted"
              /\ chain' = IF end.ok THEN end.at ELSE chain
    BY <1>1, RunProgramFacts
  <1>5. PICK start \in Ledgers, end \in Ledgers :
            /\ start = Ledger(chain, own) /\ end = Settle(RunAll(program[c], start))
            /\ effect'[c] = [ran |-> TRUE, start |-> start, end |-> end]
            /\ phase'[c] = IF end.ok THEN "landed" ELSE "reverted"
            /\ chain' = IF end.ok THEN end.at ELSE chain
    BY <1>4
  <1>6. start.at = chain  BY <1>5 DEF Ledger
  <1>7. program[c] \in Seq(Instructions) /\ program' = program
    BY <1>1, <1>3 DEF SetupTypeOK, Memory
  <1>8. ChainStory(chain)'
    <2>1. CASE end.ok
      <3>1. PICK l \in Ledgers : l = RunAll(program[c], start)  BY <1>7, RunAllType
      <3>2. end = l  BY <1>5, <2>1, <3>1, SettleFacts
      <3>3. ChainStory(l.at)  BY <1>1, <1>6, <1>7, <3>1, RunAllKeeps
      <3>4. chain' = l.at  BY <1>5, <2>1, <3>2
      <3> QED  BY <3>3, <3>4 DEF ChainStory, Rented
    <2>2. CASE ~end.ok
      <3>1. chain' = chain  BY <1>5, <2>2
      <3> QED  BY <1>1, <3>1 DEF ChainStory, Rented
    <2> QED  BY <2>1, <2>2
  <1>9. EffectStory(c)'
    <2>1. turn'[c] = Len(route'[c])
      <3>1. turn[c] = Len(route[c])  BY <1>3 DEF SetupInv, EffectStory
      <3> QED  BY <1>3, <3>1 DEF Memory
    <2>2. effect'[c].ran /\ effect'[c].start = start /\ effect'[c].end = end  BY <1>5
    <2>3. ChainStory(start.at) /\ start = Ledger(start.at, own)  BY <1>1, <1>5, <1>6
    <2>4. end = Settle(RunAll(program'[c], start))  BY <1>5, <1>7
    <2> QED  BY <2>1, <2>2, <2>3, <2>4 DEF EffectStory, Ran, Start, End
  <1>10. ASSUME NEW d \in Calls PROVE BuilderStory(d)'
    BY <1>3, BuilderStays DEF SetupInv, Memory
  <1>11. ASSUME NEW d \in Calls \ {c} PROVE EffectStory(d)'
    BY <1>2, <1>3, EffectStays DEF SetupInv, Memory
  <1> QED  BY <1>2, <1>8, <1>9, <1>10, <1>11 DEF SetupInv

LEMMA OutsideKeeps ==
    ASSUME SetupInv, NEW a \in Accounts, Donate(a) \/ Open(a) \/ Empty(a)
    PROVE  SetupInv'
  <1>1. SetupTypeOK /\ ChainStory(chain)  BY DEF SetupInv
  <1>2. SetupTypeOK'  BY <1>1, OutsideType
  <1>3. /\ UNCHANGED Memory /\ UNCHANGED << phase, effect >> /\ a \in Drifting
        /\ \E after \in SetupAccount :
             /\ chain' = [chain EXCEPT ![a] = after]
             /\ (chain[a].initialized => chain[a].lamports >= TokenRent)
                     => (after.initialized => after.lamports >= TokenRent)
    BY <1>1, OutsideFacts
  <1>4. PICK after \in SetupAccount :
             /\ chain' = [chain EXCEPT ![a] = after]
             /\ (chain[a].initialized => chain[a].lamports >= TokenRent)
                     => (after.initialized => after.lamports >= TokenRent)
    BY <1>3
  <1>5. chain'[a] = after /\ \A b \in Accounts \ {a} : chain'[b] = chain[b]
    BY <1>1, <1>4 DEF SetupTypeOK
  <1>6. Rented(chain["wsol"]) => Rented(chain'["wsol"])
    <2>1. CASE a = "wsol"  BY <1>4, <1>5, <2>1 DEF Rented
    <2>2. CASE a # "wsol"  BY <1>5, <2>2, AccountNames
    <2> QED  BY <2>1, <2>2
  <1>7. \A b \in Held : b \in Accounts \ {a}
    BY <1>3 DEF Held, Accounts, UserAccounts
  <1>8. ChainStory(chain)'  BY <1>1, <1>5, <1>6, <1>7 DEF ChainStory, Rented
  <1>9. ASSUME NEW d \in Calls PROVE BuilderStory(d)' /\ EffectStory(d)'
    <2>1. BuilderStory(d) /\ EffectStory(d)  BY DEF SetupInv
    <2> QED  BY <1>3, <2>1, BuilderStays, EffectStays DEF Memory
  <1> QED  BY <1>2, <1>8, <1>9 DEF SetupInv

LEMMA StillKeeps ==
    ASSUME SetupInv, UNCHANGED setup_vars
    PROVE  SetupInv'
  <1>1. SetupTypeOK /\ ChainStory(chain)  BY DEF SetupInv
  <1>2. SetupTypeOK'  BY <1>1, StillType
  <1>3. UNCHANGED Memory /\ UNCHANGED << chain, phase, effect >>
    BY DEF setup_vars, builder, Memory
  <1>4. ASSUME NEW d \in Calls PROVE BuilderStory(d)' /\ EffectStory(d)'
    <2>1. BuilderStory(d) /\ EffectStory(d)  BY DEF SetupInv
    <2> QED  BY <1>3, <2>1, BuilderStays, EffectStays DEF Memory
  <1>5. ChainStory(chain)'  BY <1>1, <1>3
  <1> QED  BY <1>2, <1>4, <1>5 DEF SetupInv

LEMMA SetupInvStart == SetupInit => SetupInv
  <1> SUFFICES ASSUME SetupInit PROVE SetupInv  OBVIOUS
  <1>1. SetupTypeOK  BY SetupInitType
  <1>2. ChainStory(chain)
    BY SetupAssumption DEF SetupInit, ChainStory, Rented, Held
  <1>3. ASSUME NEW c \in Calls PROVE BuilderStory(c) /\ EffectStory(c)
    <2>1. /\ turn[c] = 0 /\ taken[c] = 0 /\ refund[c] = 0 /\ program[c] = << >>
          /\ seen[c] = [a \in Accounts |-> Unread] /\ accounts[c] = [a \in Accounts |-> Unread]
          /\ phase[c] = "building" /\ ~effect[c].ran
      BY DEF SetupInit, NoEffect
    <2>2. route[c] \in Seq(RawInstructions)  BY <1>1, RouteType
    <2>3. Purses(route[c])[turn[c]] = NoPurse  BY <2>1, <2>2, PurseSteps
    <2>4. "wsol" \in Accounts  BY AccountNames
    <2>5. Remembered(c)  BY <2>1, <2>4 DEF Remembered
    <2>6. PurseStory(c)  BY <2>1, <2>3 DEF PurseStory, NoPurse
    <2>7. Opened(c)
      <3>1. 1..0 = {}  OBVIOUS
      <3> QED  BY <2>1, <3>1 DEF Opened
    <2>8. MoneyStory(c)  BY <2>1, <2>4, MoneyStart DEF MoneyStory
    <2>9. FreshStory(c)  BY <2>1, <2>3, LandsStart DEF FreshStory
    <2>10. EffectStory(c)  BY <2>1 DEF EffectStory, Ran
    <2> QED  BY <2>5, <2>6, <2>7, <2>8, <2>9, <2>10 DEF BuilderStory
  <1> QED  BY <1>1, <1>2, <1>3 DEF SetupInv

LEMMA SetupInvSteps == SetupInv /\ [SetupNext]_setup_vars => SetupInv'
  <1> SUFFICES ASSUME SetupInv, [SetupNext]_setup_vars PROVE SetupInv'  OBVIOUS
  <1>1. ASSUME NEW c \in Calls, BuilderActs(c) PROVE SetupInv'  BY <1>1, BuilderKeeps
  <1>2. ASSUME NEW c \in Calls, Built(c) \/ ReadFails(c) PROVE SetupInv'  BY <1>2, EndKeeps
  <1>3. ASSUME NEW c \in Calls, RunProgram(c) PROVE SetupInv'  BY <1>3, RunKeeps
  <1>4. ASSUME NEW a \in Accounts, Donate(a) \/ Open(a) \/ Empty(a) PROVE SetupInv'
    BY <1>4, OutsideKeeps
  <1>5. ASSUME UNCHANGED setup_vars PROVE SetupInv'  BY <1>5, StillKeeps
  <1> QED  BY <1>1, <1>2, <1>3, <1>4, <1>5 DEF SetupNext, BuilderActs

LEMMA SetupInvariant == SetupSpec => []SetupInv
  BY SetupInvStart, SetupInvSteps, PTL DEF SetupSpec

-----------------------------------------------------------------------------
(* The three promises of fund_native_setup. *)

\* A program that ran ran whole, on a chain and a wallet of the kind assumed,
\* and all its refunds are in it.
LEMMA RanFacts ==
    ASSUME SetupInv, NEW c \in Calls, Ran(c)
    PROVE  \E world \in [Accounts -> SetupAccount], own \in Wallets, l \in Ledgers :
             /\ own \in Nat /\ Start(c) = Ledger(world, own) /\ ChainStory(world)
             /\ l = RunAll(program[c], Ledger(world, own))
             /\ End(c) = Settle(l)
             /\ refund[c] = 0
             /\ Purses(route[c])[turn[c]] \in PurseSet
             /\ Purses(route[c])[turn[c]].sol \in Nat
  <1>1. SetupTypeOK /\ BuilderStory(c) /\ EffectStory(c)  BY DEF SetupInv
  <1>2. phase[c] \in {"landed", "reverted"}  BY <1>1 DEF SetupTypeOK, Ran
  <1>3. turn[c] = Len(route[c])  BY <1>1, <1>2 DEF EffectStory
  <1>4. /\ route[c] \in Seq(RawInstructions) /\ WellBuilt(route[c]) /\ Len(route[c]) \in Nat
        /\ turn[c] \in 0..Len(route[c])
    BY <1>1, RouteType
  <1>5. refund[c] = 0
    <2>1. refund[c] \in 0..TokenRent  BY <1>1 DEF SetupTypeOK
    <2>2. PurseStory(c)  BY <1>1 DEF BuilderStory
    <2>3. (turn[c] + 1)..Len(route[c]) = {}  BY <1>3, <1>4
    <2>4. ~(refund[c] > 0)  BY <2>2, <2>3 DEF PurseStory
    <2> QED  BY <2>1, <2>4, SetupAssumption
  <1>6. /\ Purses(route[c])[turn[c]] \in PurseSet
        /\ Purses(route[c])[turn[c]].sol \in Nat
    <2>1. Purses(route[c])[turn[c]] \in PurseSet  BY <1>4, PurseSteps
    <2>2. Purses(route[c])[turn[c]].sol \in Int  BY <2>1 DEF PurseSet
    <2>3. CASE turn[c] = 0
      <3>1. Purses(route[c])[turn[c]] = NoPurse  BY <1>4, <2>3, PurseSteps
      <3> QED  BY <2>1, <3>1 DEF NoPurse
    <2>4. CASE turn[c] # 0
      <3>1. turn[c] \in 1..Len(route[c])  BY <1>4, <2>4
      <3>2. Purses(route[c])[turn[c]].sol >= 0  BY <1>4, <3>1 DEF WellBuilt
      <3> QED  BY <2>1, <2>2, <3>2
    <2> QED  BY <2>3, <2>4
  <1>7. effect[c] \in [ran : {TRUE}, start : Ledgers, end : Ledgers]
    <2> DEFINE Effects == [ran : {TRUE}, start : Ledgers, end : Ledgers]
    <2>1. effect[c] \in {NoEffect} \cup Effects  BY <1>1 DEF SetupTypeOK
    <2>2. effect[c] # NoEffect  BY DEF Ran, NoEffect
    <2> QED  BY <2>1, <2>2
  <1>8. Start(c).at \in [Accounts -> SetupAccount]  BY <1>7 DEF Start, Ledgers
  <1>9. PICK own \in Wallets : Start(c) = Ledger(Start(c).at, own)
    BY <1>1 DEF EffectStory
  <1>10. own \in Nat  BY SetupAssumption
  <1>11. End(c) = Settle(RunAll(program[c], Start(c))) /\ ChainStory(Start(c).at)
    BY <1>1 DEF EffectStory
  <1>12. program[c] \in Seq(Instructions)  BY <1>1 DEF SetupTypeOK
  <1>13. Ledger(Start(c).at, own) \in Ledgers  BY <1>8, <1>10, LedgerType
  <1>14. PICK l \in Ledgers : l = RunAll(program[c], Ledger(Start(c).at, own))
    BY <1>12, <1>13, RunAllType
  <1>15. End(c) = Settle(l)  BY <1>9, <1>11, <1>14
  <1> QED  BY <1>5, <1>6, <1>8, <1>9, <1>10, <1>11, <1>14, <1>15

LEMMA SetupKeepsOwn == SetupInv => UserKeepsOwn
  <1> SUFFICES ASSUME SetupInv, NEW c \in Calls, Ran(c), End(c).ok
               PROVE  End(c).user + End(c).at["wsol"].lamports + End(c).setup
                          + Late(Start(c).at["wsol"], seen[c]["wsol"])
                        >= Start(c).user + Start(c).at["wsol"].lamports + Earned(program[c])
    BY DEF UserKeepsOwn
  <1>1. PICK world \in [Accounts -> SetupAccount], own \in Wallets, l \in Ledgers :
             /\ own \in Nat /\ Start(c) = Ledger(world, own) /\ ChainStory(world)
             /\ l = RunAll(program[c], Ledger(world, own))
             /\ End(c) = Settle(l)
             /\ refund[c] = 0
             /\ Purses(route[c])[turn[c]] \in PurseSet
             /\ Purses(route[c])[turn[c]].sol \in Nat
    BY RanFacts
  <1>2. End(c) = l /\ l.ok  BY <1>1, SettleFacts
  <1>3. MoneyStory(c)  BY DEF SetupInv, BuilderStory
  <1>4. /\ Balance(l) = own + world["wsol"].lamports + Earned(program[c])
        /\ l.deposit + Late(world["wsol"], seen[c]["wsol"]) >= l.refund + refund[c]
    BY <1>1, <1>2, <1>3 DEF MoneyStory, Money
  <1>5. Start(c).user = own /\ Start(c).at = world  BY <1>1 DEF Ledger
  <1>6. /\ l.user \in Nat /\ l.setup \in Nat /\ l.deposit \in Nat /\ l.refund \in Nat
        /\ l.at["wsol"].lamports \in Nat /\ world["wsol"].lamports \in Nat
    BY <1>1, AccountNames DEF Ledgers, SetupAccount
  <1>7. Earned(program[c]) \in Int
    <2>1. program[c] \in Seq(Instructions)  BY DEF SetupInv, SetupTypeOK
    <2>2. [op |-> "fund", amt |-> 1] \in Instructions  BY DEF Instructions
    <2> QED  BY <2>1, <2>2, EarnedAppend
  <1>8. Late(world["wsol"], seen[c]["wsol"]) \in Int
    <2>1. seen[c]["wsol"] \in SetupAccount \cup {Unread}
      BY AccountNames DEF SetupInv, SetupTypeOK
    <2>2. seen[c]["wsol"].lamports \in Int  BY <2>1 DEF SetupAccount, Unread
    <2> QED  BY <1>6, <2>2 DEF Late, Monus
  <1> DEFINE late == Late(world["wsol"], seen[c]["wsol"])
             earned == Earned(program[c])
             there == world["wsol"].lamports
             left == l.at["wsol"].lamports
  <1>9. l.user + left + l.setup + l.refund - l.deposit = own + there + earned
    BY <1>4 DEF Balance
  <1>10. l.deposit + late >= l.refund  BY <1>1, <1>4, <1>6
  <1>11. /\ late \in Int /\ earned \in Int /\ there \in Nat /\ left \in Nat
         /\ l.user \in Nat /\ l.setup \in Nat /\ l.deposit \in Nat /\ l.refund \in Nat
         /\ own \in Nat
    BY <1>1, <1>6, <1>7, <1>8
  <1>12. l.user + left + l.setup + late >= own + there + earned
    <2> HIDE DEF late, earned, there, left
    <2> QED  BY <1>9, <1>10, <1>11
  <1> QED  BY <1>2, <1>5, <1>12

LEMMA SetupReturnsDeposit == SetupInv => WsolDepositReturned
  <1> SUFFICES ASSUME SetupInv, NEW c \in Calls, Ran(c), End(c).ok,
                      Start(c).at["wsol"] = seen[c]["wsol"]
               PROVE  End(c).refund = End(c).deposit
    BY DEF WsolDepositReturned
  <1>1. PICK world \in [Accounts -> SetupAccount], own \in Wallets, l \in Ledgers :
             /\ own \in Nat /\ Start(c) = Ledger(world, own) /\ ChainStory(world)
             /\ l = RunAll(program[c], Ledger(world, own))
             /\ End(c) = Settle(l)
             /\ refund[c] = 0
             /\ Purses(route[c])[turn[c]] \in PurseSet
             /\ Purses(route[c])[turn[c]].sol \in Nat
    BY RanFacts
  <1>2. End(c) = l /\ l.ok  BY <1>1, SettleFacts
  <1>3. MoneyStory(c)  BY DEF SetupInv, BuilderStory
  <1>4. world["wsol"] = seen[c]["wsol"]  BY <1>1 DEF Ledger
  <1>5. l.deposit = l.refund + refund[c]
    BY <1>1, <1>2, <1>3, <1>4 DEF MoneyStory, Money
  <1>6. l.deposit \in Nat /\ l.refund \in Nat  BY <1>1 DEF Ledgers
  <1> QED  BY <1>1, <1>2, <1>5, <1>6

LEMMA SetupLandsFresh == SetupInv => FreshSetupLands
  <1> SUFFICES ASSUME SetupInv, NEW c \in Calls, Ran(c), Fresh(c)
               PROVE  /\ End(c).setup = 0
                      /\ End(c).ok \/ (End(c).dust /\ Start(c).user = 0)
    BY DEF FreshSetupLands
  <1>1. PICK world \in [Accounts -> SetupAccount], own \in Wallets, l \in Ledgers :
             /\ own \in Nat /\ Start(c) = Ledger(world, own) /\ ChainStory(world)
             /\ l = RunAll(program[c], Ledger(world, own))
             /\ End(c) = Settle(l)
             /\ refund[c] = 0
             /\ Purses(route[c])[turn[c]] \in PurseSet
             /\ Purses(route[c])[turn[c]].sol \in Nat
    BY RanFacts
  <1>2. Start(c).user = own /\ Start(c).at = world  BY <1>1 DEF Ledger
  <1>3. world \in FreshWorlds(seen[c])
    <2>1. \A a \in Accounts : seen[c][a] # Unread => world[a] = seen[c][a]
      BY <1>2 DEF Fresh
    <2> QED  BY <1>1, <2>1 DEF FreshWorlds, ChainStory
  <1>4. FreshStory(c)  BY DEF SetupInv, BuilderStory
  <1>5. Leaves(l, world, own, accounts[c], Purses(route[c])[turn[c]])
    BY <1>1, <1>3, <1>4 DEF FreshStory, Lands
  <1>6. l.ok /\ l.setup = 0 /\ l.user >= own + Purses(route[c])[turn[c]].sol
    BY <1>5 DEF Leaves
  <1>7. l.user \in Nat /\ l.user >= own  BY <1>1, <1>6 DEF Ledgers
  <1>8. /\ Settle(l).setup = 0
        /\ Settle(l).ok \/ (Settle(l).dust /\ l.user \in 1..(VaultRent - 1))
    BY <1>1, <1>6, SettleFacts
  <1>9. l.user \in 1..(VaultRent - 1) => own = 0
    BY <1>1, <1>7, SetupAssumption
  <1> QED  BY <1>1, <1>2, <1>8, <1>9

\* UserKeepsOwn (native.rs:85 and 149), for every route a venue may build,
\* every chain and every interleaving: whatever happens to the user's WSOL
\* account between the read and the execution, a landed transaction refunds
\* the sponsor out of the sponsor's own deposit, or out of what was late.
THEOREM UserLosesNothing == SetupSpec => []UserKeepsOwn
  BY SetupInvariant, SetupKeepsOwn, PTL

\* WsolDepositReturned (README.md:173): if the WSOL account is the one that was
\* read, each deposit the program makes for it comes back whole, whether the
\* route opens the account once, twice, or finds it open.
THEOREM DepositsReturn == SetupSpec => []WsolDepositReturned
  BY SetupInvariant, SetupReturnsDeposit, PTL

\* FreshSetupLands (README.md:171 and 175): if nothing that was read has
\* changed, every instruction of the program succeeds and the user pays for no
\* account; only the network's rule on small wallets may still refuse it, and
\* then only to a user without SOL.
THEOREM FreshLands == SetupSpec => []FreshSetupLands
  BY SetupInvariant, SetupLandsFresh, PTL
=============================================================================

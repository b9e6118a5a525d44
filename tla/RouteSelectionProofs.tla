------------------------ MODULE RouteSelectionProofs ------------------------
(***************************************************************************)
(* Proofs about RouteSelection for any requests, offers and timeout.       *)
(***************************************************************************)
EXTENDS RouteSelection, TLAPS

Ops == {"swap", "create_ata", "sol_transfer", "usdc_transfer"}
Instruction == [op : Ops, by : STRING, to : STRING \cup {"venue"}, amt : Int]
SwapType ==
    [in_amount : Int, expected_out : Int, min_out : Int, application_fee : Int,
     sponsorship_fee : Int, ixs : Seq(Instruction)]

-----------------------------------------------------------------------------
(* Fees. *)

LEMMA RequestFields ==
    ASSUME rq \in Requests
    PROVE  /\ cl \in ClientType /\ trade \in TradeType
           /\ rq.dflow \in BOOLEAN /\ rq.op \in {"quote", "prepare"}
  BY RouteAssumption DEF cl, trade

LEMMA ClientFields ==
    ASSUME rq \in Requests
    PROVE  /\ cl.sdk \in BOOLEAN /\ cl.bps \in Nat /\ cl.recipient \in STRING
           /\ cl.sponsored \in BOOLEAN /\ cl.payer \in STRING /\ cl.collector \in STRING
           /\ cl.ceiling \in Nat
  BY RequestFields DEF ClientType

LEMMA TradeFields ==
    ASSUME rq \in Requests
    PROVE  /\ trade.side \in {"Buy", "Sell"} /\ trade.settlement \in {"Sol", "Usdc"}
           /\ trade.amount \in Nat /\ trade.wallet \in STRING
  BY RequestFields DEF TradeType

LEMMA FeeAmountType ==
    ASSUME rq \in Requests, NEW basis \in Nat
    PROVE  FeeAmount(cl, basis) \in Nat
  <1>1. cl.bps \in Nat  BY ClientFields
  <1>2. basis * cl.bps \in Nat  BY <1>1
  <1> QED  BY <1>2 DEF FeeAmount, BASIS_POINTS

\* What a buy leaves the venue: the amount less the SDK fee and the ceiling.
LEMMA RoutedAmount ==
    ASSUME rq \in Requests
    PROVE  RouteTrade(cl, trade).amount =
              trade.amount - (IF trade.side = "Buy" THEN FeeAmount(cl, trade.amount) ELSE 0)
                           - (IF trade.side = "Buy" /\ SponsorFor(cl, trade) THEN cl.ceiling ELSE 0)
  <1>1. PICK t \in TradeType : t = trade  BY RequestFields
  <1>2. PICK fee \in Nat : fee = FeeAmount(cl, t.amount)
    BY <1>1, TradeFields, FeeAmountType
  <1>3. TradeAfterFee(cl, t).amount = t.amount - (IF t.side = "Buy" THEN fee ELSE 0)
    BY <1>1, <1>2 DEF TradeAfterFee, TradeType
  <1>4. TradeAfterFee(cl, t).side = t.side /\ DOMAIN TradeAfterFee(cl, t) = DOMAIN t
    BY <1>1 DEF TradeAfterFee, TradeType
  <1>5. cl.ceiling \in Nat /\ t.amount \in Nat  BY <1>1, ClientFields, TradeFields
  <1>6. "amount" \in DOMAIN TradeAfterFee(cl, t)  BY <1>4 DEF TradeType
  <1>7. ReserveFee(cl, TradeAfterFee(cl, t)).amount =
          TradeAfterFee(cl, t).amount - (IF t.side = "Buy" THEN cl.ceiling ELSE 0)
    BY <1>3, <1>4, <1>5, <1>6 DEF ReserveFee
  <1> QED  BY <1>1, <1>2, <1>3, <1>5, <1>7 DEF RouteTrade

LEMMA RoutedAmountType ==
    ASSUME rq \in Requests
    PROVE  RouteTrade(cl, trade).amount \in Int
  <1>1. FeeAmount(cl, trade.amount) \in Nat  BY TradeFields, FeeAmountType
  <1> QED  BY <1>1, RoutedAmount, TradeFields, ClientFields

\* The fee an SDK client takes of a swap, and what a sale loses by it.
Fee(s) == IF cl.sdk THEN FeeAmount(cl, FeeBasis(trade, s)) ELSE 0
Cut(s) == IF trade.side = "Sell" THEN Fee(s) ELSE 0

LEMMA FeeType ==
    ASSUME rq \in Requests, NEW s \in SwapType, s.expected_out >= 0
    PROVE  Fee(s) \in Nat /\ Cut(s) \in Nat
  <1>1. FeeBasis(trade, s) \in Nat  BY TradeFields DEF FeeBasis, SwapType
  <1>2. FeeAmount(cl, FeeBasis(trade, s)) \in Nat  BY <1>1, FeeAmountType
  <1> QED  BY <1>2 DEF Fee, Cut

\* Fee instructions are appended: what was there stays in front.
LEMMA FeeInstructionsType ==
    ASSUME rq \in Requests, NEW ixs \in Seq(Instruction), NEW fee \in Nat, NEW payer \in STRING
    PROVE  LET after == FeeInstructions(cl, trade, ixs, fee, payer)
           IN  after \in Seq(Instruction) /\ (ixs # << >> => after # << >> /\ after[1] = ixs[1])
  <1>1. cl.recipient \in STRING /\ trade.wallet \in STRING  BY ClientFields, TradeFields
  <1>2. CASE fee = 0
    BY <1>2 DEF FeeInstructions
  <1>3. CASE fee > 0 /\ trade.settlement = "Sol"
    <2>1. Ix("sol_transfer", trade.wallet, cl.recipient, fee) \in Instruction
      BY <1>1 DEF Ix, Instruction, Ops
    <2> QED  BY <1>3, <2>1 DEF FeeInstructions
  <1>4. CASE fee > 0 /\ trade.settlement = "Usdc"
    <2> DEFINE a == Ix("create_ata", payer, cl.recipient, 0)
               b == Ix("usdc_transfer", trade.wallet, cl.recipient, fee)
    <2>1. a \in Instruction  BY <1>1 DEF Ix, Instruction, Ops
    <2>2. b \in Instruction  BY <1>1 DEF Ix, Instruction, Ops
    <2>3. FeeInstructions(cl, trade, ixs, fee, payer) = ixs \o << a, b >>
      BY <1>4 DEF FeeInstructions, AppendUsdcFee
    <2> HIDE DEF a, b
    <2> QED  BY <2>1, <2>2, <2>3
  <1> QED  BY <1>2, <1>3, <1>4, TradeFields

\* A swap after the SDK fee.
LEMMA SdkFee ==
    ASSUME rq \in Requests, NEW s \in SwapType, s.expected_out >= 0, NEW payer \in STRING
    PROVE  LET c == ApplySdkFee(cl, trade, s, payer)
           IN  /\ c \in SwapType
               /\ c.in_amount = IF cl.sdk THEN trade.amount ELSE s.in_amount
               /\ c.application_fee = IF cl.sdk THEN Fee(s) ELSE s.application_fee
               /\ c.sponsorship_fee = s.sponsorship_fee
               /\ c.expected_out = s.expected_out - Cut(s)
               /\ c.min_out = s.min_out - Cut(s)
               /\ s.ixs # << >> => c.ixs # << >> /\ c.ixs[1] = s.ixs[1]
  <1>1. CASE ~cl.sdk
    <2>1. Fee(s) = 0 /\ Cut(s) = 0  BY <1>1 DEF Fee, Cut
    <2>2. ApplySdkFee(cl, trade, s, payer) = s  BY <1>1 DEF ApplySdkFee
    <2> QED  BY <1>1, <2>1, <2>2 DEF SwapType
  <1>2. CASE cl.sdk
    <2> DEFINE fee == Fee(s)
               cut == Cut(s)
               in == trade.amount
               expected == s.expected_out - cut
               min == s.min_out - cut
    <2>1. /\ fee \in Nat /\ cut \in Nat /\ in \in Nat
          /\ expected \in Int /\ min \in Int
      BY FeeType, TradeFields DEF SwapType
    <2>2. fee = FeeAmount(cl, FeeBasis(trade, s)) /\ cut = IF trade.side = "Sell" THEN fee ELSE 0
      BY <1>2 DEF Fee, Cut
    <2>3. QuoteAfterFee(cl, trade, s) =
            [s EXCEPT !.in_amount = in, !.application_fee = fee,
                      !.expected_out = expected, !.min_out = min]
      BY <2>2 DEF QuoteAfterFee
    <2> DEFINE q == QuoteAfterFee(cl, trade, s)
               ixs == FeeInstructions(cl, trade, s.ixs, fee, payer)
    <2> HIDE DEF fee, cut, in, expected, min
    <2>4. q \in SwapType
      <3>1. in \in Int /\ fee \in Int /\ expected \in Int /\ min \in Int  BY <2>1
      <3> QED  BY <2>3, <3>1 DEF SwapType
    <2>5. /\ q.in_amount = in /\ q.application_fee = fee
          /\ q.expected_out = expected /\ q.min_out = min
          /\ q.sponsorship_fee = s.sponsorship_fee
      BY <2>3 DEF SwapType
    <2>6. s.ixs \in Seq(Instruction)  BY DEF SwapType
    <2>7. ixs \in Seq(Instruction) /\ (s.ixs # << >> => ixs # << >> /\ ixs[1] = s.ixs[1])
      BY <2>1, <2>6, FeeInstructionsType
    <2>8. ApplySdkFee(cl, trade, s, payer) = [q EXCEPT !.ixs = ixs]
      BY <1>2, <2>5 DEF ApplySdkFee
    <2> HIDE DEF q, ixs
    <2>9. [q EXCEPT !.ixs = ixs] \in SwapType  BY <2>4, <2>7 DEF SwapType
    <2>10. LET c == [q EXCEPT !.ixs = ixs]
           IN  /\ c.in_amount = q.in_amount /\ c.application_fee = q.application_fee
               /\ c.expected_out = q.expected_out /\ c.min_out = q.min_out
               /\ c.sponsorship_fee = q.sponsorship_fee /\ c.ixs = ixs
      BY <2>4 DEF SwapType
    <2>11. LET c == ApplySdkFee(cl, trade, s, payer)
           IN  /\ c \in SwapType
               /\ c.in_amount = in /\ c.application_fee = fee
               /\ c.sponsorship_fee = s.sponsorship_fee
               /\ c.expected_out = expected /\ c.min_out = min /\ c.ixs = ixs
      BY <2>5, <2>8, <2>9, <2>10
    <2> QED  BY <1>2, <2>7, <2>11 DEF fee, cut, in, expected, min
  <1> QED  BY <1>1, <1>2, ClientFields

\* A swap after the sponsor's ceiling, which closes its instruction list.
LEMMA Sponsorship ==
    ASSUME rq \in Requests, NEW s \in SwapType
    PROVE  LET c == ApplySponsorship(cl, trade, s)
               cut == IF trade.side = "Sell" THEN cl.ceiling ELSE 0
           IN  /\ c \in SwapType
               /\ c.in_amount = trade.amount
               /\ c.application_fee = s.application_fee
               /\ c.sponsorship_fee = cl.ceiling
               /\ c.expected_out = s.expected_out - cut
               /\ c.min_out = s.min_out - cut
               /\ s.ixs # << >> => c.ixs[1] = s.ixs[1]
               /\ c.ixs[Len(c.ixs)] = Ix("usdc_transfer", trade.wallet, cl.collector, cl.ceiling)
  <1> DEFINE cut == IF trade.side = "Sell" THEN cl.ceiling ELSE 0
             ceiling == cl.ceiling
             in == trade.amount
             expected == s.expected_out - cut
             min == s.min_out - cut
             a == Ix("create_ata", cl.payer, cl.collector, 0)
             b == Ix("usdc_transfer", trade.wallet, cl.collector, ceiling)
             ixs == s.ixs \o << a, b >>
  <1>1. cut \in Nat /\ ceiling \in Nat /\ in \in Nat  BY ClientFields, TradeFields
  <1>2. expected \in Int /\ min \in Int  BY <1>1 DEF SwapType
  <1>3. a \in Instruction  BY ClientFields DEF Ix, Instruction, Ops
  <1>4. b \in Instruction  BY ClientFields, TradeFields DEF Ix, Instruction, Ops
  <1>5. s.ixs \in Seq(Instruction)  BY DEF SwapType
  <1>6. ApplySponsorship(cl, trade, s) =
          [s EXCEPT !.in_amount = in, !.expected_out = expected, !.min_out = min,
                    !.sponsorship_fee = ceiling, !.ixs = ixs]
    BY DEF ApplySponsorship, AppendUsdcFee
  <1> HIDE DEF a, b
  <1>7. /\ ixs \in Seq(Instruction)
        /\ s.ixs # << >> => ixs[1] = s.ixs[1]
        /\ ixs[Len(ixs)] = b
    BY <1>3, <1>4, <1>5
  <1> HIDE DEF cut, ceiling, in, expected, min, ixs
  <1> DEFINE after == [s EXCEPT !.in_amount = in, !.expected_out = expected, !.min_out = min,
                                !.sponsorship_fee = ceiling, !.ixs = ixs]
  <1>8. after \in SwapType
    <2>1. in \in Int /\ ceiling \in Int  BY <1>1
    <2>2. ixs \in Seq(Instruction)  BY <1>7
    <2> QED  BY <1>2, <2>1, <2>2 DEF SwapType
  <1>9. /\ after.in_amount = in /\ after.application_fee = s.application_fee
        /\ after.sponsorship_fee = ceiling
        /\ after.expected_out = expected /\ after.min_out = min /\ after.ixs = ixs
    BY DEF SwapType
  <1> HIDE DEF after
  <1> QED  BY <1>6, <1>7, <1>8, <1>9 DEF after, cut, ceiling, in, expected, min, b

-----------------------------------------------------------------------------
(* What becomes of an offer. *)

LEMMA OfferedType ==
    ASSUME rq \in Requests, NEW o \in Offers
    PROVE  LET s == Offered(o)
           IN  /\ s \in SwapType
               /\ s.expected_out >= 0
               /\ s.ixs # << >> => s.ixs[1].amt = RouteTrade(cl, trade).amount
  <1> DEFINE amount == RouteTrade(cl, trade).amount
             in == amount + o.extra
             ixs == IF o.empty THEN << >> ELSE << Ix("swap", trade.wallet, "venue", amount) >>
  <1>1. amount \in Int  BY RoutedAmountType
  <1>2. o.extra \in Nat /\ o.expected \in Nat /\ o.min \in Nat  BY RouteAssumption
  <1>3. in \in Int  BY <1>1, <1>2
  <1>4. trade.wallet \in STRING  BY TradeFields
  <1>5. Offered(o) = [in_amount |-> in, expected_out |-> o.expected, min_out |-> o.min,
                      application_fee |-> 0, sponsorship_fee |-> 0, ixs |-> ixs]
    BY DEF Offered
  <1> HIDE DEF amount
  <1>6. Ix("swap", trade.wallet, "venue", amount) \in Instruction
    BY <1>1, <1>4 DEF Ix, Instruction, Ops
  <1>7. ixs \in Seq(Instruction) /\ (ixs # << >> => ixs[1].amt = amount)
    BY <1>6 DEF Ix
  <1> HIDE DEF in, ixs
  <1>8. o.expected \in Int /\ o.min \in Int /\ 0 \in Int  BY <1>2
  <1>9. Offered(o) \in SwapType  BY <1>3, <1>5, <1>7, <1>8 DEF SwapType
  <1> QED  BY <1>2, <1>5, <1>7, <1>9 DEF amount

\* What remains of a candidate that can be charged.
LEMMA ChargedSwap ==
    ASSUME rq \in Requests, NEW s \in SwapType, s.expected_out >= 0,
           CanCharge(cl, trade, s)
    PROVE  LET c == Charged(cl, trade, s)
           IN  /\ c \in SwapType
               /\ c.in_amount = trade.amount
               /\ trade.side = "Buy" =>
                     s.in_amount + c.application_fee + c.sponsorship_fee = trade.amount
               /\ SponsorFor(cl, trade) =>
                     /\ c.sponsorship_fee = cl.ceiling
                     /\ c.ixs[Len(c.ixs)]
                          = Ix("usdc_transfer", trade.wallet, cl.collector, cl.ceiling)
               /\ 0 < c.min_out /\ c.min_out <= c.expected_out
               /\ c.ixs[1] = s.ixs[1]
  <1> DEFINE m == SdkCharged(cl, trade, s)
  <1>1. PayerOf(cl, trade) \in STRING  BY ClientFields, TradeFields DEF PayerOf
  <1>2. /\ s.in_amount = RouteTrade(cl, trade).amount
        /\ s.application_fee = 0 /\ s.sponsorship_fee = 0
        /\ s.min_out > 0 /\ s.min_out <= s.expected_out
        /\ s.ixs # << >>
    BY DEF CanCharge, ValidCandidate
  <1>3. /\ m \in SwapType
        /\ m.in_amount = IF cl.sdk THEN trade.amount ELSE s.in_amount
        /\ m.application_fee = IF cl.sdk THEN Fee(s) ELSE s.application_fee
        /\ m.sponsorship_fee = s.sponsorship_fee
        /\ m.expected_out = s.expected_out - Cut(s)
        /\ m.min_out = s.min_out - Cut(s)
        /\ m.ixs # << >> /\ m.ixs[1] = s.ixs[1]
    BY <1>1, <1>2, SdkFee DEF SdkCharged
  <1> HIDE DEF m
  <1>4. Fee(s) \in Nat /\ Cut(s) \in Nat  BY FeeType
  <1>5. Cut(s) < s.min_out
    <2>1. CASE ~cl.sdk \/ trade.side # "Sell"  BY <1>2, <2>1 DEF Cut, Fee, SwapType
    <2>2. CASE cl.sdk /\ trade.side = "Sell"
      BY <2>2 DEF Cut, Fee, FeeBasis, CanCharge, CanApplySdkFee, CanQuoteAfterFee
    <2> QED  BY <2>1, <2>2
  <1>6. m.application_fee = Fee(s)  BY <1>2, <1>3 DEF Fee
  <1>7. trade.side = "Buy" => Fee(s) = FeeAmount(cl, trade.amount)
    BY DEF Fee, FeeBasis, FeeAmount
  <1>8. cl.ceiling \in Nat /\ trade.amount \in Nat /\ trade.side \in {"Buy", "Sell"}
    BY ClientFields, TradeFields
  <1>9. ~cl.sdk => FeeAmount(cl, trade.amount) = 0  BY DEF FeeAmount
  <1>10. /\ s.in_amount \in Int /\ s.min_out \in Int /\ s.expected_out \in Int
         /\ m.min_out \in Int /\ m.expected_out \in Int
    BY <1>3 DEF SwapType
  <1>11. CASE SponsorFor(cl, trade)
    <2> DEFINE c == ApplySponsorship(cl, trade, m)
               cut == IF trade.side = "Sell" THEN cl.ceiling ELSE 0
    <2>1. Charged(cl, trade, s) = c  BY <1>11 DEF Charged, m
    <2>2. /\ c \in SwapType
          /\ c.in_amount = trade.amount
          /\ c.application_fee = m.application_fee
          /\ c.sponsorship_fee = cl.ceiling
          /\ c.expected_out = m.expected_out - cut
          /\ c.min_out = m.min_out - cut
          /\ c.ixs[1] = m.ixs[1]
          /\ c.ixs[Len(c.ixs)] = Ix("usdc_transfer", trade.wallet, cl.collector, cl.ceiling)
      BY <1>3, Sponsorship
    <2> HIDE DEF c
    <2>3. trade.side = "Sell" => m.min_out > cl.ceiling
      BY <1>11 DEF CanCharge, CanApplySponsorship, CanSubtract, m
    <2>4. 0 < c.min_out /\ c.min_out <= c.expected_out
      <3>1. 0 < m.min_out /\ m.min_out <= m.expected_out
        BY <1>2, <1>3, <1>4, <1>5, <1>10
      <3>2. CASE trade.side = "Sell"  BY <1>8, <1>10, <2>2, <2>3, <3>1, <3>2
      <3>3. CASE trade.side = "Buy"  BY <1>10, <2>2, <3>1, <3>3
      <3> QED  BY <1>8, <3>2, <3>3
    <2>5. trade.side = "Buy" =>
            s.in_amount + c.application_fee + c.sponsorship_fee = trade.amount
      <3>1. SUFFICES ASSUME trade.side = "Buy"
                     PROVE  s.in_amount + c.application_fee + c.sponsorship_fee = trade.amount
        OBVIOUS
      <3>2. s.in_amount = trade.amount - Fee(s) - cl.ceiling
        BY <1>2, <1>7, <1>11, <3>1, RoutedAmount
      <3> QED  BY <1>4, <1>6, <1>8, <2>2, <3>2
    <2> QED  BY <1>3, <2>1, <2>2, <2>4, <2>5
  <1>12. CASE ~SponsorFor(cl, trade)
    <2>1. Charged(cl, trade, s) = m  BY <1>12 DEF Charged, m
    <2>2. s.in_amount = trade.amount - (IF trade.side = "Buy" THEN FeeAmount(cl, trade.amount) ELSE 0)
      <3>1. FeeAmount(cl, trade.amount) \in Nat  BY <1>8, FeeAmountType
      <3>2. CASE trade.side = "Buy"  BY <1>2, <1>8, <1>12, <3>1, <3>2, RoutedAmount
      <3>3. CASE trade.side # "Buy"  BY <1>2, <1>8, <3>3, RoutedAmount
      <3> QED  BY <3>2, <3>3
    <2>3. m.in_amount = trade.amount  BY <1>3, <1>8, <1>9, <2>2
    <2>4. trade.side = "Buy" => s.in_amount + m.application_fee + m.sponsorship_fee = trade.amount
      BY <1>2, <1>3, <1>4, <1>6, <1>7, <1>8, <2>2
    <2>5. 0 < m.min_out /\ m.min_out <= m.expected_out
      BY <1>2, <1>3, <1>4, <1>5, <1>10
    <2> QED  BY <1>3, <1>12, <2>1, <2>3, <2>4, <2>5
  <1> QED  BY <1>11, <1>12

\* A native swap taken directly is never a sponsored one.
LEMMA DirectSwapKeepsBudget ==
    ASSUME rq \in Requests, NEW s \in SwapType, s.expected_out >= 0,
           CanApplySdkFee(cl, trade, s)
    PROVE  LET c == DirectSwap(cl, trade, s)
           IN  /\ c.in_amount = trade.amount \/ ~cl.sdk
               /\ cl.sdk => 0 < c.min_out /\ c.min_out <= c.expected_out
  <1>1. LET c == DirectSwap(cl, trade, s)
        IN  /\ c.in_amount = IF cl.sdk THEN trade.amount ELSE s.in_amount
            /\ c.expected_out = s.expected_out - Cut(s)
            /\ c.min_out = s.min_out - Cut(s)
    BY SdkFee, TradeFields DEF DirectSwap
  <1>2. Cut(s) \in Nat /\ s.expected_out \in Int /\ s.min_out \in Int
    BY FeeType DEF SwapType
  <1>3. cl.sdk => s.expected_out >= s.min_out /\ Cut(s) < s.min_out
    BY DEF CanApplySdkFee, CanQuoteAfterFee, Cut, Fee, FeeBasis
  <1> QED  BY <1>1, <1>2, <1>3

-----------------------------------------------------------------------------
(* Selection. *)

Replies == {Unasked, Asked, Failed} \cup {Replied(Offered(o)) : o \in Offers}

Usable(x) == x.state = "replied" /\ CanCharge(cl, trade, x.swap)
Value(x) == Charged(cl, trade, x.swap)

LEMMA ReplyFields ==
    ASSUME NEW x \in Replies, x.state = "replied"
    PROVE  \E o \in Offers : x = Replied(Offered(o)) /\ x.swap = Offered(o)
  BY DEF Replies, Unasked, Asked, Failed, Replied

LEMMA UsableValue ==
    ASSUME rq \in Requests, NEW x \in Replies, Usable(x)
    PROVE  Value(x).min_out \in Int
  <1>1. PICK o \in Offers : x.swap = Offered(o)  BY ReplyFields DEF Usable
  <1>2. PICK s : s = x.swap  OBVIOUS
  <1>3. s \in SwapType /\ s.expected_out >= 0  BY <1>1, <1>2, OfferedType
  <1>4. CanCharge(cl, trade, s)  BY <1>2 DEF Usable
  <1>5. Charged(cl, trade, s) \in SwapType  BY <1>3, <1>4, ChargedSwap
  <1> QED  BY <1>2, <1>5 DEF Value, SwapType

\* The first of the best usable replies in their order.
LEMMA SelectBestIsBest ==
    ASSUME rq \in Requests, NEW n \in Replies, NEW j \in Replies, NEW d \in Replies
    PROVE  LET best == SelectBest(n, j, d)
           IN  \/ ~Usable(n) /\ ~Usable(j) /\ ~Usable(d) /\ best = Failed
               \/ /\ Usable(n) /\ best = Replied(Value(n))
                  /\ Usable(j) => Value(j).min_out <= Value(n).min_out
                  /\ Usable(d) => Value(d).min_out <= Value(n).min_out
               \/ /\ Usable(j) /\ best = Replied(Value(j))
                  /\ Usable(n) => Value(n).min_out < Value(j).min_out
                  /\ Usable(d) => Value(d).min_out <= Value(j).min_out
               \/ /\ Usable(d) /\ best = Replied(Value(d))
                  /\ Usable(n) => Value(n).min_out < Value(d).min_out
                  /\ Usable(j) => Value(j).min_out < Value(d).min_out
  <1>1. \A best, x : ~Usable(x) => Consider(best, x) = best
    BY DEF Consider, Usable
  <1>2. \A x : Usable(x) => Consider(Failed, x) = Replied(Value(x))
    BY DEF Consider, Usable, Value, Failed
  <1>3. \A x, y : Usable(y) =>
           Consider(Replied(Value(x)), y) =
              IF Value(y).min_out > Value(x).min_out THEN Replied(Value(y)) ELSE Replied(Value(x))
    BY DEF Consider, Usable, Value, Replied, Beats
  <1>4. \A x \in {n, j, d} : Usable(x) => Value(x).min_out \in Int
    BY UsableValue
  <1> DEFINE one == Consider(Failed, n)
             two == Consider(one, j)
             three == Consider(two, d)
  <1>5. one = IF Usable(n) THEN Replied(Value(n)) ELSE Failed  BY <1>1, <1>2
  <1> HIDE DEF one
  <1>6. \/ ~Usable(n) /\ ~Usable(j) /\ two = Failed
        \/ /\ Usable(n) /\ two = Replied(Value(n))
           /\ Usable(j) => Value(j).min_out <= Value(n).min_out
        \/ /\ Usable(j) /\ two = Replied(Value(j))
           /\ Usable(n) => Value(n).min_out < Value(j).min_out
    <2>1. CASE ~Usable(j)  BY <1>1, <1>5, <2>1
    <2>2. CASE Usable(j) /\ ~Usable(n)  BY <1>2, <1>5, <2>2
    <2>3. CASE Usable(j) /\ Usable(n)  BY <1>3, <1>4, <1>5, <2>3
    <2> QED  BY <2>1, <2>2, <2>3
  <1> HIDE DEF two
  <1>7. three = SelectBest(n, j, d)  BY DEF SelectBest, one, two
  <1>8. CASE ~Usable(d)  BY <1>1, <1>6, <1>7, <1>8
  <1>9. CASE Usable(d) /\ two = Failed /\ ~Usable(n) /\ ~Usable(j)
    BY <1>2, <1>7, <1>9
  <1>10. CASE Usable(d) /\ Usable(n) /\ two = Replied(Value(n))
              /\ (Usable(j) => Value(j).min_out <= Value(n).min_out)
    BY <1>3, <1>4, <1>7, <1>10
  <1>11. CASE Usable(d) /\ Usable(j) /\ two = Replied(Value(j))
              /\ (Usable(n) => Value(n).min_out < Value(j).min_out)
    BY <1>3, <1>4, <1>7, <1>11
  <1> QED  BY <1>6, <1>8, <1>9, <1>10, <1>11

-----------------------------------------------------------------------------
(* The inductive invariant. *)

Stages == {"start", "lookup", "native", "compare", "fallback", "done"}

\* Before a call ends it has no answer, and what it has asked and heard fits
\* its stage; once it has ended, the properties hold of its answer.
RouteInv ==
    /\ rq \in Requests /\ stage \in Stages
    /\ reply \in [Venues -> Replies]
    /\ asks \in [Venues -> 0..1]
    /\ elapsed \in 0..RouteTimeout
    /\ stage \notin {"start", "done"} => Routable(cl, trade)
    /\ stage \in {"start", "lookup"} => \A v \in Venues : reply[v] = Unasked /\ asks[v] = 0
    /\ stage \in {"lookup", "native"} => ~ComparedByTrade(trade)
    /\ stage = "native" =>
          /\ \A v \in Venues : reply[v] \in {Unasked, Asked}
          /\ asks["jupiter"] = 0 /\ asks["dflow"] = 0
    /\ IF stage = "done"
       THEN /\ answer.state \in {"failed", "replied"}
            /\ WinnerIsBest /\ NobodyAskedNeedlessly /\ AnswerKeepsBudget
       ELSE answer = None

LEMMA InitRoute == Init => RouteInv
  <1> SUFFICES ASSUME Init PROVE RouteInv  OBVIOUS
  <1>1. Unasked \in Replies  BY DEF Replies
  <1>2. 0 \in 0..RouteTimeout  BY RouteAssumption
  <1> QED  BY <1>1, <1>2 DEF Init, RouteInv, Stages

\* Asking venues that were not asked before, from a stage of its own.
LEMMA AskingKeepsRoute ==
    ASSUME RouteInv, rq' = rq, answer' = answer, elapsed' = 0, Routable(cl, trade),
           stage \in {"start", "lookup", "native"},
           NEW X \in SUBSET Venues, NEW y \in [Venues -> {Unasked, Failed}],
           stage' \in {"native", "compare", "fallback"},
           \A v \in X : asks[v] = 0,
           stage' = "native" => /\ X = {"native"} /\ ~ComparedByTrade(trade)
                                /\ stage # "native"
                                /\ \A v \in Venues : y[v] = Unasked,
           reply' = [v \in Venues |-> IF v \in X THEN Asked ELSE y[v]],
           asks' = [v \in Venues |-> IF v \in X THEN asks[v] + 1 ELSE asks[v]]
    PROVE  RouteInv'
  <1>1. cl' = cl /\ trade' = trade /\ Replies' = Replies
    BY DEF cl, trade, Replies, Offered, Unasked, Asked, Failed, Replied
  <1>2. reply' \in [Venues -> Replies]
    BY DEF Replies
  <1>3. asks' \in [Venues -> 0..1]
    BY DEF RouteInv
  <1>4. elapsed' \in 0..RouteTimeout  BY RouteAssumption
  <1>5. answer' = None  BY DEF RouteInv
  <1>6. stage' = "native" =>
          /\ \A v \in Venues : reply'[v] \in {Unasked, Asked}
          /\ asks'["jupiter"] = 0 /\ asks'["dflow"] = 0
    BY DEF RouteInv, Venues
  <1> QED  BY <1>1, <1>2, <1>3, <1>4, <1>5, <1>6 DEF RouteInv, Stages

\* Ending a call: the properties of its answer are all that is left to show.
LEMMA EndingKeepsRoute ==
    ASSUME RouteInv, rq' = rq, stage' = "done", elapsed' = elapsed,
           reply' \in [Venues -> Replies], asks' = asks,
           answer'.state \in {"failed", "replied"},
           WinnerIsBest', NobodyAskedNeedlessly', AnswerKeepsBudget'
    PROVE  RouteInv'
  <1>1. cl' = cl /\ trade' = trade /\ Replies' = Replies
    BY DEF cl, trade, Replies, Offered, Unasked, Asked, Failed, Replied
  <1> QED  BY <1>1 DEF RouteInv, Stages

LEMMA CompareKeepsRoute ==
    ASSUME RouteInv, rq' = rq, answer' = answer, Routable(cl, trade),
           stage \in {"start", "lookup"}, Compare
    PROVE  RouteInv'
  <1>1. Candidates \in SUBSET Venues  BY DEF Candidates, Aggregators, Venues
  <1>2. /\ reply \in [Venues -> {Unasked, Failed}]
        /\ \A v \in Candidates : asks[v] = 0
    BY <1>1 DEF RouteInv
  <1>3. /\ stage' = "compare" /\ elapsed' = 0
        /\ reply' = [v \in Venues |-> IF v \in Candidates THEN Asked ELSE reply[v]]
        /\ asks' = [v \in Venues |-> IF v \in Candidates THEN asks[v] + 1 ELSE asks[v]]
    BY DEF Compare, Ask
  <1> QED  BY <1>1, <1>2, <1>3, AskingKeepsRoute

LEMMA TryNativeKeepsRoute ==
    ASSUME RouteInv, rq' = rq, answer' = answer, Routable(cl, trade),
           stage \in {"start", "lookup"}, ~ComparedByTrade(trade), TryNative
    PROVE  RouteInv'
  <1> DEFINE X == {"native"}
  <1>1. X \in SUBSET Venues  BY DEF Venues
  <1>2. /\ reply \in [Venues -> {Unasked, Failed}]
        /\ \A v \in Venues : reply[v] = Unasked
        /\ \A v \in X : asks[v] = 0
    BY <1>1 DEF RouteInv
  <1>3. /\ stage' = "native" /\ elapsed' = 0
        /\ reply' = [v \in Venues |-> IF v \in X THEN Asked ELSE reply[v]]
        /\ asks' = [v \in Venues |-> IF v \in X THEN asks[v] + 1 ELSE asks[v]]
    BY DEF TryNative, Ask
  <1> QED  BY <1>1, <1>2, <1>3, AskingKeepsRoute

LEMMA FallbackKeepsRoute ==
    ASSUME RouteInv, rq' = rq, answer' = answer, stage \in {"lookup", "native"}, Fallback
    PROVE  RouteInv'
  <1> DEFINE y == [v \in Venues |-> Failed]
  <1>1. FallbackVenues \in SUBSET (Venues \ {"native"})
    BY DEF FallbackVenues, Aggregators, Venues
  <1>2. \A v \in FallbackVenues : asks[v] = 0
    BY <1>1 DEF RouteInv, Venues
  <1>3. /\ stage' = "fallback" /\ elapsed' = 0 /\ y \in [Venues -> {Unasked, Failed}]
        /\ reply' = [v \in Venues |-> IF v \in FallbackVenues THEN Asked ELSE y[v]]
        /\ asks' = [v \in Venues |-> IF v \in FallbackVenues THEN asks[v] + 1 ELSE asks[v]]
    BY DEF Fallback
  <1>4. Routable(cl, trade)  BY DEF RouteInv
  <1> HIDE DEF y
  <1> QED  BY <1>1, <1>2, <1>3, <1>4, AskingKeepsRoute

\* An error before any venue has replied with a swap.
LEMMA RefusalKeepsRoute ==
    ASSUME RouteInv, rq' = rq, Return(Error), stage \in {"start", "native"},
           ~Routable(cl, trade) => stage = "start",
           UNCHANGED << reply, asks, elapsed >>
    PROVE  RouteInv'
  <1>1. cl' = cl /\ trade' = trade  BY DEF cl, trade
  <1>2. stage' = "done" /\ answer' = Error /\ answer'.state = "failed"
    BY DEF Return, Error
  <1>3. reply \in [Venues -> Replies] /\ \A v \in Venues : reply[v] \in {Unasked, Asked}
    BY DEF RouteInv
  <1>4. Contenders' = {}
    BY <1>3 DEF Contenders, Unasked, Asked
  <1>5. WinnerIsBest'  BY <1>2, <1>4 DEF WinnerIsBest
  <1>6. NobodyAskedNeedlessly'
    BY <1>1, <1>2 DEF NobodyAskedNeedlessly, RouteInv
  <1>7. AnswerKeepsBudget'  BY <1>2 DEF AnswerKeepsBudget
  <1> QED  BY <1>2, <1>3, <1>5, <1>6, <1>7, EndingKeepsRoute

LEMMA StartKeepsRoute == RouteInv /\ Start => RouteInv'
  <1> SUFFICES ASSUME RouteInv, Start PROVE RouteInv'  OBVIOUS
  <1>1. /\ stage = "start" /\ Routable(cl, trade) /\ rq' = rq /\ answer' = answer
    BY DEF Start
  <1>2. CASE Compare  BY <1>1, <1>2, CompareKeepsRoute
  <1>3. CASE ~ComparedByTrade(trade) /\ TryNative  BY <1>1, <1>3, TryNativeKeepsRoute
  <1>4. CASE /\ ~ComparedByTrade(trade) /\ stage' = "lookup" /\ elapsed' = 0
             /\ UNCHANGED << reply, asks >>
    <2>1. cl' = cl /\ trade' = trade /\ Replies' = Replies
      BY <1>1 DEF cl, trade, Replies, Offered, Unasked, Asked, Failed, Replied
    <2>2. 0 \in 0..RouteTimeout  BY RouteAssumption
    <2> QED  BY <1>1, <1>4, <2>1, <2>2 DEF RouteInv, Stages
  <1> QED  BY <1>2, <1>3, <1>4 DEF Start

LEMMA LookupKeepsRoute ==
    RouteInv /\ (LookupAnswers \/ LookupFails) => RouteInv'
  <1> SUFFICES ASSUME RouteInv, LookupAnswers \/ LookupFails PROVE RouteInv'  OBVIOUS
  <1>1. /\ stage = "lookup" /\ rq' = rq /\ answer' = answer
        /\ Routable(cl, trade) /\ ~ComparedByTrade(trade)
    BY DEF LookupAnswers, LookupFails, RouteInv
  <1>2. CASE Compare  BY <1>1, <1>2, CompareKeepsRoute
  <1>3. CASE TryNative  BY <1>1, <1>3, TryNativeKeepsRoute
  <1>4. CASE Fallback  BY <1>1, <1>4, FallbackKeepsRoute
  <1> QED  BY <1>2, <1>3, <1>4 DEF LookupAnswers, LookupFails

LEMMA NativeRepliesKeepsRoute == RouteInv /\ NativeReplies => RouteInv'
  <1> SUFFICES ASSUME RouteInv, stage = "native", rq' = rq,
                      NEW o \in Offers, NativeAnswers(o)
               PROVE  RouteInv'
    BY DEF NativeReplies
  <1> DEFINE s == Offered(o)
  <1>1. cl' = cl /\ trade' = trade  BY DEF cl, trade
  <1>2. rq \in Requests /\ Routable(cl, trade) /\ ~ComparedByTrade(trade)
    BY DEF RouteInv
  <1>3. CASE CanApplySdkFee(cl, trade, s)
    <2> DEFINE c == DirectSwap(cl, trade, s)
    <2>1. s \in SwapType /\ s.expected_out >= 0  BY <1>2, OfferedType
    <2>2. /\ c.in_amount = trade.amount \/ ~cl.sdk
          /\ cl.sdk => 0 < c.min_out /\ c.min_out <= c.expected_out
      <3> HIDE DEF s
      <3> QED  BY <1>2, <1>3, <2>1, DirectSwapKeepsBudget
    <2>3. /\ stage' = "done" /\ answer' = Answer(c, "direct")
          /\ reply' = [reply EXCEPT !["native"] = Replied(s)]
          /\ asks' = asks /\ elapsed' = elapsed
      BY <1>3 DEF NativeAnswers, Return
    <2>4. answer'.state = "replied" /\ answer'.how = "direct" /\ answer'.swap = c
      BY <2>3 DEF Answer
    <2>5. reply' \in [Venues -> Replies]
      BY <2>3 DEF RouteInv, Replies
    <2>6. WinnerIsBest'  BY <2>4 DEF WinnerIsBest
    <2>7. NobodyAskedNeedlessly'
      BY <1>1, <1>2, <2>3 DEF NobodyAskedNeedlessly, RouteInv
    <2>8. AnswerKeepsBudget'
      <3>1. ~SponsorFor(cl, trade)  BY <1>2 DEF ComparedByTrade, SponsorFor
      <3> HIDE DEF c
      <3> QED  BY <1>1, <2>2, <2>4, <3>1 DEF AnswerKeepsBudget
    <2> QED  BY <2>3, <2>4, <2>5, <2>6, <2>7, <2>8, EndingKeepsRoute
  <1>4. CASE Return(Error) /\ UNCHANGED << reply, asks, elapsed >>
    BY <1>2, <1>4, RefusalKeepsRoute
  <1>5. CASE Fallback /\ UNCHANGED answer
    BY <1>5, FallbackKeepsRoute
  <1> QED  BY <1>3, <1>4, <1>5 DEF NativeAnswers

LEMMA VenueKeepsRoute ==
    ASSUME NEW v \in Venues
    PROVE  RouteInv /\ (VenueReplies(v) \/ VenueFails(v)) => RouteInv'
  <1> SUFFICES ASSUME RouteInv, VenueReplies(v) \/ VenueFails(v) PROVE RouteInv'
    OBVIOUS
  <1>1. /\ stage \in {"compare", "fallback"}
        /\ UNCHANGED << rq, stage, asks, elapsed, answer >>
    BY DEF VenueReplies, VenueFails, Gathering
  <1>2. PICK x \in Replies : reply' = [reply EXCEPT ![v] = x]
    BY DEF VenueReplies, VenueFails, Replies
  <1>3. reply' \in [Venues -> Replies]  BY <1>2 DEF RouteInv
  <1>4. cl' = cl /\ trade' = trade /\ Replies' = Replies
    BY <1>1 DEF cl, trade, Replies, Offered, Unasked, Asked, Failed, Replied
  <1> QED  BY <1>1, <1>3, <1>4 DEF RouteInv

LEMMA TickKeepsRoute == RouteInv /\ Tick => RouteInv'
  <1> SUFFICES ASSUME RouteInv, Tick PROVE RouteInv'  OBVIOUS
  <1>1. /\ stage # "done" /\ UNCHANGED << rq, stage, reply, asks, answer >>
    BY DEF Tick
  <1>2. elapsed' \in 0..RouteTimeout
    BY RouteAssumption DEF Tick, RouteInv
  <1>3. cl' = cl /\ trade' = trade /\ Replies' = Replies
    BY <1>1 DEF cl, trade, Replies, Offered, Unasked, Asked, Failed, Replied
  <1> QED  BY <1>1, <1>2, <1>3 DEF RouteInv

LEMMA StutterKeepsRoute == RouteInv /\ UNCHANGED vars => RouteInv'
  <1> SUFFICES ASSUME RouteInv, UNCHANGED vars PROVE RouteInv'  OBVIOUS
  <1>1. UNCHANGED << rq, stage, reply, asks, elapsed, answer >>  BY DEF vars
  <1>2. cl' = cl /\ trade' = trade /\ Replies' = Replies
    BY <1>1 DEF cl, trade, Replies, Offered, Unasked, Asked, Failed, Replied
  <1>3. Contenders' = Contenders  BY <1>1, <1>2 DEF Contenders
  <1>4. WinnerIsBest' = WinnerIsBest  BY <1>1, <1>2, <1>3 DEF WinnerIsBest
  <1>5. NobodyAskedNeedlessly' = NobodyAskedNeedlessly
    BY <1>1, <1>2 DEF NobodyAskedNeedlessly
  <1>6. AnswerKeepsBudget' = AnswerKeepsBudget  BY <1>1, <1>2 DEF AnswerKeepsBudget
  <1> QED  BY <1>1, <1>2, <1>4, <1>5, <1>6 DEF RouteInv

\* What selection makes of the replies gathered.
LEMMA ChosenAnswer ==
    ASSUME RouteInv, Select
    PROVE  \/ /\ answer' = Error
              /\ \A v \in Venues : ~Usable(reply[v])
           \/ \E v \in Venues :
                /\ answer' = Answer(Value(reply[v]), "chosen") /\ Usable(reply[v])
                /\ \A w \in Venues \ {v} : Usable(reply[w]) =>
                     IF Rank[w] < Rank[v]
                     THEN Value(reply[w]).min_out < Value(reply[v]).min_out
                     ELSE Value(reply[w]).min_out <= Value(reply[v]).min_out
  <1> DEFINE n == reply["native"]
             j == reply["jupiter"]
             d == reply["dflow"]
             best == SelectBest(n, j, d)
  <1>1. rq \in Requests /\ n \in Replies /\ j \in Replies /\ d \in Replies
    BY DEF RouteInv, Venues
  <1>2. answer' = IF best.state = "replied" THEN Answer(best.swap, "chosen") ELSE Error
    BY DEF Select, Return
  <1>3. Failed.state # "replied"  BY DEF Failed
  <1>4. \A s : Replied(s).state = "replied" /\ Replied(s).swap = s  BY DEF Replied
  <1>5. Venues = {"native", "jupiter", "dflow"}
        /\ Rank["native"] = 1 /\ Rank["jupiter"] = 2 /\ Rank["dflow"] = 3
    BY DEF Venues, Rank
  <1> HIDE DEF best
  <1>6. \/ ~Usable(n) /\ ~Usable(j) /\ ~Usable(d) /\ best = Failed
        \/ /\ Usable(n) /\ best = Replied(Value(n))
           /\ Usable(j) => Value(j).min_out <= Value(n).min_out
           /\ Usable(d) => Value(d).min_out <= Value(n).min_out
        \/ /\ Usable(j) /\ best = Replied(Value(j))
           /\ Usable(n) => Value(n).min_out < Value(j).min_out
           /\ Usable(d) => Value(d).min_out <= Value(j).min_out
        \/ /\ Usable(d) /\ best = Replied(Value(d))
           /\ Usable(n) => Value(n).min_out < Value(d).min_out
           /\ Usable(j) => Value(j).min_out < Value(d).min_out
    <2> HIDE DEF n, j, d
    <2> QED  BY <1>1, SelectBestIsBest DEF best
  <1>7. CASE ~Usable(n) /\ ~Usable(j) /\ ~Usable(d) /\ best = Failed
    BY <1>2, <1>3, <1>5, <1>7
  <1>8. CASE /\ Usable(n) /\ best = Replied(Value(n))
             /\ Usable(j) => Value(j).min_out <= Value(n).min_out
             /\ Usable(d) => Value(d).min_out <= Value(n).min_out
    BY <1>2, <1>4, <1>5, <1>8
  <1>9. CASE /\ Usable(j) /\ best = Replied(Value(j))
             /\ Usable(n) => Value(n).min_out < Value(j).min_out
             /\ Usable(d) => Value(d).min_out <= Value(j).min_out
    BY <1>2, <1>4, <1>5, <1>9
  <1>10. CASE /\ Usable(d) /\ best = Replied(Value(d))
              /\ Usable(n) => Value(n).min_out < Value(d).min_out
              /\ Usable(j) => Value(j).min_out < Value(d).min_out
    BY <1>2, <1>4, <1>5, <1>10
  <1> QED  BY <1>6, <1>7, <1>8, <1>9, <1>10

LEMMA SelectKeepsRoute == RouteInv /\ Select => RouteInv'
  <1> SUFFICES ASSUME RouteInv, Select PROVE RouteInv'  OBVIOUS
  <1>1. /\ stage \in {"compare", "fallback"} /\ stage' = "done"
        /\ UNCHANGED << rq, reply, asks, elapsed >>
    BY DEF Select, Gathering, Return
  <1>2. cl' = cl /\ trade' = trade  BY <1>1 DEF cl, trade
  <1>3. /\ rq \in Requests /\ Routable(cl, trade)
        /\ reply \in [Venues -> Replies] /\ asks \in [Venues -> 0..1]
    BY <1>1 DEF RouteInv
  <1>4. reply' \in [Venues -> Replies]  BY <1>1, <1>3
  <1>5. \A v \in Venues : v \in Contenders' <=> Usable(reply[v])
    BY <1>1, <1>2 DEF Contenders, Usable
  <1>6. CASE answer' = Error /\ \A v \in Venues : ~Usable(reply[v])
    <2>1. answer'.state = "failed"  BY <1>6 DEF Error
    <2>2. Contenders' = {}  BY <1>5, <1>6 DEF Contenders
    <2>3. WinnerIsBest'  BY <2>1, <2>2 DEF WinnerIsBest
    <2>4. NobodyAskedNeedlessly'
      BY <1>1, <1>2, <1>3, <2>1 DEF NobodyAskedNeedlessly
    <2>5. AnswerKeepsBudget'  BY <2>1 DEF AnswerKeepsBudget
    <2> QED  BY <1>1, <1>4, <2>1, <2>3, <2>4, <2>5, EndingKeepsRoute
  <1>7. ASSUME NEW v \in Venues,
               answer' = Answer(Value(reply[v]), "chosen"), Usable(reply[v]),
               \A w \in Venues \ {v} : Usable(reply[w]) =>
                  IF Rank[w] < Rank[v]
                  THEN Value(reply[w]).min_out < Value(reply[v]).min_out
                  ELSE Value(reply[w]).min_out <= Value(reply[v]).min_out
        PROVE  RouteInv'
    <2> DEFINE c == Value(reply[v])
    <2>1. answer'.state = "replied" /\ answer'.how = "chosen" /\ answer'.swap = c
      BY <1>7 DEF Answer
    <2>2. \A w \in Venues : Charged(cl', trade', reply'[w].swap) = Value(reply[w])
      BY <1>1, <1>2 DEF Value
    <2>3. WinnerIsBest'
      <3>1. v \in Contenders'  BY <1>5, <1>7
      <3>2. \A w \in Contenders' \ {v} : w \in Venues \ {v} /\ Usable(reply[w])
        BY <1>5 DEF Contenders
      <3> HIDE DEF c
      <3>3. \A w \in Contenders' \ {v} :
              IF Rank[w] < Rank[v] THEN Charged(cl', trade', reply'[w].swap).min_out < c.min_out
              ELSE Charged(cl', trade', reply'[w].swap).min_out <= c.min_out
        BY <1>7, <2>2, <3>2 DEF c
      <3>4. c = Charged(cl', trade', reply'[v].swap)  BY <2>2 DEF c
      <3> QED  BY <2>1, <3>1, <3>3, <3>4 DEF WinnerIsBest
    <2>4. NobodyAskedNeedlessly'
      BY <1>1, <1>2, <1>3, <2>1 DEF NobodyAskedNeedlessly
    <2>5. AnswerKeepsBudget'
      <3>1. PICK o \in Offers : reply[v].swap = Offered(o)
        BY <1>3, <1>7, ReplyFields DEF Usable
      <3>2. PICK s : s = Offered(o)  OBVIOUS
      <3>3. /\ s \in SwapType /\ s.expected_out >= 0 /\ CanCharge(cl, trade, s)
            /\ s.ixs # << >> => s.ixs[1].amt = RouteTrade(cl, trade).amount
        BY <1>3, <1>7, <3>1, <3>2, OfferedType DEF Usable
      <3>4. s.ixs # << >> /\ s.in_amount = RouteTrade(cl, trade).amount
        BY <3>3 DEF CanCharge, ValidCandidate
      <3>5. c = Charged(cl, trade, s)  BY <3>1, <3>2 DEF Value
      <3> HIDE DEF c
      <3>6. /\ c.in_amount = trade.amount
            /\ trade.side = "Buy" =>
                  s.in_amount + c.application_fee + c.sponsorship_fee = trade.amount
            /\ SponsorFor(cl, trade) =>
                  /\ c.sponsorship_fee = cl.ceiling
                  /\ c.ixs[Len(c.ixs)]
                       = Ix("usdc_transfer", trade.wallet, cl.collector, cl.ceiling)
            /\ 0 < c.min_out /\ c.min_out <= c.expected_out
            /\ c.ixs[1].amt = s.in_amount
        BY <1>3, <3>3, <3>4, <3>5, ChargedSwap
      <3> QED  BY <1>2, <2>1, <3>6 DEF AnswerKeepsBudget
    <2> QED  BY <1>1, <1>4, <2>1, <2>3, <2>4, <2>5, EndingKeepsRoute
  <1> QED  BY <1>6, <1>7, ChosenAnswer

LEMMA NextKeepsRoute == RouteInv /\ [Next]_vars => RouteInv'
  <1> SUFFICES ASSUME RouteInv, [Next]_vars PROVE RouteInv'  OBVIOUS
  <1>1. CASE Reject
    <2>1. /\ stage = "start" /\ rq' = rq /\ Return(Error)
          /\ UNCHANGED << reply, asks, elapsed >>
      BY <1>1 DEF Reject
    <2> QED  BY <2>1, RefusalKeepsRoute
  <1>2. CASE Start  BY <1>2, StartKeepsRoute
  <1>3. CASE LookupAnswers \/ LookupFails \/ LookupTimesOut
    BY <1>3, LookupKeepsRoute DEF LookupTimesOut
  <1>4. CASE NativeReplies  BY <1>4, NativeRepliesKeepsRoute
  <1>5. CASE NativeFails \/ NativeTimesOut
    <2>1. stage = "native" /\ rq' = rq /\ answer' = answer /\ Fallback
      BY <1>5 DEF NativeFails, NativeTimesOut
    <2> QED  BY <2>1, FallbackKeepsRoute
  <1>6. CASE \E v \in Venues : VenueReplies(v) \/ VenueFails(v) \/ VenueTimesOut(v)
    BY <1>6, VenueKeepsRoute DEF VenueTimesOut
  <1>7. CASE Select  BY <1>7, SelectKeepsRoute
  <1>8. CASE Tick  BY <1>8, TickKeepsRoute
  <1>9. CASE UNCHANGED vars  BY <1>9, StutterKeepsRoute
  <1> QED
    BY <1>1, <1>2, <1>3, <1>4, <1>5, <1>6, <1>7, <1>8, <1>9 DEF Next, TimesOut

LEMMA RouteHolds == Spec => []RouteInv
  BY InitRoute, NextKeepsRoute, PTL DEF Spec

LEMMA InvariantImplies ==
    RouteInv => TypeOK /\ WinnerIsBest /\ NobodyAskedNeedlessly /\ AnswerKeepsBudget
  <1> SUFFICES ASSUME RouteInv
               PROVE  TypeOK /\ WinnerIsBest /\ NobodyAskedNeedlessly /\ AnswerKeepsBudget
    OBVIOUS
  <1>1. TypeOK
    <2>1. \A x \in Replies : x.state \in {"unasked", "asked", "failed", "replied"}
      BY DEF Replies, Unasked, Asked, Failed, Replied
    <2>2. \A v \in Venues : reply[v] \in Replies /\ asks[v] \in Nat
      BY DEF RouteInv
    <2>3. answer.state = "pending" <=> stage # "done"
      BY DEF RouteInv, None
    <2> QED  BY <2>1, <2>2, <2>3 DEF TypeOK, RouteInv, Stages
  <1>2. CASE stage = "done"  BY <1>1, <1>2 DEF RouteInv
  <1>3. CASE stage # "done"
    <2>1. answer.state = "pending"  BY <1>3 DEF RouteInv, None
    <2>2. \A v \in Venues : asks[v] <= 1  BY DEF RouteInv
    <2>3. ~Routable(cl, trade) => \A v \in Venues : asks[v] = 0
      BY <1>3 DEF RouteInv
    <2> QED
      BY <1>1, <1>3, <2>1, <2>2, <2>3
         DEF WinnerIsBest, NobodyAskedNeedlessly, AnswerKeepsBudget
  <1> QED  BY <1>2, <1>3

-----------------------------------------------------------------------------
(* Theorems. *)

\* Every state of a route selection is well typed, whatever is requested and
\* offered, and no wait outlasts ROUTE_PREPARATION_TIMEOUT.
THEOREM TypeCorrect == Spec => []TypeOK
  BY RouteHolds, InvariantImplies, PTL

\* select_best_swap returns the charged swap no other usable reply beats after
\* fees, the first in the order native, Jupiter, DFlow among equals, however
\* the replies, failures and timeouts interleave.
THEOREM WinnerAlwaysBest == Spec => []WinnerIsBest
  BY RouteHolds, InvariantImplies, PTL

\* quote and prepare_swap put a trade to each venue at most once, to nobody
\* when the client must refuse it, and to no aggregator when the native venue's
\* own swap is taken.
THEOREM NobodyEverAskedNeedlessly == Spec => []NobodyAskedNeedlessly
  BY RouteHolds, InvariantImplies, PTL

\* The amounts of every answer add up: it is priced for the requested amount,
\* venue input and fees of a buy sum to it, a sponsored trade ends with the
\* ceiling's transfer and the net minimum is positive, whatever the fee rate,
\* the ceiling and the offers.
THEOREM AnswersKeepBudget == Spec => []AnswerKeepsBudget
  BY RouteHolds, InvariantImplies, PTL
=============================================================================

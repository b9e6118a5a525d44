------------------------ MODULE ProviderRoutesProofs ------------------------
(***************************************************************************)
(* Proofs about the Jupiter and DFlow adapters, for any requests, market   *)
(* prices and instruction lists.                                           *)
(***************************************************************************)
EXTENDS ProviderRoutes, SequenceFacts

-----------------------------------------------------------------------------
(* The request. *)

LEMMA RequestFields ==
    ASSUME rq \in Requests
    PROVE  /\ rq.client \in ClientType /\ rq.trade \in TradeType
           /\ rq.trade.amount \in Nat /\ rq.trade.slippage_bps \in Nat
           /\ rq.trade.wallet \in Addresses
           /\ rq.trade.settlement \in {"Sol", "Usdc"} /\ rq.trade.side \in {"Buy", "Sell"}
  <1>1. rq.client \in ClientType /\ rq.trade \in TradeType  BY ProviderAssumption
  <1> QED  BY <1>1 DEF TradeType

LEMMA ClientFields ==
    ASSUME rq \in Requests
    PROVE  /\ rq.client.sdk \in BOOLEAN /\ rq.client.bps \in Nat
           /\ rq.client.recipient \in Addresses /\ rq.client.payer \in Addresses
           /\ rq.client.collector \in Addresses /\ rq.client.ceiling \in Nat
  BY RequestFields DEF ClientType

LEMMA FeeAmountType ==
    ASSUME rq \in Requests, NEW basis \in Int
    PROVE  FeeAmount(rq.client, basis) \in Int
  BY ClientFields DEF FeeAmount, BASIS_POINTS

\* What is reserved from a trade leaves its slippage and its wallet alone.
LEMMA TradeFacts ==
    ASSUME rq \in Requests
    PROVE  /\ trade.amount \in Int
           /\ trade.slippage_bps = rq.trade.slippage_bps
           /\ trade.wallet = rq.trade.wallet
  <1> DEFINE t == rq.trade
             f == FeeAmount(rq.client, rq.trade.amount)
             u == TradeAfterFee(rq.client, rq.trade)
  <1>1. f \in Int /\ rq.client.ceiling \in Int
    BY RequestFields, ClientFields, FeeAmountType
  <1>2. u = [t EXCEPT !.amount = t.amount - f] \/ u = t
    BY RequestFields DEF TradeAfterFee, TradeType
  <1>3. t \in TradeType /\ t.amount \in Int  BY RequestFields
  <1> HIDE DEF f, u, t
  <1>4. /\ u.amount \in Int /\ u.slippage_bps = t.slippage_bps /\ u.wallet = t.wallet
        /\ DOMAIN u = DOMAIN t
    BY <1>1, <1>2, <1>3 DEF TradeType
  <1>5. trade = u \/ trade = [u EXCEPT !.amount = u.amount - rq.client.ceiling]
    BY DEF trade, RouteTrade, ReserveFee, u, t
  <1>6. trade.amount \in Int /\ trade.slippage_bps = u.slippage_bps /\ trade.wallet = u.wallet
    BY <1>1, <1>3, <1>4, <1>5 DEF TradeType
  <1> QED  BY <1>4, <1>6 DEF t

LEMMA SignersAllowed == Signers \subseteq {trade.wallet, PayerOf(rq.client, rq.trade)}
  BY DEF Signers, Sponsored, PayerOf

-----------------------------------------------------------------------------
(* Quotes. *)

\* A quote whose checks passed.
SoundQuote(q) ==
    /\ q.in_amount = trade.amount
    /\ q.out_amount \in Nat /\ q.threshold \in Nat
    /\ SoundMinimum(trade, q)

LEMMA QuoteReplyFields ==
    ASSUME rq \in Requests, market \in Prices, NEW q \in QuoteReplies
    PROVE  q.out_amount \in Nat /\ q.threshold \in Int
  <1>1. market \in Nat  BY ProviderAssumption
  <1>2. SlippageFloor(trade, market) \in Int
    BY <1>1, RequestFields, TradeFacts DEF SlippageFloor, BASIS_POINTS
  <1>3. PICK d \in -1..1 : LET p == PricedAt(trade, market, d) IN q = p \/ q \in WithOneFlaw(p)
    BY DEF QuoteReplies
  <1> DEFINE p == PricedAt(trade, market, d)
  <1>4. p.out_amount = market /\ p.threshold = SlippageFloor(trade, market) + d
    BY DEF PricedAt
  <1>5. p.out_amount \in Nat /\ p.threshold \in Int  BY <1>1, <1>2, <1>4
  <1>6. q.out_amount = p.out_amount /\ q.threshold = p.threshold
    <2>1. DOMAIN p = {"mints", "mode", "in_amount", "out_amount", "threshold",
                      "min_out_amount", "slippage_bps", "plan", "platform_fee"}
      BY DEF PricedAt
    <2> HIDE DEF p
    <2> QED  BY <1>3, <2>1 DEF WithOneFlaw, p
  <1> QED  BY <1>5, <1>6

LEMMA ValidQuoteIsSound ==
    ASSUME rq \in Requests, market \in Prices, NEW q \in QuoteReplies,
           JupiterValid(trade, q) \/ DFlowValid(trade, q)
    PROVE  SoundQuote(q)
  BY QuoteReplyFields DEF SoundQuote, JupiterValid, DFlowValid, SoundMinimum

-----------------------------------------------------------------------------
(* Instructions. *)

\* What the executor and the wallet rely on in a route's instructions.
SoundIxs(ixs, limit) ==
    /\ ixs \in Seq(Instruction)
    /\ \E i \in 1..Len(ixs) : ixs[i].op = "swap"
    /\ \A i \in 1..Len(ixs) :
          /\ ixs[i].op = "swap" => ixs[i].amt = limit
          /\ ixs[i].op \notin Replaced
          /\ ixs[i].by \in Signers

LEMMA BesideFields ==
    ASSUME NEW b \in Beside
    PROVE  /\ b \in Seq(Instruction)
           /\ \A i \in 1..Len(b) : b[i].op # "swap"
  <1>1. \A i \in 1..Len(b) : b[i] \in InstructionOf(Ops \ {"swap"})  BY DEF Beside
  <1>2. \A i \in 1..Len(b) : b[i] \in Instruction /\ b[i].op # "swap"
    BY <1>1 DEF InstructionOf, Instruction
  <1>3. b \in Seq(InstructionOf(Ops \ {"swap"}))  BY DEF Beside
  <1> QED  BY <1>2, <1>3

\* The one swap of a list stands behind p and before c and o.
SwapAmong(all, p, c, o, limit) ==
    /\ all \in Seq(Instruction)
    /\ Len(all) = Len(p) + 1 + Len(c) + Len(o)
    /\ all[Len(p) + 1].op = "swap"
    /\ \A i \in 1..Len(all) : all[i].op = "swap" => all[i].amt = limit
    /\ \A i \in 1..Len(all) : \/ i = Len(p) + 1
                              \/ \E j \in 1..Len(p) : all[i] = p[j]
                              \/ \E j \in 1..Len(c) : all[i] = c[j]
                              \/ \E j \in 1..Len(o) : all[i] = o[j]

Joined(r, p, q) ==
    /\ r \in Seq(Instruction) /\ Len(r) = Len(p) + Len(q)
    /\ \A i \in 1..Len(p) : r[i] = p[i]
    /\ \A i \in 1..Len(r) : i \notin 1..Len(p) => /\ i - Len(p) \in 1..Len(q)
                                                 /\ r[i] = q[i - Len(p)]

LEMMA Concatenated ==
    ASSUME NEW p \in Seq(Instruction), NEW q \in Seq(Instruction)
    PROVE  Joined(p \o q, p, q)
  BY DEF Joined

LEMMA SwapWithin ==
    ASSUME NEW l \in Lists, NEW limit \in Int, NEW p \in Beside, NEW c \in Beside, NEW o \in Beside
    PROVE  SwapAmong(p \o << SwapIx(l, limit) >> \o c \o o, p, c, o, limit)
  <1> DEFINE s == SwapIx(l, limit)
  <1>1. s \in Instruction /\ s.op = "swap" /\ s.amt = limit
    <2>1. l.swap \in Addresses  BY ProviderAssumption DEF ListType
    <2> QED  BY <2>1, ProviderAssumption DEF SwapIx, Ix, Instruction, InstructionOf, Ops
  <1>2. /\ p \in Seq(Instruction) /\ c \in Seq(Instruction) /\ o \in Seq(Instruction)
        /\ \A i \in 1..Len(p) : p[i].op # "swap"
        /\ \A i \in 1..Len(c) : c[i].op # "swap"
        /\ \A i \in 1..Len(o) : o[i].op # "swap"
    BY BesideFields
  <1> HIDE DEF s
  <1> DEFINE a == p \o << s >>
             b == a \o c
             all == b \o o
  <1>3. /\ a \in Seq(Instruction) /\ Len(a) = Len(p) + 1 /\ a[Len(p) + 1] = s
        /\ \A i \in 1..Len(p) : a[i] = p[i]
    BY <1>1, <1>2
  <1> HIDE DEF a
  <1>4. /\ b \in Seq(Instruction) /\ Len(b) = Len(a) + Len(c)
        /\ \A i \in 1..Len(a) : b[i] = a[i]
        /\ \A i \in 1..Len(b) : i \notin 1..Len(a) =>
              i - Len(a) \in 1..Len(c) /\ b[i] = c[i - Len(a)]
    BY <1>2, <1>3, Concatenated DEF Joined
  <1> HIDE DEF b
  <1>5. /\ all \in Seq(Instruction) /\ Len(all) = Len(b) + Len(o)
        /\ \A i \in 1..Len(b) : all[i] = b[i]
        /\ \A i \in 1..Len(all) : i \notin 1..Len(b) =>
              i - Len(b) \in 1..Len(o) /\ all[i] = o[i - Len(b)]
    BY <1>2, <1>4, Concatenated DEF Joined
  <1>6. Len(p) \in Nat /\ Len(c) \in Nat /\ Len(o) \in Nat  BY <1>2
  <1> HIDE DEF all
  <1>7. Len(all) = Len(p) + 1 + Len(c) + Len(o)  BY <1>3, <1>4, <1>5, <1>6
  <1>8. all[Len(p) + 1] = s
    <2>1. Len(p) + 1 \in 1..Len(a) /\ Len(p) + 1 \in 1..Len(b)  BY <1>3, <1>4, <1>6
    <2> QED  BY <1>3, <1>4, <1>5, <2>1
  <1>9. ASSUME NEW i \in 1..Len(all)
        PROVE  \/ i = Len(p) + 1
               \/ \E j \in 1..Len(p) : all[i] = p[j]
               \/ \E j \in 1..Len(c) : all[i] = c[j]
               \/ \E j \in 1..Len(o) : all[i] = o[j]
    <2>1. CASE i \notin 1..Len(b)  BY <1>5, <2>1
    <2>2. CASE i \in 1..Len(b) /\ i \notin 1..Len(a)
      <3>1. all[i] = c[i - Len(a)] /\ i - Len(a) \in 1..Len(c)  BY <1>4, <1>5, <2>2
      <3> QED  BY <3>1
    <2>3. CASE i \in 1..Len(a)
      <3>1. i \in 1..Len(b)  BY <1>3, <1>4, <1>6, <2>3
      <3>2. all[i] = a[i]  BY <1>4, <1>5, <2>3, <3>1
      <3>3. i \in 1..Len(p) \/ i = Len(p) + 1  BY <1>3, <1>6, <2>3
      <3> QED  BY <1>3, <3>2, <3>3
    <2> QED  BY <2>1, <2>2, <2>3
  <1>10. \A i \in 1..Len(all) : all[i].op = "swap" => all[i].amt = limit
    BY <1>1, <1>2, <1>8, <1>9
  <1>11. SwapAmong(all, p, c, o, limit)
    BY <1>1, <1>5, <1>7, <1>8, <1>9, <1>10 DEF SwapAmong
  <1> QED  BY <1>11 DEF all, b, a, s

LEMMA BesideConcat ==
    ASSUME NEW b \in Beside, NEW c \in Beside
    PROVE  b \o c \in Beside
  BY DEF Beside

LEMMA ListFields ==
    ASSUME NEW l \in Lists
    PROVE  /\ l.budget \in Beside /\ l.setup \in Beside /\ l.cleanup \in Beside
           /\ l.other \in Beside
  BY ProviderAssumption DEF ListType

\* Jupiter's compute budget never reaches the route.
LEMMA JupiterIxsSound ==
    ASSUME NEW l \in JupiterLists, NEW limit \in Int, NoThirdSigner(JupiterInstructions(l, limit))
    PROVE  SoundIxs(JupiterInstructions(l, limit), limit)
  <1> DEFINE ixs == JupiterInstructions(l, limit)
             p == l.setup
             c == l.cleanup
             o == l.other
  <1>1. l \in Lists /\ p \in Beside /\ c \in Beside /\ o \in Beside
    BY ListFields DEF JupiterLists
  <1>2. ixs = p \o << SwapIx(l, limit) >> \o c \o o  BY DEF JupiterInstructions
  <1>3. p \in Seq(Instruction) /\ c \in Seq(Instruction) /\ o \in Seq(Instruction)
    BY <1>1, BesideFields
  <1>4. /\ \A j \in 1..Len(p) : p[j].op \notin Replaced
        /\ \A j \in 1..Len(c) : c[j].op \notin Replaced
        /\ \A j \in 1..Len(o) : o[j].op \notin Replaced
    BY <1>3 DEF JupiterLists, Replaced, BudgetKinds
  <1>5. \A i \in DOMAIN ixs : ixs[i].by \in Signers  BY DEF NoThirdSigner
  <1> HIDE DEF ixs, p, c, o
  <1>a. SwapAmong(ixs, p, c, o, limit)  BY <1>1, <1>2, SwapWithin
  <1>6. /\ ixs \in Seq(Instruction)
        /\ Len(ixs) = Len(p) + 1 + Len(c) + Len(o)
        /\ ixs[Len(p) + 1].op = "swap"
        /\ \A i \in 1..Len(ixs) : ixs[i].op = "swap" => ixs[i].amt = limit
        /\ \A i \in 1..Len(ixs) : \/ i = Len(p) + 1
                                  \/ \E j \in 1..Len(p) : ixs[i] = p[j]
                                  \/ \E j \in 1..Len(c) : ixs[i] = c[j]
                                  \/ \E j \in 1..Len(o) : ixs[i] = o[j]
    BY <1>a DEF SwapAmong
  <1>7. \A i \in 1..Len(ixs) : ixs[i].op \notin Replaced
    BY <1>4, <1>6 DEF Replaced
  <1>8. Len(p) + 1 \in 1..Len(ixs)  BY <1>3, <1>6
  <1>9. DOMAIN ixs = 1..Len(ixs)  BY <1>6
  <1> QED  BY <1>5, <1>6, <1>7, <1>8, <1>9 DEF SoundIxs, ixs

\* DFlow's limit and price are dropped, and nothing else is.
LEMMA DFlowIxsSound ==
    ASSUME NEW l \in Lists, NEW limit \in Int, DFlowAcceptable(l, limit)
    PROVE  SoundIxs(DFlowInstructions(l, limit), limit)
  <1> DEFINE all == DFlowList(l, limit)
             ixs == DFlowInstructions(l, limit)
             K == {ix \in Instruction : Kept(ix)}
             p == l.budget \o l.setup
  <1>1. p \in Beside /\ l.cleanup \in Beside /\ l.other \in Beside
    BY ListFields, BesideConcat
  <1>2. all = p \o << SwapIx(l, limit) >> \o l.cleanup \o l.other
    BY DEF DFlowList
  <1>3. p \in Seq(Instruction) /\ l.cleanup \in Seq(Instruction) /\ l.other \in Seq(Instruction)
    BY <1>1, BesideFields
  <1> DEFINE c == l.cleanup
             o == l.other
  <1>4. \A i \in DOMAIN all : all[i].by \in Signers
    BY DEF DFlowAcceptable, NoThirdSigner
  <1>5. ixs = Only(all, K)  BY DEF DFlowInstructions
  <1> HIDE DEF all, ixs, K, p, c, o
  <1>a. SwapAmong(all, p, c, o, limit)  BY <1>1, <1>2, SwapWithin DEF c, o
  <1>6. /\ all \in Seq(Instruction)
        /\ Len(all) = Len(p) + 1 + Len(c) + Len(o)
        /\ all[Len(p) + 1].op = "swap"
        /\ \A i \in 1..Len(all) : all[i].op = "swap" => all[i].amt = limit
    BY <1>a DEF SwapAmong
  <1>7. Len(p) + 1 \in 1..Len(all)
    <2>1. Len(p) \in Nat /\ Len(c) \in Nat /\ Len(o) \in Nat  BY <1>3 DEF c, o
    <2> QED  BY <1>6, <2>1
  <1>8. ixs \in Seq(Instruction)  BY <1>5, <1>6, OnlyType
  <1>9. \A i \in 1..Len(ixs) : ixs[i] \in K /\ \E j \in 1..Len(all) : all[j] = ixs[i]
    <2> SUFFICES ASSUME NEW i \in 1..Len(ixs)
                 PROVE  ixs[i] \in K /\ \E j \in 1..Len(all) : all[j] = ixs[i]
      OBVIOUS
    <2>1. all \in Seq(Instruction) /\ i \in 1..Len(Only(all, K))  BY <1>5, <1>6
    <2>2. Only(all, K)[i] \in K /\ \E j \in 1..Len(all) : all[j] = Only(all, K)[i]
      BY <2>1, OnlySelects
    <2> QED  BY <1>5, <2>2
  <1>10. \E i \in 1..Len(ixs) : ixs[i] = all[Len(p) + 1]
    <2>1. all[Len(p) + 1] \in Instruction  BY <1>6, <1>7
    <2>2. all[Len(p) + 1] \in K  BY <1>6, <2>1 DEF K, Kept, Replaced
    <2> DEFINE x == all[Len(p) + 1]
    <2>3. \E j \in 1..Len(all) : all[j] = x  BY <1>7
    <2> HIDE DEF x
    <2>4. x \in K  BY <2>2 DEF x
    <2>5. \E i \in 1..Len(ixs) : ixs[i] = x  BY <1>5, <1>6, <2>3, <2>4, OnlyElements
    <2> QED  BY <2>5 DEF x
  <1>11. \A i \in 1..Len(ixs) : ixs[i].op \notin Replaced  BY <1>9 DEF K, Kept
  <1>12. DOMAIN all = 1..Len(all)  BY <1>6
  <1> QED
    BY <1>4, <1>6, <1>8, <1>9, <1>10, <1>11, <1>12 DEF SoundIxs, ixs

-----------------------------------------------------------------------------
(* The inductive invariant. *)

\* What an adapter that answers answers with.
SoundSwap(s) ==
    /\ s.in_amount = trade.amount
    /\ s.application_fee = 0 /\ s.sponsorship_fee = 0
    /\ s.expected_out \in Nat /\ s.min_out \in Nat
    /\ s.min_out > 0 /\ s.min_out <= s.expected_out
    /\ s.min_out >= SlippageFloor(trade, s.expected_out)
    /\ SoundIxs(s.ixs, s.min_out)
    /\ DOMAIN s = {"in_amount", "expected_out", "min_out", "application_fee",
                   "sponsorship_fee", "ixs"}

AnswerSound ==
    /\ stage # "done" => result = Pending
    /\ result.state = "replied" =>
          result = Accepted(result.swap) /\ SoundSwap(result.swap)
    /\ stage \notin {"start", "done"} => CanAsk(trade)
    /\ result.state = "replied" => CanAsk(trade)

CarriedSound ==
    /\ stage \in {"instructions", "tables"} => SoundQuote(carried)
    /\ stage = "tables" => SoundIxs(got, carried.threshold)

PaidEnough ==
    paid # Unpaid => result.state = "replied" /\ paid >= result.swap.min_out

ProviderInv == TypeOK /\ AnswerSound /\ CarriedSound /\ PaidEnough

LEMMA QuoteMakesSwap ==
    ASSUME NEW q, NEW ixs, SoundQuote(q), SoundIxs(ixs, q.threshold)
    PROVE  SoundSwap(AsQuote(q, ixs))
  BY DEF SoundSwap, AsQuote, SoundQuote, SoundMinimum

LEMMA ResultStates ==
    ASSUME NEW e, NEW s
    PROVE  /\ Pending.state = "asked" /\ Error(e).state = "failed"
           /\ Quoted(s).state = "quoted"
           /\ Accepted(s).state = "replied" /\ Accepted(s).swap = s
  BY DEF Pending, Error, Quoted, Accepted

LEMMA ProviderInit == Init => ProviderInv
  <1> SUFFICES ASSUME Init PROVE ProviderInv  OBVIOUS
  <1>1. TypeOK
    BY ProviderAssumption, ResultStates DEF Init, TypeOK, Unpaid
  <1> QED  BY <1>1, ResultStates DEF Init, ProviderInv, AnswerSound, CarriedSound, PaidEnough

\* While a call is open, it has neither answered nor paid.
LEMMA OpenCall ==
    ASSUME ProviderInv, stage # "done"
    PROVE  result = Pending /\ paid = Unpaid
  BY ResultStates DEF ProviderInv, AnswerSound, PaidEnough

\* A call that ends with an error or a quote, whatever its stage.
LEMMA EndsUnanswered ==
    ASSUME ProviderInv, stage # "done", stage' = "done",
           result'.state \in {"failed", "quoted"},
           UNCHANGED << rq, market, carried, got, paid, elapsed >>
    PROVE  ProviderInv'
  <1>1. TypeOK'  BY DEF ProviderInv, TypeOK
  <1>2. AnswerSound' /\ CarriedSound' /\ PaidEnough'
    BY OpenCall DEF ProviderInv, AnswerSound, CarriedSound, PaidEnough
  <1> QED  BY <1>1, <1>2 DEF ProviderInv

LEMMA EndsAnswered ==
    ASSUME ProviderInv, stage \notin {"start", "done"}, stage' = "done", NEW s, SoundSwap(s),
           result' = Accepted(s), UNCHANGED << rq, market, carried, got, paid, elapsed >>
    PROVE  ProviderInv'
  <1>1. result'.state = "replied" /\ result'.swap = s  BY ResultStates
  <1>2. TypeOK'  BY <1>1 DEF ProviderInv, TypeOK
  <1>3. SoundSwap(s)'
    BY DEF SoundSwap, SoundIxs, trade, Signers, Sponsored
  <1>4. CanAsk(trade)'  BY DEF ProviderInv, AnswerSound, trade
  <1>5. result' = Accepted(result'.swap) /\ SoundSwap(result.swap)'
    BY <1>1, <1>3 DEF SoundSwap
  <1>6. AnswerSound'  BY <1>1, <1>4, <1>5 DEF AnswerSound
  <1>7. CarriedSound' /\ PaidEnough'
    BY OpenCall DEF CarriedSound, PaidEnough
  <1> QED  BY <1>2, <1>6, <1>7 DEF ProviderInv

\* Nothing but the clock, the market or the next request moves.
LEMMA RequestFrame ==
    ASSUME UNCHANGED rq
    PROVE  /\ trade' = trade /\ CanAsk(trade)' = CanAsk(trade)
           /\ \A s : SoundSwap(s)' = SoundSwap(s)
           /\ \A q : SoundQuote(q)' = SoundQuote(q)
           /\ \A ixs, limit : SoundIxs(ixs, limit)' = SoundIxs(ixs, limit)
  BY DEF SoundSwap, SoundIxs, SoundQuote, trade, Signers, Sponsored

LEMMA ProviderNext == ProviderInv /\ [Next]_vars => ProviderInv'
  <1> SUFFICES ASSUME ProviderInv, [Next]_vars PROVE ProviderInv'
    OBVIOUS
  <1>0. rq \in Requests /\ market \in Prices /\ elapsed \in 0..RequestTimeout
        /\ RequestTimeout \in Nat /\ paid \in Prices \cup {Unpaid}
        /\ stage \in {"start", "quote", "instructions", "tables", "done"}
    BY ProviderAssumption DEF ProviderInv, TypeOK
  <1>1. CASE Start
    <2>1. CASE ~CanAsk(trade)
      BY <1>1, <2>1, EndsUnanswered, ResultStates DEF Start, Return
    <2>2. CASE CanAsk(trade)
      <3>1. /\ stage = "start" /\ stage' = "quote" /\ elapsed' = 0 /\ result' = result
            /\ UNCHANGED << rq, market, carried, got, paid >>
        BY <1>1, <2>2 DEF Start, Send
      <3>2. TypeOK'  BY <1>0, <3>1 DEF ProviderInv, TypeOK
      <3>3. result' = Pending /\ paid' = Unpaid /\ CanAsk(trade)'
        BY <2>2, <3>1, OpenCall, RequestFrame
      <3> QED
        BY <3>1, <3>2, <3>3, ResultStates DEF ProviderInv, AnswerSound, CarriedSound, PaidEnough
    <2> QED  BY <2>1, <2>2
  <1>2. CASE JupiterReplies
    <2>1. PICK q \in QuoteReplies, l \in JupiterLists : Return(JupiterResult(q, l))
      BY <1>2 DEF JupiterReplies
    <2>2. /\ stage = "quote" /\ stage' = "done" /\ result' = JupiterResult(q, l)
          /\ UNCHANGED << rq, market, carried, got, paid, elapsed >>
      BY <1>2, <2>1 DEF JupiterReplies, Return
    <2> DEFINE ixs == JupiterInstructions(l, q.threshold)
               answer == AsQuote(q, ixs)
    <2>3. CASE JupiterValid(trade, q) /\ rq.op = "prepare" /\ NoThirdSigner(ixs)
      <3>1. result' = Accepted(answer)  BY <2>2, <2>3 DEF JupiterResult
      <3>2. SoundQuote(q)  BY <1>0, <2>3, ValidQuoteIsSound
      <3>3. q.threshold \in Int  BY <3>2 DEF SoundQuote
      <3>4. SoundIxs(ixs, q.threshold)  BY <2>3, <3>3, JupiterIxsSound
      <3>5. SoundSwap(answer)  BY <3>2, <3>4, QuoteMakesSwap
      <3> HIDE DEF answer
      <3> QED  BY <2>2, <3>1, <3>5, EndsAnswered
    <2>4. CASE ~(JupiterValid(trade, q) /\ rq.op = "prepare" /\ NoThirdSigner(ixs))
      <3>1. rq.op \in {"quote", "prepare"}  BY <1>0, ProviderAssumption
      <3>2. result'.state \in {"failed", "quoted"}
        BY <2>2, <2>4, <3>1, ResultStates DEF JupiterResult
      <3> QED  BY <2>2, <3>2, EndsUnanswered
    <2> QED  BY <2>3, <2>4
  <1>3. CASE DFlowQuotes
    <2>1. PICK q \in QuoteReplies :
             \/ /\ Return(Error("Decode")) /\ UNCHANGED carried
             \/ /\ Return(Quoted(AsQuote(q, << >>))) /\ UNCHANGED carried
             \/ /\ DFlowValid(trade, q)
                /\ Send("instructions") /\ carried' = q /\ UNCHANGED result
      BY <1>3 DEF DFlowQuotes
    <2>2. stage = "quote" /\ UNCHANGED << rq, market, got, paid >>
      BY <1>3 DEF DFlowQuotes
    <2>3. CASE stage' = "done"
      <3>1. result'.state \in {"failed", "quoted"} /\ UNCHANGED << carried, elapsed >>
        BY <2>1, <2>3, ResultStates DEF Return, Send
      <3> QED  BY <2>2, <2>3, <3>1, EndsUnanswered
    <2>4. CASE stage' # "done"
      <3>1. /\ DFlowValid(trade, q) /\ carried' = q
            /\ stage' = "instructions" /\ elapsed' = 0 /\ result' = result
        BY <2>1, <2>4 DEF Return, Send
      <3>2. SoundQuote(q)  BY <1>0, <3>1, ValidQuoteIsSound
      <3>3. SoundQuote(carried)'
        <4>1. SoundQuote(q)'  BY <2>2, <3>2, RequestFrame
        <4> QED  BY <3>1, <4>1 DEF SoundQuote
      <3>4. TypeOK'  BY <1>0, <2>2, <3>1 DEF ProviderInv, TypeOK
      <3>5. result' = Pending /\ paid' = Unpaid /\ CanAsk(trade)'
        BY <2>2, <3>1, OpenCall, RequestFrame DEF ProviderInv, AnswerSound
      <3> QED
        BY <3>1, <3>3, <3>4, <3>5, ResultStates
        DEF ProviderInv, AnswerSound, CarriedSound, PaidEnough
    <2> QED  BY <2>3, <2>4
  <1>4. CASE DFlowInstructs
    <2>1. /\ stage = "instructions" /\ SoundQuote(carried)
          /\ UNCHANGED << rq, market, carried, paid >>
      BY <1>4 DEF DFlowInstructs, ProviderInv, CarriedSound
    <2> DEFINE limit == Posted(carried).threshold
    <2>2. limit = carried.threshold /\ limit \in Int  BY <2>1 DEF Posted, SoundQuote
    <2>3. PICK l \in Lists :
             \/ /\ DFlowAcceptable(l, limit) /\ Send("tables")
                /\ got' = DFlowInstructions(l, limit) /\ UNCHANGED result
             \/ Return(Error("Decode")) /\ UNCHANGED got
      BY <1>4 DEF DFlowInstructs
    <2>4. CASE Return(Error("Decode")) /\ UNCHANGED got
      BY <2>1, <2>4, EndsUnanswered, ResultStates DEF Return
    <2>5. CASE /\ DFlowAcceptable(l, limit) /\ Send("tables")
               /\ got' = DFlowInstructions(l, limit) /\ UNCHANGED result
      <3>1. SoundIxs(DFlowInstructions(l, limit), limit)
        BY <2>2, <2>5, DFlowIxsSound
      <3>2. SoundIxs(got, carried.threshold)'
        <4>1. SoundIxs(got', carried.threshold)  BY <2>2, <2>5, <3>1
        <4> QED  BY <2>1, <4>1 DEF SoundIxs, Signers, Sponsored, trade
      <3>3. SoundQuote(carried)'
        BY <2>1 DEF SoundQuote, trade
      <3>4. TypeOK'  BY <1>0, <2>1, <2>5 DEF ProviderInv, TypeOK, Send
      <3>5. result' = Pending /\ paid' = Unpaid /\ CanAsk(trade)' /\ stage' = "tables"
        BY <2>1, <2>5, OpenCall, RequestFrame DEF ProviderInv, AnswerSound, Send
      <3> QED
        BY <3>2, <3>3, <3>4, <3>5, ResultStates
        DEF ProviderInv, AnswerSound, CarriedSound, PaidEnough
    <2> QED  BY <2>3, <2>4, <2>5
  <1>5. CASE TablesLoad
    <2>1. SoundSwap(AsQuote(carried, got))
      BY <1>5, QuoteMakesSwap DEF TablesLoad, ProviderInv, CarriedSound
    <2> QED  BY <1>5, <2>1, EndsAnswered DEF TablesLoad, Return
  <1>6. CASE RequestFails \/ RequestTimesOut
    <2>1. PICK e : Return(Error(e))  BY <1>6 DEF RequestFails, RequestTimesOut
    <2>2. stage # "done" /\ UNCHANGED << rq, market, carried, got, paid >>
      BY <1>6 DEF RequestFails, RequestTimesOut, Bounded
    <2> QED  BY <2>1, <2>2, EndsUnanswered, ResultStates DEF Return
  <1>7. CASE Tick \/ MarketMoves \/ UNCHANGED vars
    <2>1. /\ UNCHANGED << rq, stage, carried, got, result, paid >>
          /\ market' \in Prices /\ elapsed' \in 0..RequestTimeout
      BY <1>0, <1>7 DEF Tick, MarketMoves, vars
    <2>2. TypeOK'  BY <2>1 DEF ProviderInv, TypeOK
    <2>3. AnswerSound' /\ CarriedSound' /\ PaidEnough'
      <3>1. SoundSwap(result.swap)' = SoundSwap(result.swap)
            /\ SoundQuote(carried)' = SoundQuote(carried)
            /\ SoundIxs(got, carried.threshold)' = SoundIxs(got, carried.threshold)
            /\ CanAsk(trade)' = CanAsk(trade)
        BY <2>1 DEF SoundSwap, SoundIxs, SoundQuote, trade, Signers, Sponsored
      <3> QED
        BY <2>1, <3>1 DEF ProviderInv, AnswerSound, CarriedSound, PaidEnough
    <2> QED  BY <2>2, <2>3 DEF ProviderInv
  <1>8. CASE Execute
    <2>1. /\ result.state = "replied" /\ paid' = market
          /\ UNCHANGED << rq, market, stage, carried, got, elapsed, result >>
      BY <1>8 DEF Execute
    <2>2. SoundSwap(result.swap)  BY <2>1 DEF ProviderInv, AnswerSound
    <2>3. PICK i \in 1..Len(result.swap.ixs) :
             result.swap.ixs[i].op = "swap" /\ market >= result.swap.ixs[i].amt
      <3>1. DOMAIN result.swap.ixs = 1..Len(result.swap.ixs)
        BY <2>2 DEF SoundSwap, SoundIxs
      <3> QED  BY <1>8, <3>1 DEF Execute
    <2>4. market >= result.swap.min_out  BY <2>2, <2>3 DEF SoundSwap, SoundIxs
    <2>5. TypeOK'  BY <1>0, <2>1 DEF ProviderInv, TypeOK
    <2>6. AnswerSound' /\ CarriedSound'
      <3>1. SoundSwap(result.swap)' = SoundSwap(result.swap)
            /\ SoundQuote(carried)' = SoundQuote(carried)
            /\ SoundIxs(got, carried.threshold)' = SoundIxs(got, carried.threshold)
            /\ CanAsk(trade)' = CanAsk(trade)
        BY <2>1 DEF SoundSwap, SoundIxs, SoundQuote, trade, Signers, Sponsored
      <3> QED
        BY <2>1, <3>1 DEF ProviderInv, AnswerSound, CarriedSound
    <2>7. PaidEnough'  BY <2>1, <2>4 DEF PaidEnough
    <2> QED  BY <2>5, <2>6, <2>7 DEF ProviderInv
  <1> QED  BY <1>1, <1>2, <1>3, <1>4, <1>5, <1>6, <1>7, <1>8 DEF Next

\* The swap that executes pays at least the minimum of the accepted quote, and
\* that is at most one unit below the requested slippage, for any market.
THEOREM QuotesAreEnforced == Spec => []QuoteEnforced
  <1>1. ProviderInv => QuoteEnforced
    <2> SUFFICES ASSUME ProviderInv, paid # Unpaid
                 PROVE  /\ paid >= result.swap.min_out
                        /\ (paid + 1) * BASIS_POINTS
                              > result.swap.expected_out * (BASIS_POINTS - rq.trade.slippage_bps)
      BY DEF QuoteEnforced
    <2> DEFINE s == result.swap
               left == s.expected_out * (BASIS_POINTS - rq.trade.slippage_bps)
    <2>1. /\ result.state = "replied" /\ paid >= s.min_out /\ SoundSwap(s)
          /\ paid \in Nat /\ rq \in Requests
      BY ProviderAssumption DEF ProviderInv, PaidEnough, AnswerSound, TypeOK
    <2>2. left \in Int
      BY <2>1, RequestFields DEF SoundSwap, BASIS_POINTS
    <2>3. s.min_out >= left \div BASIS_POINTS /\ s.min_out \in Nat
      BY <2>1, TradeFacts DEF SoundSwap, SlippageFloor
    <2> HIDE DEF left
    <2>4. (left \div BASIS_POINTS + 1) * BASIS_POINTS > left
      BY <2>2 DEF BASIS_POINTS
    <2>5. (paid + 1) * BASIS_POINTS > left
      BY <2>1, <2>2, <2>3, <2>4 DEF BASIS_POINTS
    <2> QED  BY <2>1, <2>5 DEF left
  <1> QED  BY <1>1, ProviderInit, ProviderNext, PTL DEF Spec

-----------------------------------------------------------------------------
(* What the executor makes of an answer. *)

Payers == {rq.trade.wallet, PayerOf(rq.client, rq.trade)}

\* Instructions without a compute limit or price of their own, that nobody
\* but the wallet and the payer signs.
Sendable(ixs) ==
    /\ ixs \in Seq(Instruction)
    /\ \A i \in 1..Len(ixs) : ixs[i].op \notin Replaced /\ ixs[i].by \in Payers

LEMMA SendableAppend ==
    ASSUME NEW ixs, Sendable(ixs), NEW ix \in Instruction, ix.op \notin Replaced, ix.by \in Payers
    PROVE  Sendable(Append(ixs, ix))
  <1>1. /\ Append(ixs, ix) \in Seq(Instruction)
        /\ Len(Append(ixs, ix)) = Len(ixs) + 1
        /\ \A i \in 1..Len(ixs) : Append(ixs, ix)[i] = ixs[i]
        /\ Append(ixs, ix)[Len(ixs) + 1] = ix
        /\ 1..(Len(ixs) + 1) = 1..Len(ixs) \cup {Len(ixs) + 1}
    BY DEF Sendable
  <1> QED  BY <1>1 DEF Sendable

LEMMA SendableUsdcFee ==
    ASSUME rq \in Requests, NEW ixs, Sendable(ixs), NEW payer \in Payers \cap Addresses,
           NEW to \in Addresses, NEW fee \in Int
    PROVE  Sendable(AppendUsdcFee(ixs, payer, rq.trade.wallet, to, fee))
  <1> DEFINE a == Ix("create_ata", payer, to, 0)
             b == Ix("usdc_transfer", rq.trade.wallet, to, fee)
  <1>1. /\ a \in Instruction /\ a.op \notin Replaced /\ a.by \in Payers
        /\ b \in Instruction /\ b.op \notin Replaced /\ b.by \in Payers
    BY RequestFields
    DEF Ix, Instruction, InstructionOf, Ops, FeeOps, Replaced, Payers
  <1>2. AppendUsdcFee(ixs, payer, rq.trade.wallet, to, fee) = ixs \o << a, b >>
    BY DEF AppendUsdcFee
  <1>3. ixs \in Seq(Instruction)  BY DEF Sendable
  <1> HIDE DEF a, b
  <1>4. ixs \o << a, b >> = Append(Append(ixs, a), b)  BY <1>1, <1>3
  <1>5. Sendable(Append(Append(ixs, a), b))
    <2>1. Sendable(Append(ixs, a))  BY <1>1, SendableAppend
    <2> QED  BY <1>1, <2>1, SendableAppend
  <1> QED  BY <1>2, <1>4, <1>5

LEMMA PayerType ==
    ASSUME rq \in Requests
    PROVE  PayerOf(rq.client, rq.trade) \in Payers \cap Addresses
  BY RequestFields, ClientFields DEF PayerOf, Payers

LEMMA FeeAmountNat ==
    ASSUME rq \in Requests, NEW basis \in Nat
    PROVE  FeeAmount(rq.client, basis) \in Nat
  BY ClientFields DEF FeeAmount, BASIS_POINTS

LEMMA SendableSdkFee ==
    ASSUME rq \in Requests, NEW s, SoundSwap(s), Sendable(s.ixs)
    PROVE  /\ Sendable(SdkCharged(rq.client, rq.trade, s).ixs)
           /\ "ixs" \in DOMAIN SdkCharged(rq.client, rq.trade, s)
  <1> DEFINE cl == rq.client
             t == rq.trade
             payer == PayerOf(cl, t)
             fee == FeeAmount(cl, FeeBasis(t, s))
             q == QuoteAfterFee(cl, t, s)
             ixs == FeeInstructions(cl, t, s.ixs, fee, payer)
  <1>1. CASE ~cl.sdk
    <2>1. SdkCharged(cl, t, s) = s  BY <1>1 DEF SdkCharged, ApplySdkFee
    <2> QED  BY <2>1 DEF SoundSwap
  <1>2. CASE cl.sdk
    <2>1. fee \in Nat
      <3>1. FeeBasis(t, s) \in Nat  BY RequestFields DEF FeeBasis, SoundSwap
      <3> QED  BY <3>1, FeeAmountNat
    <2>2. cl.recipient \in Addresses /\ payer \in Payers \cap Addresses
          /\ t.wallet \in Payers \cap Addresses /\ t.settlement \in {"Sol", "Usdc"}
      BY RequestFields, ClientFields, PayerType DEF Payers
    <2>3. Sendable(ixs)
      <3>1. CASE fee = 0  BY <3>1 DEF FeeInstructions
      <3>2. CASE fee > 0 /\ t.settlement = "Sol"
        <4> DEFINE ix == Ix("sol_transfer", t.wallet, cl.recipient, fee)
        <4>1. ix \in Instruction /\ ix.op \notin Replaced /\ ix.by \in Payers
          BY <2>1, <2>2 DEF Ix, Instruction, InstructionOf, Ops, FeeOps, Replaced
        <4>2. ixs = Append(s.ixs, ix)  BY <3>2 DEF FeeInstructions
        <4> HIDE DEF ix, ixs
        <4> QED  BY <4>1, <4>2, SendableAppend
      <3>3. CASE fee > 0 /\ t.settlement = "Usdc"
        <4>1. ixs = AppendUsdcFee(s.ixs, payer, t.wallet, cl.recipient, fee)
          BY <3>3 DEF FeeInstructions
        <4> HIDE DEF ixs, payer, fee
        <4> QED  BY <2>1, <2>2, <4>1, SendableUsdcFee
      <3> QED  BY <2>1, <2>2, <3>1, <3>2, <3>3
    <2>4. DOMAIN q = DOMAIN s /\ q.application_fee = fee
      BY DEF QuoteAfterFee, SoundSwap
    <2>5. SdkCharged(cl, t, s) = [q EXCEPT !.ixs = FeeInstructions(cl, t, s.ixs, q.application_fee, payer)]
      BY <1>2 DEF SdkCharged, ApplySdkFee
    <2> HIDE DEF q, fee
    <2>6. SdkCharged(cl, t, s) = [q EXCEPT !.ixs = ixs]  BY <2>4, <2>5
    <2> HIDE DEF ixs
    <2> QED  BY <2>3, <2>4, <2>6 DEF SoundSwap
  <1> QED  BY <1>1, <1>2

LEMMA SendableCharged ==
    ASSUME rq \in Requests, NEW s, SoundSwap(s), Sendable(s.ixs)
    PROVE  Sendable(Charged(rq.client, rq.trade, s).ixs)
  <1> DEFINE cl == rq.client
             t == rq.trade
             u == SdkCharged(cl, t, s)
             ixs == AppendUsdcFee(u.ixs, cl.payer, t.wallet, cl.collector, cl.ceiling)
  <1>1. Sendable(u.ixs) /\ "ixs" \in DOMAIN u  BY SendableSdkFee
  <1> HIDE DEF u
  <1>2. CASE ~SponsorFor(cl, t)  BY <1>1, <1>2 DEF Charged, u
  <1>3. CASE SponsorFor(cl, t)
    <2>1. cl.payer \in Payers \cap Addresses  BY <1>3, PayerType DEF PayerOf
    <2>2. Sendable(ixs)
      <3>1. cl.collector \in Addresses /\ cl.ceiling \in Int  BY ClientFields
      <3> QED  BY <1>1, <2>1, <3>1, SendableUsdcFee
    <2>3. Charged(cl, t, s).ixs = ixs
      BY <1>1, <1>3 DEF Charged, ApplySponsorship, u
    <2> QED  BY <2>2, <2>3
  <1> QED  BY <1>2, <1>3

\* What a charged route of either adapter compiles to has one compute limit
\* and one price, the executor's, and asks nobody but the wallet and the
\* payer for a signature.
THEOREM ExecutorsCanSend == Spec => []ExecutorCanSend
  <1>1. ProviderInv => ExecutorCanSend
    <2> DEFINE cl == rq.client
               t == rq.trade
               s == result.swap
               ixs == Charged(cl, t, s).ixs
               m == Compiled(ixs)
    <2> SUFFICES ASSUME ProviderInv, result.state = "replied"
                 PROVE  /\ \A k \in Replaced : \A i \in DOMAIN m : m[i].op = k => i <= 2
                        /\ {m[i].by : i \in DOMAIN m} \subseteq Payers
      BY DEF ExecutorCanSend, Payers
    <2>1. rq \in Requests /\ SoundSwap(s)
      BY DEF ProviderInv, TypeOK, AnswerSound
    <2>2. Sendable(s.ixs)
      <3>1. Signers \subseteq Payers
        BY <2>1, SignersAllowed, TradeFacts DEF Payers
      <3> QED  BY <2>1, <3>1 DEF SoundSwap, SoundIxs, Sendable
    <2>3. Sendable(ixs)  BY <2>1, <2>2, SendableCharged
    <2> DEFINE a == Ix("cu_limit", PayerOf(cl, t), "none", 1)
               b == Ix("cu_price", PayerOf(cl, t), "none", 1)
    <2>4. a \in Instruction /\ b \in Instruction /\ a.by \in Payers /\ b.by \in Payers
      BY <2>1, PayerType, ProviderAssumption
      DEF Ix, Instruction, InstructionOf, Ops, BudgetKinds
    <2>5. m = << a, b >> \o ixs  BY DEF Compiled
    <2> HIDE DEF a, b, ixs, m
    <2>6. /\ m \in Seq(Instruction) /\ Len(m) = 2 + Len(ixs) /\ m[1] = a /\ m[2] = b
          /\ \A i \in 1..Len(m) : i > 2 => i - 2 \in 1..Len(ixs) /\ m[i] = ixs[i - 2]
      BY <2>3, <2>4, <2>5 DEF Sendable
    <2>7. \A i \in 1..Len(m) : i > 2 => m[i].op \notin Replaced /\ m[i].by \in Payers
      BY <2>3, <2>6 DEF Sendable
    <2>8. \A i \in 1..Len(m) : i = 1 \/ i = 2 \/ i > 2  BY <2>6
    <2>9. \A i \in 1..Len(m) : m[i].by \in Payers  BY <2>4, <2>6, <2>7, <2>8
    <2>10. DOMAIN m = 1..Len(m) /\ Len(m) \in Nat  BY <2>6
    <2> QED  BY <2>7, <2>8, <2>9, <2>10
  <1> QED  BY <1>1, ProviderInit, ProviderNext, PTL DEF Spec

-----------------------------------------------------------------------------
(* What the client sees. *)

ReplySeen ==
    IF result.state = "replied" THEN result
    ELSE IF result.state = "failed" THEN [state |-> "failed"] ELSE Pending

LEMMA ContractInit == Init => Contract!Init
  BY ResultStates DEF Init, Contract!Init, Contract!Asked, Pending

\* The contract's fee policy is the adapters'.
LEMMA SamePolicy ==
    /\ Contract!RouteTrade(rq.client, rq.trade) = RouteTrade(rq.client, rq.trade)
    /\ Contract!PayerOf(rq.client, rq.trade) = PayerOf(rq.client, rq.trade)
  <1>1. Contract!FeeAmount(rq.client, rq.trade.amount) = FeeAmount(rq.client, rq.trade.amount)
    BY DEF FeeAmount, BASIS_POINTS, Contract!FeeAmount, Contract!BASIS_POINTS
  <1>2. Contract!TradeAfterFee(rq.client, rq.trade) = TradeAfterFee(rq.client, rq.trade)
    BY <1>1 DEF TradeAfterFee, Contract!TradeAfterFee
  <1>3. Contract!SponsorFor(rq.client, rq.trade) = SponsorFor(rq.client, rq.trade)
    BY DEF SponsorFor, Contract!SponsorFor
  <1> QED
    BY <1>2, <1>3
    DEF RouteTrade, ReserveFee, PayerOf, Contract!RouteTrade, Contract!ReserveFee, Contract!PayerOf

\* A sound swap is all the Dex trait asks for.
LEMMA SoundIsAcceptable ==
    ASSUME rq \in Requests, NEW s, SoundSwap(s), CanAsk(trade)
    PROVE  Contract!Acceptable(s)
  <1>1. s.ixs \in Seq(Instruction) /\ \E i \in 1..Len(s.ixs) : s.ixs[i].op = "swap"
    BY DEF SoundSwap, SoundIxs
  <1>2. ValidCandidate(rq.client, rq.trade, s)
    <2>1. s.ixs # << >>  BY <1>1
    <2> QED  BY <2>1 DEF ValidCandidate, SoundSwap, trade
  <1>3. Contract!WithinSlippage(rq.trade, s.expected_out, s.min_out)
    <2> DEFINE left == s.expected_out * (BASIS_POINTS - rq.trade.slippage_bps)
    <2>1. left \in Int  BY RequestFields DEF SoundSwap, BASIS_POINTS
    <2>2. s.min_out >= left \div BASIS_POINTS /\ s.min_out \in Nat
      BY TradeFacts DEF SoundSwap, SlippageFloor
    <2> HIDE DEF left
    <2>3. (s.min_out + 1) * BASIS_POINTS > left  BY <2>1, <2>2 DEF BASIS_POINTS
    <2> QED
      BY <2>3 DEF left, BASIS_POINTS, Contract!WithinSlippage, Contract!BASIS_POINTS
  <1>4. DOMAIN s.ixs = 1..Len(s.ixs)  BY <1>1
  <1>5. Contract!SignersOf(s.ixs) \subseteq {rq.trade.wallet, PayerOf(rq.client, rq.trade)}
    BY <1>4, SignersAllowed, TradeFacts DEF Contract!SignersOf, SoundSwap, SoundIxs
  <1>6. Contract!Enforced(s)
    BY <1>1, <1>4 DEF Contract!Enforced, SoundSwap, SoundIxs
  <1>7. Contract!ValidCandidate(rq.client, rq.trade, s)
        /\ Contract!PayerOf(rq.client, rq.trade) = PayerOf(rq.client, rq.trade)
    BY <1>2, SamePolicy DEF ValidCandidate, Contract!ValidCandidate
  <1> QED  BY <1>3, <1>5, <1>6, <1>7 DEF Contract!Acceptable

\* Both adapters implement the Dex trait: they fail, or answer once with a
\* swap that is a candidate for the trade, within the requested slippage,
\* enforced by its instructions and signed by nobody else.
THEOREM AdaptersKeepContract == Spec => KeepsVenueContract
  <1>1. ProviderInv /\ ProviderInv' /\ [Next]_vars => [Contract!Next]_(Contract!vars)
    <2> SUFFICES ASSUME ProviderInv, ProviderInv', [Next]_vars
                 PROVE  Contract!Next \/ UNCHANGED Contract!vars
      OBVIOUS
    <2>1. UNCHANGED rq
      BY DEF Next, vars, Start, JupiterReplies, DFlowQuotes, DFlowInstructs, TablesLoad,
             RequestFails, RequestTimesOut, Tick, MarketMoves, Execute
    <2>2. \/ UNCHANGED result
          \/ stage # "done" /\ stage' = "done"
      BY DEF Next, vars, Start, JupiterReplies, DFlowQuotes, DFlowInstructs, TablesLoad,
             RequestFails, RequestTimesOut, Tick, MarketMoves, Execute, Return, Send, Bounded
    <2>3. CASE UNCHANGED result
      BY <2>1, <2>3 DEF Contract!vars
    <2>4. CASE stage # "done" /\ stage' = "done"
      <3>1. ReplySeen = Contract!Asked
        BY <2>4, OpenCall, ResultStates DEF ReplySeen, Contract!Asked, Pending
      <3>2. result'.state \in {"failed", "quoted", "replied"}
        BY <2>4 DEF ProviderInv, TypeOK
      <3>3. CASE result'.state = "failed"
        BY <2>1, <3>1, <3>3 DEF ReplySeen, Contract!Next, Contract!Fail, Contract!Failed
      <3>4. CASE result'.state = "quoted"
        <4>1. ReplySeen' = Contract!Asked
          BY <3>4 DEF ReplySeen, Contract!Asked, Pending
        <4> QED  BY <2>1, <3>1, <4>1 DEF ReplySeen, Contract!vars
      <3>5. CASE result'.state = "replied"
        <4>1. /\ result' = Accepted(result'.swap) /\ SoundSwap(result.swap)'
              /\ CanAsk(trade)' /\ rq' \in Requests
          BY <3>5 DEF ProviderInv, AnswerSound, TypeOK
        <4>2. trade' = trade /\ rq' = rq /\ rq \in Requests
          BY <2>1 DEF trade, ProviderInv, TypeOK
        <4>3. CanAsk(trade)  BY <2>1, <4>1, RequestFrame
        <4>4. SoundSwap(result'.swap)
          BY <2>1, <4>1 DEF SoundSwap, SoundIxs, trade, Signers, Sponsored
        <4>5. Contract!Acceptable(result'.swap)
          BY <4>2, <4>3, <4>4, SoundIsAcceptable
        <4>6. ReplySeen' = result'  BY <3>5 DEF ReplySeen
        <4>7. result' = Contract!Replied(result'.swap)
          BY <4>1 DEF Accepted, Contract!Replied
        <4>8. Contract!Reply
          BY <2>1, <3>1, <3>5, <4>5, <4>6, <4>7 DEF Contract!Reply, ReplySeen
        <4> QED  BY <4>8 DEF Contract!Next
      <3> QED  BY <3>2, <3>3, <3>4, <3>5
    <2> QED  BY <2>2, <2>3, <2>4
  <1> QED
    BY <1>1, ContractInit, ProviderInit, ProviderNext, PTL
    DEF Spec, KeepsVenueContract, Contract!Spec
=============================================================================

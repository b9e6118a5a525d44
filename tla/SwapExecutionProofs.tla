------------------------ MODULE SwapExecutionProofs ------------------------
(***************************************************************************)
(* Proofs about SwapExecution for any calls, trades, prices and limits.    *)
(***************************************************************************)
EXTENDS SwapExecution, FiniteSetTheorems, SequenceTheorems, SequenceFacts, TLAPS

USE DEF At, Goto, Return

-----------------------------------------------------------------------------
(* Arithmetic. *)

LEMMA DivType == \A a \in Int, b \in Nat \ {0} : a \div b \in Int
  OBVIOUS

\* Rounding up covers the amount, and no smaller multiple does.
LEMMA CeilDivCovers ==
    ASSUME NEW a \in Int, NEW b \in Nat \ {0}
    PROVE  /\ CeilDiv(a, b) \in Int
           /\ CeilDiv(a, b) * b >= a
           /\ (CeilDiv(a, b) - 1) * b < a
  BY DEF CeilDiv

LEMMA FloorDivWithin ==
    ASSUME NEW a \in Nat, NEW b \in Nat \ {0}
    PROVE  a \div b \in Nat /\ b * (a \div b) <= a
  OBVIOUS

LEMMA FeeAmountType ==
    ASSUME NEW basis \in Int
    PROVE  FeeAmount(Client, basis) \in Int
  BY ClientAssumption DEF FeeAmount, BASIS_POINTS, ClientType

\* A fee is never negative and never more than what it is taken from.
LEMMA FeeAmountWithin ==
    ASSUME NEW basis \in Nat
    PROVE  FeeAmount(Client, basis) \in 0..basis
  BY ClientAssumption DEF FeeAmount, BASIS_POINTS, ClientType

LEMMA ChargeType ==
    ASSUME NEW cost \in Int, NEW price \in Nat
    PROVE  ChargeFor(cost, price, ServiceFee, LamportsPerSol) \in Int
  <1>1. cost * price \in Int  OBVIOUS
  <1>2. LamportsPerSol \in Nat \ {0} /\ ServiceFee \in Nat  BY AmountAssumption
  <1> QED  BY <1>1, <1>2, CeilDivCovers DEF ChargeFor

-----------------------------------------------------------------------------
(* What prepare_swap can hand to the executor. *)

LEMMA TradeFields ==
    ASSUME NEW t \in Trades
    PROVE  /\ t \in TradeType
           /\ t.amount \in Nat /\ t.wallet \in Addresses
           /\ t.side \in {"Buy", "Sell"} /\ t.settlement \in {"Sol", "Usdc"}
  BY InputAssumption DEF TradeType

LEMMA RoutedAmountType ==
    ASSUME NEW t \in Trades
    PROVE  RouteTrade(Client, t).amount \in Int
  <1>1. FeeAmount(Client, t.amount) \in Int  BY TradeFields, FeeAmountType
  <1>2. Client.ceiling \in Int  BY ClientAssumption DEF ClientType
  <1>3. TradeAfterFee(Client, t).amount \in Int
    BY <1>1, TradeFields DEF TradeAfterFee, TradeType
  <1>4. \E x : TradeAfterFee(Client, t) = [t EXCEPT !.amount = x]
    BY TradeFields DEF TradeAfterFee, TradeType
  <1> QED
    BY <1>2, <1>3, <1>4, TradeFields DEF RouteTrade, ReserveFee, TradeType

LEMMA RawSwapType ==
    ASSUME NEW t \in Trades, NEW o \in Outputs, NEW setup \in Setups
    PROVE  RawSwap(t, o, setup) \in PreparedSwap
  <1>1. RouteTrade(Client, t).amount \in Int  BY RoutedAmountType
  <1>2. o.min \in Int /\ o.expected \in Int  BY InputAssumption
  <1>3. setup \in Seq(Instruction)  BY InputAssumption
  <1>4. t.wallet \in Addresses /\ "venue" \in Addresses  BY TradeFields, InputAssumption
  <1> QED  BY <1>1, <1>2, <1>3, <1>4 DEF RawSwap, PreparedSwap, Instruction, Ix, Ops

\* The fee transfer closes the list it is appended to.
LEMMA AppendUsdcFeeLast ==
    ASSUME NEW ixs \in Seq(Instruction), NEW payer \in Addresses, NEW wallet \in Addresses,
           NEW to \in Addresses, NEW amt \in Int
    PROVE  /\ AppendUsdcFee(ixs, payer, wallet, to, amt) \in Seq(Instruction)
           /\ Len(AppendUsdcFee(ixs, payer, wallet, to, amt)) = Len(ixs) + 2
           /\ AppendUsdcFee(ixs, payer, wallet, to, amt)[Len(ixs) + 2]
                = Ix("usdc_transfer", wallet, to, amt)
  BY DEF AppendUsdcFee, Ix, Instruction, Ops

LEMMA PayerType ==
    ASSUME NEW t \in Trades
    PROVE  PayerOf(Client, t) \in Addresses
  BY ClientAssumption, TradeFields DEF PayerOf, SponsorFor, ClientType

LEMMA QuoteAfterFeeType ==
    ASSUME NEW t \in Trades, NEW s \in PreparedSwap
    PROVE  /\ QuoteAfterFee(Client, t, s) \in PreparedSwap
           /\ QuoteAfterFee(Client, t, s).application_fee = FeeAmount(Client, FeeBasis(t, s))
  <1> DEFINE fee == FeeAmount(Client, FeeBasis(t, s))
             cut == IF t.side = "Sell" THEN fee ELSE 0
  <1>1. FeeBasis(t, s) \in Int  BY TradeFields DEF FeeBasis, PreparedSwap
  <1>2. FeeAmount(Client, FeeBasis(t, s)) \in Int  BY <1>1, FeeAmountType
  <1>3. t.amount \in Int  BY TradeFields
  <1>4. cut \in Int /\ fee \in Int  BY <1>2
  <1> HIDE DEF fee, cut
  <1>5. PICK in \in Int, expected \in Int, min \in Int :
            /\ in = t.amount
            /\ expected = s.expected_out - cut /\ min = s.min_out - cut
    BY <1>3, <1>4 DEF PreparedSwap
  <1>6. QuoteAfterFee(Client, t, s) =
          [s EXCEPT !.in_amount = in, !.application_fee = fee,
                    !.expected_out = expected, !.min_out = min]
    BY <1>5 DEF QuoteAfterFee, fee, cut
  <1>7. /\ QuoteAfterFee(Client, t, s) \in PreparedSwap
        /\ QuoteAfterFee(Client, t, s).application_fee = fee
    BY <1>4, <1>6 DEF PreparedSwap
  <1> QED  BY <1>7 DEF fee

LEMMA FeeInstructionsType ==
    ASSUME NEW t \in Trades, NEW ixs \in Seq(Instruction), NEW fee \in Nat,
           NEW payer \in Addresses
    PROVE  FeeInstructions(Client, t, ixs, fee, payer) \in Seq(Instruction)
  <1>1. Client.recipient \in Addresses  BY ClientAssumption DEF ClientType
  <1>2. CASE fee = 0
    BY <1>2 DEF FeeInstructions
  <1>3. CASE fee > 0 /\ t.settlement = "Sol"
    <2>1. Ix("sol_transfer", t.wallet, Client.recipient, fee) \in Instruction
      BY <1>1, TradeFields DEF Ix, Instruction, Ops
    <2> QED  BY <1>3, <2>1 DEF FeeInstructions
  <1>4. CASE fee > 0 /\ t.settlement = "Usdc"
    <2>1. AppendUsdcFee(ixs, payer, t.wallet, Client.recipient, fee) \in Seq(Instruction)
      BY <1>1, TradeFields, AppendUsdcFeeLast
    <2> QED  BY <1>4, <2>1 DEF FeeInstructions
  <1> QED  BY <1>2, <1>3, <1>4, TradeFields

LEMMA SdkChargedType ==
    ASSUME NEW t \in Trades, NEW s \in PreparedSwap, NEW payer \in Addresses,
           CanApplySdkFee(Client, t, s)
    PROVE  ApplySdkFee(Client, t, s, payer) \in PreparedSwap
  <1> DEFINE q == QuoteAfterFee(Client, t, s)
             ixs == FeeInstructions(Client, t, s.ixs, q.application_fee, payer)
  <1>1. CASE ~Client.sdk
    BY <1>1 DEF ApplySdkFee
  <1>2. CASE Client.sdk
    <2>1. CanQuoteAfterFee(Client, t, s)  BY <1>2 DEF CanApplySdkFee
    <2>2. FeeBasis(t, s) \in Nat
      BY <2>1, TradeFields DEF FeeBasis, CanQuoteAfterFee, PreparedSwap
    <2>3. q \in PreparedSwap  BY QuoteAfterFeeType
    <2>4. FeeAmount(Client, FeeBasis(t, s)) \in Nat  BY <2>2, FeeAmountWithin
    <2>5. q.application_fee = FeeAmount(Client, FeeBasis(t, s))
      BY QuoteAfterFeeType
    <2>6. s.ixs \in Seq(Instruction)  BY DEF PreparedSwap
    <2>7. ixs \in Seq(Instruction)
      BY <2>4, <2>5, <2>6, FeeInstructionsType
    <2> HIDE DEF q, ixs
    <2>8. [q EXCEPT !.ixs = ixs] \in PreparedSwap  BY <2>3, <2>7 DEF PreparedSwap
    <2> QED  BY <1>2, <2>8 DEF ApplySdkFee, q, ixs
  <1> QED  BY <1>1, <1>2, ClientAssumption DEF ClientType

\* The list ends with the transfer of the reserved ceiling to the collector.
EndsWithReserve(t, ixs) ==
    /\ Len(ixs) >= 1
    /\ ixs[Len(ixs)] = Ix("usdc_transfer", t.wallet, Client.collector, Client.ceiling)

LEMMA SponsorshipType ==
    ASSUME NEW t \in Trades, NEW s \in PreparedSwap
    PROVE  /\ ApplySponsorship(Client, t, s) \in PreparedSwap
           /\ EndsWithReserve(t, ApplySponsorship(Client, t, s).ixs)
  <1> DEFINE ext == AppendUsdcFee(s.ixs, Client.payer, t.wallet, Client.collector, Client.ceiling)
             cut == IF t.side = "Sell" THEN Client.ceiling ELSE 0
  <1>1. /\ Client.payer \in Addresses /\ Client.collector \in Addresses
        /\ Client.ceiling \in Int
    BY ClientAssumption DEF ClientType
  <1>2. s.ixs \in Seq(Instruction) /\ t.wallet \in Addresses
    BY TradeFields DEF PreparedSwap
  <1>3. /\ ext \in Seq(Instruction)
        /\ Len(ext) = Len(s.ixs) + 2
        /\ ext[Len(s.ixs) + 2] = Ix("usdc_transfer", t.wallet, Client.collector, Client.ceiling)
    BY <1>1, <1>2 DEF AppendUsdcFee, Ix, Instruction, Ops
  <1>4. EndsWithReserve(t, ext)
    BY <1>2, <1>3 DEF EndsWithReserve
  <1> HIDE DEF ext
  <1>5. PICK in \in Int, fee \in Int, expected \in Int, min \in Int :
            /\ in = t.amount /\ fee = Client.ceiling
            /\ expected = s.expected_out - cut /\ min = s.min_out - cut
    <2>1. /\ t.amount \in Int /\ Client.ceiling \in Int
          /\ s.expected_out - cut \in Int /\ s.min_out - cut \in Int
      BY <1>1, TradeFields DEF PreparedSwap
    <2> HIDE DEF cut
    <2> QED  BY <2>1
  <1>6. ApplySponsorship(Client, t, s) =
          [s EXCEPT !.in_amount = in, !.expected_out = expected, !.min_out = min,
                    !.sponsorship_fee = fee, !.ixs = ext]
    BY <1>5 DEF ApplySponsorship, ext
  <1>7. ext \in Seq(Instruction)  BY <1>3
  <1> HIDE DEF cut
  <1>8. /\ ApplySponsorship(Client, t, s) \in PreparedSwap
        /\ ApplySponsorship(Client, t, s).ixs = ext
    BY <1>6, <1>7 DEF PreparedSwap
  <1> QED  BY <1>4, <1>8

\* Whatever prepare_swap returns is a swap, and a sponsored one ends with the
\* transfer the executor will look for.
LEMMA PreparedSwapsType ==
    ASSUME NEW t \in Trades, NEW raw \in PreparedSwap,
           NEW s \in PreparedSwaps(t, raw)
    PROVE  /\ s \in PreparedSwap
           /\ SponsorFor(Client, t) => EndsWithReserve(t, s.ixs)
  <1>1. CASE s = Charged(Client, t, raw) /\ CanCharge(Client, t, raw)
    <2>1. SdkCharged(Client, t, raw) \in PreparedSwap
      BY <1>1, SdkChargedType, PayerType DEF SdkCharged, CanCharge
    <2> QED  BY <1>1, <2>1, SponsorshipType DEF Charged
  <1>2. CASE /\ s = DirectSwap(Client, t, raw)
             /\ ~ComparedByTrade(t)
             /\ CanApplySdkFee(Client, t, raw)
    BY <1>2, SdkChargedType, TradeFields DEF DirectSwap, ComparedByTrade, SponsorFor
  <1> QED  BY <1>1, <1>2 DEF PreparedSwaps

-----------------------------------------------------------------------------
(* The compiled message. *)

LEMMA ComputeLimitType ==
    ASSUME NEW u \in Units
    PROVE  ComputeLimit(u) \in Nat \ {0}
  BY AmountAssumption
  DEF ComputeLimit, NoEstimate, DEFAULT_CU_LIMIT, CU_LIMIT_MAX

LEMMA Framed ==
    ASSUME NEW S, NEW x \in S, NEW y \in S, NEW mid \in Seq(S), NEW tail \in Seq(S)
    PROVE  /\ << x, y >> \o mid \o tail \in Seq(S)
           /\ Len(<< x, y >> \o mid \o tail) = 2 + Len(mid) + Len(tail)
           /\ (<< x, y >> \o mid \o tail)[1] = x
           /\ (<< x, y >> \o mid \o tail)[2] = y
           /\ \A i \in 1..Len(mid) : (<< x, y >> \o mid \o tail)[i + 2] = mid[i]
  OBVIOUS

\* The compute budget opens the message and the swap keeps its order two
\* places further on, whether or not a tip follows it.
LEMMA CompiledMessage ==
    ASSUME NEW ixs \in Seq(Instruction), NEW limit \in Nat \ {0}, NEW payer \in Addresses
    PROVE  /\ Compile(ixs, limit, payer) \in Seq(Instruction)
           /\ Len(Compile(ixs, limit, payer)) >= Len(ixs) + 2
           /\ Compile(ixs, limit, payer)[1] = Ix("cu_limit", payer, "none", limit)
           /\ Compile(ixs, limit, payer)[2]
                = Ix("cu_price", payer, "none", ComputePrice(limit))
           /\ Len(ixs) >= 1 =>
                Compile(ixs, limit, payer)[Len(ixs) + 2] = ixs[Len(ixs)]
  <1> DEFINE x == Ix("cu_limit", payer, "none", limit)
             y == Ix("cu_price", payer, "none", ComputePrice(limit))
             tips == TipInstructions(payer)
  <1>1. PriorityFee * MicroLamports \in Int  BY AmountAssumption DEF MicroLamports
  <1>2. ComputePrice(limit) \in Int  BY <1>1, DivType DEF ComputePrice
  <1>3. x \in Instruction /\ y \in Instruction
    BY <1>2, InputAssumption DEF Ix, Instruction, Ops
  <1>4. tips \in Seq(Instruction)
    <2>1. Tip \in Int /\ "tips" \in Addresses  BY AmountAssumption, InputAssumption
    <2>2. Ix("tip", payer, "tips", Tip) \in Instruction
      BY <2>1 DEF Ix, Instruction, Ops
    <2> QED  BY <2>2 DEF TipInstructions
  <1>5. Compile(ixs, limit, payer) = << x, y >> \o ixs \o tips
    BY DEF Compile
  <1> HIDE DEF x, y, tips
  <1>6. Len(tips) \in Nat /\ Len(ixs) \in Nat  BY <1>4
  <1>7. /\ Compile(ixs, limit, payer) \in Seq(Instruction)
        /\ Len(Compile(ixs, limit, payer)) >= Len(ixs) + 2
        /\ Compile(ixs, limit, payer)[1] = x
        /\ Compile(ixs, limit, payer)[2] = y
        /\ \A i \in 1..Len(ixs) : Compile(ixs, limit, payer)[i + 2] = ixs[i]
    BY <1>3, <1>4, <1>5, <1>6, Framed
  <1>8. Len(ixs) >= 1 => Len(ixs) \in 1..Len(ixs)  BY <1>6
  <1>9. /\ x = Ix("cu_limit", payer, "none", limit)
        /\ y = Ix("cu_price", payer, "none", ComputePrice(limit))
    BY DEF x, y
  <1> QED  BY <1>7, <1>8, <1>9, Zenon

LEMMA ReserveCompiled ==
    ASSUME NEW t \in Trades, NEW ixs \in Seq(Instruction), EndsWithReserve(t, ixs),
           NEW limit \in Nat \ {0}, NEW payer \in Addresses
    PROVE  /\ Len(ixs) + 2 \in DOMAIN Compile(ixs, limit, payer)
           /\ Compile(ixs, limit, payer)[Len(ixs) + 2]
                = Ix("usdc_transfer", t.wallet, Client.collector, Client.ceiling)
  <1>1. PICK m \in Seq(Instruction) : m = Compile(ixs, limit, payer)
    BY CompiledMessage, Zenon
  <1>2. Len(ixs) >= 1 /\ Len(ixs) \in Nat  BY DEF EndsWithReserve
  <1>3. Len(m) >= Len(ixs) + 2 /\ m[Len(ixs) + 2] = ixs[Len(ixs)]
    BY <1>1, <1>2, CompiledMessage, Zenon
  <1>4. Len(ixs) + 2 \in DOMAIN m  BY <1>2, <1>3
  <1> QED  BY <1>1, <1>3, <1>4, Zenon DEF EndsWithReserve

\* Lowering the reimbursement changes one amount and nothing else.
LEMMA ReplacedMessage ==
    ASSUME NEW m \in Seq(Instruction), NEW i \in DOMAIN m, NEW charge \in Int
    PROVE  LET r == Replaced(m, i, charge)
           IN  /\ r \in Seq(Instruction)
               /\ Len(r) = Len(m)
               /\ r[i] = Ix(m[i].op, m[i].by, m[i].to, charge)
               /\ \A j \in DOMAIN m : j # i => r[j] = m[j]
               /\ RequiredSigners(r) = RequiredSigners(m)
  <1> DEFINE r == Replaced(m, i, charge)
  <1>0. m[i] \in Instruction  BY LenProperties
  <1>1. /\ [m[i] EXCEPT !.amt = charge] \in Instruction
        /\ [m[i] EXCEPT !.amt = charge] = Ix(m[i].op, m[i].by, m[i].to, charge)
    BY <1>0 DEF Instruction, Ix
  <1>2. /\ r \in Seq(Instruction) /\ Len(r) = Len(m) /\ DOMAIN r = DOMAIN m
        /\ \A j \in DOMAIN m : j # i => r[j] = m[j]
        /\ r[i] = [m[i] EXCEPT !.amt = charge]
    BY <1>1 DEF Replaced
  <1>3. r[i] = Ix(m[i].op, m[i].by, m[i].to, charge)
    BY <1>1, <1>2
  <1>4. \A j \in DOMAIN m : r[j].by = m[j].by
    BY <1>2, <1>3 DEF Ix
  <1> HIDE DEF r
  <1>5. RequiredSigners(r) = RequiredSigners(m)
    BY <1>2, <1>4 DEF RequiredSigners
  <1> QED  BY <1>2, <1>3, <1>5 DEF r

-----------------------------------------------------------------------------
(* Types. *)

BuiltStages == {"blockhash", "cost", "price", "recheck", "user_sign", "sponsor_sign", "submit"}
UnsignedStages == {"idle", "prepare", "units", "blockhash", "cost", "price", "recheck", "user_sign"}

\* A call that has compiled its message, or parted with it, has one that
\* opens with the two compute-budget instructions.
MessageBuilt ==
    \A c \in Calls :
        (stage[c] \in BuiltStages \/ chain[c] # "held") => Len(msg[c]) >= 2

LEMMA NetworkFeeType ==
    ASSUME NEW m \in Seq(Instruction), Len(m) >= 2
    PROVE  NetworkFee(m) \in Int
  <1>1. m[1] \in Instruction /\ m[2] \in Instruction  OBVIOUS
  <1>2. m[1].amt \in Int /\ m[2].amt \in Int  BY <1>1 DEF Instruction
  <1>3. m[1].amt * m[2].amt \in Int  BY <1>2
  <1>4. CeilDiv(m[1].amt * m[2].amt, MicroLamports) \in Int
    BY <1>3, DivType DEF CeilDiv, MicroLamports
  <1>5. BaseFee \in Int  BY AmountAssumption
  <1> QED  BY <1>4, <1>5 DEF NetworkFee

LEMMA DebitType ==
    ASSUME NEW m \in Seq(Instruction), Len(m) >= 2, NEW accts
    PROVE  Debit(m, accts) \in Int
  <1>1. Opened(m, accts) \subseteq Accounts  BY DEF Opened
  <1>2. Cardinality(Opened(m, accts)) \in Nat
    BY <1>1, InputAssumption, FS_Subset, FS_CardinalityType
  <1>3. Tip \in Int /\ Rent \in Int  BY AmountAssumption
  <1>4. NetworkFee(m) \in Int  BY NetworkFeeType
  <1>5. Rent * Cardinality(Opened(m, accts)) \in Int  BY <1>2, <1>3
  <1> QED  BY <1>3, <1>4, <1>5 DEF Debit

LEMMA TypeInit == Init => TypeOK /\ MessageBuilt
  <1> SUFFICES ASSUME Init PROVE TypeOK /\ MessageBuilt  OBVIOUS
  <1>1. NoSwap \in PreparedSwap  BY DEF NoSwap, PreparedSwap
  <1>2. Pending \in Result  BY DEF Pending, Result
  <1>3. BlockhashLife \in Nat /\ PriceTimeout \in Nat  BY AmountAssumption
  <1>4. TypeOK  BY <1>1, <1>2, <1>3 DEF Init, TypeOK, Stages, Pending
  <1>5. MessageBuilt  BY DEF Init, MessageBuilt, BuiltStages
  <1> QED  BY <1>4, <1>5

\* A call that ends does so with a result, and changes nothing else.
LEMMA ReturnType ==
    ASSUME TypeOK, NEW c \in Calls, stage[c] # "done",
           NEW r \in Result, r.kind # "pending", Return(c, r),
           UNCHANGED << tr, swap, msg, hashAge, sigs, chain, costState, ledger >>
    PROVE  TypeOK' /\ (MessageBuilt => MessageBuilt')
  <1>1. stage' \in [Calls -> Stages] /\ res' \in [Calls -> Result]
    BY DEF TypeOK, Stages
  <1>2. \A d \in Calls : res'[d].kind = "pending" <=> stage'[d] # "done"
    BY DEF TypeOK
  <1>3. TypeOK'  BY <1>1, <1>2 DEF TypeOK, costState, ledger
  <1>4. MessageBuilt => MessageBuilt'
    BY DEF MessageBuilt, BuiltStages, TypeOK
  <1> QED  BY <1>3, <1>4

LEMMA FailedType ==
    ASSUME NEW e \in {"Rpc", "Simulation", "Build", "Sign", "Submit"}
    PROVE  Failed(e) \in Result /\ Failed(e).kind # "pending"
  BY DEF Failed, Result

\* A step of one call to another stage short of the end.
LEMMA GotoType ==
    ASSUME TypeOK, NEW c \in Calls, stage[c] # "done",
           NEW s \in Stages \ {"done"}, Goto(c, s), UNCHANGED res
    PROVE  /\ stage' \in [Calls -> Stages]
           /\ res' \in [Calls -> Result]
           /\ \A d \in Calls : res'[d].kind = "pending" <=> stage'[d] # "done"
           /\ stage'[c] = s
           /\ \A d \in Calls \ {c} : stage'[d] = stage[d]
  BY DEF TypeOK, Stages

LEMMA TypeNext == TypeOK /\ MessageBuilt /\ [Next]_vars => TypeOK' /\ MessageBuilt'
  <1> SUFFICES ASSUME TypeOK, MessageBuilt, [Next]_vars
               PROVE  TypeOK' /\ MessageBuilt'
    OBVIOUS
  <1> USE DEF Stages
  <1>1. ASSUME NEW c \in Calls, Begin(c) PROVE TypeOK' /\ MessageBuilt'
    <2>1. Goto(c, "prepare") /\ UNCHANGED res /\ stage[c] = "idle"  BY <1>1 DEF Begin
    <2>2. TypeOK'
      BY <1>1, <2>1, GotoType DEF Begin, TypeOK, costState, ledger
    <2>3. MessageBuilt'
      BY <1>1, <2>1, GotoType DEF Begin, MessageBuilt, BuiltStages
    <2> QED  BY <2>2, <2>3
  <1>2. ASSUME NEW c \in Calls, Reject(c) PROVE TypeOK' /\ MessageBuilt'
    BY <1>2, ReturnType, FailedType DEF Reject
  <1>3. ASSUME NEW c \in Calls, Prepare(c) PROVE TypeOK' /\ MessageBuilt'
    <2>1. Goto(c, "units") /\ UNCHANGED res /\ stage[c] = "prepare"  BY <1>3 DEF Prepare
    <2>2. PICK o \in Outputs, setup \in Setups :
             \E s \in PreparedSwaps(tr[c], RawSwap(tr[c], o, setup)) :
                swap' = [swap EXCEPT ![c] = s]
      BY <1>3 DEF Prepare
    <2>3. tr[c] \in Trades  BY DEF TypeOK
    <2>4. swap' \in [Calls -> PreparedSwap]
      BY <2>2, <2>3, RawSwapType, PreparedSwapsType DEF TypeOK
    <2>5. TypeOK'
      BY <1>3, <2>1, <2>4, GotoType DEF Prepare, TypeOK, costState, ledger
    <2>6. MessageBuilt'
      BY <1>3, <2>1, GotoType DEF Prepare, MessageBuilt, BuiltStages
    <2> QED  BY <2>5, <2>6
  <1>4. ASSUME NEW c \in Calls, SimulateUnits(c) PROVE TypeOK' /\ MessageBuilt'
    <2>1. Goto(c, "blockhash") /\ UNCHANGED res /\ stage[c] = "units"
      BY <1>4 DEF SimulateUnits
    <2>2. PICK u \in Units :
             msg' = [msg EXCEPT ![c] = Compile(swap[c].ixs, ComputeLimit(u), Payer(c))]
      BY <1>4 DEF SimulateUnits
    <2>3. PICK ixs \in Seq(Instruction), limit \in Nat \ {0}, payer \in Addresses :
             ixs = swap[c].ixs /\ limit = ComputeLimit(u) /\ payer = Payer(c)
      BY ComputeLimitType, PayerType DEF Payer, TypeOK, PreparedSwap
    <2>4. /\ Compile(ixs, limit, payer) \in Seq(Instruction)
          /\ Len(Compile(ixs, limit, payer)) >= Len(ixs) + 2
      BY CompiledMessage
    <2>5. /\ Compile(swap[c].ixs, ComputeLimit(u), Payer(c)) \in Seq(Instruction)
          /\ Len(Compile(swap[c].ixs, ComputeLimit(u), Payer(c))) >= 2
      BY <2>3, <2>4
    <2>6. msg' \in [Calls -> Seq(Instruction)]
      BY <2>2, <2>5 DEF TypeOK
    <2>7. TypeOK'
      BY <1>4, <2>1, <2>6, GotoType DEF SimulateUnits, TypeOK, costState, ledger
    <2>8. MessageBuilt'
      BY <1>4, <2>1, <2>2, <2>5, GotoType DEF SimulateUnits, MessageBuilt, BuiltStages, TypeOK
    <2> QED  BY <2>7, <2>8
  <1>5. ASSUME NEW c \in Calls, FetchBlockhash(c) PROVE TypeOK' /\ MessageBuilt'
    <2>1. /\ Goto(c, StageAfterCompile(c)) /\ UNCHANGED res /\ stage[c] = "blockhash"
          /\ StageAfterCompile(c) \in {"cost", "user_sign"}
      BY <1>5 DEF FetchBlockhash, StageAfterCompile
    <2>2. hashAge' \in [Calls -> 0..(BlockhashLife + 1)]
      BY <1>5, AmountAssumption DEF FetchBlockhash, TypeOK
    <2>3. TypeOK'
      BY <1>5, <2>1, <2>2, GotoType DEF FetchBlockhash, TypeOK, costState, ledger
    <2>4. MessageBuilt'
      BY <1>5, <2>1, GotoType DEF FetchBlockhash, MessageBuilt, BuiltStages
    <2> QED  BY <2>3, <2>4
  <1>6. ASSUME NEW c \in Calls, RefuseSigners(c) PROVE TypeOK' /\ MessageBuilt'
    BY <1>6, ReturnType, FailedType DEF RefuseSigners
  <1>7. ASSUME NEW c \in Calls, SimulateCost(c) PROVE TypeOK' /\ MessageBuilt'
    <2>1. Goto(c, "price") /\ UNCHANGED res /\ stage[c] = "cost"  BY <1>7 DEF SimulateCost
    <2>2. Debit(msg[c], accounts) \in Int
      BY <2>1, DebitType DEF TypeOK, MessageBuilt, BuiltStages
    <2>3. est' \in [Calls -> Int]
      BY <1>7, <2>2 DEF SimulateCost, TypeOK
    <2>4. PriceTimeout \in Nat  BY AmountAssumption
    <2>5. waited' \in [Calls -> 0..(PriceTimeout + 1)]
      BY <1>7, <2>4 DEF SimulateCost, TypeOK
    <2>6. TypeOK'
      BY <1>7, <2>1, <2>3, <2>5, GotoType DEF SimulateCost, TypeOK, ledger
    <2>7. MessageBuilt'
      BY <1>7, <2>1, GotoType DEF SimulateCost, MessageBuilt, BuiltStages
    <2> QED  BY <2>6, <2>7
  <1>8. ASSUME NEW c \in Calls, AcceptPrice(c) PROVE TypeOK' /\ MessageBuilt'
    <2> DEFINE i == ReimbursementIndex(swap[c])
    <2>1. Goto(c, "recheck") /\ UNCHANGED res /\ stage[c] = "price"  BY <1>8 DEF AcceptPrice
    <2>2. PICK p \in Rates, age \in PriceAges :
             LET charge == ChargeFor(est[c], p, ServiceFee, LamportsPerSol)
             IN  /\ HoldsReserve(msg[c], i)
                 /\ msg' = [msg EXCEPT ![c] = Replaced(@, i, charge)]
                 /\ rate' = [rate EXCEPT ![c] = p]
                 /\ priceAge' = [priceAge EXCEPT ![c] = age]
      BY <1>8 DEF AcceptPrice
    <2>3. p \in Nat /\ age \in Int  BY AmountAssumption
    <2>4. PICK charge \in Int : charge = ChargeFor(est[c], p, ServiceFee, LamportsPerSol)
      BY <2>3, ChargeType DEF TypeOK
    <2>5. msg[c] \in Seq(Instruction) /\ i \in DOMAIN msg[c]
      BY <2>2 DEF TypeOK, HoldsReserve
    <2>6. /\ Replaced(msg[c], i, charge) \in Seq(Instruction)
          /\ Len(Replaced(msg[c], i, charge)) = Len(msg[c])
      BY <2>5, ReplacedMessage
    <2>7. msg' = [msg EXCEPT ![c] = Replaced(msg[c], i, charge)]  BY <2>2, <2>4
    <2>8. /\ msg' \in [Calls -> Seq(Instruction)]
          /\ \A d \in Calls : Len(msg'[d]) = Len(msg[d])
      BY <2>6, <2>7 DEF TypeOK
    <2>9. rate' \in [Calls -> Nat] /\ priceAge' \in [Calls -> Int]
      BY <2>2, <2>3 DEF TypeOK
    <2>10. TypeOK'
      BY <1>8, <2>1, <2>8, <2>9, GotoType DEF AcceptPrice, TypeOK, ledger
    <2>11. MessageBuilt'
      BY <1>8, <2>1, <2>8, GotoType DEF AcceptPrice, MessageBuilt, BuiltStages
    <2> QED  BY <2>10, <2>11
  <1>9. ASSUME NEW c \in Calls, RefusePrice(c) PROVE TypeOK' /\ MessageBuilt'
    BY <1>9, ReturnType, FailedType DEF RefusePrice
  <1>10. ASSUME NEW c \in Calls, PriceTimesOut(c) PROVE TypeOK' /\ MessageBuilt'
    BY <1>10, ReturnType, FailedType DEF PriceTimesOut
  <1>11. ASSUME NEW c \in Calls, ConfirmCharge(c) PROVE TypeOK' /\ MessageBuilt'
    <2>1. Goto(c, "user_sign") /\ UNCHANGED res /\ stage[c] = "recheck"
      BY <1>11 DEF ConfirmCharge
    <2>2. TypeOK'
      BY <1>11, <2>1, GotoType DEF ConfirmCharge, TypeOK, costState
    <2>3. MessageBuilt'
      BY <1>11, <2>1, GotoType DEF ConfirmCharge, MessageBuilt, BuiltStages
    <2> QED  BY <2>2, <2>3
  <1>12. ASSUME NEW c \in Calls, RefuseCharge(c) PROVE TypeOK' /\ MessageBuilt'
    BY <1>12, ReturnType, FailedType DEF RefuseCharge
  <1>13. ASSUME NEW c \in Calls, UserSigns(c) PROVE TypeOK' /\ MessageBuilt'
    <2>1. PICK s \in {"sponsor_sign", "submit"} :
             Goto(c, s) /\ UNCHANGED res /\ stage[c] = "user_sign"
      BY <1>13 DEF UserSigns, HandOver
    <2>2. sigs' \in [Calls -> SUBSET [by : Addresses, over : Seq(Instruction)]]
      BY <1>13, TradeFields DEF UserSigns, Signed, TypeOK
    <2>3. chain' \in [Calls -> {"held", "handed", "executed", "reverted"}]
      BY <1>13 DEF UserSigns, HandOver, TypeOK
    <2>4. TypeOK'
      BY <1>13, <2>1, <2>2, <2>3, GotoType DEF UserSigns, TypeOK, costState, ledger
    <2>5. \A d \in Calls \ {c} : chain'[d] = chain[d]
      BY <1>13 DEF UserSigns, HandOver, TypeOK
    <2>6. MessageBuilt'
      BY <1>13, <2>1, <2>5, GotoType DEF UserSigns, MessageBuilt, BuiltStages
    <2> QED  BY <2>4, <2>6
  <1>14. ASSUME NEW c \in Calls, SponsorSigns(c) PROVE TypeOK' /\ MessageBuilt'
    <2>1. Goto(c, "submit") /\ UNCHANGED res /\ stage[c] = "sponsor_sign"
      BY <1>14 DEF SponsorSigns, HandOver
    <2>2. sigs' \in [Calls -> SUBSET [by : Addresses, over : Seq(Instruction)]]
      BY <1>14, ClientAssumption DEF SponsorSigns, Signed, TypeOK, ClientType
    <2>3. /\ chain' \in [Calls -> {"held", "handed", "executed", "reverted"}]
          /\ \A d \in Calls \ {c} : chain'[d] = chain[d]
      BY <1>14 DEF SponsorSigns, HandOver, TypeOK
    <2>4. TypeOK'
      BY <1>14, <2>1, <2>2, <2>3, GotoType DEF SponsorSigns, TypeOK, costState, ledger
    <2>5. MessageBuilt'
      BY <1>14, <2>1, <2>3, GotoType DEF SponsorSigns, MessageBuilt, BuiltStages
    <2> QED  BY <2>4, <2>5
  <1>15. ASSUME NEW c \in Calls, SubmitAnswers(c) PROVE TypeOK' /\ MessageBuilt'
    <2>1. FinalFee(c) \in Int
      BY ChargeType DEF FinalFee, TypeOK, PreparedSwap
    <2>2. Submitted(swap[c], FinalFee(c)) \in Result
      BY <2>1 DEF Submitted, Result, TypeOK, PreparedSwap
    <2>3. Submitted(swap[c], FinalFee(c)).kind # "pending"  BY DEF Submitted
    <2> QED  BY <1>15, <2>2, <2>3, ReturnType DEF SubmitAnswers
  <1>16. ASSUME NEW c \in Calls, Fail(c) PROVE TypeOK' /\ MessageBuilt'
    <2>1. PICK e \in Errors(stage[c]) : Return(c, Failed(e))  BY <1>16 DEF Fail
    <2>2. stage[c] # "done" /\ e \in {"Rpc", "Simulation", "Build", "Sign", "Submit"}
      BY <2>1 DEF Errors, TypeOK
    <2> QED  BY <1>16, <2>1, <2>2, ReturnType, FailedType DEF Fail
  <1>17. ASSUME NEW c \in Calls, Execute(c) PROVE TypeOK' /\ MessageBuilt'
    <2>1. Debit(msg[c], accounts) \in Int
      BY <1>17, DebitType DEF Execute, Landable, MessageBuilt, TypeOK
    <2>2. TypeOK'
      BY <1>17, <2>1 DEF Execute, TypeOK, costState, Opened
    <2>3. MessageBuilt'
      BY <1>17 DEF Execute, Landable, MessageBuilt, TypeOK
    <2> QED  BY <2>2, <2>3
  <1>18. ASSUME NEW c \in Calls, Revert(c) PROVE TypeOK' /\ MessageBuilt'
    <2>1. NetworkFee(msg[c]) \in Int
      BY <1>18, NetworkFeeType DEF Revert, Landable, MessageBuilt, TypeOK
    <2>2. TypeOK'
      BY <1>18, <2>1 DEF Revert, TypeOK, costState
    <2>3. MessageBuilt'
      BY <1>18 DEF Revert, Landable, MessageBuilt, TypeOK
    <2> QED  BY <2>2, <2>3
  <1>19. CASE OpenAccount
    BY <1>19 DEF OpenAccount, TypeOK, MessageBuilt, costState
  <1>20. CASE CloseAccount
    BY <1>20 DEF CloseAccount, TypeOK, MessageBuilt, costState
  <1>21. CASE Tick
    <2>1. ASSUME NEW limit \in Nat, NEW age \in 0..(limit + 1)
          PROVE  Older(age, limit) \in 0..(limit + 1)
      BY DEF Older
    <2>2. \A age \in Int : Older(age, MaxPriceAge + BlockhashLife) \in Int  BY DEF Older
    <2>3. BlockhashLife \in Nat /\ PriceTimeout \in Nat  BY AmountAssumption
    <2>4. /\ hashAge' \in [Calls -> 0..(BlockhashLife + 1)]
          /\ waited' \in [Calls -> 0..(PriceTimeout + 1)]
          /\ priceAge' \in [Calls -> Int]
      BY <1>21, <2>1, <2>2, <2>3 DEF Tick, TypeOK
    <2> QED  BY <1>21, <2>4 DEF Tick, TypeOK, MessageBuilt, ledger
  <1>22. CASE UNCHANGED vars
    BY <1>22 DEF vars, TypeOK, MessageBuilt
  <1> QED
    BY <1>1, <1>2, <1>3, <1>4, <1>5, <1>6, <1>7, <1>8, <1>9, <1>10, <1>11, <1>12,
       <1>13, <1>14, <1>15, <1>16, <1>17, <1>18, <1>19, <1>20, <1>21, <1>22
    DEF Next, Step, RpcReply, OutsideReply, Land

\* Every variable keeps its type and a call has a result exactly when it is
\* done, for any calls, clients, trades, venues and limits.
THEOREM TypeCorrect == Spec => []TypeOK
  <1>1. Init => TypeOK /\ MessageBuilt  BY TypeInit
  <1>2. TypeOK /\ MessageBuilt /\ [Next]_vars => (TypeOK /\ MessageBuilt)'
    BY TypeNext
  <1> QED  BY <1>1, <1>2, PTL DEF Spec

-----------------------------------------------------------------------------
(* A step of one call leaves the others where they are. *)

CallState(c) == << stage[c], tr[c], swap[c], msg[c], est[c], rate[c],
                   sigs[c], res[c], chain[c], paid[c] >>

LEMMA StepIsLocal ==
    ASSUME TypeOK, NEW c \in Calls, Step(c) \/ Land(c), NEW d \in Calls \ {c}
    PROVE  UNCHANGED CallState(d)
  <1> USE DEF CallState, TypeOK, costState, ledger
  <1>1. CASE Begin(c) \/ Reject(c)  BY <1>1 DEF Begin, Reject
  <1>2. CASE Prepare(c)  BY <1>2 DEF Prepare
  <1>3. CASE SimulateUnits(c)  BY <1>3 DEF SimulateUnits
  <1>4. CASE FetchBlockhash(c) \/ RefuseSigners(c)
    BY <1>4 DEF FetchBlockhash, RefuseSigners
  <1>5. CASE SimulateCost(c)  BY <1>5 DEF SimulateCost
  <1>6. CASE AcceptPrice(c)  BY <1>6 DEF AcceptPrice
  <1>7. CASE RefusePrice(c) \/ PriceTimesOut(c)  BY <1>7 DEF RefusePrice, PriceTimesOut
  <1>8. CASE ConfirmCharge(c) \/ RefuseCharge(c)  BY <1>8 DEF ConfirmCharge, RefuseCharge
  <1>9. CASE UserSigns(c)  BY <1>9 DEF UserSigns, Signed, HandOver
  <1>10. CASE SponsorSigns(c)  BY <1>10 DEF SponsorSigns, Signed, HandOver
  <1>11. CASE SubmitAnswers(c) \/ Fail(c)  BY <1>11 DEF SubmitAnswers, Fail
  <1>12. CASE Execute(c) \/ Revert(c)  BY <1>12 DEF Execute, Revert
  <1> QED
    BY <1>1, <1>2, <1>3, <1>4, <1>5, <1>6, <1>7, <1>8, <1>9, <1>10, <1>11, <1>12
    DEF Step, RpcReply, OutsideReply, Land

\* An invariant of the calls' own state needs only the steps of each call.
LEMMA WorldIsLocal ==
    ASSUME TypeOK, OpenAccount \/ CloseAccount \/ Tick \/ UNCHANGED vars,
           NEW d \in Calls
    PROVE  UNCHANGED CallState(d)
  BY DEF OpenAccount, CloseAccount, Tick, vars, CallState, TypeOK, costState, ledger

-----------------------------------------------------------------------------
(* Signatures. *)

SigningStages == {"cost", "price", "recheck", "user_sign", "sponsor_sign"}

\* Nobody has signed before the user is asked, the user has signed when the
\* sponsor is, both sign the message as it is now, and the signers asked are
\* the ones it needs.
SignaturesInOrder(c) ==
    /\ stage[c] \in UnsignedStages => sigs[c] = {} /\ chain[c] = "held"
    /\ stage[c] = "sponsor_sign" =>
          /\ Sponsored(c) /\ chain[c] = "held"
          /\ [by |-> tr[c].wallet, over |-> msg[c]] \in sigs[c]
    /\ stage[c] \in SigningStages => SignersExpected(msg[c], tr[c].wallet, Payer(c))
    /\ \A s \in sigs[c] : s.over = msg[c]
    /\ chain[c] # "held" => FullySigned(c)
    /\ stage[c] = "done" /\ chain[c] # "held" => res[c].kind = "ok" \/ res[c].error = "Submit"

LEMMA SignaturesFrame ==
    ASSUME NEW d \in Calls, SignaturesInOrder(d), UNCHANGED CallState(d)
    PROVE  SignaturesInOrder(d)'
  BY DEF SignaturesInOrder, CallState, Sponsored, Payer, FullySigned, UnsignedStages, SigningStages

LEMMA SignaturesStep ==
    ASSUME TypeOK, NEW c \in Calls, Step(c) \/ Land(c), SignaturesInOrder(c)
    PROVE  SignaturesInOrder(c)'
  <1> USE DEF SignaturesInOrder, TypeOK, Stages, UnsignedStages, SigningStages,
              Sponsored, Payer, FullySigned, Failed, costState, ledger
  <1>1. CASE Begin(c)  BY <1>1 DEF Begin
  <1>2. CASE Reject(c)  BY <1>2 DEF Reject
  <1>3. CASE Prepare(c)  BY <1>3 DEF Prepare
  <1>4. CASE SimulateUnits(c)  BY <1>4 DEF SimulateUnits
  <1>5. CASE FetchBlockhash(c)  BY <1>5 DEF FetchBlockhash, StageAfterCompile
  <1>6. CASE RefuseSigners(c)  BY <1>6 DEF RefuseSigners
  <1>7. CASE SimulateCost(c)  BY <1>7 DEF SimulateCost
  <1>8. CASE AcceptPrice(c)
    <2>1. PICK p \in Rates :
             LET i == ReimbursementIndex(swap[c])
                 charge == ChargeFor(est[c], p, ServiceFee, LamportsPerSol)
             IN  /\ HoldsReserve(msg[c], i)
                 /\ msg' = [msg EXCEPT ![c] = Replaced(@, i, charge)]
      BY <1>8 DEF AcceptPrice
    <2>2. p \in Nat  BY AmountAssumption
    <2>3. PICK charge \in Int, i \in DOMAIN msg[c] :
             msg'[c] = Replaced(msg[c], i, charge)
      BY <2>1, <2>2, ChargeType DEF HoldsReserve
    <2>4. RequiredSigners(msg'[c]) = RequiredSigners(msg[c])
      BY <2>3, ReplacedMessage
    <2>5. SignersExpected(msg'[c], tr[c].wallet, PayerOf(Client, tr[c]))
      BY <1>8, <2>4 DEF AcceptPrice, SignersExpected
    <2> QED  BY <1>8, <2>5 DEF AcceptPrice
  <1>9. CASE RefusePrice(c)  BY <1>9 DEF RefusePrice
  <1>10. CASE PriceTimesOut(c)  BY <1>10 DEF PriceTimesOut
  <1>11. CASE ConfirmCharge(c)  BY <1>11 DEF ConfirmCharge
  <1>12. CASE RefuseCharge(c)  BY <1>12 DEF RefuseCharge
  <1>13. CASE UserSigns(c)
    <2>1. sigs'[c] = {[by |-> tr[c].wallet, over |-> msg[c]]}
      BY <1>13 DEF UserSigns, Signed
    <2>2. CASE Sponsored(c)
      BY <1>13, <2>1, <2>2 DEF UserSigns, SponsorMustSign
    <2>3. CASE ~Sponsored(c)
      <3>1. RequiredSigners(msg[c]) \subseteq {tr[c].wallet}
        BY <1>13, <2>3 DEF UserSigns, SignersExpected, PayerOf
      <3> QED  BY <1>13, <2>1, <2>3, <3>1 DEF UserSigns, SponsorMustSign, HandOver
    <2> QED  BY <2>2, <2>3
  <1>14. CASE SponsorSigns(c)
    <2>1. /\ sigs'[c] = sigs[c] \cup {[by |-> Client.payer, over |-> msg[c]]}
          /\ [by |-> tr[c].wallet, over |-> msg[c]] \in sigs[c]
      BY <1>14 DEF SponsorSigns, Signed
    <2>2. RequiredSigners(msg[c]) \subseteq {tr[c].wallet, Client.payer}
      BY <1>14 DEF SponsorSigns, SignersExpected, PayerOf
    <2> QED  BY <1>14, <2>1, <2>2 DEF SponsorSigns, HandOver
  <1>15. CASE SubmitAnswers(c)  BY <1>15 DEF SubmitAnswers, Submitted
  <1>16. CASE Fail(c)  BY <1>16 DEF Fail, Errors
  <1>17. CASE Execute(c)  BY <1>17 DEF Execute, Landable
  <1>18. CASE Revert(c)  BY <1>18 DEF Revert, Landable
  <1> QED
    BY <1>1, <1>2, <1>3, <1>4, <1>5, <1>6, <1>7, <1>8, <1>9, <1>10, <1>11, <1>12,
       <1>13, <1>14, <1>15, <1>16, <1>17, <1>18
    DEF Step, RpcReply, OutsideReply, Land

SignedInv == TypeOK /\ MessageBuilt /\ \A c \in Calls : SignaturesInOrder(c)

LEMMA SignedInit == Init => SignedInv
  <1>1. Init => \A c \in Calls : SignaturesInOrder(c)
    BY DEF Init, SignaturesInOrder, SigningStages
  <1> QED  BY <1>1, TypeInit DEF SignedInv

LEMMA SignedNext == SignedInv /\ [Next]_vars => SignedInv'
  <1> SUFFICES ASSUME SignedInv, [Next]_vars PROVE SignedInv'  OBVIOUS
  <1>1. TypeOK' /\ MessageBuilt'  BY TypeNext DEF SignedInv
  <1>2. ASSUME NEW c \in Calls, Step(c) \/ Land(c), NEW d \in Calls
        PROVE  SignaturesInOrder(d)'
    <2>1. CASE d = c  BY <1>2, <2>1, SignaturesStep DEF SignedInv
    <2>2. CASE d # c
      BY <1>2, <2>2, StepIsLocal, SignaturesFrame DEF SignedInv
    <2> QED  BY <2>1, <2>2
  <1>3. ASSUME OpenAccount \/ CloseAccount \/ Tick \/ UNCHANGED vars, NEW d \in Calls
        PROVE  SignaturesInOrder(d)'
    BY <1>3, WorldIsLocal, SignaturesFrame DEF SignedInv
  <1>4. \A d \in Calls : SignaturesInOrder(d)'
    BY <1>2, <1>3 DEF Next
  <1> QED  BY <1>1, <1>4 DEF SignedInv

\* Nothing leaves the library without every signature its message needs, all
\* over the message that lands.
THEOREM SignaturesCover == Spec => []SignaturesCoverFinalMessage
  <1>1. SignedInv => SignaturesCoverFinalMessage
    BY DEF SignedInv, SignaturesInOrder, SignaturesCoverFinalMessage
  <1> QED  BY <1>1, SignedInit, SignedNext, PTL DEF Spec

\* After any error but Submit no transaction of the call was handed over.
THEOREM ErrorsAreDefinite == Spec => []OnlySubmitErrorsLeaveDoubt
  <1>1. SignedInv => OnlySubmitErrorsLeaveDoubt
    <2> SUFFICES ASSUME SignedInv, NEW c \in Calls, res[c].kind = "err",
                        res[c].error # "Submit"
                 PROVE  chain[c] = "held"
      BY DEF OnlySubmitErrorsLeaveDoubt
    <2>1. stage[c] = "done"  BY DEF SignedInv, TypeOK
    <2> QED  BY <2>1 DEF SignedInv, SignaturesInOrder
  <1> QED  BY <1>1, SignedInit, SignedNext, PTL DEF Spec

-----------------------------------------------------------------------------
(* The sponsor's charge. *)

PreparedStages == BuiltStages \cup {"units"}
ReservedStages == {"blockhash", "cost", "price"}
ChargedStages == {"recheck", "user_sign", "sponsor_sign", "submit"}

Transfer(c, amt) == Ix("usdc_transfer", tr[c].wallet, Client.collector, amt)
Priced(c) == ChargeFor(est[c], rate[c], ServiceFee, LamportsPerSol)

\* The prepared swap of a sponsored trade ends with the reserved transfer, the
\* message holds it at the reimbursement's index until the price is accepted,
\* and from then on holds the charge, within both caps, in its place.
ChargeInPlace(c) ==
    Sponsored(c) =>
        /\ stage[c] \in PreparedStages => EndsWithReserve(tr[c], swap[c].ixs)
        /\ stage[c] \in ReservedStages =>
              /\ ReimbursementIndex(swap[c]) \in DOMAIN msg[c]
              /\ msg[c][ReimbursementIndex(swap[c])] = Transfer(c, Client.ceiling)
        /\ stage[c] \in ChargedStages \/ sigs[c] # {} =>
              /\ msg[c][ReimbursementIndex(swap[c])] = Transfer(c, Priced(c))
              /\ Priced(c) <= Client.ceiling
              /\ est[c] <= MaxCost

LEMMA ChargeFrame ==
    ASSUME NEW d \in Calls, ChargeInPlace(d), UNCHANGED CallState(d)
    PROVE  ChargeInPlace(d)'
  BY DEF ChargeInPlace, CallState, Sponsored, Transfer, Priced

LEMMA ChargeStep ==
    ASSUME TypeOK, NEW c \in Calls, Step(c) \/ Land(c), SignaturesInOrder(c),
           ChargeInPlace(c)
    PROVE  ChargeInPlace(c)'
  <1> USE DEF ChargeInPlace, TypeOK, Stages, BuiltStages, PreparedStages, ReservedStages,
              ChargedStages, Sponsored, Transfer, Priced, costState, ledger
  <1>s. stage[c] \in UnsignedStages => sigs[c] = {}  BY DEF SignaturesInOrder
  <1>1. CASE Begin(c)  BY <1>1 DEF Begin
  <1>2. CASE Reject(c)  BY <1>2 DEF Reject
  <1>3. CASE Prepare(c)
    <2>1. PICK o \in Outputs, setup \in Setups :
             \E s \in PreparedSwaps(tr[c], RawSwap(tr[c], o, setup)) :
                swap' = [swap EXCEPT ![c] = s]
      BY <1>3 DEF Prepare
    <2>2. SponsorFor(Client, tr[c]) => EndsWithReserve(tr[c], swap'[c].ixs)
      BY <2>1, RawSwapType, PreparedSwapsType
    <2> QED  BY <1>3, <1>s, <2>2 DEF Prepare, UnsignedStages
  <1>4. CASE SimulateUnits(c)
    <2>1. PICK u \in Units :
             msg' = [msg EXCEPT ![c] = Compile(swap[c].ixs, ComputeLimit(u), Payer(c))]
      BY <1>4 DEF SimulateUnits
    <2>2. PICK ixs \in Seq(Instruction), limit \in Nat \ {0}, payer \in Addresses :
             ixs = swap[c].ixs /\ limit = ComputeLimit(u) /\ payer = Payer(c)
      BY ComputeLimitType, PayerType DEF Payer, PreparedSwap
    <2>3. msg'[c] = Compile(ixs, limit, payer)  BY <2>1, <2>2
    <2>4. ASSUME Sponsored(c)
          PROVE  /\ Len(ixs) + 2 \in DOMAIN msg'[c]
                 /\ msg'[c][Len(ixs) + 2] = Transfer(c, Client.ceiling)
      <3>1. EndsWithReserve(tr[c], ixs)  BY <1>4, <2>2, <2>4 DEF SimulateUnits
      <3>2. tr[c] \in Trades  OBVIOUS
      <3>3. /\ Len(ixs) + 2 \in DOMAIN Compile(ixs, limit, payer)
            /\ Compile(ixs, limit, payer)[Len(ixs) + 2] = Transfer(c, Client.ceiling)
        BY <3>1, <3>2, ReserveCompiled, Zenon
      <3> QED  BY <2>3, <3>3, Zenon
    <2> QED
      BY <1>4, <1>s, <2>2, <2>4 DEF SimulateUnits, ReimbursementIndex, UnsignedStages
  <1>5. CASE FetchBlockhash(c)
    BY <1>5, <1>s DEF FetchBlockhash, StageAfterCompile, UnsignedStages
  <1>6. CASE RefuseSigners(c)  BY <1>6, <1>s DEF RefuseSigners, UnsignedStages
  <1>7. CASE SimulateCost(c)  BY <1>7, <1>s DEF SimulateCost, UnsignedStages
  <1>8. CASE AcceptPrice(c)
    <2> DEFINE i == ReimbursementIndex(swap[c])
    <2>1. PICK p \in Rates, age \in PriceAges :
             LET charge == ChargeFor(est[c], p, ServiceFee, LamportsPerSol)
             IN  /\ ChargeAllowed(est[c], p, age)
                 /\ HoldsReserve(msg[c], i)
                 /\ msg' = [msg EXCEPT ![c] = Replaced(@, i, charge)]
                 /\ rate' = [rate EXCEPT ![c] = p]
      BY <1>8 DEF AcceptPrice
    <2>2. p \in Nat  BY AmountAssumption
    <2>3. PICK charge \in Int : charge = ChargeFor(est[c], p, ServiceFee, LamportsPerSol)
      BY <2>2, ChargeType
    <2>4. i \in DOMAIN msg[c] /\ msg'[c] = Replaced(msg[c], i, charge) /\ rate'[c] = p
      BY <2>1, <2>3 DEF HoldsReserve
    <2>5. charge <= Client.ceiling /\ est[c] <= MaxCost
      BY <2>1, <2>3 DEF ChargeAllowed
    <2>6. ASSUME Sponsored(c) PROVE msg'[c][i] = Transfer(c, charge)
      <3>1. msg[c][i] = Transfer(c, Client.ceiling)  BY <1>8, <2>6 DEF AcceptPrice
      <3>2. msg'[c][i] = Ix(msg[c][i].op, msg[c][i].by, msg[c][i].to, charge)
        BY <2>4, ReplacedMessage
      <3> QED  BY <3>1, <3>2 DEF Ix
    <2>7. stage'[c] = "recheck" /\ est' = est /\ swap' = swap /\ tr' = tr
      BY <1>8 DEF AcceptPrice
    <2>8. ASSUME Sponsored(c) PROVE EndsWithReserve(tr[c], swap[c].ixs)
      BY <1>8, <2>8 DEF AcceptPrice
    <2> QED  BY <2>3, <2>4, <2>5, <2>6, <2>7, <2>8
  <1>9. CASE RefusePrice(c)  BY <1>9, <1>s DEF RefusePrice, UnsignedStages
  <1>10. CASE PriceTimesOut(c)  BY <1>10, <1>s DEF PriceTimesOut, UnsignedStages
  <1>11. CASE ConfirmCharge(c)  BY <1>11 DEF ConfirmCharge
  <1>12. CASE RefuseCharge(c)  BY <1>12, <1>s DEF RefuseCharge, UnsignedStages
  <1>13. CASE UserSigns(c)  BY <1>13 DEF UserSigns, HandOver
  <1>14. CASE SponsorSigns(c)  BY <1>14 DEF SponsorSigns, HandOver
  <1>15. CASE SubmitAnswers(c)  BY <1>15 DEF SubmitAnswers
  <1>16. CASE Fail(c)  BY <1>16 DEF Fail
  <1>17. CASE Execute(c) \/ Revert(c)  BY <1>17 DEF Execute, Revert
  <1> QED
    BY <1>1, <1>2, <1>3, <1>4, <1>5, <1>6, <1>7, <1>8, <1>9, <1>10, <1>11, <1>12,
       <1>13, <1>14, <1>15, <1>16, <1>17
    DEF Step, RpcReply, OutsideReply, Land

ChargeInv == SignedInv /\ \A c \in Calls : ChargeInPlace(c)

LEMMA ChargeInit == Init => ChargeInv
  <1>1. Init => \A c \in Calls : ChargeInPlace(c)
    BY DEF Init, ChargeInPlace, PreparedStages, BuiltStages, ReservedStages, ChargedStages
  <1> QED  BY <1>1, SignedInit DEF ChargeInv

LEMMA ChargeNext == ChargeInv /\ [Next]_vars => ChargeInv'
  <1> SUFFICES ASSUME ChargeInv, [Next]_vars PROVE ChargeInv'  OBVIOUS
  <1>1. SignedInv'  BY SignedNext DEF ChargeInv
  <1>2. ASSUME NEW c \in Calls, Step(c) \/ Land(c), NEW d \in Calls
        PROVE  ChargeInPlace(d)'
    <2>1. CASE d = c  BY <1>2, <2>1, ChargeStep DEF ChargeInv, SignedInv
    <2>2. CASE d # c
      BY <1>2, <2>2, StepIsLocal, ChargeFrame DEF ChargeInv, SignedInv
    <2> QED  BY <2>1, <2>2
  <1>3. ASSUME OpenAccount \/ CloseAccount \/ Tick \/ UNCHANGED vars, NEW d \in Calls
        PROVE  ChargeInPlace(d)'
    BY <1>3, WorldIsLocal, ChargeFrame DEF ChargeInv, SignedInv
  <1>4. \A d \in Calls : ChargeInPlace(d)'
    BY <1>2, <1>3 DEF Next
  <1> QED  BY <1>1, <1>4 DEF ChargeInv

\* Whatever is signed for a sponsored trade moves the computed charge, within
\* the sponsor's caps, to its fee collector.
THEOREM SponsorAuthorises == Spec => []SponsorAuthorisesBoundedCharge
  <1>1. ChargeInv => SponsorAuthorisesBoundedCharge
    BY DEF ChargeInv, SignedInv, SignaturesInOrder, ChargeInPlace,
           SponsorAuthorisesBoundedCharge, Transfer, Priced
  <1> QED  BY <1>1, ChargeInit, ChargeNext, PTL DEF Spec

-----------------------------------------------------------------------------
(* The age of a price that lands. *)

\* From the confirmation of a charge until its transaction has landed, a price
\* whose blockhash is still live is at most the blockhash's age over its limit:
\* the two grow old together.
AgesTogether(c) ==
    (/\ Sponsored(c)
     /\ stage[c] \in {"user_sign", "sponsor_sign", "submit"} \/ chain[c] = "handed"
     /\ hashAge[c] <= BlockhashLife) => priceAge[c] <= MaxPriceAge + hashAge[c]

LEMMA AgesAreLocal ==
    ASSUME TypeOK, NEW c \in Calls, Step(c) \/ Land(c), NEW d \in Calls \ {c}
    PROVE  UNCHANGED << priceAge[d], hashAge[d] >>
  <1> USE DEF TypeOK, costState
  <1>1. CASE Begin(c) \/ Reject(c)  BY <1>1 DEF Begin, Reject
  <1>2. CASE Prepare(c) \/ SimulateUnits(c)  BY <1>2 DEF Prepare, SimulateUnits
  <1>3. CASE FetchBlockhash(c) \/ RefuseSigners(c)
    BY <1>3 DEF FetchBlockhash, RefuseSigners
  <1>4. CASE SimulateCost(c) \/ ConfirmCharge(c) \/ RefuseCharge(c)
    BY <1>4 DEF SimulateCost, ConfirmCharge, RefuseCharge
  <1>5. CASE AcceptPrice(c)  BY <1>5 DEF AcceptPrice
  <1>6. CASE RefusePrice(c) \/ PriceTimesOut(c)  BY <1>6 DEF RefusePrice, PriceTimesOut
  <1>7. CASE UserSigns(c) \/ SponsorSigns(c)  BY <1>7 DEF UserSigns, SponsorSigns
  <1>8. CASE SubmitAnswers(c) \/ Fail(c)  BY <1>8 DEF SubmitAnswers, Fail
  <1>9. CASE Execute(c) \/ Revert(c)  BY <1>9 DEF Execute, Revert
  <1> QED
    BY <1>1, <1>2, <1>3, <1>4, <1>5, <1>6, <1>7, <1>8, <1>9
    DEF Step, RpcReply, OutsideReply, Land

LEMMA AgesStep ==
    ASSUME TypeOK, NEW c \in Calls, Step(c) \/ Land(c), SignaturesInOrder(c),
           AgesTogether(c)
    PROVE  AgesTogether(c)'
  <1> USE DEF AgesTogether, TypeOK, Sponsored, costState
  <1>h. stage[c] \in UnsignedStages => chain[c] = "held"  BY DEF SignaturesInOrder
  <1>1. CASE Begin(c) \/ Reject(c)  BY <1>1, <1>h DEF Begin, Reject, UnsignedStages
  <1>2. CASE Prepare(c) \/ SimulateUnits(c)
    BY <1>2, <1>h DEF Prepare, SimulateUnits, UnsignedStages
  <1>3. CASE FetchBlockhash(c) \/ RefuseSigners(c)
    BY <1>3, <1>h
    DEF FetchBlockhash, RefuseSigners, StageAfterCompile, UnsignedStages
  <1>4. CASE SimulateCost(c) \/ RefuseCharge(c)
    BY <1>4, <1>h DEF SimulateCost, RefuseCharge, UnsignedStages
  <1>5. CASE ConfirmCharge(c)
    <2>1. priceAge[c] <= MaxPriceAge
      BY <1>5 DEF ConfirmCharge, ChargeStillHolds, ChargeAllowed, PriceIsFresh
    <2>2. priceAge[c] \in Int /\ hashAge[c] \in Nat /\ MaxPriceAge \in Nat
      BY AmountAssumption
    <2> QED  BY <1>5, <2>1, <2>2 DEF ConfirmCharge
  <1>6. CASE AcceptPrice(c)  BY <1>6, <1>h DEF AcceptPrice, UnsignedStages
  <1>7. CASE RefusePrice(c) \/ PriceTimesOut(c)
    BY <1>7, <1>h DEF RefusePrice, PriceTimesOut, UnsignedStages
  <1>8. CASE UserSigns(c)  BY <1>8 DEF UserSigns
  <1>9. CASE SponsorSigns(c)  BY <1>9 DEF SponsorSigns
  <1>10. CASE SubmitAnswers(c)  BY <1>10 DEF SubmitAnswers
  <1>11. CASE Fail(c)  BY <1>11 DEF Fail
  <1>12. CASE Execute(c) \/ Revert(c)  BY <1>12 DEF Execute, Revert
  <1> QED
    BY <1>1, <1>2, <1>3, <1>4, <1>5, <1>6, <1>7, <1>8, <1>9, <1>10, <1>11, <1>12
    DEF Step, RpcReply, OutsideReply, Land

LEMMA AgesTick ==
    ASSUME TypeOK, Tick, NEW c \in Calls, AgesTogether(c)
    PROVE  AgesTogether(c)'
  <1> SUFFICES ASSUME Sponsored(c),
                      stage[c] \in {"user_sign", "sponsor_sign", "submit"} \/ chain[c] = "handed",
                      hashAge'[c] <= BlockhashLife
               PROVE  priceAge'[c] <= MaxPriceAge + hashAge'[c]
    BY DEF AgesTogether, Tick, Sponsored
  <1>1. /\ MaxPriceAge \in Nat /\ BlockhashLife \in Nat
        /\ priceAge[c] \in Int /\ hashAge[c] \in Nat
    BY AmountAssumption DEF TypeOK
  <1>2. /\ priceAge'[c] = Older(priceAge[c], MaxPriceAge + BlockhashLife)
        /\ hashAge'[c] = Older(hashAge[c], BlockhashLife)
    BY DEF Tick, PriceInUse, HashInUse
  <1>3. hashAge[c] <= BlockhashLife /\ hashAge'[c] = hashAge[c] + 1
    BY <1>1, <1>2 DEF Older
  <1>4. priceAge[c] <= MaxPriceAge + hashAge[c]
    BY <1>3 DEF AgesTogether
  <1>5. priceAge'[c] = priceAge[c] + 1
    BY <1>1, <1>2, <1>3, <1>4 DEF Older
  <1> QED  BY <1>1, <1>3, <1>4, <1>5

AgeInv == SignedInv /\ \A c \in Calls : AgesTogether(c)

LEMMA AgeInit == Init => AgeInv
  <1>1. Init => \A c \in Calls : AgesTogether(c)  BY DEF Init, AgesTogether
  <1> QED  BY <1>1, SignedInit DEF AgeInv

LEMMA AgeNext == AgeInv /\ [Next]_vars => AgeInv'
  <1> SUFFICES ASSUME AgeInv, [Next]_vars PROVE AgeInv'  OBVIOUS
  <1>1. SignedInv'  BY SignedNext DEF AgeInv
  <1>2. ASSUME NEW c \in Calls, Step(c) \/ Land(c), NEW d \in Calls
        PROVE  AgesTogether(d)'
    <2>1. CASE d = c  BY <1>2, <2>1, AgesStep DEF AgeInv, SignedInv
    <2>2. CASE d # c
      BY <1>2, <2>2, StepIsLocal, AgesAreLocal
      DEF AgeInv, SignedInv, AgesTogether, CallState, Sponsored
    <2> QED  BY <2>1, <2>2
  <1>3. ASSUME Tick, NEW d \in Calls PROVE AgesTogether(d)'
    BY <1>3, AgesTick DEF AgeInv, SignedInv
  <1>4. ASSUME OpenAccount \/ CloseAccount \/ UNCHANGED vars, NEW d \in Calls
        PROVE  AgesTogether(d)'
    BY <1>4
    DEF OpenAccount, CloseAccount, vars, AgeInv, AgesTogether, Sponsored, costState
  <1>5. \A d \in Calls : AgesTogether(d)'  BY <1>2, <1>3, <1>4 DEF Next
  <1> QED  BY <1>1, <1>5 DEF AgeInv

\* A sponsored trade that lands was priced no longer ago than the price limit
\* and the life of a blockhash together, however slow its signers were.
THEOREM StaleChargeCannotLand == Spec => StaleChargeNeverLands
  <1> DEFINE Bounded == \A c \in Calls :
                 (Sponsored(c) /\ chain[c] = "handed" /\ chain'[c] # "handed") =>
                     priceAge[c] <= MaxPriceAge + BlockhashLife
  <1>1. AgeInv /\ [Next]_vars => [Bounded]_vars
    <2> SUFFICES ASSUME AgeInv, Next, NEW c \in Calls, Sponsored(c),
                        chain[c] = "handed", chain'[c] # "handed"
                 PROVE  priceAge[c] <= MaxPriceAge + BlockhashLife
      OBVIOUS
    <2>0. TypeOK  BY DEF AgeInv, SignedInv
    <2>1. PICK d \in Calls : Step(d) \/ Land(d)
      BY DEF Next, OpenAccount, CloseAccount, Tick
    <2>2. d = c  BY <2>0, <2>1, StepIsLocal DEF CallState
    <2>3. hashAge[c] <= BlockhashLife
      BY <2>0, <2>1, <2>2
      DEF Step, Land, RpcReply, OutsideReply, TypeOK, Begin, Reject, Prepare, SimulateUnits,
          FetchBlockhash, RefuseSigners, SimulateCost, ConfirmCharge, RefuseCharge,
          PriceTimesOut, AcceptPrice, RefusePrice, UserSigns, SponsorSigns, HandOver,
          SubmitAnswers, Fail, Execute, Revert, Landable, HashIsLive
    <2>4. /\ MaxPriceAge \in Nat /\ BlockhashLife \in Nat
          /\ priceAge[c] \in Int /\ hashAge[c] \in Nat
      BY <2>0, AmountAssumption DEF TypeOK
    <2> QED  BY <2>3, <2>4 DEF AgeInv, AgesTogether
  <1> QED  BY <1>1, AgeInit, AgeNext, PTL DEF Spec, StaleChargeNeverLands

-----------------------------------------------------------------------------
(* The compute budget. *)

\* A compiled message opens with a limit and the price computed from it.
BudgetInPlace(c) ==
    msg[c] # << >> =>
        /\ Len(msg[c]) >= 2
        /\ msg[c][1].op = "cu_limit" /\ msg[c][2].op = "cu_price"
        /\ msg[c][1].amt \in Nat \ {0}
        /\ msg[c][2].amt = ComputePrice(msg[c][1].amt)

LEMMA BudgetStep ==
    ASSUME TypeOK, NEW c \in Calls, Step(c) \/ Land(c), BudgetInPlace(c)
    PROVE  BudgetInPlace(c)'
  <1>1. CASE SimulateUnits(c)
    <2>1. PICK u \in Units :
             msg' = [msg EXCEPT ![c] = Compile(swap[c].ixs, ComputeLimit(u), Payer(c))]
      BY <1>1 DEF SimulateUnits
    <2>2. PICK ixs \in Seq(Instruction), limit \in Nat \ {0}, payer \in Addresses :
             ixs = swap[c].ixs /\ limit = ComputeLimit(u) /\ payer = Payer(c)
      BY ComputeLimitType, PayerType DEF Payer, TypeOK, PreparedSwap
    <2>3. msg'[c] = Compile(ixs, limit, payer)  BY <2>1, <2>2 DEF TypeOK
    <2>4. PICK m \in Seq(Instruction) : m = Compile(ixs, limit, payer)
      BY CompiledMessage, Zenon
    <2>5. Len(m) >= Len(ixs) + 2  BY <2>4, CompiledMessage, Zenon
    <2>6. /\ m[1] = Ix("cu_limit", payer, "none", limit)
          /\ m[2] = Ix("cu_price", payer, "none", ComputePrice(limit))
      BY <2>4, CompiledMessage, Zenon
    <2>7. Len(m) >= 2 /\ msg'[c] = m  BY <2>3, <2>4, <2>5
    <2> QED  BY <2>6, <2>7 DEF BudgetInPlace, Ix
  <1>2. CASE AcceptPrice(c)
    <2> DEFINE i == ReimbursementIndex(swap[c])
    <2>1. PICK p \in Rates :
             LET charge == ChargeFor(est[c], p, ServiceFee, LamportsPerSol)
             IN  /\ HoldsReserve(msg[c], i)
                 /\ msg' = [msg EXCEPT ![c] = Replaced(@, i, charge)]
      BY <1>2 DEF AcceptPrice
    <2>2. p \in Nat  BY AmountAssumption
    <2>3. PICK charge \in Int :
             /\ i \in DOMAIN msg[c] /\ msg[c][i].op = "usdc_transfer"
             /\ msg'[c] = Replaced(msg[c], i, charge)
      BY <2>1, <2>2, ChargeType DEF HoldsReserve, TypeOK
    <2>4. msg[c] \in Seq(Instruction) /\ msg[c] # << >>
      BY <2>3 DEF TypeOK
    <2>5. i # 1 /\ i # 2  BY <2>3, <2>4 DEF BudgetInPlace
    <2>6. /\ msg'[c] \in Seq(Instruction) /\ Len(msg'[c]) = Len(msg[c])
          /\ \A j \in DOMAIN msg[c] : j # i => msg'[c][j] = msg[c][j]
      BY <2>3, <2>4, ReplacedMessage
    <2>7. 1 \in DOMAIN msg[c] /\ 2 \in DOMAIN msg[c]
      BY <2>4 DEF BudgetInPlace
    <2>8. msg'[c][1] = msg[c][1] /\ msg'[c][2] = msg[c][2]
      BY <2>5, <2>6, <2>7
    <2> HIDE DEF i
    <2> QED  BY <2>4, <2>6, <2>8 DEF BudgetInPlace
  <1>3. CASE UNCHANGED msg
    BY <1>3 DEF BudgetInPlace
  <1>4. SimulateUnits(c) \/ AcceptPrice(c) \/ UNCHANGED msg
    BY DEF Step, Land, RpcReply, OutsideReply, Begin, Reject, Prepare, FetchBlockhash,
           RefuseSigners, SimulateCost, ConfirmCharge, RefuseCharge, PriceTimesOut,
           RefusePrice, UserSigns, SponsorSigns, SubmitAnswers, Fail, Execute, Revert
  <1> QED  BY <1>1, <1>2, <1>3, <1>4

LEMMA BudgetFrame ==
    ASSUME NEW d \in Calls, BudgetInPlace(d), UNCHANGED CallState(d)
    PROVE  BudgetInPlace(d)'
  BY DEF BudgetInPlace, CallState

\* The network never takes a priority fee above the one requested, whatever
\* the unit estimate was and however the price was rounded.
THEOREM PriorityFeeBounded == Spec => []PriorityFeeWithinRequest
  <1> DEFINE Inv == \A c \in Calls : BudgetInPlace(c)
  <1>1. Init => Inv  BY DEF Init, BudgetInPlace
  <1>2. TypeOK /\ Inv /\ [Next]_vars => Inv'
    <2> SUFFICES ASSUME TypeOK, Inv, [Next]_vars, NEW d \in Calls
                 PROVE  BudgetInPlace(d)'
      OBVIOUS
    <2>1. CASE \E c \in Calls : Step(c) \/ Land(c)
      <3>1. PICK c \in Calls : Step(c) \/ Land(c)  BY <2>1
      <3>2. CASE d = c  BY <3>1, <3>2, BudgetStep
      <3>3. CASE d # c  BY <3>1, <3>3, StepIsLocal, BudgetFrame
      <3> QED  BY <3>2, <3>3
    <2>2. CASE OpenAccount \/ CloseAccount \/ Tick \/ UNCHANGED vars
      BY <2>2, WorldIsLocal, BudgetFrame
    <2> QED  BY <2>1, <2>2 DEF Next
  <1>3. TypeOK /\ Inv => PriorityFeeWithinRequest
    <2> SUFFICES ASSUME TypeOK, Inv, NEW c \in Calls, msg[c] # << >>
                 PROVE  NetworkFee(msg[c]) <= BaseFee + PriorityFee
      BY DEF PriorityFeeWithinRequest
    <2>1. PICK limit \in Nat \ {0} :
             limit = msg[c][1].amt /\ msg[c][2].amt = ComputePrice(limit)
      BY DEF BudgetInPlace
    <2>2. PriorityFee \in Nat /\ BaseFee \in Nat  BY AmountAssumption
    <2>3. PICK whole \in Nat : whole = PriorityFee * MicroLamports
      BY <2>2 DEF MicroLamports
    <2>4. PICK part \in Nat : part = limit * (whole \div limit) /\ part <= whole
      BY FloorDivWithin
    <2>5. NetworkFee(msg[c]) = BaseFee + CeilDiv(part, MicroLamports)
      BY <2>1, <2>3, <2>4 DEF NetworkFee, ComputePrice
    <2>6. CeilDiv(part, MicroLamports) <= PriorityFee
      BY <2>2, <2>3, <2>4 DEF CeilDiv, MicroLamports
    <2>7. CeilDiv(part, MicroLamports) \in Int  BY DEF CeilDiv, MicroLamports
    <2> QED  BY <2>2, <2>5, <2>6, <2>7
  <1> QED  BY <1>1, <1>2, <1>3, TypeCorrect, PTL DEF Spec

-----------------------------------------------------------------------------
(* The reimbursement. *)

LEMMA DebitMonotone ==
    ASSUME NEW m \in Seq(Instruction), Len(m) >= 2, NEW before, NEW after,
           before \subseteq after
    PROVE  Debit(m, after) <= Debit(m, before)
  <1>1. Opened(m, after) \subseteq Opened(m, before) /\ Opened(m, before) \subseteq Accounts
    BY DEF Opened
  <1>2. IsFiniteSet(Opened(m, before))  BY <1>1, InputAssumption, FS_Subset
  <1>3. PICK a \in Nat, b \in Nat :
           /\ a = Cardinality(Opened(m, after)) /\ b = Cardinality(Opened(m, before))
           /\ a <= b
    BY <1>1, <1>2, FS_Subset, FS_CardinalityType
  <1>4. Rent \in Nat /\ Tip \in Nat  BY AmountAssumption
  <1>5. NetworkFee(m) \in Int  BY NetworkFeeType
  <1>6. Rent * a <= Rent * b /\ Rent * a \in Int /\ Rent * b \in Int  BY <1>3, <1>4
  <1>7. Debit(m, after) = NetworkFee(m) + Tip + Rent * a  BY <1>3 DEF Debit
  <1>8. Debit(m, before) = NetworkFee(m) + Tip + Rent * b  BY <1>3 DEF Debit
  <1> QED  BY <1>4, <1>5, <1>6, <1>7, <1>8

AuthorisedStages == {"user_sign", "sponsor_sign", "submit"}

\* Unless an account was closed, the transaction of an authorised charge can
\* cost the sponsor no more than the charge was computed from.
CostBounded(c) ==
    (Sponsored(c) /\ ~closed[c]) =>
        /\ (stage[c] \in AuthorisedStages \/ chain[c] # "held") /\ chain[c] \in {"held", "handed"}
              => Debit(msg[c], accounts) <= est[c]
        /\ chain[c] = "executed" => paid[c] <= est[c]

LEMMA CostStep ==
    ASSUME TypeOK, MessageBuilt, NEW c \in Calls, Step(c) \/ Land(c),
           SignaturesInOrder(c), CostBounded(c)
    PROVE  CostBounded(c)'
  <1> USE DEF CostBounded, AuthorisedStages, TypeOK, Stages, Sponsored, costState, ledger
  <1>h. stage[c] \in UnsignedStages => chain[c] = "held"  BY DEF SignaturesInOrder
  <1>s. stage[c] = "sponsor_sign" => chain[c] = "held"  BY DEF SignaturesInOrder
  <1>1. CASE Begin(c) \/ Reject(c)
    BY <1>1, <1>h DEF Begin, Reject, UnsignedStages
  <1>2. CASE Prepare(c)  BY <1>2, <1>h DEF Prepare, UnsignedStages
  <1>3. CASE SimulateUnits(c)  BY <1>3, <1>h DEF SimulateUnits, UnsignedStages
  <1>4. CASE FetchBlockhash(c) \/ RefuseSigners(c)
    BY <1>4, <1>h DEF FetchBlockhash, RefuseSigners, StageAfterCompile, UnsignedStages
  <1>5. CASE SimulateCost(c)  BY <1>5, <1>h DEF SimulateCost, UnsignedStages
  <1>6. CASE AcceptPrice(c)  BY <1>6, <1>h DEF AcceptPrice, UnsignedStages
  <1>7. CASE RefusePrice(c) \/ PriceTimesOut(c)
    BY <1>7, <1>h DEF RefusePrice, PriceTimesOut, UnsignedStages
  <1>8. CASE ConfirmCharge(c)
    <2>1. Debit(msg[c], accounts) = est[c]
      BY <1>8 DEF ConfirmCharge, ChargeStillHolds, SameCost
    <2>2. /\ msg' = msg /\ est' = est /\ accounts' = accounts /\ chain' = chain
          /\ stage[c] = "recheck" /\ tr' = tr
      BY <1>8 DEF ConfirmCharge
    <2>3. Debit(msg'[c], accounts') = est'[c]  BY <2>1, <2>2
    <2>4. chain'[c] = "held" /\ est'[c] \in Int  BY <2>2, <1>h DEF UnsignedStages
    <2> QED  BY <2>3, <2>4
  <1>9. CASE RefuseCharge(c)  BY <1>9, <1>h DEF RefuseCharge, UnsignedStages
  <1>10. CASE UserSigns(c)
    <2>1. /\ stage[c] = "user_sign" /\ chain[c] = "held"
          /\ tr' = tr /\ msg' = msg /\ est' = est /\ accounts' = accounts /\ closed' = closed
          /\ chain'[c] \in {"held", "handed"}
      BY <1>10, <1>h DEF UserSigns, HandOver, UnsignedStages
    <2> QED  BY <2>1
  <1>11. CASE SponsorSigns(c)
    <2>1. /\ stage[c] = "sponsor_sign" /\ chain[c] = "held"
          /\ tr' = tr /\ msg' = msg /\ est' = est /\ accounts' = accounts /\ closed' = closed
          /\ chain'[c] = "handed"
      BY <1>11, <1>s DEF SponsorSigns, HandOver
    <2> QED  BY <2>1
  <1>12. CASE SubmitAnswers(c) \/ Fail(c)
    <2>1. /\ tr' = tr /\ msg' = msg /\ est' = est /\ accounts' = accounts /\ closed' = closed
          /\ chain' = chain /\ paid' = paid /\ stage'[c] = "done"
      BY <1>12 DEF SubmitAnswers, Fail
    <2> QED  BY <2>1
  <1>13. CASE Execute(c)
    <2>1. /\ chain[c] = "handed" /\ chain'[c] = "executed"
          /\ paid'[c] = Debit(msg[c], accounts)
          /\ tr' = tr /\ est' = est /\ closed' = closed
      BY <1>13 DEF Execute, Landable
    <2> QED  BY <2>1
  <1>14. CASE Revert(c)
    <2>1. chain'[c] = "reverted"  BY <1>14 DEF Revert
    <2> QED  BY <2>1
  <1> QED
    BY <1>1, <1>2, <1>3, <1>4, <1>5, <1>6, <1>7, <1>8, <1>9, <1>10, <1>11, <1>12,
       <1>13, <1>14
    DEF Step, RpcReply, OutsideReply, Land

\* Accounts that others open can only make a transaction cheaper.
LEMMA CostFrame ==
    ASSUME TypeOK, MessageBuilt, NEW d \in Calls, CostBounded(d), UNCHANGED CallState(d),
           SignaturesInOrder(d), closed'[d] = FALSE => ~closed[d] /\ accounts \subseteq accounts'
    PROVE  CostBounded(d)'
  <1>1. CASE closed'[d]
    BY <1>1 DEF CostBounded
  <1>2. CASE ~closed'[d] /\ (stage[d] \in AuthorisedStages \/ chain[d] # "held")
    <2>1. ~closed[d] /\ accounts \subseteq accounts'  BY <1>2 DEF TypeOK
    <2>2. msg[d] \in Seq(Instruction) /\ Len(msg[d]) >= 2
      BY <1>2 DEF TypeOK, MessageBuilt, AuthorisedStages, BuiltStages
    <2>3. /\ Debit(msg[d], accounts') <= Debit(msg[d], accounts)
          /\ Debit(msg[d], accounts') \in Int /\ Debit(msg[d], accounts) \in Int
          /\ est[d] \in Int
      BY <2>1, <2>2, DebitMonotone, DebitType DEF TypeOK
    <2> QED  BY <2>1, <2>3 DEF CostBounded, CallState, Sponsored
  <1>3. CASE ~closed'[d] /\ stage[d] \notin AuthorisedStages /\ chain[d] = "held"
    BY <1>3 DEF CostBounded, CallState
  <1> QED  BY <1>1, <1>2, <1>3

CostInv == ChargeInv /\ \A c \in Calls : CostBounded(c)

LEMMA CostInit == Init => CostInv
  <1>1. Init => \A c \in Calls : CostBounded(c)
    BY DEF Init, CostBounded, AuthorisedStages
  <1> QED  BY <1>1, ChargeInit DEF CostInv

LEMMA CostNext == CostInv /\ [Next]_vars => CostInv'
  <1> SUFFICES ASSUME CostInv, [Next]_vars PROVE CostInv'  OBVIOUS
  <1>1. ChargeInv' /\ TypeOK'  BY ChargeNext DEF CostInv, ChargeInv, SignedInv
  <1>2. TypeOK /\ MessageBuilt /\ \A c \in Calls : SignaturesInOrder(c) /\ CostBounded(c)
    BY DEF CostInv, ChargeInv, SignedInv
  <1>3. ASSUME NEW c \in Calls, Step(c) \/ Land(c), NEW d \in Calls
        PROVE  CostBounded(d)'
    <2>1. CASE d = c  BY <1>2, <1>3, <2>1, CostStep
    <2>2. CASE d # c
      <3>1. closed'[d] = closed[d] /\ accounts \subseteq accounts'
        BY <1>2, <1>3, <2>2
        DEF Step, RpcReply, OutsideReply, Land, Begin, Reject, Prepare, SimulateUnits,
            FetchBlockhash, RefuseSigners, SimulateCost, AcceptPrice, RefusePrice,
            PriceTimesOut, ConfirmCharge, RefuseCharge, UserSigns, SponsorSigns,
            SubmitAnswers, Fail, Execute, Revert, TypeOK, costState, ledger
      <3> QED  BY <1>2, <1>3, <2>2, <3>1, StepIsLocal, CostFrame DEF TypeOK
    <2> QED  BY <2>1, <2>2
  <1>4. ASSUME OpenAccount \/ CloseAccount \/ Tick \/ UNCHANGED vars, NEW d \in Calls
        PROVE  CostBounded(d)'
    <2>1. closed'[d] = FALSE => ~closed[d] /\ accounts \subseteq accounts'
      BY <1>2, <1>4 DEF OpenAccount, CloseAccount, Tick, vars, TypeOK, ledger
    <2>2. UNCHANGED CallState(d)  BY <1>2, <1>4, WorldIsLocal
    <2>3. closed'[d] \in BOOLEAN  BY <1>1 DEF TypeOK
    <2> QED  BY <1>2, <2>1, <2>2, <2>3, CostFrame
  <1>5. \A d \in Calls : CostBounded(d)'
    BY <1>3, <1>4 DEF Next
  <1> QED  BY <1>1, <1>5 DEF CostInv

\* An executed sponsored trade repays the sponsor what it paid, at the accepted
\* price, plus the service fee, and stays within its cap, unless a token
\* account was closed after the last cost check.
THEOREM SponsorIsRepaid == Spec => []ReimbursementCoversCost
  <1>1. CostInv => ReimbursementCoversCost
    <2> SUFFICES ASSUME CostInv, NEW c \in Calls,
                        Sponsored(c), chain[c] = "executed", ~closed[c]
                 PROVE  LET charge == msg[c][ReimbursementIndex(swap[c])].amt
                        IN  /\ (charge - ServiceFee) * LamportsPerSol >= paid[c] * rate[c]
                            /\ paid[c] <= MaxCost
      BY DEF ReimbursementCoversCost
    <2>1. TypeOK /\ MessageBuilt /\ SignaturesInOrder(c) /\ ChargeInPlace(c) /\ CostBounded(c)
      BY DEF CostInv, ChargeInv, SignedInv
    <2>2. PICK cost \in Int, price \in Nat, spent \in Int :
             cost = est[c] /\ price = rate[c] /\ spent = paid[c]
      BY <2>1 DEF TypeOK
    <2>3. sigs[c] # {}
      <3>1. msg[c] \in Seq(Instruction)  BY <2>1 DEF TypeOK
      <3>2. Len(msg[c]) >= 2  BY <2>1 DEF MessageBuilt
      <3>3. 1 \in DOMAIN msg[c]  BY <3>1, <3>2
      <3>4. msg[c][1].by \in RequiredSigners(msg[c])  BY <3>3 DEF RequiredSigners
      <3> QED  BY <2>1, <3>4 DEF SignaturesInOrder, FullySigned
    <2>4. /\ msg[c][ReimbursementIndex(swap[c])].amt
               = ChargeFor(cost, price, ServiceFee, LamportsPerSol)
          /\ cost <= MaxCost
      BY <2>1, <2>2, <2>3 DEF ChargeInPlace, Transfer, Priced, Ix
    <2>5. spent <= cost  BY <2>1, <2>2 DEF CostBounded
    <2>6. PICK lps \in Nat \ {0}, service \in Nat, cap \in Nat :
             lps = LamportsPerSol /\ service = ServiceFee /\ cap = MaxCost
      BY AmountAssumption
    <2>7. PICK due \in Int : due = cost * price  OBVIOUS
    <2>8. PICK part \in Int : part = CeilDiv(due, lps) /\ part * lps >= due
      BY CeilDivCovers
    <2>9. ChargeFor(cost, price, service, lps) - service = part
      BY <2>7, <2>8 DEF ChargeFor
    <2>10. spent * price <= cost * price
      <3>1. PICK gap \in Nat : gap = cost - spent  BY <2>5
      <3>2. cost * price = spent * price + gap * price  BY <3>1
      <3> QED  BY <3>2
    <2>11. part * lps >= spent * price  BY <2>7, <2>8, <2>10
    <2> QED  BY <2>2, <2>4, <2>5, <2>6, <2>9, <2>11
  <1> QED  BY <1>1, CostInit, CostNext, PTL DEF Spec

-----------------------------------------------------------------------------
(* What a message moves. *)

Amounts(m, ops) == [i \in 1..Len(m) |-> IF m[i].op \in ops THEN m[i].amt ELSE 0]

LEMMA AmountsType ==
    ASSUME NEW m \in Seq(Instruction), NEW ops
    PROVE  /\ Amounts(m, ops) \in Seq(Int)
           /\ Len(Amounts(m, ops)) = Len(m)
           /\ Moved(m, ops) = SumOf(Amounts(m, ops))
           /\ Moved(m, ops) \in Int
  <1>1. \A i \in 1..Len(m) : m[i].amt \in Int
    <2>1. \A i \in 1..Len(m) : m[i] \in Instruction  OBVIOUS
    <2> QED  BY <2>1 DEF Instruction
  <1>2. Len(m) \in Nat  OBVIOUS
  <1>3. Amounts(m, ops) \in Seq(Int) /\ Len(Amounts(m, ops)) = Len(m)
    BY <1>1, <1>2 DEF Amounts
  <1>4. Moved(m, ops) = SumOf(Amounts(m, ops))  BY DEF Moved, Amounts
  <1> QED  BY <1>3, <1>4, SumType

\* What one instruction adds to it.
Share(ix, ops) == IF ix.op \in ops THEN ix.amt ELSE 0

LEMMA ShareType ==
    ASSUME NEW ix \in Instruction, NEW ops
    PROVE  Share(ix, ops) \in Int
  BY DEF Share, Instruction

LEMMA MovedAppend ==
    ASSUME NEW m \in Seq(Instruction), NEW ix \in Instruction, NEW ops
    PROVE  Moved(Append(m, ix), ops) = Moved(m, ops) + Share(ix, ops)
  <1>1. Append(m, ix) \in Seq(Instruction)  OBVIOUS
  <1>2. Share(ix, ops) \in Int  BY ShareType
  <1>3. Amounts(Append(m, ix), ops) = Append(Amounts(m, ops), Share(ix, ops))
    <2> DEFINE x == Share(ix, ops)
               n == Append(m, ix)
    <2>1. /\ Len(n) = Len(m) + 1 /\ n[Len(m) + 1] = ix /\ Len(m) \in Nat
          /\ \A i \in 1..Len(m) : n[i] = m[i]
      OBVIOUS
    <2>2. Amounts(n, ops)[Len(m) + 1] = x /\ \A i \in 1..Len(m) : Amounts(n, ops)[i] = Amounts(m, ops)[i]
      <3> HIDE DEF n
      <3> QED  BY <2>1 DEF Amounts, Share
    <2>3. Amounts(n, ops) \in Seq(Int) /\ Amounts(m, ops) \in Seq(Int)
          /\ Len(Amounts(n, ops)) = Len(m) + 1 /\ Len(Amounts(m, ops)) = Len(m)
      BY <1>1, <2>1, AmountsType
    <2> HIDE DEF n, x
    <2>4. x \in Int  BY <1>2 DEF x
    <2> DEFINE p == Amounts(m, ops)
               q == Amounts(n, ops)
    <2>5. q = Append(p, x)
      <3> HIDE DEF p, q
      <3>1. q \in Seq(Int) /\ p \in Seq(Int) /\ Len(q) = Len(p) + 1
            /\ q[Len(p) + 1] = x /\ \A i \in 1..Len(p) : q[i] = p[i]
        BY <2>2, <2>3 DEF p, q
      <3> QED  BY <2>4, <3>1
    <2> QED  BY <2>5 DEF n, x
  <1> QED  BY <1>1, <1>2, <1>3, AmountsType, SumAppend

LEMMA MovedConcat ==
    ASSUME NEW m \in Seq(Instruction), NEW n \in Seq(Instruction), NEW ops
    PROVE  Moved(m \o n, ops) = Moved(m, ops) + Moved(n, ops)
  <1>1. m \o n \in Seq(Instruction)  OBVIOUS
  <1>2. Amounts(m \o n, ops) = Amounts(m, ops) \o Amounts(n, ops)
    <2> DEFINE c == m \o n
    <2>1. /\ Len(c) = Len(m) + Len(n) /\ Len(m) \in Nat /\ Len(n) \in Nat
          /\ \A i \in 1..Len(m) : c[i] = m[i]
          /\ \A i \in 1..Len(n) : c[Len(m) + i] = n[i]
      OBVIOUS
    <2> DEFINE p == Amounts(m, ops)
               q == Amounts(n, ops)
               r == Amounts(c, ops)
    <2>2. /\ \A i \in 1..Len(m) : r[i] = p[i]
          /\ \A i \in 1..Len(n) : r[Len(m) + i] = q[i]
      <3> HIDE DEF c
      <3> QED  BY <2>1 DEF Amounts
    <2>3. /\ p \in Seq(Int) /\ q \in Seq(Int) /\ r \in Seq(Int)
          /\ Len(p) = Len(m) /\ Len(q) = Len(n) /\ Len(r) = Len(p) + Len(q)
      BY <1>1, <2>1, AmountsType
    <2> HIDE DEF c, p, q, r
    <2>4. /\ \A i \in 1..Len(p) : r[i] = p[i]
          /\ \A i \in 1..Len(q) : r[Len(p) + i] = q[i]
      BY <2>2, <2>3
    <2>5. r = p \o q  BY <2>3, <2>4, IsConcat
    <2> QED  BY <2>5 DEF c, p, q, r
  <1> QED  BY <1>1, <1>2, AmountsType, SumConcat

LEMMA MovedNone ==
    ASSUME NEW m \in Seq(Instruction), NEW ops, \A i \in DOMAIN m : m[i].op \notin ops
    PROVE  Moved(m, ops) = 0
  <1>1. \A i \in 1..Len(m) : Amounts(m, ops)[i] = 0  BY DEF Amounts
  <1> QED  BY <1>1, AmountsType, SumOfZeros

LEMMA MovedReplaced ==
    ASSUME NEW m \in Seq(Instruction), NEW i \in DOMAIN m, NEW charge \in Int, NEW ops
    PROVE  Moved(Replaced(m, i, charge), ops) =
              IF m[i].op \in ops THEN Moved(m, ops) + charge - m[i].amt ELSE Moved(m, ops)
  <1> DEFINE r == Replaced(m, i, charge)
             p == Amounts(m, ops)
             q == Amounts(r, ops)
             x == IF m[i].op \in ops THEN charge ELSE 0
  <1>1. /\ r \in Seq(Instruction) /\ Len(r) = Len(m)
        /\ r[i] = Ix(m[i].op, m[i].by, m[i].to, charge)
        /\ \A j \in DOMAIN m : j # i => r[j] = m[j]
    BY ReplacedMessage
  <1> HIDE DEF r
  <1>2. i \in 1..Len(m) /\ Len(m) \in Nat  OBVIOUS
  <1>3. q[i] = x /\ \A j \in 1..Len(m) : j # i => q[j] = p[j]
    BY <1>1, <1>2 DEF Amounts, Ix
  <1>4. p[i] = IF m[i].op \in ops THEN m[i].amt ELSE 0
    BY <1>2 DEF Amounts
  <1>5. p \in Seq(Int) /\ q \in Seq(Int) /\ Len(p) = Len(m) /\ Len(q) = Len(m)
        /\ Moved(m, ops) = SumOf(p) /\ Moved(r, ops) = SumOf(q) /\ Moved(m, ops) \in Int
    BY <1>1, AmountsType
  <1>6. x \in Int  OBVIOUS
  <1>7. m[i].amt \in Int
    <2>1. m[i] \in Instruction  BY <1>2
    <2> QED  BY <2>1 DEF Instruction
  <1>8. q = [p EXCEPT ![i] = x]
    <2> HIDE DEF p, q, x
    <2> QED  BY <1>2, <1>3, <1>5, <1>6
  <1>9. SumOf(q) = SumOf(p) + x - p[i]
    <2> HIDE DEF p, q, x
    <2> QED  BY <1>2, <1>5, <1>6, <1>8, SumReplace
  <1> HIDE DEF p, q
  <1> QED  BY <1>4, <1>5, <1>6, <1>7, <1>9 DEF r
-----------------------------------------------------------------------------
(* What a prepared swap moves. *)

Reserved(t) == IF SponsorFor(Client, t) THEN Client.ceiling ELSE 0

\* The swap takes or pays what the trade routed to its venue says, and its fee
\* transfers move `fees', by which a sale's minimum is already reduced.
Balanced(t, s, fees) ==
    /\ Moved(s.ixs, FeeOps) = fees
    /\ t.side = "Buy" => Moved(s.ixs, {"swap_in"}) = RouteTrade(Client, t).amount
    /\ t.side = "Sell" => Moved(s.ixs, {"swap_out"}) - fees = s.min_out

LEMMA RawMoves ==
    ASSUME NEW t \in Trades, NEW o \in Outputs, NEW setup \in Setups
    PROVE  Balanced(t, RawSwap(t, o, setup), 0)
  <1> DEFINE raw == RawSwap(t, o, setup)
             in == Ix("swap_in", t.wallet, "venue", RouteTrade(Client, t).amount)
             out == Ix("swap_out", t.wallet, "venue", o.min)
  <1>1. setup \in Seq(Instruction) /\ o.min \in Int /\ "venue" \in Addresses
    BY InputAssumption
  <1>2. in \in Instruction /\ out \in Instruction
    BY <1>1, RoutedAmountType, TradeFields DEF Ix, Instruction, Ops
  <1>3. \A ops \in {FeeOps, {"swap_in"}, {"swap_out"}} : Moved(setup, ops) = 0
    <2> TAKE ops \in {FeeOps, {"swap_in"}, {"swap_out"}}
    <2>1. ops \subseteq FeeOps \cup TradeOps  BY DEF TradeOps
    <2>2. \A i \in DOMAIN setup : setup[i].op \notin ops
      BY <2>1, InputAssumption
    <2> QED  BY <1>1, <2>2, MovedNone
  <1>4. raw.ixs = Append(setup, IF t.side = "Buy" THEN in ELSE out) /\ raw.min_out = o.min
    BY DEF RawSwap
  <1>5. /\ Share(in, FeeOps) = 0 /\ Share(in, {"swap_in"}) = RouteTrade(Client, t).amount
        /\ Share(out, FeeOps) = 0 /\ Share(out, {"swap_out"}) = o.min
    BY DEF Share, Ix, FeeOps
  <1> HIDE DEF in, out, raw
  <1>6. CASE t.side = "Buy"
    <2>1. \A ops : Moved(raw.ixs, ops) = Moved(setup, ops) + Share(in, ops)
      BY <1>1, <1>2, <1>4, <1>6, MovedAppend
    <2>2. RouteTrade(Client, t).amount \in Int  BY RoutedAmountType
    <2> QED  BY <1>3, <1>5, <1>6, <2>1, <2>2 DEF Balanced, raw
  <1>7. CASE t.side = "Sell"
    <2>1. \A ops : Moved(raw.ixs, ops) = Moved(setup, ops) + Share(out, ops)
      BY <1>1, <1>2, <1>4, <1>7, MovedAppend
    <2> QED  BY <1>1, <1>3, <1>4, <1>5, <1>7, <2>1 DEF Balanced, raw
  <1> QED  BY <1>6, <1>7, TradeFields

LEMMA UsdcFeeMoves ==
    ASSUME NEW ixs \in Seq(Instruction), NEW payer \in Addresses, NEW wallet \in Addresses,
           NEW to \in Addresses, NEW amt \in Int
    PROVE  LET r == AppendUsdcFee(ixs, payer, wallet, to, amt)
           IN  /\ Moved(r, FeeOps) = Moved(ixs, FeeOps) + amt
               /\ \A op \in TradeOps : Moved(r, {op}) = Moved(ixs, {op})
  <1> DEFINE a == Ix("create_ata", payer, to, 0)
             b == Ix("usdc_transfer", wallet, to, amt)
             r == AppendUsdcFee(ixs, payer, wallet, to, amt)
  <1>1. a \in Instruction /\ b \in Instruction  BY DEF Ix, Instruction, Ops
  <1>2. r = Append(Append(ixs, a), b)
    <2>1. r = ixs \o << a, b >>  BY DEF AppendUsdcFee
    <2> HIDE DEF a, b, r
    <2> QED  BY <1>1, <2>1
  <1>3. /\ Share(a, FeeOps) = 0 /\ Share(b, FeeOps) = amt
        /\ \A op \in TradeOps : Share(a, {op}) = 0 /\ Share(b, {op}) = 0
    BY DEF Share, Ix, FeeOps, TradeOps
  <1> HIDE DEF a, b, r
  <1>4. Append(ixs, a) \in Seq(Instruction)  BY <1>1
  <1>5. \A ops : Moved(r, ops) = Moved(ixs, ops) + Share(a, ops) + Share(b, ops)
    BY <1>1, <1>2, <1>4, MovedAppend
  <1>6. \A ops : Moved(ixs, ops) \in Int  BY AmountsType
  <1> QED  BY <1>3, <1>5, <1>6 DEF r

LEMMA FeeInstructionsMove ==
    ASSUME NEW t \in Trades, NEW ixs \in Seq(Instruction), NEW fee \in Nat,
           NEW payer \in Addresses
    PROVE  LET r == FeeInstructions(Client, t, ixs, fee, payer)
           IN  /\ Moved(r, FeeOps) = Moved(ixs, FeeOps) + fee
               /\ \A op \in TradeOps : Moved(r, {op}) = Moved(ixs, {op})
  <1>1. Client.recipient \in Addresses  BY ClientAssumption DEF ClientType
  <1>2. \A ops : Moved(ixs, ops) \in Int  BY AmountsType
  <1>3. CASE fee = 0
    BY <1>2, <1>3 DEF FeeInstructions
  <1>4. CASE fee > 0 /\ t.settlement = "Sol"
    <2> DEFINE b == Ix("sol_transfer", t.wallet, Client.recipient, fee)
    <2>1. b \in Instruction  BY <1>1, TradeFields DEF Ix, Instruction, Ops
    <2>2. Share(b, FeeOps) = fee /\ \A op \in TradeOps : Share(b, {op}) = 0
      BY DEF Share, Ix, FeeOps, TradeOps
    <2>3. FeeInstructions(Client, t, ixs, fee, payer) = Append(ixs, b)
      BY <1>4 DEF FeeInstructions
    <2> HIDE DEF b
    <2> QED  BY <1>2, <2>1, <2>2, <2>3, MovedAppend
  <1>5. CASE fee > 0 /\ t.settlement = "Usdc"
    <2>1. FeeInstructions(Client, t, ixs, fee, payer)
             = AppendUsdcFee(ixs, payer, t.wallet, Client.recipient, fee)
      BY <1>5 DEF FeeInstructions
    <2>2. t.wallet \in Addresses /\ fee \in Int  BY TradeFields
    <2> QED  BY <1>1, <2>1, <2>2, UsdcFeeMoves
  <1> QED  BY <1>3, <1>4, <1>5, TradeFields

\* The fee an SDK client charges is moved by the swap's own instructions, and
\* a sale's minimum falls by it.
LEMMA SdkChargedMoves ==
    ASSUME NEW t \in Trades, NEW s \in PreparedSwap, NEW payer \in Addresses,
           CanApplySdkFee(Client, t, s), Balanced(t, s, 0), s.application_fee = 0
    PROVE  LET r == ApplySdkFee(Client, t, s, payer)
           IN  /\ Balanced(t, r, r.application_fee)
               /\ r.application_fee \in Nat
               /\ r.sponsorship_fee = s.sponsorship_fee
               /\ t.side = "Buy" => r.application_fee = FeeAmount(Client, t.amount)
  <1>1. CASE ~Client.sdk
    BY <1>1 DEF ApplySdkFee, FeeAmount
  <1>2. CASE Client.sdk
    <2> DEFINE q == QuoteAfterFee(Client, t, s)
               fee == FeeAmount(Client, FeeBasis(t, s))
               cut == IF t.side = "Sell" THEN fee ELSE 0
               ixs == FeeInstructions(Client, t, s.ixs, fee, payer)
               r == ApplySdkFee(Client, t, s, payer)
    <2>1. CanQuoteAfterFee(Client, t, s)  BY <1>2 DEF CanApplySdkFee
    <2>2. FeeBasis(t, s) \in Nat
      BY <2>1, TradeFields DEF FeeBasis, CanQuoteAfterFee, PreparedSwap
    <2>3. fee \in Nat  BY <2>2, FeeAmountWithin
    <2>4. s.ixs \in Seq(Instruction) /\ s.min_out \in Int  BY DEF PreparedSwap
    <2>5. /\ Moved(ixs, FeeOps) = Moved(s.ixs, FeeOps) + fee
          /\ \A op \in TradeOps : Moved(ixs, {op}) = Moved(s.ixs, {op})
      BY <2>3, <2>4, FeeInstructionsMove
    <2>6. q.application_fee = fee  BY QuoteAfterFeeType
    <2>7. q.min_out = s.min_out - cut /\ q.sponsorship_fee = s.sponsorship_fee
      BY DEF QuoteAfterFee, PreparedSwap
    <2>8. q \in PreparedSwap  BY QuoteAfterFeeType
    <2>9. r = [q EXCEPT !.ixs = FeeInstructions(Client, t, s.ixs, q.application_fee, payer)]
      BY <1>2 DEF ApplySdkFee
    <2>10. t.side = "Buy" => fee = FeeAmount(Client, t.amount)  BY DEF FeeBasis
    <2>11. \A ops : Moved(s.ixs, ops) \in Int  BY <2>4, AmountsType
    <2> HIDE DEF q, fee, ixs
    <2>12. r = [q EXCEPT !.ixs = ixs]  BY <2>6, <2>9 DEF ixs
    <2>13. /\ r.ixs = ixs /\ r.min_out = s.min_out - cut
           /\ r.application_fee = fee /\ r.sponsorship_fee = s.sponsorship_fee
      <3> HIDE DEF r, cut
      <3> QED  BY <2>6, <2>7, <2>8, <2>12 DEF PreparedSwap
    <2> HIDE DEF r
    <2>14. Balanced(t, r, fee)
      BY <2>3, <2>4, <2>5, <2>11, <2>13 DEF Balanced, TradeOps
    <2> QED  BY <2>3, <2>10, <2>13, <2>14 DEF r
  <1> QED  BY <1>1, <1>2, ClientAssumption DEF ClientType

LEMMA SponsorshipMoves ==
    ASSUME NEW t \in Trades, NEW s \in PreparedSwap, NEW fees \in Int, Balanced(t, s, fees)
    PROVE  LET r == ApplySponsorship(Client, t, s)
           IN  /\ Balanced(t, r, fees + Client.ceiling)
               /\ r.application_fee = s.application_fee
               /\ r.sponsorship_fee = Client.ceiling
  <1> DEFINE ixs == AppendUsdcFee(s.ixs, Client.payer, t.wallet, Client.collector, Client.ceiling)
             cut == IF t.side = "Sell" THEN Client.ceiling ELSE 0
             r == ApplySponsorship(Client, t, s)
  <1>1. /\ Client.payer \in Addresses /\ Client.collector \in Addresses
        /\ Client.ceiling \in Int
    BY ClientAssumption DEF ClientType
  <1>2. s.ixs \in Seq(Instruction) /\ t.wallet \in Addresses /\ s.min_out \in Int
    BY TradeFields DEF PreparedSwap
  <1>3. /\ Moved(ixs, FeeOps) = Moved(s.ixs, FeeOps) + Client.ceiling
        /\ \A op \in TradeOps : Moved(ixs, {op}) = Moved(s.ixs, {op})
    BY <1>1, <1>2, UsdcFeeMoves
  <1>4. /\ r.ixs = ixs /\ r.min_out = s.min_out - cut
        /\ r.application_fee = s.application_fee /\ r.sponsorship_fee = Client.ceiling
    <2>1. r = [s EXCEPT !.in_amount = t.amount, !.expected_out = s.expected_out - cut,
                        !.min_out = s.min_out - cut,
                        !.sponsorship_fee = Client.ceiling, !.ixs = ixs]
      BY DEF ApplySponsorship, PreparedSwap
    <2> HIDE DEF r, ixs, cut
    <2> QED  BY <2>1 DEF PreparedSwap
  <1>5. \A ops : Moved(s.ixs, ops) \in Int  BY <1>2, AmountsType
  <1> HIDE DEF r, ixs
  <1>6. Balanced(t, r, fees + Client.ceiling)
    BY <1>1, <1>2, <1>3, <1>4, <1>5 DEF Balanced, TradeOps
  <1> QED  BY <1>4, <1>6 DEF r

\* What a buy is reduced to and what it is charged make up its amount.
LEMMA RoutedBuy ==
    ASSUME NEW t \in Trades, t.side = "Buy"
    PROVE  RouteTrade(Client, t).amount + FeeAmount(Client, t.amount) + Reserved(t) = t.amount
  <1>1. FeeAmount(Client, t.amount) \in Int  BY TradeFields, FeeAmountType
  <1>2. Client.ceiling \in Int  BY ClientAssumption DEF ClientType
  <1> DEFINE f == FeeAmount(Client, t.amount)
             u == TradeAfterFee(Client, t)
  <1> HIDE DEF f
  <1>3. u = [t EXCEPT !.amount = t.amount - f]
    BY TradeFields DEF TradeAfterFee, TradeType, f
  <1>4. u.amount = t.amount - f /\ u.side = "Buy"  BY <1>3, TradeFields DEF TradeType
  <1>5. ReserveFee(Client, u).amount = t.amount - f - Client.ceiling
    <2>1. ReserveFee(Client, u) = [u EXCEPT !.amount = u.amount - Client.ceiling]
      BY <1>4 DEF ReserveFee
    <2>2. "amount" \in DOMAIN u  BY <1>3, TradeFields DEF TradeType
    <2> QED  BY <1>4, <2>1, <2>2
  <1>6. t.amount \in Int  BY TradeFields
  <1> QED  BY <1>1, <1>2, <1>4, <1>5, <1>6 DEF RouteTrade, Reserved, f

\* A prepared swap's fees are the transfers it carries, and with them it keeps
\* to the amount asked for or to the minimum it quotes.
AddsUp(t, s) ==
    /\ s.application_fee \in Nat
    /\ s.sponsorship_fee = Reserved(t)
    /\ Balanced(t, s, s.application_fee + Reserved(t))
    /\ t.side = "Buy" => s.application_fee = FeeAmount(Client, t.amount)

LEMMA PreparedSwapsAddUp ==
    ASSUME NEW t \in Trades, NEW o \in Outputs, NEW setup \in Setups,
           NEW s \in PreparedSwaps(t, RawSwap(t, o, setup))
    PROVE  AddsUp(t, s)
  <1> DEFINE raw == RawSwap(t, o, setup)
  <1>1. /\ raw \in PreparedSwap /\ Balanced(t, raw, 0)
        /\ raw.application_fee = 0 /\ raw.sponsorship_fee = 0
    BY RawSwapType, RawMoves DEF RawSwap
  <1>2. Client.ceiling \in Nat /\ t.wallet \in Addresses
    BY ClientAssumption, TradeFields DEF ClientType
  <1> HIDE DEF raw
  <1>3. CASE s = Charged(Client, t, raw) /\ CanCharge(Client, t, raw)
    <2> DEFINE c == SdkCharged(Client, t, raw)
    <2>1. c \in PreparedSwap
      BY <1>1, <1>3, SdkChargedType, PayerType DEF SdkCharged, CanCharge
    <2>2. /\ Balanced(t, c, c.application_fee) /\ c.application_fee \in Nat
          /\ c.sponsorship_fee = 0
          /\ t.side = "Buy" => c.application_fee = FeeAmount(Client, t.amount)
      BY <1>1, <1>3, SdkChargedMoves, PayerType DEF SdkCharged, CanCharge
    <2> HIDE DEF c
    <2>3. CASE SponsorFor(Client, t)
      <3>1. s = ApplySponsorship(Client, t, c)  BY <1>3, <2>3 DEF Charged, c
      <3>2. /\ Balanced(t, s, c.application_fee + Client.ceiling)
            /\ s.application_fee = c.application_fee /\ s.sponsorship_fee = Client.ceiling
        BY <2>1, <2>2, <3>1, SponsorshipMoves
      <3> QED  BY <2>2, <2>3, <3>2 DEF AddsUp, Reserved
    <2>4. CASE ~SponsorFor(Client, t)
      <3>1. s = c  BY <1>3, <2>4 DEF Charged, c
      <3> QED  BY <2>2, <2>4, <3>1 DEF AddsUp, Reserved
    <2> QED  BY <2>3, <2>4
  <1>4. CASE /\ s = DirectSwap(Client, t, raw)
             /\ ~ComparedByTrade(t)
             /\ CanApplySdkFee(Client, t, raw)
    <2>1. ~SponsorFor(Client, t)  BY <1>4, TradeFields DEF ComparedByTrade, SponsorFor
    <2>2. /\ Balanced(t, s, s.application_fee) /\ s.application_fee \in Nat
          /\ s.sponsorship_fee = 0
          /\ t.side = "Buy" => s.application_fee = FeeAmount(Client, t.amount)
      BY <1>1, <1>2, <1>4, SdkChargedMoves DEF DirectSwap
    <2> QED  BY <2>1, <2>2 DEF AddsUp, Reserved
  <1> QED  BY <1>3, <1>4 DEF PreparedSwaps, raw

-----------------------------------------------------------------------------
(* What a message moves, from its compilation to its landing. *)

LEMMA CompiledMoves ==
    ASSUME NEW ixs \in Seq(Instruction), NEW limit \in Nat \ {0}, NEW payer \in Addresses,
           NEW ops, ops \subseteq FeeOps \cup TradeOps
    PROVE  Moved(Compile(ixs, limit, payer), ops) = Moved(ixs, ops)
  <1> DEFINE x == Ix("cu_limit", payer, "none", limit)
             y == Ix("cu_price", payer, "none", ComputePrice(limit))
             tip == Ix("tip", payer, "tips", Tip)
             tips == TipInstructions(payer)
             head == << x, y >>
  <1>1. PriorityFee * MicroLamports \in Int  BY AmountAssumption DEF MicroLamports
  <1>2. ComputePrice(limit) \in Int  BY <1>1, DivType DEF ComputePrice
  <1>3. x \in Instruction /\ y \in Instruction
    BY <1>2, InputAssumption DEF Ix, Instruction, Ops
  <1>4. tip \in Instruction
    <2>1. Tip \in Int /\ "tips" \in Addresses  BY AmountAssumption, InputAssumption
    <2> QED  BY <2>1 DEF Ix, Instruction, Ops
  <1>5. tips \in Seq(Instruction) /\ \A i \in DOMAIN tips : tips[i] = tip
    <2>1. tips = << >> \/ tips = << tip >>  BY DEF TipInstructions
    <2> HIDE DEF tip, tips
    <2>2. CASE tips = << >>  BY <2>2
    <2>3. CASE tips = << tip >>  BY <1>4, <2>3
    <2> QED  BY <2>1, <2>2, <2>3
  <1>6. /\ x.op \notin ops /\ y.op \notin ops /\ tip.op \notin ops
    BY DEF Ix, FeeOps, TradeOps
  <1>7. Compile(ixs, limit, payer) = (head \o ixs) \o tips
    BY DEF Compile
  <1> HIDE DEF x, y, tip, tips
  <1>8. head \in Seq(Instruction) /\ \A i \in DOMAIN head : head[i].op \notin ops
    BY <1>3, <1>6
  <1>9. \A i \in DOMAIN tips : tips[i].op \notin ops  BY <1>5, <1>6
  <1> HIDE DEF head
  <1>10. Moved(head, ops) = 0 /\ Moved(tips, ops) = 0  BY <1>5, <1>8, <1>9, MovedNone
  <1>11. head \o ixs \in Seq(Instruction)  BY <1>8
  <1>12. Moved(ixs, ops) \in Int  BY AmountsType
  <1>13. Moved(head \o ixs, ops) = Moved(head, ops) + Moved(ixs, ops)
    BY <1>8, MovedConcat
  <1>14. Moved((head \o ixs) \o tips, ops) = Moved(head \o ixs, ops) + Moved(tips, ops)
    BY <1>5, <1>11, MovedConcat
  <1> QED  BY <1>7, <1>10, <1>12, <1>13, <1>14

LEMMA ChargeNat ==
    ASSUME NEW cost \in Nat, NEW price \in Nat
    PROVE  ChargeFor(cost, price, ServiceFee, LamportsPerSol) \in Nat
  <1>1. PICK due \in Nat : due = cost * price  OBVIOUS
  <1>2. PICK lps \in Nat \ {0}, service \in Nat : lps = LamportsPerSol /\ service = ServiceFee
    BY AmountAssumption
  <1>3. CeilDiv(due, lps) \in Nat  BY DEF CeilDiv
  <1> QED  BY <1>1, <1>2, <1>3 DEF ChargeFor

LEMMA DebitNat ==
    ASSUME NEW m \in Seq(Instruction), Len(m) >= 2, NEW accts,
           m[1].amt \in Nat \ {0}, m[2].amt = ComputePrice(m[1].amt)
    PROVE  Debit(m, accts) \in Nat
  <1>1. Opened(m, accts) \subseteq Accounts  BY DEF Opened
  <1>2. Cardinality(Opened(m, accts)) \in Nat
    BY <1>1, InputAssumption, FS_Subset, FS_CardinalityType
  <1>3. Tip \in Nat /\ Rent \in Nat /\ BaseFee \in Nat /\ PriorityFee \in Nat
    BY AmountAssumption
  <1>4. PICK limit \in Nat \ {0} : limit = m[1].amt  OBVIOUS
  <1>5. PICK whole \in Nat : whole = PriorityFee * MicroLamports
    BY <1>3 DEF MicroLamports
  <1>6. PICK price \in Nat : price = whole \div limit  BY FloorDivWithin
  <1>7. PICK fee \in Nat : fee = limit * price  OBVIOUS
  <1>8. m[2].amt = price  BY <1>4, <1>5, <1>6 DEF ComputePrice
  <1>9. CeilDiv(fee, MicroLamports) \in Nat  BY DEF CeilDiv, MicroLamports
  <1>10. NetworkFee(m) \in Nat  BY <1>3, <1>4, <1>7, <1>8, <1>9 DEF NetworkFee
  <1>11. Rent * Cardinality(Opened(m, accts)) \in Nat  BY <1>2, <1>3
  <1> QED  BY <1>3, <1>10, <1>11 DEF Debit

\* What the message moves to the sponsor's fee collector.
Reimbursement(c) == IF Sponsored(c) THEN msg[c][ReimbursementIndex(swap[c])].amt ELSE 0

PricingStages == {"cost", "price", "recheck", "sponsor_sign"}

\* The message trades what the prepared swap trades, and its fee transfers are
\* the application fee and a reimbursement within the ceiling.
MessageAddsUp(c) ==
    /\ \A op \in TradeOps : Moved(msg[c], {op}) = Moved(swap[c].ixs, {op})
    /\ FeesMoved(c) = swap[c].application_fee + Reimbursement(c)
    /\ Reimbursement(c) \in 0..Client.ceiling

MoneyFits(c) ==
    /\ est[c] \in Nat
    /\ stage[c] \in PricingStages => Sponsored(c)
    /\ stage[c] = "submit" => chain[c] # "held"
    /\ stage[c] \in PreparedStages \/ chain[c] # "held" => AddsUp(tr[c], swap[c])
    /\ stage[c] \in BuiltStages \/ chain[c] # "held" => MessageAddsUp(c)

LEMMA MoneyFrame ==
    ASSUME NEW d \in Calls, MoneyFits(d), UNCHANGED CallState(d)
    PROVE  MoneyFits(d)'
  BY DEF MoneyFits, MessageAddsUp, FeesMoved, Reimbursement, CallState, Sponsored

\* A step that keeps trade, swap, message and estimate, and neither compiles
\* nor hands over, keeps what was said of them.
LEMMA MoneyKept ==
    ASSUME TypeOK, NEW c \in Calls, MoneyFits(c),
           tr' = tr, swap' = swap, msg' = msg, est' = est,
           stage'[c] \in PricingStages => Sponsored(c),
           stage'[c] = "submit" => chain'[c] # "held",
           stage'[c] \in PreparedStages \/ chain'[c] # "held" =>
               stage[c] \in PreparedStages \/ chain[c] # "held",
           stage'[c] \in BuiltStages \/ chain'[c] # "held" =>
               stage[c] \in BuiltStages \/ chain[c] # "held"
    PROVE  MoneyFits(c)'
  BY DEF MoneyFits, MessageAddsUp, FeesMoved, Reimbursement, Sponsored

LEMMA MoneyStep ==
    ASSUME TypeOK, NEW c \in Calls, Step(c) \/ Land(c), SignaturesInOrder(c),
           ChargeInPlace(c), BudgetInPlace(c), MoneyFits(c)
    PROVE  MoneyFits(c)'
  <1> USE DEF BuiltStages, PreparedStages, PricingStages
  <1>h. stage[c] \in UnsignedStages => chain[c] = "held"  BY DEF SignaturesInOrder
  <1>1. CASE Prepare(c)
    <2>1. PICK o \in Outputs, setup \in Setups :
             \E s \in PreparedSwaps(tr[c], RawSwap(tr[c], o, setup)) :
                swap' = [swap EXCEPT ![c] = s]
      BY <1>1 DEF Prepare
    <2>2. tr[c] \in Trades  BY DEF TypeOK
    <2>3. PICK s \in PreparedSwaps(tr[c], RawSwap(tr[c], o, setup)) :
             swap' = [swap EXCEPT ![c] = s]
      BY <2>1
    <2>4. AddsUp(tr[c], swap'[c])
      BY <2>2, <2>3, PreparedSwapsAddUp DEF TypeOK
    <2>5. stage'[c] = "units" /\ chain'[c] = "held" /\ est' = est /\ tr' = tr
      BY <1>1, <1>h DEF Prepare, UnsignedStages, TypeOK, costState
    <2> QED  BY <2>4, <2>5 DEF MoneyFits
  <1>2. CASE SimulateUnits(c)
    <2>1. PICK u \in Units :
             msg' = [msg EXCEPT ![c] = Compile(swap[c].ixs, ComputeLimit(u), Payer(c))]
      BY <1>2 DEF SimulateUnits
    <2>2. PICK ixs \in Seq(Instruction), limit \in Nat \ {0}, payer \in Addresses :
             ixs = swap[c].ixs /\ limit = ComputeLimit(u) /\ payer = Payer(c)
      BY ComputeLimitType, PayerType DEF Payer, PreparedSwap, TypeOK
    <2>3. msg'[c] = Compile(ixs, limit, payer)  BY <2>1, <2>2 DEF TypeOK
    <2>4. /\ stage'[c] = "blockhash" /\ chain'[c] = "held" /\ est' = est /\ tr' = tr
          /\ swap' = swap /\ stage[c] = "units"
      BY <1>2, <1>h DEF SimulateUnits, UnsignedStages, TypeOK, costState
    <2>5. AddsUp(tr[c], swap[c])  BY <2>4 DEF MoneyFits
    <2>6. \A op \in TradeOps : Moved(msg'[c], {op}) = Moved(swap[c].ixs, {op})
      BY <2>2, <2>3, CompiledMoves
    <2>7. Moved(msg'[c], FeeOps) = swap[c].application_fee + Reserved(tr[c])
      BY <2>2, <2>3, <2>5, CompiledMoves DEF AddsUp, Balanced
    <2>8. Reimbursement(c)' = Reserved(tr[c])
      <3>1. CASE Sponsored(c)
        <4>1. EndsWithReserve(tr[c], ixs) /\ tr[c] \in Trades
          BY <2>2, <2>4, <3>1 DEF ChargeInPlace, TypeOK
        <4>2. msg'[c][Len(ixs) + 2] = Transfer(c, Client.ceiling)
          <5>1. /\ Len(ixs) + 2 \in DOMAIN Compile(ixs, limit, payer)
                /\ Compile(ixs, limit, payer)[Len(ixs) + 2] = Transfer(c, Client.ceiling)
            BY <4>1, ReserveCompiled, Zenon DEF Transfer
          <5> QED  BY <2>3, <5>1, Zenon
        <4> QED
          BY <2>2, <2>4, <3>1, <4>2
          DEF Reimbursement, Reserved, Sponsored, ReimbursementIndex, Transfer, Ix
      <3>2. CASE ~Sponsored(c)
        BY <2>4, <3>2 DEF Reimbursement, Reserved, Sponsored
      <3> QED  BY <3>1, <3>2
    <2>9. Reserved(tr[c]) \in 0..Client.ceiling
      BY ClientAssumption DEF Reserved, ClientType
    <2>10. MessageAddsUp(c)'
      BY <2>4, <2>6, <2>7, <2>8, <2>9 DEF MessageAddsUp, FeesMoved
    <2> QED  BY <2>4, <2>5, <2>10 DEF MoneyFits
  <1>3. CASE SimulateCost(c)
    <2>1. /\ est'[c] = Debit(msg[c], accounts) /\ stage'[c] = "price" /\ stage[c] = "cost"
          /\ tr' = tr /\ swap' = swap /\ msg' = msg /\ chain' = chain
      BY <1>3 DEF SimulateCost, TypeOK
    <2>2. msg[c] \in Seq(Instruction) /\ MessageAddsUp(c) /\ AddsUp(tr[c], swap[c]) /\ Sponsored(c)
      BY <2>1 DEF MoneyFits, TypeOK
    <2>3. msg[c] # << >>
      BY <2>1, <2>2 DEF ChargeInPlace, ReservedStages
    <2>4. est'[c] \in Nat
      BY <2>1, <2>2, <2>3, DebitNat DEF BudgetInPlace
    <2> QED
      BY <2>1, <2>2, <2>4 DEF MoneyFits, MessageAddsUp, FeesMoved, Reimbursement, Sponsored
  <1>4. CASE AcceptPrice(c)
    <2> DEFINE i == ReimbursementIndex(swap[c])
    <2>1. PICK p \in Rates, age \in PriceAges :
             LET charge == ChargeFor(est[c], p, ServiceFee, LamportsPerSol)
             IN  /\ ChargeAllowed(est[c], p, age)
                 /\ HoldsReserve(msg[c], i)
                 /\ msg' = [msg EXCEPT ![c] = Replaced(@, i, charge)]
      BY <1>4 DEF AcceptPrice
    <2>2. p \in Nat /\ est[c] \in Nat  BY AmountAssumption DEF MoneyFits
    <2>3. PICK charge \in Nat : charge = ChargeFor(est[c], p, ServiceFee, LamportsPerSol)
      BY <2>2, ChargeNat
    <2>4. /\ i \in DOMAIN msg[c] /\ msg'[c] = Replaced(msg[c], i, charge)
          /\ msg[c][i].op = "usdc_transfer" /\ msg[c][i].amt = Client.ceiling
          /\ charge <= Client.ceiling /\ msg[c] \in Seq(Instruction)
      BY <2>1, <2>3 DEF HoldsReserve, ChargeAllowed, TypeOK
    <2>5. /\ stage'[c] = "recheck" /\ stage[c] = "price" /\ chain' = chain
          /\ est' = est /\ swap' = swap /\ tr' = tr
      BY <1>4 DEF AcceptPrice, TypeOK
    <2>6. MessageAddsUp(c) /\ AddsUp(tr[c], swap[c]) /\ Sponsored(c) /\ est[c] \in Nat
      BY <2>5 DEF MoneyFits
    <2>7. msg'[c][i] = Ix(msg[c][i].op, msg[c][i].by, msg[c][i].to, charge)
      BY <2>4, ReplacedMessage
    <2>8. Reimbursement(c) = Client.ceiling /\ Reimbursement(c)' = charge
      BY <2>4, <2>5, <2>6, <2>7 DEF Reimbursement, Sponsored, Ix
    <2>9. \A op \in TradeOps : Moved(msg'[c], {op}) = Moved(msg[c], {op})
      BY <2>4, MovedReplaced DEF TradeOps
    <2>10. Moved(msg'[c], FeeOps) = Moved(msg[c], FeeOps) + charge - Client.ceiling
      BY <2>4, MovedReplaced DEF FeeOps
    <2>11. Client.ceiling \in Nat /\ swap[c].application_fee \in Nat
      BY <2>6, ClientAssumption DEF AddsUp, ClientType
    <2> HIDE DEF i
    <2>12. MessageAddsUp(c)'
      BY <2>4, <2>5, <2>6, <2>8, <2>9, <2>10, <2>11 DEF MessageAddsUp, FeesMoved
    <2> QED  BY <2>5, <2>6, <2>12 DEF MoneyFits, Sponsored
  <1>5. CASE Begin(c) \/ Reject(c) \/ RefuseSigners(c) \/ RefusePrice(c) \/ PriceTimesOut(c)
             \/ RefuseCharge(c) \/ SubmitAnswers(c) \/ Fail(c)
    <2>1. /\ tr' = tr /\ swap' = swap /\ msg' = msg /\ est' = est /\ chain' = chain
          /\ stage'[c] \in {"prepare", "done"}
      BY <1>5 DEF Begin, Reject, RefuseSigners, RefusePrice, PriceTimesOut, RefuseCharge,
                  SubmitAnswers, Fail, TypeOK, costState
    <2> QED  BY <2>1, MoneyKept
  <1>6. CASE FetchBlockhash(c) \/ ConfirmCharge(c)
    <2>1. /\ tr' = tr /\ swap' = swap /\ msg' = msg /\ est' = est /\ chain' = chain
          /\ stage[c] \in {"blockhash", "recheck"}
          /\ stage'[c] \in {"cost", "user_sign"}
          /\ stage'[c] = "cost" => Sponsored(c)
      BY <1>6 DEF FetchBlockhash, ConfirmCharge, StageAfterCompile, TypeOK, costState
    <2> QED  BY <2>1, MoneyKept
  <1>7. CASE UserSigns(c) \/ SponsorSigns(c)
    <2>1. /\ tr' = tr /\ swap' = swap /\ msg' = msg /\ est' = est
          /\ stage[c] \in {"user_sign", "sponsor_sign"}
          /\ stage'[c] \in {"sponsor_sign", "submit"}
          /\ stage'[c] = "sponsor_sign" => Sponsored(c)
          /\ stage'[c] = "submit" => chain'[c] = "handed"
      BY <1>7 DEF UserSigns, SponsorSigns, HandOver, SponsorMustSign, TypeOK, costState
    <2> QED  BY <2>1, MoneyKept
  <1>8. CASE Execute(c) \/ Revert(c)
    <2>1. /\ tr' = tr /\ swap' = swap /\ msg' = msg /\ est' = est /\ stage' = stage
          /\ chain[c] # "held" /\ chain'[c] # "held"
      BY <1>8 DEF Execute, Revert, Landable, costState, TypeOK
    <2> QED  BY <2>1, MoneyKept DEF MoneyFits
  <1> QED
    BY <1>1, <1>2, <1>3, <1>4, <1>5, <1>6, <1>7, <1>8
    DEF Step, RpcReply, OutsideReply, Land

MoneyInv == ChargeInv /\ \A c \in Calls : BudgetInPlace(c) /\ MoneyFits(c)

LEMMA MoneyInit == Init => MoneyInv
  <1>1. Init => \A c \in Calls : BudgetInPlace(c) /\ MoneyFits(c)
    BY DEF Init, BudgetInPlace, MoneyFits, PreparedStages, BuiltStages, PricingStages
  <1> QED  BY <1>1, ChargeInit DEF MoneyInv

LEMMA MoneyNext == MoneyInv /\ [Next]_vars => MoneyInv'
  <1> SUFFICES ASSUME MoneyInv, [Next]_vars PROVE MoneyInv'  OBVIOUS
  <1>1. ChargeInv'  BY ChargeNext DEF MoneyInv
  <1>2. TypeOK /\ \A c \in Calls : /\ SignaturesInOrder(c) /\ ChargeInPlace(c)
                                   /\ BudgetInPlace(c) /\ MoneyFits(c)
    BY DEF MoneyInv, ChargeInv, SignedInv
  <1>3. ASSUME NEW c \in Calls, Step(c) \/ Land(c), NEW d \in Calls
        PROVE  BudgetInPlace(d)' /\ MoneyFits(d)'
    <2>1. CASE d = c  BY <1>2, <1>3, <2>1, BudgetStep, MoneyStep
    <2>2. CASE d # c  BY <1>2, <1>3, <2>2, StepIsLocal, BudgetFrame, MoneyFrame
    <2> QED  BY <2>1, <2>2
  <1>4. ASSUME OpenAccount \/ CloseAccount \/ Tick \/ UNCHANGED vars, NEW d \in Calls
        PROVE  BudgetInPlace(d)' /\ MoneyFits(d)'
    BY <1>2, <1>4, WorldIsLocal, BudgetFrame, MoneyFrame
  <1>5. \A d \in Calls : BudgetInPlace(d)' /\ MoneyFits(d)'
    BY <1>3, <1>4 DEF Next
  <1> QED  BY <1>1, <1>5 DEF MoneyInv

\* An executed buy takes no more than the amount asked for, its fees included,
\* and an executed sale leaves the quoted minimum after both fees, whatever
\* the reimbursement was lowered to.
THEOREM BudgetIsKept == Spec => []BudgetKept
  <1>1. MoneyInv => BudgetKept
    <2> SUFFICES ASSUME MoneyInv, NEW c \in Calls, chain[c] = "executed"
                 PROVE  /\ tr[c].side = "Buy" =>
                              Moved(msg[c], {"swap_in"}) + FeesMoved(c) <= tr[c].amount
                        /\ tr[c].side = "Sell" =>
                              Moved(msg[c], {"swap_out"}) - FeesMoved(c) >= swap[c].min_out
      BY DEF BudgetKept
    <2>1. TypeOK /\ MessageAddsUp(c) /\ AddsUp(tr[c], swap[c])
      BY DEF MoneyInv, ChargeInv, SignedInv, MoneyFits
    <2>2. PICK app \in Nat, held \in Nat, charge \in Nat :
             /\ app = swap[c].application_fee /\ held = Reserved(tr[c])
             /\ charge = Reimbursement(c) /\ charge <= held
      <3>1. Client.ceiling \in Nat  BY ClientAssumption DEF ClientType
      <3>2. Reserved(tr[c]) \in Nat /\ Reimbursement(c) \in Nat
            /\ Reimbursement(c) <= Reserved(tr[c])
        BY <2>1, <3>1 DEF MessageAddsUp, Reserved, Reimbursement, Sponsored
      <3> QED  BY <2>1, <3>2 DEF AddsUp
    <2>3. FeesMoved(c) = app + charge  BY <2>1, <2>2 DEF MessageAddsUp
    <2>4. tr[c] \in Trades /\ swap[c].min_out \in Int
      BY <2>1 DEF TypeOK, PreparedSwap
    <2>5. ASSUME tr[c].side = "Buy"
          PROVE  Moved(msg[c], {"swap_in"}) + FeesMoved(c) <= tr[c].amount
      <3>1. PICK routed \in Int : routed = RouteTrade(Client, tr[c]).amount
        BY <2>4, RoutedAmountType
      <3>2. routed + app + held = tr[c].amount
        BY <2>1, <2>2, <2>4, <2>5, <3>1, RoutedBuy DEF AddsUp
      <3>3. Moved(msg[c], {"swap_in"}) = routed
        BY <2>1, <2>5, <3>1 DEF MessageAddsUp, AddsUp, Balanced, TradeOps
      <3> QED  BY <2>2, <2>3, <3>2, <3>3
    <2>6. ASSUME tr[c].side = "Sell"
          PROVE  Moved(msg[c], {"swap_out"}) - FeesMoved(c) >= swap[c].min_out
      <3>1. Moved(msg[c], {"swap_out"}) - (app + held) = swap[c].min_out
        BY <2>1, <2>2, <2>6 DEF MessageAddsUp, AddsUp, Balanced, TradeOps
      <3>2. Moved(msg[c], {"swap_out"}) \in Int
        BY <2>1, AmountsType DEF TypeOK
      <3> QED  BY <2>2, <2>3, <2>4, <3>1, <3>2
    <2> QED  BY <2>5, <2>6
  <1> QED  BY <1>1, MoneyInit, MoneyNext, PTL DEF Spec

-----------------------------------------------------------------------------
(* What callers see. *)

OutcomeSeen(c) == IF chain[c] \in {"executed", "reverted"} THEN chain[c] ELSE "none"

LEMMA ContractInit == Init => Contract!Init
  <1> SUFFICES ASSUME Init PROVE Contract!Init  OBVIOUS
  <1>1. \A c \in Calls : PhaseSeen(c) = "open"  BY DEF Init, PhaseSeen
  <1>2. \A c \in Calls : FeesSeen(c) = Contract!NoFees
    BY DEF Init, FeesSeen, Contract!NoFees
  <1>3. \A c \in Calls : OutcomeSeen(c) = "none"  BY DEF Init, OutcomeSeen
  <1>4. res = [c \in Calls |-> Contract!NoAnswer]
    BY DEF Init, Pending, Contract!NoAnswer
  <1> QED  BY <1>1, <1>2, <1>3, <1>4 DEF Contract!Init, OutcomeSeen

LEMMA SeenFrame ==
    ASSUME NEW d \in Calls, UNCHANGED CallState(d)
    PROVE  /\ PhaseSeen(d)' = PhaseSeen(d) /\ FeesSeen(d)' = FeesSeen(d)
           /\ OutcomeSeen(d)' = OutcomeSeen(d) /\ res'[d] = res[d]
  BY DEF PhaseSeen, FeesSeen, OutcomeSeen, CallState, Sponsored, FeesMoved

\* Every step of a call is a step of the contract, or nobody sees it.
LEMMA ContractStep ==
    ASSUME MoneyInv, NEW c \in Calls, Step(c) \/ Land(c)
    PROVE  \/ Contract!Refuse(c) \/ Contract!Hand(c) \/ Contract!Answer(c) \/ Contract!Land(c)
           \/ UNCHANGED Contract!vars
  <1> DEFINE Phases == [d \in Calls |-> PhaseSeen(d)]
             Fees == [d \in Calls |-> FeesSeen(d)]
             Outcomes == [d \in Calls |-> OutcomeSeen(d)]
  <1>t. /\ TypeOK /\ SignaturesInOrder(c) /\ ChargeInPlace(c) /\ MoneyFits(c)
        /\ res' \in [Calls -> Result]
    <2>1. ChargeInv'  BY ChargeNext DEF MoneyInv, Next
    <2> QED  BY <2>1 DEF MoneyInv, ChargeInv, SignedInv, TypeOK
  <1>l. \A d \in Calls \ {c} : /\ PhaseSeen(d)' = PhaseSeen(d) /\ FeesSeen(d)' = FeesSeen(d)
                               /\ OutcomeSeen(d)' = OutcomeSeen(d) /\ res'[d] = res[d]
    BY <1>t, StepIsLocal, SeenFrame
  <1>p. Phases' = [Phases EXCEPT ![c] = PhaseSeen(c)']  BY <1>l
  <1>f. Fees' = [Fees EXCEPT ![c] = FeesSeen(c)'] /\ Fees'[c] = FeesSeen(c)'  BY <1>l
  <1>o. Outcomes' = [Outcomes EXCEPT ![c] = OutcomeSeen(c)']  BY <1>l
  <1>r. res' = [res EXCEPT ![c] = res'[c]]  BY <1>l, <1>t DEF TypeOK
  <1>h. stage[c] \in UnsignedStages \cup {"sponsor_sign"} => chain[c] = "held"
    BY <1>t DEF SignaturesInOrder
  <1>1. ASSUME PhaseSeen(c)' = PhaseSeen(c), FeesSeen(c)' = FeesSeen(c),
               OutcomeSeen(c)' = OutcomeSeen(c), res'[c] = res[c]
        PROVE  UNCHANGED Contract!vars
    <2>1. res' = res  BY <1>1, <1>l, <1>t DEF TypeOK
    <2>2. Phases' = Phases /\ Fees' = Fees /\ Outcomes' = Outcomes  BY <1>1, <1>l
    <2> QED  BY <2>1, <2>2 DEF Contract!vars, OutcomeSeen
  <1>2. CASE Begin(c) \/ Prepare(c) \/ SimulateUnits(c) \/ FetchBlockhash(c) \/ SimulateCost(c)
             \/ AcceptPrice(c) \/ ConfirmCharge(c)
    <2>1. /\ stage[c] \in UnsignedStages /\ stage'[c] # "done" /\ stage[c] # "done"
          /\ chain' = chain /\ res' = res
      BY <1>2, <1>t DEF Begin, Prepare, SimulateUnits, FetchBlockhash, SimulateCost, AcceptPrice,
                  ConfirmCharge, StageAfterCompile, UnsignedStages, TypeOK
    <2>2. chain[c] = "held" /\ chain'[c] = "held"  BY <1>h, <2>1
    <2>3. PhaseSeen(c)' = PhaseSeen(c)  BY <2>1, <2>2 DEF PhaseSeen
    <2>4. FeesSeen(c)' = FeesSeen(c)  BY <2>2 DEF FeesSeen
    <2>5. OutcomeSeen(c)' = OutcomeSeen(c)  BY <2>2 DEF OutcomeSeen
    <2> QED  BY <1>1, <2>1, <2>3, <2>4, <2>5
  <1>3. CASE UserSigns(c) /\ ~HandOver(c)
    <2>1. /\ stage[c] = "user_sign" /\ stage'[c] = "sponsor_sign" /\ chain' = chain /\ res' = res
      BY <1>3, <1>t DEF UserSigns, TypeOK
    <2>2. chain[c] = "held" /\ chain'[c] = "held"  BY <1>h, <2>1 DEF UnsignedStages
    <2>3. PhaseSeen(c)' = PhaseSeen(c)  BY <2>1, <2>2 DEF PhaseSeen
    <2>4. FeesSeen(c)' = FeesSeen(c)  BY <2>2 DEF FeesSeen
    <2>5. OutcomeSeen(c)' = OutcomeSeen(c)  BY <2>2 DEF OutcomeSeen
    <2> QED  BY <1>1, <2>1, <2>3, <2>4, <2>5
  <1>4. CASE (UserSigns(c) /\ HandOver(c)) \/ SponsorSigns(c)
    <2>1. /\ stage[c] \in {"user_sign", "sponsor_sign"} /\ stage'[c] = "submit"
          /\ chain'[c] = "handed" /\ res' = res /\ tr' = tr /\ swap' = swap /\ msg' = msg
      BY <1>4, <1>t DEF UserSigns, SponsorSigns, HandOver, TypeOK
    <2>2. chain[c] = "held"  BY <1>h, <2>1 DEF UnsignedStages
    <2>3. PhaseSeen(c) = "open" /\ PhaseSeen(c)' = "handed"  BY <2>1, <2>2 DEF PhaseSeen
    <2>4. OutcomeSeen(c)' = OutcomeSeen(c)  BY <2>1, <2>2 DEF OutcomeSeen
    <2>5. Outcomes' = Outcomes  BY <1>l, <2>4
    <2>6. FeesSeen(c)' = [moved |-> FeesMoved(c), spons |-> Reimbursement(c)]
      BY <2>1 DEF FeesSeen, FeesMoved, Reimbursement, Sponsored
    <2>7. MessageAddsUp(c) /\ AddsUp(tr[c], swap[c])
      BY <1>t, <2>1 DEF MoneyFits, BuiltStages, PreparedStages
    <2>8. Reimbursement(c) \in 0..Client.ceiling /\ Reimbursement(c) <= FeesMoved(c)
      <3>1. swap[c].application_fee \in Nat /\ Client.ceiling \in Nat
        BY <2>7, ClientAssumption DEF AddsUp, ClientType
      <3> QED  BY <2>7, <3>1 DEF MessageAddsUp
    <2>9. Contract!Becomes(c, "handed")  BY <1>p, <2>3 DEF Contract!Becomes
    <2>10. /\ Fees' = [Fees EXCEPT ![c] = Fees'[c]]
           /\ Fees'[c].spons \in 0..Client.ceiling /\ Fees'[c].spons <= Fees'[c].moved
      <3>1. Fees'[c].spons = Reimbursement(c) /\ Fees'[c].moved = FeesMoved(c)
        BY <1>f, <2>6
      <3>2. Fees' = [Fees EXCEPT ![c] = Fees'[c]]  BY <1>f
      <3> HIDE DEF Fees
      <3> QED  BY <2>8, <3>1, <3>2
    <2>11. Phases[c] = "open" /\ res' = res  BY <2>1, <2>3
    <2>12. Contract!Hand(c)
      BY <2>5, <2>9, <2>10, <2>11 DEF Contract!Hand, OutcomeSeen
    <2> QED  BY <2>12
  <1>5. CASE /\ chain[c] = "held"
             /\ \/ Reject(c) \/ RefuseSigners(c) \/ RefusePrice(c) \/ PriceTimesOut(c)
                \/ RefuseCharge(c) \/ Fail(c)
    <2>1. /\ stage[c] # "done" /\ stage'[c] = "done" /\ chain' = chain
      BY <1>5, <1>t DEF Reject, RefuseSigners, RefusePrice, PriceTimesOut, RefuseCharge, Fail,
                        Errors, TypeOK
    <2>2. PICK e \in {"Rpc", "Simulation", "Build", "Sign"} : res'[c] = Failed(e)
      <3>1. stage[c] # "submit"  BY <1>5, <1>t DEF MoneyFits
      <3> QED
        BY <1>5, <1>t, <3>1 DEF Reject, RefuseSigners, RefusePrice, PriceTimesOut, RefuseCharge, Fail,
                        Errors, TypeOK
    <2>3. PhaseSeen(c) = "open" /\ PhaseSeen(c)' = "refused"  BY <1>5, <2>1 DEF PhaseSeen
    <2>4. OutcomeSeen(c)' = OutcomeSeen(c) /\ FeesSeen(c)' = FeesSeen(c)
      BY <1>5, <2>1 DEF OutcomeSeen, FeesSeen
    <2>5. Outcomes' = Outcomes /\ Fees' = Fees  BY <1>l, <2>4
    <2>6. res'[c].kind = "err" /\ res'[c].error # "Submit"  BY <2>2 DEF Failed
    <2>7. Contract!Becomes(c, "refused")  BY <1>p, <2>3 DEF Contract!Becomes
    <2>8. Contract!Answers(c)  BY <1>r DEF Contract!Answers
    <2>9. Contract!Refuse(c)
      BY <2>3, <2>5, <2>6, <2>7, <2>8 DEF Contract!Refuse, OutcomeSeen
    <2> QED  BY <2>9
  <1>6. CASE SubmitAnswers(c) \/ (Fail(c) /\ stage[c] = "submit")
    <2>1. /\ stage[c] = "submit" /\ stage'[c] = "done" /\ chain' = chain /\ chain[c] # "held"
          /\ tr' = tr /\ swap' = swap /\ msg' = msg
      BY <1>6, <1>t DEF SubmitAnswers, Fail, MoneyFits, TypeOK
    <2>2. PhaseSeen(c) = "handed" /\ PhaseSeen(c)' = "answered"  BY <2>1 DEF PhaseSeen
    <2>3. FeesSeen(c) = [moved |-> FeesMoved(c), spons |-> Reimbursement(c)]
      BY <2>1 DEF FeesSeen, FeesMoved, Reimbursement, Sponsored
    <2>4. OutcomeSeen(c)' = OutcomeSeen(c) /\ FeesSeen(c)' = FeesSeen(c)
      BY <2>1 DEF OutcomeSeen, FeesSeen, FeesMoved, Sponsored
    <2>5. Outcomes' = Outcomes /\ Fees' = Fees  BY <1>l, <2>4
    <2>6. \/ /\ res'[c].kind = "ok"
             /\ res'[c].spons = FeesSeen(c).spons
             /\ res'[c].app + res'[c].spons = FeesSeen(c).moved
          \/ res'[c] = Contract!Doubt
      <3>1. CASE SubmitAnswers(c)
        <4>1. res'[c] = Submitted(swap[c], FinalFee(c))
          BY <1>t, <3>1 DEF SubmitAnswers, TypeOK
        <4>2. FinalFee(c) = Reimbursement(c)
          <5>1. CASE Sponsored(c)
            <6>1. msg[c][ReimbursementIndex(swap[c])] = Transfer(c, Priced(c))
              BY <1>t, <2>1, <5>1 DEF ChargeInPlace, ChargedStages
            <6> QED  BY <5>1, <6>1 DEF FinalFee, Reimbursement, Transfer, Priced, Ix
          <5>2. CASE ~Sponsored(c)
            <6>1. swap[c].sponsorship_fee = 0
              BY <1>t, <2>1, <5>2 DEF MoneyFits, AddsUp, Reserved, Sponsored
            <6> QED  BY <5>2, <6>1 DEF FinalFee, Reimbursement
          <5> QED  BY <5>1, <5>2
        <4>3. FeesMoved(c) = swap[c].application_fee + Reimbursement(c)
          BY <1>t, <2>1 DEF MoneyFits, MessageAddsUp
        <4> QED  BY <2>3, <4>1, <4>2, <4>3 DEF Submitted
      <3>2. CASE Fail(c) /\ stage[c] = "submit"
        BY <1>t, <3>2 DEF Fail, Errors, Failed, Contract!Doubt, TypeOK
      <3> QED  BY <1>6, <3>1, <3>2
    <2>7. Contract!Becomes(c, "answered")  BY <1>p, <2>2 DEF Contract!Becomes
    <2>8. Contract!Answers(c)  BY <1>r DEF Contract!Answers
    <2>9. Contract!Answer(c)
      BY <2>2, <2>5, <2>6, <2>7, <2>8 DEF Contract!Answer, OutcomeSeen
    <2> QED  BY <2>9
  <1>7. CASE Execute(c) \/ Revert(c)
    <2>1. /\ chain[c] = "handed" /\ chain'[c] \in {"executed", "reverted"} /\ stage' = stage
          /\ res' = res /\ tr' = tr /\ swap' = swap /\ msg' = msg
      BY <1>7, <1>t DEF Execute, Revert, Landable, TypeOK
    <2>2. PhaseSeen(c)' = PhaseSeen(c) /\ PhaseSeen(c) \in {"handed", "answered"}
      BY <2>1 DEF PhaseSeen
    <2>3. FeesSeen(c)' = FeesSeen(c)  BY <2>1 DEF FeesSeen, FeesMoved, Sponsored
    <2>4. OutcomeSeen(c) = "none" /\ OutcomeSeen(c)' \in {"executed", "reverted"}
      BY <2>1 DEF OutcomeSeen
    <2>5. Phases' = Phases /\ Fees' = Fees  BY <1>l, <2>2, <2>3
    <2>6. \E o \in {"executed", "reverted"} : Outcomes' = [Outcomes EXCEPT ![c] = o]
      BY <1>o, <2>4
    <2>7. Contract!Land(c)
      BY <2>1, <2>2, <2>4, <2>5, <2>6 DEF Contract!Land, OutcomeSeen
    <2> QED  BY <2>7
  <1>8. Reject(c) \/ RefuseSigners(c) \/ RefusePrice(c) \/ PriceTimesOut(c) \/ RefuseCharge(c)
        \/ (Fail(c) /\ stage[c] # "submit") => chain[c] = "held"
    BY <1>h DEF Reject, RefuseSigners, RefusePrice, PriceTimesOut, RefuseCharge, Fail, Errors,
                UnsignedStages
  <1> QED
    BY <1>2, <1>3, <1>4, <1>5, <1>6, <1>7, <1>8
    DEF Step, RpcReply, OutsideReply, Land

\* submit implements the contract its callers rely on: one transaction at most,
\* its fees frozen once it leaves, and no answer that contradicts it.
THEOREM SubmitKeepsContract == Spec => KeepsContract
  <1>1. MoneyInv /\ [Next]_vars => [Contract!Next]_(Contract!vars)
    <2> SUFFICES ASSUME MoneyInv, [Next]_vars
                 PROVE  Contract!Next \/ UNCHANGED Contract!vars
      OBVIOUS
    <2>1. ASSUME NEW c \in Calls, Step(c) \/ Land(c)
          PROVE  Contract!Next \/ UNCHANGED Contract!vars
      BY <2>1, ContractStep DEF Contract!Next
    <2>2. CASE OpenAccount \/ CloseAccount \/ Tick \/ UNCHANGED vars
      <3>1. stage' = stage /\ chain' = chain /\ res' = res /\ tr' = tr /\ swap' = swap /\ msg' = msg
        BY <2>2 DEF OpenAccount, CloseAccount, Tick, vars, costState, ledger
      <3> QED
        BY <3>1 DEF Contract!vars, PhaseSeen, FeesSeen, FeesMoved, Sponsored
    <2> QED  BY <2>1, <2>2 DEF Next
  <1> QED
    BY <1>1, ContractInit, MoneyInit, MoneyNext, PTL DEF Spec, KeepsContract, Contract!Spec
=============================================================================

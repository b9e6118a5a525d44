--------------------------- MODULE RouteSelection ---------------------------
(***************************************************************************)
(* TradingClient::quote and prepare_swap: which venues a trade is put to,  *)
(* concurrently or one after the other, within which time, and which of    *)
(* their swaps is returned.  A venue replies with a raw swap or an error,  *)
(* early, late or never; tokio bounds every wait by one timeout.           *)
(***************************************************************************)
EXTENDS FeePolicy

CONSTANTS
    Requests,      \* records [client, dflow, trade, pool, op] a run starts from
    Offers,        \* records [extra, expected, min, empty] a venue may reply
    RouteTimeout   \* ROUTE_PREPARATION_TIMEOUT in ticks

ClientType ==
    [sdk : BOOLEAN, bps : Nat, recipient : STRING, sponsored : BOOLEAN,
     payer : STRING, collector : STRING, ceiling : Nat]
TradeType ==
    [side : {"Buy", "Sell"}, settlement : {"Sol", "Usdc"}, mint : STRING,
     venue : STRING, amount : Nat, slippage_bps : Nat, wallet : STRING]

ASSUME RouteAssumption ==
    /\ RouteTimeout \in Nat
    /\ Requests \subseteq [client : ClientType, dflow : BOOLEAN, trade : TradeType,
                           pool : BOOLEAN, op : {"quote", "prepare"}]
    /\ Offers \subseteq [extra : Nat, expected : Nat, min : Nat, empty : BOOLEAN]

Venues == {"native", "jupiter", "dflow"}

VARIABLES
    rq,        \* the request: fixed
    stage,     \* start, lookup, native, compare, fallback or done
    reply,     \* per venue: Unasked, Asked, Failed or a swap
    asks,      \* how often each venue was asked
    elapsed,   \* ticks since the venues of this stage were asked
    answer     \* the result of the call

vars == << rq, stage, reply, asks, elapsed, answer >>

Unasked == [state |-> "unasked"]
Asked == [state |-> "asked"]
Failed == [state |-> "failed"]
Replied(s) == [state |-> "replied", swap |-> s]

None == [state |-> "pending"]
Error == [state |-> "failed"]
Answer(s, how) == [state |-> "replied", swap |-> s, how |-> how]

cl == rq.client
trade == rq.trade

\* The swap an offer stands for, made for the reduced trade; an offer with
\* extra input or no instructions is a malformed reply.
Offered(o) ==
    LET routed == RouteTrade(cl, trade)
    IN  [in_amount |-> routed.amount + o.extra, expected_out |-> o.expected,
         min_out |-> o.min, application_fee |-> 0, sponsorship_fee |-> 0,
         ixs |-> IF o.empty THEN << >>
                 ELSE << Ix("swap", trade.wallet, "venue", routed.amount) >>]

Init ==
    /\ rq \in Requests
    /\ stage = "start"
    /\ reply = [v \in Venues |-> Unasked]
    /\ asks = [v \in Venues |-> 0]
    /\ elapsed = 0
    /\ answer = None

-----------------------------------------------------------------------------
\* select_best_swap.

\* Slip: a tie goes to the later candidate.
Beats_OrTies(s, best) == s.min_out >= best.min_out

\* Strictly better only: a tie keeps the earlier candidate.
Beats(s, best) == s.min_out > best.min_out

\* One candidate: charged if it can be, then kept if it beats the best so far.
Consider(best, candidate) ==
    IF candidate.state = "replied" /\ CanCharge(cl, trade, candidate.swap)
    THEN LET s == Charged(cl, trade, candidate.swap)
         IN  IF best.state # "replied" THEN Replied(s)
             ELSE IF Beats(s, best.swap) THEN Replied(s) ELSE best
    ELSE best

\* Candidates in their order: native, then Jupiter, then DFlow.
SelectBest(native, jupiter, dflow) ==
    Consider(Consider(Consider(Failed, native), jupiter), dflow)

-----------------------------------------------------------------------------
Aggregators == {"jupiter"} \cup (IF rq.dflow THEN {"dflow"} ELSE {})
Candidates == Aggregators \cup (IF trade.venue = "None" THEN {} ELSE {"native"})

\* Put the trade to some venues at once; their timers start together.
Ask(venues) ==
    /\ reply' = [v \in Venues |-> IF v \in venues THEN Asked ELSE reply[v]]
    /\ asks' = [v \in Venues |-> IF v \in venues THEN asks[v] + 1 ELSE asks[v]]
    /\ elapsed' = 0

Compare == stage' = "compare" /\ Ask(Candidates)
\* Slip: the fallback asks the native venue again.
FallbackVenues_All == Candidates

\* The native failure stands as the first candidate; the venue is not retried.
FallbackVenues == Aggregators
Fallback ==
    /\ stage' = "fallback"
    /\ reply' = [v \in Venues |-> IF v \in FallbackVenues THEN Asked ELSE Failed]
    /\ asks' = [v \in Venues |-> IF v \in FallbackVenues THEN asks[v] + 1 ELSE asks[v]]
    /\ elapsed' = 0
TryNative == stage' = "native" /\ Ask({"native"})
\* Slip: the call ends without an answer.
Return_Lost(a) == stage' = "done" /\ UNCHANGED answer

Return(a) == stage' = "done" /\ answer' = a

Reject ==
    /\ stage = "start"
    /\ ~Routable(cl, trade)
    /\ Return(Error)
    /\ UNCHANGED << rq, reply, asks, elapsed >>

\* should_compare_routes: a selected PumpSwap pool has to be looked up.
NeedsLookup == trade.venue = "PumpSwap" /\ rq.pool

Start ==
    /\ stage = "start"
    /\ Routable(cl, trade)
    /\ \/ /\ ComparedByTrade(trade)
          /\ Compare
       \/ /\ ~ComparedByTrade(trade)
          /\ NeedsLookup
          /\ stage' = "lookup" /\ elapsed' = 0 /\ UNCHANGED << reply, asks >>
       \/ /\ ~ComparedByTrade(trade)
          /\ ~NeedsLookup
          /\ TryNative
    /\ UNCHANGED << rq, answer >>

LookupAnswers ==
    /\ stage = "lookup"
    /\ Compare \/ TryNative
    /\ UNCHANGED << rq, answer >>

LookupFails ==
    /\ stage = "lookup"
    /\ Fallback
    /\ UNCHANGED << rq, answer >>

\* Slip: venues are awaited without a timeout.
TimeIsUp_Never == FALSE

TimeIsUp == elapsed >= RouteTimeout

\* What quote and prepare_swap do with the native swap they asked for alone.
\* prepare_swap counts a fee that cannot be charged as a venue failure; quote
\* has left the fallback behind by then and returns the error.
NativeAnswers(o) ==
    LET s == Offered(o)
    IN  IF CanApplySdkFee(cl, trade, s)
        THEN /\ Return(Answer(DirectSwap(cl, trade, s), "direct"))
             /\ reply' = [reply EXCEPT !["native"] = Replied(s)]
             /\ UNCHANGED << asks, elapsed >>
        ELSE IF rq.op = "quote"
        THEN Return(Error) /\ UNCHANGED << reply, asks, elapsed >>
        ELSE Fallback /\ UNCHANGED answer

NativeReplies ==
    /\ stage = "native"
    /\ \E o \in Offers : NativeAnswers(o)
    /\ UNCHANGED rq

NativeFails ==
    /\ stage = "native"
    /\ Fallback
    /\ UNCHANGED << rq, answer >>

\* Candidates answer independently; each has its own timer.
Gathering == stage \in {"compare", "fallback"}

VenueReplies(v) ==
    /\ Gathering
    /\ reply[v] = Asked
    /\ \E o \in Offers : reply' = [reply EXCEPT ![v] = Replied(Offered(o))]
    /\ UNCHANGED << rq, stage, asks, elapsed, answer >>

VenueFails(v) ==
    /\ Gathering
    /\ reply[v] = Asked
    /\ reply' = [reply EXCEPT ![v] = Failed]
    /\ UNCHANGED << rq, stage, asks, elapsed, answer >>

Select ==
    /\ Gathering
    /\ \A v \in Venues : reply[v] # Asked
    /\ LET best == SelectBest(reply["native"], reply["jupiter"], reply["dflow"])
       IN  Return(IF best.state = "replied" THEN Answer(best.swap, "chosen") ELSE Error)
    /\ UNCHANGED << rq, reply, asks, elapsed >>

\* bounded_route: an elapsed timer is a failure of that venue, though a reply
\* ready at the same moment still wins.
LookupTimesOut == TimeIsUp /\ LookupFails
NativeTimesOut == TimeIsUp /\ NativeFails
VenueTimesOut(v) == TimeIsUp /\ VenueFails(v)

Tick ==
    /\ stage \notin {"start", "done"}
    /\ elapsed < RouteTimeout
    /\ elapsed' = elapsed + 1
    /\ UNCHANGED << rq, stage, reply, asks, answer >>

TimesOut ==
    \/ LookupTimesOut
    \/ NativeTimesOut
    \/ \E v \in Venues : VenueTimesOut(v)

Next ==
    \/ Reject \/ Start
    \/ LookupAnswers \/ LookupFails
    \/ NativeReplies \/ NativeFails
    \/ \E v \in Venues : VenueReplies(v) \/ VenueFails(v)
    \/ TimesOut
    \/ Select
    \/ Tick

Spec == Init /\ [][Next]_vars

\* The call is polled until it ends and timers fire; no venue need answer.
Fairness ==
    /\ WF_vars(Reject \/ Start) /\ WF_vars(Select)
    /\ WF_vars(TimesOut) /\ WF_vars(Tick)

FairSpec == Spec /\ Fairness

-----------------------------------------------------------------------------
(* Properties. *)

\* Types.
TypeOK ==
    /\ rq \in Requests
    /\ stage \in {"start", "lookup", "native", "compare", "fallback", "done"}
    /\ \A v \in Venues : /\ reply[v].state \in {"unasked", "asked", "failed", "replied"}
                         /\ asks[v] \in Nat
    /\ elapsed \in 0..RouteTimeout
    /\ answer.state = "pending" <=> stage # "done"

Rank == [native |-> 1, jupiter |-> 2, dflow |-> 3]

\* The swap charged and net of fees that each compared venue stood for.
Contenders == {v \in Venues : /\ reply[v].state = "replied"
                              /\ CanCharge(cl, trade, reply[v].swap)}

\* A compared answer is the charged swap of a venue no other usable reply
\* beats after fees, the first in the order native, Jupiter, DFlow among
\* equals, whatever order the replies came in; and no usable reply is wasted
\* on an error.
WinnerIsBest ==
    /\ (answer.state = "replied" /\ answer.how = "chosen") =>
          \E v \in Contenders :
             /\ answer.swap = Charged(cl, trade, reply[v].swap)
             /\ \A w \in Contenders \ {v} :
                  LET other == Charged(cl, trade, reply[w].swap)
                  IN  IF Rank[w] < Rank[v] THEN other.min_out < answer.swap.min_out
                      ELSE other.min_out <= answer.swap.min_out
    /\ (answer.state = "failed" /\ stage = "done") => Contenders = {}

\* A venue is put to a trade at most once per call, nobody is for a trade the
\* client must refuse, and a venue whose own swap was taken directly saw no
\* aggregator asked: fallback never races the selected native venue.
NobodyAskedNeedlessly ==
    /\ \A v \in Venues : asks[v] <= 1
    /\ ~Routable(cl, trade) => \A v \in Venues : asks[v] = 0
    /\ (answer.state = "replied" /\ answer.how = "direct") =>
          asks["jupiter"] = 0 /\ asks["dflow"] = 0

\* What an answer says of money is consistent: it is priced for the whole
\* requested amount; a sponsored trade carries the sponsor's ceiling as its
\* last transfer and is never downgraded; a buy's fees and the venue's input
\* add up to the amount; and unless a native venue was asked directly by a
\* client without SDK fee, the net minimum is positive.
AnswerKeepsBudget ==
    answer.state = "replied" =>
        LET s == answer.swap
            swapIn == s.ixs[1].amt
            last == s.ixs[Len(s.ixs)]
        IN  /\ s.in_amount = trade.amount \/ (answer.how = "direct" /\ ~cl.sdk)
            /\ (answer.how = "chosen" /\ trade.side = "Buy") =>
                  swapIn + s.application_fee + s.sponsorship_fee = trade.amount
            /\ SponsorFor(cl, trade) =>
                  /\ s.sponsorship_fee = cl.ceiling
                  /\ last = Ix("usdc_transfer", trade.wallet, cl.collector, cl.ceiling)
            /\ (answer.how = "chosen" \/ cl.sdk) =>
                  0 < s.min_out /\ s.min_out <= s.expected_out

\* Every call returns, although every venue and every lookup may stay silent.
CallReturns == (stage = "start") ~> (stage = "done")
=============================================================================

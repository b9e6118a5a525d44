---------------------------- MODULE VenueContract ----------------------------
(***************************************************************************)
(* What the Dex trait promises of one prepare call, whichever venue serves *)
(* it: the call fails, or answers once with a swap that is a candidate for *)
(* the reduced trade, that gives away no more than the requested slippage, *)
(* whose minimum its own instructions enforce, and that nobody but the     *)
(* wallet and the transaction's payer has to sign.                         *)
(***************************************************************************)
EXTENDS FeePolicy

VARIABLES
    client,    \* the client configuration: fixed
    trade,     \* the caller's trade: fixed
    reply      \* asked, failed or a swap

vars == << client, trade, reply >>

Asked == [state |-> "asked"]
Failed == [state |-> "failed"]
Replied(s) == [state |-> "replied", swap |-> s]

\* No more than one unit below what the requested slippage leaves.
WithinSlippage(t, expected, least) ==
    (least + 1) * BASIS_POINTS > expected * (BASIS_POINTS - t.slippage_bps)

SignersOf(ixs) == {ixs[i].by : i \in DOMAIN ixs}

Enforced(s) ==
    \E i \in DOMAIN s.ixs : s.ixs[i].op = "swap" /\ s.ixs[i].amt >= s.min_out

Acceptable(s) ==
    /\ ValidCandidate(client, trade, s)
    /\ WithinSlippage(trade, s.expected_out, s.min_out)
    /\ SignersOf(s.ixs) \subseteq {trade.wallet, PayerOf(client, trade)}
    /\ Enforced(s)

Init == reply = Asked

Fail == reply = Asked /\ reply' = Failed /\ UNCHANGED << client, trade >>

Reply ==
    /\ reply = Asked
    /\ reply'.state = "replied"
    /\ reply' = Replied(reply'.swap)
    /\ Acceptable(reply'.swap)
    /\ UNCHANGED << client, trade >>

Next == Fail \/ Reply

Spec == Init /\ [][Next]_vars
=============================================================================

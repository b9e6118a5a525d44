---------------------------- MODULE SwapContract ----------------------------
(***************************************************************************)
(* What TradingClient::submit promises its caller, whatever happens inside.*)
(* A call either refuses, and then no transaction of it ever exists for    *)
(* the network, or it parts once with one transaction whose fees are fixed *)
(* from then on.  After that it may answer with those fees or with a       *)
(* Submit error, and the network may run the transaction at most once,     *)
(* before the answer, after it, or never.                                  *)
(***************************************************************************)
EXTENDS Integers

CONSTANTS Calls, Ceiling

VARIABLES phase, fees, answer, outcome

vars == << phase, fees, answer, outcome >>

NoFees == [moved |-> 0, spons |-> 0]
NoAnswer == [kind |-> "pending", error |-> "None", app |-> 0, spons |-> 0]
Doubt == [kind |-> "err", error |-> "Submit", app |-> 0, spons |-> 0]

Init ==
    /\ phase = [c \in Calls |-> "open"]
    /\ fees = [c \in Calls |-> NoFees]
    /\ answer = [c \in Calls |-> NoAnswer]
    /\ outcome = [c \in Calls |-> "none"]

Becomes(c, p) == phase' = [phase EXCEPT ![c] = p]
Answers(c) == answer' = [answer EXCEPT ![c] = answer'[c]]

Refuse(c) ==
    /\ phase[c] = "open"
    /\ Becomes(c, "refused")
    /\ Answers(c)
    /\ answer'[c].kind = "err"
    /\ answer'[c].error # "Submit"
    /\ UNCHANGED << fees, outcome >>

\* The transaction leaves, its sponsorship charge within the ceiling.
Hand(c) ==
    /\ phase[c] = "open"
    /\ Becomes(c, "handed")
    /\ fees' = [fees EXCEPT ![c] = fees'[c]]
    /\ fees'[c].spons \in 0..Ceiling
    /\ fees'[c].spons <= fees'[c].moved
    /\ UNCHANGED << answer, outcome >>

Answer(c) ==
    /\ phase[c] = "handed"
    /\ Becomes(c, "answered")
    /\ Answers(c)
    /\ \/ /\ answer'[c].kind = "ok"
          /\ answer'[c].spons = fees[c].spons
          /\ answer'[c].app + answer'[c].spons = fees[c].moved
       \/ answer'[c] = Doubt
    /\ UNCHANGED << fees, outcome >>

Land(c) ==
    /\ phase[c] \in {"handed", "answered"}
    /\ outcome[c] = "none"
    /\ \E o \in {"executed", "reverted"} : outcome' = [outcome EXCEPT ![c] = o]
    /\ UNCHANGED << phase, fees, answer >>

Next == \E c \in Calls : Refuse(c) \/ Hand(c) \/ Answer(c) \/ Land(c)

Spec == Init /\ [][Next]_vars
=============================================================================

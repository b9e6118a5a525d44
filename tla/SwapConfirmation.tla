-------------------------- MODULE SwapConfirmation --------------------------
(***************************************************************************)
(* TradingClient::swap around submit: read the output balance, submit,     *)
(* poll the signature status until it is terminal or the deadline passes,  *)
(* read the balance again and report the difference.  Several swaps share  *)
(* one wallet, the transactions land whenever the network likes, and the   *)
(* wallet's owner moves money meanwhile.                                   *)
(*                                                                         *)
(* submit itself is SwapExecution; here only what it parts with matters:   *)
(* the request of one of the two submitters of submit.rs, which may never  *)
(* arrive, may be refused, or may be taken while its answer is lost.  The  *)
(* balance of the output asset is its history, so that a read at finalized *)
(* commitment can lag the confirmed one.                                   *)
(***************************************************************************)
EXTENDS Integers, Sequences

CONSTANTS
    Calls,
    Via,         \* submitters in use: "rpc" for RpcSubmitter, "relay" for bloXroute
    MinOut,      \* the output every transaction enforces
    Outputs,     \* what an execution may pay out
    Costs,       \* what landing costs in the output asset: the network fee
                 \* when it is the wallet's own SOL, otherwise zero
    Start,       \* the balance to begin with
    MoveBound,   \* bound: transfers by the owner
    Deadline     \* in poll intervals

ASSUME ConfirmationAssumption ==
    /\ MinOut \in Nat /\ Deadline \in Nat /\ Start \in Nat /\ MoveBound \in Nat
    /\ Costs \subseteq Nat /\ Via \subseteq {"rpc", "relay"}
    /\ \A o \in Outputs : o \in Nat /\ o >= MinOut
    /\ "owner" \notin Calls

VARIABLES
    stage,     \* where each call is in swap_with_lookup_tables
    via,       \* the submitter the call was given
    chain,     \* held, sent, then dropped or handed, then executed or reverted
    res,       \* what swap returned
    before,    \* the first balance read, as a number
    readAt,    \* the entry of history it saw; 0 when the read failed
    doneAt,    \* the entry the second read saw; 0 when it failed or is to come
    elapsed,   \* intervals since confirm began
    rested,    \* the poll interval has passed
    cost,
    hist,      \* confirmed balances of the output asset: [who, bal]
    final,     \* how much of hist is finalized
    view       \* the commitment the RPC client reads balances at

vars == << stage, via, chain, res, before, readAt, doneAt, elapsed, rested, cost,
           hist, final, view >>

NotYet == [kind |-> "pending", status |-> "None", received |-> -1]
Error(e) == [kind |-> "err", status |-> e, received |-> -1]
Answer(s, n) == [kind |-> "ok", status |-> s, received |-> n]

Init ==
    /\ stage = [c \in Calls |-> "start"]
    /\ via \in [Calls -> Via]
    /\ chain = [c \in Calls |-> "held"]
    /\ res = [c \in Calls |-> NotYet]
    /\ before = [c \in Calls |-> 0]
    /\ readAt = [c \in Calls |-> 0]
    /\ doneAt = [c \in Calls |-> 0]
    /\ elapsed = [c \in Calls |-> 0]
    /\ rested = [c \in Calls |-> FALSE]
    /\ cost \in [Calls -> Costs]
    /\ hist = << [who |-> "owner", bal |-> Start] >>
    /\ final = 1
    /\ view \in {"confirmed", "finalized"}

At(c, s) == stage[c] = s
Goto(c, s) == stage' = [stage EXCEPT ![c] = s]
\* Slip: the call ends without a result.
Return_Lost(c, r) == Goto(c, "done") /\ UNCHANGED res

Return(c, r) == Goto(c, "done") /\ res' = [res EXCEPT ![c] = r]

world == << via, cost, hist, final, view >>
clock == << elapsed, rested >>

Monus(a, b) == IF a > b THEN a - b ELSE 0

\* Slip: balances are read at finalized commitment.
SeenEntry_Finalized == final

\* output_balance: the entry a read sees, and 0 for any failure.
SeenEntry == IF view = "confirmed" THEN Len(hist) ELSE final
BalanceRead(entry) == IF entry = 0 THEN 0 ELSE hist[entry].bal

ReadBefore(c) ==
    /\ At(c, "start")
    /\ \E entry \in {0, SeenEntry} :
         /\ readAt' = [readAt EXCEPT ![c] = entry]
         /\ before' = [before EXCEPT ![c] = BalanceRead(entry)]
    /\ Goto(c, "preparing")
    /\ UNCHANGED << chain, res, doneAt, clock, world >>

\* submit refuses before it has parted with the transaction.
Refused(c) ==
    /\ At(c, "preparing")
    /\ \E e \in {"Rpc", "Simulation", "Build", "Sign"} : Return(c, Error(e))
    /\ UNCHANGED << chain, before, readAt, doneAt, clock, world >>

\* The submitter sends its one request.
HandedOver(c) ==
    /\ At(c, "preparing")
    /\ chain' = [chain EXCEPT ![c] = "sent"]
    /\ Goto(c, "submitting")
    /\ UNCHANGED << res, before, readAt, doneAt, clock, world >>

\* The server takes the transaction, or it never will: the request was lost,
\* preflight failed, or the relay answered an error status.
Takes(c) ==
    /\ chain[c] = "sent"
    /\ chain' = [chain EXCEPT ![c] = "handed"]
    /\ UNCHANGED << stage, res, before, readAt, doneAt, clock, world >>

Drops(c) ==
    /\ chain[c] = "sent"
    /\ chain' = [chain EXCEPT ![c] = "dropped"]
    /\ UNCHANGED << stage, res, before, readAt, doneAt, clock, world >>

Taken(c) == chain[c] \in {"handed", "executed", "reverted"}

\* No answer, an error status, a body or a signature that does not parse: the
\* error says nothing of what became of the transaction.
SubmitFails(c) ==
    /\ At(c, "submitting")
    /\ Return(c, Error("Submit"))
    /\ UNCHANGED << chain, before, readAt, doneAt, clock, world >>

\* Slip: an error status of the relay is read as an answer.
SubmitAnswers_AnyStatus(c) ==
    /\ At(c, "submitting")
    /\ chain[c] # "sent"
    /\ elapsed' = [elapsed EXCEPT ![c] = 0]
    /\ Goto(c, "polling")
    /\ UNCHANGED << chain, res, before, readAt, doneAt, rested, world >>

\* A successful answer names the transaction the server took.
SubmitAnswers(c) ==
    /\ At(c, "submitting")
    /\ Taken(c)
    /\ elapsed' = [elapsed EXCEPT ![c] = 0]
    /\ Goto(c, "polling")
    /\ UNCHANGED << chain, res, before, readAt, doneAt, rested, world >>

\* check_status: a terminal status only of a landed transaction, while a
\* node that has not seen it confirmed answers nothing, that is, Pending.
StatusOf(outcome) ==
    CASE outcome = "executed" -> "Confirmed"
      [] outcome = "reverted" -> "Failed"
      [] OTHER -> "Pending"

\* Slip: it is reported like a failed request of submit's own.
StatusFails_LikeAnyRpc(c) ==
    /\ At(c, "polling")
    /\ Return(c, Error("Rpc"))
    /\ UNCHANGED << chain, before, readAt, doneAt, clock, world >>

\* Slip: it is reported as a failed submission.
StatusFails_AsSubmit(c) ==
    /\ At(c, "polling")
    /\ Return(c, Error("Submit"))
    /\ UNCHANGED << chain, before, readAt, doneAt, clock, world >>

\* A failed status request ends swap with an RPC error whose context says so.
StatusFails(c) ==
    /\ At(c, "polling")
    /\ Return(c, Error("Rpc: signature status"))
    /\ UNCHANGED << chain, before, readAt, doneAt, clock, world >>

SeesConfirmed(c) ==
    /\ At(c, "polling")
    /\ StatusOf(chain[c]) = "Confirmed"
    /\ Goto(c, "measuring")
    /\ UNCHANGED << chain, res, before, readAt, doneAt, clock, world >>

SeesFailed(c) ==
    /\ At(c, "polling")
    /\ StatusOf(chain[c]) = "Failed"
    /\ Return(c, Answer("Failed", -1))
    /\ UNCHANGED << chain, before, readAt, doneAt, clock, world >>

\* Slip: never gives up.
DeadlinePassed_Never(c) == FALSE

DeadlinePassed(c) == elapsed[c] >= Deadline

SeesNothing(c) ==
    /\ At(c, "polling")
    /\ IF DeadlinePassed(c)
       THEN Return(c, Answer("Pending", -1)) /\ UNCHANGED rested
       ELSE /\ Goto(c, "sleeping")
            /\ rested' = [rested EXCEPT ![c] = FALSE]
            /\ UNCHANGED res
    /\ UNCHANGED << chain, before, readAt, doneAt, elapsed, world >>

Wake(c) ==
    /\ At(c, "sleeping")
    /\ rested[c]
    /\ Goto(c, "polling")
    /\ UNCHANGED << chain, res, before, readAt, doneAt, clock, world >>

\* Slip: the balance itself is reported.
Received_Whole(after, first) == after

\* saturating_sub of the two reads.
Received(after, first) == Monus(after, first)

ReadAfter(c) ==
    /\ At(c, "measuring")
    /\ \E entry \in {0, SeenEntry} :
         /\ doneAt' = [doneAt EXCEPT ![c] = entry]
         /\ Return(c, Answer("Confirmed", Received(BalanceRead(entry), before[c])))
    /\ UNCHANGED << chain, before, readAt, clock, world >>

-----------------------------------------------------------------------------
\* The network and the wallet's owner.

calls == << stage, via, res, before, readAt, doneAt, clock, cost, view >>

Balance == hist[Len(hist)].bal
Moves == Len(SelectSeq(hist, LAMBDA e : e.who = "owner"))

Record(who, bal) ==
    /\ bal >= 0
    /\ hist' = Append(hist, [who |-> who, bal |-> bal])

Execute(c) ==
    /\ chain[c] = "handed"
    /\ \E out \in Outputs : Record(c, Balance + out - cost[c])
    /\ chain' = [chain EXCEPT ![c] = "executed"]
    /\ UNCHANGED << final, calls >>

Revert(c) ==
    /\ chain[c] = "handed"
    /\ Record(c, Balance - cost[c])
    /\ chain' = [chain EXCEPT ![c] = "reverted"]
    /\ UNCHANGED << final, calls >>

OwnerMoves ==
    /\ Moves <= MoveBound
    /\ \E d \in {-1, 1} : Record("owner", Balance + d)
    /\ UNCHANGED << final, chain, calls >>

\* Tracked only for a client that reads at finalized commitment.
Finalize ==
    /\ view = "finalized"
    /\ final < Len(hist)
    /\ final' = final + 1
    /\ UNCHANGED << hist, chain, calls >>

\* One poll interval.
Tick ==
    /\ \E c \in Calls : stage[c] \in {"polling", "sleeping"}
    /\ elapsed' = [c \in Calls |->
          IF stage[c] \in {"polling", "sleeping"} /\ elapsed[c] < Deadline
          THEN elapsed[c] + 1 ELSE elapsed[c]]
    /\ rested' = [c \in Calls |-> rested[c] \/ At(c, "sleeping")]
    /\ UNCHANGED << stage, chain, res, before, readAt, doneAt, world >>

Poll(c) == StatusFails(c) \/ SeesConfirmed(c) \/ SeesFailed(c) \/ SeesNothing(c)

Step(c) ==
    \/ ReadBefore(c)
    \/ Refused(c) \/ HandedOver(c)
    \/ SubmitFails(c) \/ SubmitAnswers(c)
    \/ Poll(c) \/ Wake(c)
    \/ ReadAfter(c)

Next ==
    \/ \E c \in Calls : Step(c) \/ Takes(c) \/ Drops(c) \/ Execute(c) \/ Revert(c)
    \/ OwnerMoves \/ Finalize \/ Tick

Spec == Init /\ [][Next]_vars

RpcSubmits(c) == via[c] = "rpc" /\ (SubmitFails(c) \/ SubmitAnswers(c))

\* RPC requests end, by an answer or by the client's own timeout, the submit
\* request among them; tokio wakes a sleeper; time passes.  The relay's HTTP
\* client has no timeout, and nothing makes a transaction land.
Fairness ==
    /\ \A c \in Calls : /\ WF_vars(Poll(c)) /\ WF_vars(Wake(c)) /\ WF_vars(ReadAfter(c))
                        /\ WF_vars(RpcSubmits(c))
    /\ WF_vars(Tick)

FairSpec == Spec /\ Fairness

-----------------------------------------------------------------------------
(* Properties. *)

Entry == [who : Calls \cup {"owner"}, bal : Nat]

Result ==
    [kind : {"pending", "ok", "err"},
     status : {"None", "Confirmed", "Failed", "Pending", "Rpc", "Simulation", "Build",
               "Sign", "Submit", "Rpc: signature status"},
     received : Nat \cup {-1}]

\* Types, and a result exactly when the call is done.
TypeOK ==
    /\ stage \in [Calls -> {"start", "preparing", "submitting", "polling",
                            "sleeping", "measuring", "done"}]
    /\ via \in [Calls -> Via] /\ cost \in [Calls -> Costs]
    /\ chain \in [Calls -> {"held", "sent", "dropped", "handed", "executed", "reverted"}]
    /\ res \in [Calls -> Result]
    /\ \A c \in Calls : res[c].kind = "pending" <=> stage[c] # "done"
    /\ hist \in Seq(Entry) /\ final \in 1..Len(hist)
    /\ view \in {"confirmed", "finalized"}
    /\ before \in [Calls -> Nat]
    /\ readAt \in [Calls -> 0..Len(hist)] /\ doneAt \in [Calls -> 0..Len(hist)]
    /\ elapsed \in [Calls -> 0..Deadline] /\ rested \in [Calls -> BOOLEAN]

\* swap never reports an outcome the chain does not have: Confirmed only of
\* an executed transaction, Failed only of a reverted one, an amount exactly
\* with Confirmed, and Pending only of a transaction somebody took.
StatusTruthful ==
    \A c \in Calls :
        /\ res[c].status = "Confirmed" <=> res[c].received >= 0
        /\ res[c].status = "Confirmed" => chain[c] = "executed"
        /\ res[c].status = "Failed" => chain[c] = "reverted"
        /\ res[c].status = "Pending" => Taken(c)

\* swap adds a second error that may hide a trade to the one of submit, and
\* both can be told from every other: after any error that is neither Submit
\* nor a failed status request (client.rs:219), nothing of the call can land.
DoubtfulErrorsAreTold ==
    \A c \in Calls :
        (res[c].kind = "err" /\ chain[c] # "held") =>
            res[c].status \in {"Submit", "Rpc: signature status"}

\* Pending is answered only once the whole deadline has passed since the
\* submission was acknowledged, however the polls and sleeps interleave.
PendingOnlyAfterDeadline ==
    \A c \in Calls : res[c].status = "Pending" => elapsed[c] >= Deadline

\* History entries after the first read up to the second, other than c's own.
Between(c) == {i \in (readAt[c] + 1)..doneAt[c] : hist[i].who # c}
Change(i) == hist[i].bal - hist[i - 1].bal

Measured(c) ==
    /\ res[c].status = "Confirmed"
    /\ view = "confirmed"
    /\ readAt[c] > 0 /\ doneAt[c] > 0

\* With both reads successful and at confirmed commitment, and nothing else
\* taken from the wallet between them, the amount reported is at least the
\* enforced minimum less what landing cost in the same asset: the first read
\* precedes the transaction and the second follows it.
ReceivedAtLeastMinimum ==
    \A c \in Calls :
        (Measured(c) /\ \A i \in Between(c) : Change(i) >= 0) =>
            res[c].received >= MinOut - cost[c]

\* With the same reads and nothing else credited between them, the amount
\* reported is no more than an execution can pay out.
ReceivedAtMostPaidOut ==
    \A c \in Calls :
        (Measured(c) /\ \A i \in Between(c) : Change(i) <= 0) =>
            \E out \in Outputs : res[c].received <= out

\* swap returns once the submitter has answered, and after an RPC submission
\* whatever becomes of it, though the transaction may never land and every
\* status request may fail to see it.  Only a silent relay can hold it.
SubmittedSwapReturns ==
    \A c \in Calls :
        (stage[c] = "polling" \/ (stage[c] = "submitting" /\ via[c] = "rpc"))
            ~> (stage[c] = "done")

-----------------------------------------------------------------------------
(* The part of it that is submit, as SwapContract describes it. *)

PhaseSeen(c) ==
    IF stage[c] \in {"start", "preparing"} THEN "open"
    ELSE IF stage[c] = "submitting" THEN "handed"
    ELSE IF stage[c] = "done" /\ chain[c] = "held" THEN "refused"
    ELSE "answered"

SubmitAnswer(kind, error) == [kind |-> kind, error |-> error, app |-> 0, spons |-> 0]

AnswerSeen(c) ==
    IF PhaseSeen(c) \in {"open", "handed"} THEN SubmitAnswer("pending", "None")
    ELSE IF PhaseSeen(c) = "refused" \/ res[c].status = "Submit"
         THEN SubmitAnswer("err", res[c].status)
         ELSE SubmitAnswer("ok", "None")

Contract == INSTANCE SwapContract WITH
    Ceiling <- 0,
    phase <- [c \in Calls |-> PhaseSeen(c)],
    fees <- [c \in Calls |-> [moved |-> 0, spons |-> 0]],
    answer <- [c \in Calls |-> AnswerSeen(c)],
    outcome <- [c \in Calls |->
        IF chain[c] \in {"executed", "reverted"} THEN chain[c] ELSE "none"]

\* Whatever the submitters and the network do, the submit inside swap stays
\* within the contract that SwapExecution keeps: one answer, never revised by
\* what polling finds, and a transaction that lands at most once, before the
\* answer or after it.
KeepsContract == Contract!Spec
=============================================================================

------------------------ MODULE SwapConfirmationProofs ------------------------
(***************************************************************************)
(* Proofs about SwapConfirmation, for any calls, submitters, amounts and   *)
(* deadline: what swap answers agrees with the chain, what it reports as   *)
(* received is what the transaction moved, and the submit inside it keeps  *)
(* SwapContract.  The transfers are not summed: that balances rise over a  *)
(* stretch of rises is an invariant of the history itself, extended by one *)
(* entry at a time.                                                        *)
(***************************************************************************)
EXTENDS SwapConfirmation, TLAPS

Landed(c) == chain[c] \in {"executed", "reverted"}

(* What a call may have answered, by how far it got. *)
AnswerFits(c) ==
    /\ stage[c] # "done" => res[c] = NotYet
    /\ stage[c] \in {"start", "preparing"} => chain[c] = "held"
    /\ stage[c] \in {"polling", "sleeping", "measuring"} => Taken(c)
    /\ stage[c] = "submitting" => chain[c] # "held"
    /\ stage[c] = "measuring" => chain[c] = "executed"
    /\ stage[c] = "done" =>
          \/ /\ chain[c] = "held"
             /\ res[c] \in {Error("Rpc"), Error("Simulation"), Error("Build"), Error("Sign")}
          \/ chain[c] # "held" /\ res[c] = Error("Submit")
          \/ Taken(c) /\ res[c] = Error("Rpc: signature status")
          \/ Taken(c) /\ elapsed[c] >= Deadline /\ res[c] = Answer("Pending", -1)
          \/ chain[c] = "reverted" /\ res[c] = Answer("Failed", -1)
          \/ chain[c] = "executed" /\ \E n \in Nat : res[c] = Answer("Confirmed", n)

AnswerInv == TypeOK /\ \A c \in Calls : AnswerFits(c)

-----------------------------------------------------------------------------
(* Types. *)

LEMMA ReadType ==
    ASSUME TypeOK, NEW entry \in {0, SeenEntry}
    PROVE  entry \in 0..Len(hist) /\ BalanceRead(entry) \in Nat
  <1>1. Len(hist) \in Nat /\ Len(hist) >= 1  BY DEF TypeOK
  <1>2. entry \in 0..Len(hist)  BY <1>1 DEF SeenEntry, TypeOK
  <1>3. entry # 0 => hist[entry] \in Entry  BY <1>1, <1>2 DEF TypeOK
  <1> QED  BY <1>2, <1>3 DEF BalanceRead, Entry

LEMMA AnswerType ==
    /\ NotYet \in Result /\ NotYet.kind = "pending"
    /\ \A e \in {"Rpc", "Simulation", "Build", "Sign", "Submit", "Rpc: signature status"} :
          Error(e) \in Result /\ Error(e).kind # "pending"
    /\ \A s \in {"Failed", "Pending", "Confirmed"}, n \in Nat \cup {-1} :
          Answer(s, n) \in Result /\ Answer(s, n).kind # "pending"
  BY DEF NotYet, Error, Answer, Result

\* Appending to the history moves no entry and keeps every index valid.
LEMMA RecordType ==
    ASSUME TypeOK, NEW who \in Calls \cup {"owner"}, NEW bal \in Int, Record(who, bal)
    PROVE  /\ hist' \in Seq(Entry) /\ Len(hist') = Len(hist) + 1
           /\ \A i \in 1..Len(hist) : hist'[i] = hist[i]
           /\ hist'[Len(hist) + 1] = [who |-> who, bal |-> bal]
  <1>1. [who |-> who, bal |-> bal] \in Entry  BY DEF Record, Entry
  <1> QED  BY <1>1 DEF Record, TypeOK

LEMMA ReceivedType ==
    ASSUME NEW a \in Nat, NEW b \in Nat
    PROVE  Received(a, b) \in Nat
  BY DEF Received, Monus

LEMMA TypeInit == Init => TypeOK
  <1> SUFFICES ASSUME Init PROVE TypeOK  OBVIOUS
  <1>1. hist \in Seq(Entry) /\ Len(hist) = 1
    BY ConfirmationAssumption DEF Init, Entry
  <1>2. 0 \in 0..Deadline /\ 0 \in 0..Len(hist) /\ 1 \in 1..Len(hist)
    BY <1>1, ConfirmationAssumption
  <1>3. /\ elapsed \in [Calls -> 0..Deadline] /\ readAt \in [Calls -> 0..Len(hist)]
        /\ doneAt \in [Calls -> 0..Len(hist)] /\ final \in 1..Len(hist)
        /\ before \in [Calls -> Nat] /\ rested \in [Calls -> BOOLEAN]
    BY <1>2 DEF Init
  <1>4. res \in [Calls -> Result] /\ \A c \in Calls : res[c].kind = "pending"
    BY AnswerType DEF Init
  <1>5. \A c \in Calls : stage[c] = "start"  BY DEF Init
  <1>6. \A c \in Calls : res[c].kind = "pending" <=> stage[c] # "done"  BY <1>4, <1>5
  <1>7. /\ stage \in [Calls -> {"start", "preparing", "submitting", "polling",
                               "sleeping", "measuring", "done"}]
        /\ via \in [Calls -> Via] /\ cost \in [Calls -> Costs]
        /\ chain \in [Calls -> {"held", "sent", "dropped", "handed", "executed", "reverted"}]
        /\ view \in {"confirmed", "finalized"}
    BY DEF Init
  <1> QED  BY <1>1, <1>3, <1>4, <1>6, <1>7 DEF TypeOK

LEMMA BalanceType ==
    ASSUME TypeOK
    PROVE  Balance \in Nat
  <1>1. Len(hist) \in 1..Len(hist)  BY DEF TypeOK
  <1>2. hist[Len(hist)] \in Entry  BY <1>1 DEF TypeOK
  <1> QED  BY <1>2 DEF Balance, Entry

LEMMA MoneyType ==
    ASSUME TypeOK
    PROVE  /\ \A c \in Calls : cost[c] \in Nat
           /\ \A out \in Outputs : out \in Nat /\ out >= MinOut
  <1>1. \A c \in Calls : cost[c] \in Costs  BY DEF TypeOK
  <1>2. Costs \subseteq Nat  BY ConfirmationAssumption
  <1>3. \A out \in Outputs : out \in Nat /\ out >= MinOut  BY ConfirmationAssumption
  <1> QED  BY <1>1, <1>2, <1>3

LEMMA TypeNext == TypeOK /\ [Next]_vars => TypeOK'
  <1> SUFFICES ASSUME TypeOK, [Next]_vars PROVE TypeOK'  OBVIOUS
  <1>1. ASSUME NEW c \in Calls, ReadBefore(c) PROVE TypeOK'
    <2>1. PICK entry \in {0, SeenEntry} :
             /\ readAt' = [readAt EXCEPT ![c] = entry]
             /\ before' = [before EXCEPT ![c] = BalanceRead(entry)]
      BY <1>1 DEF ReadBefore
    <2>2. /\ readAt' \in [Calls -> 0..Len(hist)] /\ before' \in [Calls -> Nat]
      BY <2>1, ReadType DEF TypeOK
    <2> QED  BY <1>1, <2>2 DEF ReadBefore, At, Goto, TypeOK, clock, world
  <1>2. ASSUME NEW c \in Calls, Refused(c) PROVE TypeOK'
    <2>1. PICK e \in {"Rpc", "Simulation", "Build", "Sign"} : Return(c, Error(e))
      BY <1>2 DEF Refused
    <2>2. Error(e) \in Result /\ Error(e).kind # "pending"  BY AnswerType
    <2> QED  BY <1>2, <2>1, <2>2 DEF Refused, At, Goto, Return, TypeOK, clock, world
  <1>3. ASSUME NEW c \in Calls, HandedOver(c) PROVE TypeOK'
    BY <1>3 DEF HandedOver, At, Goto, TypeOK, clock, world
  <1>4. ASSUME NEW c \in Calls, SubmitFails(c) PROVE TypeOK'
    BY <1>4, AnswerType DEF SubmitFails, At, Goto, Return, TypeOK, clock, world
  <1>5. ASSUME NEW c \in Calls, SubmitAnswers(c) PROVE TypeOK'
    BY <1>5, ConfirmationAssumption DEF SubmitAnswers, At, Goto, TypeOK, world
  <1>6. ASSUME NEW c \in Calls, StatusFails(c) PROVE TypeOK'
    BY <1>6, AnswerType DEF StatusFails, At, Goto, Return, TypeOK, clock, world
  <1>7. ASSUME NEW c \in Calls, SeesConfirmed(c) PROVE TypeOK'
    BY <1>7 DEF SeesConfirmed, At, Goto, TypeOK, clock, world
  <1>8. ASSUME NEW c \in Calls, SeesFailed(c) PROVE TypeOK'
    BY <1>8, AnswerType DEF SeesFailed, At, Goto, Return, TypeOK, clock, world
  <1>9. ASSUME NEW c \in Calls, SeesNothing(c) PROVE TypeOK'
    <2>1. CASE DeadlinePassed(c)
      <3>1. /\ Answer("Pending", -1) \in Result
            /\ Answer("Pending", -1).kind # "pending"
        BY AnswerType
      <3> QED
        BY <1>9, <2>1, <3>1 DEF SeesNothing, At, Goto, Return, TypeOK, world
    <2>2. CASE ~DeadlinePassed(c)
      BY <1>9, <2>2 DEF SeesNothing, At, Goto, TypeOK, world
    <2> QED  BY <2>1, <2>2
  <1>10. ASSUME NEW c \in Calls, Wake(c) PROVE TypeOK'
    BY <1>10 DEF Wake, At, Goto, TypeOK, clock, world
  <1>11. ASSUME NEW c \in Calls, ReadAfter(c) PROVE TypeOK'
    <2>1. PICK entry \in {0, SeenEntry} :
             /\ doneAt' = [doneAt EXCEPT ![c] = entry]
             /\ Return(c, Answer("Confirmed", Received(BalanceRead(entry), before[c])))
      BY <1>11 DEF ReadAfter
    <2>2. PICK n \in Nat : n = Received(BalanceRead(entry), before[c])
      BY ReadType, ReceivedType DEF TypeOK
    <2>3. Answer("Confirmed", n) \in Result /\ Answer("Confirmed", n).kind # "pending"
      BY AnswerType
    <2>4. doneAt' \in [Calls -> 0..Len(hist)]  BY <2>1, ReadType DEF TypeOK
    <2> QED
      BY <1>11, <2>1, <2>2, <2>3, <2>4 DEF ReadAfter, At, Goto, Return, TypeOK, clock, world
  <1>12. ASSUME NEW c \in Calls, Takes(c) \/ Drops(c) PROVE TypeOK'
    BY <1>12 DEF Takes, Drops, TypeOK, clock, world
  <1>13. ASSUME NEW who \in Calls \cup {"owner"}, NEW bal \in Int, Record(who, bal),
                UNCHANGED << final, calls >>,
                chain' \in [Calls -> {"held", "sent", "dropped", "handed", "executed", "reverted"}]
         PROVE  TypeOK'
    <2>1. hist' \in Seq(Entry) /\ Len(hist') = Len(hist) + 1  BY <1>13, RecordType
    <2>2. Len(hist) \in Nat  BY DEF TypeOK
    <2>3. 0..Len(hist) \subseteq 0..Len(hist') /\ 1..Len(hist) \subseteq 1..Len(hist')
      BY <2>1, <2>2
    <2> QED  BY <1>13, <2>1, <2>3 DEF TypeOK, calls, clock
  <1>14. ASSUME NEW c \in Calls, Execute(c) PROVE TypeOK'
    <2>1. PICK out \in Outputs : Record(c, Balance + out - cost[c])
      BY <1>14 DEF Execute
    <2>2. PICK bal \in Int : bal = Balance + out - cost[c]
      BY BalanceType, MoneyType
    <2> QED  BY <1>13, <1>14, <2>1, <2>2 DEF Execute, TypeOK
  <1>15. ASSUME NEW c \in Calls, Revert(c) PROVE TypeOK'
    <2>1. PICK bal \in Int : bal = Balance - cost[c]
      BY BalanceType, MoneyType
    <2> QED  BY <1>13, <1>15, <2>1 DEF Revert, TypeOK
  <1>16. CASE OwnerMoves
    <2>1. PICK d \in {-1, 1} : Record("owner", Balance + d)  BY <1>16 DEF OwnerMoves
    <2>2. PICK bal \in Int : bal = Balance + d  BY BalanceType
    <2> QED  BY <1>13, <1>16, <2>1, <2>2 DEF OwnerMoves, TypeOK
  <1>17. CASE Finalize
    <2>1. final' \in 1..Len(hist)  BY <1>17 DEF Finalize, TypeOK
    <2> QED  BY <1>17, <2>1 DEF Finalize, TypeOK, calls, clock
  <1>18. CASE Tick
    <2>1. elapsed' \in [Calls -> 0..Deadline]
      BY <1>18, ConfirmationAssumption DEF Tick, TypeOK
    <2>2. rested' \in [Calls -> BOOLEAN]  BY <1>18 DEF Tick, TypeOK, At
    <2> QED  BY <1>18, <2>1, <2>2 DEF Tick, TypeOK, world
  <1>19. CASE UNCHANGED vars
    BY <1>19 DEF vars, TypeOK
  <1> QED
    BY <1>1, <1>2, <1>3, <1>4, <1>5, <1>6, <1>7, <1>8, <1>9, <1>10, <1>11, <1>12,
       <1>14, <1>15, <1>16, <1>17, <1>18, <1>19
    DEF Next, Step, Poll

\* Every variable keeps its type and a call has a result exactly when it is
\* done, whatever the submitters, the network and the owner do.
THEOREM TypeCorrect == Spec => []TypeOK
  BY TypeInit, TypeNext, PTL DEF Spec

-----------------------------------------------------------------------------
(* What swap answers. *)

Own(c) == Step(c) \/ Takes(c) \/ Drops(c) \/ Execute(c) \/ Revert(c)
CallState(c) == << stage[c], chain[c], res[c], elapsed[c], before[c], readAt[c], doneAt[c] >>

\* A step of one call, or of its transaction, leaves the others where they are.
LEMMA StepIsLocal ==
    ASSUME TypeOK, NEW c \in Calls, Own(c), NEW d \in Calls \ {c}
    PROVE  UNCHANGED CallState(d)
  <1> USE DEF CallState, TypeOK, Goto, Return, clock
  <1>1. CASE ReadBefore(c)  BY <1>1 DEF ReadBefore
  <1>2. CASE Refused(c) \/ HandedOver(c)  BY <1>2 DEF Refused, HandedOver
  <1>3. CASE SubmitFails(c) \/ SubmitAnswers(c)  BY <1>3 DEF SubmitFails, SubmitAnswers
  <1>4. CASE StatusFails(c) \/ SeesConfirmed(c) \/ SeesFailed(c)
    BY <1>4 DEF StatusFails, SeesConfirmed, SeesFailed
  <1>5. CASE SeesNothing(c)  BY <1>5 DEF SeesNothing
  <1>6. CASE Wake(c) \/ ReadAfter(c)  BY <1>6 DEF Wake, ReadAfter
  <1>7. CASE Takes(c) \/ Drops(c)  BY <1>7 DEF Takes, Drops
  <1>8. CASE Execute(c) \/ Revert(c)  BY <1>8 DEF Execute, Revert, calls
  <1> QED
    BY <1>1, <1>2, <1>3, <1>4, <1>5, <1>6, <1>7, <1>8 DEF Own, Step, Poll

LEMMA AnswerStep ==
    ASSUME TypeOK, NEW c \in Calls, Own(c), AnswerFits(c)
    PROVE  AnswerFits(c)'
  <1> USE DEF AnswerFits, TypeOK, At, Goto, Return, Taken, clock
  <1>1. CASE ReadBefore(c)  BY <1>1 DEF ReadBefore
  <1>2. CASE Refused(c)
    <2>1. PICK e \in {"Rpc", "Simulation", "Build", "Sign"} : Return(c, Error(e))
      BY <1>2 DEF Refused
    <2>2. /\ res'[c] \in {Error("Rpc"), Error("Simulation"), Error("Build"), Error("Sign")}
          /\ stage'[c] = "done" /\ chain'[c] = "held"
      BY <1>2, <2>1 DEF Refused
    <2> QED  BY <2>2
  <1>3. CASE HandedOver(c)  BY <1>3 DEF HandedOver
  <1>4. CASE SubmitFails(c)  BY <1>4 DEF SubmitFails
  <1>5. CASE SubmitAnswers(c)  BY <1>5 DEF SubmitAnswers
  <1>6. CASE StatusFails(c)  BY <1>6 DEF StatusFails
  <1>7. CASE SeesConfirmed(c)  BY <1>7 DEF SeesConfirmed, StatusOf
  <1>8. CASE SeesFailed(c)  BY <1>8 DEF SeesFailed, StatusOf
  <1>9. CASE SeesNothing(c)  BY <1>9 DEF SeesNothing, DeadlinePassed
  <1>10. CASE Wake(c)  BY <1>10 DEF Wake
  <1>11. CASE ReadAfter(c)
    <2>1. PICK entry \in {0, SeenEntry} :
             Return(c, Answer("Confirmed", Received(BalanceRead(entry), before[c])))
      BY <1>11 DEF ReadAfter
    <2>2. PICK n \in Nat : n = Received(BalanceRead(entry), before[c])
      BY ReadType, ReceivedType
    <2>3. stage'[c] = "done" /\ chain'[c] = "executed" /\ res'[c] = Answer("Confirmed", n)
      BY <1>11, <2>1, <2>2 DEF ReadAfter
    <2> QED  BY <2>3
  <1>12. CASE Takes(c) \/ Drops(c)  BY <1>12 DEF Takes, Drops
  <1>13. CASE Execute(c) \/ Revert(c)  BY <1>13 DEF Execute, Revert, calls
  <1> QED
    BY <1>1, <1>2, <1>3, <1>4, <1>5, <1>6, <1>7, <1>8, <1>9, <1>10, <1>11, <1>12, <1>13
    DEF Own, Step, Poll

LEMMA AnswerInit == Init => AnswerInv
  BY TypeInit DEF Init, AnswerInv, AnswerFits

LEMMA AnswerNext == AnswerInv /\ [Next]_vars => AnswerInv'
  <1> SUFFICES ASSUME AnswerInv, [Next]_vars PROVE AnswerInv'  OBVIOUS
  <1>1. TypeOK'  BY TypeNext DEF AnswerInv
  <1>2. ASSUME NEW c \in Calls, Own(c), NEW d \in Calls PROVE AnswerFits(d)'
    <2>1. CASE d = c  BY <1>2, <2>1, AnswerStep DEF AnswerInv
    <2>2. CASE d # c
      <3>1. UNCHANGED << stage[d], chain[d], res[d], elapsed[d] >>
        BY <1>2, <2>2, StepIsLocal DEF AnswerInv, CallState
      <3>2. AnswerFits(d)  BY DEF AnswerInv
      <3> QED  BY <3>1, <3>2 DEF AnswerFits, Taken
    <2> QED  BY <2>1, <2>2
  <1>3. ASSUME OwnerMoves \/ Finalize \/ UNCHANGED vars, NEW d \in Calls
        PROVE  AnswerFits(d)'
    BY <1>3
    DEF OwnerMoves, Finalize, vars, AnswerInv, AnswerFits, Taken, calls, clock
  <1>4. ASSUME Tick, NEW d \in Calls PROVE AnswerFits(d)'
    BY <1>4 DEF Tick, AnswerInv, AnswerFits, Taken, TypeOK, world
  <1>5. \A d \in Calls : AnswerFits(d)'
    BY <1>2, <1>3, <1>4 DEF Next, Own
  <1> QED  BY <1>1, <1>5 DEF AnswerInv

\* The same by the fields of the answer.
LEMMA AnswerShape ==
    ASSUME AnswerInv, NEW c \in Calls
    PROVE  \/ /\ stage[c] # "done" /\ res[c].kind = "pending"
              /\ res[c].status = "None" /\ res[c].received = -1
           \/ /\ stage[c] = "done" /\ res[c].kind = "err" /\ res[c].received = -1
              /\ chain[c] = "held" /\ res[c].status \in {"Rpc", "Simulation", "Build", "Sign"}
           \/ /\ stage[c] = "done" /\ res[c].kind = "err" /\ res[c].received = -1
              /\ chain[c] # "held" /\ res[c].status = "Submit"
           \/ /\ stage[c] = "done" /\ res[c].kind = "err" /\ res[c].received = -1
              /\ Taken(c) /\ res[c].status = "Rpc: signature status"
           \/ /\ stage[c] = "done" /\ res[c].kind = "ok" /\ res[c].received = -1
              /\ Taken(c) /\ elapsed[c] >= Deadline /\ res[c].status = "Pending"
           \/ /\ stage[c] = "done" /\ res[c].kind = "ok" /\ res[c].received = -1
              /\ chain[c] = "reverted" /\ res[c].status = "Failed"
           \/ /\ stage[c] = "done" /\ res[c].kind = "ok" /\ res[c].received \in Nat
              /\ chain[c] = "executed" /\ res[c].status = "Confirmed"
  <1>1. AnswerFits(c)  BY DEF AnswerInv
  <1>2. CASE stage[c] # "done"
    <2>1. res[c] = NotYet  BY <1>1, <1>2 DEF AnswerFits
    <2>2. /\ NotYet.kind = "pending" /\ NotYet.status = "None" /\ NotYet.received = -1
      BY DEF NotYet
    <2> QED  BY <1>2, <2>1, <2>2
  <1>3. CASE stage[c] = "done"
    <2>1. \A e : Error(e).kind = "err" /\ Error(e).status = e /\ Error(e).received = -1
      BY DEF Error
    <2>2. \A s, n : Answer(s, n).kind = "ok" /\ Answer(s, n).status = s /\ Answer(s, n).received = n
      BY DEF Answer
    <2>3. CASE \E e \in {"Rpc", "Simulation", "Build", "Sign"} :
                  chain[c] = "held" /\ res[c] = Error(e)
      BY <1>3, <2>1, <2>3
    <2>4. CASE \/ chain[c] # "held" /\ res[c] = Error("Submit")
               \/ Taken(c) /\ res[c] = Error("Rpc: signature status")
      BY <1>3, <2>1, <2>4
    <2>5. CASE \/ Taken(c) /\ elapsed[c] >= Deadline /\ res[c] = Answer("Pending", -1)
               \/ chain[c] = "reverted" /\ res[c] = Answer("Failed", -1)
      <3>1. /\ Answer("Pending", -1).kind = "ok" /\ Answer("Pending", -1).status = "Pending"
            /\ Answer("Pending", -1).received = -1
        BY DEF Answer
      <3>2. /\ Answer("Failed", -1).kind = "ok" /\ Answer("Failed", -1).status = "Failed"
            /\ Answer("Failed", -1).received = -1
        BY DEF Answer
      <3> QED  BY <1>3, <2>5, <3>1, <3>2
    <2>6. CASE chain[c] = "executed" /\ \E n \in Nat : res[c] = Answer("Confirmed", n)
      <3>1. PICK n \in Nat : res[c] = Answer("Confirmed", n)  BY <2>6
      <3>2. /\ res[c].kind = "ok" /\ res[c].status = "Confirmed" /\ res[c].received \in Nat
        BY <2>2, <3>1
      <3> QED  BY <1>3, <2>6, <3>2
    <2> QED  BY <1>1, <1>3, <2>3, <2>4, <2>5, <2>6 DEF AnswerFits
  <1> QED  BY <1>2, <1>3

LEMMA AnswerTruth == AnswerInv => StatusTruthful
  <1> SUFFICES ASSUME AnswerInv, NEW c \in Calls
               PROVE  /\ res[c].status = "Confirmed" <=> res[c].received >= 0
                      /\ res[c].status = "Confirmed" => chain[c] = "executed"
                      /\ res[c].status = "Failed" => chain[c] = "reverted"
                      /\ res[c].status = "Pending" => Taken(c)
    BY DEF StatusTruthful
  <1>a. res[c].received \in Nat \cup {-1}  BY DEF AnswerInv, TypeOK, Result
  <1>b. Nat \cup {-1} \subseteq Int  OBVIOUS
  <1>1. PICK n \in Int : n = res[c].received  BY <1>a, <1>b
  <1>2. \/ res[c].status = "Confirmed" /\ chain[c] = "executed" /\ n \in Nat
        \/ n = -1 /\ res[c].status = "Failed" /\ chain[c] = "reverted"
        \/ n = -1 /\ res[c].status = "Pending" /\ Taken(c)
        \/ n = -1 /\ res[c].status \notin {"Confirmed", "Failed", "Pending"}
    BY <1>1, AnswerShape
  <1>3. n >= 0 <=> res[c].status = "Confirmed"  BY <1>2
  <1> QED  BY <1>1, <1>2, <1>3

\* What swap answers agrees with the chain.
THEOREM AnswersAreTruthful == Spec => []StatusTruthful
  BY AnswerTruth, AnswerInit, AnswerNext, PTL DEF Spec

\* Pending means that the whole deadline has passed.
THEOREM PendingAfterDeadline == Spec => []PendingOnlyAfterDeadline
  <1>1. AnswerInv => PendingOnlyAfterDeadline
    <2> SUFFICES ASSUME AnswerInv, NEW c \in Calls
                 PROVE  res[c].status = "Pending" => elapsed[c] >= Deadline
      BY DEF PendingOnlyAfterDeadline
    <2> QED  BY AnswerShape DEF Taken
  <1> QED  BY <1>1, AnswerInit, AnswerNext, PTL DEF Spec

\* Every error but two means that nothing of the call can land.
THEOREM DoubtIsTold == Spec => []DoubtfulErrorsAreTold
  <1>1. AnswerInv => DoubtfulErrorsAreTold
    <2> SUFFICES ASSUME AnswerInv, NEW c \in Calls
                 PROVE  (res[c].kind = "err" /\ chain[c] # "held") =>
                            res[c].status \in {"Submit", "Rpc: signature status"}
      BY DEF DoubtfulErrorsAreTold
    <2> QED  BY AnswerShape DEF Taken
  <1> QED  BY <1>1, AnswerInit, AnswerNext, PTL DEF Spec

-----------------------------------------------------------------------------
(* The contract. *)

LEMMA ContractInit == Init => Contract!Init
  <1> SUFFICES ASSUME Init PROVE Contract!Init  OBVIOUS
  <1>1. \A c \in Calls : stage[c] = "start" /\ chain[c] = "held"  BY DEF Init
  <1>2. \A c \in Calls : PhaseSeen(c) = "open"  BY <1>1 DEF PhaseSeen
  <1>3. ASSUME NEW c \in Calls PROVE AnswerSeen(c) = Contract!NoAnswer
    <2>1. PhaseSeen(c) = "open"  BY <1>2
    <2> QED  BY <2>1 DEF AnswerSeen, SubmitAnswer, Contract!NoAnswer
  <1> QED  BY <1>1, <1>2, <1>3 DEF Contract!Init, Contract!NoFees

\* What the contract sees of a call, by how far it got.
SeenFits ==
    \A c \in Calls :
        /\ stage[c] \in {"start", "preparing"} =>
              PhaseSeen(c) = "open" /\ AnswerSeen(c) = SubmitAnswer("pending", "None")
        /\ stage[c] = "submitting" =>
              PhaseSeen(c) = "handed" /\ AnswerSeen(c) = SubmitAnswer("pending", "None")
        /\ stage[c] \in {"polling", "sleeping", "measuring"} =>
              PhaseSeen(c) = "answered" /\ AnswerSeen(c) = SubmitAnswer("ok", "None")
        /\ stage[c] = "done" /\ chain[c] = "held" =>
              PhaseSeen(c) = "refused" /\ AnswerSeen(c) = SubmitAnswer("err", res[c].status)
        /\ stage[c] = "done" /\ chain[c] # "held" =>
              /\ PhaseSeen(c) = "answered"
              /\ res[c].status = "Submit" => AnswerSeen(c) = SubmitAnswer("err", "Submit")
              /\ res[c].status # "Submit" => AnswerSeen(c) = SubmitAnswer("ok", "None")

LEMMA SeenIsRight == AnswerInv => SeenFits
  <1> SUFFICES ASSUME AnswerInv, NEW c \in Calls
               PROVE  SeenFits!(c)
    BY DEF SeenFits
  <1>1. AnswerFits(c)  BY DEF AnswerInv
  <1>2. stage[c] \in {"polling", "sleeping", "measuring"} =>
           chain[c] # "held" /\ res[c].status = "None"
    <2>1. stage[c] # "done" => res[c].status = "None"  BY AnswerShape
    <2> QED  BY <1>1, <2>1 DEF AnswerFits, Taken
  <1>3. stage[c] = "done" /\ chain[c] = "held" => PhaseSeen(c) = "refused"
    BY DEF PhaseSeen
  <1>4. stage[c] = "done" /\ chain[c] # "held" => PhaseSeen(c) = "answered"
    BY DEF PhaseSeen
  <1>5. stage[c] \in {"polling", "sleeping", "measuring"} => PhaseSeen(c) = "answered"
    BY <1>2 DEF PhaseSeen
  <1>6. /\ stage[c] \in {"start", "preparing"} => PhaseSeen(c) = "open"
        /\ stage[c] = "submitting" => PhaseSeen(c) = "handed"
    BY DEF PhaseSeen
  <1> QED  BY <1>2, <1>3, <1>4, <1>5, <1>6 DEF AnswerSeen

\* Every step of a call refuses, hands over, answers or lands once, or changes
\* nothing that the contract sees.
LEMMA ContractStep ==
    ASSUME AnswerInv, NEW c \in Calls, Own(c)
    PROVE  \/ Contract!Refuse(c) \/ Contract!Hand(c) \/ Contract!Answer(c) \/ Contract!Land(c)
           \/ UNCHANGED Contract!vars
  <1>t. AnswerInv'  BY AnswerNext DEF Own, Next
  <1>s. SeenFits  BY SeenIsRight
  <1>n. SeenFits'
    <2>1. (AnswerInv => SeenFits)'  BY SeenIsRight, PTL
    <2> QED  BY <1>t, <2>1
  <1>l. \A d \in Calls \ {c} : /\ PhaseSeen(d)' = PhaseSeen(d)
                              /\ AnswerSeen(d)' = AnswerSeen(d)
                              /\ chain'[d] = chain[d]
    BY StepIsLocal DEF AnswerInv, CallState, PhaseSeen, AnswerSeen
  <1>f. AnswerFits(c) /\ AnswerFits(c)'  BY <1>t DEF AnswerInv
  <1> USE DEF At, Goto, Return
  <1>1. ASSUME PhaseSeen(c)' = PhaseSeen(c), AnswerSeen(c)' = AnswerSeen(c),
               Landed(c)' = Landed(c), Landed(c) => chain'[c] = chain[c]
        PROVE  UNCHANGED Contract!vars
    BY <1>1, <1>l DEF Contract!vars, Landed
  <1>p. ASSUME NEW p, PhaseSeen(c)' = p
        PROVE  [d \in Calls |-> PhaseSeen(d)]' = [[d \in Calls |-> PhaseSeen(d)] EXCEPT ![c] = p]
    BY <1>p, <1>l
  <1>a. [d \in Calls |-> AnswerSeen(d)]' =
           [[d \in Calls |-> AnswerSeen(d)] EXCEPT ![c] = [d \in Calls |-> AnswerSeen(d)]'[c]]
    BY <1>l
  <1>o. ASSUME ~Landed(c), ~Landed(c)'
        PROVE  UNCHANGED [d \in Calls |-> IF chain[d] \in {"executed", "reverted"}
                                         THEN chain[d] ELSE "none"]
    BY <1>o, <1>l DEF Landed
  <1>2. CASE ReadBefore(c) \/ Wake(c) \/ SeesConfirmed(c) \/ Takes(c) \/ Drops(c)
    <2>1. CASE ReadBefore(c)
      <3>1. stage[c] = "start" /\ stage'[c] = "preparing" /\ chain'[c] = chain[c]
        BY <2>1 DEF ReadBefore, AnswerInv, TypeOK
      <3> QED  BY <1>1, <1>s, <1>n, <3>1 DEF SeenFits, Landed
    <2>2. CASE Wake(c) \/ SeesConfirmed(c)
      <3>1. /\ stage[c] \in {"sleeping", "polling"} /\ stage'[c] \in {"polling", "measuring"}
            /\ chain'[c] = chain[c]
        BY <2>2 DEF Wake, SeesConfirmed, AnswerInv, TypeOK
      <3> QED  BY <1>1, <1>s, <1>n, <3>1 DEF SeenFits, Landed
    <2>3. CASE Takes(c) \/ Drops(c)
      <3>1. /\ stage'[c] = stage[c] /\ res'[c] = res[c]
            /\ chain[c] = "sent" /\ chain'[c] \in {"handed", "dropped"}
        BY <2>3 DEF Takes, Drops, AnswerInv, TypeOK
      <3>2. PhaseSeen(c)' = PhaseSeen(c)  BY <3>1 DEF PhaseSeen
      <3>3. AnswerSeen(c)' = AnswerSeen(c)  BY <3>1, <3>2 DEF AnswerSeen
      <3> QED  BY <1>1, <3>1, <3>2, <3>3 DEF Landed
    <2> QED  BY <1>2, <2>1, <2>2, <2>3
  <1>3. CASE Refused(c)
    <2>1. /\ stage[c] = "preparing" /\ stage'[c] = "done"
          /\ chain[c] = "held" /\ chain' = chain
      BY <1>3, <1>f DEF Refused, AnswerInv, TypeOK, AnswerFits
    <2>2. res'[c].status # "Submit"
      <3>1. PICK e \in {"Rpc", "Simulation", "Build", "Sign"} : res'[c] = Error(e)
        BY <1>3 DEF Refused, AnswerInv, TypeOK
      <3> QED  BY <3>1 DEF Error
    <2>3. /\ PhaseSeen(c) = "open" /\ PhaseSeen(c)' = "refused"
          /\ AnswerSeen(c)' = SubmitAnswer("err", res'[c].status)
      BY <1>s, <1>n, <2>1 DEF SeenFits
    <2>4. UNCHANGED [d \in Calls |-> IF chain[d] \in {"executed", "reverted"}
                                    THEN chain[d] ELSE "none"]
      BY <2>1
    <2>5. Contract!Becomes(c, "refused")  BY <1>p, <2>3 DEF Contract!Becomes
    <2>6. Contract!Answers(c)  BY <1>a DEF Contract!Answers
    <2>7. AnswerSeen(c)'.kind = "err" /\ AnswerSeen(c)'.error # "Submit"
      BY <2>2, <2>3 DEF SubmitAnswer
    <2>8. Contract!Refuse(c)
      BY <2>3, <2>4, <2>5, <2>6, <2>7 DEF Contract!Refuse
    <2> QED  BY <2>8
  <1>4. CASE HandedOver(c)
    <2>1. /\ stage[c] = "preparing" /\ stage'[c] = "submitting"
          /\ chain[c] = "held" /\ chain'[c] = "sent"
      BY <1>4, <1>f DEF HandedOver, AnswerInv, TypeOK, AnswerFits
    <2>2. /\ PhaseSeen(c) = "open" /\ PhaseSeen(c)' = "handed"
          /\ AnswerSeen(c)' = AnswerSeen(c)
      BY <1>s, <1>n, <2>1 DEF SeenFits
    <2>3. Contract!Becomes(c, "handed")  BY <1>p, <2>2 DEF Contract!Becomes
    <2>4. UNCHANGED [d \in Calls |-> AnswerSeen(d)]  BY <1>l, <2>2
    <2>5. ~Landed(c) /\ ~Landed(c)'  BY <2>1 DEF Landed
    <2>6. Contract!Hand(c)
      BY <1>o, <2>2, <2>3, <2>4, <2>5 DEF Contract!Hand
    <2> QED  BY <2>6
  <1>5. CASE SubmitFails(c) \/ SubmitAnswers(c)
    <2>1. /\ stage[c] = "submitting" /\ chain[c] # "held" /\ chain' = chain
          /\ \/ stage'[c] = "polling"
             \/ stage'[c] = "done" /\ res'[c] = Error("Submit")
      BY <1>5, <1>f DEF SubmitFails, SubmitAnswers, AnswerInv, TypeOK, AnswerFits
    <2>2. Error("Submit").status = "Submit"  BY DEF Error
    <2>3. /\ PhaseSeen(c) = "handed" /\ PhaseSeen(c)' = "answered"
          /\ AnswerSeen(c)' \in {SubmitAnswer("ok", "None"), SubmitAnswer("err", "Submit")}
      BY <1>s, <1>n, <2>1, <2>2 DEF SeenFits
    <2>4. Contract!Becomes(c, "answered")  BY <1>p, <2>3 DEF Contract!Becomes
    <2>5. Contract!Answers(c)  BY <1>a DEF Contract!Answers
    <2>6. UNCHANGED [d \in Calls |-> IF chain[d] \in {"executed", "reverted"}
                                    THEN chain[d] ELSE "none"]
      BY <2>1
    <2>7. \/ /\ AnswerSeen(c)'.kind = "ok" /\ AnswerSeen(c)'.spons = 0
             /\ AnswerSeen(c)'.app + AnswerSeen(c)'.spons = 0
          \/ AnswerSeen(c)' = Contract!Doubt
      BY <2>3 DEF SubmitAnswer, Contract!Doubt
    <2>8. Contract!Answer(c)
      BY <2>3, <2>4, <2>5, <2>6, <2>7 DEF Contract!Answer
    <2> QED  BY <2>8
  <1>6. CASE StatusFails(c) \/ SeesFailed(c) \/ SeesNothing(c) \/ ReadAfter(c)
    <2>1. /\ stage[c] \in {"polling", "measuring"} /\ chain' = chain
          /\ stage'[c] \in {"sleeping", "done"}
      BY <1>6 DEF StatusFails, SeesFailed, SeesNothing, ReadAfter, AnswerInv, TypeOK
    <2>2. stage'[c] = "done" => res'[c].status # "Submit"
      <3>1. CASE StatusFails(c)
        BY <3>1 DEF StatusFails, AnswerInv, TypeOK, Error
      <3>2. CASE SeesFailed(c)
        BY <3>2 DEF SeesFailed, AnswerInv, TypeOK, Answer
      <3>3. CASE SeesNothing(c)
        BY <3>3 DEF SeesNothing, AnswerInv, TypeOK, Answer
      <3>4. CASE ReadAfter(c)
        <4>1. PICK n : res'[c] = Answer("Confirmed", n)
          BY <3>4 DEF ReadAfter, AnswerInv, TypeOK
        <4> QED  BY <4>1 DEF Answer
      <3> QED  BY <1>6, <3>1, <3>2, <3>3, <3>4
    <2>3. chain[c] # "held"  BY <1>f, <2>1 DEF AnswerFits, Taken
    <2>4. PhaseSeen(c)' = PhaseSeen(c) /\ AnswerSeen(c)' = AnswerSeen(c)
      BY <1>s, <1>n, <2>1, <2>2, <2>3 DEF SeenFits
    <2> QED  BY <1>1, <2>1, <2>4 DEF Landed
  <1>7. CASE Execute(c) \/ Revert(c)
    <2>1. /\ stage' = stage /\ res' = res
          /\ chain[c] = "handed" /\ chain'[c] \in {"executed", "reverted"}
      BY <1>7 DEF Execute, Revert, calls, AnswerInv, TypeOK
    <2>2. PhaseSeen(c)' = PhaseSeen(c)  BY <2>1 DEF PhaseSeen
    <2>3. AnswerSeen(c)' = AnswerSeen(c)  BY <2>1, <2>2 DEF AnswerSeen
    <2>4. PhaseSeen(c) \in {"handed", "answered"}
      BY <1>f, <2>1 DEF PhaseSeen, AnswerFits
    <2>5. /\ UNCHANGED [d \in Calls |-> PhaseSeen(d)]
          /\ UNCHANGED [d \in Calls |-> AnswerSeen(d)]
      BY <1>l, <2>2, <2>3
    <2> DEFINE Outcome == [d \in Calls |-> IF chain[d] \in {"executed", "reverted"}
                                          THEN chain[d] ELSE "none"]
    <2>6. Outcome[c] = "none" /\ Outcome' = [Outcome EXCEPT ![c] = chain'[c]]
      BY <1>l, <2>1
    <2>7. Contract!Land(c)
      BY <2>1, <2>4, <2>5, <2>6 DEF Contract!Land
    <2> QED  BY <2>7
  <1> QED  BY <1>2, <1>3, <1>4, <1>5, <1>6, <1>7 DEF Own, Step, Poll

\* The submit inside swap implements the contract that SwapExecution keeps.
THEOREM SwapKeepsContract == Spec => KeepsContract
  <1>1. AnswerInv /\ [Next]_vars => [Contract!Next]_(Contract!vars)
    <2> SUFFICES ASSUME AnswerInv, [Next]_vars
                 PROVE  Contract!Next \/ UNCHANGED Contract!vars
      OBVIOUS
    <2>1. ASSUME NEW c \in Calls, Own(c) PROVE Contract!Next \/ UNCHANGED Contract!vars
      BY <2>1, ContractStep DEF Contract!Next
    <2>2. CASE OwnerMoves \/ Finalize \/ Tick \/ UNCHANGED vars
      <3>1. stage' = stage /\ chain' = chain /\ res' = res
        BY <2>2 DEF OwnerMoves, Finalize, Tick, vars, calls, world
      <3> QED  BY <3>1 DEF Contract!vars, PhaseSeen, AnswerSeen
    <2> QED  BY <2>1, <2>2 DEF Next, Own
  <1> QED
    BY <1>1, ContractInit, AnswerInit, AnswerNext, PTL DEF Spec, KeepsContract, Contract!Spec

-----------------------------------------------------------------------------
(* What swap reports as received. *)

Rises(r, j) == \A i \in (r + 1)..j : Change(i) >= 0
Falls(r, j) == \A i \in (r + 1)..j : Change(i) <= 0

\* Over a stretch of rises the balance ends no lower, of falls no higher.
HistoryOrdered ==
    \A r \in 1..Len(hist) : \A j \in r..Len(hist) :
        /\ Rises(r, j) => hist[j].bal >= hist[r].bal
        /\ Falls(r, j) => hist[j].bal <= hist[r].bal

LEMMA BalancesType ==
    ASSUME TypeOK
    PROVE  /\ \A i \in 1..Len(hist) : hist[i].bal \in Nat
           /\ \A i \in 2..Len(hist) : Change(i) \in Int
  <1>1. \A i \in 1..Len(hist) : hist[i] \in Entry  BY DEF TypeOK
  <1>2. \A i \in 1..Len(hist) : hist[i].bal \in Nat  BY <1>1 DEF Entry
  <1>3. Len(hist) \in Nat  BY DEF TypeOK
  <1>4. ASSUME NEW i \in 2..Len(hist) PROVE Change(i) \in Int
    <2>1. i \in 1..Len(hist) /\ i - 1 \in 1..Len(hist)  BY <1>3
    <2> QED  BY <1>2, <2>1 DEF Change
  <1> QED  BY <1>2, <1>4

\* A new entry leaves the old ones, and their changes, as they were.
LEMMA OldEntries ==
    ASSUME TypeOK, NEW who \in Calls \cup {"owner"}, NEW bal \in Int, Record(who, bal),
           NEW n, n = Len(hist)
    PROVE  /\ n \in Nat /\ n >= 1 /\ Len(hist') = n + 1
           /\ \A i \in 1..n : hist'[i] = hist[i]
           /\ \A i \in 2..n : Change(i)' = Change(i)
           /\ hist'[n + 1].who = who
           /\ Change(n + 1)' = bal - Balance
           /\ Change(n + 1)' = hist'[n + 1].bal - hist[n].bal
  <1>1. /\ n \in Nat /\ n >= 1  BY DEF TypeOK
  <1>2. /\ Len(hist') = n + 1
        /\ \A i \in 1..n : hist'[i] = hist[i]
        /\ hist'[n + 1] = [who |-> who, bal |-> bal]
    BY RecordType
  <1>3. ASSUME NEW i \in 2..n PROVE Change(i)' = Change(i)
    <2>1. i \in 1..n /\ i - 1 \in 1..n  BY <1>1
    <2> QED  BY <1>2, <2>1 DEF Change
  <1>4. /\ Change(n + 1)' = bal - Balance
        /\ Change(n + 1)' = hist'[n + 1].bal - hist[n].bal
    <2>1. n \in 1..n /\ (n + 1) - 1 = n  BY <1>1
    <2>2. Change(n + 1)' = hist'[n + 1].bal - hist'[n].bal
      BY <2>1 DEF Change
    <2> QED  BY <1>2, <2>1, <2>2 DEF Balance
  <1> QED  BY <1>1, <1>2, <1>3, <1>4

LEMMA OrderedAppend ==
    ASSUME TypeOK, TypeOK', HistoryOrdered,
           NEW who \in Calls \cup {"owner"}, NEW bal \in Int, Record(who, bal)
    PROVE  HistoryOrdered'
  <1>n. PICK n : n = Len(hist)  OBVIOUS
  <1>1. /\ n \in Nat /\ Len(hist') = n + 1
        /\ \A i \in 1..n : hist'[i] = hist[i]
        /\ \A i \in 2..n : Change(i)' = Change(i)
        /\ Change(n + 1)' = hist'[n + 1].bal - hist[n].bal
    BY <1>n, OldEntries
  <1>2. \A i \in 1..(n + 1) : hist'[i].bal \in Nat
    <2>1. (TypeOK => \A i \in 1..Len(hist) : hist[i].bal \in Nat)'  BY BalancesType, PTL
    <2> QED  BY <1>1, <2>1
  <1>3. ASSUME NEW r \in 1..(n + 1), NEW j \in r..(n + 1)
        PROVE  /\ Rises(r, j)' => hist'[j].bal >= hist'[r].bal
               /\ Falls(r, j)' => hist'[j].bal <= hist'[r].bal
    <2>1. ASSUME NEW k \in r..n
          PROVE  /\ Rises(r, k)' => hist[k].bal >= hist[r].bal
                 /\ Falls(r, k)' => hist[k].bal <= hist[r].bal
      <3>1. r \in 1..n /\ k \in 1..n /\ \A i \in (r + 1)..k : i \in 2..n  BY <1>1
      <3>2. (Rises(r, k)' => Rises(r, k)) /\ (Falls(r, k)' => Falls(r, k))
        BY <1>1, <3>1 DEF Rises, Falls
      <3> QED  BY <1>n, <3>1, <3>2 DEF HistoryOrdered
    <2>2. CASE j <= n
      <3>1. j \in r..n /\ r \in 1..n /\ j \in 1..n  BY <1>1, <2>2
      <3> QED  BY <1>1, <2>1, <3>1
    <2>3. CASE j = n + 1 /\ r = n + 1
      BY <1>1, <1>2, <2>3
    <2>4. CASE j = n + 1 /\ r <= n
      <3>1. r \in 1..n /\ n \in r..n /\ n \in 1..n /\ n + 1 \in (r + 1)..(n + 1)
        BY <1>1, <2>4
      <3>2. \A i \in (r + 1)..n : i \in (r + 1)..(n + 1)  BY <1>1, <3>1
      <3>3. /\ Rises(r, j)' => Rises(r, n)' /\ Change(n + 1)' >= 0
            /\ Falls(r, j)' => Falls(r, n)' /\ Change(n + 1)' <= 0
        BY <2>4, <3>1, <3>2 DEF Rises, Falls
      <3>5. /\ hist'[n + 1].bal \in Nat /\ hist[n].bal \in Nat /\ hist[r].bal \in Nat
            /\ hist'[r].bal = hist[r].bal
        BY <1>1, <1>2, <3>1
      <3>6. /\ Rises(r, n)' => hist[n].bal >= hist[r].bal
            /\ Falls(r, n)' => hist[n].bal <= hist[r].bal
        BY <2>1, <3>1
      <3> QED  BY <1>1, <2>4, <3>3, <3>5, <3>6
    <2> QED  BY <1>1, <2>2, <2>3, <2>4
  <1> QED  BY <1>1, <1>3 DEF HistoryOrdered

\* The one entry of an executed transaction: after the first read, before a
\* second read at confirmed commitment, and an execution's change.
OwnEntry(c, e) ==
    /\ e \in 2..Len(hist) /\ readAt[c] < e
    /\ \E out \in Outputs : Change(e) = out - cost[c]
    /\ \A k \in 1..Len(hist) : hist[k].who = c => k = e
    /\ doneAt[c] # 0 /\ view = "confirmed" => e <= doneAt[c]

LedgerFits(c) ==
    /\ before[c] = BalanceRead(readAt[c])
    /\ stage[c] = "start" => readAt[c] = 0
    /\ doneAt[c] # 0 => res[c].status = "Confirmed"
    /\ res[c].status = "Confirmed" =>
          res[c].received = Received(BalanceRead(doneAt[c]), before[c])
    /\ ~Landed(c) => \A k \in 1..Len(hist) : hist[k].who # c
    /\ chain[c] = "executed" => \E e \in 2..Len(hist) : OwnEntry(c, e)

LedgerInv == AnswerInv /\ HistoryOrdered /\ \A c \in Calls : LedgerFits(c)

LEMMA LedgerInit == Init => LedgerInv
  <1> SUFFICES ASSUME Init PROVE LedgerInv  OBVIOUS
  <1>1. AnswerInv  BY AnswerInit
  <1>2. Len(hist) = 1 /\ hist[1] = [who |-> "owner", bal |-> Start]  BY DEF Init
  <1>3. HistoryOrdered
    <2>1. \A r \in 1..1 : \A j \in r..1 : j = r  OBVIOUS
    <2>2. Start \in Nat /\ hist[1].bal = Start  BY <1>2, ConfirmationAssumption
    <2> QED  BY <1>2, <2>1, <2>2 DEF HistoryOrdered
  <1>4. ASSUME NEW c \in Calls PROVE LedgerFits(c)
    <2>1. c # "owner"  BY ConfirmationAssumption
    <2>2. \A k \in 1..Len(hist) : hist[k].who # c  BY <1>2, <2>1
    <2>3. NotYet.status # "Confirmed"  BY DEF NotYet
    <2> QED  BY <2>2, <2>3 DEF Init, LedgerFits, BalanceRead
  <1> QED  BY <1>1, <1>3, <1>4 DEF LedgerInv

\* A step that records nothing: only the two reads touch what is kept here.
LEMMA LedgerQuiet ==
    ASSUME LedgerInv, NEW c \in Calls, hist' = hist, cost' = cost, view' = view,
           UNCHANGED << before[c], readAt[c], doneAt[c] >>,
           stage'[c] = "start" => stage[c] = "start",
           Landed(c)' = Landed(c), chain'[c] = "executed" => chain[c] = "executed",
           doneAt[c] # 0 => res'[c] = res[c],
           res'[c].status = "Confirmed" => res'[c] = res[c]
    PROVE  LedgerFits(c)'
  <1> QED  BY DEF LedgerInv, LedgerFits, OwnEntry, BalanceRead, Change, Received, Monus

\* The step that lands, for the call itself and for the others.
LEMMA LedgerAppend ==
    ASSUME LedgerInv, NEW who \in Calls \cup {"owner"}, NEW bal \in Int, Record(who, bal),
           NEW c \in Calls, who # c, chain'[c] = chain[c], UNCHANGED calls
    PROVE  LedgerFits(c)'
  <1>n. PICK n : n = Len(hist)  OBVIOUS
  <1>t. TypeOK /\ LedgerFits(c)  BY DEF LedgerInv, AnswerInv
  <1>1. /\ n \in Nat /\ Len(hist') = n + 1
        /\ \A i \in 1..n : hist'[i] = hist[i]
        /\ \A i \in 2..n : Change(i)' = Change(i)
        /\ hist'[n + 1].who = who
    BY <1>n, <1>t, OldEntries
  <1>2. /\ UNCHANGED << stage, res, before, readAt, doneAt, cost, view >>
        /\ chain'[c] = chain[c]
    BY DEF calls
  <1>3. \A i \in 0..n : BalanceRead(i)' = BalanceRead(i)
    BY <1>1 DEF BalanceRead
  <1>4. readAt[c] \in 0..n /\ doneAt[c] \in 0..n  BY <1>n, <1>t DEF TypeOK
  <1>5. /\ BalanceRead(readAt[c])' = BalanceRead(readAt[c])
        /\ BalanceRead(doneAt[c])' = BalanceRead(doneAt[c])
    BY <1>1, <1>2, <1>4 DEF BalanceRead
  <1>6. ~Landed(c)' => \A k \in 1..(n + 1) : hist'[k].who # c
    BY <1>n, <1>t, <1>1, <1>2 DEF LedgerFits, Landed
  <1>7. ASSUME chain[c] = "executed" PROVE \E e \in 2..(n + 1) : OwnEntry(c, e)'
    <2>1. PICK e \in 2..n : OwnEntry(c, e)  BY <1>n, <1>t, <1>7 DEF LedgerFits
    <2>2. e \in 2..(n + 1) /\ e \in 1..n  BY <1>1
    <2>3. \A k \in 1..(n + 1) : hist'[k].who = c => k = e
      BY <1>n, <1>1, <2>1 DEF OwnEntry
    <2>4. \E out \in Outputs : Change(e)' = out - cost'[c]
      BY <1>1, <1>2, <2>1 DEF OwnEntry
    <2>5. OwnEntry(c, e)'
      BY <1>n, <1>1, <1>2, <2>1, <2>2, <2>3, <2>4 DEF OwnEntry
    <2> QED  BY <2>2, <2>5
  <1>8. /\ before'[c] = BalanceRead(readAt[c])'
        /\ stage'[c] = "start" => readAt'[c] = 0
        /\ doneAt'[c] # 0 => res'[c].status = "Confirmed"
        /\ res'[c].status = "Confirmed" =>
              res'[c].received = Received(BalanceRead(doneAt[c])', before'[c])
    BY <1>t, <1>2, <1>5 DEF LedgerFits
  <1> QED  BY <1>1, <1>2, <1>6, <1>7, <1>8 DEF LedgerFits

\* A step of c that records nothing and is not one of the two reads.
LEMMA LedgerControl ==
    ASSUME LedgerInv, NEW c \in Calls,
           \/ Refused(c) \/ HandedOver(c) \/ SubmitFails(c) \/ SubmitAnswers(c)
           \/ Poll(c) \/ Wake(c) \/ Takes(c) \/ Drops(c)
    PROVE  LedgerFits(c)'
  <1>t. TypeOK /\ AnswerFits(c) /\ LedgerFits(c)  BY DEF LedgerInv, AnswerInv
  <1>1. /\ hist' = hist /\ cost' = cost /\ view' = view
        /\ UNCHANGED << before, readAt, doneAt >>
    BY DEF Refused, HandedOver, SubmitFails, SubmitAnswers, Poll, StatusFails,
           SeesConfirmed, SeesFailed, SeesNothing, Wake, Takes, Drops, world
  <1>2. \/ stage[c] # "done" /\ (stage'[c] = stage[c] \/ stage'[c] # "start")
        \/ stage' = stage
    BY <1>t
    DEF Refused, HandedOver, SubmitFails, SubmitAnswers, Poll, StatusFails,
        SeesConfirmed, SeesFailed, SeesNothing, Wake, Takes, Drops, At, Goto, Return, TypeOK
  <1>3. \/ chain' = chain
        \/ chain[c] = "held" /\ chain'[c] = "sent"
        \/ chain[c] = "sent" /\ chain'[c] \in {"handed", "dropped"}
    BY <1>t
    DEF Refused, HandedOver, SubmitFails, SubmitAnswers, Poll, StatusFails,
        SeesConfirmed, SeesFailed, SeesNothing, Wake, Takes, Drops, At, TypeOK, AnswerFits
  <1>4. res' = res \/ (stage[c] # "done" /\ res'[c].status # "Confirmed")
    <2>1. CASE Refused(c)
      <3>1. PICK e \in {"Rpc", "Simulation", "Build", "Sign"} : res'[c] = Error(e)
        BY <1>t, <2>1 DEF Refused, Return, TypeOK
      <3> QED  BY <2>1, <3>1 DEF Refused, At, Error
    <2>2. CASE SubmitFails(c) \/ StatusFails(c)
      <3>1. res'[c] = Error("Submit") \/ res'[c] = Error("Rpc: signature status")
        BY <1>t, <2>2 DEF SubmitFails, StatusFails, Return, TypeOK
      <3>2. /\ Error("Submit").status = "Submit"
            /\ Error("Rpc: signature status").status = "Rpc: signature status"
        BY DEF Error
      <3>3. res'[c].status # "Confirmed"  BY <3>1, <3>2
      <3>4. stage[c] # "done"  BY <2>2 DEF SubmitFails, StatusFails, At
      <3> QED  BY <3>3, <3>4
    <2>3. CASE SeesFailed(c)
      BY <1>t, <2>3 DEF SeesFailed, At, Return, TypeOK, Answer
    <2>4. CASE SeesNothing(c)
      BY <1>t, <2>4 DEF SeesNothing, At, Return, TypeOK, Answer
    <2>5. CASE HandedOver(c) \/ SubmitAnswers(c) \/ SeesConfirmed(c) \/ Wake(c)
               \/ Takes(c) \/ Drops(c)
      BY <2>5 DEF HandedOver, SubmitAnswers, SeesConfirmed, Wake, Takes, Drops
    <2> QED  BY <2>1, <2>2, <2>3, <2>4, <2>5 DEF Poll
  <1>5. stage[c] # "done" => doneAt[c] = 0
    <2>1. NotYet.status # "Confirmed"  BY DEF NotYet
    <2> QED  BY <1>t, <2>1 DEF AnswerFits, LedgerFits
  <1>6. /\ UNCHANGED << before[c], readAt[c], doneAt[c] >>
        /\ stage'[c] = "start" => stage[c] = "start"
        /\ Landed(c)' = Landed(c)
        /\ chain'[c] = "executed" => chain[c] = "executed"
    BY <1>1, <1>2, <1>3 DEF Landed
  <1>7. /\ doneAt[c] # 0 => res'[c] = res[c]
        /\ res'[c].status = "Confirmed" => res'[c] = res[c]
    BY <1>4, <1>5
  <1> QED  BY <1>1, <1>6, <1>7, LedgerQuiet

LEMMA LedgerReads ==
    ASSUME LedgerInv, NEW c \in Calls, ReadBefore(c) \/ ReadAfter(c)
    PROVE  LedgerFits(c)'
  <1>t. TypeOK /\ AnswerFits(c) /\ LedgerFits(c)  BY DEF LedgerInv, AnswerInv
  <1>1. hist' = hist /\ cost' = cost /\ view' = view /\ chain' = chain
    BY DEF ReadBefore, ReadAfter, world
  <1>2. \A k : BalanceRead(k)' = BalanceRead(k)  BY <1>1 DEF BalanceRead
  <1>3. NotYet.status # "Confirmed"  BY DEF NotYet
  <1>4. CASE ReadBefore(c)
    <2>1. PICK entry \in {0, SeenEntry} :
             /\ readAt' = [readAt EXCEPT ![c] = entry]
             /\ before' = [before EXCEPT ![c] = BalanceRead(entry)]
      BY <1>4 DEF ReadBefore
    <2>2. /\ readAt'[c] = entry /\ before'[c] = BalanceRead(entry)
          /\ stage'[c] = "preparing" /\ chain[c] = "held"
          /\ doneAt' = doneAt /\ res' = res /\ res[c] = NotYet
      BY <1>t, <1>4, <2>1 DEF ReadBefore, At, Goto, TypeOK, AnswerFits
    <2>3. before'[c] = BalanceRead(readAt[c])'  BY <1>1, <2>2 DEF BalanceRead
    <2>4. ~Landed(c) /\ ~Landed(c)'  BY <1>1, <2>2 DEF Landed
    <2>5. \A k \in 1..Len(hist') : hist'[k].who # c  BY <1>t, <1>1, <2>4 DEF LedgerFits
    <2> QED  BY <1>t, <1>1, <1>3, <2>2, <2>3, <2>4, <2>5 DEF LedgerFits
  <1>5. CASE ReadAfter(c)
    <2>1. PICK entry \in {0, SeenEntry} :
             /\ doneAt' = [doneAt EXCEPT ![c] = entry]
             /\ Return(c, Answer("Confirmed", Received(BalanceRead(entry), before[c])))
      BY <1>5 DEF ReadAfter
    <2>2. PICK v : v = Received(BalanceRead(entry), before[c])  OBVIOUS
    <2>3. /\ doneAt'[c] = entry /\ res'[c] = Answer("Confirmed", v)
          /\ stage'[c] = "done" /\ chain[c] = "executed"
          /\ before' = before /\ readAt' = readAt
      BY <1>t, <1>5, <2>1, <2>2 DEF ReadAfter, At, Goto, Return, TypeOK, AnswerFits
    <2>4. res'[c].status = "Confirmed" /\ res'[c].received = v  BY <2>3 DEF Answer
    <2>5. v = Received(BalanceRead(doneAt[c])', before'[c])
      BY <1>1, <2>2, <2>3 DEF BalanceRead, Received, Monus
    <2>6. before'[c] = BalanceRead(readAt[c])'
      BY <1>t, <1>1, <2>3 DEF BalanceRead, LedgerFits
    <2>7. PICK e \in 2..Len(hist) : OwnEntry(c, e)  BY <1>t, <2>3 DEF LedgerFits
    <2>8. entry # 0 /\ view = "confirmed" => e <= entry  BY DEF SeenEntry
    <2>9. OwnEntry(c, e)'
      BY <1>1, <2>3, <2>7, <2>8 DEF OwnEntry, Change
    <2>10. Landed(c)'  BY <1>1, <2>3 DEF Landed
    <2>11. \E k \in 2..Len(hist') : OwnEntry(c, k)'  BY <1>1, <2>7, <2>9
    <2> QED  BY <2>3, <2>4, <2>5, <2>6, <2>10, <2>11 DEF LedgerFits
  <1> QED  BY <1>4, <1>5

\* The step that lands c's transaction: its own entry is the last one.
LEMMA LedgerLands ==
    ASSUME LedgerInv, NEW c \in Calls, Execute(c) \/ Revert(c)
    PROVE  LedgerFits(c)' /\ HistoryOrdered'
  <1>n. PICK n : n = Len(hist)  OBVIOUS
  <1>t. TypeOK /\ AnswerFits(c) /\ LedgerFits(c) /\ HistoryOrdered
    BY DEF LedgerInv, AnswerInv
  <1>a. /\ chain[c] = "handed" /\ chain'[c] \in {"executed", "reverted"} /\ UNCHANGED calls
    BY <1>t DEF Execute, Revert, TypeOK
  <1>b. PICK bal \in Int :
           /\ Record(c, bal)
           /\ chain'[c] = "executed" => \E out \in Outputs : bal = Balance + out - cost[c]
    <2>1. CASE Execute(c)
      <3>1. PICK out \in Outputs : Record(c, Balance + out - cost[c])  BY <2>1 DEF Execute
      <3>2. PICK bal \in Int : bal = Balance + out - cost[c]
        BY <1>t, BalanceType, MoneyType
      <3> QED  BY <3>1, <3>2
    <2>2. CASE Revert(c)
      <3>1. Record(c, Balance - cost[c]) /\ chain'[c] = "reverted"
        BY <1>t, <2>2 DEF Revert, TypeOK
      <3>2. PICK bal \in Int : bal = Balance - cost[c]  BY <1>t, BalanceType, MoneyType
      <3> QED  BY <3>1, <3>2
    <2> QED  BY <2>1, <2>2
  <1>1. /\ n \in Nat /\ n >= 1 /\ Len(hist') = n + 1
        /\ \A i \in 1..n : hist'[i] = hist[i]
        /\ hist'[n + 1].who = c
        /\ Change(n + 1)' = bal - Balance
    BY <1>n, <1>t, <1>b, OldEntries
  <1>2. UNCHANGED << stage, res, before, readAt, doneAt, cost, view >>
    BY <1>a DEF calls
  <1>3. readAt[c] \in 0..n /\ doneAt[c] \in 0..n  BY <1>n, <1>t DEF TypeOK
  <1>4. /\ BalanceRead(readAt[c])' = BalanceRead(readAt[c])
        /\ BalanceRead(doneAt[c])' = BalanceRead(doneAt[c])
    BY <1>1, <1>2, <1>3 DEF BalanceRead
  <1>5. \A k \in 1..n : hist[k].who # c  BY <1>n, <1>t, <1>a DEF LedgerFits, Landed
  <1>6. \A k \in 1..(n + 1) : hist'[k].who = c => k = n + 1
    <2>1. ASSUME NEW k \in 1..(n + 1), k # n + 1 PROVE hist'[k].who # c
      <3>1. k \in 1..n  BY <1>1, <2>1
      <3> QED  BY <1>1, <1>5, <3>1
    <2> QED  BY <2>1
  <1>7. doneAt[c] = 0
    <2>1. res[c].status # "Confirmed"
      <3>1. chain[c] # "executed"  BY <1>a
      <3>2. StatusTruthful  BY AnswerTruth DEF LedgerInv
      <3> QED  BY <3>1, <3>2 DEF StatusTruthful
    <2> QED  BY <1>t, <2>1 DEF LedgerFits
  <1>8. ASSUME chain'[c] = "executed" PROVE \E e \in 2..(n + 1) : OwnEntry(c, e)'
    <2>1. PICK out \in Outputs : bal = Balance + out - cost[c]  BY <1>b, <1>8
    <2>2. out \in Int /\ cost[c] \in Int /\ Balance \in Int
      BY <1>t, BalanceType, MoneyType
    <2>3. Change(n + 1)' = out - cost'[c]  BY <1>1, <1>2, <2>1, <2>2
    <2>4. n + 1 \in 2..(n + 1) /\ readAt[c] < n + 1  BY <1>1, <1>3
    <2>5. OwnEntry(c, n + 1)'
      BY <1>1, <1>2, <1>6, <1>7, <2>3, <2>4 DEF OwnEntry
    <2> QED  BY <2>4, <2>5
  <1>9. Landed(c)'  BY <1>a DEF Landed
  <1>10. LedgerFits(c)'
    BY <1>t, <1>1, <1>2, <1>4, <1>8, <1>9 DEF LedgerFits
  <1>11. TypeOK'
    <2>1. [Next]_vars  BY DEF Next
    <2> QED  BY <1>t, <2>1, TypeNext
  <1> QED  BY <1>t, <1>b, <1>10, <1>11, OrderedAppend

LEMMA LedgerNext == LedgerInv /\ [Next]_vars => LedgerInv'
  <1> SUFFICES ASSUME LedgerInv, [Next]_vars PROVE LedgerInv'  OBVIOUS
  <1>t. TypeOK /\ AnswerInv /\ HistoryOrdered  BY DEF LedgerInv, AnswerInv
  <1>1. AnswerInv' /\ TypeOK'  BY <1>t, AnswerNext DEF AnswerInv
  <1>2. ASSUME NEW c \in Calls, Execute(c) \/ Revert(c)
        PROVE  HistoryOrdered' /\ \A d \in Calls : LedgerFits(d)'
    <2>1. LedgerFits(c)' /\ HistoryOrdered'  BY <1>2, LedgerLands
    <2>2. PICK bal \in Int : Record(c, bal)
      <3>1. CASE Execute(c)
        <4>1. PICK out \in Outputs : Record(c, Balance + out - cost[c])
          BY <3>1 DEF Execute
        <4> QED  BY <1>t, <4>1, BalanceType, MoneyType
      <3>2. CASE Revert(c)
        BY <1>t, <3>2, BalanceType, MoneyType DEF Revert
      <3> QED  BY <1>2, <3>1, <3>2
    <2>3. ASSUME NEW d \in Calls, d # c PROVE LedgerFits(d)'
      <3>1. chain'[d] = chain[d] /\ UNCHANGED calls
        BY <1>t, <1>2, <2>3 DEF Execute, Revert, TypeOK
      <3> QED  BY <2>2, <2>3, <3>1, LedgerAppend
    <2> QED  BY <2>1, <2>3
  <1>3. ASSUME OwnerMoves
        PROVE  HistoryOrdered' /\ \A d \in Calls : LedgerFits(d)'
    <2>1. PICK m \in {-1, 1} : Record("owner", Balance + m)  BY <1>3 DEF OwnerMoves
    <2>2. PICK bal \in Int : bal = Balance + m  BY <1>t, BalanceType
    <2>3. chain' = chain /\ UNCHANGED calls  BY <1>3 DEF OwnerMoves
    <2>4. ASSUME NEW d \in Calls PROVE LedgerFits(d)'
      <3>1. d # "owner"  BY ConfirmationAssumption
      <3> QED  BY <2>1, <2>2, <2>3, <3>1, LedgerAppend
    <2> QED  BY <1>t, <1>1, <2>1, <2>2, <2>4, OrderedAppend
  <1>4. ASSUME hist' = hist PROVE HistoryOrdered'
    BY <1>t, <1>4 DEF HistoryOrdered, Rises, Falls, Change
  <1>5. ASSUME NEW c \in Calls, Step(c) \/ Takes(c) \/ Drops(c)
        PROVE  HistoryOrdered' /\ \A d \in Calls : LedgerFits(d)'
    <2>1. hist' = hist /\ cost' = cost /\ view' = view
      BY <1>5
      DEF Step, ReadBefore, ReadAfter, Refused, HandedOver, SubmitFails, SubmitAnswers,
          Poll, StatusFails, SeesConfirmed, SeesFailed, SeesNothing, Wake, Takes, Drops, world
    <2>2. LedgerFits(c)'  BY <1>5, LedgerControl, LedgerReads DEF Step
    <2>3. ASSUME NEW d \in Calls, d # c PROVE LedgerFits(d)'
      <3>1. UNCHANGED CallState(d)  BY <1>t, <1>5, <2>3, StepIsLocal DEF Own
      <3>2. /\ stage'[d] = stage[d] /\ chain'[d] = chain[d] /\ res'[d] = res[d]
            /\ UNCHANGED << before[d], readAt[d], doneAt[d] >>
        BY <3>1 DEF CallState
      <3> QED  BY <2>1, <3>2, LedgerQuiet DEF Landed
    <2> QED  BY <1>4, <2>1, <2>2, <2>3
  <1>6. ASSUME Finalize \/ Tick \/ UNCHANGED vars
        PROVE  HistoryOrdered' /\ \A d \in Calls : LedgerFits(d)'
    <2>1. /\ hist' = hist /\ cost' = cost /\ view' = view
          /\ UNCHANGED << stage, chain, res, before, readAt, doneAt >>
      BY <1>6 DEF Finalize, Tick, vars, calls, world
    <2>2. ASSUME NEW d \in Calls PROVE LedgerFits(d)'
      BY <2>1, LedgerQuiet DEF Landed
    <2> QED  BY <1>4, <2>1, <2>2
  <1> QED
    BY <1>1, <1>2, <1>3, <1>5, <1>6 DEF LedgerInv, Next

\* Between two reads around c's own entry, everything else rising (or falling),
\* the second read differs from the first by at least (at most) that entry.
LEMMA Stretch ==
    ASSUME LedgerInv, NEW c \in Calls, Measured(c)
    PROVE  \E out \in Outputs :
              /\ (\A i \in Between(c) : Change(i) >= 0) =>
                    BalanceRead(doneAt[c]) - before[c] >= out - cost[c]
              /\ (\A i \in Between(c) : Change(i) <= 0) =>
                    BalanceRead(doneAt[c]) - before[c] <= out - cost[c]
  <1>n. PICK n : n = Len(hist)  OBVIOUS
  <1>r. PICK r : r = readAt[c]  OBVIOUS
  <1>d. PICK d : d = doneAt[c]  OBVIOUS
  <1>t. TypeOK /\ LedgerFits(c) /\ HistoryOrdered  BY DEF LedgerInv, AnswerInv
  <1>1. n \in Nat /\ r \in 1..n /\ d \in 1..n
    BY <1>n, <1>r, <1>d, <1>t DEF TypeOK, Measured
  <1>2. chain[c] = "executed"
    <2>1. StatusTruthful  BY AnswerTruth DEF LedgerInv
    <2> QED  BY <2>1 DEF StatusTruthful, Measured
  <1>3. PICK e \in 2..n : OwnEntry(c, e)  BY <1>n, <1>t, <1>2 DEF LedgerFits
  <1>4. e \in (r + 1)..d /\ e - 1 \in r..n
    BY <1>1, <1>3, <1>r, <1>d DEF OwnEntry, Measured
  <1>5. PICK out \in Outputs : Change(e) = out - cost[c]  BY <1>3 DEF OwnEntry
  <1>6. \A i \in (r + 1)..d : i # e => i \in Between(c)
    <2>1. \A i \in (r + 1)..d : i \in 1..n  BY <1>1
    <2> QED  BY <1>n, <1>r, <1>d, <1>3, <2>1 DEF Between, OwnEntry
  <1>7. /\ (\A i \in Between(c) : Change(i) >= 0) => Rises(r, e - 1) /\ Rises(e, d)
        /\ (\A i \in Between(c) : Change(i) <= 0) => Falls(r, e - 1) /\ Falls(e, d)
    <2>1. \A i \in (r + 1)..(e - 1) : i \in (r + 1)..d /\ i # e  BY <1>1, <1>3, <1>4
    <2>2. \A i \in (e + 1)..d : i \in (r + 1)..d /\ i # e  BY <1>1, <1>3, <1>4
    <2> QED  BY <1>6, <2>1, <2>2 DEF Rises, Falls
  <1>8. d \in e..n /\ e \in 1..n /\ e - 1 \in 1..n  BY <1>1, <1>3, <1>4
  <1>9. /\ Rises(r, e - 1) => hist[e - 1].bal >= hist[r].bal
        /\ Falls(r, e - 1) => hist[e - 1].bal <= hist[r].bal
        /\ Rises(e, d) => hist[d].bal >= hist[e].bal
        /\ Falls(e, d) => hist[d].bal <= hist[e].bal
    BY <1>n, <1>t, <1>1, <1>4, <1>8 DEF HistoryOrdered
  <1>10. /\ hist[r].bal \in Int /\ hist[d].bal \in Int /\ hist[e].bal \in Int
         /\ hist[e - 1].bal \in Int /\ out \in Int /\ cost[c] \in Int
    BY <1>n, <1>t, <1>1, <1>8, BalancesType, MoneyType
  <1>11. hist[e].bal - hist[e - 1].bal = out - cost[c]  BY <1>5 DEF Change
  <1>12. BalanceRead(doneAt[c]) = hist[d].bal /\ before[c] = hist[r].bal
    BY <1>r, <1>d, <1>t, <1>1 DEF BalanceRead, LedgerFits
  <1> QED  BY <1>7, <1>9, <1>10, <1>11, <1>12

LEMMA LedgerBounds == LedgerInv => ReceivedAtLeastMinimum /\ ReceivedAtMostPaidOut
  <1> SUFFICES ASSUME LedgerInv, NEW c \in Calls, Measured(c)
               PROVE  /\ (\A i \in Between(c) : Change(i) >= 0) =>
                            res[c].received >= MinOut - cost[c]
                      /\ (\A i \in Between(c) : Change(i) <= 0) =>
                            \E out \in Outputs : res[c].received <= out
    BY DEF ReceivedAtLeastMinimum, ReceivedAtMostPaidOut
  <1>t. TypeOK /\ LedgerFits(c)  BY DEF LedgerInv, AnswerInv
  <1>1. PICK out \in Outputs :
           /\ (\A i \in Between(c) : Change(i) >= 0) =>
                 BalanceRead(doneAt[c]) - before[c] >= out - cost[c]
           /\ (\A i \in Between(c) : Change(i) <= 0) =>
                 BalanceRead(doneAt[c]) - before[c] <= out - cost[c]
    BY Stretch
  <1>2. PICK a : a = BalanceRead(doneAt[c])  OBVIOUS
  <1>3. res[c].received = Received(a, before[c])
    BY <1>t, <1>2 DEF LedgerFits, Measured
  <1>4. before[c] \in Nat /\ cost[c] \in Nat /\ out \in Nat /\ out >= MinOut /\ MinOut \in Nat
    BY <1>t, MoneyType, ConfirmationAssumption DEF TypeOK
  <1>5. a \in Nat
    <2>1. doneAt[c] \in 1..Len(hist)  BY <1>t DEF TypeOK, Measured
    <2>2. hist[doneAt[c]].bal \in Nat  BY <1>t, <2>1, BalancesType
    <2> QED  BY <1>2, <2>1, <2>2 DEF BalanceRead
  <1>6. res[c].received = IF a > before[c] THEN a - before[c] ELSE 0
    BY <1>3 DEF Received, Monus
  <1> QED  BY <1>1, <1>2, <1>4, <1>5, <1>6

\* client.rs:121-134: with both reads answered at confirmed commitment and only
\* credits beside the trade, the amount reported covers the enforced minimum
\* less the cost of landing, for any calls on the wallet and any transfers.
THEOREM ReceivedAtLeast == Spec => []ReceivedAtLeastMinimum
  BY LedgerInit, LedgerNext, LedgerBounds, PTL DEF Spec

\* The same reads, with only debits beside the trade, never report more than
\* an execution pays out.
THEOREM ReceivedAtMost == Spec => []ReceivedAtMostPaidOut
  BY LedgerInit, LedgerNext, LedgerBounds, PTL DEF Spec
=============================================================================

--------------------------- MODULE SequenceFacts ---------------------------
(***************************************************************************)
(* Facts about the operators of ListOps.  Both are defined by              *)
(* recursion, so the facts need induction on the length; it is stated      *)
(* about a set of numbers and follows from the well-foundedness of < on    *)
(* the naturals, without an operator as a parameter.                       *)
(***************************************************************************)
EXTENDS ListOps, SequenceTheorems, WellFoundedInduction, TLAPS

-----------------------------------------------------------------------------
(* Induction and recursion. *)

\* A set of numbers with 0 and every successor has all: its complement would
\* have a least element, whose predecessor is in the set.
LEMMA Induction ==
    ASSUME NEW S, S \subseteq Nat, 0 \in S, \A n \in S : n + 1 \in S
    PROVE  S = Nat
  <1> DEFINE T == Nat \ S
             R == OpToRel(<, Nat)
  <1>1. SUFFICES ASSUME T # {} PROVE FALSE
    OBVIOUS
  <1>2. IsWellFoundedOn(R, Nat)  BY NatLessThanWellFounded
  <1>3. PICK n \in T : \A m \in T : << m, n >> \notin R
    <2> HIDE DEF R
    <2> QED  BY <1>1, <1>2, WFMin
  <1>4. \A m \in T : ~ (m < n)
    BY <1>3 DEF OpToRel
  <1>5. n # 0 /\ n - 1 \in Nat  OBVIOUS
  <1>6. n - 1 \in S  BY <1>4, <1>5
  <1> QED  BY <1>5, <1>6

\* The same up to a bound.
LEMMA InductionTo ==
    ASSUME NEW N \in Nat, NEW S, 0 \in S, \A n \in 1..N : n - 1 \in S => n \in S
    PROVE  0..N \subseteq S
  <1> DEFINE T == {n \in Nat : n <= N => n \in S}
  <1>1. 0 \in T  OBVIOUS
  <1>2. \A n \in T : n + 1 \in T  OBVIOUS
  <1>3. T = Nat
    <2>1. T \subseteq Nat  OBVIOUS
    <2> HIDE DEF T
    <2> QED  BY <1>1, <1>2, <2>1, Induction
  <1> QED  BY <1>3

\* f starts with a and takes each later value by its step from the one before.
Follows(f, N, V, a, step) ==
    /\ f \in [0..N -> V]
    /\ f[0] = a
    /\ \A n \in 1..N : f[n] = step[n][f[n - 1]]

\* A value for 0 and a step for every later number determine a function.
LEMMA Recursion ==
    ASSUME NEW N \in Nat, NEW V, NEW a \in V, NEW step \in [1..N -> [V -> V]]
    PROVE  \E f : Follows(f, N, V, a, step)
  <1> DEFINE S == {n \in 0..N : \E f : Follows(f, n, V, a, step)}
  <1>1. 0 \in S
    <2> DEFINE f == [i \in 0..0 |-> a]
    <2>1. Follows(f, 0, V, a, step)  BY DEF Follows
    <2>2. 0 \in 0..N  OBVIOUS
    <2> HIDE DEF f
    <2> QED  BY <2>1, <2>2
  <1>2. ASSUME NEW n \in 1..N, n - 1 \in S PROVE n \in S
    <2>0. PICK f : Follows(f, n - 1, V, a, step)  BY <1>2
    <2>1. f \in [0..(n - 1) -> V] /\ f[0] = a /\ \A i \in 1..(n - 1) : f[i] = step[i][f[i - 1]]
      BY <2>0 DEF Follows
    <2> DEFINE g == [i \in 0..n |-> IF i = n THEN step[n][f[n - 1]] ELSE f[i]]
    <2>2. step[n][f[n - 1]] \in V  BY <2>1
    <2>3. g \in [0..n -> V]
      <3>1. \A i \in 0..n : i # n => i \in 0..(n - 1)  OBVIOUS
      <3> QED  BY <2>1, <2>2, <3>1
    <2>4. Follows(g, n, V, a, step)
      <3>1. g[0] = a  BY <2>1
      <3>2. ASSUME NEW i \in 1..n PROVE g[i] = step[i][g[i - 1]]
        <4>1. CASE i = n
          <5>1. g[i - 1] = f[n - 1]  BY <4>1
          <5> QED  BY <4>1, <5>1
        <4>2. CASE i # n
          <5>1. i \in 1..(n - 1) /\ g[i] = f[i] /\ g[i - 1] = f[i - 1]  BY <4>2
          <5> QED  BY <2>1, <5>1
        <4> QED  BY <4>1, <4>2
      <3> HIDE DEF g
      <3> QED  BY <2>3, <3>1, <3>2 DEF Follows
    <2>5. n \in 0..N  OBVIOUS
    <2> HIDE DEF g
    <2> QED  BY <2>4, <2>5
  <1>3. 0..N \subseteq S
    <2> HIDE DEF S
    <2> QED  BY <1>1, <1>2, InductionTo
  <1>4. N \in 0..N  OBVIOUS
  <1> QED  BY <1>3, <1>4

-----------------------------------------------------------------------------
(* Sequences by their elements. *)

LEMMA Appended ==
    ASSUME NEW T, NEW s \in Seq(T), NEW x \in T
    PROVE  /\ Len(s) \in Nat
           /\ Len(Append(s, x)) = Len(s) + 1
           /\ Append(s, x)[Len(s) + 1] = x
           /\ \A i \in 1..Len(s) : Append(s, x)[i] = s[i]
           /\ 1..Len(Append(s, x)) = 1..Len(s) \cup {Len(s) + 1}
  OBVIOUS

LEMMA IsConcat ==
    ASSUME NEW T, NEW p \in Seq(T), NEW q \in Seq(T), NEW r \in Seq(T),
           Len(r) = Len(p) + Len(q),
           \A i \in 1..Len(p) : r[i] = p[i],
           \A i \in 1..Len(q) : r[Len(p) + i] = q[i]
    PROVE  r = p \o q
  <1> DEFINE c == p \o q
  <1>1. /\ c \in Seq(T) /\ Len(c) = Len(p) + Len(q)
        /\ \A i \in 1..(Len(p) + Len(q)) :
              c[i] = IF i <= Len(p) THEN p[i] ELSE q[i - Len(p)]
    BY ConcatProperties
  <1>2. Len(p) \in Nat /\ Len(q) \in Nat  OBVIOUS
  <1> HIDE DEF c
  <1>3. ASSUME NEW i \in 1..Len(r) PROVE r[i] = c[i]
    <2>1. CASE i <= Len(p)  BY <1>1, <1>2, <2>1
    <2>2. CASE i > Len(p)
      <3>1. i - Len(p) \in 1..Len(q) /\ Len(p) + (i - Len(p)) = i  BY <1>2, <2>2
      <3>2. r[i] = q[i - Len(p)]  BY <3>1
      <3> QED  BY <1>1, <1>2, <2>2, <3>2
    <2> QED  BY <1>2, <2>1, <2>2
  <1>4. r = c  BY <1>1, <1>3, SeqEqual
  <1> QED  BY <1>4 DEF c

-----------------------------------------------------------------------------
(* Sums. *)

\* The recursive function SumOf takes its value from.
Totals(q) ==
    CHOOSE total : total = [n \in 0..Len(q) |->
                              IF n = 0 THEN 0 ELSE total[n - 1] + q[n]]

LEMMA TotalsSteps ==
    ASSUME NEW q \in Seq(Int)
    PROVE  /\ SumOf(q) = Totals(q)[Len(q)]
           /\ Totals(q)[0] = 0
           /\ \A n \in 1..Len(q) : Totals(q)[n] = Totals(q)[n - 1] + q[n]
           /\ \A n \in 0..Len(q) : Totals(q)[n] \in Int
  <1> DEFINE step == [n \in 1..Len(q) |-> [v \in Int |-> v + q[n]]]
             Equation(f) == f = [n \in 0..Len(q) |-> IF n = 0 THEN 0 ELSE f[n - 1] + q[n]]
  <1>1. \E f : Equation(f)
    <2>1. step \in [1..Len(q) -> [Int -> Int]]  OBVIOUS
    <2>2. PICK f : Follows(f, Len(q), Int, 0, step)
      <3>1. Len(q) \in Nat /\ 0 \in Int  OBVIOUS
      <3> HIDE DEF step
      <3> QED  BY <2>1, <3>1, Recursion
    <2>3. \A n \in 1..Len(q) : f[n] = f[n - 1] + q[n]
      <3>1. \A n \in 1..Len(q) : f[n - 1] \in Int
        <4>1. f \in [0..Len(q) -> Int]  BY <2>2 DEF Follows
        <4>2. \A n \in 1..Len(q) : n - 1 \in 0..Len(q)  OBVIOUS
        <4> HIDE DEF step
        <4> QED  BY <4>1, <4>2
      <3> QED  BY <2>2, <3>1 DEF Follows
    <2>4. Equation(f)  BY <2>2, <2>3 DEF Follows
    <2> QED  BY <2>4
  <1>2. Equation(Totals(q))
    <2>1. Totals(q) = CHOOSE f : Equation(f)  BY DEF Totals
    <2> HIDE DEF Equation
    <2> QED  BY <1>1, <2>1
  <1>3. SumOf(q) = Totals(q)[Len(q)]  BY DEF SumOf, Totals
  <1>4. Totals(q)[0] = 0 /\ \A n \in 1..Len(q) : Totals(q)[n] = Totals(q)[n - 1] + q[n]
    <2> DEFINE f == Totals(q)
    <2>1. f = [n \in 0..Len(q) |-> IF n = 0 THEN 0 ELSE f[n - 1] + q[n]]  BY <1>2
    <2>2. Len(q) \in Nat  OBVIOUS
    <2> HIDE DEF f
    <2>3. f[0] = 0 /\ \A n \in 1..Len(q) : f[n] = f[n - 1] + q[n]  BY <2>1, <2>2
    <2> QED  BY <2>3 DEF f
  <1>5. 0..Len(q) \subseteq {n \in 0..Len(q) : Totals(q)[n] \in Int}
    <2> DEFINE S == {n \in 0..Len(q) : Totals(q)[n] \in Int}
    <2>1. 0 \in S  BY <1>4
    <2>2. \A n \in 1..Len(q) : n - 1 \in S => n \in S  BY <1>4
    <2>3. Len(q) \in Nat  OBVIOUS
    <2> HIDE DEF S
    <2>4. 0..Len(q) \subseteq S  BY <2>1, <2>2, <2>3, InductionTo
    <2> QED  BY <2>4 DEF S
  <1> QED  BY <1>3, <1>4, <1>5

LEMMA SumType ==
    ASSUME NEW q \in Seq(Int)
    PROVE  SumOf(q) \in Int
  BY TotalsSteps

\* Two sequences that agree so far have the same sums so far.
LEMMA TotalsAgree ==
    ASSUME NEW q \in Seq(Int), NEW r \in Seq(Int), NEW k \in 0..Len(q), k <= Len(r),
           \A i \in 1..k : q[i] = r[i]
    PROVE  Totals(q)[k] = Totals(r)[k]
  <1> DEFINE S == {n \in 0..k : Totals(q)[n] = Totals(r)[n]}
  <1>1. 0 \in S  BY TotalsSteps
  <1>2. ASSUME NEW n \in 1..k, n - 1 \in S PROVE n \in S
    <2>1. n \in 1..Len(q) /\ n \in 1..Len(r)  OBVIOUS
    <2> QED  BY <1>2, <2>1, TotalsSteps
  <1>3. 0..k \subseteq S
    <2>1. k \in Nat  OBVIOUS
    <2> HIDE DEF S
    <2> QED  BY <1>1, <1>2, <2>1, InductionTo
  <1> QED  BY <1>3

LEMMA SumEmpty == SumOf(<< >>) = 0
  <1>1. << >> \in Seq(Int) /\ Len(<< >>) = 0  OBVIOUS
  <1> QED  BY <1>1, TotalsSteps

LEMMA SumAppend ==
    ASSUME NEW q \in Seq(Int), NEW x \in Int
    PROVE  SumOf(Append(q, x)) = SumOf(q) + x
  <1> DEFINE r == Append(q, x)
  <1>1. r \in Seq(Int) /\ Len(r) = Len(q) + 1 /\ r[Len(q) + 1] = x /\ Len(q) \in Nat
        /\ \A i \in 1..Len(q) : q[i] = r[i]
    OBVIOUS
  <1> HIDE DEF r
  <1>2. Totals(q)[Len(q)] = Totals(r)[Len(q)]
    <2>1. Len(q) \in 0..Len(q) /\ Len(q) <= Len(r)  BY <1>1
    <2> QED  BY <1>1, <2>1, TotalsAgree
  <1>3. Totals(r)[Len(r)] = Totals(r)[Len(q)] + x
    BY <1>1, TotalsSteps
  <1>4. SumOf(r) = Totals(r)[Len(r)] /\ SumOf(q) = Totals(q)[Len(q)]
    BY <1>1, TotalsSteps
  <1> QED  BY <1>2, <1>3, <1>4 DEF r

\* Sums of a sequence and of one in which one element is another.
LEMMA SumReplace ==
    ASSUME NEW q \in Seq(Int), NEW i \in 1..Len(q), NEW x \in Int
    PROVE  SumOf([q EXCEPT ![i] = x]) = SumOf(q) + x - q[i]
  <1> DEFINE r == [q EXCEPT ![i] = x]
  <1>1. r \in Seq(Int) /\ Len(r) = Len(q) /\ r[i] = x /\ Len(q) \in Nat
        /\ \A j \in 1..Len(q) : j # i => q[j] = r[j]
    OBVIOUS
  <1> HIDE DEF r
  <1> DEFINE S == {n \in 0..Len(q) : n >= i => Totals(r)[n] = Totals(q)[n] + x - q[i]}
  <1>2. 0 \in S  OBVIOUS
  <1>3. ASSUME NEW n \in 1..Len(q), n - 1 \in S PROVE n \in S
    <2>1. /\ Totals(q)[n] = Totals(q)[n - 1] + q[n] /\ Totals(r)[n] = Totals(r)[n - 1] + r[n]
          /\ Totals(q)[n - 1] \in Int /\ Totals(r)[n - 1] \in Int
      <3>1. n - 1 \in 0..Len(q) /\ n \in 1..Len(r)  BY <1>1
      <3> QED  BY <1>1, <3>1, TotalsSteps
    <2>2. q[n] \in Int /\ r[n] \in Int /\ q[i] \in Int  BY <1>1
    <2>3. CASE n = i
      <3>1. Totals(q)[n - 1] = Totals(r)[n - 1]
        <4>1. n - 1 \in 0..Len(q) /\ n - 1 <= Len(r) /\ \A j \in 1..(n - 1) : q[j] = r[j]
          BY <1>1, <2>3
        <4> QED  BY <1>1, <4>1, TotalsAgree
      <3> QED  BY <1>1, <2>1, <2>2, <2>3, <3>1
    <2>4. CASE n > i
      <3>1. Totals(r)[n - 1] = Totals(q)[n - 1] + x - q[i]  BY <1>3, <2>4
      <3>2. q[n] = r[n]  BY <1>1, <2>4
      <3> QED  BY <2>1, <2>2, <3>1, <3>2
    <2>5. CASE n < i  BY <2>5
    <2> QED  BY <2>3, <2>4, <2>5
  <1>4. 0..Len(q) \subseteq S
    <2> HIDE DEF S
    <2> QED  BY <1>1, <1>2, <1>3, InductionTo
  <1>5. Totals(r)[Len(q)] = Totals(q)[Len(q)] + x - q[i]  BY <1>1, <1>4
  <1> QED  BY <1>1, <1>5, TotalsSteps DEF r

LEMMA SumConcat ==
    ASSUME NEW q \in Seq(Int), NEW r \in Seq(Int)
    PROVE  SumOf(q \o r) = SumOf(q) + SumOf(r)
  <1> DEFINE c == q \o r
  <1>1. c \in Seq(Int) /\ Len(c) = Len(q) + Len(r) /\ Len(q) \in Nat /\ Len(r) \in Nat
        /\ (\A i \in 1..Len(q) : q[i] = c[i])
        /\ \A i \in 1..Len(r) : c[Len(q) + i] = r[i]
    OBVIOUS
  <1> HIDE DEF c
  <1> DEFINE S == {n \in 0..Len(r) : Totals(c)[Len(q) + n] = SumOf(q) + Totals(r)[n]}
  <1>2. 0 \in S
    <2>0. Len(q) \in 0..Len(q) /\ Len(q) <= Len(c)  BY <1>1
    <2>1. Totals(c)[Len(q)] = Totals(q)[Len(q)]  BY <1>1, <2>0, TotalsAgree
    <2>2. SumOf(q) \in Int /\ SumOf(q) = Totals(q)[Len(q)] /\ Totals(r)[0] = 0
      BY TotalsSteps, SumType
    <2> QED  BY <1>1, <2>1, <2>2
  <1>3. ASSUME NEW n \in 1..Len(r), n - 1 \in S PROVE n \in S
    <2>1. Len(q) + n \in 1..Len(c) /\ (Len(q) + n) - 1 = Len(q) + (n - 1)  BY <1>1
    <2>2. Totals(c)[Len(q) + n] = Totals(c)[Len(q) + (n - 1)] + c[Len(q) + n]
      BY <1>1, <2>1, TotalsSteps
    <2>3. Totals(r)[n] = Totals(r)[n - 1] + r[n] /\ Totals(r)[n - 1] \in Int
      BY <1>1, TotalsSteps
    <2>4. r[n] \in Int /\ SumOf(q) \in Int /\ c[Len(q) + n] = r[n]  BY <1>1, SumType
    <2> QED  BY <1>3, <2>2, <2>3, <2>4
  <1>4. 0..Len(r) \subseteq S
    <2> HIDE DEF S
    <2> QED  BY <1>1, <1>2, <1>3, InductionTo
  <1>5. Totals(c)[Len(q) + Len(r)] = SumOf(q) + Totals(r)[Len(r)]  
    <2>1. Len(r) \in 0..Len(r)  OBVIOUS
    <2> QED  BY <1>4, <2>1
  <1> QED  BY <1>1, <1>5, TotalsSteps DEF c

LEMMA SumOfZeros ==
    ASSUME NEW q \in Seq(Int), \A i \in 1..Len(q) : q[i] = 0
    PROVE  SumOf(q) = 0
  <1> DEFINE S == {n \in 0..Len(q) : Totals(q)[n] = 0}
  <1>1. 0 \in S  BY TotalsSteps
  <1>2. \A n \in 1..Len(q) : n - 1 \in S => n \in S  BY TotalsSteps
  <1>3. 0..Len(q) \subseteq S
    <2>1. Len(q) \in Nat  OBVIOUS
    <2> HIDE DEF S
    <2> QED  BY <1>1, <1>2, <2>1, InductionTo
  <1> QED  BY <1>3, TotalsSteps

-----------------------------------------------------------------------------
(* Selections. *)

\* The recursive function Only takes its value from.
Selections(q, K) ==
    CHOOSE kept : kept = [n \in 0..Len(q) |->
        IF n = 0 THEN << >>
        ELSE IF q[n] \in K THEN Append(kept[n - 1], q[n]) ELSE kept[n - 1]]

LEMMA SelectionsStep ==
    ASSUME NEW T, NEW q \in Seq(T), NEW K
    PROVE  /\ Only(q, K) = Selections(q, K)[Len(q)]
           /\ Selections(q, K)[0] = << >>
           /\ \A n \in 1..Len(q) : Selections(q, K)[n] =
                 IF q[n] \in K THEN Append(Selections(q, K)[n - 1], q[n])
                               ELSE Selections(q, K)[n - 1]
           /\ \A n \in 0..Len(q) : Selections(q, K)[n] \in Seq(T)
  <1> DEFINE next(v, x) == IF x \in K THEN Append(v, x) ELSE v
             step == [n \in 1..Len(q) |-> [v \in Seq(T) |-> next(v, q[n])]]
             Equation(f) == f = [n \in 0..Len(q) |->
                                   IF n = 0 THEN << >> ELSE next(f[n - 1], q[n])]
  <1>1. \E f : Equation(f)
    <2>1. step \in [1..Len(q) -> [Seq(T) -> Seq(T)]]  OBVIOUS
    <2>2. PICK f : Follows(f, Len(q), Seq(T), << >>, step)
      <3>1. Len(q) \in Nat /\ << >> \in Seq(T)  OBVIOUS
      <3> HIDE DEF step
      <3> QED  BY <2>1, <3>1, Recursion
    <2>3. \A n \in 1..Len(q) : f[n] = next(f[n - 1], q[n])
      <3>1. \A n \in 1..Len(q) : f[n - 1] \in Seq(T)
        <4>1. f \in [0..Len(q) -> Seq(T)]  BY <2>2 DEF Follows
        <4>2. \A n \in 1..Len(q) : n - 1 \in 0..Len(q)  OBVIOUS
        <4> HIDE DEF step
        <4> QED  BY <4>1, <4>2
      <3> QED  BY <2>2, <3>1 DEF Follows
    <2>4. Equation(f)
      <3> HIDE DEF next, step
      <3> QED  BY <2>2, <2>3 DEF Follows
    <2> QED  BY <2>4
  <1>2. Equation(Selections(q, K))
    <2>1. Selections(q, K) = CHOOSE f : Equation(f)  BY DEF Selections
    <2> HIDE DEF Equation
    <2> QED  BY <1>1, <2>1
  <1>3. Only(q, K) = Selections(q, K)[Len(q)]  BY DEF Only, Selections
  <1>4. /\ Selections(q, K)[0] = << >>
        /\ \A n \in 1..Len(q) : Selections(q, K)[n] = next(Selections(q, K)[n - 1], q[n])
    <2> DEFINE f == Selections(q, K)
    <2>1. f = [n \in 0..Len(q) |-> IF n = 0 THEN << >> ELSE next(f[n - 1], q[n])]
      BY <1>2
    <2>2. Len(q) \in Nat  OBVIOUS
    <2> HIDE DEF f, next
    <2>3. f[0] = << >> /\ \A n \in 1..Len(q) : f[n] = next(f[n - 1], q[n])
      BY <2>1, <2>2
    <2> QED  BY <2>3 DEF f
  <1>5. 0..Len(q) \subseteq {n \in 0..Len(q) : Selections(q, K)[n] \in Seq(T)}
    <2> DEFINE S == {n \in 0..Len(q) : Selections(q, K)[n] \in Seq(T)}
    <2>0. << >> \in Seq(T) /\ Len(q) \in Nat /\ \A n \in 1..Len(q) : q[n] \in T
      OBVIOUS
    <2> HIDE DEF next, step
    <2>1. 0 \in S
      <3>1. Selections(q, K)[0] \in Seq(T)  BY <1>4, <2>0
      <3> QED  BY <2>0, <3>1
    <2>2. ASSUME NEW n \in 1..Len(q), n - 1 \in S PROVE n \in S
      <3>1. Selections(q, K)[n - 1] \in Seq(T)  BY <2>2
      <3>2. next(Selections(q, K)[n - 1], q[n]) \in Seq(T)  BY <2>0, <3>1 DEF next
      <3>3. Selections(q, K)[n] \in Seq(T)  BY <1>4, <3>2
      <3> QED  BY <3>3
    <2> HIDE DEF S
    <2>4. 0..Len(q) \subseteq S  BY <2>0, <2>1, <2>2, InductionTo
    <2> QED  BY <2>4 DEF S
  <1> QED  BY <1>3, <1>4, <1>5

LEMMA OnlyType ==
    ASSUME NEW T, NEW q \in Seq(T), NEW K
    PROVE  Only(q, K) \in Seq(T)
  BY SelectionsStep

\* A selection has exactly the elements of the sequence that are selected.
LEMMA OnlyElements ==
    ASSUME NEW T, NEW q \in Seq(T), NEW K, NEW x
    PROVE  (\E i \in 1..Len(Only(q, K)) : Only(q, K)[i] = x)
             <=> (x \in K /\ \E j \in 1..Len(q) : q[j] = x)
  <1> DEFINE sel == Selections(q, K)
             Has(n) == \E i \in 1..Len(sel[n]) : sel[n][i] = x
             S == {n \in 0..Len(q) : Has(n) <=> (x \in K /\ \E j \in 1..n : q[j] = x)}
  <1>0. Len(q) \in Nat /\ \A n \in 0..Len(q) : sel[n] \in Seq(T)  BY SelectionsStep
  <1>1. 0 \in S
    <2>1. sel[0] = << >>  BY SelectionsStep
    <2> QED  BY <1>0, <2>1
  <1>2. ASSUME NEW n \in 1..Len(q), n - 1 \in S PROVE n \in S
    <2>0. q[n] \in T /\ sel[n - 1] \in Seq(T) /\ n - 1 \in 0..Len(q)  BY <1>0
    <2>1. CASE q[n] \in K
      <3>1. sel[n] = Append(sel[n - 1], q[n])  BY <2>1, SelectionsStep
      <3> HIDE DEF sel
      <3>2. Has(n) <=> (Has(n - 1) \/ q[n] = x)
        <4> QED  BY <2>0, <3>1, Appended
      <3>3. Has(n - 1) <=> (x \in K /\ \E j \in 1..(n - 1) : q[j] = x)  BY <1>2
      <3>4. 1..n = 1..(n - 1) \cup {n}  OBVIOUS
      <3> QED  BY <2>1, <3>2, <3>3, <3>4
    <2>2. CASE q[n] \notin K
      <3>1. sel[n] = sel[n - 1]  BY <2>2, SelectionsStep
      <3> HIDE DEF sel
      <3>3. Has(n - 1) <=> (x \in K /\ \E j \in 1..(n - 1) : q[j] = x)  BY <1>2
      <3>4. 1..n = 1..(n - 1) \cup {n}  OBVIOUS
      <3> QED  BY <2>2, <3>1, <3>3, <3>4
    <2> QED  BY <2>1, <2>2
  <1>3. Len(q) \in S
    <2> HIDE DEF S
    <2>1. 0..Len(q) \subseteq S  BY <1>0, <1>1, <1>2, InductionTo
    <2> QED  BY <1>0, <2>1
  <1>4. Only(q, K) = sel[Len(q)]  BY SelectionsStep
  <1> QED  BY <1>3, <1>4

LEMMA OnlySelects ==
    ASSUME NEW T, NEW q \in Seq(T), NEW K, NEW i \in 1..Len(Only(q, K))
    PROVE  /\ Only(q, K)[i] \in K
           /\ \E j \in 1..Len(q) : q[j] = Only(q, K)[i]
  <1>1. PICK x : x = Only(q, K)[i]  OBVIOUS
  <1>2. \E k \in 1..Len(Only(q, K)) : Only(q, K)[k] = x  BY <1>1
  <1>3. (\E k \in 1..Len(Only(q, K)) : Only(q, K)[k] = x)
           <=> (x \in K /\ \E j \in 1..Len(q) : q[j] = x)
    BY OnlyElements
  <1> QED  BY <1>1, <1>2, <1>3

Injective(q) == \A i, j \in 1..Len(q) : q[i] = q[j] => i = j

\* A selection from a sequence without repetition repeats nothing.
LEMMA OnlyInjective ==
    ASSUME NEW T, NEW q \in Seq(T), NEW K, Injective(q)
    PROVE  Injective(Only(q, K))
  <1> DEFINE sel == Selections(q, K)
             S == {n \in 0..Len(q) :
                     /\ Injective(sel[n])
                     /\ \A i \in 1..Len(sel[n]) : \E j \in 1..n : sel[n][i] = q[j]}
  <1>0. Len(q) \in Nat /\ \A n \in 0..Len(q) : sel[n] \in Seq(T)  BY SelectionsStep
  <1>1. 0 \in S
    <2>1. sel[0] = << >>  BY SelectionsStep
    <2> QED  BY <1>0, <2>1 DEF Injective
  <1>2. ASSUME NEW n \in 1..Len(q), n - 1 \in S PROVE n \in S
    <2>0. q[n] \in T /\ sel[n - 1] \in Seq(T) /\ n - 1 \in 0..Len(q)  BY <1>0
    <2>1. CASE q[n] \in K
      <3>1. sel[n] = Append(sel[n - 1], q[n])  BY <2>1, SelectionsStep
      <3>2. \A i \in 1..Len(sel[n - 1]) : \E j \in 1..(n - 1) : sel[n - 1][i] = q[j]
        BY <1>2
      <3>3. Injective(sel[n - 1])  BY <1>2
      <3> HIDE DEF sel
      <3>4. \A i \in 1..Len(sel[n - 1]) : sel[n - 1][i] # q[n]
        BY <2>0, <3>2 DEF Injective
      <3>5. /\ Len(sel[n]) = Len(sel[n - 1]) + 1
            /\ sel[n][Len(sel[n - 1]) + 1] = q[n]
            /\ Len(sel[n - 1]) \in Nat
            /\ \A i \in 1..Len(sel[n - 1]) : sel[n][i] = sel[n - 1][i]
        BY <2>0, <3>1, Appended
      <3>6. Injective(sel[n])
        <4> SUFFICES ASSUME NEW i \in 1..Len(sel[n]), NEW j \in 1..Len(sel[n]),
                            sel[n][i] = sel[n][j]
                     PROVE  i = j
          BY DEF Injective
        <4>1. CASE i \in 1..Len(sel[n - 1]) /\ j \in 1..Len(sel[n - 1])
          BY <3>3, <3>5, <4>1 DEF Injective
        <4> DEFINE last == Len(sel[n - 1]) + 1
        <4>2. \A k \in 1..Len(sel[n]) : k \in 1..Len(sel[n - 1]) \/ k = last
          BY <3>5
        <4>3. sel[n][last] = q[n]  BY <3>5
        <4>4. CASE i = last /\ j # last
          BY <3>4, <3>5, <4>2, <4>3, <4>4
        <4>5. CASE i # last /\ j = last
          BY <3>4, <3>5, <4>2, <4>3, <4>5
        <4> QED  BY <4>1, <4>2, <4>4, <4>5
      <3>7. \A i \in 1..Len(sel[n]) : \E j \in 1..n : sel[n][i] = q[j]
        <4> TAKE i \in 1..Len(sel[n])
        <4>1. CASE i \in 1..Len(sel[n - 1])
          <5>1. \A j \in 1..(n - 1) : j \in 1..n  OBVIOUS
          <5> QED  BY <3>2, <3>5, <4>1, <5>1
        <4>2. CASE i = Len(sel[n - 1]) + 1
          <5>1. n \in 1..n  OBVIOUS
          <5> QED  BY <3>5, <4>2, <5>1
        <4> QED  BY <3>5, <4>1, <4>2
      <3> QED  BY <3>6, <3>7
    <2>2. CASE q[n] \notin K
      <3>1. sel[n] = sel[n - 1]  BY <2>2, SelectionsStep
      <3> HIDE DEF sel
      <3>2. \A j \in 1..(n - 1) : j \in 1..n  OBVIOUS
      <3> QED  BY <1>2, <3>1, <3>2
    <2> QED  BY <2>1, <2>2
  <1>3. Len(q) \in S
    <2> HIDE DEF S
    <2>1. 0..Len(q) \subseteq S  BY <1>0, <1>1, <1>2, InductionTo
    <2> QED  BY <1>0, <2>1
  <1>4. Only(q, K) = sel[Len(q)]  BY SelectionsStep
  <1> QED  BY <1>3, <1>4
=============================================================================

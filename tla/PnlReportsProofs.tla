------------------------- MODULE PnlReportsProofs --------------------------
(***************************************************************************)
(* Theorems about PnlReports, for any number of reports, events, amounts,  *)
(* rates and settings.                                                     *)
(*                                                                         *)
(* The loop of calculate_spend_cost_basis is a recursive function of the   *)
(* position in the heap.  The first half of the module proves what it      *)
(* computes, by induction on that position: what it matches and what it    *)
(* leaves add up, it uses the acquisitions in the order of the method, and *)
(* it fails only when digits were lost.  The second half carries that      *)
(* through the steps of the reports.                                       *)
(***************************************************************************)
EXTENDS PnlReports, TLAPS

\* Leaves are for Zenon unless they name another prover.
USE Zenon

-----------------------------------------------------------------------------
\* Induction and sums

\* Induction on the natural numbers, with the set of the numbers for which a
\* claim holds in the place of the claim.
Inductive ==
    \A S : 0 \in S /\ (\A n \in Nat : n \in S => n + 1 \in S) => Nat \subseteq S

\* sum holds the sums of the first terms, up to the n-th
SumsTo(sum, terms, n) ==
    sum = [i \in 0 .. n |-> IF i = 0 THEN 0 ELSE sum[i - 1] + terms[i]]

\* and the same rounded
RoundedTo(sum, terms, n) ==
    sum = [i \in 0 .. n |-> IF i = 0 THEN 0 ELSE Round(sum[i - 1] + terms[i])]

\* The recursive definition of Total defines something.
LEMMA SumsExist ==
    ASSUME Inductive, NEW terms, NEW n \in Nat
    PROVE  \E sum : SumsTo(sum, terms, n)
<1>. DEFINE S == {k \in Nat : \E sum : SumsTo(sum, terms, k)}
<1>1. 0 \in S
  <2>. DEFINE f == [i \in 0 .. 0 |-> 0]
  <2>1. SumsTo(f, terms, 0)
    BY SMT DEF SumsTo
  <2>. QED  BY <2>1
<1>2. ASSUME NEW k \in Nat, k \in S PROVE k + 1 \in S
  <2>1. PICK f : SumsTo(f, terms, k)
    BY <1>2
  <2>. DEFINE g == [i \in 0 .. k + 1 |-> IF i <= k THEN f[i] ELSE f[k] + terms[k + 1]]
  <2>2. SumsTo(g, terms, k + 1)
    BY SMT, <2>1 DEF SumsTo
  <2>3. k + 1 \in Nat
    BY SMT
  <2>. QED  BY <2>2, <2>3
<1>. HIDE DEF S
<1>3. n \in S
  BY <1>1, <1>2 DEF Inductive
<1>. QED
  BY <1>3 DEF S

\* The same for RoundedSum.
LEMMA RoundedExist ==
    ASSUME Inductive, NEW terms, NEW n \in Nat
    PROVE  \E sum : RoundedTo(sum, terms, n)
<1>. DEFINE S == {k \in Nat : \E sum : RoundedTo(sum, terms, k)}
<1>1. 0 \in S
  <2>. DEFINE f == [i \in 0 .. 0 |-> 0]
  <2>1. RoundedTo(f, terms, 0)
    BY SMT DEF RoundedTo
  <2>. QED  BY <2>1
<1>2. ASSUME NEW k \in Nat, k \in S PROVE k + 1 \in S
  <2>1. PICK f : RoundedTo(f, terms, k)
    BY <1>2
  <2>. DEFINE g == [i \in 0 .. k + 1 |-> IF i <= k THEN f[i] ELSE Round(f[k] + terms[k + 1])]
  <2>2. RoundedTo(g, terms, k + 1)
    BY SMT, <2>1 DEF RoundedTo
  <2>3. k + 1 \in Nat
    BY SMT
  <2>. QED  BY <2>2, <2>3
<1>. HIDE DEF S
<1>3. n \in S
  BY <1>1, <1>2 DEF Inductive
<1>. QED
  BY <1>3 DEF S

\* f starts with 0 and each of the first n terms is added to it
Adds(f, terms, n) ==
    f[0] = 0 /\ \A i \in 1 .. n : f[i] = f[i - 1] + terms[i]

\* Total is the last of the sums.
LEMMA TotalIsSum ==
    ASSUME Inductive, NEW terms, NEW n \in Nat, Len(terms) = n
    PROVE  \E sum : Adds(sum, terms, n) /\ Total(terms) = sum[n]
<1>. DEFINE f == CHOOSE sum : SumsTo(sum, terms, n)
<1>1. Total(terms) = f[n]
  BY DEF Total, SumsTo
<1>2. SumsTo(f, terms, n)
  BY SumsExist
<1>. HIDE DEF f
<1>3. f[0] = 0
  BY SMT, <1>2 DEF SumsTo
<1>4. ASSUME NEW i \in 1 .. n PROVE f[i] = f[i - 1] + terms[i]
  <2>1. i \in 0 .. n /\ i # 0
    BY SMT
  <2>. QED  BY <1>2, <2>1 DEF SumsTo
<1>. QED
  BY <1>1, <1>3, <1>4 DEF Adds

\* There is one list of sums.
LEMMA TotalIsUnique ==
    ASSUME Inductive, NEW terms, NEW n \in Nat, Len(terms) = n, NEW f, Adds(f, terms, n)
    PROVE  Total(terms) = f[n]
<1>1. PICK sum : Adds(sum, terms, n) /\ Total(terms) = sum[n]
  BY TotalIsSum
<1>. DEFINE S == {k \in Nat : k <= n => sum[k] = f[k]}
<1>2. 0 \in S
  BY <1>1 DEF Adds
<1>3. ASSUME NEW k \in Nat, k \in S PROVE k + 1 \in S
  <2>1. k + 1 \in Nat /\ (k + 1) - 1 = k /\ (k + 1 <= n => k <= n /\ k + 1 \in 1 .. n)
    BY SMT
  <2>2. ASSUME k + 1 <= n PROVE sum[k + 1] = f[k + 1]
    <3>1. sum[k] = f[k]
      BY <1>3, <2>1, <2>2 DEF S
    <3>. HIDE DEF S
    <3>2. /\ sum[k + 1] = sum[(k + 1) - 1] + terms[k + 1]
          /\ f[k + 1] = f[(k + 1) - 1] + terms[k + 1]
      BY <1>1, <2>1, <2>2 DEF Adds
    <3>. QED  BY <2>1, <3>1, <3>2
  <2>. QED  BY <2>1, <2>2 DEF S
<1>. HIDE DEF S
<1>4. n \in S
  BY <1>2, <1>3 DEF Inductive
<1>5. n <= n
  BY SMT
<1>. QED
  BY <1>1, <1>4, <1>5 DEF S

\* The sums of naturals are naturals, and only grow.
LEMMA NaturalSums ==
    ASSUME Inductive, NEW terms \in Seq(Nat)
    PROVE  \E f \in [0 .. Len(terms) -> Nat] :
               /\ Adds(f, terms, Len(terms)) /\ Total(terms) = f[Len(terms)]
               /\ \A i \in 0 .. Len(terms) : f[i] <= f[Len(terms)]
<1>. DEFINE n == Len(terms)
<1>0. n \in Nat /\ \A i \in 1 .. n : terms[i] \in Nat
  BY SMT
<1>. HIDE DEF n
<1>1. PICK sum : Adds(sum, terms, n) /\ Total(terms) = sum[n]
  BY <1>0, TotalIsSum DEF n
<1>. DEFINE S == {k \in Nat : k <= n => \A i \in 0 .. k : sum[i] \in Nat /\ sum[i] <= sum[k]}
<1>2. 0 \in S
  BY SMT, <1>1 DEF Adds
<1>3. ASSUME NEW k \in Nat, k \in S PROVE k + 1 \in S
  <2>. SUFFICES ASSUME k + 1 <= n
                PROVE  \A i \in 0 .. k + 1 : sum[i] \in Nat /\ sum[i] <= sum[k + 1]
    BY SMT
  <2>1. k + 1 \in 1 .. n /\ (k + 1) - 1 = k /\ k <= n
    BY SMT, <1>0
  <2>2. sum[k + 1] = sum[k] + terms[k + 1] /\ terms[k + 1] \in Nat
    BY <1>0, <1>1, <2>1 DEF Adds
  <2>3. \A i \in 0 .. k : sum[i] \in Nat /\ sum[i] <= sum[k]
    BY <1>3, <2>1
  <2>4. sum[k] \in Nat
    BY SMT, <2>3
  <2>5. sum[k + 1] \in Nat /\ sum[k] <= sum[k + 1]
    BY SMT, <2>2, <2>4
  <2>6. ASSUME NEW i \in 0 .. k PROVE sum[i] <= sum[k + 1]
    BY SMT, <2>3, <2>4, <2>5
  <2>. QED  BY SMT, <2>3, <2>5, <2>6
<1>. HIDE DEF S
<1>4. Nat \subseteq S
  BY <1>2, <1>3 DEF Inductive
<1>. DEFINE f == [i \in 0 .. n |-> sum[i]]
<1>5. \A i \in 0 .. n : i \in Nat /\ i <= n /\ i \in S
  BY SMT, <1>0, <1>4
<1>6. \A i \in 0 .. n : f[i] = sum[i] /\ sum[i] \in Nat
  <2>1. n \in S /\ n <= n
    BY SMT, <1>0, <1>4
  <2>. QED  BY <2>1 DEF S
<1>7. n \in 0 .. n /\ 0 \in 0 .. n /\ \A i \in 1 .. n : i \in 0 .. n /\ i - 1 \in 0 .. n
  BY SMT, <1>0
<1>8. f \in [0 .. n -> Nat] /\ Adds(f, terms, n) /\ Total(terms) = f[n]
  BY <1>1, <1>6, <1>7 DEF Adds
<1>9. \A i \in 0 .. n : f[i] <= f[n]
  BY <1>5, <1>6, <1>7 DEF S
<1>. QED
  BY <1>8, <1>9 DEF n

\* a function on 1 .. n is a list of length n
LEMMA ListOf ==
    ASSUME NEW V, NEW n \in Nat, NEW t \in [1 .. n -> V]
    PROVE  t \in Seq(V) /\ Len(t) = n
BY SMT

\* A term is put between the others.
LEMMA TotalInsert ==
    ASSUME Inductive, NEW terms \in Seq(Nat), NEW p \in 1 .. Len(terms) + 1, NEW x \in Nat,
           NEW more \in Seq(Nat), Len(more) = Len(terms) + 1,
           \A i \in 1 .. p - 1 : more[i] = terms[i], more[p] = x,
           \A i \in p + 1 .. Len(more) : more[i] = terms[i - 1]
    PROVE  Total(more) = Total(terms) + x
\* The order of two added terms does not matter.
<1>SwapTerms. ASSUME NEW a \in Nat, NEW t \in Nat, NEW w \in Nat
              PROVE  (a + t) + w = (a + w) + t
  BY SMT
<1>. DEFINE n == Len(terms)
<1>1. PICK f \in [0 .. n -> Nat] : Adds(f, terms, n) /\ Total(terms) = f[n]
  BY NaturalSums
<1>. DEFINE g == [i \in 0 .. n + 1 |-> IF i < p THEN f[i] ELSE f[i - 1] + x]
<1>0. n \in Nat /\ \A j \in 1 .. n : terms[j] \in Nat
  BY SMT
<1>2. g[0] = 0
  BY SMT, <1>0, <1>1 DEF Adds
<1>3. ASSUME NEW i \in 1 .. n + 1 PROVE g[i] = g[i - 1] + more[i]
  <2>1. CASE i < p
    <3>1. i \in 1 .. n /\ i \in 1 .. p - 1
      BY SMT, <1>0, <2>1
    <3>2. f[i] = f[i - 1] + terms[i] /\ more[i] = terms[i]
      BY <1>1, <3>1 DEF Adds
    <3>. QED  BY SMT, <1>0, <2>1, <3>2
  <2>2. CASE i = p
    <3>1. i - 1 \in 0 .. n
      BY SMT, <1>0
    <3>. QED  BY SMT, <1>0, <1>1, <2>2, <3>1
  <2>3. CASE i > p
    <3>1. i - 1 \in 1 .. n /\ i \in p + 1 .. n + 1
      BY SMT, <1>0, <2>3
    <3>2. f[i - 1] = f[(i - 1) - 1] + terms[i - 1] /\ more[i] = terms[i - 1]
      BY <1>1, <3>1 DEF Adds
    <3>3. i - 1 \in 0 .. n /\ (i - 1) - 1 \in 0 .. n /\ ~(i < p) /\ ~(i - 1 < p)
      BY SMT, <1>0, <2>3
    <3>4. f[(i - 1) - 1] \in Nat /\ terms[i - 1] \in Nat
      BY <1>0, <3>1, <3>3
    <3>5. g[i] = f[i - 1] + x /\ g[i - 1] = f[(i - 1) - 1] + x
      BY SMT, <1>0, <3>3
    <3>. HIDE DEF g
    <3>6. (f[(i - 1) - 1] + terms[i - 1]) + x = (f[(i - 1) - 1] + x) + terms[i - 1]
      BY <3>4, <1>SwapTerms
    <3>. QED  BY <3>2, <3>5, <3>6
  <2>. QED  BY SMT, <2>1, <2>2, <2>3
<1>4. g[n + 1] = f[n] + x
  BY SMT, <1>0
<1>. HIDE DEF g
<1>5. Adds(g, more, n + 1)
  BY <1>2, <1>3 DEF Adds
<1>6. n + 1 \in Nat
  BY SMT, <1>0
<1>. QED
  BY <1>1, <1>4, <1>5, <1>6, TotalIsUnique

\* A term is added at the end.
LEMMA TotalAppend ==
    ASSUME Inductive, NEW terms \in Seq(Nat), NEW x \in Nat
    PROVE  Total(Append(terms, x)) = Total(terms) + x
<1>. DEFINE p == Len(terms) + 1
            more == Append(terms, x)
<1>1. /\ p \in 1 .. Len(terms) + 1 /\ more \in Seq(Nat) /\ Len(more) = Len(terms) + 1
      /\ \A i \in 1 .. p - 1 : more[i] = terms[i]
      /\ more[p] = x
      /\ \A i \in p + 1 .. Len(more) : more[i] = terms[i - 1]
  BY SMT
<1>. HIDE DEF p, more
<1>. QED
  BY <1>1, TotalInsert DEF more

-----------------------------------------------------------------------------
\* Rounding

\* A number that an FVal holds exactly is not rounded.
LEMMA RoundIsExact ==
    ASSUME NEW x \in Nat, x < Limit
    PROVE  Round(x) = x
<1>1. ~(x < 0)
  BY SMT
<1>. QED
  BY <1>1 DEF Round

WeightsTo(f, n) == f = [k \in 0 .. n |-> IF k < Limit THEN 1 ELSE 10 * f[k \div 10]]

\* The recursive definition of Weight defines something.
LEMMA WeightsExist ==
    ASSUME Inductive, NEW n \in Nat
    PROVE  \E f : WeightsTo(f, n)
<1>. DEFINE S == {k \in Nat : \E f : WeightsTo(f, k)}
<1>1. 0 \in S
  <2>. DEFINE f == [i \in 0 .. 0 |-> 1]
  <2>1. WeightsTo(f, 0)
    BY SMT, DigitsAssumption DEF WeightsTo
  <2>. QED  BY <2>1
<1>2. ASSUME NEW k \in Nat, k \in S PROVE k + 1 \in S
  <2>1. PICK f : WeightsTo(f, k)
    BY <1>2
  <2>. DEFINE v == IF k + 1 < Limit THEN 1 ELSE 10 * f[(k + 1) \div 10]
              g == [i \in 0 .. k + 1 |-> IF i <= k THEN f[i] ELSE v]
  <2>2. ASSUME NEW i \in 0 .. k + 1
        PROVE  g[i] = IF i < Limit THEN 1 ELSE 10 * g[i \div 10]
    <3>1. i \div 10 \in Nat /\ (i # 0 => i \div 10 < i) /\ i \div 10 <= i
      BY SMT
    <3>2. i >= Limit => i # 0
      BY SMT, DigitsAssumption
    <3>3. CASE i <= k
      <4>1. i \in 0 .. k /\ i \div 10 \in 0 .. k + 1 /\ i \div 10 <= k
        BY SMT, <3>1, <3>3
      <4>2. f[i] = IF i < Limit THEN 1 ELSE 10 * f[i \div 10]
        BY <2>1, <4>1 DEF WeightsTo
      <4>3. g[i] = f[i] /\ g[i \div 10] = f[i \div 10]
        BY <3>3, <4>1
      <4>. QED  BY <4>2, <4>3
    <3>4. CASE ~(i <= k)
      <4>1. i = k + 1
        BY SMT, <3>4
      <4>2. CASE i < Limit
        BY <3>4, <4>1, <4>2
      <4>3. CASE ~(i < Limit)
        <5>1. i \div 10 \in 0 .. k + 1 /\ i \div 10 <= k
          BY SMT, <3>1, <3>2, <4>1, <4>3, DigitsAssumption
        <5>. QED  BY <3>4, <4>1, <4>3, <5>1
      <4>. QED  BY <4>2, <4>3
    <3>. QED  BY <3>3, <3>4
  <2>3. g = [i \in 0 .. k + 1 |-> g[i]]
    OBVIOUS
  <2>. HIDE DEF g
  <2>4. WeightsTo(g, k + 1)
    BY <2>2, <2>3 DEF WeightsTo
  <2>5. k + 1 \in Nat
    BY SMT
  <2>. QED  BY <2>4, <2>5
<1>. HIDE DEF S
<1>3. n \in S
  BY <1>1, <1>2 DEF Inductive
<1>. QED
  BY <1>3 DEF S

\* The weight of a digit is a positive number.
LEMMA WeightType ==
    ASSUME Inductive, NEW n \in Nat
    PROVE  Weight(n) \in Nat \ {0}
<1>. DEFINE f == CHOOSE g : WeightsTo(g, n)
<1>1. Weight(n) = f[n]
  BY DEF Weight, WeightsTo
<1>2. WeightsTo(f, n)
  BY WeightsExist
<1>. HIDE DEF f
<1>. DEFINE S == {k \in Nat : \A i \in 0 .. k : i <= n => f[i] \in Nat \ {0}}
<1>3. ASSUME NEW i \in 0 .. n PROVE f[i] = IF i < Limit THEN 1 ELSE 10 * f[i \div 10]
  BY <1>2 DEF WeightsTo
<1>4. 0 \in S
  <2>1. 0 \in 0 .. n /\ 0 < Limit
    BY SMT, DigitsAssumption
  <2>2. f[0] = 1
    BY <1>3, <2>1
  <2>. QED  BY SMT, <2>2
<1>5. ASSUME NEW k \in Nat, k \in S PROVE k + 1 \in S
  <2>. SUFFICES ASSUME NEW i \in 0 .. k + 1, i <= n PROVE f[i] \in Nat \ {0}
    BY SMT
  <2>1. i \in 0 .. n
    BY SMT
  <2>2. CASE i < Limit
    BY SMT, <1>3, <2>1, <2>2
  <2>3. CASE ~(i < Limit)
    <3>1. i \div 10 \in 0 .. k /\ i \div 10 <= n
      BY SMT, <2>3, DigitsAssumption
    <3>2. f[i \div 10] \in Nat \ {0}
      BY <1>5, <3>1
    <3>3. f[i] = 10 * f[i \div 10]
      BY <1>3, <2>1, <2>3
    <3>. QED  BY SMT, <3>2, <3>3
  <2>. QED  BY <2>2, <2>3
<1>. HIDE DEF S
<1>6. n \in S
  BY <1>4, <1>5 DEF Inductive
<1>7. n \in 0 .. n /\ n <= n
  BY SMT
<1>. QED
  BY <1>1, <1>6, <1>7 DEF S

\* A natural is rounded to a natural.
LEMMA HalfEvenType ==
    ASSUME NEW n \in Nat, NEW w \in Nat \ {0}
    PROVE  HalfEven(n, w) \in Nat
<1>. DEFINE kept == n \div w
            cut == n % w
            up == 2 * cut > w \/ (2 * cut = w /\ kept % 2 = 1)
            a == IF up THEN kept + 1 ELSE kept
<1>1. kept \in Nat
  BY SMT
<1>2. a \in Nat
  BY SMT, <1>1
<1>. HIDE DEF a
<1>3. a * w \in Nat
  BY SMT, <1>2
<1>. QED
  BY <1>3 DEF HalfEven, a

\* Rounding makes naturals naturals, and integers integers.
LEMMA RoundType ==
    ASSUME Inductive, NEW x \in Int
    PROVE  Round(x) \in Int /\ (x \in Nat => Round(x) \in Nat)
<1>. DEFINE n == IF x < 0 THEN -x ELSE x
            rounded == HalfEven(n, Weight(n))
            sign == IF x < 0 THEN -1 ELSE 1
<1>1. n \in Nat
  BY SMT
<1>. HIDE DEF n
<1>2. rounded \in Nat
  BY <1>1, WeightType, HalfEvenType
<1>. HIDE DEF rounded
<1>3. Round(x) = IF n < Limit THEN x ELSE sign * rounded
  BY DEF Round, n, rounded
<1>4. sign * rounded \in Int /\ (x \in Nat => sign * rounded \in Nat)
  BY SMT, <1>2
<1>. HIDE DEF sign
<1>. QED
  BY <1>3, <1>4

\* A sum of naturals that fits is not rounded on the way.
LEMMA RoundedIsTotal ==
    ASSUME Inductive, NEW terms \in Seq(Nat), Total(terms) < Limit
    PROVE  RoundedSum(terms) = Total(terms)
<1>. DEFINE n == Len(terms)
            g == CHOOSE sum : RoundedTo(sum, terms, n)
<1>0. n \in Nat /\ \A i \in 1 .. n : terms[i] \in Nat
  BY SMT
<1>1. PICK f \in [0 .. n -> Nat] : /\ Adds(f, terms, n) /\ Total(terms) = f[n]
                                   /\ \A i \in 0 .. n : f[i] <= f[n]
  BY NaturalSums
<1>2. RoundedSum(terms) = g[n]
  BY DEF RoundedSum, RoundedTo
<1>. HIDE DEF n
<1>3. RoundedTo(g, terms, n)
  BY <1>0, RoundedExist
<1>. HIDE DEF g
<1>. DEFINE S == {k \in Nat : k <= n => g[k] = f[k]}
<1>4. 0 \in S
  <2>1. 0 \in 0 .. n
    BY SMT, <1>0
  <2>. QED  BY <1>1, <1>3, <2>1 DEF RoundedTo, Adds
<1>5. ASSUME NEW k \in Nat, k \in S PROVE k + 1 \in S
  <2>0. k + 1 \in Nat
    BY SMT
  <2>. SUFFICES ASSUME k + 1 <= n PROVE g[k + 1] = f[k + 1]
    BY <2>0
  <2>1. /\ k + 1 \in 0 .. n /\ k + 1 \in 1 .. n /\ k + 1 # 0 /\ (k + 1) - 1 = k /\ k <= n
        /\ n \in 0 .. n
    BY SMT, <1>0
  <2>2. g[k + 1] = Round(f[k] + terms[k + 1]) /\ f[k + 1] = f[k] + terms[k + 1]
    <3>1. g[k + 1] = Round(g[(k + 1) - 1] + terms[k + 1])
      BY <1>3, <2>1 DEF RoundedTo
    <3>2. f[k + 1] = f[(k + 1) - 1] + terms[k + 1]
      BY <1>1, <2>1 DEF Adds
    <3>3. g[k] = f[k]
      BY <1>5, <2>1
    <3>. QED  BY <2>1, <3>1, <3>2, <3>3
  <2>3. f[k + 1] \in Nat /\ f[n] \in Nat /\ f[k + 1] <= f[n] /\ f[n] < Limit
    BY <1>1, <2>1
  <2>4. f[k + 1] < Limit
    BY SMT, <2>3, DigitsAssumption
  <2>. QED  BY <2>2, <2>3, <2>4, RoundIsExact
<1>. HIDE DEF S
<1>6. n \in S /\ n <= n
  <2>1. n <= n
    BY SMT, <1>0
  <2>. QED  BY <1>0, <1>4, <1>5, <2>1 DEF Inductive
<1>. QED
  BY <1>1, <1>2, <1>6 DEF S

-----------------------------------------------------------------------------
\* The acquisitions of an asset

Acquisition == [id : Nat, left : Nat \ {0}, ts : Nat, rate : Nat]
Matched == [id : Nat, ts : Nat, amount : Nat]

LeftList(heap) == [i \in DOMAIN heap |-> heap[i].left]
AmountList(matched) == [i \in DOMAIN matched |-> matched[i].amount]

\* The remaining amounts are a list of naturals, and each is part of their sum.
LEMMA LeftsFacts ==
    ASSUME Inductive, NEW heap \in Seq(Acquisition)
    PROVE  /\ LeftList(heap) \in Seq(Nat) /\ Len(LeftList(heap)) = Len(heap)
           /\ Lefts(heap) = Total(LeftList(heap)) /\ Lefts(heap) \in Nat
           /\ heap = <<>> <=> Lefts(heap) = 0
<1>. DEFINE n == Len(heap)
            t == LeftList(heap)
<1>0. n \in Nat /\ DOMAIN heap = 1 .. n /\ \A i \in 1 .. n : heap[i] \in Acquisition
  BY SMT
<1>1. \A i \in 1 .. n : heap[i].left \in Nat \ {0}
  BY <1>0 DEF Acquisition
<1>. HIDE DEF n
<1>2. t \in [1 .. n -> Nat] /\ \A i \in 1 .. n : t[i] \in Nat \ {0}
  BY <1>0, <1>1 DEF LeftList
<1>3. t \in Seq(Nat) /\ Len(t) = n
  BY <1>0, <1>2, ListOf
<1>4. Lefts(heap) = Total(t)
  BY DEF Lefts, LeftList
<1>. HIDE DEF t
<1>5. PICK f \in [0 .. n -> Nat] : /\ Adds(f, t, n) /\ Total(t) = f[n]
                                   /\ \A i \in 0 .. n : f[i] <= f[n]
  BY <1>3, NaturalSums
<1>6. f[n] \in Nat
  BY SMT, <1>0
<1>7. n = 0 => f[n] = 0
  BY <1>5 DEF Adds
<1>8. n # 0 => f[n] # 0
  <2>. SUFFICES ASSUME n # 0 PROVE f[n] # 0
    OBVIOUS
  <2>1. 1 \in 1 .. n /\ 1 \in 0 .. n /\ 1 - 1 = 0
    BY SMT, <1>0
  <2>2. f[1] = 0 + t[1] /\ t[1] \in Nat \ {0} /\ f[1] <= f[n]
    BY <1>2, <1>5, <2>1 DEF Adds
  <2>. QED  BY SMT, <2>2
<1>9. heap = <<>> <=> n = 0
  BY SMT DEF n
<1>. QED
  BY <1>3, <1>4, <1>5, <1>6, <1>7, <1>8, <1>9 DEF n, t

\* The same for the amounts that a spend takes.
LEMMA AmountsFacts ==
    ASSUME Inductive, NEW matched \in Seq(Matched)
    PROVE  /\ AmountList(matched) \in Seq(Nat) /\ Len(AmountList(matched)) = Len(matched)
           /\ Amounts(matched) = Total(AmountList(matched)) /\ Amounts(matched) \in Nat
           /\ matched = <<>> => Amounts(matched) = 0
<1>. DEFINE n == Len(matched)
            t == AmountList(matched)
<1>0. n \in Nat /\ DOMAIN matched = 1 .. n /\ \A i \in 1 .. n : matched[i] \in Matched
  BY SMT
<1>. HIDE DEF n
<1>2. t \in [1 .. n -> Nat]
  BY <1>0 DEF AmountList, Matched
<1>3. t \in Seq(Nat) /\ Len(t) = n
  BY <1>0, <1>2, ListOf
<1>4. Amounts(matched) = Total(t)
  BY DEF Amounts, AmountList
<1>. HIDE DEF t
<1>5. PICK f \in [0 .. n -> Nat] : Adds(f, t, n) /\ Total(t) = f[n]
  BY <1>3, NaturalSums
<1>6. f[n] \in Nat
  BY SMT, <1>0
<1>7. n = 0 => f[n] = 0
  BY <1>5 DEF Adds
<1>9. matched = <<>> => n = 0
  BY SMT DEF n
<1>. QED
  BY <1>3, <1>4, <1>5, <1>6, <1>7, <1>9 DEF n, t

-----------------------------------------------------------------------------
\* The loop that uses acquisitions up

Begun(manager, amount) ==
    [rest |-> amount, stop |-> FALSE, error |-> FALSE,
     current |-> manager.current, matched |-> <<>>, heap |-> <<>>]

TurnsTo(turn, manager, method, amount, n) ==
    turn = [i \in 0 .. n |-> IF i = 0 THEN Begun(manager, amount)
                             ELSE Consume(method, turn[i - 1], manager.heap[i])]

\* The recursive definition of Deplete defines something.
LEMMA TurnsExist ==
    ASSUME Inductive, NEW manager, NEW method, NEW amount, NEW n \in Nat
    PROVE  \E turn : TurnsTo(turn, manager, method, amount, n)
<1>. DEFINE S == {k \in Nat : \E turn : TurnsTo(turn, manager, method, amount, k)}
<1>1. 0 \in S
  <2>. DEFINE f == [i \in 0 .. 0 |-> Begun(manager, amount)]
  <2>1. TurnsTo(f, manager, method, amount, 0)
    BY SMT DEF TurnsTo
  <2>. QED  BY <2>1
<1>2. ASSUME NEW k \in Nat, k \in S PROVE k + 1 \in S
  <2>1. PICK f : TurnsTo(f, manager, method, amount, k)
    BY <1>2
  <2>. DEFINE v == Consume(method, f[k], manager.heap[k + 1])
              g == [i \in 0 .. k + 1 |-> IF i <= k THEN f[i] ELSE v]
  <2>2. TurnsTo(g, manager, method, amount, k + 1)
    BY SMT, <2>1 DEF TurnsTo
  <2>3. k + 1 \in Nat
    BY SMT
  <2>. QED  BY <2>2, <2>3
<1>. HIDE DEF S
<1>3. n \in S
  BY <1>1, <1>2 DEF Inductive
<1>. QED
  BY <1>3 DEF S

Loop(turn, manager, method, amount, n) ==
    /\ turn[0] = Begun(manager, amount)
    /\ \A i \in 1 .. n : turn[i] = Consume(method, turn[i - 1], manager.heap[i])
    /\ Deplete(manager, method, amount) = turn[n]

\* Deplete is the last of the turns.
LEMMA DepleteIsLoop ==
    ASSUME Inductive, NEW manager, NEW method, NEW amount, NEW n \in Nat, Len(manager.heap) = n
    PROVE  \E turn : Loop(turn, manager, method, amount, n)
<1>. DEFINE f == CHOOSE turn : TurnsTo(turn, manager, method, amount, n)
<1>1. Deplete(manager, method, amount) = f[n]
  BY DEF Deplete, TurnsTo, Begun
<1>2. TurnsTo(f, manager, method, amount, n)
  BY TurnsExist
<1>. HIDE DEF f
<1>3. 0 \in 0 .. n /\ \A i \in 1 .. n : i \in 0 .. n /\ i # 0
  BY SMT
<1>4. f[0] = Begun(manager, amount)
  BY <1>2, <1>3 DEF TurnsTo
<1>5. ASSUME NEW i \in 1 .. n PROVE f[i] = Consume(method, f[i - 1], manager.heap[i])
  BY <1>2, <1>3 DEF TurnsTo
<1>6. Loop(f, manager, method, amount, n)
  BY <1>1, <1>4, <1>5 DEF Loop
<1>. QED
  BY <1>6

So == [rest : Nat, stop : BOOLEAN, error : BOOLEAN, current : Int,
       matched : Seq(Matched), heap : Seq(Acquisition)]

\* what a turn uses of acquisition a
UsedOf(so, a) == IF so.rest < a.left THEN so.rest ELSE a.left

\* The three outcomes of a turn, field by field.
Turned(method, so, a, c) ==
    /\ so.stop =>
         /\ c.rest = so.rest /\ c.stop = TRUE /\ c.error = so.error /\ c.current = so.current
         /\ c.matched = so.matched /\ c.heap = Append(so.heap, a)
    /\ ~so.stop /\ method = "ACB" /\ so.current = 0 =>
         /\ c.rest = so.rest /\ c.stop = TRUE /\ c.error = TRUE /\ c.current = so.current
         /\ c.matched = so.matched /\ c.heap = Append(so.heap, a)
    /\ ~so.stop /\ ~(method = "ACB" /\ so.current = 0) =>
         /\ c.rest = (IF so.rest < a.left THEN 0 ELSE Round(so.rest - a.left))
         /\ c.stop = (so.rest < a.left) /\ c.error = FALSE
         /\ c.current = Round(so.current - UsedOf(so, a))
         /\ c.matched = Append(so.matched, [id |-> a.id, ts |-> a.ts,
                                            amount |-> UsedOf(so, a)])
         /\ c.heap = (IF Round(a.left - UsedOf(so, a)) = 0 THEN so.heap
                      ELSE Append(so.heap, [a EXCEPT !.left = Round(a.left - UsedOf(so, a))]))
    /\ c = [rest |-> c.rest, stop |-> c.stop, error |-> c.error, current |-> c.current,
            matched |-> c.matched, heap |-> c.heap]

\* A turn of the loop has one of the three outcomes.
LEMMA ConsumeFacts ==
    ASSUME NEW method, NEW so \in So, NEW a \in Acquisition
    PROVE  Turned(method, so, a, Consume(method, so, a))
<1>1. CASE so.stop
  BY <1>1 DEF Consume, So, Turned
<1>2. CASE ~so.stop /\ method = "ACB" /\ so.current = 0
  BY <1>2 DEF Consume, So, Turned
<1>3. CASE ~so.stop /\ ~(method = "ACB" /\ so.current = 0)
  BY <1>3 DEF Consume, So, UsedOf, Turned
<1>. QED
  BY <1>1, <1>2, <1>3

\* The fields of a state of the loop and of an acquisition.
LEMMA TurnTypes ==
    ASSUME NEW so \in So, NEW a \in Acquisition
    PROVE  /\ so.rest \in Nat /\ so.stop \in BOOLEAN /\ so.error \in BOOLEAN
           /\ so.current \in Int /\ so.matched \in Seq(Matched) /\ so.heap \in Seq(Acquisition)
           /\ a.left \in Nat \ {0} /\ a.id \in Nat /\ a.ts \in Nat /\ a.rate \in Nat
           /\ UsedOf(so, a) \in Nat /\ a.left - UsedOf(so, a) \in Nat
           /\ a.left - UsedOf(so, a) \in Int
<1>1. /\ so.rest \in Nat /\ so.stop \in BOOLEAN /\ so.error \in BOOLEAN /\ so.current \in Int
      /\ so.matched \in Seq(Matched) /\ so.heap \in Seq(Acquisition)
      /\ a.left \in Nat \ {0} /\ a.id \in Nat /\ a.ts \in Nat /\ a.rate \in Nat
  BY DEF So, Acquisition
<1>2. /\ UsedOf(so, a) \in Nat /\ a.left - UsedOf(so, a) \in Nat
      /\ a.left - UsedOf(so, a) \in Int
  BY SMT, <1>1 DEF UsedOf
<1>. QED
  BY <1>1, <1>2

\* A turn keeps to the types.
LEMMA ConsumeType ==
    ASSUME Inductive, NEW method, NEW so \in So, NEW a \in Acquisition
    PROVE  Consume(method, so, a) \in So
\* What a difference of integers is.
<1>Differences. /\ 0 \in Nat
                /\ \A x, y \in Int : x - y \in Int /\ (x < y) \in BOOLEAN
                /\ \A x, y \in Nat : ~(x < y) => x - y \in Nat
  BY SMT
\* A record with these fields is a state of the loop.
<1>SoFields. ASSUME NEW d, d = [rest |-> d.rest, stop |-> d.stop, error |-> d.error, current |-> d.current,
                                matched |-> d.matched, heap |-> d.heap],
                    d.rest \in Nat, d.stop \in BOOLEAN, d.error \in BOOLEAN, d.current \in Int,
                    d.matched \in Seq(Matched), d.heap \in Seq(Acquisition)
             PROVE  d \in So
  BY SMT, <1>SoFields DEF So
<1>. DEFINE c == Consume(method, so, a)
            left == Round(a.left - UsedOf(so, a))
            current == Round(so.current - UsedOf(so, a))
            rest == IF so.rest < a.left THEN 0 ELSE Round(so.rest - a.left)
            m == [id |-> a.id, ts |-> a.ts, amount |-> UsedOf(so, a)]
<1>1. /\ so.rest \in Nat /\ so.stop \in BOOLEAN /\ so.error \in BOOLEAN /\ so.current \in Int
      /\ so.matched \in Seq(Matched) /\ so.heap \in Seq(Acquisition)
      /\ a.left \in Nat \ {0} /\ a.id \in Nat /\ a.ts \in Nat /\ a.rate \in Nat
      /\ UsedOf(so, a) \in Nat /\ a.left - UsedOf(so, a) \in Nat
  BY TurnTypes
<1>2. /\ a.left - UsedOf(so, a) \in Int /\ so.current - UsedOf(so, a) \in Int
      /\ so.rest - a.left \in Int /\ (~(so.rest < a.left) => so.rest - a.left \in Nat)
      /\ 0 \in Nat /\ (so.rest < a.left) \in BOOLEAN
  <2>1. a.left \in Nat /\ so.rest \in Int /\ a.left \in Int /\ UsedOf(so, a) \in Int
    BY SMT, <1>1
  <2>. QED
    BY <1>1, <2>1, <1>Differences
<1>3. left \in Nat /\ current \in Int /\ rest \in Nat
  BY <1>1, <1>2, RoundType
<1>. HIDE DEF left, current, rest
<1>4. left # 0 => [a EXCEPT !.left = left] \in Acquisition
  BY SMT, <1>3 DEF Acquisition
<1>5. m \in Matched
  BY <1>1 DEF Matched
<1>. HIDE DEF m
<1>6. Append(so.heap, a) \in Seq(Acquisition) /\ Append(so.matched, m) \in Seq(Matched)
  BY SMT, <1>1, <1>5
<1>7. left # 0 => Append(so.heap, [a EXCEPT !.left = left]) \in Seq(Acquisition)
  BY SMT, <1>1, <1>4
<1>8. Turned(method, so, a, c)
  BY ConsumeFacts
<1>. HIDE DEF c
<1>10. CASE so.stop
  BY <1>1, <1>6, <1>8, <1>10, <1>SoFields DEF Turned, c
<1>11. CASE ~so.stop /\ method = "ACB" /\ so.current = 0
  BY <1>1, <1>6, <1>8, <1>11, <1>SoFields DEF Turned, c
<1>12. CASE ~so.stop /\ ~(method = "ACB" /\ so.current = 0)
  <2>1. /\ c.rest = rest /\ c.stop = (so.rest < a.left) /\ c.error = FALSE
        /\ c.current = current /\ c.matched = Append(so.matched, m)
        /\ c.heap = (IF left = 0 THEN so.heap
                     ELSE Append(so.heap, [a EXCEPT !.left = left]))
    BY <1>8, <1>12 DEF Turned, left, rest, current, m
  <2>2. c.heap \in Seq(Acquisition)
    BY <2>1, <1>1, <1>7
  <2>. QED
    BY <1>2, <1>3, <1>6, <1>8, <2>1, <2>2, <1>SoFields DEF Turned, c
<1>. QED
  BY <1>10, <1>11, <1>12

\* The same acquisition, of which something may have been used.
Same(x, y) == x.id = y.id /\ x.ts = y.ts /\ x.rate = y.rate

\* After i turns the new heap holds the last of the first i acquisitions, and
\* only the first of those may have been touched.
Shape(so, heap, i) ==
    /\ so \in So
    /\ ~so.stop => so.heap = <<>>
    /\ Len(so.heap) <= i
    /\ \A k \in 1 .. Len(so.heap) :
          /\ Same(so.heap[k], heap[i - Len(so.heap) + k])
          /\ k > 1 => so.heap[k] = heap[i - Len(so.heap) + k]

\* A turn that pops the acquisition, when nothing is kept yet.
LEMMA EmptyShape ==
    ASSUME NEW heap, NEW i \in Nat, NEW c \in So, c.heap = <<>>
    PROVE  Shape(c, heap, i)
<1>1. Len(c.heap) = 0 /\ 0 <= i /\ \A k \in 1 .. 0 : FALSE
  BY SMT
<1>. QED
  BY <1>1 DEF Shape

\* Nothing is left of an acquisition that is used in full.
LEMMA RoundZero == Round(0) = 0
<1>1. 0 \in Nat /\ 0 < Limit
  BY SMT, DigitsAssumption
<1>. QED
  BY <1>1, RoundIsExact

\* Every turn keeps the shape.
LEMMA ConsumeShape ==
    ASSUME Inductive, NEW method, NEW heap \in Seq(Acquisition), NEW i \in 1 .. Len(heap), NEW so,
           Shape(so, heap, i - 1)
    PROVE  Shape(Consume(method, so, heap[i]), heap, i)
\* A turn that pushes an acquisition back behind what is kept.
<1>KeepsShape. ASSUME NEW queue \in Seq(Acquisition), NEW at \in 1 .. Len(queue), NEW state, NEW c,
                      Shape(state, queue, at - 1), c \in So, c.stop = TRUE,
                      NEW b \in Acquisition, c.heap = Append(state.heap, b), Same(b, queue[at]),
                      b = queue[at] \/ state.heap = <<>>
               PROVE  Shape(c, queue, at)
  <2>. DEFINE n == Len(state.heap)
  <2>1. state.heap \in Seq(Acquisition) /\ n \in Nat /\ n <= at - 1 /\ at \in Nat
    BY SMT, <1>KeepsShape DEF Shape, So
  <2>0. state.heap = <<>> => n = 0
    BY SMT
  <2>2. /\ Len(c.heap) = n + 1 /\ c.heap[n + 1] = b
        /\ \A k \in 1 .. n : c.heap[k] = state.heap[k]
    BY SMT, <1>KeepsShape, <2>1
  <2>4. n + 1 <= at
    BY SMT, <2>1
  <2>. HIDE DEF n
  <2>3. ASSUME NEW k \in 1 .. n + 1
        PROVE  /\ Same(c.heap[k], queue[at - (n + 1) + k])
               /\ k > 1 => c.heap[k] = queue[at - (n + 1) + k]
    <3>1. CASE k = n + 1
      <4>1. at - (n + 1) + k = at /\ (n = 0 => ~(k > 1))
        BY SMT, <2>1, <3>1
      <4>. QED
        BY <1>KeepsShape, <4>1, <3>1, <2>0, <2>2
    <3>2. CASE k \in 1 .. n
      <4>1. at - (n + 1) + k = at - 1 - n + k
        BY SMT, <2>1
      <4>. QED
        BY <1>KeepsShape, <4>1, <3>2, <2>2 DEF Shape, n
    <3>3. k = n + 1 \/ k \in 1 .. n
      BY SMT, <2>1
    <3>. QED
      BY <3>1, <3>2, <3>3
  <2>. QED
    BY <1>KeepsShape, <2>2, <2>3, <2>4 DEF Shape
<1>. DEFINE a == heap[i]
            c == Consume(method, so, a)
            left == Round(a.left - UsedOf(so, a))
            b == [a EXCEPT !.left = left]
<1>1. a \in Acquisition /\ i \in Nat
  BY SMT
<1>. HIDE DEF a
<1>2. so \in So /\ c \in So /\ Turned(method, so, a, c)
  BY <1>1, ConsumeFacts, ConsumeType DEF Shape
<1>. HIDE DEF c
<1>3. Same(a, a)
  BY DEF Same
<1>4. CASE so.stop \/ (~so.stop /\ method = "ACB" /\ so.current = 0)
  <2>1. c.stop = TRUE /\ c.heap = Append(so.heap, a)
    BY <1>2, <1>4 DEF Turned
  <2>. QED
    BY <2>1, <1>1, <1>2, <1>3, <1>KeepsShape DEF a, c
<1>6. CASE ~so.stop /\ ~(method = "ACB" /\ so.current = 0)
  <2>1. so.heap = <<>>
    BY <1>6 DEF Shape
  <2>2. /\ so.rest \in Nat /\ a.left \in Nat \ {0}
        /\ a.left - UsedOf(so, a) \in Nat /\ a.left - UsedOf(so, a) \in Int
    BY <1>1, <1>2, TurnTypes
  <2>3. left \in Nat
    BY <2>2, RoundType
  <2>4. CASE left = 0
    <3>1. c.heap = <<>>
      BY <2>1, <2>4, <1>2, <1>6 DEF Turned, left
    <3>. QED
      BY <3>1, <1>1, <1>2, EmptyShape DEF c, a
  <2>5. CASE left # 0
    <3>1. c.heap = Append(so.heap, b)
      BY <2>5, <1>2, <1>6 DEF Turned, left
    <3>2. so.rest < a.left
      <4>1. SUFFICES ASSUME ~(so.rest < a.left) PROVE FALSE
        BY SMT
      <4>2. a.left - UsedOf(so, a) = 0
        BY SMT, <4>1, <2>2 DEF UsedOf
      <4>. QED
        BY <4>2, <2>5, RoundZero DEF left
    <3>3. c.stop = TRUE
      BY <3>2, <1>2, <1>6 DEF Turned
    <3>. HIDE DEF left
    <3>4. b \in Acquisition /\ Same(b, a)
      BY <2>3, <2>5, <1>1 DEF Acquisition, Same
    <3>. HIDE DEF b
    <3>. QED
      BY <3>1, <3>3, <3>4, <2>1, <1>1, <1>2, <1>KeepsShape DEF c, a
  <2>. QED
    BY <2>4, <2>5
<1>. QED
  BY <1>4, <1>6 DEF c, a

\* After i turns of a loop over held units: what is still to be found, what is
\* taken and what is kept add up, with f the sums of the remaining amounts.
Exact(so, heap, f, i, amount, held) ==
    /\ Shape(so, heap, i)
    /\ so.error = FALSE
    /\ Lefts(so.heap) + Amounts(so.matched) = f[i]
    /\ so.rest + Amounts(so.matched) = amount
    /\ so.current + Amounts(so.matched) = held
    /\ so.stop => so.rest = 0

TurnAdds(rest, left, current, A, sum, amount, held, limit, used) ==
    /\ current - used \in Nat /\ current - used < limit /\ current # 0
    /\ left - used \in Nat /\ left - used < limit
    /\ ~(rest < left) => rest - left \in Nat /\ rest - left < limit
    /\ (IF rest < left THEN 0 ELSE rest - left) = rest - used
    /\ rest < left => rest - used = 0
    /\ (left - used) + (A + used) = sum + left
    /\ (rest - used) + (A + used) = amount
    /\ (current - used) + (A + used) = held

LoopAdds(rest, left, current, A, amount, held) ==
    /\ rest = Minus(amount, held) /\ left = Minus(held, amount)
    /\ current = Minus(held, amount) /\ A + rest = amount

\* Every turn keeps the sums while the numbers fit in the digits of an FVal.
LEMMA ConsumeExact ==
    ASSUME Inductive, NEW method, NEW heap \in Seq(Acquisition), NEW i \in 1 .. Len(heap), NEW so,
           NEW f, NEW amount \in Nat, NEW held \in Nat, held < Limit, amount < Limit,
           f[i - 1] \in Nat, f[i] = f[i - 1] + heap[i].left, f[i] <= held,
           Exact(so, heap, f, i - 1, amount, held)
    PROVE  Exact(Consume(method, so, heap[i]), heap, f, i, amount, held)
\* The arithmetic of a turn: nothing becomes negative or larger than held and
\* amount, and the sums stay.
<1>TurnSums. ASSUME NEW rest \in Nat, NEW left \in Nat, left # 0, NEW current \in Int, NEW A \in Nat,
                    NEW sum \in Nat, NEW whole \in Nat, NEW stock \in Nat, NEW limit \in Nat,
                    stock < limit, whole < limit, 0 + A = sum, rest + A = whole, current + A = stock,
                    sum + left <= stock, NEW used, used = (IF rest < left THEN rest ELSE left)
             PROVE  TurnAdds(rest, left, current, A, sum, whole, stock, limit, used)
  BY SMT, <1>TurnSums DEF TurnAdds
\* An acquisition is added at the end.
<1>LeftsAppend. ASSUME NEW queue \in Seq(Acquisition), NEW a \in Acquisition
                PROVE  Lefts(Append(queue, a)) = Lefts(queue) + a.left
  <2>1. Append(queue, a) \in Seq(Acquisition)
    BY SMT
  <2>2. LeftList(Append(queue, a)) = Append(LeftList(queue), a.left)
    BY SMT DEF LeftList
  <2>3. a.left \in Nat
    BY DEF Acquisition
  <2>. QED
    BY <2>1, <2>2, <2>3, LeftsFacts, TotalAppend
\* One more matched acquisition adds its amount.
<1>AmountsAppend. ASSUME NEW matched \in Seq(Matched), NEW m \in Matched
                  PROVE  Amounts(Append(matched, m)) = Amounts(matched) + m.amount
  <2>1. Append(matched, m) \in Seq(Matched)
    BY SMT
  <2>2. AmountList(Append(matched, m)) = Append(AmountList(matched), m.amount)
    BY SMT DEF AmountList
  <2>3. m.amount \in Nat
    BY DEF Matched
  <2>. QED
    BY <2>1, <2>2, <2>3, AmountsFacts, TotalAppend
<1>. DEFINE a == heap[i]
            c == Consume(method, so, a)
            used == UsedOf(so, a)
            left == Round(a.left - used)
            b == [a EXCEPT !.left = left]
            m == [id |-> a.id, ts |-> a.ts, amount |-> used]
            L == Lefts(so.heap)
            A == Amounts(so.matched)
<1>0. a \in Acquisition
  BY SMT
<1>1. Shape(c, heap, i)
  BY ConsumeShape DEF Exact
<1>2. f[i] = f[i - 1] + a.left
  OBVIOUS
<1>. HIDE DEF a
<1>3. so \in So /\ Turned(method, so, a, c)
  BY <1>0, ConsumeFacts DEF Exact, Shape
<1>. HIDE DEF c
<1>4. /\ so.rest \in Nat /\ so.current \in Int
      /\ so.matched \in Seq(Matched) /\ so.heap \in Seq(Acquisition)
      /\ a.left \in Nat \ {0} /\ a.id \in Nat /\ a.ts \in Nat
      /\ used \in Nat /\ a.left - used \in Nat
  BY <1>0, <1>3, TurnTypes
<1>5. L \in Nat /\ A \in Nat /\ (so.heap = <<>> => L = 0)
  BY <1>4, LeftsFacts, AmountsFacts
<1>. HIDE DEF L, A
<1>6. /\ so.error = FALSE /\ L + A = f[i - 1] /\ so.rest + A = amount /\ so.current + A = held
      /\ so.stop => so.rest = 0
      /\ ~so.stop => so.heap = <<>>
  BY DEF Exact, Shape, L, A
<1>7. CASE so.stop
  <2>1. /\ c.rest = so.rest /\ c.error = so.error /\ c.current = so.current
        /\ c.matched = so.matched /\ c.heap = Append(so.heap, a)
    BY <1>3, <1>7 DEF Turned
  <2>2. Lefts(c.heap) = L + a.left
    BY <2>1, <1>0, <1>4, <1>LeftsAppend DEF L
  <2>3. L + a.left + A = f[i]
    <3>1. a.left \in Nat
      BY <1>4
    <3>2. L + a.left + A = (L + A) + a.left
      BY SMT, <3>1, <1>5
    <3>. QED
      BY <3>2, <1>2, <1>6
  <2>. QED
    BY <2>1, <2>2, <2>3, <1>1, <1>6, <1>7 DEF Exact, A, a, c
<1>8. CASE ~so.stop
  <2>1. L = 0
    BY <1>5, <1>6, <1>8
  <2>2. /\ so.current - used \in Nat /\ so.current - used < Limit /\ so.current # 0
        /\ a.left - used \in Nat /\ a.left - used < Limit
        /\ ~(so.rest < a.left) => so.rest - a.left \in Nat /\ so.rest - a.left < Limit
        /\ (IF so.rest < a.left THEN 0 ELSE so.rest - a.left) = so.rest - used
        /\ so.rest < a.left => so.rest - used = 0
        /\ (a.left - used) + (A + used) = f[i - 1] + a.left
        /\ (so.rest - used) + (A + used) = amount
        /\ (so.current - used) + (A + used) = held
    <3>1. /\ used = (IF so.rest < a.left THEN so.rest ELSE a.left) /\ Limit \in Nat
          /\ a.left \in Nat /\ a.left # 0 /\ 0 + A = f[i - 1] /\ f[i - 1] + a.left <= held
      BY <2>1, <1>2, <1>4, <1>6, DigitsAssumption DEF UsedOf
    <3>. HIDE DEF used
    <3>2. TurnAdds(so.rest, a.left, so.current, A, f[i - 1], amount, held, Limit, used)
      BY <3>1, <1>4, <1>5, <1>6, <1>TurnSums
    <3>. QED
      BY <3>2 DEF TurnAdds
  <2>4. left = a.left - used /\ Round(so.current - used) = so.current - used
    BY <1>4, <2>2, RoundIsExact
  <2>5. ~(so.rest < a.left) => Round(so.rest - a.left) = so.rest - a.left
    BY <2>2, RoundIsExact
  <2>. HIDE DEF left
  <2>6. /\ c.rest = (IF so.rest < a.left THEN 0 ELSE Round(so.rest - a.left))
        /\ c.stop = (so.rest < a.left) /\ c.error = FALSE
        /\ c.current = Round(so.current - used)
        /\ c.matched = Append(so.matched, m)
        /\ c.heap = (IF left = 0 THEN so.heap ELSE Append(so.heap, b))
    BY <2>2, <1>3, <1>8 DEF Turned, left
  <2>7. c.rest = so.rest - used /\ c.current = so.current - used /\ (c.stop => c.rest = 0)
    BY <2>2, <2>4, <2>5, <2>6
  <2>8. m \in Matched /\ m.amount = used
    BY <1>4 DEF Matched
  <2>. HIDE DEF m
  <2>9. Amounts(c.matched) = A + used
    BY <2>6, <2>8, <1>4, <1>AmountsAppend DEF A
  <2>10. Lefts(c.heap) = left
    <3>1. CASE left = 0
      BY <3>1, <2>1, <2>6 DEF L
    <3>2. CASE left # 0
      <4>1. left \in Nat \ {0}
        BY <3>2, <2>4, <1>4
      <4>2. b \in Acquisition /\ b.left = left
        BY <4>1, <1>0 DEF Acquisition
      <4>. HIDE DEF b
      <4>3. Lefts(c.heap) = L + left
        BY <4>2, <3>2, <2>6, <1>4, <1>LeftsAppend DEF L
      <4>. QED
        BY SMT, <4>1, <4>3, <2>1
    <3>. QED
      BY <3>1, <3>2
  <2>. HIDE DEF used
  <2>11. /\ Lefts(c.heap) + Amounts(c.matched) = f[i]
         /\ c.rest + Amounts(c.matched) = amount
         /\ c.current + Amounts(c.matched) = held
    BY <2>2, <2>4, <2>7, <2>9, <2>10, <1>2
  <2>. QED
    BY <2>6, <2>7, <2>11, <1>1 DEF Exact, a, c
<1>. QED
  BY <1>7, <1>8

Starts(so, manager, amount) ==
    /\ so \in So /\ so.heap = <<>> /\ so.matched = <<>> /\ so.rest = amount
    /\ so.current = manager.current /\ so.stop = FALSE /\ so.error = FALSE

\* The loop begins with nothing taken and nothing kept.
LEMMA BegunFacts ==
    ASSUME NEW manager, manager.current \in Int, NEW amount \in Nat
    PROVE  Starts(Begun(manager, amount), manager, amount)
<1>1. <<>> \in Seq(Matched) /\ <<>> \in Seq(Acquisition) /\ FALSE \in BOOLEAN
  BY SMT
<1>. QED
  BY <1>1 DEF Begun, So, Starts

\* The shape of the heap after the loop.
LEMMA DepleteShape ==
    ASSUME Inductive, NEW manager, manager.heap \in Seq(Acquisition), manager.current \in Int,
           NEW method, NEW amount \in Nat
    PROVE  Shape(Deplete(manager, method, amount), manager.heap, Len(manager.heap))
<1>. DEFINE n == Len(manager.heap)
<1>0. n \in Nat /\ Len(manager.heap) = n
  BY SMT
<1>. HIDE DEF n
<1>00. PICK turn : Loop(turn, manager, method, amount, n)
  BY <1>0, DepleteIsLoop
<1>1. /\ turn[0] = Begun(manager, amount)
      /\ \A i \in 1 .. n : turn[i] = Consume(method, turn[i - 1], manager.heap[i])
      /\ Deplete(manager, method, amount) = turn[n]
  BY <1>00 DEF Loop
<1>. DEFINE S == {k \in Nat : k <= n => Shape(turn[k], manager.heap, k)}
<1>2. 0 \in S
  <2>1. 0 \in Nat
    BY SMT
  <2>2. Starts(turn[0], manager, amount)
    BY <1>1, BegunFacts
  <2>. QED
    BY <2>1, <2>2, EmptyShape DEF Starts
<1>3. ASSUME NEW k \in Nat, k \in S PROVE k + 1 \in S
  <2>1. SUFFICES ASSUME k + 1 <= n PROVE Shape(turn[k + 1], manager.heap, k + 1)
    BY SMT
  <2>2. k + 1 \in 1 .. n /\ (k + 1) - 1 = k /\ k <= n
    BY SMT, <2>1, <1>0
  <2>3. Shape(turn[k], manager.heap, (k + 1) - 1)
    BY <2>2, <1>3
  <2>4. turn[k + 1] = Consume(method, turn[k], manager.heap[k + 1])
    BY <2>2, <1>1
  <2>. QED
    BY <2>2, <2>3, <2>4, ConsumeShape DEF n
<1>. HIDE DEF S
<1>4. n \in S
  BY <1>0, <1>2, <1>3 DEF Inductive
<1>5. n <= n
  BY SMT, <1>0
<1>. QED
  BY <1>1, <1>4, <1>5 DEF S, n

FindsAndLeaves(so, amount, held) ==
    /\ so.error = FALSE /\ so.rest = Minus(amount, held)
    /\ Lefts(so.heap) = Minus(held, amount) /\ so.current = Minus(held, amount)
    /\ Amounts(so.matched) + so.rest = amount

\* What the loop finds and leaves: no more is missing than the acquisitions
\* cannot give, and no more is left than was not asked for.
LEMMA DepleteExact ==
    ASSUME Inductive, NEW manager, manager.heap \in Seq(Acquisition), NEW method, NEW amount \in Nat,
           NEW held \in Nat, held = Lefts(manager.heap), manager.current = held,
           held < Limit, amount < Limit
    PROVE  FindsAndLeaves(Deplete(manager, method, amount), amount, held)
\* The arithmetic after the loop.
<1>LoopSums. ASSUME NEW rest \in Nat, NEW left \in Nat, NEW current \in Int, NEW A \in Nat,
                    NEW whole \in Nat, NEW stock \in Nat,
                    left + A = stock, rest + A = whole, current + A = stock, rest = 0 \/ left = 0
             PROVE  LoopAdds(rest, left, current, A, whole, stock)
  BY SMT, <1>LoopSums DEF LoopAdds, Minus
<1>. DEFINE heap == manager.heap
            n == Len(heap)
            so == Deplete(manager, method, amount)
            terms == LeftList(heap)
<1>0. n \in Nat /\ 0 \in Nat /\ 0 \in 0 .. n /\ held \in Int /\ Len(manager.heap) = n
  BY SMT
<1>. HIDE DEF n
<1>00. PICK turn : Loop(turn, manager, method, amount, n)
  BY <1>0, DepleteIsLoop
<1>1. /\ turn[0] = Begun(manager, amount)
      /\ \A i \in 1 .. n : turn[i] = Consume(method, turn[i - 1], heap[i])
      /\ so = turn[n]
  BY <1>00 DEF Loop
<1>2. PICK f \in [0 .. n -> Nat] : /\ Adds(f, terms, n) /\ held = f[n]
                                   /\ \A i \in 0 .. n : f[i] <= held
  <2>1. terms \in Seq(Nat) /\ Len(terms) = n /\ held = Total(terms)
    BY <1>0, LeftsFacts
  <2>. HIDE DEF terms
  <2>. QED
    BY SMT, <2>1, NaturalSums
<1>3. \A i \in 1 .. n : f[i] = f[i - 1] + heap[i].left
  <2>1. \A i \in 1 .. n : terms[i] = heap[i].left
    BY SMT, <1>0 DEF LeftList
  <2>. QED
    BY <2>1, <1>2 DEF Adds
<1>. HIDE DEF so, terms
<1>. DEFINE S == {k \in Nat : k <= n => Exact(turn[k], heap, f, k, amount, held)}
<1>4. 0 \in S
  <2>1. /\ turn[0] \in So /\ turn[0].heap = <<>> /\ turn[0].matched = <<>>
        /\ turn[0].rest = amount /\ turn[0].current = held
        /\ turn[0].stop = FALSE /\ turn[0].error = FALSE
    <3>1. Starts(turn[0], manager, amount)
      BY <1>0, <1>1, BegunFacts
    <3>. QED
      BY <3>1 DEF Starts
  <2>2. Shape(turn[0], heap, 0)
    BY <2>1, <1>0, EmptyShape
  <2>3. <<>> \in Seq(Acquisition) /\ <<>> \in Seq(Matched)
    BY SMT
  <2>4. Lefts(turn[0].heap) = 0 /\ Amounts(turn[0].matched) = 0
    BY <2>1, <2>3, LeftsFacts, AmountsFacts
  <2>5. 0 + 0 = 0 /\ amount + 0 = amount /\ held + 0 = held
    BY SMT
  <2>6. f[0] = 0
    BY <1>2 DEF Adds
  <2>. QED
    BY <2>1, <2>2, <2>4, <2>5, <2>6, <1>0 DEF Exact
<1>5. ASSUME NEW k \in Nat, k \in S PROVE k + 1 \in S
  <2>1. SUFFICES ASSUME k + 1 <= n PROVE Exact(turn[k + 1], heap, f, k + 1, amount, held)
    BY SMT
  <2>2. /\ k + 1 \in 1 .. n /\ (k + 1) - 1 = k /\ k <= n
        /\ k \in 0 .. n /\ k + 1 \in 0 .. n
    BY SMT, <2>1, <1>0
  <2>3. Exact(turn[k], heap, f, (k + 1) - 1, amount, held)
    BY <2>2, <1>5
  <2>4. turn[k + 1] = Consume(method, turn[k], heap[k + 1])
    BY <2>2, <1>1
  <2>5. /\ f[(k + 1) - 1] \in Nat /\ f[k + 1] <= held
        /\ f[k + 1] = f[(k + 1) - 1] + heap[k + 1].left
    BY <2>2, <1>2, <1>3
  <2>. QED
    BY <2>2, <2>3, <2>4, <2>5, ConsumeExact DEF n
<1>. HIDE DEF S
<1>6. n \in S
  BY <1>0, <1>4, <1>5 DEF Inductive
<1>7. n <= n
  BY SMT, <1>0
<1>8. Exact(so, heap, f, n, amount, held)
  BY <1>1, <1>6, <1>7 DEF S
<1>9. /\ so.error = FALSE /\ Lefts(so.heap) + Amounts(so.matched) = held
      /\ so.rest + Amounts(so.matched) = amount /\ so.current + Amounts(so.matched) = held
      /\ so.stop => so.rest = 0
      /\ ~so.stop => so.heap = <<>>
      /\ so \in So
  BY <1>2, <1>8 DEF Exact, Shape
<1>10. so.rest \in Nat /\ so.current \in Int /\ Lefts(so.heap) \in Nat /\ Amounts(so.matched) \in Nat
  BY <1>9, LeftsFacts, AmountsFacts DEF So
<1>11. so.heap = <<>> => Lefts(so.heap) = 0
  BY <1>9, LeftsFacts DEF So
<1>12. so.rest = 0 \/ Lefts(so.heap) = 0
  BY <1>9, <1>11
<1>13. /\ so.rest = Minus(amount, held) /\ Lefts(so.heap) = Minus(held, amount)
       /\ so.current = Minus(held, amount) /\ Amounts(so.matched) + so.rest = amount
  <2>1. LoopAdds(so.rest, Lefts(so.heap), so.current, Amounts(so.matched), amount, held)
    BY <1>9, <1>10, <1>12, <1>LoopSums
  <2>. QED
    BY <2>1 DEF LoopAdds
<1>. QED
  BY <1>9, <1>13 DEF FindsAndLeaves, so

\* As long as the loop goes on, it has used the acquisitions it saw in full.
UsedSoFar(so, heap, f, i, held) ==
    /\ Shape(so, heap, i) /\ so.error = FALSE
    /\ ~so.stop => so.current + f[i] = held

AddsOn(left, current, sum, held, limit) ==
    /\ current # 0 /\ current - left \in Nat /\ current - left < limit
    /\ (current - left) + (sum + left) = held

\* A turn finds current_amount above zero, however much is asked for.
LEMMA ConsumeFindsSome ==
    ASSUME Inductive, NEW method, NEW heap \in Seq(Acquisition), NEW i \in 1 .. Len(heap), NEW so,
           NEW f, NEW held \in Nat, held < Limit,
           f[i - 1] \in Nat, f[i] = f[i - 1] + heap[i].left, f[i] <= held,
           UsedSoFar(so, heap, f, i - 1, held)
    PROVE  UsedSoFar(Consume(method, so, heap[i]), heap, f, i, held)
\* The arithmetic of a turn that goes on.
<1>GoesOn. ASSUME NEW left \in Nat, left # 0, NEW current \in Int, NEW sum \in Nat, NEW stock \in Nat,
                  NEW limit \in Nat, stock < limit, current + sum = stock, sum + left <= stock
           PROVE  AddsOn(left, current, sum, stock, limit)
  BY SMT, <1>GoesOn DEF AddsOn
<1>. DEFINE a == heap[i]
            c == Consume(method, so, a)
<1>0. a \in Acquisition
  BY SMT
<1>1. Shape(c, heap, i)
  BY ConsumeShape DEF UsedSoFar
<1>2. f[i] = f[i - 1] + a.left
  OBVIOUS
<1>. HIDE DEF a
<1>3. so \in So /\ Turned(method, so, a, c)
  BY <1>0, ConsumeFacts DEF UsedSoFar, Shape
<1>. HIDE DEF c
<1>4. so.current \in Int /\ a.left \in Nat /\ a.left # 0
  BY <1>0, <1>3, TurnTypes
<1>5. CASE so.stop
  BY <1>1, <1>3, <1>5 DEF UsedSoFar, Turned, a, c
<1>6. CASE ~so.stop
  <2>1. so.current + f[i - 1] = held /\ f[i - 1] + a.left <= held /\ Limit \in Nat
    BY <1>2, <1>6, DigitsAssumption DEF UsedSoFar
  <2>2. /\ so.current # 0 /\ so.current - a.left \in Nat /\ so.current - a.left < Limit
        /\ (so.current - a.left) + (f[i - 1] + a.left) = held
    <3>1. AddsOn(a.left, so.current, f[i - 1], held, Limit)
      BY <2>1, <1>4, <1>GoesOn
    <3>. QED
      BY <3>1 DEF AddsOn
  <2>3. Round(so.current - a.left) = so.current - a.left
    BY <2>2, RoundIsExact
  <2>4. /\ c.error = FALSE /\ c.stop = (so.rest < a.left)
        /\ c.current = Round(so.current - UsedOf(so, a))
    BY <2>2, <1>3, <1>6 DEF Turned
  <2>5. ~c.stop => c.current = so.current - a.left
    BY <2>3, <2>4 DEF UsedOf
  <2>6. ~c.stop => c.current + f[i] = held
    BY <2>2, <2>5, <1>2
  <2>. QED
    BY <2>4, <2>6, <1>1 DEF UsedSoFar, a, c
<1>. QED
  BY <1>5, <1>6

\* The average cost basis does not meet a current_amount of zero while there are
\* acquisitions and no digit was lost.
LEMMA DepleteFindsSome ==
    ASSUME Inductive, NEW manager, manager.heap \in Seq(Acquisition), NEW method, NEW amount \in Nat,
           NEW held \in Nat, held = Lefts(manager.heap), manager.current = held, held < Limit
    PROVE  Deplete(manager, method, amount).error = FALSE
<1>. DEFINE heap == manager.heap
            n == Len(heap)
            so == Deplete(manager, method, amount)
            terms == LeftList(heap)
<1>0. n \in Nat /\ 0 \in Nat /\ 0 \in 0 .. n /\ held \in Int /\ Len(manager.heap) = n
  BY SMT
<1>. HIDE DEF n
<1>00. PICK turn : Loop(turn, manager, method, amount, n)
  BY <1>0, DepleteIsLoop
<1>1. /\ turn[0] = Begun(manager, amount)
      /\ \A i \in 1 .. n : turn[i] = Consume(method, turn[i - 1], heap[i])
      /\ so = turn[n]
  BY <1>00 DEF Loop
<1>2. PICK f \in [0 .. n -> Nat] : /\ Adds(f, terms, n) /\ held = f[n]
                                   /\ \A i \in 0 .. n : f[i] <= held
  <2>1. terms \in Seq(Nat) /\ Len(terms) = n /\ held = Total(terms)
    BY <1>0, LeftsFacts
  <2>. HIDE DEF terms
  <2>. QED
    BY SMT, <2>1, NaturalSums
<1>3. \A i \in 1 .. n : f[i] = f[i - 1] + heap[i].left
  <2>1. \A i \in 1 .. n : terms[i] = heap[i].left
    BY SMT, <1>0 DEF LeftList
  <2>. QED
    BY <2>1, <1>2 DEF Adds
<1>. HIDE DEF so, terms
<1>. DEFINE S == {k \in Nat : k <= n => UsedSoFar(turn[k], heap, f, k, held)}
<1>4. 0 \in S
  <2>1. Starts(turn[0], manager, amount)
    BY <1>0, <1>1, BegunFacts
  <2>2. Shape(turn[0], heap, 0)
    BY <2>1, <1>0, EmptyShape DEF Starts
  <2>3. f[0] = 0 /\ held + 0 = held
    <3>1. held + 0 = held
      BY SMT
    <3>. QED
      BY <3>1, <1>2 DEF Adds
  <2>. QED
    BY <2>1, <2>2, <2>3, <1>0 DEF UsedSoFar, Starts
<1>5. ASSUME NEW k \in Nat, k \in S PROVE k + 1 \in S
  <2>1. SUFFICES ASSUME k + 1 <= n PROVE UsedSoFar(turn[k + 1], heap, f, k + 1, held)
    BY SMT
  <2>2. /\ k + 1 \in 1 .. n /\ (k + 1) - 1 = k /\ k <= n
        /\ k \in 0 .. n /\ k + 1 \in 0 .. n
    BY SMT, <2>1, <1>0
  <2>3. UsedSoFar(turn[k], heap, f, (k + 1) - 1, held)
    BY <2>2, <1>5
  <2>4. turn[k + 1] = Consume(method, turn[k], heap[k + 1])
    BY <2>2, <1>1
  <2>5. /\ f[(k + 1) - 1] \in Nat /\ f[k + 1] <= held
        /\ f[k + 1] = f[(k + 1) - 1] + heap[k + 1].left
    BY <2>2, <1>2, <1>3
  <2>. QED
    BY <2>2, <2>3, <2>4, <2>5, ConsumeFindsSome DEF n
<1>. HIDE DEF S
<1>6. n \in S
  BY <1>0, <1>4, <1>5 DEF Inductive
<1>7. n <= n
  BY SMT, <1>0
<1>. QED
  BY <1>1, <1>6, <1>7 DEF S, UsedSoFar, so

-----------------------------------------------------------------------------
\* The managers.

Manager == [heap : Seq(Acquisition), count : Nat, current : Int]

\* No acquisition comes after one that the method puts behind it.
Sorted(method, heap) ==
    \A j, k \in 1 .. Len(heap) : j < k => ~Before(method, heap[k], heap[j])

Distinct(heap) == \A j, k \in 1 .. Len(heap) : heap[j].id = heap[k].id => j = k

Good(manager, method) ==
    /\ manager \in Manager
    /\ \A k \in 1 .. Len(manager.heap) : manager.heap[k].id < manager.count
    /\ Distinct(manager.heap)
    /\ Sorted(method, manager.heap)

\* more is heap with x put in at position p
Inserted(more, heap, p, x) ==
    /\ more \in Seq(Acquisition) /\ Len(more) = Len(heap) + 1
    /\ \A k \in 1 .. p - 1 : more[k] = heap[k]
    /\ more[p] = x
    /\ \A k \in p + 1 .. Len(heap) + 1 : more[k] = heap[k - 1]

Lies(k, more, heap, p, x) ==
    \/ k = p /\ more[k] = x
    \/ k \in 1 .. Len(heap) /\ k < p /\ more[k] = heap[k]
    \/ k - 1 \in 1 .. Len(heap) /\ p <= k - 1 /\ more[k] = heap[k - 1]

\* Nothing comes before itself.
LEMMA BeforeIrreflexive ==
    ASSUME NEW method \in Methods, NEW x \in Acquisition
    PROVE  ~Before(method, x, x)
<1>1. x.id \in Nat /\ x.ts \in Nat /\ x.rate \in Nat
  BY DEF Acquisition
<1>2. /\ ~(x.id < x.id) /\ ~(x.id > x.id)
      /\ ~(x.rate > x.rate \/ (x.rate = x.rate /\ x.ts < x.ts))
  BY SMT, <1>1
<1>3. method \in {"FIFO", "ACB"} \/ method = "LIFO" \/ method = "HIFO"
  BY DEF Methods
<1>4. CASE method \in {"FIFO", "ACB"}
  BY <1>2, <1>4 DEF Before
<1>5. CASE method = "LIFO"
  BY SMT, <1>2, <1>5 DEF Before
<1>6. CASE method = "HIFO"
  BY SMT, <1>2, <1>6 DEF Before
<1>. QED
  BY <1>3, <1>4, <1>5, <1>6

\* What add_in_event does to a manager: the acquisition goes where the method
\* puts it, and nothing else changes.
AddsTo(q, manager, method, amount) ==
    /\ Good(q, method)
    /\ Lefts(q.heap) = Lefts(manager.heap) + amount
    /\ q.current = Round(manager.current + amount)
    /\ \A k \in 1 .. Len(manager.heap) :
          \E l \in 1 .. Len(q.heap) : q.heap[l] = manager.heap[k]

\* add_in_event keeps a manager in order.
LEMMA AddInEventFacts ==
    ASSUME Inductive, NEW method \in Methods, NEW manager, Good(manager, method), NEW amount \in Nat \ {0},
           NEW ts \in Nat, NEW rate \in Nat, NEW q \in AddInEvent(manager, method, amount, ts, rate)
    PROVE  AddsTo(q, manager, method, amount)
\* The three places in a list after an insertion.
<1>InsertedAt. ASSUME NEW heap \in Seq(Acquisition), NEW p \in 1 .. Len(heap) + 1, NEW x,
                      NEW more, Inserted(more, heap, p, x), NEW k \in 1 .. Len(more)
               PROVE  Lies(k, more, heap, p, x)
  <2>. DEFINE n == Len(heap)
  <2>1. n \in Nat /\ p \in Nat
    BY SMT
  <2>2. k \in 1 .. n + 1
    BY <1>InsertedAt DEF Inserted
  <2>. HIDE DEF n
  <2>3. \/ k = p
        \/ k \in 1 .. p - 1 /\ k \in 1 .. n /\ k < p
        \/ k \in p + 1 .. n + 1 /\ k - 1 \in 1 .. n /\ p <= k - 1
    <3>1. p <= n + 1
      BY SMT DEF n
    <3>. QED
      BY SMT, <3>1, <2>1, <2>2
  <2>. QED
    BY <1>InsertedAt, <2>3 DEF Inserted, Lies, n
\* An insertion adds the remaining amount of what it puts in.
<1>LeftsInsert. ASSUME NEW heap \in Seq(Acquisition), NEW p \in 1 .. Len(heap) + 1, NEW x \in Acquisition,
                       NEW more, Inserted(more, heap, p, x)
                PROVE  Lefts(more) = Lefts(heap) + x.left
  <2>. DEFINE n == Len(heap)
              s == LeftList(heap)
              t == LeftList(more)
  <2>1. more \in Seq(Acquisition) /\ Len(more) = n + 1
    BY <1>LeftsInsert DEF Inserted
  <2>2. /\ s \in Seq(Nat) /\ Len(s) = n /\ Lefts(heap) = Total(s)
        /\ t \in Seq(Nat) /\ Len(t) = n + 1 /\ Lefts(more) = Total(t)
    BY <2>1, LeftsFacts
  <2>3. x.left \in Nat
    BY DEF Acquisition
  <2>4. n \in Nat /\ p \in Nat /\ DOMAIN heap = 1 .. n /\ DOMAIN more = 1 .. n + 1
    BY SMT, <2>1
  <2>5. /\ \A k \in 1 .. n : s[k] = heap[k].left
        /\ \A k \in 1 .. n + 1 : t[k] = more[k].left
    BY <2>4 DEF LeftList
  <2>. HIDE DEF s, t
  <2>6. ASSUME NEW k \in 1 .. p - 1 PROVE t[k] = s[k]
    <3>1. k \in 1 .. n /\ k \in 1 .. n + 1
      BY SMT, <2>4
    <3>. QED
      BY <1>LeftsInsert, <3>1, <2>5 DEF Inserted
  <2>7. t[p] = x.left
    BY <1>LeftsInsert, <2>5 DEF Inserted
  <2>8. ASSUME NEW k \in p + 1 .. n + 1 PROVE t[k] = s[k - 1]
    <3>1. k - 1 \in 1 .. n /\ k \in 1 .. n + 1
      BY SMT, <2>4
    <3>. QED
      BY <1>LeftsInsert, <3>1, <2>5 DEF Inserted
  <2>. HIDE DEF n
  <2>9. p \in 1 .. Len(s) + 1 /\ Len(t) = Len(s) + 1
    BY <2>2 DEF n
  <2>10. \A k \in p + 1 .. Len(t) : t[k] = s[k - 1]
    BY <2>2, <2>8
  <2>11. Total(t) = Total(s) + x.left
    BY <2>2, <2>3, <2>6, <2>7, <2>9, <2>10, TotalInsert
  <2>. QED
    BY <2>2, <2>11
\* What AddInEvent puts together is an insertion.
<1>SplitIsInsertion. ASSUME NEW heap \in Seq(Acquisition), NEW p \in 1 .. Len(heap) + 1, NEW x \in Acquisition
                     PROVE  Inserted(SubSeq(heap, 1, p - 1) \o <<x>> \o SubSeq(heap, p, Len(heap)), heap, p, x)
  <2>. DEFINE n == Len(heap)
              front == SubSeq(heap, 1, p - 1)
              back == SubSeq(heap, p, n)
              first == front \o <<x>>
              more == first \o back
  <2>0. n \in Nat /\ p \in Nat /\ x \in Acquisition
    BY SMT, <1>SplitIsInsertion
  <2>1. /\ front \in Seq(Acquisition) /\ Len(front) = p - 1
        /\ \A k \in 1 .. p - 1 : front[k] = heap[k]
    BY SMT
  <2>2. /\ back \in Seq(Acquisition) /\ Len(back) = n - p + 1
        /\ \A k \in 1 .. n - p + 1 : back[k] = heap[p + k - 1]
    BY SMT
  <2>. HIDE DEF front, back
  <2>3. /\ first \in Seq(Acquisition) /\ Len(first) = p /\ first[p] = x
        /\ \A k \in 1 .. p - 1 : first[k] = front[k]
    BY SMT, <2>0, <2>1
  <2>. HIDE DEF first
  <2>4. /\ more \in Seq(Acquisition) /\ Len(more) = n + 1
        /\ \A k \in 1 .. p : more[k] = first[k]
        /\ \A k \in p + 1 .. n + 1 : more[k] = back[k - p]
    BY SMT, <2>0, <2>2, <2>3
  <2>. HIDE DEF more, n
  <2>5. ASSUME NEW k \in 1 .. p - 1 PROVE more[k] = heap[k]
    <3>1. k \in 1 .. p
      BY SMT, <2>0
    <3>. QED
      BY <3>1, <2>1, <2>3, <2>4
  <2>6. more[p] = x
    <3>1. p \in 1 .. p
      BY SMT, <2>0
    <3>. QED
      BY <3>1, <2>3, <2>4
  <2>7. ASSUME NEW k \in p + 1 .. n + 1 PROVE more[k] = heap[k - 1]
    <3>1. k - p \in 1 .. n - p + 1 /\ p + (k - p) - 1 = k - 1
      BY SMT, <2>0
    <3>. QED
      BY <3>1, <2>2, <2>4
  <2>. QED
    BY <2>4, <2>5, <2>6, <2>7 DEF Inserted, more, first, front, back, n
<1>. DEFINE heap == manager.heap
            n == Len(heap)
            x == [id |-> manager.count, left |-> amount, ts |-> ts, rate |-> rate]
            fits(i) == /\ \A j \in 1 .. i - 1 : ~Before(method, x, heap[j])
                       /\ \A j \in i .. Len(heap) : ~Before(method, heap[j], x)
            at(i) == SubSeq(heap, 1, i - 1) \o <<x>> \o SubSeq(heap, i, Len(heap))
<1>1. /\ heap \in Seq(Acquisition) /\ manager.count \in Nat /\ manager.current \in Int
      /\ \A k \in 1 .. n : heap[k].id < manager.count
      /\ Distinct(heap) /\ Sorted(method, heap)
  BY DEF Good, Manager
<1>2. PICK p \in 1 .. n + 1 :
          /\ fits(p)
          /\ q = [heap |-> at(p), count |-> manager.count + 1,
                  current |-> Round(manager.current + amount)]
  BY DEF AddInEvent
<1>3. x \in Acquisition /\ x.id = manager.count /\ x.left = amount
  BY <1>1 DEF Acquisition
<1>4. /\ q.heap = at(p) /\ q.count = manager.count + 1
      /\ q.current = Round(manager.current + amount)
  BY <1>2
<1>5. Inserted(q.heap, heap, p, x)
  BY <1>1, <1>3, <1>4, <1>SplitIsInsertion
<1>. HIDE DEF at, x
<1>6. q.heap \in Seq(Acquisition) /\ Len(q.heap) = n + 1
  BY <1>5 DEF Inserted
<1>7. n \in Nat /\ p \in Nat /\ n + 1 \in Nat
  BY SMT, <1>1
<1>8. q \in Manager
  <2>1. manager.current + amount \in Int /\ manager.count + 1 \in Nat
    BY SMT, <1>1
  <2>2. Round(manager.current + amount) \in Int
    BY <2>1, RoundType
  <2>3. at(p) \in Seq(Acquisition)
    BY <1>4, <1>6
  <2>. QED
    BY <2>1, <2>2, <2>3, <1>2 DEF Manager
<1>. HIDE DEF heap, n, fits
<1>9. Lefts(q.heap) = Lefts(heap) + amount
  BY <1>1, <1>3, <1>5, <1>LeftsInsert DEF n
<1>10. ASSUME NEW k \in 1 .. Len(q.heap)
       PROVE  \/ k = p /\ q.heap[k] = x
              \/ k \in 1 .. n /\ k < p /\ q.heap[k] = heap[k]
              \/ k - 1 \in 1 .. n /\ p <= k - 1 /\ q.heap[k] = heap[k - 1]
  <2>1. Lies(k, q.heap, heap, p, x)
    BY <1>1, <1>5, <1>InsertedAt DEF n
  <2>. QED
    BY <2>1 DEF Lies, n
<1>11. ASSUME NEW k \in 1 .. Len(q.heap) PROVE q.heap[k].id < q.count
  <2>1. \A l \in 1 .. n : heap[l].id \in Nat /\ heap[l].id < manager.count
    <3>1. \A l \in 1 .. n : heap[l] \in Acquisition
      BY SMT, <1>1 DEF n
    <3>. QED
      BY <3>1, <1>1 DEF n, Acquisition
  <2>2. \A i \in Nat : i < manager.count => i < manager.count + 1
    BY SMT, <1>1
  <2>3. manager.count < manager.count + 1
    BY SMT, <1>1
  <2>. QED
    BY <1>3, <1>4, <1>10, <2>1, <2>2, <2>3
<1>12. \A l \in 1 .. n : heap[l].id # x.id
  <2>1. \A l \in 1 .. n : heap[l].id < manager.count
    BY <1>1 DEF n
  <2>2. ~(manager.count < manager.count)
    BY SMT, <1>1
  <2>. QED
    BY <2>1, <2>2, <1>3
<1>13. ASSUME NEW j \in 1 .. Len(q.heap), NEW k \in 1 .. Len(q.heap), q.heap[j].id = q.heap[k].id
       PROVE  j = k
  <2>1. CASE j = p /\ q.heap[j] = x
    BY <2>1, <1>10, <1>12, <1>13
  <2>2. CASE j \in 1 .. n /\ j < p /\ q.heap[j] = heap[j]
    <3>1. ~(j = k - 1 /\ p <= k - 1)
      BY SMT, <2>2, <1>7
    <3>. QED
      BY <3>1, <2>2, <1>1, <1>10, <1>12, <1>13 DEF Distinct, n
  <2>3. CASE j - 1 \in 1 .. n /\ p <= j - 1 /\ q.heap[j] = heap[j - 1]
    <3>1. ~(k = j - 1 /\ k < p) /\ (j - 1 = k - 1 => j = k)
      BY SMT, <2>3, <1>6, <1>7
    <3>. QED
      BY <3>1, <2>3, <1>1, <1>10, <1>12, <1>13 DEF Distinct, n
  <2>. QED
    BY <2>1, <2>2, <2>3, <1>10
<1>14. ASSUME NEW j \in 1 .. Len(q.heap), NEW k \in 1 .. Len(q.heap), j < k
       PROVE  ~Before(method, q.heap[k], q.heap[j])
  <2>0. j \in Int /\ k \in Int
    BY SMT, <1>6, <1>7
  <2>1. CASE j = p /\ q.heap[j] = x
    <3>1. k # p /\ ~(k < p) /\ (k - 1 \in 1 .. n /\ p <= k - 1 => k - 1 \in p .. n)
      BY SMT, <2>0, <2>1, <1>7, <1>14
    <3>2. k - 1 \in p .. n /\ q.heap[k] = heap[k - 1]
      BY <3>1, <1>10
    <3>. QED
      BY <2>1, <3>2, <1>2 DEF fits, n
  <2>2. CASE j \in 1 .. n /\ j < p /\ q.heap[j] = heap[j]
    <3>1. j \in 1 .. p - 1 /\ (p <= k - 1 => j < k - 1)
      BY SMT, <2>0, <2>2, <1>7
    <3>. QED
      BY <3>1, <2>2, <1>1, <1>2, <1>10, <1>14 DEF Sorted, fits, n
  <2>3. CASE j - 1 \in 1 .. n /\ p <= j - 1 /\ q.heap[j] = heap[j - 1]
    <3>1. k # p /\ ~(k < p) /\ j - 1 < k - 1
      BY SMT, <2>0, <2>3, <1>7, <1>14
    <3>. QED
      BY <3>1, <2>3, <1>1, <1>10 DEF Sorted, n
  <2>. QED
    BY <2>1, <2>2, <2>3, <1>10
<1>15. ASSUME NEW k \in 1 .. n PROVE \E l \in 1 .. Len(q.heap) : q.heap[l] = heap[k]
  <2>1. CASE k < p
    <3>1. k \in 1 .. n + 1 /\ k \in 1 .. p - 1
      BY SMT, <2>1, <1>7
    <3>. QED
      BY <3>1, <1>5, <1>6 DEF Inserted
  <2>2. CASE ~(k < p)
    <3>1. k + 1 \in 1 .. n + 1 /\ k + 1 \in p + 1 .. n + 1 /\ (k + 1) - 1 = k
      BY SMT, <2>2, <1>7
    <3>2. q.heap[k + 1] = heap[(k + 1) - 1]
      BY <3>1, <1>5 DEF Inserted, n
    <3>. QED
      BY <3>1, <3>2, <1>6
  <2>. QED
    BY <2>1, <2>2
<1>16. Good(q, method)
  BY <1>8, <1>11, <1>13, <1>14 DEF Good, Distinct, Sorted
<1>. QED
  BY <1>4, <1>9, <1>15, <1>16 DEF AddsTo, heap, n

-----------------------------------------------------------------------------
\* What a spend leaves.

\* A spend takes from an acquisition only when all before it are used up.
Ordered(old, new, method) ==
    \A i, j \in 1 .. Len(old) :
        /\ Before(method, old[j], old[i])
        /\ ~\E k \in 1 .. Len(new) : new[k] = old[i]
        => \A k \in 1 .. Len(new) : new[k].id # old[j].id

LeavesInOrder(so, manager, method) ==
    /\ Good(Depleted(manager, so), method) /\ Ordered(manager.heap, so.heap, method)
    /\ so \in So /\ Depleted(manager, so).heap = so.heap
    /\ Depleted(manager, so).current = so.current

\* A manager after the loop is in order, and was used in order.
LEMMA DepletedGood ==
    ASSUME Inductive, NEW method \in Methods, NEW manager, Good(manager, method), NEW amount \in Nat,
           NEW so, so = Deplete(manager, method, amount)
    PROVE  LeavesInOrder(so, manager, method)
\* The order does not look at what is left of an acquisition.
<1>BeforeSame. ASSUME NEW rule, NEW x, NEW y, NEW u, NEW v, Same(x, u), Same(y, v)
               PROVE  Before(rule, x, y) = Before(rule, u, v)
  BY <1>BeforeSame DEF Before, Same
<1>. DEFINE old == manager.heap
            new == so.heap
            n == Len(old)
            m == Len(new)
            off == n - m
<1>1. /\ old \in Seq(Acquisition) /\ manager.count \in Nat /\ manager.current \in Int
      /\ \A k \in 1 .. n : old[k].id < manager.count
      /\ Distinct(old) /\ Sorted(method, old) /\ manager \in Manager
  BY DEF Good, Manager
<1>2. Shape(so, old, n)
  BY <1>1, DepleteShape
<1>3. so \in So /\ new \in Seq(Acquisition) /\ so.current \in Int
  BY <1>2 DEF Shape, So
<1>4. /\ Depleted(manager, so) \in Manager /\ Depleted(manager, so).heap = new
      /\ Depleted(manager, so).count = manager.count
      /\ Depleted(manager, so).current = so.current
  <2>. HIDE DEF old, new, n, m, off
  <2>. QED
    BY <1>1, <1>3 DEF Depleted, Manager, new
<1>5. n \in Nat /\ m \in Nat /\ m <= n
  <2>1. n \in Nat /\ m \in Nat
    BY SMT, <1>1, <1>3
  <2>. QED
    BY <2>1, <1>2 DEF Shape
<1>50. off = n - m /\ off \in Nat
  BY SMT, <1>5
<1>. HIDE DEF old, new, n, m, off
<1>6. ASSUME NEW k \in 1 .. m
      PROVE  off + k \in 1 .. n /\ Same(new[k], old[off + k]) /\ (k > 1 => new[k] = old[off + k])
  <2>1. off + k \in 1 .. n
    BY SMT, <1>5, <1>50
  <2>. QED
    BY <2>1, <1>2 DEF Shape, new, n, m, off
<1>7. \A k \in 1 .. m : new[k].id = old[off + k].id
  BY <1>6 DEF Same
<1>8. ASSUME NEW j \in 1 .. m, NEW k \in 1 .. m, new[j].id = new[k].id PROVE j = k
  <2>0. old[off + j].id = old[off + k].id
    BY <1>7, <1>8
  <2>1. off + j = off + k
    BY <2>0, <1>1, <1>6 DEF Distinct, n
  <2>. QED
    BY SMT, <2>1, <1>50
<1>9. ASSUME NEW j \in 1 .. m, NEW k \in 1 .. m, j < k PROVE ~Before(method, new[k], new[j])
  <2>1. off + j < off + k
    BY SMT, <1>50, <1>9
  <2>2. ~Before(method, old[off + k], old[off + j])
    BY <2>1, <1>1, <1>6 DEF Sorted, n
  <2>. QED
    BY <2>2, <1>6, <1>BeforeSame
<1>10. \A k \in 1 .. m : new[k].id < manager.count
  BY <1>1, <1>6, <1>7
<1>11. Good(Depleted(manager, so), method)
  BY <1>4, <1>8, <1>9, <1>10 DEF Good, Distinct, Sorted, m
<1>12. ASSUME NEW i \in 1 .. n, NEW j \in 1 .. n, Before(method, old[j], old[i]),
              ~\E k \in 1 .. m : new[k] = old[i],
              NEW k \in 1 .. m
       PROVE  new[k].id # old[j].id
  <2>1. old[i] \in Acquisition
    BY SMT, <1>1 DEF n
  <2>2. i # j /\ ~(i < j)
    BY <2>1, <1>1, <1>12, BeforeIrreflexive DEF Sorted, n
  <2>3. ~(i > off + 1)
    <3>1. SUFFICES ASSUME i > off + 1 PROVE FALSE
      BY SMT
    <3>2. i - off \in 1 .. m /\ i - off > 1 /\ off + (i - off) = i
      BY SMT, <3>1, <1>5, <1>50
    <3>. QED
      BY <3>2, <1>6, <1>12
  <2>4. off + k # j
    BY SMT, <2>2, <2>3, <1>50
  <2>. QED
    BY <2>4, <1>1, <1>6, <1>7 DEF Distinct, n
<1>. QED
  BY <1>3, <1>4, <1>11, <1>12 DEF LeavesInOrder, Ordered, old, new, n, m

\* what was acquired longer ago than the period, as a list
FreeList(matched, ts, period) ==
    [i \in DOMAIN matched |-> IF TaxFree(period, matched[i].ts, ts)
                              THEN matched[i].amount ELSE 0]

TaxedList(matched, ts, period) ==
    [i \in DOMAIN matched |-> IF TaxFree(period, matched[i].ts, ts)
                              THEN 0 ELSE matched[i].amount]

\* What a spend takes is taxed or free of tax.
LEMMA TaxParts ==
    ASSUME Inductive, NEW matched \in Seq(Matched), NEW ts \in Nat, NEW period \in Nat
    PROVE  LET free == FreeList(matched, ts, period)
               taxed == TaxedList(matched, ts, period)
           IN  /\ free \in Seq(Nat) /\ taxed \in Seq(Nat)
               /\ Total(free) \in Nat /\ Total(taxed) \in Nat
               /\ Amounts(matched) = Total(free) + Total(taxed)
\* Terms that are split in two
<1>TotalSplit. ASSUME NEW n \in Nat, NEW s \in [1 .. n -> Nat], NEW t \in [1 .. n -> Nat],
                      NEW u \in [1 .. n -> Nat], \A i \in 1 .. n : u[i] = s[i] + t[i]
               PROVE  Total(u) = Total(s) + Total(t) /\ Total(s) \in Nat /\ Total(t) \in Nat
  <2>0. /\ s \in Seq(Nat) /\ t \in Seq(Nat) /\ u \in Seq(Nat)
        /\ Len(s) = n /\ Len(t) = n /\ Len(u) = n
    BY ListOf
  <2>1. PICK f \in [0 .. n -> Nat] : Adds(f, s, n) /\ Total(s) = f[n]
    BY <2>0, NaturalSums
  <2>2. PICK g \in [0 .. n -> Nat] : Adds(g, t, n) /\ Total(t) = g[n]
    BY <2>0, NaturalSums
  <2>. DEFINE h == [i \in 0 .. n |-> f[i] + g[i]]
  <2>3. h[0] = 0 /\ h[n] = f[n] + g[n] /\ f[n] \in Nat /\ g[n] \in Nat
    BY SMT, <2>1, <2>2 DEF Adds
  <2>4. ASSUME NEW i \in 1 .. n PROVE h[i] = h[i - 1] + u[i]
    <3>1. i \in 0 .. n /\ i - 1 \in 0 .. n
      BY SMT
    <3>2. f[i] = f[i - 1] + s[i] /\ g[i] = g[i - 1] + t[i]
      BY <2>1, <2>2 DEF Adds
    <3>3. f[i - 1] \in Nat /\ g[i - 1] \in Nat /\ s[i] \in Nat /\ t[i] \in Nat
      BY <3>1
    <3>. QED  BY SMT, <1>TotalSplit, <3>1, <3>2, <3>3
  <2>. HIDE DEF h
  <2>5. Adds(h, u, n)
    BY <2>3, <2>4 DEF Adds
  <2>6. Total(u) = h[n]
    BY <2>0, <2>5, TotalIsUnique
  <2>. QED
    BY <2>1, <2>2, <2>3, <2>6
<1>. DEFINE n == Len(matched)
            s == FreeList(matched, ts, period)
            t == TaxedList(matched, ts, period)
            u == AmountList(matched)
<1>1. n \in Nat /\ DOMAIN matched = 1 .. n /\ \A i \in 1 .. n : matched[i] \in Matched
  BY SMT
<1>. HIDE DEF n
<1>2. \A i \in 1 .. n : matched[i].amount \in Nat
  BY <1>1 DEF Matched
<1>3. 0 \in Nat
  BY SMT
<1>4. s \in [1 .. n -> Nat] /\ t \in [1 .. n -> Nat] /\ u \in [1 .. n -> Nat]
  BY <1>1, <1>2, <1>3 DEF FreeList, TaxedList, AmountList
<1>5. ASSUME NEW i \in 1 .. n PROVE u[i] = s[i] + t[i]
  <2>1. u[i] = matched[i].amount
    BY <1>1 DEF AmountList
  <2>2. matched[i].amount \in Nat
    BY <1>2
  <2>3. matched[i].amount + 0 = matched[i].amount /\ 0 + matched[i].amount = matched[i].amount
    BY SMT, <2>2
  <2>4. CASE TaxFree(period, matched[i].ts, ts)
    BY <2>1, <2>3, <2>4, <1>1 DEF FreeList, TaxedList
  <2>5. CASE ~TaxFree(period, matched[i].ts, ts)
    BY <2>1, <2>3, <2>5, <1>1 DEF FreeList, TaxedList
  <2>. QED
    BY <2>4, <2>5
<1>. HIDE DEF s, t
<1>6. Total(u) = Total(s) + Total(t) /\ Total(s) \in Nat /\ Total(t) \in Nat
  BY <1>1, <1>4, <1>5, <1>TotalSplit
<1>7. s \in Seq(Nat) /\ t \in Seq(Nat)
  BY <1>1, <1>4, ListOf
<1>. QED
  BY <1>6, <1>7, AmountsFacts DEF s, t

\* what SpendAddsUp calls old
Old(x, ts, period) == period > 0 /\ ts - x.ts > period

OldPart(matched, ts, period) ==
    Total([i \in DOMAIN matched |-> IF Old(matched[i], ts, period) THEN matched[i].amount ELSE 0])

\* at_taxfree_period compares as SpendAddsUp does.
LEMMA OldIsFree ==
    ASSUME NEW matched \in Seq(Matched), NEW ts \in Nat, NEW period \in Nat
    PROVE  OldPart(matched, ts, period) = Total(FreeList(matched, ts, period))
<1>1. ASSUME NEW i \in DOMAIN matched
      PROVE  Old(matched[i], ts, period) <=> TaxFree(period, matched[i].ts, ts)
  <2>1. matched[i] \in Matched
    BY SMT
  <2>2. matched[i].ts \in Nat
    BY <2>1 DEF Matched
  <2>. QED
    BY SMT, <2>2 DEF Old, TaxFree
<1>2. [i \in DOMAIN matched |-> IF Old(matched[i], ts, period) THEN matched[i].amount ELSE 0]
      = FreeList(matched, ts, period)
  BY <1>1 DEF FreeList
<1>. QED
  BY <1>2 DEF OldPart

\* A list that did not change was used in order.
LEMMA OrderedSame ==
    ASSUME NEW heap, NEW method
    PROVE  Ordered(heap, heap, method)
  BY DEF Ordered

\* The manager holds exactly held, with no digit lost.
Holds(manager, held) ==
    Lefts(manager.heap) = held /\ manager.current = held

\* What reduce_asset_amount leaves: the manager in order, and the right amount
\* less. It reports nothing for fiat and nothing when there was nothing.
Reduces(so, manager, method, fiat, amount) ==
    /\ Good(so.manager, method) /\ Ordered(manager.heap, so.manager.heap, method)
    /\ so.missing \in Nat
    /\ \A held \in Nat : Holds(manager, held) /\ held < Limit => so.error = FALSE
    /\ \A held \in Nat :
          Holds(manager, held) /\ held < Limit /\ amount < Limit =>
              /\ so.error = FALSE /\ Holds(so.manager, Minus(held, amount))
              /\ so.missing = IF fiat \/ held = 0 THEN 0 ELSE Minus(amount, held)

\* reduce_asset_amount keeps a manager in order and takes what it should.
LEMMA ReduceFacts ==
    ASSUME Inductive, NEW method \in Methods, NEW manager, Good(manager, method), NEW amount \in Nat,
           NEW fiat \in BOOLEAN
    PROVE  Reduces(ReduceAssetAmount(manager, method, fiat, amount), manager, method, fiat, amount)
<1>. DEFINE end == Deplete(manager, method, amount)
            so == ReduceAssetAmount(manager, method, fiat, amount)
<1>0. LeavesInOrder(end, manager, method)
  BY DepletedGood
<1>. HIDE DEF end
<1>1. /\ Good(Depleted(manager, end), method) /\ Ordered(manager.heap, end.heap, method)
      /\ end \in So /\ Depleted(manager, end).heap = end.heap
      /\ Depleted(manager, end).current = end.current
  BY <1>0 DEF LeavesInOrder
<1>2. manager.heap \in Seq(Acquisition)
  BY DEF Good, Manager
<1>3. /\ so.manager = Depleted(manager, end) /\ so.error = end.error
      /\ so.missing = (IF fiat \/ manager.heap = <<>> \/ end.error THEN 0 ELSE end.rest)
  BY DEF ReduceAssetAmount, end
<1>. HIDE DEF so
<1>4. so.missing \in Nat
  <2>1. end.rest \in Nat
    BY <1>1 DEF So
  <2>2. 0 \in Nat
    BY SMT
  <2>. QED
    BY <1>3, <2>1, <2>2
<1>5. ASSUME NEW held \in Nat, Holds(manager, held), held < Limit, amount < Limit
      PROVE  /\ so.error = FALSE /\ Holds(so.manager, Minus(held, amount))
             /\ so.missing = IF fiat \/ held = 0 THEN 0 ELSE Minus(amount, held)
  <2>1. FindsAndLeaves(end, amount, held)
    BY <1>2, <1>5, DepleteExact DEF Holds, end
  <2>2. manager.heap = <<>> <=> held = 0
    BY <1>2, <1>5, LeftsFacts DEF Holds
  <2>3. Holds(so.manager, Minus(held, amount))
    BY <2>1, <1>1, <1>3 DEF Holds, FindsAndLeaves
  <2>4. /\ so.missing = (IF fiat \/ held = 0 THEN 0 ELSE Minus(amount, held))
        /\ so.error = FALSE
    BY <2>1, <2>2, <1>3 DEF FindsAndLeaves
  <2>. QED
    BY <2>3, <2>4
<1>6. ASSUME NEW held \in Nat, Holds(manager, held), held < Limit PROVE so.error = FALSE
  BY <1>2, <1>3, <1>6, DepleteFindsSome DEF Holds, end
<1>. QED
  BY <1>1, <1>3, <1>4, <1>5, <1>6 DEF Reduces, so

\* What calculate_spend_cost_basis leaves and answers.
Spends(info, manager, method, period, amount, ts) ==
    /\ Good(info.manager, method) /\ Ordered(manager.heap, info.manager.heap, method)
    /\ info.missing \in Nat /\ info.matched \in Seq(Matched)
    /\ info.amount = amount /\ info.ts = ts
    /\ \A held \in Nat : Holds(manager, held) /\ held < Limit => info.error = FALSE
    /\ \A held \in Nat :
          Holds(manager, held) /\ held < Limit /\ amount < Limit =>
              /\ info.error = FALSE /\ Holds(info.manager, Minus(held, amount))
              /\ info.missing = Minus(amount, held)
              /\ Amounts(info.matched) + info.missing = amount
              /\ info.taxable = amount - OldPart(info.matched, ts, period)

TaxAddsUp(matched, ts, period, amount, rest) ==
    /\ rest = 0 => RoundedSum(TaxedList(matched, ts, period))
                     = amount - OldPart(matched, ts, period)
    /\ Round(amount - RoundedSum(FreeList(matched, ts, period)))
         = amount - OldPart(matched, ts, period)

\* Nothing matched is nothing free of tax.
LEMMA NothingMatched ==
    ASSUME Inductive, NEW ts \in Nat, NEW period \in Nat
    PROVE  <<>> \in Seq(Matched) /\ Amounts(<<>>) = 0 /\ OldPart(<<>>, ts, period) = 0
<1>1. <<>> \in Seq(Matched)
  BY SMT
<1>2. Amounts(<<>>) = 0
  BY <1>1, AmountsFacts
<1>. DEFINE F == Total(FreeList(<<>>, ts, period))
            T == Total(TaxedList(<<>>, ts, period))
<1>3. F \in Nat /\ T \in Nat /\ F + T = 0
  BY <1>1, <1>2, TaxParts
<1>4. F = 0
  <2>. HIDE DEF F, T
  <2>. QED
    BY SMT, <1>3
<1>. QED
  BY <1>1, <1>2, <1>4, OldIsFree

\* calculate_spend_cost_basis keeps a manager in order, takes what it should and
\* accounts for it.
LEMMA SpendFacts ==
    ASSUME Inductive, NEW method \in Methods, NEW manager, Good(manager, method), NEW amount \in Nat,
           NEW period \in Nat, NEW ts \in Nat
    PROVE  Spends(SpendCostBasis(manager, method, period, amount, ts),
                  manager, method, period, amount, ts)
\* The amounts that FVals add up to, in a spend that loses no digit.
<1>TaxSums. ASSUME NEW matched \in Seq(Matched), NEW now \in Nat, NEW term \in Nat,
                   NEW whole \in Nat, whole < Limit, NEW rest \in Nat, Amounts(matched) + rest = whole
            PROVE  TaxAddsUp(matched, now, term, whole, rest)
  <2>. DEFINE free == FreeList(matched, now, term)
              taxed == TaxedList(matched, now, term)
              F == Total(free)
              T == Total(taxed)
  <2>1. /\ free \in Seq(Nat) /\ taxed \in Seq(Nat) /\ F \in Nat /\ T \in Nat
        /\ Amounts(matched) = F + T
    BY TaxParts
  <2>2. OldPart(matched, now, term) = F
    BY OldIsFree
  <2>. HIDE DEF free, taxed, F, T
  <2>3. /\ F < Limit /\ T < Limit /\ whole - F \in Nat /\ whole - F < Limit
        /\ rest = 0 => T = whole - F
    <3>1. F + T + rest = whole /\ Limit \in Nat
      BY <1>TaxSums, <2>1, DigitsAssumption
    <3>. QED
      BY SMT, <1>TaxSums, <2>1, <3>1
  <2>4. RoundedSum(free) = F /\ RoundedSum(taxed) = T
    BY <2>1, <2>3, RoundedIsTotal DEF F, T
  <2>5. Round(whole - F) = whole - F
    BY <2>3, RoundIsExact
  <2>. QED
    BY <2>2, <2>3, <2>4, <2>5 DEF TaxAddsUp, free, taxed
<1>. DEFINE end == Deplete(manager, method, amount)
            info == SpendCostBasis(manager, method, period, amount, ts)
<1>0. LeavesInOrder(end, manager, method)
  BY DepletedGood
<1>. HIDE DEF end
<1>1. /\ Good(Depleted(manager, end), method) /\ Ordered(manager.heap, end.heap, method)
      /\ end \in So /\ Depleted(manager, end).heap = end.heap
      /\ Depleted(manager, end).current = end.current
  BY <1>0 DEF LeavesInOrder
<1>2. manager.heap \in Seq(Acquisition)
  BY DEF Good, Manager
<1>3. CASE method = "ACB" /\ manager.current = 0
  <2>1. /\ info.manager = manager /\ info.error = FALSE /\ info.matched = <<>> /\ info.ts = ts
        /\ info.amount = amount /\ info.taxable = amount /\ info.missing = amount
    BY <1>3 DEF SpendCostBasis
  <2>. HIDE DEF info
  <2>2. Ordered(manager.heap, manager.heap, method)
    BY OrderedSame
  <2>3. <<>> \in Seq(Matched) /\ Amounts(<<>>) = 0 /\ OldPart(<<>>, ts, period) = 0
    BY NothingMatched
  <2>4. ASSUME NEW held \in Nat, Holds(manager, held)
        PROVE  Holds(manager, Minus(held, amount)) /\ amount = Minus(amount, held)
    <3>1. held = 0
      BY <2>4, <1>3 DEF Holds
    <3>2. Minus(held, amount) = held /\ Minus(amount, held) = amount
      BY SMT, <3>1 DEF Minus
    <3>. QED
      BY <3>2, <2>4
  <2>5. 0 + amount = amount /\ amount - 0 = amount
    BY SMT
  <2>. QED
    BY <2>1, <2>2, <2>3, <2>4, <2>5 DEF Spends, info
<1>4. CASE ~(method = "ACB" /\ manager.current = 0)
  <2>1. /\ info.manager = Depleted(manager, end) /\ info.error = end.error
        /\ info.matched = end.matched /\ info.ts = ts /\ info.amount = amount
        /\ info.taxable = (IF end.rest = 0 THEN RoundedSum(TaxedList(end.matched, ts, period))
                           ELSE Round(amount - RoundedSum(FreeList(end.matched, ts, period))))
        /\ info.missing = (IF end.error THEN 0 ELSE end.rest)
    BY <1>4 DEF SpendCostBasis, FreeList, TaxedList, end
  <2>. HIDE DEF info
  <2>2. end.rest \in Nat /\ end.matched \in Seq(Matched) /\ 0 \in Nat
    <3>1. 0 \in Nat
      BY SMT
    <3>. QED
      BY <3>1, <1>1 DEF So
  <2>3. info.missing \in Nat
    BY <2>1, <2>2
  <2>4. ASSUME NEW held \in Nat, Holds(manager, held), held < Limit, amount < Limit
        PROVE  /\ info.error = FALSE /\ Holds(info.manager, Minus(held, amount))
               /\ info.missing = Minus(amount, held)
               /\ Amounts(info.matched) + info.missing = amount
               /\ info.taxable = amount - OldPart(info.matched, ts, period)
    <3>1. FindsAndLeaves(end, amount, held)
      BY <1>2, <2>4, DepleteExact DEF Holds, end
    <3>2. /\ info.error = FALSE /\ info.missing = end.rest /\ end.rest = Minus(amount, held)
          /\ Amounts(end.matched) + end.rest = amount
      BY <3>1, <2>1 DEF FindsAndLeaves
    <3>3. Holds(info.manager, Minus(held, amount))
      BY <3>1, <2>1, <1>1 DEF Holds, FindsAndLeaves
    <3>4. info.taxable = amount - OldPart(end.matched, ts, period)
      <4>1. TaxAddsUp(end.matched, ts, period, amount, end.rest)
        BY <3>2, <2>2, <2>4, <1>TaxSums
      <4>. QED
        BY <4>1, <2>1 DEF TaxAddsUp
    <3>. QED
      BY <3>2, <3>3, <3>4, <2>1
  <2>5. ASSUME NEW held \in Nat, Holds(manager, held), held < Limit PROVE info.error = FALSE
    BY <2>1, <2>5, <1>2, DepleteFindsSome DEF Holds, end
  <2>. QED
    BY <2>1, <2>2, <2>3, <2>4, <2>5, <1>1 DEF Spends, info
<1>. QED
  BY <1>3, <1>4

-----------------------------------------------------------------------------
\* What each report knows.

Local == [settings : Settings, read : Nat, count : Nat, ops : Seq(Changes),
          entries : Nat, rate : Nat]

\* A report at this step with this local state. While it works on an event it has
\* not counted it yet; a change it is in the middle of is there and is not zero.
LocalOK(step, l, max) ==
    /\ step \in Steps /\ l \in Local /\ l.read <= max /\ l.count <= l.read
    /\ step \in {"obtain", "price", "spend"} => l.ops # <<>> /\ Head(l.ops).amount > 0
    /\ step \in {"prices", "change", "obtain", "price", "spend"} =>
          l.entries >= 1 /\ l.count + l.entries <= l.read

LocalsOK ==
    /\ pc \in [Reports -> Steps] /\ local \in [Reports -> Local]
    /\ \A r \in Reports : LocalOK(pc[r], local[r], MaxEvents[r])

\* The reports are numbers, and the first one is there.
LEMMA ReportsFacts ==
    /\ Reports = 1 .. Len(MaxEvents) /\ Len(MaxEvents) \in Nat /\ 1 \in Reports
    /\ \A r \in Reports : r \in Nat /\ MaxEvents[r] \in Nat
  BY SMT, ReportsAssumption DEF Reports

\* There are settings to choose from.
LEMMA SettingsFacts ==
    /\ Idle.settings \in Settings
    /\ \A s \in Settings : s.method \in Methods /\ s.period \in Nat
<1>1. (CHOOSE s \in Settings : TRUE) \in Settings
  BY ReportsAssumption
<1>2. Idle.settings \in Settings
  BY <1>1 DEF Idle
<1>3. \A s \in Settings : s \in [method : Methods, period : Nat]
  BY ReportsAssumption
<1>. QED
  BY <1>2, <1>3

\* A report without work is in order wherever it does not need any.
LEMMA IdleOK ==
    ASSUME NEW step \in {"new", "done", "error"}, NEW max \in Nat
    PROVE  LocalOK(step, Idle, max)
<1>1. Idle \in Local
  <2>1. <<>> \in Seq(Changes) /\ 0 \in Nat
    BY SMT
  <2>. QED
    BY <2>1, SettingsFacts DEF Idle, Local
<1>2. Idle.read = 0 /\ Idle.count = 0
  BY DEF Idle
<1>3. 0 <= max /\ 0 <= 0
  BY SMT
<1>4. step \in Steps /\ step \notin {"prices", "change", "obtain", "price", "spend"}
  BY SMT DEF Steps
<1>5. step \notin {"obtain", "price", "spend"}
  BY <1>4
<1>. QED
  BY <1>1, <1>2, <1>3, <1>4, <1>5 DEF LocalOK

\* One report moves, the others stay.
LEMMA OneMoves ==
    ASSUME LocalsOK, NEW r \in Reports, NEW step, NEW l, LocalOK(step, l, MaxEvents[r]),
           pc' = [pc EXCEPT ![r] = step], local' = [local EXCEPT ![r] = l]
    PROVE  LocalsOK'
<1>1. step \in Steps /\ l \in Local
  BY DEF LocalOK
<1>2. pc' \in [Reports -> Steps] /\ local' \in [Reports -> Local]
  BY <1>1 DEF LocalsOK
<1>3. pc'[r] = step /\ local'[r] = l
  BY DEF LocalsOK
<1>4. \A q \in Reports \ {r} : pc'[q] = pc[q] /\ local'[q] = local[q]
  BY DEF LocalsOK
<1>5. ASSUME NEW q \in Reports PROVE LocalOK(pc'[q], local'[q], MaxEvents[q])
  BY <1>3, <1>4 DEF LocalsOK
<1>. QED
  BY <1>2, <1>5 DEF LocalsOK

\* The fields of the local state, and of the change at its head.
LEMMA LocalFields ==
    ASSUME NEW l \in Local
    PROVE  /\ l.settings \in Settings /\ l.read \in Nat /\ l.count \in Nat
           /\ l.ops \in Seq(Changes) /\ l.entries \in Nat /\ l.rate \in Nat
           /\ l.ops # <<>> => Head(l.ops) \in Changes /\ Tail(l.ops) \in Seq(Changes)
<1>1. /\ l.settings \in Settings /\ l.read \in Nat /\ l.count \in Nat
      /\ l.ops \in Seq(Changes) /\ l.entries \in Nat /\ l.rate \in Nat
  BY DEF Local
<1>2. l.ops # <<>> => Head(l.ops) \in Changes /\ Tail(l.ops) \in Seq(Changes)
  BY SMT, <1>1
<1>. QED
  BY <1>1, <1>2

\* l and m differ in the changes to make at most.
OtherOps(m, l) ==
    /\ m.settings = l.settings /\ m.read = l.read /\ m.count = l.count
    /\ m.entries = l.entries

\* A local state with other changes to make.
LEMMA WithOps ==
    ASSUME NEW l \in Local, NEW ops \in Seq(Changes), NEW m, m = [l EXCEPT !.ops = ops]
    PROVE  m \in Local /\ OtherOps(m, l) /\ m.ops = ops
  BY SMT DEF Local, OtherOps

\* A report that stays with its event.
LEMMA StaysWithEvent ==
    ASSUME NEW l, NEW m, NEW step, NEW max, LocalOK(step, l, max),
           step \in {"prices", "change", "obtain", "price", "spend"},
           m \in Local, OtherOps(m, l),
           NEW next \in {"change", "obtain", "price", "spend"},
           next # "change" => m.ops # <<>> /\ Head(m.ops).amount > 0
    PROVE  LocalOK(next, m, max)
<1>1. next \in Steps
  BY SMT DEF Steps
<1>2. next \in {"obtain", "price", "spend"} => next # "change"
  BY SMT
<1>. QED
  BY <1>1, <1>2 DEF LocalOK, OtherOps

\* EndChange: on to the next change.
LEMMA EndChangeOK ==
    ASSUME LocalsOK, NEW r \in Reports, EndChange(r), local[r].ops # <<>>,
           pc[r] \in {"change", "obtain", "spend"}
    PROVE  LocalsOK'
<1>. DEFINE l == local[r]
            m == [l EXCEPT !.ops = Tail(l.ops)]
<1>1. LocalOK(pc[r], l, MaxEvents[r])
  BY DEF LocalsOK
<1>2. l \in Local /\ Tail(l.ops) \in Seq(Changes)
  BY <1>1, LocalFields DEF LocalOK
<1>3. m \in Local /\ OtherOps(m, l)
  <2>. HIDE DEF l
  <2>1. ASSUME NEW ops, ops = Tail(l.ops)
        PROVE  [l EXCEPT !.ops = ops] \in Local /\ OtherOps([l EXCEPT !.ops = ops], l)
    BY <2>1, <1>2, WithOps
  <2>. QED
    BY <2>1
<1>4. pc' = [pc EXCEPT ![r] = "change"] /\ local' = [local EXCEPT ![r] = m]
  BY DEF EndChange, Goto
<1>. HIDE DEF m, l
<1>5. LocalOK("change", m, MaxEvents[r])
  <2>1. pc[r] \in {"prices", "change", "obtain", "price", "spend"}
    BY SMT
  <2>. QED
    BY <2>1, <1>1, <1>3, StaysWithEvent
<1>. QED
  BY <1>4, <1>5, OneMoves

\* A report goes on with its change, or with none.
LEMMA GotoOK ==
    ASSUME LocalsOK, NEW r \in Reports, NEW step, Goto(r, step), UNCHANGED local,
           LocalOK(step, local[r], MaxEvents[r])
    PROVE  LocalsOK'
<1>1. local' = [local EXCEPT ![r] = local[r]]
  BY DEF LocalsOK
<1>2. pc' = [pc EXCEPT ![r] = step]
  BY DEF Goto
<1>. QED
  BY <1>1, <1>2, OneMoves

\* The end of a report.
LEMMA EndOK ==
    ASSUME LocalsOK, NEW r \in Reports, NEW step \in {"done", "error"}, End(r, step)
    PROVE  LocalsOK'
<1>1. step \in {"new", "done", "error"} /\ MaxEvents[r] \in Nat
  BY ReportsFacts
<1>2. LocalOK(step, Idle, MaxEvents[r])
  BY <1>1, IdleOK
<1>3. pc' = [pc EXCEPT ![r] = step] /\ local' = [local EXCEPT ![r] = Idle]
  BY DEF End, Goto
<1>. QED
  BY <1>2, <1>3, OneMoves

\* Every step of a report keeps what the reports know in order.
LEMMA LocalsKept ==
    ASSUME LocalsOK, NEW r \in Reports,
           \/ StartReport(r) \/ ResetPot(r) \/ ReadEvent(r) \/ SwapPrices(r) \/ NoSwapPrices(r)
           \/ EndEvent(r) \/ EndReport(r) \/ ZeroChange(r) \/ AddInEventOf(r) \/ Obtain(r)
           \/ AddOutEvent(r) \/ PriceFound(r) \/ SpendUncounted(r) \/ SpendAsset(r)
           \/ SkipEvent(r) \/ SkipForNoPrice(r) \/ CancelReport(r)
    PROVE  LocalsOK'
\* A local state with another rate.
<1>WithRate. ASSUME NEW l \in Local, NEW rate \in Nat, NEW m, m = [l EXCEPT !.rate = rate]
             PROVE  m \in Local /\ OtherOps(m, l) /\ m.ops = l.ops
  BY SMT, <1>WithRate DEF Local, OtherOps
\* An event that is done or given up: no change is under way.
<1>RestOK. ASSUME NEW l \in Local, NEW max, l.read <= max, l.count <= l.read
           PROVE  LocalOK("next", l, max)
  BY SMT, <1>RestOK DEF LocalOK, Steps
<1>. DEFINE l == local[r]
            max == MaxEvents[r]
<1>1. LocalOK(pc[r], l, max) /\ max \in Nat
  BY ReportsFacts DEF LocalsOK
<1>2. l \in Local /\ l.read <= max /\ l.count <= l.read
  BY <1>1 DEF LocalOK
<1>3. /\ l.settings \in Settings /\ l.read \in Nat /\ l.count \in Nat
      /\ l.ops \in Seq(Changes) /\ l.entries \in Nat /\ l.rate \in Nat
      /\ l.ops # <<>> => Head(l.ops) \in Changes /\ Tail(l.ops) \in Seq(Changes)
  BY <1>2, LocalFields
<1>4. pc[r] \in {"prices", "change", "obtain", "price", "spend"} =>
          l.entries >= 1 /\ l.count + l.entries <= l.read
  BY <1>1 DEF LocalOK
<1>5. pc[r] \in {"obtain", "price", "spend"} => l.ops # <<>> /\ Head(l.ops).amount > 0
  BY <1>1 DEF LocalOK
<1>6. <<>> \in Seq(Changes)
  BY SMT
<1>. HIDE DEF max
<1>10. CASE StartReport(r)
  <2>1. PICK s \in Settings : local' = [local EXCEPT ![r] = [l EXCEPT !.settings = s]]
    BY <1>10 DEF StartReport
  <2>. DEFINE m == [l EXCEPT !.settings = s]
  <2>2. m \in Local /\ m.read = l.read /\ m.count = l.count
    <3>. HIDE DEF l
    <3>. QED
      BY SMT, <1>2 DEF Local
  <2>. HIDE DEF m, l
  <2>3. LocalOK("reset", m, max)
    BY SMT, <2>2, <1>2 DEF LocalOK, Steps
  <2>4. pc' = [pc EXCEPT ![r] = "reset"]
    BY <1>10 DEF StartReport, Goto
  <2>. QED
    BY <2>1, <2>3, <2>4, OneMoves DEF m, max
<1>11. CASE ResetPot(r) \/ EndReport(r)
  <2>1. LocalOK("next", l, max)
    BY <1>2, <1>RestOK
  <2>. QED
    BY <2>1, <1>11, GotoOK, EndOK DEF ResetPot, EndReport, max
<1>12. CASE ReadEvent(r)
  <2>1. PICK e \in Events :
           /\ l.read + e.entries <= max
           /\ local' = [local EXCEPT ![r].read = @ + e.entries, ![r].entries = e.entries,
                                     ![r].ops = e.ops]
           /\ Goto(r, IF Len(e.ops) > 1 THEN "prices" ELSE "change")
    BY <1>12 DEF ReadEvent, max
  <2>2. e \in [entries : Nat \ {0}, ops : Seq(Changes)]
    BY ReportsAssumption
  <2>3. e.entries \in Nat \ {0} /\ e.ops \in Seq(Changes)
    BY <2>2
  <2>. DEFINE m == [l EXCEPT !.read = l.read + e.entries, !.entries = e.entries, !.ops = e.ops]
  <2>4. local' = [local EXCEPT ![r] = m]
    BY <2>1 DEF LocalsOK
  <2>5. /\ m \in Local /\ m.read = l.read + e.entries /\ m.count = l.count
        /\ m.entries = e.entries
    <3>. HIDE DEF l
    <3>1. l.read + e.entries \in Nat /\ e.entries \in Nat
      BY SMT, <1>3, <2>3
    <3>. DEFINE n(x, y, o) == [l EXCEPT !.read = x, !.entries = y, !.ops = o]
    <3>2. ASSUME NEW x \in Nat, NEW y \in Nat, NEW o \in Seq(Changes)
          PROVE  /\ n(x, y, o) \in Local /\ n(x, y, o).read = x
                 /\ n(x, y, o).count = l.count /\ n(x, y, o).entries = y
      BY <1>2 DEF Local
    <3>3. m = n(l.read + e.entries, e.entries, e.ops)
      OBVIOUS
    <3>. HIDE DEF n, m
    <3>. QED
      BY SMT, <3>1, <3>2, <3>3, <2>3
  <2>. HIDE DEF m, l
  <2>6. m.read <= max /\ m.count <= m.read /\ m.entries >= 1 /\ m.count + m.entries <= m.read
    <3>1. l.read \in Nat /\ l.count \in Nat /\ e.entries \in Nat /\ e.entries # 0 /\ l.count <= l.read
      BY <1>2, <1>3, <2>3
    <3>. QED
      BY SMT, <2>1, <2>5, <3>1
  <2>7. ASSUME NEW step \in {"prices", "change"} PROVE LocalOK(step, m, max)
    <3>1. step \in Steps /\ step \notin {"obtain", "price", "spend"}
      BY SMT DEF Steps
    <3>. QED
      BY <2>5, <2>6, <3>1 DEF LocalOK
  <2>8. PICK step \in {"prices", "change"} : pc' = [pc EXCEPT ![r] = step]
    BY <2>1 DEF Goto
  <2>. QED
    BY <2>4, <2>7, <2>8, OneMoves DEF max
<1>13. CASE SwapPrices(r)
  <2>1. PICK rate \in Rates : local' = [local EXCEPT ![r] = [l EXCEPT !.rate = rate]]
    BY <1>13 DEF SwapPrices
  <2>2. rate \in Nat
    BY ReportsAssumption
  <2>. DEFINE m == [l EXCEPT !.rate = rate]
  <2>3. m \in Local /\ OtherOps(m, l)
    BY <2>2, <1>2, <1>WithRate
  <2>4. /\ pc[r] \in {"prices", "change", "obtain", "price", "spend"}
        /\ pc' = [pc EXCEPT ![r] = "change"]
    BY <1>13 DEF SwapPrices, Goto
  <2>. HIDE DEF m
  <2>5. LocalOK("change", m, max)
    BY <2>3, <2>4, <1>1, StaysWithEvent
  <2>. QED
    BY <2>1, <2>4, <2>5, OneMoves DEF m, max
<1>14. CASE NoSwapPrices(r)
  <2>. DEFINE k == IF l.entries > 2 THEN 2 ELSE l.entries
              m == [l EXCEPT !.count = l.count + k, !.ops = <<>>]
  <2>1. local' = [local EXCEPT ![r] = m] /\ pc' = [pc EXCEPT ![r] = "next"]
    BY <1>14 DEF NoSwapPrices, LocalsOK, Goto
  <2>2. pc[r] = "prices"
    BY <1>14 DEF NoSwapPrices
  <2>. HIDE DEF l
  <2>3. k \in Nat /\ l.count + k \in Nat /\ l.count + k <= l.read
    BY SMT, <1>3, <1>4, <2>2
  <2>. HIDE DEF k
  <2>4. m \in Local /\ m.read = l.read /\ m.count = l.count + k
    BY <1>2, <1>6, <2>3 DEF Local
  <2>. HIDE DEF m
  <2>5. LocalOK("next", m, max)
    BY <2>3, <2>4, <1>2, <1>RestOK
  <2>. QED
    BY <2>1, <2>5, OneMoves DEF max
<1>15. CASE EndEvent(r)
  <2>. DEFINE m == [l EXCEPT !.count = l.count + l.entries]
  <2>1. local' = [local EXCEPT ![r] = m] /\ pc' = [pc EXCEPT ![r] = "next"]
    BY <1>15 DEF EndEvent, Goto
  <2>2. pc[r] = "change"
    BY <1>15 DEF EndEvent
  <2>. HIDE DEF l
  <2>3. l.count + l.entries \in Nat /\ l.count + l.entries <= l.read
    BY SMT, <1>3, <1>4, <2>2
  <2>4. m \in Local /\ m.read = l.read /\ m.count = l.count + l.entries
    BY SMT, <1>2, <2>3 DEF Local
  <2>. HIDE DEF m
  <2>5. LocalOK("next", m, max)
    BY <2>3, <2>4, <1>2, <1>RestOK
  <2>. QED
    BY <2>1, <2>5, OneMoves DEF max
<1>16. CASE ZeroChange(r)
  BY <1>16, EndChangeOK DEF ZeroChange
<1>17. CASE Obtain(r)
  <2>1. pc[r] = "obtain" /\ EndChange(r)
    BY <1>17 DEF Obtain
  <2>. QED
    BY <2>1, <1>5, EndChangeOK
<1>18. CASE AddInEventOf(r)
  <2>1. pc[r] = "change" /\ l.ops # <<>> /\ Head(l.ops).amount > 0
    BY <1>18 DEF AddInEventOf, AtChange, Op
  <2>2. CASE EndChange(r)
    BY <2>1, <2>2, EndChangeOK
  <2>3. CASE \E rate \in Nat : Goto(r, "obtain") /\ local' = [local EXCEPT ![r].rate = rate]
    <3>1. PICK rate \in Nat : /\ pc' = [pc EXCEPT ![r] = "obtain"]
                              /\ local' = [local EXCEPT ![r] = [l EXCEPT !.rate = rate]]
      BY <2>3 DEF Goto
    <3>. DEFINE m == [l EXCEPT !.rate = rate]
    <3>2. m \in Local /\ OtherOps(m, l) /\ m.ops = l.ops
      BY <1>2, <1>WithRate
    <3>3. pc[r] \in {"prices", "change", "obtain", "price", "spend"}
      BY <2>1
    <3>. HIDE DEF m
    <3>4. LocalOK("obtain", m, max)
      BY <3>2, <3>3, <2>1, <1>1, StaysWithEvent
    <3>. QED
      BY <3>1, <3>4, OneMoves DEF m, max
  <2>4. \A rate \in IF Op(r).given THEN {local[r].rate} ELSE Rates \cup {0} : rate \in Nat
    <3>1. 0 \in Nat
      BY SMT
    <3>. QED
      BY <3>1, <1>3, ReportsAssumption
  <2>. QED
    BY <2>2, <2>3, <2>4, <1>18 DEF AddInEventOf
<1>19. CASE AddOutEvent(r)
  <2>1. pc[r] = "change" /\ l.ops # <<>> /\ Head(l.ops).amount > 0
    BY <1>19 DEF AddOutEvent, AtChange, Op
  <2>2. \/ End(r, "error")
        \/ UNCHANGED local /\ \E step \in {"price", "spend"} : Goto(r, step)
    BY <1>19 DEF AddOutEvent, StopOnError
  <2>3. ASSUME NEW step \in {"price", "spend"} PROVE LocalOK(step, l, max)
    <3>1. /\ step \in {"change", "obtain", "price", "spend"} /\ OtherOps(l, l)
          /\ pc[r] \in {"prices", "change", "obtain", "price", "spend"}
      BY <2>1 DEF OtherOps
    <3>. QED
      BY <3>1, <2>1, <1>1, <1>2, StaysWithEvent
  <2>. QED
    BY <2>2, <2>3, EndOK, GotoOK DEF max
<1>20. CASE PriceFound(r)
  <2>1. pc[r] = "price" /\ Goto(r, "spend") /\ UNCHANGED local
    BY <1>20 DEF PriceFound
  <2>2. /\ OtherOps(l, l)
        /\ pc[r] \in {"prices", "change", "obtain", "price", "spend"}
    BY <2>1 DEF OtherOps
  <2>3. LocalOK("spend", l, max)
    BY <2>1, <2>2, <1>1, <1>2, <1>5, StaysWithEvent
  <2>. QED
    BY <2>1, <2>3, GotoOK DEF max
<1>21. CASE SpendUncounted(r) \/ SpendAsset(r)
  <2>1. pc[r] = "spend" /\ (EndChange(r) \/ End(r, "error"))
    BY <1>21 DEF SpendUncounted, SpendAsset, StopOnError
  <2>. QED
    BY <2>1, <1>5, EndChangeOK, EndOK
<1>22. CASE SkipEvent(r)
  <2>. DEFINE m == [l EXCEPT !.ops = <<>>, !.count = l.count + 1]
  <2>1. local' = [local EXCEPT ![r] = m] /\ pc' = [pc EXCEPT ![r] = "next"]
    BY <1>22 DEF SkipEvent, LocalsOK, Goto
  <2>2. pc[r] = "price"
    BY <1>22 DEF SkipEvent
  <2>. HIDE DEF l
  <2>3. l.count + 1 \in Nat /\ l.count + 1 <= l.read
    BY SMT, <1>3, <1>4, <2>2
  <2>4. m \in Local /\ m.read = l.read /\ m.count = l.count + 1
    BY <1>2, <1>6, <2>3 DEF Local
  <2>. HIDE DEF m
  <2>5. LocalOK("next", m, max)
    BY <2>3, <2>4, <1>2, <1>RestOK
  <2>. QED
    BY <2>1, <2>5, OneMoves DEF max
<1>23. CASE SkipForNoPrice(r)
  <2>. DEFINE m == [l EXCEPT !.ops = <<>>]
  <2>1. local' = [local EXCEPT ![r] = m] /\ pc' = [pc EXCEPT ![r] = "next"]
    BY <1>23 DEF SkipForNoPrice, Goto
  <2>2. m \in Local /\ OtherOps(m, l)
    BY <1>2, <1>6, WithOps
  <2>. HIDE DEF m
  <2>3. LocalOK("next", m, max)
    BY <2>2, <1>2, <1>RestOK DEF OtherOps
  <2>. QED
    BY <2>1, <2>3, OneMoves DEF max
<1>24. CASE CancelReport(r)
  BY <1>24, EndOK DEF CancelReport
<1>. QED
  BY <1>10, <1>11, <1>12, <1>13, <1>14, <1>15, <1>16, <1>17, <1>18, <1>19, <1>20,
     <1>21, <1>22, <1>23, <1>24

-----------------------------------------------------------------------------
\* The pot, and the account of it that the ghost keeps.

Pot == [settings : Settings, report : Reports, managers : [Pools -> Manager],
        missing : [Pools -> Nat]]

Ghost == [balance : [Pools -> Nat], short : [Pools -> Nat], acquired : [Pools -> Nat],
          large : BOOLEAN, apart : BOOLEAN]

PotOK(p) == p \in Pot /\ \A a \in Pools : Good(p.managers[a], p.settings.method)

\* A pool holds its balance, and that is less than what needs too many digits.
Balanced(p, g, a) ==
    /\ Holds(p.managers[a], g.balance[a])
    /\ g.balance[a] <= g.acquired[a] /\ g.acquired[a] < Limit
    /\ p.missing[a] = g.short[a]

Agree(p, g) == g \in Ghost /\ (~g.large => \A a \in Pools : Balanced(p, g, a))

\* Every pool was used in the order of the method.
AllOrdered(p, q) ==
    \A a \in Pools : Ordered(p.managers[a].heap, q.managers[a].heap, p.settings.method)

\* q is p with manager m for pool b, and k more of it missing.
Put(q, p, b, m, k) ==
    /\ q \in Pot /\ q.settings = p.settings /\ q.report = p.report
    /\ q.managers[b] = m /\ q.missing[b] = p.missing[b] + k
    /\ \A a \in Pools \ {b} : q.managers[a] = p.managers[a] /\ q.missing[a] = p.missing[a]

\* The pot after an operation on a pool.
LEMMA PutFacts ==
    ASSUME NEW p \in Pot, NEW b \in Pools, NEW m \in Manager, NEW k \in Nat
    PROVE  /\ Put([p EXCEPT !.managers[b] = m, !.missing[b] = @ + k], p, b, m, k)
           /\ Put([p EXCEPT !.managers[b] = m], p, b, m, 0)
<1>1. /\ p.managers \in [Pools -> Manager] /\ p.missing \in [Pools -> Nat]
      /\ p.settings \in Settings /\ p.report \in Reports
  BY DEF Pot
<1>. DEFINE managers == [p.managers EXCEPT ![b] = m]
            missing == [p.missing EXCEPT ![b] = p.missing[b] + k]
<1>2. /\ managers \in [Pools -> Manager] /\ managers[b] = m
      /\ \A a \in Pools \ {b} : managers[a] = p.managers[a]
  BY <1>1
<1>3. p.missing[b] + k \in Nat /\ p.missing[b] + 0 = p.missing[b]
  BY SMT, <1>1
<1>4. /\ missing \in [Pools -> Nat] /\ missing[b] = p.missing[b] + k
      /\ \A a \in Pools \ {b} : missing[a] = p.missing[a]
  BY <1>1, <1>3
<1>. HIDE DEF managers, missing
<1>5. ASSUME NEW q, q = [p EXCEPT !.managers = managers, !.missing = missing]
      PROVE  Put(q, p, b, m, k)
  <2>1. /\ q \in Pot /\ q.settings = p.settings /\ q.report = p.report
        /\ q.managers = managers /\ q.missing = missing
    BY <1>1, <1>2, <1>4, <1>5 DEF Pot
  <2>. QED
    BY <2>1, <1>2, <1>4 DEF Put
<1>6. ASSUME NEW q, q = [p EXCEPT !.managers = managers]
      PROVE  Put(q, p, b, m, 0)
  <2>1. /\ q \in Pot /\ q.settings = p.settings /\ q.report = p.report
        /\ q.managers = managers /\ q.missing = p.missing
    BY SMT, <1>1, <1>2, <1>6 DEF Pot
  <2>. QED
    BY <2>1, <1>2, <1>3 DEF Put
<1>7. /\ [p EXCEPT !.managers[b] = m, !.missing[b] = @ + k]
           = [p EXCEPT !.managers = managers, !.missing = missing]
      /\ [p EXCEPT !.managers[b] = m] = [p EXCEPT !.managers = managers]
  BY SMT DEF managers, missing, Pot
<1>. QED
  BY <1>5, <1>6, <1>7

\* An operation that leaves its pool in order leaves the pot in order.
LEMMA PutKeeps ==
    ASSUME NEW p, PotOK(p), NEW b \in Pools, NEW m, NEW q, NEW k, Put(q, p, b, m, k),
           Good(m, p.settings.method), Ordered(p.managers[b].heap, m.heap, p.settings.method)
    PROVE  PotOK(q) /\ AllOrdered(p, q)
<1>1. ASSUME NEW a \in Pools
      PROVE  /\ Good(q.managers[a], q.settings.method)
             /\ Ordered(p.managers[a].heap, q.managers[a].heap, p.settings.method)
  <2>1. CASE a = b
    BY <2>1 DEF Put
  <2>2. CASE a # b
    BY <2>2, OrderedSame DEF Put, PotOK
  <2>. QED
    BY <2>1, <2>2
<1>. QED
  BY <1>1 DEF Put, PotOK, AllOrdered

\* The ghost after an operation on a pool: balance, what was acquired and what was
\* short change for this pool only.
Noted(h, g, b, balance, acquired, short, large) ==
    /\ h \in Ghost /\ h.apart = g.apart /\ h.large = large
    /\ h.balance[b] = balance /\ h.acquired[b] = acquired /\ h.short[b] = short
    /\ \A a \in Pools \ {b} : /\ h.balance[a] = g.balance[a] /\ h.acquired[a] = g.acquired[a]
                              /\ h.short[a] = g.short[a]

\* The fields of the ghost.
LEMMA GhostFields ==
    ASSUME NEW g \in Ghost, NEW b \in Pools
    PROVE  /\ g.balance \in [Pools -> Nat] /\ g.short \in [Pools -> Nat]
           /\ g.acquired \in [Pools -> Nat] /\ g.large \in BOOLEAN /\ g.apart \in BOOLEAN
           /\ g.balance[b] \in Nat /\ g.short[b] \in Nat /\ g.acquired[b] \in Nat
<1>1. /\ g.balance \in [Pools -> Nat] /\ g.short \in [Pools -> Nat]
      /\ g.acquired \in [Pools -> Nat] /\ g.large \in BOOLEAN /\ g.apart \in BOOLEAN
  BY DEF Ghost
<1>. QED
  BY <1>1

Note(g, b, x, y, z, large) ==
    [g EXCEPT !.balance = [g.balance EXCEPT ![b] = x],
              !.acquired = [g.acquired EXCEPT ![b] = y],
              !.short = [g.short EXCEPT ![b] = z], !.large = large]

\* Any note of that kind.
LEMMA NotedFacts ==
    ASSUME NEW g \in Ghost, NEW b \in Pools, NEW x \in Nat, NEW y \in Nat, NEW z \in Nat,
           NEW large \in BOOLEAN
    PROVE  Noted(Note(g, b, x, y, z, large), g, b, x, y, z, large)
<1>. DEFINE h == Note(g, b, x, y, z, large)
            balance == [g.balance EXCEPT ![b] = x]
            acquired == [g.acquired EXCEPT ![b] = y]
            short == [g.short EXCEPT ![b] = z]
<1>1. /\ g.balance \in [Pools -> Nat] /\ g.short \in [Pools -> Nat]
      /\ g.acquired \in [Pools -> Nat] /\ g.large \in BOOLEAN /\ g.apart \in BOOLEAN
  BY GhostFields
<1>2. /\ balance \in [Pools -> Nat] /\ acquired \in [Pools -> Nat] /\ short \in [Pools -> Nat]
      /\ balance[b] = x /\ acquired[b] = y /\ short[b] = z
      /\ \A a \in Pools \ {b} : /\ balance[a] = g.balance[a] /\ acquired[a] = g.acquired[a]
                                /\ short[a] = g.short[a]
  BY <1>1
<1>. HIDE DEF balance, acquired, short
<1>3. h = [g EXCEPT !.balance = balance, !.acquired = acquired, !.short = short, !.large = large]
  BY DEF Note, balance, acquired, short
<1>. HIDE DEF h
<1>4. /\ h \in Ghost /\ h.balance = balance /\ h.acquired = acquired /\ h.short = short
      /\ h.large = large /\ h.apart = g.apart
  BY <1>2, <1>3 DEF Ghost
<1>. QED
  BY <1>2, <1>4 DEF Noted, h

\* Notes leave the other fields as they are.
LEMMA SameField ==
    ASSUME NEW g \in Ghost, NEW b \in Pools
    PROVE  /\ [g.short EXCEPT ![b] = g.short[b]] = g.short
           /\ [g.acquired EXCEPT ![b] = g.acquired[b]] = g.acquired
  BY GhostFields

\* A field that is set to itself is as it was.
LEMMA FieldStays ==
    ASSUME NEW g \in Ghost, NEW u, NEW v, NEW large
    PROVE  /\ [g EXCEPT !.balance = u, !.acquired = v, !.large = large]
              = [g EXCEPT !.balance = u, !.acquired = v, !.short = g.short, !.large = large]
           /\ [g EXCEPT !.balance = u, !.short = v, !.large = large]
              = [g EXCEPT !.balance = u, !.acquired = g.acquired, !.short = v, !.large = large]
<1>1. [g EXCEPT !.balance = u, !.acquired = v, !.large = large]
      = [g EXCEPT !.balance = u, !.acquired = v, !.short = g.short, !.large = large]
  BY DEF Ghost
<1>2. [g EXCEPT !.balance = u, !.short = v, !.large = large]
      = [g EXCEPT !.balance = u, !.acquired = g.acquired, !.short = v, !.large = large]
  BY DEF Ghost
<1>. QED
  BY <1>1, <1>2

\* What the ghost notes of an acquisition.
LEMMA AcquiredNoted ==
    ASSUME NEW g \in Ghost, NEW asset, NEW b \in Pools, b = Pool(asset), NEW amount \in Nat
    PROVE  Noted(Acquired(g, asset, amount), g, b, g.balance[b] + amount, g.acquired[b] + amount,
                 g.short[b], g.large \/ g.acquired[b] + amount >= Limit)
<1>. DEFINE x == g.balance[b] + amount
            y == g.acquired[b] + amount
            large == g.large \/ y >= Limit
            h == [g EXCEPT !.balance = [g.balance EXCEPT ![b] = x],
                           !.acquired = [g.acquired EXCEPT ![b] = y], !.large = large]
<1>1. g.balance[b] \in Nat /\ g.short[b] \in Nat /\ g.acquired[b] \in Nat /\ g.large \in BOOLEAN
  BY GhostFields
<1>2. x \in Nat /\ y \in Nat
  BY SMT, <1>1
<1>3. large \in BOOLEAN
  BY <1>1
<1>4. Acquired(g, asset, amount) = h
  BY SMT DEF Acquired, Ghost
<1>. HIDE DEF x, y, large
<1>5. h = Note(g, b, x, y, g.short[b], large)
  <2>1. [g.short EXCEPT ![b] = g.short[b]] = g.short
    BY SameField
  <2>2. ASSUME NEW u, NEW v
        PROVE  [g EXCEPT !.balance = u, !.acquired = v, !.large = large]
               = [g EXCEPT !.balance = u, !.acquired = v, !.short = g.short, !.large = large]
    BY FieldStays
  <2>3. h = [g EXCEPT !.balance = [g.balance EXCEPT ![b] = x],
                      !.acquired = [g.acquired EXCEPT ![b] = y],
                      !.short = g.short, !.large = large]
    BY <2>2
  <2>. HIDE DEF h
  <2>. QED
    BY <2>1, <2>3 DEF Note
<1>. HIDE DEF h
<1>6. Noted(h, g, b, x, y, g.short[b], large)
  BY SMT, <1>1, <1>2, <1>3, <1>5, NotedFacts
<1>. QED
  BY <1>4, <1>6 DEF x, y, large

\* What the ghost notes of a spend.
LEMMA SpentNoted ==
    ASSUME NEW g \in Ghost, NEW asset, NEW b \in Pools, b = Pool(asset), NEW amount \in Nat,
           NEW reports \in BOOLEAN
    PROVE  Noted(Spent(g, asset, amount, reports), g, b, Minus(g.balance[b], amount), g.acquired[b],
                 IF reports THEN g.short[b] + Minus(amount, g.balance[b]) ELSE g.short[b],
                 g.large \/ amount >= Limit)
<1>. DEFINE x == Minus(g.balance[b], amount)
            z == IF reports THEN g.short[b] + Minus(amount, g.balance[b]) ELSE g.short[b]
            large == g.large \/ amount >= Limit
            h == [g EXCEPT !.balance = [g.balance EXCEPT ![b] = x],
                           !.short = [g.short EXCEPT ![b] = z], !.large = large]
<1>1. g.balance[b] \in Nat /\ g.short[b] \in Nat /\ g.acquired[b] \in Nat /\ g.large \in BOOLEAN
  BY GhostFields
<1>2. Minus(amount, g.balance[b]) \in Nat /\ x \in Nat
  BY SMT, <1>1 DEF Minus
<1>20. g.short[b] + Minus(amount, g.balance[b]) \in Nat
  BY SMT, <1>1, <1>2
<1>21. z \in Nat
  BY <1>1, <1>20
<1>3. large \in BOOLEAN
  BY <1>1
<1>4. Spent(g, asset, amount, reports) = h
  BY SMT DEF Spent, Ghost
<1>. HIDE DEF x, z, large
<1>5. h = Note(g, b, x, g.acquired[b], z, large)
  <2>1. [g.acquired EXCEPT ![b] = g.acquired[b]] = g.acquired
    BY SameField
  <2>2. ASSUME NEW u, NEW v
        PROVE  [g EXCEPT !.balance = u, !.short = v, !.large = large]
               = [g EXCEPT !.balance = u, !.acquired = g.acquired, !.short = v, !.large = large]
    BY FieldStays
  <2>3. h = [g EXCEPT !.balance = [g.balance EXCEPT ![b] = x], !.acquired = g.acquired,
                      !.short = [g.short EXCEPT ![b] = z], !.large = large]
    BY <2>2
  <2>. HIDE DEF h
  <2>. QED
    BY <2>1, <2>3 DEF Note
<1>. HIDE DEF h
<1>6. Noted(h, g, b, x, g.acquired[b], z, large)
  BY SMT, <1>1, <1>2, <1>21, <1>3, <1>5, NotedFacts
<1>. QED
  BY <1>4, <1>6 DEF x, z, large

\* A pool that was put and noted agrees when its new values do; the others agreed
\* before.
LEMMA AgreeStep ==
    ASSUME NEW p, NEW g, Agree(p, g), NEW q, NEW h, NEW b \in Pools, NEW m, NEW k,
           NEW x, NEW y, NEW z, NEW large, Put(q, p, b, m, k), Noted(h, g, b, x, y, z, large),
           g.large => large,
           ~large /\ Balanced(p, g, b) => /\ Holds(m, x) /\ x <= y /\ y < Limit
                                          /\ p.missing[b] + k = z
    PROVE  Agree(q, h)
<1>1. ASSUME ~h.large, NEW a \in Pools PROVE Balanced(q, h, a)
  <2>1. ~large /\ ~g.large
    BY <1>1 DEF Noted
  <2>2. Balanced(p, g, a) /\ Balanced(p, g, b)
    BY <2>1 DEF Agree
  <2>3. CASE a = b
    BY <2>1, <2>2, <2>3 DEF Balanced, Put, Noted
  <2>4. CASE a # b
    BY <2>2, <2>4 DEF Balanced, Put, Noted
  <2>. QED
    BY <2>3, <2>4
<1>. QED
  BY <1>1 DEF Agree, Noted

\* Every asset has a pool.
LEMMA PoolType ==
    ASSUME NEW asset \in Pools \cup {"WETH"}
    PROVE  Pool(asset) \in Pools
  BY SMT DEF Pool, Pools

\* A step of the pot: in order as before, used in order, the same report.
Keeps(q, p) ==
    PotOK(q) /\ AllOrdered(p, q) /\ q.settings = p.settings /\ q.report = p.report

\* The pool and the method of an operation.
LEMMA PoolFacts ==
    ASSUME NEW p, PotOK(p), NEW b \in Pools
    PROVE  /\ p \in Pot /\ p.settings \in Settings
           /\ p.settings.method \in Methods /\ p.settings.period \in Nat
           /\ Good(p.managers[b], p.settings.method) /\ p.missing[b] \in Nat
           /\ p.managers[b] \in Manager
<1>1. p \in Pot /\ Good(p.managers[b], p.settings.method)
  BY DEF PotOK
<1>2. p.settings \in Settings /\ p.missing \in [Pools -> Nat]
  BY <1>1 DEF Pot
<1>. QED
  BY <1>1, <1>2, SettingsFacts DEF Good

\* obtain_asset keeps the pot and the account of it together.
LEMMA ObtainKeeps ==
    ASSUME Inductive, NEW p, NEW g, PotOK(p), Agree(p, g), NEW asset \in Pools \cup {"WETH"},
           NEW amount \in Nat \ {0}, NEW ts \in Nat, NEW rate \in Nat,
           NEW q \in ObtainAsset(p, asset, amount, ts, rate)
    PROVE  Keeps(q, p) /\ Agree(q, Acquired(g, asset, amount))
<1>. DEFINE b == Pool(asset)
            method == p.settings.method
            manager == p.managers[b]
<1>1. b \in Pools
  BY PoolType
<1>2. PICK m \in AddInEvent(manager, method, amount, ts, rate) : q = [p EXCEPT !.managers[b] = m]
  BY DEF ObtainAsset
<1>. HIDE DEF b
<1>3. /\ p \in Pot /\ method \in Methods /\ Good(manager, method) /\ p.missing[b] \in Nat
  BY <1>1, PoolFacts
<1>4. AddsTo(m, manager, method, amount)
  BY <1>2, <1>3, AddInEventFacts
<1>5. Good(m, method) /\ m \in Manager
  BY <1>4 DEF AddsTo, Good
<1>6. Put(q, p, b, m, 0)
  <2>1. 0 \in Nat
    BY SMT
  <2>. QED
    BY <2>1, <1>1, <1>2, <1>3, <1>5, PutFacts
<1>7. Ordered(manager.heap, m.heap, method)
  BY <1>4 DEF AddsTo, Ordered
<1>8. Keeps(q, p)
  <2>1. PotOK(q) /\ AllOrdered(p, q)
    BY <1>1, <1>5, <1>6, <1>7, PutKeeps
  <2>. QED
    BY <2>1, <1>6 DEF Keeps, Put
<1>9. g \in Ghost /\ amount \in Nat
  BY DEF Agree
<1>. DEFINE x == g.balance[b] + amount
            y == g.acquired[b] + amount
            large == g.large \/ y >= Limit
            h == Acquired(g, asset, amount)
<1>10. Noted(h, g, b, x, y, g.short[b], large)
  BY <1>1, <1>9, AcquiredNoted DEF b
<1>11. g.balance[b] \in Nat /\ g.acquired[b] \in Nat
  BY <1>1, <1>9, GhostFields
<1>12. ASSUME ~large, Balanced(p, g, b)
       PROVE  Holds(m, x) /\ x <= y /\ y < Limit /\ p.missing[b] + 0 = g.short[b]
  <2>1. /\ Lefts(manager.heap) = g.balance[b] /\ manager.current = g.balance[b]
        /\ g.balance[b] <= g.acquired[b] /\ p.missing[b] = g.short[b]
    BY <1>12 DEF Balanced, Holds
  <2>2. /\ Lefts(m.heap) = Lefts(manager.heap) + amount
        /\ m.current = Round(manager.current + amount)
    BY <1>4 DEF AddsTo
  <2>3. x \in Nat /\ x <= y /\ y < Limit /\ x < Limit
    <3>1. ~(y >= Limit) /\ Limit \in Nat
      BY <1>12, DigitsAssumption
    <3>. QED
      BY SMT, <3>1, <2>1, <1>9, <1>11
  <2>4. p.missing[b] + 0 = p.missing[b]
    BY SMT, <1>3
  <2>5. Round(x) = x
    BY <2>3, RoundIsExact
  <2>. QED
    BY <2>1, <2>2, <2>3, <2>4, <2>5 DEF Holds
<1>. HIDE DEF h, x, y, manager, method
<1>13. g.large => large
  OBVIOUS
<1>. HIDE DEF large
<1>14. Agree(q, h)
  BY <1>1, <1>6, <1>10, <1>12, <1>13, AgreeStep
<1>. QED
  BY <1>8, <1>14 DEF h

\* What is missing and left of a pool that holds less than the limit.
LEMMA MinusFacts ==
    ASSUME NEW a \in Nat, NEW b \in Nat
    PROVE  Minus(a, b) \in Nat /\ Minus(a, b) <= a
  BY SMT DEF Minus

\* reduce_asset_amount keeps the pot and the account of it together, and fails
\* only when digits were lost.
LEMMA ReduceKeeps ==
    ASSUME Inductive, NEW p, NEW g, PotOK(p), Agree(p, g), NEW asset \in Pools \cup {"WETH"},
           NEW amount \in Nat
    PROVE  /\ Keeps(Reduce(p, asset, amount).pot, p)
           /\ Agree(Reduce(p, asset, amount).pot, ReducedGhost(g, asset, amount))
           /\ ~g.large => Reduce(p, asset, amount).error = FALSE
<1>. DEFINE b == Pool(asset)
            method == p.settings.method
            manager == p.managers[b]
            fiat == asset \in Fiat
            so == ReduceAssetAmount(manager, method, fiat, amount)
            q == [p EXCEPT !.managers[b] = so.manager, !.missing[b] = @ + so.missing]
            held == g.balance[b]
            reports == ~fiat /\ held > 0
            h == Spent(g, asset, amount, reports)
            z == IF reports THEN g.short[b] + Minus(amount, held) ELSE g.short[b]
            large == g.large \/ amount >= Limit
<1>1. b \in Pools
  BY PoolType
<1>2. Reduce(p, asset, amount) = [error |-> so.error, pot |-> q]
  BY DEF Reduce
<1>21. ReducedGhost(g, asset, amount) = h
  BY DEF ReducedGhost
<1>. HIDE DEF b, so, q
<1>20. Reduce(p, asset, amount).pot = q /\ Reduce(p, asset, amount).error = so.error
  BY SMT, <1>2
<1>3. /\ p \in Pot /\ method \in Methods /\ Good(manager, method) /\ p.missing[b] \in Nat
  BY <1>1, PoolFacts
<1>4. Reduces(so, manager, method, fiat, amount)
  <2>1. fiat \in BOOLEAN
    BY SMT
  <2>. HIDE DEF fiat, manager, method
  <2>. QED
    BY SMT, <2>1, <1>3, ReduceFacts DEF so
<1>. HIDE DEF manager, method
<1>5. /\ Good(so.manager, method) /\ Ordered(manager.heap, so.manager.heap, method)
      /\ so.missing \in Nat /\ so.manager \in Manager
  BY <1>4 DEF Reduces, Good
<1>6. Put(q, p, b, so.manager, so.missing)
  BY <1>1, <1>3, <1>5, PutFacts DEF q
<1>7. Keeps(q, p)
  <2>1. PotOK(q) /\ AllOrdered(p, q)
    BY <1>1, <1>5, <1>6, PutKeeps DEF manager, method
  <2>. QED
    BY <2>1, <1>6 DEF Keeps, Put
<1>8. g \in Ghost
  BY DEF Agree
<1>9. Noted(h, g, b, Minus(held, amount), g.acquired[b], z, large)
  <2>1. reports \in BOOLEAN
    OBVIOUS
  <2>. HIDE DEF reports
  <2>. QED
    BY <2>1, <1>1, <1>8, SpentNoted DEF b
<1>10. held \in Nat /\ g.acquired[b] \in Nat /\ Limit \in Nat
  BY <1>1, <1>8, GhostFields, DigitsAssumption
<1>. HIDE DEF h, held
<1>11. ASSUME Balanced(p, g, b)
       PROVE  /\ Holds(manager, held) /\ held < Limit /\ held <= g.acquired[b]
              /\ g.acquired[b] < Limit /\ p.missing[b] = g.short[b]
  <2>1. /\ Holds(manager, held) /\ held <= g.acquired[b] /\ g.acquired[b] < Limit
        /\ p.missing[b] = g.short[b]
    BY <1>11 DEF Balanced, manager, held
  <2>2. held < Limit
    BY SMT, <2>1, <1>10
  <2>. QED
    BY <2>1, <2>2
<1>12. ~g.large => so.error = FALSE
  BY <1>1, <1>4, <1>10, <1>11 DEF Agree, Reduces
<1>13. ASSUME ~large, Balanced(p, g, b)
       PROVE  /\ Holds(so.manager, Minus(held, amount)) /\ Minus(held, amount) <= g.acquired[b]
              /\ g.acquired[b] < Limit /\ p.missing[b] + so.missing = z
  <2>1. amount < Limit
    <3>1. ~(amount >= Limit)
      BY <1>13
    <3>. QED
      BY SMT, <3>1, <1>10
  <2>2. /\ Holds(so.manager, Minus(held, amount))
        /\ so.missing = IF fiat \/ held = 0 THEN 0 ELSE Minus(amount, held)
    BY <2>1, <1>4, <1>10, <1>11, <1>13 DEF Reduces
  <2>3. Minus(held, amount) <= g.acquired[b]
    <3>1. Minus(held, amount) \in Nat /\ Minus(held, amount) <= held /\ held <= g.acquired[b]
      BY <1>10, <1>11, <1>13, MinusFacts
    <3>. QED
      BY SMT, <3>1, <1>10
  <2>4. held = 0 <=> ~(held > 0)
    BY SMT, <1>10
  <2>5. p.missing[b] + 0 = p.missing[b] /\ p.missing[b] = g.short[b]
    <3>1. p.missing[b] + 0 = p.missing[b]
      BY SMT, <1>3
    <3>. QED
      BY <3>1, <1>11, <1>13
  <2>6. p.missing[b] + so.missing = z
    BY <2>2, <2>4, <2>5
  <2>. QED
    BY <2>2, <2>3, <2>6, <1>11, <1>13
<1>14. g.large => large
  OBVIOUS
<1>. HIDE DEF large, z
<1>15. Agree(q, h)
  BY <1>1, <1>6, <1>9, <1>13, <1>14, AgreeStep
<1>. QED
  BY <1>7, <1>12, <1>15, <1>20, <1>21

\* What spend_asset makes of the pot for a taxable spend.
AfterSpend(p, b, info) ==
    [p EXCEPT !.managers[b] = info.manager, !.missing[b] = @ + info.missing]

SpendsWell(p, g, h, b, info, amount, ts) ==
    /\ Keeps(AfterSpend(p, b, info), p) /\ Agree(AfterSpend(p, b, info), h)
    /\ ~g.large => info.error = FALSE
    /\ info.amount = amount /\ info.ts = ts
    /\ ~h.large => /\ Amounts(info.matched) + info.missing = amount
                   /\ info.taxable = amount - OldPart(info.matched, ts, p.settings.period)

\* calculate_spend_cost_basis keeps the pot and the account of it together, fails
\* only when digits were lost, and its answer adds up unless they were.
LEMMA SpendKeeps ==
    ASSUME Inductive, NEW p, NEW g, PotOK(p), Agree(p, g), NEW asset \in Pools \cup {"WETH"},
           NEW amount \in Nat, NEW ts \in Nat, NEW b, b = Pool(asset), NEW info,
           info = SpendCostBasis(p.managers[b], p.settings.method, p.settings.period, amount, ts),
           NEW h, h = Spent(g, asset, amount, TRUE)
    PROVE  SpendsWell(p, g, h, b, info, amount, ts)
<1>. DEFINE method == p.settings.method
            period == p.settings.period
            manager == p.managers[b]
            q == AfterSpend(p, b, info)
            held == g.balance[b]
            z == g.short[b] + Minus(amount, held)
            large == g.large \/ amount >= Limit
<1>1. b \in Pools
  BY PoolType
<1>3. /\ p \in Pot /\ method \in Methods /\ period \in Nat
      /\ Good(manager, method) /\ p.missing[b] \in Nat
  BY <1>1, PoolFacts
<1>4. Spends(info, manager, method, period, amount, ts)
  BY <1>3, SpendFacts
<1>. HIDE DEF manager, method, period
<1>5. /\ Good(info.manager, method) /\ Ordered(manager.heap, info.manager.heap, method)
      /\ info.missing \in Nat /\ info.manager \in Manager
  BY <1>4 DEF Spends, Good
<1>6. Put(q, p, b, info.manager, info.missing)
  BY <1>1, <1>3, <1>5, PutFacts DEF AfterSpend
<1>. HIDE DEF q
<1>7. Keeps(q, p)
  <2>1. PotOK(q) /\ AllOrdered(p, q)
    BY <1>1, <1>5, <1>6, PutKeeps DEF manager, method
  <2>. QED
    BY <2>1, <1>6 DEF Keeps, Put
<1>8. g \in Ghost
  BY DEF Agree
<1>9. Noted(h, g, b, Minus(held, amount), g.acquired[b], z, large)
  <2>1. TRUE \in BOOLEAN
    BY SMT
  <2>2. Noted(Spent(g, asset, amount, TRUE), g, b, Minus(g.balance[b], amount), g.acquired[b],
              IF TRUE THEN g.short[b] + Minus(amount, g.balance[b]) ELSE g.short[b],
              g.large \/ amount >= Limit)
    BY <2>1, <1>1, <1>8, SpentNoted
  <2>. QED
    BY <2>2
<1>10. held \in Nat /\ g.acquired[b] \in Nat /\ Limit \in Nat
  BY <1>1, <1>8, GhostFields, DigitsAssumption
<1>. HIDE DEF held
<1>11. ASSUME Balanced(p, g, b)
       PROVE  /\ Holds(manager, held) /\ held < Limit /\ held <= g.acquired[b]
              /\ g.acquired[b] < Limit /\ p.missing[b] = g.short[b]
  <2>1. /\ Holds(manager, held) /\ held <= g.acquired[b] /\ g.acquired[b] < Limit
        /\ p.missing[b] = g.short[b]
    BY <1>11 DEF Balanced, manager, held
  <2>2. held < Limit
    BY SMT, <2>1, <1>10
  <2>. QED
    BY <2>1, <2>2
<1>12. ~g.large => info.error = FALSE
  BY <1>1, <1>4, <1>10, <1>11 DEF Agree, Spends
<1>13. ASSUME ~large, Balanced(p, g, b)
       PROVE  /\ Holds(info.manager, Minus(held, amount)) /\ Minus(held, amount) <= g.acquired[b]
              /\ g.acquired[b] < Limit /\ p.missing[b] + info.missing = z
              /\ Amounts(info.matched) + info.missing = amount
              /\ info.taxable = amount - OldPart(info.matched, ts, period)
  <2>1. amount < Limit
    <3>1. ~(amount >= Limit)
      BY <1>13
    <3>. QED
      BY SMT, <3>1, <1>10
  <2>2. /\ Holds(info.manager, Minus(held, amount)) /\ info.missing = Minus(amount, held)
        /\ Amounts(info.matched) + info.missing = amount
        /\ info.taxable = amount - OldPart(info.matched, ts, period)
    BY <2>1, <1>4, <1>10, <1>11, <1>13 DEF Spends
  <2>3. Minus(held, amount) <= g.acquired[b]
    <3>1. Minus(held, amount) \in Nat /\ Minus(held, amount) <= held /\ held <= g.acquired[b]
      BY <1>10, <1>11, <1>13, MinusFacts
    <3>. QED
      BY SMT, <3>1, <1>10
  <2>. QED
    BY <2>2, <2>3, <1>11, <1>13
<1>14. g.large => large
  OBVIOUS
<1>15. h.large = large
  BY <1>9 DEF Noted
<1>. HIDE DEF large, z
<1>16. Agree(q, h)
  BY <1>1, <1>6, <1>9, <1>13, <1>14, AgreeStep
<1>17. ~h.large => /\ Amounts(info.matched) + info.missing = amount
                   /\ info.taxable = amount - OldPart(info.matched, ts, period)
  BY <1>1, <1>13, <1>14, <1>15 DEF Agree
<1>18. info.amount = amount /\ info.ts = ts
  BY <1>4 DEF Spends
<1>. QED
  BY <1>7, <1>12, <1>16, <1>17, <1>18 DEF q, period, SpendsWell

\* The time of an event is a natural number, and a later event is not before it.
LEMMA TimeFacts ==
    ASSUME NEW l \in Local
    PROVE  Time(l) \in Nat /\ \A m \in Local : l.read <= m.read => Time(l) <= Time(m)
<1>1. l.read \in Nat /\ \A m \in Local : m.read \in Nat
  BY DEF Local
<1>. QED
  BY SMT, <1>1 DEF Time

-----------------------------------------------------------------------------
\* The invariant of the pot, and its steps.

SpentOK(s, large, period) ==
    ~large => /\ Amounts(s.matched) + s.missing = s.amount
              /\ s.taxable = s.amount - OldPart(s.matched, s.ts, period)

PotInv == PotOK(pot) /\ Agree(pot, ghost) /\ SpentOK(spent, ghost.large, pot.settings.period)

\* The report that pot.report names has emptied the pot, except for the first
\* one: the pot is empty until some report gets to its reset.
UnusedPot ==
    pc[pot.report] \in {"new", "reset"} =>
        /\ \A a \in Pools : pot.managers[a].heap = <<>>
        /\ \A r \in Reports : pc[r] \in {"new", "reset", "done"}

Inv == LocalsOK /\ PotInv /\ UnusedPot

\* The ghosts have the same account.
SameAccount(h, g) ==
    /\ h \in Ghost /\ h.balance = g.balance /\ h.acquired = g.acquired /\ h.short = g.short
    /\ h.large = g.large

\* A change of ghost.apart leaves the account as it is.
LEMMA ApartFacts ==
    ASSUME NEW g \in Ghost, NEW x \in BOOLEAN
    PROVE  SameAccount([g EXCEPT !.apart = x], g) /\ [g EXCEPT !.apart = x].apart = x
  BY SMT DEF Ghost, SameAccount

\* The account is what a pot agrees with.
LEMMA SameAgree ==
    ASSUME NEW p, NEW g, NEW h, Agree(p, g), SameAccount(h, g)
    PROVE  Agree(p, h)
  BY DEF Agree, SameAccount, Balanced

\* A change without a cost basis adds up.
LEMMA NoSpendOK ==
    ASSUME Inductive, NEW large, NEW period \in Nat
    PROVE  SpentOK(NoSpend, large, period)
<1>1. /\ NoSpend.amount = 0 /\ NoSpend.taxable = 0 /\ NoSpend.matched = <<>>
      /\ NoSpend.ts = 0 /\ NoSpend.missing = 0
  BY SMT DEF NoSpend
<1>2. 0 \in Nat /\ 0 + 0 = 0 /\ 0 - 0 = 0
  BY SMT
<1>3. Amounts(<<>>) = 0 /\ OldPart(<<>>, 0, period) = 0
  BY <1>2, NothingMatched
<1>. QED
  BY <1>1, <1>2, <1>3 DEF SpentOK

\* A pot that does not change was used in order.
LEMMA SamePot ==
    ASSUME NEW p
    PROVE  AllOrdered(p, p)
  BY OrderedSame DEF AllOrdered

\* What a step may do to the pot.
PotStep ==
    /\ PotInv'
    /\ pot'.report = pot.report => AllOrdered(pot, pot') /\ pot'.settings = pot.settings

\* A step that leaves the pot alone.
LEMMA QuietStep ==
    ASSUME PotInv, UNCHANGED <<pot, spent>>,
           ghost' = ghost \/ \E x \in BOOLEAN : ghost' = [ghost EXCEPT !.apart = x]
    PROVE  PotStep
<1>1. ghost \in Ghost
  BY DEF PotInv, Agree
<1>2. SameAccount(ghost', ghost)
  <2>1. SameAccount(ghost, ghost)
    BY <1>1 DEF SameAccount
  <2>. QED
    BY <1>1, <2>1, ApartFacts
<1>3. Agree(pot', ghost') /\ PotOK(pot')
  BY <1>2, SameAgree DEF PotInv
<1>4. SpentOK(spent', ghost'.large, pot'.settings.period)
  BY <1>2 DEF PotInv, SameAccount
<1>5. AllOrdered(pot, pot') /\ pot'.settings = pot.settings
  BY SamePot
<1>. QED
  BY <1>3, <1>4, <1>5 DEF PotStep, PotInv

\* A step that changes the pot and keeps the account.
LEMMA KeepingStep ==
    ASSUME Inductive, PotInv, Keeps(pot', pot), NEW h, Agree(pot', h), SameAccount(ghost', h),
           \/ spent' = NoSpend
           \/ SpentOK(spent', h.large, pot.settings.period)
    PROVE  PotStep
<1>1. PotOK(pot') /\ AllOrdered(pot, pot') /\ pot'.settings = pot.settings
  BY DEF Keeps
<1>2. Agree(pot', ghost')
  BY SameAgree
<1>3. pot.settings.period \in Nat
  <2>1. pot \in Pot
    BY DEF PotInv, PotOK
  <2>2. pot.settings \in Settings
    BY <2>1 DEF Pot
  <2>. QED
    BY <2>2, SettingsFacts
<1>4. SpentOK(spent', ghost'.large, pot'.settings.period)
  <2>1. ghost'.large = h.large
    BY DEF SameAccount
  <2>. QED
    BY <2>1, <1>1, <1>3, NoSpendOK
<1>. QED
  BY <1>1, <1>2, <1>4 DEF PotStep, PotInv

\* The pot after a reset.
LEMMA FreshFacts ==
    ASSUME Inductive, NEW s \in Settings, NEW r \in Reports
    PROVE  /\ PotOK(FreshPot(s, r)) /\ Agree(FreshPot(s, r), Fresh)
           /\ FreshPot(s, r).settings = s /\ FreshPot(s, r).report = r
           /\ \A a \in Pools : FreshPot(s, r).managers[a].heap = <<>>
<1>. DEFINE p == FreshPot(s, r)
<1>1. EmptyManager.heap = <<>> /\ EmptyManager.count = 0 /\ EmptyManager.current = 0
  BY SMT DEF EmptyManager
<1>2. EmptyManager \in Manager
  <2>1. <<>> \in Seq(Acquisition) /\ 0 \in Nat /\ 0 \in Int
    BY SMT
  <2>. QED
    BY <2>1 DEF EmptyManager, Manager
<1>3. Good(EmptyManager, s.method)
  <2>1. Len(<<>>) = 0 /\ \A k \in 1 .. 0 : FALSE
    BY SMT
  <2>. QED
    BY <2>1, <1>1, <1>2 DEF Good, Distinct, Sorted
<1>4. /\ p.settings = s /\ p.report = r /\ p.managers = [a \in Pools |-> EmptyManager]
      /\ p.missing = [a \in Pools |-> 0]
  BY SMT DEF FreshPot
<1>5. p \in Pot
  <2>1. 0 \in Nat
    BY SMT
  <2>2. [a \in Pools |-> EmptyManager] \in [Pools -> Manager] /\ [a \in Pools |-> 0] \in [Pools -> Nat]
    BY <2>1, <1>2
  <2>. QED
    BY <2>2 DEF FreshPot, Pot
<1>6. /\ Fresh.balance = [a \in Pools |-> 0] /\ Fresh.short = [a \in Pools |-> 0]
      /\ Fresh.acquired = [a \in Pools |-> 0] /\ Fresh.large = FALSE /\ Fresh.apart = FALSE
  BY SMT DEF Fresh
<1>7. Fresh \in Ghost
  <2>1. 0 \in Nat /\ FALSE \in BOOLEAN
    BY SMT
  <2>2. [a \in Pools |-> 0] \in [Pools -> Nat]
    BY <2>1
  <2>. QED
    BY <2>1, <2>2 DEF Fresh, Ghost
<1>. HIDE DEF p
<1>8. Lefts(<<>>) = 0
  <2>1. <<>> \in Seq(Acquisition)
    BY SMT
  <2>. QED
    BY <2>1, LeftsFacts
<1>9. ASSUME NEW a \in Pools PROVE Balanced(p, Fresh, a) /\ Good(p.managers[a], p.settings.method)
  <2>1. 0 <= 0 /\ 0 < Limit
    BY SMT, DigitsAssumption
  <2>2. p.managers[a] = EmptyManager /\ p.missing[a] = 0
    BY <1>4
  <2>3. Fresh.balance[a] = 0 /\ Fresh.short[a] = 0 /\ Fresh.acquired[a] = 0
    BY <1>6
  <2>4. Holds(EmptyManager, 0)
    BY <1>1, <1>8 DEF Holds
  <2>. QED
    BY <2>1, <2>2, <2>3, <2>4, <1>3, <1>4 DEF Balanced
<1>. QED
  BY <1>1, <1>4, <1>5, <1>7, <1>9 DEF PotOK, Agree, p

\* What a report in the middle of a change knows of it.
LEMMA OpFacts ==
    ASSUME LocalsOK, NEW r \in Reports, local[r].ops # <<>>, Op(r).amount > 0
    PROVE  /\ Op(r).asset \in Pools \cup {"WETH"} /\ Op(r).amount \in Nat \ {0}
           /\ Op(r).amount \in Nat /\ Time(local[r]) \in Nat /\ local[r].rate \in Nat
\* The fields of a change.
<1>ChangeFields. ASSUME NEW c \in Changes
                 PROVE  /\ c.asset \in Pools \cup {"WETH"} /\ c.amount \in Nat
                        /\ c.amount > 0 => c.amount \in Nat \ {0}
  <2>1. c.asset \in Pools \cup {"WETH"} /\ c.amount \in Nat
    BY DEF Changes
  <2>2. c.amount > 0 => c.amount # 0
    BY SMT, <2>1
  <2>. QED
    BY <2>1, <2>2
<1>1. local[r] \in Local
  BY DEF LocalsOK
<1>2. Op(r) \in Changes /\ local[r].rate \in Nat
  BY <1>1, LocalFields DEF Op
<1>3. Time(local[r]) \in Nat
  BY <1>1, TimeFacts
<1>. QED
  BY <1>2, <1>3, <1>ChangeFields

\* A report in the middle of a change has one.
LEMMA InChange ==
    ASSUME LocalsOK, NEW r \in Reports, pc[r] \in {"obtain", "price", "spend"}
    PROVE  local[r].ops # <<>> /\ Op(r).amount > 0
<1>1. LocalOK(pc[r], local[r], MaxEvents[r])
  BY DEF LocalsOK
<1>. QED
  BY <1>1 DEF LocalOK, Op

\* ghost.apart only ever becomes a truth value.
LEMMA ApartType ==
    ASSUME PotInv
    PROVE  ghost \in Ghost /\ ghost.apart \in BOOLEAN /\ \A x : (ghost.apart \/ x) \in BOOLEAN
<1>1. ghost \in Ghost
  BY DEF PotInv, Agree
<1>2. ghost.apart \in BOOLEAN
  BY <1>1 DEF Ghost
<1>3. \A x : (ghost.apart \/ x) \in BOOLEAN
  BY SMT
<1>. QED
  BY <1>1, <1>2, <1>3

\* Most steps do not touch the pot.
LEMMA QuietActions ==
    ASSUME PotInv, NEW r \in Reports,
           \/ StartReport(r) \/ ReadEvent(r) \/ SwapPrices(r) \/ NoSwapPrices(r)
           \/ EndEvent(r) \/ EndReport(r) \/ ZeroChange(r) \/ PriceFound(r)
           \/ SpendUncounted(r) \/ SkipEvent(r) \/ SkipForNoPrice(r) \/ CancelReport(r)
    PROVE  PotStep /\ pot' = pot
<1>1. ghost \in Ghost /\ ghost.apart \in BOOLEAN /\ \A x : (ghost.apart \/ x) \in BOOLEAN
  BY ApartType
<1>2. CASE \/ StartReport(r) \/ ReadEvent(r) \/ SwapPrices(r) \/ NoSwapPrices(r)
           \/ EndEvent(r) \/ EndReport(r) \/ ZeroChange(r) \/ PriceFound(r)
  <2>1. UNCHANGED <<pot, spent, ghost>>
    BY <1>2 DEF StartReport, ReadEvent, SwapPrices, NoSwapPrices, EndEvent, EndReport,
                       ZeroChange, PriceFound
  <2>2. UNCHANGED <<pot, spent>> /\ ghost' = ghost /\ pot' = pot
    BY <2>1
  <2>. QED
    BY <2>2, QuietStep
<1>3. CASE SpendUncounted(r) \/ SkipEvent(r)
  <2>1. UNCHANGED <<pot, spent>> /\ ghost' = [ghost EXCEPT !.apart = TRUE] /\ TRUE \in BOOLEAN
    BY <1>3 DEF SpendUncounted, SkipEvent
  <2>2. pot' = pot
    BY <2>1
  <2>. QED
    BY <2>1, <2>2, QuietStep
<1>4. CASE SkipForNoPrice(r)
  <2>. DEFINE x == ghost.apart \/ pc[r] = "price"
  <2>1. UNCHANGED <<pot, spent>> /\ ghost' = [ghost EXCEPT !.apart = x]
    BY <1>4 DEF SkipForNoPrice
  <2>2. x \in BOOLEAN /\ pot' = pot
    BY SMT, <2>1
  <2>. HIDE DEF x
  <2>. QED
    BY <2>1, <2>2, QuietStep
<1>5. CASE CancelReport(r)
  <2>. DEFINE x == ghost.apart \/ pc[r] \in {"obtain", "price"}
  <2>1. UNCHANGED <<pot, spent>> /\ ghost' = [ghost EXCEPT !.apart = x]
    BY <1>5 DEF CancelReport
  <2>2. x \in BOOLEAN /\ pot' = pot
    BY SMT, <2>1
  <2>. HIDE DEF x
  <2>. QED
    BY <2>1, <2>2, QuietStep
<1>. QED
  BY <1>2, <1>3, <1>4, <1>5

\* AccountingPot.reset.
LEMMA ResetStep ==
    ASSUME Inductive, LocalsOK, UnusedPot, NEW r \in Reports, ResetPot(r)
    PROVE  PotInv' /\ (pot'.report = pot.report => AllOrdered(pot, pot'))
<1>1. local[r].settings \in Settings
  <2>1. local[r] \in Local
    BY DEF LocalsOK
  <2>. QED
    BY <2>1 DEF Local
<1>2. pot' = FreshPot(local[r].settings, r) /\ spent' = NoSpend /\ ghost' = Fresh /\ pc[r] = "reset"
  BY DEF ResetPot
<1>3. PotOK(pot') /\ Agree(pot', ghost') /\ pot'.report = r /\ pot'.settings = local[r].settings
  BY <1>1, <1>2, FreshFacts
<1>4. pot'.settings.period \in Nat
  BY <1>1, <1>3, SettingsFacts
<1>5. SpentOK(spent', ghost'.large, pot'.settings.period)
  BY <1>2, <1>4, NoSpendOK
<1>6. ASSUME pot'.report = pot.report PROVE AllOrdered(pot, pot')
  <2>1. pc[pot.report] \in {"new", "reset"}
    BY <1>2, <1>3, <1>6
  <2>2. \A a \in Pools : pot.managers[a].heap = <<>>
    BY <2>1 DEF UnusedPot
  <2>3. Len(<<>>) = 0 /\ \A k \in 1 .. 0 : FALSE
    BY SMT
  <2>. QED
    BY <2>2, <2>3 DEF AllOrdered, Ordered
<1>. QED
  BY <1>3, <1>5, <1>6 DEF PotInv

\* add_in_event.
LEMMA InSteps ==
    ASSUME Inductive, LocalsOK, PotInv, NEW r \in Reports, AddInEventOf(r) \/ Obtain(r)
    PROVE  PotStep /\ pot'.report = pot.report
<1>1. PotOK(pot) /\ Agree(pot, ghost)
  BY DEF PotInv
<1>2. CASE AddInEventOf(r)
  <2>. DEFINE op == Op(r)
              ts == Time(local[r])
              asset == IF Forked(op.asset, ts) THEN "ETC" ELSE op.asset
              h == Acquired(ghost, asset, op.amount)
              x == h.apart \/ op.asset \in {"WETH", "ETC"}
  <2>1. local[r].ops # <<>> /\ op.amount > 0
    BY <1>2 DEF AddInEventOf, AtChange
  <2>2. /\ op.asset \in Pools \cup {"WETH"} /\ op.amount \in Nat \ {0}
        /\ ts \in Nat /\ local[r].rate \in Nat
    BY <2>1, OpFacts
  <2>3. asset \in Pools \cup {"WETH"}
    <3>1. "ETC" \in Pools
      BY SMT DEF Pools
    <3>. QED
      BY <3>1, <2>2
  <2>4. PICK rate \in IF op.given THEN {local[r].rate} ELSE Rates \cup {0} :
          /\ pot' \in ObtainAsset(pot, asset, op.amount, ts, rate)
          /\ ghost' = [h EXCEPT !.apart = x]
    BY <1>2 DEF AddInEventOf
  <2>5. spent' = NoSpend
    BY <1>2 DEF AddInEventOf
  <2>6. rate \in Nat
    <3>1. 0 \in Nat
      BY SMT
    <3>. QED
      BY <3>1, <2>2, <2>4, ReportsAssumption
  <2>. HIDE DEF asset, op, ts, x
  <2>7. Keeps(pot', pot) /\ Agree(pot', h)
    BY <2>2, <2>3, <2>4, <2>6, <1>1, ObtainKeeps
  <2>. HIDE DEF h
  <2>8. SameAccount(ghost', h)
    <3>1. h \in Ghost
      BY <2>7 DEF Agree
    <3>2. x \in BOOLEAN
      BY SMT DEF x
    <3>. QED
      BY <3>1, <3>2, <2>4, ApartFacts
  <2>. QED
    BY <2>5, <2>7, <2>8, KeepingStep DEF Keeps
<1>3. CASE Obtain(r)
  <2>. DEFINE op == Op(r)
              h == Acquired(ghost, op.asset, op.amount)
  <2>1. pc[r] = "obtain" /\ ghost' = h /\ spent' = spent
        /\ pot' \in ObtainAsset(pot, op.asset, op.amount, Time(local[r]), local[r].rate)
    BY <1>3 DEF Obtain
  <2>2. local[r].ops # <<>> /\ op.amount > 0
    BY <2>1, InChange
  <2>3. /\ op.asset \in Pools \cup {"WETH"} /\ op.amount \in Nat \ {0} /\ op.amount \in Nat
        /\ Time(local[r]) \in Nat /\ local[r].rate \in Nat
    BY <2>2, OpFacts
  <2>. HIDE DEF op
  <2>4. Keeps(pot', pot) /\ Agree(pot', h)
    BY <2>1, <2>3, <1>1, ObtainKeeps
  <2>5. ghost.large => h.large
    <3>1. Pool(op.asset) \in Pools /\ ghost \in Ghost
      BY <2>3, <1>1, PoolType DEF Agree
    <3>. QED
      BY <3>1, <2>3, AcquiredNoted DEF Noted
  <2>6. SpentOK(spent', h.large, pot.settings.period)
    BY <2>1, <2>5 DEF PotInv, SpentOK
  <2>. HIDE DEF h
  <2>7. SameAccount(ghost', h)
    BY <2>1, <2>4 DEF SameAccount, Agree
  <2>. QED
    BY <2>4, <2>6, <2>7, KeepingStep DEF Keeps
<1>. QED
  BY <1>2, <1>3

\* What a step may do to the reports: one ends in an error only when digits were
\* lost.
ErrorStep == \A q \in Reports : pc[q] # "error" /\ pc'[q] = "error" => ghost.large

\* A step of a report to anywhere but "error".
LEMMA NotError ==
    ASSUME LocalsOK, NEW r \in Reports, NEW step, Goto(r, step), step # "error" \/ ghost.large
    PROVE  ErrorStep
<1>1. pc' = [pc EXCEPT ![r] = step] /\ DOMAIN pc = Reports
  BY DEF Goto, LocalsOK
<1>2. pc'[r] = step /\ \A q \in Reports \ {r} : pc'[q] = pc[q]
  BY <1>1
<1>. QED
  BY <1>2 DEF ErrorStep

\* An error that stops a report after digits were lost.
LEMMA StopStep ==
    ASSUME Inductive, LocalsOK, PotInv, NEW r \in Reports, NEW p, StopOnError(r, p), ghost.large, Keeps(p, pot)
    PROVE  PotStep /\ pot'.report = pot.report /\ ErrorStep
<1>1. pot' = p /\ spent' = spent /\ ghost' = ghost /\ Goto(r, "error")
  BY DEF StopOnError, End
<1>2. Agree(pot', ghost) /\ SameAccount(ghost', ghost)
  BY <1>1 DEF PotInv, Agree, SameAccount
<1>3. SpentOK(spent', ghost.large, pot.settings.period)
  BY <1>1 DEF PotInv
<1>. QED
  BY <1>1, <1>2, <1>3, KeepingStep, NotError DEF Keeps

\* handle_prefork_asset_spends.
LEMMA OutStep ==
    ASSUME Inductive, LocalsOK, PotInv, NEW r \in Reports, AddOutEvent(r)
    PROVE  PotStep /\ pot'.report = pot.report /\ ErrorStep
<1>. DEFINE amount == Op(r).amount
            forked == Forked(Op(r).asset, Time(local[r]))
            so == Reduce(pot, "ETC", amount)
            h == ReducedGhost(ghost, "ETC", amount)
<1>1. local[r].ops # <<>> /\ Op(r).amount > 0
  BY DEF AddOutEvent, AtChange
<1>2. amount \in Nat /\ "ETC" \in Pools \cup {"WETH"}
  <2>1. "ETC" \in Pools \cup {"WETH"}
    BY SMT DEF Pools
  <2>. QED
    BY <2>1, <1>1, OpFacts
<1>3. PotOK(pot) /\ Agree(pot, ghost)
  BY DEF PotInv
<1>4. IF forked /\ so.error THEN StopOnError(r, so.pot)
      ELSE /\ Goto(r, IF Op(r).given THEN "spend" ELSE "price")
           /\ pot' = IF forked THEN so.pot ELSE pot
           /\ ghost' = IF forked THEN h ELSE ghost
           /\ spent' = NoSpend
  BY DEF AddOutEvent
<1>. HIDE DEF amount, forked
<1>5. Keeps(so.pot, pot) /\ Agree(so.pot, h) /\ (~ghost.large => so.error = FALSE)
  BY <1>2, <1>3, ReduceKeeps
<1>. HIDE DEF so, h
<1>6. CASE forked /\ so.error
  <2>1. ghost.large
    BY <1>5, <1>6
  <2>. QED
    BY <2>1, <1>4, <1>5, <1>6, StopStep
<1>7. CASE ~(forked /\ so.error)
  <2>1. /\ Goto(r, IF Op(r).given THEN "spend" ELSE "price")
        /\ pot' = IF forked THEN so.pot ELSE pot
        /\ ghost' = IF forked THEN h ELSE ghost
        /\ spent' = NoSpend
    BY <1>4, <1>7
  <2>2. (IF Op(r).given THEN "spend" ELSE "price") # "error"
    BY SMT
  <2>3. ErrorStep
    BY <2>1, <2>2, NotError
  <2>4. Keeps(pot', pot) /\ Agree(pot', ghost')
    <3>1. Keeps(pot, pot)
      BY <1>3, SamePot DEF Keeps
    <3>. QED
      BY <3>1, <2>1, <1>3, <1>5
  <2>5. SameAccount(ghost', ghost')
    BY <2>4 DEF Agree, SameAccount
  <2>. QED
    BY <2>1, <2>3, <2>4, <2>5, KeepingStep DEF Keeps
<1>. QED
  BY <1>6, <1>7

\* spend_asset.
LEMMA SpendStep ==
    ASSUME Inductive, LocalsOK, PotInv, NEW r \in Reports, SpendAsset(r)
    PROVE  PotStep /\ pot'.report = pot.report /\ ErrorStep
\* The cost basis that a spend hands on.
<1>HandedOn. ASSUME NEW info
             PROVE  /\ [k \in DOMAIN NoSpend |-> info[k]].amount = info.amount
                    /\ [k \in DOMAIN NoSpend |-> info[k]].taxable = info.taxable
                    /\ [k \in DOMAIN NoSpend |-> info[k]].matched = info.matched
                    /\ [k \in DOMAIN NoSpend |-> info[k]].ts = info.ts
                    /\ [k \in DOMAIN NoSpend |-> info[k]].missing = info.missing
  BY SMT DEF NoSpend
<1>. DEFINE asset == Op(r).asset
            amount == Op(r).amount
            ts == Time(local[r])
            b == Pool(asset)
            taxable == Op(r).taxable /\ asset \notin Fiat
            info == SpendCostBasis(pot.managers[b], pot.settings.method, pot.settings.period,
                                   amount, ts)
            reduced == Reduce(pot, asset, amount)
            given == [k \in DOMAIN NoSpend |-> info[k]]
            h == Spent(ghost, asset, amount, TRUE)
            i == ReducedGhost(ghost, asset, amount)
            x == asset \in {"WETH", "ETC"}
<1>1. pc[r] = "spend"
  BY DEF SpendAsset
<1>2. asset \in Pools \cup {"WETH"} /\ amount \in Nat /\ ts \in Nat
  <2>1. local[r].ops # <<>> /\ Op(r).amount > 0
    BY <1>1, InChange
  <2>. QED
    BY <2>1, OpFacts
<1>3. PotOK(pot) /\ Agree(pot, ghost)
  BY DEF PotInv
<1>4. IF (IF taxable THEN info.error ELSE reduced.error)
      THEN StopOnError(r, IF taxable THEN AfterSpend(pot, b, info) ELSE reduced.pot)
      ELSE /\ pot' = IF taxable THEN AfterSpend(pot, b, info) ELSE reduced.pot
           /\ spent' = IF taxable THEN given ELSE NoSpend
           /\ ghost' = [(IF taxable THEN h ELSE i) EXCEPT !.apart = @ \/ x]
           /\ EndChange(r)
  BY DEF SpendAsset, AfterSpend
<1>5. /\ Keeps(AfterSpend(pot, b, info), pot) /\ Agree(AfterSpend(pot, b, info), h)
      /\ ~ghost.large => info.error = FALSE
      /\ info.amount = amount /\ info.ts = ts
      /\ ~h.large => /\ Amounts(info.matched) + info.missing = amount
                     /\ info.taxable = amount - OldPart(info.matched, ts, pot.settings.period)
  <2>. HIDE DEF asset, amount, ts, b, info, h
  <2>1. b = Pool(asset)
    BY DEF b
  <2>2. info = SpendCostBasis(pot.managers[b], pot.settings.method, pot.settings.period, amount, ts)
    BY DEF info
  <2>3. h = Spent(ghost, asset, amount, TRUE)
    BY DEF h
  <2>4. SpendsWell(pot, ghost, h, b, info, amount, ts)
    BY <2>1, <2>2, <2>3, <1>2, <1>3, SpendKeeps
  <2>. QED
    BY <2>4 DEF SpendsWell
<1>6. Keeps(reduced.pot, pot) /\ Agree(reduced.pot, i) /\ (~ghost.large => reduced.error = FALSE)
  <2>. HIDE DEF asset, amount
  <2>. QED
    BY <1>2, <1>3, ReduceKeeps
<1>7. SpentOK(given, h.large, pot.settings.period)
  <2>. HIDE DEF info, amount, ts, h
  <2>1. /\ given.amount = info.amount /\ given.taxable = info.taxable
        /\ given.matched = info.matched /\ given.ts = info.ts /\ given.missing = info.missing
    BY <1>HandedOn
  <2>. HIDE DEF given
  <2>. QED
    BY <2>1, <1>5 DEF SpentOK
<1>. HIDE DEF asset, amount, ts, b, taxable, info, reduced, given, h, i
<1>8. CASE IF taxable THEN info.error ELSE reduced.error
  <2>1. ghost.large
    BY <1>5, <1>6, <1>8
  <2>2. StopOnError(r, IF taxable THEN AfterSpend(pot, b, info) ELSE reduced.pot)
    BY <1>4, <1>8
  <2>3. CASE taxable
    <3>1. StopOnError(r, AfterSpend(pot, b, info))
      BY <2>2, <2>3
    <3>. QED
      BY <3>1, <2>1, <1>5, StopStep
  <2>4. CASE ~taxable
    <3>1. StopOnError(r, reduced.pot)
      BY <2>2, <2>4
    <3>. QED
      BY <3>1, <2>1, <1>6, StopStep
  <2>. QED
    BY <2>3, <2>4
<1>9. CASE ~(IF taxable THEN info.error ELSE reduced.error)
  <2>1. /\ pot' = IF taxable THEN AfterSpend(pot, b, info) ELSE reduced.pot
        /\ spent' = IF taxable THEN given ELSE NoSpend
        /\ ghost' = [(IF taxable THEN h ELSE i) EXCEPT !.apart = @ \/ x]
        /\ Goto(r, "change")
    BY <1>4, <1>9 DEF EndChange
  <2>2. ErrorStep
    <3>1. "change" # "error"
      BY SMT
    <3>. QED
      BY <3>1, <2>1, NotError
  <2>. DEFINE j == IF taxable THEN h ELSE i
  <2>3. Keeps(pot', pot) /\ Agree(pot', j)
    BY <2>1, <1>5, <1>6
  <2>4. spent' = NoSpend \/ SpentOK(spent', j.large, pot.settings.period)
    BY <2>1, <1>7
  <2>5. ghost' = [j EXCEPT !.apart = j.apart \/ x]
    BY <2>1
  <2>. HIDE DEF j
  <2>6. SameAccount(ghost', j)
    <3>1. j \in Ghost /\ (j.apart \/ x) \in BOOLEAN
      BY <2>3 DEF Agree
    <3>. QED
      BY <3>1, <2>5, ApartFacts
  <2>. QED
    BY <2>2, <2>3, <2>4, <2>6, KeepingStep DEF Keeps
<1>. QED
  BY <1>8, <1>9

Working == {"next", "prices", "change", "obtain", "price", "spend"}

\* Past its reset a report goes on working, or ends.
LEMMA WorkingMoves ==
    ASSUME NEW r \in Reports,
           \/ ReadEvent(r) \/ SwapPrices(r) \/ NoSwapPrices(r)
           \/ EndEvent(r) \/ EndReport(r) \/ ZeroChange(r) \/ AddInEventOf(r) \/ Obtain(r)
           \/ AddOutEvent(r) \/ PriceFound(r) \/ SpendUncounted(r) \/ SpendAsset(r)
           \/ SkipEvent(r) \/ SkipForNoPrice(r)
    PROVE  pc[r] \in Working /\ \E step \in Working \cup {"done", "error"} : Goto(r, step)
<1>1. pc[r] \in Working
  BY DEF Working, ReadEvent, SwapPrices, NoSwapPrices, EndEvent, EndReport, ZeroChange,
     AddInEventOf, Obtain, AddOutEvent, PriceFound, SpendUncounted, SpendAsset, SkipEvent,
     SkipForNoPrice, AtChange
<1>. DEFINE All == {"next", "prices", "change", "obtain", "price", "spend", "done", "error"}
<1>2. All = Working \cup {"done", "error"}
  BY SMT DEF Working
<1>3. ASSUME ReadEvent(r) \/ SwapPrices(r) \/ NoSwapPrices(r) \/ EndEvent(r) \/ EndReport(r)
      PROVE  \E step \in All : Goto(r, step)
  BY <1>3 DEF ReadEvent, SwapPrices, NoSwapPrices, EndEvent, EndReport, End
<1>4. ASSUME \/ ZeroChange(r) \/ Obtain(r) \/ PriceFound(r) \/ SpendUncounted(r)
             \/ SkipEvent(r) \/ SkipForNoPrice(r)
      PROVE  \E step \in All : Goto(r, step)
  BY <1>4 DEF ZeroChange, Obtain, PriceFound, SpendUncounted, SkipEvent,
     SkipForNoPrice, EndChange
<1>5. ASSUME AddInEventOf(r) PROVE \E step \in All : Goto(r, step)
  BY <1>5 DEF AddInEventOf, EndChange
<1>6. ASSUME AddOutEvent(r) PROVE \E step \in All : Goto(r, step)
  BY <1>6 DEF AddOutEvent, StopOnError, End
<1>7. ASSUME SpendAsset(r) PROVE \E step \in All : Goto(r, step)
  BY <1>7 DEF SpendAsset, StopOnError, End, EndChange
<1>. HIDE DEF All
<1>. QED
  BY <1>1, <1>2, <1>3, <1>4, <1>5, <1>6, <1>7

\* Where the others are after a step of one.
LEMMA GotoFacts ==
    ASSUME LocalsOK, NEW r \in Reports, NEW step, Goto(r, step)
    PROVE  /\ pc'[r] = step /\ \A q \in Reports \ {r} : pc'[q] = pc[q]
           /\ \A q \in Reports \ {r} : pc[q] # "spend"
<1>1. pc' = [pc EXCEPT ![r] = step] /\ DOMAIN pc = Reports
      /\ \A q \in Reports \ {r} : pc[q] # "spend"
  BY DEF Goto, LocalsOK
<1>. QED
  BY <1>1

-----------------------------------------------------------------------------
\* The invariant, and the properties of a report.

\* Every step keeps the invariant, uses the acquisitions in order and ends in an
\* error only when digits were lost.
LEMMA InvKept ==
    ASSUME Inductive, Inv, Next
    PROVE  Inv' /\ (pot'.report = pot.report => AllOrdered(pot, pot')) /\ ErrorStep
\* The pot stays empty until the first reset.
<1>UnusedKept. ASSUME LocalsOK, UnusedPot, pot.report \in Reports, NEW r \in Reports,
                      pot' = pot \/ pot'.report = pot.report \/ ResetPot(r),
                      StartReport(r) \/ CancelReport(r) => pot' = pot,
                      \/ StartReport(r) \/ ResetPot(r) \/ CancelReport(r)
                      \/ pc[r] \in Working /\ \E step \in Working \cup {"done", "error"} : Goto(r, step)
               PROVE  UnusedPot'
  <2>1. CASE ResetPot(r)
    <3>1. pot'.report = r /\ pc'[r] = "next"
      <4>1. pot' = FreshPot(local[r].settings, r) /\ Goto(r, "next")
        BY <2>1 DEF ResetPot
      <4>2. pc'[r] = "next"
        BY <1>UnusedKept, <4>1, GotoFacts
      <4>. QED
        BY SMT, <4>1, <4>2 DEF FreshPot
    <3>. QED
      BY <3>1 DEF UnusedPot
  <2>2. CASE StartReport(r)
    <3>1. Goto(r, "reset") /\ pc[r] = "new" /\ pot' = pot
      BY <2>2 DEF StartReport
    <3>2. pc'[r] = "reset" /\ \A q \in Reports \ {r} : pc'[q] = pc[q]
      BY <1>UnusedKept, <3>1, GotoFacts
    <3>. QED
      BY <1>UnusedKept, <3>1, <3>2 DEF UnusedPot
  <2>3. CASE CancelReport(r)
    <3>1. Goto(r, "done") /\ pot' = pot
      BY <2>3 DEF CancelReport, End
    <3>2. pc'[r] = "done" /\ \A q \in Reports \ {r} : pc'[q] = pc[q]
      BY <1>UnusedKept, <3>1, GotoFacts
    <3>. QED
      BY <1>UnusedKept, <3>1, <3>2 DEF UnusedPot
  <2>4. CASE /\ pc[r] \in Working /\ \E step \in Working \cup {"done", "error"} : Goto(r, step)
             /\ ~ResetPot(r)
    <3>1. PICK step \in Working \cup {"done", "error"} : Goto(r, step)
      BY <2>4
    <3>2. pc'[r] = step /\ \A q \in Reports \ {r} : pc'[q] = pc[q]
      BY <1>UnusedKept, <3>1, GotoFacts
    <3>3. pot'.report = pot.report
      BY <1>UnusedKept, <2>4
    <3>4. pc[r] \notin {"new", "reset", "done"} /\ step \notin {"new", "reset"}
      BY <2>4, <3>1 DEF Working
    <3>. QED
      BY <1>UnusedKept, <3>2, <3>3, <3>4 DEF UnusedPot
  <2>. QED
    BY <1>UnusedKept, <2>1, <2>2, <2>3, <2>4
\* The steps other than the ones with an error path do not end in an error.
<1>SafeMoves. ASSUME LocalsOK, NEW r \in Reports,
                     \/ StartReport(r) \/ ResetPot(r) \/ ReadEvent(r) \/ SwapPrices(r) \/ NoSwapPrices(r)
                     \/ EndEvent(r) \/ EndReport(r) \/ ZeroChange(r) \/ AddInEventOf(r) \/ Obtain(r)
                     \/ PriceFound(r) \/ SpendUncounted(r) \/ SkipEvent(r) \/ SkipForNoPrice(r)
                     \/ CancelReport(r)
              PROVE  ErrorStep
  <2>. DEFINE Safe == {"reset", "next", "prices", "change", "obtain", "spend", "done"}
  <2>1. CASE \/ StartReport(r) \/ ResetPot(r) \/ ReadEvent(r) \/ SwapPrices(r) \/ NoSwapPrices(r)
             \/ EndEvent(r) \/ EndReport(r)
    <3>1. \E step \in Safe : Goto(r, step)
      BY <2>1 DEF StartReport, ResetPot, ReadEvent, SwapPrices, NoSwapPrices, EndEvent,
         EndReport, End
    <3>. QED
      BY <1>SafeMoves, <3>1, NotError
  <2>2. CASE \/ ZeroChange(r) \/ Obtain(r) \/ PriceFound(r) \/ SpendUncounted(r)
             \/ SkipEvent(r) \/ SkipForNoPrice(r) \/ CancelReport(r)
    <3>1. \E step \in Safe : Goto(r, step)
      BY <2>2 DEF ZeroChange, Obtain, PriceFound, SpendUncounted, SkipEvent,
         SkipForNoPrice, CancelReport, EndChange, End
    <3>. QED
      BY <1>SafeMoves, <3>1, NotError
  <2>3. CASE AddInEventOf(r)
    <3>1. \E step \in Safe : Goto(r, step)
      BY <2>3 DEF AddInEventOf, EndChange
    <3>. QED
      BY <1>SafeMoves, <3>1, NotError
  <2>. QED
    BY <1>SafeMoves, <2>1, <2>2, <2>3
<1>1. PICK r \in Reports :
        \/ StartReport(r) \/ ResetPot(r) \/ ReadEvent(r) \/ SwapPrices(r) \/ NoSwapPrices(r)
        \/ EndEvent(r) \/ EndReport(r) \/ ZeroChange(r) \/ AddInEventOf(r) \/ Obtain(r)
        \/ AddOutEvent(r) \/ PriceFound(r) \/ SpendUncounted(r) \/ SpendAsset(r)
        \/ SkipEvent(r) \/ SkipForNoPrice(r) \/ CancelReport(r)
  BY DEF Next
<1>2. LocalsOK /\ PotInv /\ UnusedPot /\ pot.report \in Reports
  BY DEF Inv, PotInv, PotOK, Pot
<1>3. LocalsOK'
  BY <1>1, <1>2, LocalsKept
<1>4. CASE \/ StartReport(r) \/ ReadEvent(r) \/ SwapPrices(r) \/ NoSwapPrices(r)
           \/ EndEvent(r) \/ EndReport(r) \/ ZeroChange(r) \/ PriceFound(r)
           \/ SpendUncounted(r) \/ SkipEvent(r) \/ SkipForNoPrice(r) \/ CancelReport(r)
  <2>1. PotStep /\ pot' = pot
    BY <1>2, <1>4, QuietActions
  <2>2. ErrorStep
    BY <1>2, <1>4, <1>SafeMoves
  <2>3. UnusedPot'
    BY <2>1, <1>2, <1>4, WorkingMoves, <1>UnusedKept
  <2>. QED
    BY <2>1, <2>2, <2>3, <1>3 DEF PotStep, Inv
<1>5. CASE ResetPot(r)
  <2>1. PotInv' /\ (pot'.report = pot.report => AllOrdered(pot, pot'))
    BY <1>2, <1>5, ResetStep
  <2>2. ErrorStep
    BY <1>2, <1>5, <1>SafeMoves
  <2>3. StartReport(r) \/ CancelReport(r) => pot' = pot
    BY DEF StartReport, CancelReport
  <2>4. UnusedPot'
    BY <2>3, <1>2, <1>5, <1>UnusedKept
  <2>. QED
    BY <2>1, <2>2, <2>4, <1>3 DEF Inv
<1>6. CASE AddInEventOf(r) \/ Obtain(r) \/ AddOutEvent(r) \/ SpendAsset(r)
  <2>1. PotStep /\ pot'.report = pot.report /\ ErrorStep
    BY <1>2, <1>6, InSteps, OutStep, SpendStep, <1>SafeMoves
  <2>2. StartReport(r) \/ CancelReport(r) => pot' = pot
    BY DEF StartReport, CancelReport
  <2>3. UnusedPot'
    BY <2>1, <2>2, <1>2, <1>6, WorkingMoves, <1>UnusedKept
  <2>. QED
    BY <2>1, <2>3, <1>3 DEF PotStep, Inv
<1>. QED
  BY <1>1, <1>4, <1>5, <1>6

\* A step that changes nothing keeps the invariant too.
LEMMA InvStutters ==
    ASSUME Inv, UNCHANGED vars
    PROVE  Inv'
  BY DEF vars, Inv, LocalsOK, PotInv, UnusedPot

\* Before the first report.
LEMMA InitInv ==
    ASSUME Inductive, Init
    PROVE  Inv
<1>1. /\ pc = [r \in Reports |-> "new"] /\ local = [r \in Reports |-> Idle]
      /\ pot = FreshPot(Idle.settings, 1) /\ spent = NoSpend /\ ghost = Fresh
  BY DEF Init
<1>2. "new" \in Steps /\ "new" \in {"new", "done", "error"}
  BY SMT DEF Steps
<1>3. \A r \in Reports : LocalOK(pc[r], local[r], MaxEvents[r]) /\ pc[r] = "new"
  BY <1>1, <1>2, ReportsFacts, IdleOK
<1>4. LocalsOK
  <2>1. Reports # {}
    BY ReportsFacts
  <2>2. \A r \in Reports : Idle \in Local
    BY <1>1, <1>3 DEF LocalOK
  <2>. QED
    BY <2>2, <1>1, <1>2, <1>3 DEF LocalsOK
<1>5. /\ PotOK(pot) /\ Agree(pot, ghost) /\ pot.report = 1 /\ pot.settings = Idle.settings
      /\ \A a \in Pools : pot.managers[a].heap = <<>>
  <2>. DEFINE s == Idle.settings
  <2>1. s \in Settings /\ 1 \in Reports
    BY ReportsFacts, SettingsFacts
  <2>. HIDE DEF s
  <2>2. /\ PotOK(FreshPot(s, 1)) /\ Agree(FreshPot(s, 1), Fresh)
        /\ FreshPot(s, 1).settings = s /\ FreshPot(s, 1).report = 1
        /\ \A a \in Pools : FreshPot(s, 1).managers[a].heap = <<>>
    BY <2>1, FreshFacts
  <2>3. pot = FreshPot(s, 1)
    BY <1>1 DEF s
  <2>. QED
    BY <2>2, <2>3, <1>1 DEF s
<1>6. SpentOK(spent, ghost.large, pot.settings.period)
  BY <1>1, <1>5, NoSpendOK, SettingsFacts
<1>7. UnusedPot
  BY <1>3, <1>5 DEF UnusedPot
<1>. QED
  BY <1>4, <1>5, <1>6, <1>7 DEF Inv, PotInv

-----------------------------------------------------------------------------
\* Reports one at a time.

\* A report goes on with the settings it read, and the time does not go back.
Carries(m, l) == m.settings = l.settings /\ l.read <= m.read

\* What a report that goes on keeps.
GoesOnWith(r) ==
    \/ pc'[r] \in {"done", "error"}
    \/ /\ Carries(local'[r], local[r])
       /\ pc'[r] \in {"obtain", "price", "spend"} => local'[r].ops = local[r].ops

\* The updates of the local state of a report.
LEMMA Updates ==
    ASSUME LocalsOK, NEW r \in Reports
    PROVE  /\ Carries(local[r], local[r])
           /\ \A ops : Carries([local EXCEPT ![r].ops = ops][r], local[r])
           /\ \A rate : /\ Carries([local EXCEPT ![r].rate = rate][r], local[r])
                        /\ [local EXCEPT ![r].rate = rate][r].ops = local[r].ops
           /\ \A n : Carries([local EXCEPT ![r].count = n][r], local[r])
           /\ \A n, ops : Carries([local EXCEPT ![r].count = n, ![r].ops = ops][r], local[r])
           /\ \A n, ops : Carries([local EXCEPT ![r].ops = ops, ![r].count = n][r], local[r])
           /\ \A n \in Nat : \A ops : Carries([local EXCEPT ![r].read = local[r].read + n,
                                                           ![r].entries = n, ![r].ops = ops][r],
                                                       local[r])
<1>1. local \in [Reports -> Local] /\ local[r] \in Local
  BY DEF LocalsOK
<1>2. local[r].read \in Nat
  BY <1>1 DEF Local
<1>3. Carries(local[r], local[r])
  BY SMT, <1>2 DEF Carries
<1>4. ASSUME NEW n \in Nat, NEW ops
      PROVE  Carries([local EXCEPT ![r].read = local[r].read + n,
                                   ![r].entries = n, ![r].ops = ops][r], local[r])
  BY SMT, <1>1, <1>2 DEF Carries, Local
<1>5. ASSUME NEW n, NEW ops
      PROVE  /\ Carries([local EXCEPT ![r].count = n, ![r].ops = ops][r], local[r])
             /\ Carries([local EXCEPT ![r].ops = ops, ![r].count = n][r], local[r])
  BY SMT, <1>1, <1>2 DEF Carries, Local
<1>6. ASSUME NEW n PROVE Carries([local EXCEPT ![r].count = n][r], local[r])
  BY SMT, <1>1, <1>2 DEF Carries, Local
<1>7. ASSUME NEW n PROVE Carries([local EXCEPT ![r].ops = n][r], local[r])
  BY SMT, <1>1, <1>2 DEF Carries, Local
<1>8. ASSUME NEW n PROVE /\ Carries([local EXCEPT ![r].rate = n][r], local[r])
                         /\ [local EXCEPT ![r].rate = n][r].ops = local[r].ops
  BY SMT, <1>1, <1>2 DEF Carries, Local
<1>. QED
  BY <1>3, <1>4, <1>5, <1>6, <1>7, <1>8

\* EndChange goes on.
LEMMA EndChangeGoesOn ==
    ASSUME LocalsOK, NEW r \in Reports, EndChange(r)
    PROVE  GoesOnWith(r) /\ pc'[r] = "change"
<1>1. local' = [local EXCEPT ![r].ops = Tail(local[r].ops)] /\ Goto(r, "change")
  BY DEF EndChange
<1>2. Carries(local'[r], local[r])
  BY <1>1, Updates
<1>3. pc'[r] = "change"
  BY <1>1, GotoFacts
<1>. QED
  BY <1>2, <1>3 DEF GoesOnWith

\* End does not.
LEMMA EndGoesOn ==
    ASSUME LocalsOK, NEW r \in Reports, NEW step \in {"done", "error"}, End(r, step)
    PROVE  GoesOnWith(r) /\ pc'[r] = step
<1>1. Goto(r, step)
  BY DEF End
<1>2. pc'[r] = step
  BY <1>1, GotoFacts
<1>. QED
  BY <1>2 DEF GoesOnWith

\* Every step past the reset goes on.
LEMMA WorkingGoesOn ==
    ASSUME LocalsOK, NEW r \in Reports,
           \/ ReadEvent(r) \/ SwapPrices(r) \/ NoSwapPrices(r)
           \/ EndEvent(r) \/ EndReport(r) \/ ZeroChange(r) \/ AddInEventOf(r) \/ Obtain(r)
           \/ AddOutEvent(r) \/ PriceFound(r) \/ SpendUncounted(r) \/ SpendAsset(r)
           \/ SkipEvent(r) \/ SkipForNoPrice(r)
    PROVE  GoesOnWith(r)
<1>1. CASE EndReport(r)
  BY <1>1, EndGoesOn DEF EndReport
<1>2. CASE ZeroChange(r) \/ Obtain(r) \/ SpendUncounted(r)
  BY <1>2, EndChangeGoesOn DEF ZeroChange, Obtain, SpendUncounted
<1>3. CASE SpendAsset(r)
  <2>1. EndChange(r) \/ End(r, "error")
    BY <1>3 DEF SpendAsset, StopOnError
  <2>. QED
    BY <2>1, EndChangeGoesOn, EndGoesOn
<1>4. CASE PriceFound(r) \/ AddOutEvent(r)
  <2>1. End(r, "error") \/ local' = local
    BY <1>4 DEF PriceFound, AddOutEvent, StopOnError
  <2>2. Carries(local[r], local[r])
    BY Updates
  <2>. QED
    BY <2>1, <2>2, EndGoesOn DEF GoesOnWith
<1>5. CASE AddInEventOf(r)
  <2>1. EndChange(r) \/ \E rate : local' = [local EXCEPT ![r].rate = rate]
    BY <1>5 DEF AddInEventOf
  <2>2. CASE \E rate : local' = [local EXCEPT ![r].rate = rate]
    <3>1. PICK rate : local' = [local EXCEPT ![r].rate = rate]
      BY <2>2
    <3>. DEFINE m == [local EXCEPT ![r].rate = rate]
    <3>2. Carries(m[r], local[r]) /\ m[r].ops = local[r].ops
      BY Updates
    <3>3. local' = m
      BY <3>1
    <3>. HIDE DEF m
    <3>. QED
      BY <3>2, <3>3 DEF GoesOnWith
  <2>. QED
    BY <2>1, <2>2, EndChangeGoesOn
<1>6. CASE ReadEvent(r)
  <2>1. PICK e \in Events :
          /\ local' = [local EXCEPT ![r].read = local[r].read + e.entries,
                                   ![r].entries = e.entries, ![r].ops = e.ops]
          /\ Goto(r, IF Len(e.ops) > 1 THEN "prices" ELSE "change")
    BY <1>6 DEF ReadEvent
  <2>2. e.entries \in Nat
    <3>1. e \in [entries : Nat \ {0}, ops : Seq(Changes)]
      BY ReportsAssumption
    <3>. QED
      BY <3>1
  <2>3. Carries(local'[r], local[r])
    BY <2>1, <2>2, Updates
  <2>4. pc'[r] \in {"prices", "change"}
    BY <2>1, GotoFacts
  <2>. QED
    BY <2>3, <2>4 DEF GoesOnWith
<1>7. CASE SwapPrices(r) \/ NoSwapPrices(r) \/ EndEvent(r) \/ SkipEvent(r) \/ SkipForNoPrice(r)
  <2>1. \E step \in {"next", "change"} : Goto(r, step)
    BY <1>7 DEF SwapPrices, NoSwapPrices, EndEvent, SkipEvent, SkipForNoPrice
  <2>2. pc'[r] \notin {"obtain", "price", "spend"}
    BY <2>1, GotoFacts
  <2>3. Carries(local'[r], local[r])
    <3>1. CASE SwapPrices(r)
      BY <3>1, Updates DEF SwapPrices
    <3>2. CASE NoSwapPrices(r)
      BY <3>2, Updates DEF NoSwapPrices
    <3>3. CASE EndEvent(r)
      BY <3>3, Updates DEF EndEvent
    <3>4. CASE SkipEvent(r)
      BY <3>4, Updates DEF SkipEvent
    <3>5. CASE SkipForNoPrice(r)
      BY <3>5, Updates DEF SkipForNoPrice
    <3>. QED
      BY <1>7, <3>1, <3>2, <3>3, <3>4, <3>5
  <2>. QED
    BY <2>2, <2>3 DEF GoesOnWith
<1>. QED
  BY <1>1, <1>2, <1>3, <1>4, <1>5, <1>6, <1>7

\* Where the pools of ETH and of ETC are before the fork: at an obtain the ETC of
\* the change are in already, at a price query or a spend they are out already.
ForkOK(step, l, g) ==
    Time(l) < ForkTime /\ ~g.apart =>
        /\ step \in {"next", "prices", "change"} => g.balance["ETC"] = g.balance["ETH"]
        /\ step = "obtain" => /\ Head(l.ops).asset = "ETH"
                              /\ g.balance["ETC"] = g.balance["ETH"] + Head(l.ops).amount
        /\ step \in {"price", "spend"} =>
              g.balance["ETC"] = IF Head(l.ops).asset = "ETH"
                                 THEN Minus(g.balance["ETH"], Head(l.ops).amount)
                                 ELSE g.balance["ETH"]

\* One report runs, the pot has its settings, and ETC follows ETH.
Alone ==
    /\ \A q, r \in Reports : Running(q) /\ Running(r) => q = r
    /\ \A r \in Reports : pc[r] \in Working =>
          pot.settings = local[r].settings /\ ForkOK(pc[r], local[r], ghost)

\* A step of the one that runs.
LEMMA AloneStep ==
    ASSUME LocalsOK, Alone, NEW r \in Reports, Running(r), NEW step, Goto(r, step),
           step \in Working =>
               pot'.settings = local'[r].settings /\ ForkOK(step, local'[r], ghost')
    PROVE  Alone'
<1>1. pc'[r] = step /\ \A q \in Reports \ {r} : pc'[q] = pc[q]
  BY GotoFacts
<1>2. ASSUME NEW q \in Reports, pc'[q] \notin {"new", "done", "error"} PROVE q = r
  BY <1>1, <1>2 DEF Alone, Running
<1>3. Working \cap {"new", "done", "error"} = {}
  BY SMT DEF Working
<1>4. \A q \in Reports : pc'[q] \in Working => q = r
  BY <1>2, <1>3
<1>5. \A p, q \in Reports : Running(p)' /\ Running(q)' => p = q
  BY <1>2 DEF Running
<1>. QED
  BY <1>1, <1>4, <1>5 DEF Alone

\* An earlier time was before the fork too.
LEMMA EarlierToo ==
    ASSUME NEW l \in Local, NEW m \in Local, Carries(m, l), Time(m) < ForkTime
    PROVE  Time(l) < ForkTime
<1>1. Time(l) \in Nat /\ Time(m) \in Nat /\ Time(l) <= Time(m)
  BY TimeFacts DEF Carries
<1>2. ForkTime \in Nat
  BY ReportsAssumption
<1>. QED
  BY SMT, <1>1, <1>2

\* A step after which ETC follows ETH again.
LEMMA EvenStep ==
    ASSUME LocalsOK, LocalsOK', Alone, NEW r \in Reports, pc[r] \in Working, GoesOnWith(r),
           NEW step \in {"next", "prices", "change"}, Goto(r, step), pot'.settings = pot.settings,
           \/ ghost'.apart
           \/ Time(local[r]) < ForkTime => ghost'.balance["ETC"] = ghost'.balance["ETH"]
    PROVE  Alone'
<1>1. Running(r)
  BY DEF Running, Working
<1>2. pc'[r] = step
  BY GotoFacts
<1>3. Carries(local'[r], local[r])
  BY <1>2 DEF GoesOnWith
<1>4. local[r] \in Local /\ local'[r] \in Local
  BY DEF LocalsOK
<1>5. pot'.settings = local'[r].settings
  BY <1>3 DEF Carries, Alone
<1>6. Time(local'[r]) < ForkTime => Time(local[r]) < ForkTime
  BY <1>3, <1>4, EarlierToo
<1>7. step # "obtain" /\ step \notin {"price", "spend"}
  BY SMT
<1>8. ForkOK(step, local'[r], ghost')
  BY <1>6, <1>7 DEF ForkOK
<1>. QED
  BY <1>1, <1>5, <1>8, AloneStep

\* A step into the middle of a change.
LEMMA OddStep ==
    ASSUME LocalsOK, LocalsOK', Alone, NEW r \in Reports, pc[r] \in Working, GoesOnWith(r),
           NEW step \in {"obtain", "price", "spend"}, Goto(r, step), pot'.settings = pot.settings,
           Time(local[r]) < ForkTime /\ ~ghost'.apart =>
               /\ step = "obtain" => /\ Op(r).asset = "ETH"
                                     /\ ghost'.balance["ETC"] = ghost'.balance["ETH"] + Op(r).amount
               /\ step # "obtain" =>
                     ghost'.balance["ETC"] = IF Op(r).asset = "ETH"
                                             THEN Minus(ghost'.balance["ETH"], Op(r).amount)
                                             ELSE ghost'.balance["ETH"]
    PROVE  Alone'
<1>1. Running(r)
  BY DEF Running, Working
<1>2. pc'[r] = step
  BY GotoFacts
<1>3. Carries(local'[r], local[r]) /\ Head(local'[r].ops) = Op(r)
  BY <1>2 DEF GoesOnWith, Op
<1>4. local[r] \in Local /\ local'[r] \in Local
  BY DEF LocalsOK
<1>5. pot'.settings = local'[r].settings
  BY <1>3 DEF Carries, Alone
<1>6. Time(local'[r]) < ForkTime => Time(local[r]) < ForkTime
  BY <1>3, <1>4, EarlierToo
<1>7. step \notin {"next", "prices", "change"} /\ (step \in {"price", "spend"} => step # "obtain")
  BY SMT
<1>8. ForkOK(step, local'[r], ghost')
  BY <1>3, <1>6, <1>7 DEF ForkOK
<1>. QED
  BY <1>1, <1>5, <1>8, AloneStep

\* What a step does to the balance of one pool.
Moves(h, g, b, balance) ==
    /\ h.balance[b] = balance /\ h.apart = g.apart
    /\ \A a \in Pools \ {b} : h.balance[a] = g.balance[a]

\* The balances after an acquisition and after a spend.
LEMMA BalanceFacts ==
    ASSUME NEW g \in Ghost, NEW asset \in Pools \cup {"WETH"}, NEW amount \in Nat,
           NEW reports \in BOOLEAN
    PROVE  /\ Pool(asset) \in Pools /\ g.balance[Pool(asset)] \in Nat
           /\ Acquired(g, asset, amount) \in Ghost /\ Spent(g, asset, amount, reports) \in Ghost
           /\ Moves(Acquired(g, asset, amount), g, Pool(asset), g.balance[Pool(asset)] + amount)
           /\ Moves(Spent(g, asset, amount, reports), g, Pool(asset),
                    Minus(g.balance[Pool(asset)], amount))
<1>. DEFINE b == Pool(asset)
<1>1. b \in Pools
  BY PoolType
<1>2. b = Pool(asset)
  OBVIOUS
<1>. HIDE DEF b
<1>3. Noted(Acquired(g, asset, amount), g, b, g.balance[b] + amount, g.acquired[b] + amount,
            g.short[b], g.large \/ g.acquired[b] + amount >= Limit)
  BY <1>1, <1>2, AcquiredNoted
<1>4. Noted(Spent(g, asset, amount, reports), g, b, Minus(g.balance[b], amount), g.acquired[b],
            IF reports THEN g.short[b] + Minus(amount, g.balance[b]) ELSE g.short[b],
            g.large \/ amount >= Limit)
  BY <1>1, <1>2, SpentNoted
<1>5. g.balance[b] \in Nat
  BY <1>1, GhostFields
<1>. QED
  BY <1>1, <1>2, <1>3, <1>4, <1>5 DEF Noted, Moves

\* ReducedGhost is such a spend.
LEMMA ReducedMoves ==
    ASSUME NEW g \in Ghost, NEW asset \in Pools \cup {"WETH"}, NEW amount \in Nat
    PROVE  /\ ReducedGhost(g, asset, amount) \in Ghost
           /\ Moves(ReducedGhost(g, asset, amount), g, Pool(asset),
                    Minus(g.balance[Pool(asset)], amount))
<1>. DEFINE reports == asset \notin Fiat /\ g.balance[Pool(asset)] > 0
<1>1. reports \in BOOLEAN
  BY SMT
<1>2. ReducedGhost(g, asset, amount) = Spent(g, asset, amount, reports)
  BY DEF ReducedGhost
<1>. HIDE DEF reports
<1>. QED
  BY <1>1, <1>2, BalanceFacts

\* The forked assets.
LEMMA ForkPools ==
    /\ "ETH" \in Pools /\ "ETC" \in Pools /\ "ETH" # "ETC"
    /\ Pool("ETH") = "ETH" /\ Pool("ETC") = "ETC"
    /\ \A asset \in Pools \cup {"WETH"} :
          asset \notin {"ETH", "WETH", "ETC"} => Pool(asset) \notin {"ETH", "ETC"}
  BY SMT DEF Pools, Pool

\* Equal pools at a point between two changes.
LEMMA EvenBefore ==
    ASSUME Alone, NEW r \in Reports, pc[r] \in {"next", "prices", "change"}
    PROVE  /\ pc[r] \in Working
           /\ Time(local[r]) < ForkTime /\ ~ghost.apart => ghost.balance["ETC"] = ghost.balance["ETH"]
<1>1. pc[r] \in Working
  BY DEF Working
<1>. QED
  BY <1>1 DEF Alone, ForkOK

\* The steps that leave the pot alone.
LEMMA AloneQuiet ==
    ASSUME Inv, LocalsOK', Alone, NEW r \in Reports,
           \/ ReadEvent(r) \/ SwapPrices(r) \/ NoSwapPrices(r) \/ EndEvent(r) \/ EndReport(r)
           \/ ZeroChange(r) \/ PriceFound(r) \/ SpendUncounted(r) \/ SkipEvent(r)
           \/ SkipForNoPrice(r) \/ CancelReport(r)
    PROVE  Alone'
<1>1. LocalsOK /\ PotInv /\ ghost \in Ghost
  BY DEF Inv, PotInv, Agree
<1>2. pot' = pot
  BY <1>1, QuietActions
<1>3. CASE EndReport(r) \/ CancelReport(r)
  <2>1. Goto(r, "done") /\ Running(r)
    BY <1>3 DEF EndReport, CancelReport, End, Running
  <2>2. "done" \notin Working
    BY DEF Working
  <2>. QED
    BY <2>1, <2>2, <1>1, AloneStep
<1>4. CASE ~(EndReport(r) \/ CancelReport(r))
  <2>1. pc[r] \in Working /\ GoesOnWith(r)
    BY <1>1, <1>4, WorkingMoves, WorkingGoesOn
  <2>2. CASE ReadEvent(r) \/ SwapPrices(r) \/ NoSwapPrices(r) \/ EndEvent(r) \/ ZeroChange(r)
    <3>1. /\ pc[r] \in {"next", "prices", "change"} /\ ghost' = ghost
          /\ \E step \in {"next", "prices", "change"} : Goto(r, step)
      BY <2>2 DEF ReadEvent, SwapPrices, NoSwapPrices, EndEvent, ZeroChange, EndChange
    <3>2. ghost'.apart \/ (Time(local[r]) < ForkTime => ghost'.balance["ETC"] = ghost'.balance["ETH"])
      BY <3>1, EvenBefore
    <3>. QED
      BY <3>1, <3>2, <2>1, <1>1, <1>2, EvenStep
  <2>3. CASE SpendUncounted(r) \/ SkipEvent(r)
    <3>1. /\ ghost' = [ghost EXCEPT !.apart = TRUE] /\ TRUE \in BOOLEAN
          /\ \E step \in {"next", "prices", "change"} : Goto(r, step)
      BY <2>3 DEF SpendUncounted, SkipEvent, EndChange
    <3>2. ghost'.apart
      BY <3>1, <1>1, ApartFacts
    <3>. QED
      BY <3>1, <3>2, <2>1, <1>1, <1>2, EvenStep
  <2>4. CASE SkipForNoPrice(r)
    <3>. DEFINE x == ghost.apart \/ pc[r] = "price"
    <3>1. /\ ghost' = [ghost EXCEPT !.apart = x] /\ Goto(r, "next")
          /\ pc[r] \in {"prices", "price", "change"}
      BY <2>4 DEF SkipForNoPrice, AtChange
    <3>2. ghost'.apart = x /\ ghost'.balance = ghost.balance
      BY <3>1, <1>1, ApartType, ApartFacts DEF SameAccount
    <3>3. ghost'.apart \/ (Time(local[r]) < ForkTime => ghost'.balance["ETC"] = ghost'.balance["ETH"])
      BY <3>1, <3>2, EvenBefore
    <3>. QED
      BY <3>1, <3>3, <2>1, <1>1, <1>2, EvenStep
  <2>5. CASE PriceFound(r)
    <3>1. pc[r] = "price" /\ Goto(r, "spend") /\ ghost' = ghost
      BY <2>5 DEF PriceFound
    <3>2. Time(local[r]) < ForkTime /\ ~ghost.apart =>
              ghost.balance["ETC"] = IF Op(r).asset = "ETH"
                                     THEN Minus(ghost.balance["ETH"], Op(r).amount)
                                     ELSE ghost.balance["ETH"]
      BY <3>1, <2>1 DEF Alone, ForkOK, Op
    <3>3. "spend" \in {"obtain", "price", "spend"} /\ "spend" # "obtain"
      BY SMT
    <3>. QED
      BY <3>1, <3>2, <3>3, <2>1, <1>1, <1>2, OddStep
  <2>. QED
    BY <1>4, <2>2, <2>3, <2>4, <2>5
<1>. QED
  BY <1>3, <1>4

\* The steps before the first event of a report.
LEMMA AloneBegins ==
    ASSUME ~Overlap, Inv, LocalsOK', Alone, NEW r \in Reports, StartReport(r) \/ ResetPot(r)
    PROVE  Alone'
<1>1. LocalsOK
  BY DEF Inv
<1>2. CASE StartReport(r)
  <2>1. Goto(r, "reset") /\ \A q \in Reports : ~Running(q)
    BY <1>2 DEF StartReport
  <2>2. pc'[r] = "reset" /\ \A q \in Reports \ {r} : pc'[q] = pc[q]
    BY <2>1, <1>1, GotoFacts
  <2>3. \A q \in Reports \ {r} : pc'[q] \in {"new", "done", "error"}
    BY <2>1, <2>2 DEF Running
  <2>4. Working \cap {"new", "done", "error", "reset"} = {}
    BY SMT DEF Working
  <2>5. \A q \in Reports : pc'[q] \notin Working
    BY <2>2, <2>3, <2>4
  <2>6. \A p, q \in Reports : Running(p)' /\ Running(q)' => p = q
    BY <2>3 DEF Running
  <2>. QED
    BY <2>5, <2>6 DEF Alone
<1>3. CASE ResetPot(r)
  <2>1. /\ pot' = FreshPot(local[r].settings, r) /\ ghost' = Fresh /\ Goto(r, "next")
        /\ local' = local /\ Running(r)
    BY <1>3 DEF ResetPot, Running
  <2>2. pot'.settings = local'[r].settings
    BY SMT, <2>1 DEF FreshPot
  <2>3. ghost'.balance["ETC"] = ghost'.balance["ETH"]
    BY SMT, <2>1 DEF Fresh, Pools
  <2>4. "next" # "obtain" /\ "next" \notin {"price", "spend"}
    BY SMT
  <2>5. ForkOK("next", local'[r], ghost')
    BY <2>3, <2>4 DEF ForkOK
  <2>. QED
    BY <2>1, <2>2, <2>5, <1>1, AloneStep
<1>. QED
  BY <1>2, <1>3

\* add_in_event: ETC first, then as much ETH.
LEMMA AloneIn ==
    ASSUME Inductive, Inv, LocalsOK', Alone, NEW r \in Reports, AddInEventOf(r)
    PROVE  Alone'
<1>. DEFINE op == Op(r)
            forked == Forked(op.asset, Time(local[r]))
            asset == IF forked THEN "ETC" ELSE op.asset
            h == Acquired(ghost, asset, op.amount)
            x == h.apart \/ op.asset \in {"WETH", "ETC"}
<1>1. LocalsOK /\ PotInv /\ ghost \in Ghost
  BY DEF Inv, PotInv, Agree
<1>2. pc[r] = "change" /\ local[r].ops # <<>> /\ op.amount > 0
  BY DEF AddInEventOf, AtChange
<1>3. op.asset \in Pools \cup {"WETH"} /\ op.amount \in Nat
  BY <1>1, <1>2, OpFacts
<1>4. pc[r] \in Working /\ GoesOnWith(r)
  BY <1>1, WorkingMoves, WorkingGoesOn
<1>5. pot'.settings = pot.settings
  BY <1>1, InSteps DEF PotStep
<1>6. ghost' = [h EXCEPT !.apart = x] /\ (IF forked THEN Goto(r, "obtain") ELSE Goto(r, "change"))
  BY DEF AddInEventOf, EndChange
<1>7. asset \in Pools \cup {"WETH"}
  BY <1>3, ForkPools
<1>. HIDE DEF op, asset, forked
<1>8. /\ h \in Ghost /\ Pool(asset) \in Pools /\ ghost.balance[Pool(asset)] \in Nat
      /\ Moves(h, ghost, Pool(asset), ghost.balance[Pool(asset)] + op.amount)
  <2>1. TRUE \in BOOLEAN
    BY SMT
  <2>. QED
    BY <2>1, <1>1, <1>3, <1>7, BalanceFacts
<1>. HIDE DEF h
<1>9. x \in BOOLEAN
  BY SMT
<1>10. ghost'.apart = x /\ ghost'.balance = h.balance
  <2>. HIDE DEF x
  <2>. QED
    BY <1>6, <1>8, <1>9, ApartFacts DEF SameAccount
<1>11. Time(local[r]) < ForkTime /\ ~ghost.apart => ghost.balance["ETC"] = ghost.balance["ETH"]
  BY <1>2, EvenBefore
<1>12. h.apart = ghost.apart
  BY <1>8 DEF Moves
<1>13. CASE forked
  <2>1. op.asset = "ETH" /\ asset = "ETC" /\ Time(local[r]) < ForkTime
    BY <1>13 DEF forked, asset, Forked
  <2>2. h.balance["ETC"] = ghost.balance["ETC"] + op.amount /\ h.balance["ETH"] = ghost.balance["ETH"]
    BY <2>1, <1>8, ForkPools DEF Moves
  <2>3. Goto(r, "obtain") /\ "obtain" \in {"obtain", "price", "spend"}
    BY <1>6, <1>13
  <2>4. ~ghost'.apart => ghost'.balance["ETC"] = ghost'.balance["ETH"] + op.amount
    BY <2>1, <2>2, <1>10, <1>11, <1>12
  <2>. QED
    BY <2>1, <2>3, <2>4, <1>1, <1>4, <1>5, OddStep DEF op
<1>14. CASE ~forked
  <2>1. Goto(r, "change") /\ "change" \in {"next", "prices", "change"} /\ asset = op.asset
    BY <1>6, <1>14 DEF asset
  <2>2. CASE op.asset \in {"WETH", "ETC"} \/ ghost.apart
    <3>1. ghost'.apart
      BY <2>2, <1>10, <1>12
    <3>. QED
      BY <3>1, <2>1, <1>1, <1>4, <1>5, EvenStep
  <2>3. CASE Time(local[r]) < ForkTime /\ ~ghost.apart /\ op.asset \notin {"WETH", "ETC"}
    <3>1. op.asset # "ETH"
      BY <2>3, <1>14 DEF forked, Forked
    <3>2. Pool(asset) \notin {"ETH", "ETC"}
      BY <3>1, <2>1, <2>3, <1>3, ForkPools
    <3>3. h.balance["ETC"] = ghost.balance["ETC"] /\ h.balance["ETH"] = ghost.balance["ETH"]
      BY <3>2, <1>8, ForkPools DEF Moves
    <3>4. ghost'.balance["ETC"] = ghost'.balance["ETH"]
      BY <3>3, <2>3, <1>10, <1>11
    <3>. QED
      BY <3>4, <2>1, <1>1, <1>4, <1>5, EvenStep
  <2>4. CASE ~(Time(local[r]) < ForkTime)
    BY <2>1, <2>4, <1>1, <1>4, <1>5, EvenStep
  <2>. QED
    BY <2>2, <2>3, <2>4
<1>. QED
  BY <1>13, <1>14

\* The rest of add_in_event.
LEMMA AloneObtain ==
    ASSUME Inductive, Inv, LocalsOK', Alone, NEW r \in Reports, Obtain(r)
    PROVE  Alone'
<1>. DEFINE op == Op(r)
            h == Acquired(ghost, op.asset, op.amount)
<1>1. LocalsOK /\ PotInv /\ ghost \in Ghost
  BY DEF Inv, PotInv, Agree
<1>2. pc[r] = "obtain" /\ ghost' = h /\ Goto(r, "change")
  BY DEF Obtain, EndChange
<1>3. op.asset \in Pools \cup {"WETH"} /\ op.amount \in Nat
  BY <1>1, <1>2, InChange, OpFacts
<1>4. pc[r] \in Working /\ GoesOnWith(r)
  BY <1>1, WorkingMoves, WorkingGoesOn
<1>5. pot'.settings = pot.settings
  BY <1>1, InSteps DEF PotStep
<1>6. Time(local[r]) < ForkTime /\ ~ghost.apart =>
          op.asset = "ETH" /\ ghost.balance["ETC"] = ghost.balance["ETH"] + op.amount
  BY <1>2, <1>4 DEF Alone, ForkOK, Op
<1>. HIDE DEF op
<1>7. Moves(h, ghost, Pool(op.asset), ghost.balance[Pool(op.asset)] + op.amount)
  <2>1. TRUE \in BOOLEAN
    BY SMT
  <2>. QED
    BY <2>1, <1>1, <1>3, BalanceFacts
<1>8. ghost'.apart = ghost.apart
  BY <1>2, <1>7 DEF Moves
<1>9. ASSUME Time(local[r]) < ForkTime, ~ghost.apart
      PROVE  ghost'.balance["ETC"] = ghost'.balance["ETH"]
  <2>1. op.asset = "ETH" /\ ghost.balance["ETC"] = ghost.balance["ETH"] + op.amount
    BY <1>6, <1>9
  <2>2. h.balance["ETH"] = ghost.balance["ETH"] + op.amount /\ h.balance["ETC"] = ghost.balance["ETC"]
    BY <2>1, <1>7, ForkPools DEF Moves
  <2>. QED
    BY <2>1, <2>2, <1>2
<1>10. ghost'.apart \/ (Time(local[r]) < ForkTime => ghost'.balance["ETC"] = ghost'.balance["ETH"])
  BY <1>8, <1>9
<1>11. "change" \in {"next", "prices", "change"}
  BY SMT
<1>. QED
  BY <1>1, <1>2, <1>4, <1>5, <1>10, <1>11, EvenStep

\* An error ends the one that runs.
LEMMA AloneStops ==
    ASSUME LocalsOK, Alone, NEW r \in Reports, pc[r] \in Working, NEW p, StopOnError(r, p)
    PROVE  Alone'
<1>1. Goto(r, "error")
  BY DEF StopOnError, End
<1>2. "error" \notin Working /\ Running(r)
  BY DEF Working, Running
<1>. QED
  BY <1>1, <1>2, AloneStep

\* handle_prefork_asset_spends takes as much ETC as the spend will take ETH.
LEMMA AloneOut ==
    ASSUME Inductive, Inv, LocalsOK', Alone, NEW r \in Reports, AddOutEvent(r)
    PROVE  Alone'
<1>. DEFINE op == Op(r)
            forked == Forked(op.asset, Time(local[r]))
            h == ReducedGhost(ghost, "ETC", op.amount)
<1>1. LocalsOK /\ PotInv /\ ghost \in Ghost
  BY DEF Inv, PotInv, Agree
<1>2. pc[r] = "change" /\ local[r].ops # <<>> /\ op.amount > 0
  BY DEF AddOutEvent, AtChange
<1>3. op.asset \in Pools \cup {"WETH"} /\ op.amount \in Nat
  BY <1>1, <1>2, OpFacts
<1>4. pc[r] \in Working /\ GoesOnWith(r)
  BY <1>1, WorkingMoves, WorkingGoesOn
<1>5. pot'.settings = pot.settings
  BY <1>1, OutStep DEF PotStep
<1>6. Time(local[r]) < ForkTime /\ ~ghost.apart => ghost.balance["ETC"] = ghost.balance["ETH"]
  BY <1>2, EvenBefore
<1>7. \/ \E p : StopOnError(r, p)
      \/ /\ \E step \in {"price", "spend"} : Goto(r, step)
         /\ ghost' = IF forked THEN h ELSE ghost
  BY DEF AddOutEvent
<1>8. CASE \E p : StopOnError(r, p)
  BY <1>1, <1>4, <1>8, AloneStops
<1>9. CASE /\ \E step \in {"price", "spend"} : Goto(r, step)
           /\ ghost' = IF forked THEN h ELSE ghost
  <2>. HIDE DEF op, forked
  <2>1. Moves(h, ghost, "ETC", Minus(ghost.balance["ETC"], op.amount))
    <3>1. "ETC" \in Pools \cup {"WETH"} /\ Pool("ETC") = "ETC"
      BY ForkPools
    <3>. QED
      BY <3>1, <1>1, <1>3, ReducedMoves
  <2>2. PICK step \in {"price", "spend"} : Goto(r, step)
    BY <1>9
  <2>3. step \in {"obtain", "price", "spend"} /\ step # "obtain"
    BY <2>2
  <2>4. ASSUME Time(local[r]) < ForkTime, ~ghost'.apart
        PROVE  ghost'.balance["ETC"] = IF op.asset = "ETH"
                                       THEN Minus(ghost'.balance["ETH"], op.amount)
                                       ELSE ghost'.balance["ETH"]
    <3>1. CASE forked
      <4>1. op.asset = "ETH" /\ ghost' = h
        BY <3>1, <1>9 DEF forked, Forked
      <4>2. ~ghost.apart
        BY <4>1, <2>1, <2>4 DEF Moves
      <4>3. h.balance["ETH"] = ghost.balance["ETH"]
            /\ h.balance["ETC"] = Minus(ghost.balance["ETC"], op.amount)
        BY <2>1, ForkPools DEF Moves
      <4>4. h.balance["ETC"] = Minus(h.balance["ETH"], op.amount)
        BY <4>2, <4>3, <2>4, <1>6
      <4>. QED
        BY <4>1, <4>4
    <3>2. CASE ~forked
      <4>1. ghost' = ghost /\ op.asset # "ETH"
        BY <3>2, <1>9, <2>4 DEF forked, Forked
      <4>. QED
        BY <4>1, <2>4, <1>6
    <3>. QED
      BY <3>1, <3>2
  <2>. QED
    BY <2>2, <2>3, <2>4, <1>1, <1>4, <1>5, OddStep DEF op
<1>. QED
  BY <1>7, <1>8, <1>9

\* The rest of add_out_event.
LEMMA AloneSpend ==
    ASSUME Inductive, Inv, LocalsOK', Alone, NEW r \in Reports, SpendAsset(r)
    PROVE  Alone'
<1>. DEFINE op == Op(r)
            taxable == op.taxable /\ op.asset \notin Fiat
            h == IF taxable THEN Spent(ghost, op.asset, op.amount, TRUE)
                 ELSE ReducedGhost(ghost, op.asset, op.amount)
            x == h.apart \/ op.asset \in {"WETH", "ETC"}
<1>1. LocalsOK /\ PotInv /\ ghost \in Ghost
  BY DEF Inv, PotInv, Agree
<1>2. pc[r] = "spend"
  BY DEF SpendAsset
<1>3. op.asset \in Pools \cup {"WETH"} /\ op.amount \in Nat
  BY <1>1, <1>2, InChange, OpFacts
<1>4. pc[r] \in Working /\ GoesOnWith(r)
  BY <1>1, WorkingMoves, WorkingGoesOn
<1>5. pot'.settings = pot.settings
  BY <1>1, SpendStep DEF PotStep
<1>6. Time(local[r]) < ForkTime /\ ~ghost.apart =>
          ghost.balance["ETC"] = IF op.asset = "ETH"
                                 THEN Minus(ghost.balance["ETH"], op.amount)
                                 ELSE ghost.balance["ETH"]
  BY <1>2, <1>4 DEF Alone, ForkOK, Op
<1>7. \/ \E p : StopOnError(r, p)
      \/ ghost' = [h EXCEPT !.apart = x] /\ Goto(r, "change")
  BY DEF SpendAsset, EndChange
<1>8. CASE \E p : StopOnError(r, p)
  BY <1>1, <1>4, <1>8, AloneStops
<1>9. CASE ghost' = [h EXCEPT !.apart = x] /\ Goto(r, "change")
  <2>. HIDE DEF op, taxable
  <2>1. h \in Ghost /\ Moves(h, ghost, Pool(op.asset), Minus(ghost.balance[Pool(op.asset)], op.amount))
    <3>1. TRUE \in BOOLEAN
      BY SMT
    <3>2. CASE taxable
      BY <3>1, <3>2, <1>1, <1>3, BalanceFacts
    <3>3. CASE ~taxable
      BY <3>3, <1>1, <1>3, ReducedMoves
    <3>. QED
      BY <3>2, <3>3
  <2>. HIDE DEF h
  <2>2. x \in BOOLEAN
    BY SMT
  <2>3. ghost'.apart = x /\ ghost'.balance = h.balance /\ h.apart = ghost.apart
    <3>. HIDE DEF x
    <3>. QED
      BY <1>9, <2>1, <2>2, ApartFacts DEF SameAccount, Moves
  <2>4. ASSUME Time(local[r]) < ForkTime, ~ghost'.apart
        PROVE  ghost'.balance["ETC"] = ghost'.balance["ETH"]
    <3>1. ~ghost.apart /\ op.asset \notin {"WETH", "ETC"}
      BY <2>3, <2>4
    <3>2. CASE op.asset = "ETH"
      <4>1. /\ h.balance["ETH"] = Minus(ghost.balance["ETH"], op.amount)
            /\ h.balance["ETC"] = ghost.balance["ETC"]
        BY <3>2, <2>1, ForkPools DEF Moves
      <4>. QED
        BY <4>1, <3>1, <3>2, <2>3, <2>4, <1>6
    <3>3. CASE op.asset # "ETH"
      <4>1. Pool(op.asset) \notin {"ETH", "ETC"}
        BY <3>1, <3>3, <1>3, ForkPools
      <4>2. h.balance["ETH"] = ghost.balance["ETH"] /\ h.balance["ETC"] = ghost.balance["ETC"]
        BY <4>1, <2>1, ForkPools DEF Moves
      <4>. QED
        BY <4>2, <3>1, <3>3, <2>3, <2>4, <1>6
    <3>. QED
      BY <3>2, <3>3
  <2>5. ghost'.apart \/ (Time(local[r]) < ForkTime => ghost'.balance["ETC"] = ghost'.balance["ETH"])
    BY <2>4
  <2>6. "change" \in {"next", "prices", "change"}
    BY SMT
  <2>. QED
    BY <1>9, <2>5, <2>6, <1>1, <1>4, <1>5, EvenStep
<1>. QED
  BY <1>7, <1>8, <1>9

-----------------------------------------------------------------------------
\* What holds of every behaviour

INSTANCE WellFoundedInduction

\* The natural numbers are well founded, which is all that the lemmas above take
\* as a hypothesis.
LEMMA Induction == Inductive
<1>. SUFFICES ASSUME NEW S, 0 \in S, \A n \in Nat : n \in S => n + 1 \in S
              PROVE  Nat \subseteq S
  BY DEF Inductive
<1>. DEFINE T == Nat \ S
<1>. SUFFICES ASSUME T # {} PROVE FALSE
  OBVIOUS
<1>1. T \subseteq Nat
  OBVIOUS
<1>. HIDE DEF T
<1>2. PICK x \in T : \A y \in T : ~(<<y, x>> \in OpToRel(<, Nat))
  BY <1>1, NatLessThanWellFounded, WFMin
<1>. USE DEF T
<1>3. x # 0 /\ x \in Nat
  OBVIOUS
<1>4. x - 1 \in Nat /\ x - 1 < x /\ (x - 1) + 1 = x
  BY SMT, <1>3
<1>5. x - 1 \in S
  BY <1>2, <1>3, <1>4 DEF OpToRel
<1>. QED
  BY <1>4, <1>5

\* The invariant holds throughout.
LEMMA Invariance == Spec => []Inv
<1>1. Init => Inv
  BY InitInv, Induction
<1>2. Inv /\ [Next]_vars => Inv'
  BY InvKept, InvStutters, Induction
<1>. QED
  BY <1>1, <1>2, PTL DEF Spec

\* The variables stay in their types, and no acquisition is in a heap twice or
\* stays in it when it is used up, whatever the reports, their events and how
\* they interleave (process_history, AccountingPot, CostBasisCalculator).
THEOREM TypeCorrect == Spec => []TypeOK
<1>1. ASSUME Inv PROVE TypeOK
  <2>1. \A r \in Reports : /\ local[r].settings \in Settings /\ local[r].read \in Nat
                           /\ MaxEvents[r] \in Nat /\ local[r].read <= MaxEvents[r]
                           /\ pc[r] \in {"obtain", "price", "spend"} => local[r].ops # <<>>
    BY <1>1, LocalFields, ReportsFacts DEF Inv, LocalsOK, LocalOK
  <2>2. \A r \in Reports : local[r].read \in 0 .. MaxEvents[r]
    BY SMT, <2>1
  <2>3. PotOK(pot) /\ pot.settings \in Settings /\ pot.report \in Reports
    BY <1>1 DEF Inv, PotInv, PotOK, Pot
  <2>4. ASSUME NEW a \in Pools
        PROVE  /\ pot.missing[a] \in Nat
               /\ \A i, j \in DOMAIN pot.managers[a].heap :
                     /\ pot.managers[a].heap[i].left \in Nat \ {0}
                     /\ pot.managers[a].heap[i].id = pot.managers[a].heap[j].id => i = j
    <3>. DEFINE heap == pot.managers[a].heap
    <3>1. pot.missing[a] \in Nat /\ Good(pot.managers[a], pot.settings.method)
      BY <2>3, PoolFacts
    <3>2. heap \in Seq(Acquisition) /\ Distinct(heap)
      BY <3>1 DEF Good, Manager
    <3>. HIDE DEF heap
    <3>3. DOMAIN heap = 1 .. Len(heap) /\ \A i \in DOMAIN heap : heap[i] \in Acquisition
      BY SMT, <3>2
    <3>4. \A i \in DOMAIN heap : heap[i].left \in Nat \ {0}
      BY <3>3 DEF Acquisition
    <3>5. \A i, j \in DOMAIN heap : heap[i].id = heap[j].id => i = j
      BY <3>2, <3>3 DEF Distinct
    <3>. QED
      BY <3>1, <3>4, <3>5 DEF heap
  <2>5. pc \in [Reports -> Steps]
    BY <1>1 DEF Inv, LocalsOK
  <2>. QED
    BY <2>1, <2>2, <2>3, <2>4, <2>5 DEF TypeOK
<1>2. Inv => TypeOK
  BY <1>1
<1>. QED
  BY <1>2, Invariance, PTL

\* As long as no amount needs more digits than an FVal keeps,
\* get_calculated_asset_amount is what came in minus what went out since the
\* report began, and missing_acquisitions what went out without having come in.
THEOREM AmountsAreBalances == Spec => []HeldIsBalance
<1>1. ASSUME Inv, ~ghost.large
      PROVE  /\ \A a \in Pools : CalculatedAmount(pot.managers[a]) = ghost.balance[a]
             /\ pot.missing = ghost.short
  <2>1. PotOK(pot) /\ ghost \in Ghost /\ \A a \in Pools : Balanced(pot, ghost, a)
    BY <1>1 DEF Inv, PotInv, Agree
  <2>2. ASSUME NEW a \in Pools PROVE CalculatedAmount(pot.managers[a]) = ghost.balance[a]
    <3>. DEFINE heap == pot.managers[a].heap
                terms == [i \in DOMAIN heap |-> heap[i].left]
    <3>1. Total(terms) = ghost.balance[a] /\ ghost.balance[a] <= ghost.acquired[a]
          /\ ghost.acquired[a] < Limit
      BY <2>1 DEF Balanced, Holds, Lefts
    <3>2. ghost.balance[a] \in Nat /\ ghost.acquired[a] \in Nat /\ Limit \in Nat
      BY <2>1, GhostFields, DigitsAssumption
    <3>3. terms \in Seq(Nat)
      <4>1. heap \in Seq(Acquisition)
        BY <2>1, PoolFacts DEF Manager
      <4>. QED
        BY <4>1, LeftsFacts, Induction DEF LeftList
    <3>4. CalculatedAmount(pot.managers[a]) = RoundedSum(terms)
      BY DEF CalculatedAmount
    <3>. HIDE DEF terms
    <3>5. Total(terms) < Limit
      BY SMT, <3>1, <3>2
    <3>. QED
      BY <3>1, <3>3, <3>4, <3>5, RoundedIsTotal, Induction
  <2>3. pot.missing = ghost.short
    <3>1. pot.missing \in [Pools -> Nat] /\ ghost.short \in [Pools -> Nat]
      BY <2>1 DEF PotOK, Pot, Ghost
    <3>2. \A a \in Pools : pot.missing[a] = ghost.short[a]
      BY <2>1 DEF Balanced
    <3>. QED
      BY SMT, <3>1, <3>2
  <2>. QED
    BY <2>2, <2>3
<1>2. Inv => HeldIsBalance
  BY <1>1 DEF HeldIsBalance
<1>. QED
  BY <1>2, Invariance, PTL

\* What calculate_spend_cost_basis answers adds up as long as no amount needs more
\* digits than an FVal keeps: matched and missing are the amount that was spent,
\* and it is taxable but for what was acquired longer ago than the period.
THEOREM SpendsAddUp == Spec => []SpendAddsUp
<1>1. Inv => SpendAddsUp
  BY DEF Inv, PotInv, SpentOK, SpendAddsUp, OldPart, Old
<1>. QED
  BY <1>1, Invariance, PTL

\* events[count] of _process_skipping_exception is an event that was read.
THEOREM SkippedEventsExist == Spec => []SkippedEventExists
<1>1. ASSUME Inv, NEW r \in Reports
      PROVE  local[r].count <= local[r].read /\ (pc[r] = "price" => local[r].count < local[r].read)
  <2>1. /\ local[r] \in Local /\ local[r].count <= local[r].read
        /\ pc[r] = "price" => local[r].entries >= 1 /\ local[r].count + local[r].entries <= local[r].read
    BY <1>1 DEF Inv, LocalsOK, LocalOK
  <2>2. local[r].count \in Nat /\ local[r].entries \in Nat /\ local[r].read \in Nat
    BY <2>1, LocalFields
  <2>. QED
    BY SMT, <2>1, <2>2
<1>2. Inv => SkippedEventExists
  BY <1>1 DEF SkippedEventExists
<1>. QED
  BY <1>2, Invariance, PTL

\* No step takes from an acquisition while one that the cost basis method puts
\* before it is left: first in, last in or highest rate first, whichever of
\* obtain, reduce and spend it is and however the reports interleave.
THEOREM AcquisitionsUsedInOrder == Spec => UsedInMethodOrder
<1>1. ASSUME PotOK(pot), PotOK(pot)', AllOrdered(pot, pot'), NEW a \in Pools
      PROVE  \A i, j \in DOMAIN pot.managers[a].heap :
                /\ Before(pot.settings.method, pot.managers[a].heap[j], pot.managers[a].heap[i])
                /\ ~\E k \in DOMAIN pot'.managers[a].heap :
                       pot'.managers[a].heap[k] = pot.managers[a].heap[i]
                => \A k \in DOMAIN pot'.managers[a].heap :
                       pot'.managers[a].heap[k].id # pot.managers[a].heap[j].id
  <2>. DEFINE old == pot.managers[a].heap
              new == pot'.managers[a].heap
  <2>1. old \in Seq(Acquisition) /\ new \in Seq(Acquisition)
    BY <1>1, PoolFacts DEF Manager
  <2>2. Ordered(old, new, pot.settings.method)
    BY <1>1 DEF AllOrdered
  <2>. HIDE DEF old, new
  <2>3. DOMAIN old = 1 .. Len(old) /\ DOMAIN new = 1 .. Len(new)
    BY SMT, <2>1
  <2>4. \A i, j \in DOMAIN old :
           /\ Before(pot.settings.method, old[j], old[i])
           /\ ~\E k \in DOMAIN new : new[k] = old[i]
           => \A k \in DOMAIN new : new[k].id # old[j].id
    BY <2>2, <2>3 DEF Ordered
  <2>. QED
    BY <2>4 DEF old, new
<1>2. ASSUME Inv, Next, pot'.report = pot.report
      PROVE  PotOK(pot) /\ PotOK(pot)' /\ AllOrdered(pot, pot')
  BY <1>2, InvKept, Induction DEF Inv, PotInv
<1>3. Inv /\ [Next]_vars =>
        [pot'.report = pot.report =>
           \A a \in Pools :
             LET old == pot.managers[a].heap
                 new == pot'.managers[a].heap
                 Untouched(x) == \E k \in DOMAIN new : new[k] = x
                 Gone(x) == \A k \in DOMAIN new : new[k].id # x.id
             IN \A i, j \in DOMAIN old :
                    Before(pot.settings.method, old[j], old[i]) /\ ~Untouched(old[i])
                        => Gone(old[j])]_vars
  BY <1>1, <1>2
<1>. QED
  BY <1>3, Invariance, PTL DEF Spec, UsedInMethodOrder

\* A report ends with the AccountingError of the average cost basis only after
\* amounts that need more digits than an FVal keeps.
THEOREM ErrorsNeedLostDigits == Spec => ErrorNeedsLostDigits
<1>1. Inv /\ [Next]_vars =>
        [\A r \in Reports : pc[r] # "error" /\ pc'[r] = "error" => ghost.large]_vars
  BY InvKept, Induction DEF ErrorStep
<1>. QED
  BY <1>1, Invariance, PTL DEF Spec, ErrorNeedsLostDigits

\* Reports that do not overlap stay alone.
LEMMA StaysAlone == Spec => [](~Overlap => Alone)
<1>1. ASSUME Init PROVE Alone
  <2>1. \A r \in Reports : pc[r] = "new"
    BY <1>1 DEF Init
  <2>2. "new" \notin Working
    BY DEF Working
  <2>. QED
    BY <2>1, <2>2 DEF Alone, Running
<1>2. ASSUME Inv, ~Overlap, Alone, Next PROVE Alone'
  <2>1. PICK r \in Reports :
          \/ StartReport(r) \/ ResetPot(r) \/ ReadEvent(r) \/ SwapPrices(r) \/ NoSwapPrices(r)
          \/ EndEvent(r) \/ EndReport(r) \/ ZeroChange(r) \/ AddInEventOf(r) \/ Obtain(r)
          \/ AddOutEvent(r) \/ PriceFound(r) \/ SpendUncounted(r) \/ SpendAsset(r)
          \/ SkipEvent(r) \/ SkipForNoPrice(r) \/ CancelReport(r)
    BY <1>2 DEF Next
  <2>2. LocalsOK'
    BY <1>2, InvKept, Induction DEF Inv
  <2>3. CASE StartReport(r) \/ ResetPot(r)
    BY <2>2, <2>3, <1>2, AloneBegins
  <2>4. CASE AddInEventOf(r) \/ Obtain(r) \/ AddOutEvent(r) \/ SpendAsset(r)
    BY <2>2, <2>4, <1>2, AloneIn, AloneObtain, AloneOut, AloneSpend, Induction
  <2>5. CASE \/ ReadEvent(r) \/ SwapPrices(r) \/ NoSwapPrices(r) \/ EndEvent(r) \/ EndReport(r)
             \/ ZeroChange(r) \/ PriceFound(r) \/ SpendUncounted(r) \/ SkipEvent(r)
             \/ SkipForNoPrice(r) \/ CancelReport(r)
    BY <2>2, <2>5, <1>2, AloneQuiet
  <2>. QED
    BY <2>1, <2>3, <2>4, <2>5
<1>3. ASSUME Alone, UNCHANGED vars PROVE Alone'
  BY <1>3 DEF vars, Alone, Running
<1>4. Init => (~Overlap => Alone)
  BY <1>1
<1>5. Inv /\ (~Overlap => Alone) /\ [Next]_vars => (~Overlap => Alone)'
  BY <1>2, <1>3
<1>. QED
  BY <1>4, <1>5, Invariance, PTL DEF Spec

\* When reports do not overlap, there is as much ETC as ETH before the fork after
\* every change (handle_prefork_asset_acquisitions, handle_prefork_asset_spends),
\* as long as no amount needs more digits than an FVal keeps.
THEOREM ForksFollow == Spec => [](~Overlap /\ ~ghost.large => ForkFollowsParent)
<1>1. ASSUME Inv, Alone, ~ghost.large PROVE ForkFollowsParent
  <2>1. /\ Lefts(pot.managers["ETC"].heap) = ghost.balance["ETC"]
        /\ Lefts(pot.managers["ETH"].heap) = ghost.balance["ETH"]
    BY <1>1, ForkPools DEF Inv, PotInv, Agree, Balanced, Holds
  <2>. QED
    BY <1>1, <2>1, EvenBefore DEF ForkFollowsParent
<1>2. Inv /\ (~Overlap => Alone) => (~Overlap /\ ~ghost.large => ForkFollowsParent)
  BY <1>1
<1>. QED
  BY <1>2, Invariance, StaysAlone, PTL
=============================================================================

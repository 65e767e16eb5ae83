------------------------- MODULE TokenLedgerProofs -------------------------
(***************************************************************************)
(* Executing a transaction instruction by instruction: what the first      *)
(* instruction finds is the account as it was, and what each later one     *)
(* finds is what its predecessor left.  Hence Found, Succeeds and Outcome, *)
(* which are not recursive, agree with StepByStep, which is.               *)
(***************************************************************************)
EXTENDS TokenLedger, WellFoundedInduction, TLAPS

LEMMA FoundFirst ==
  ASSUME NEW account, NEW instructions
  PROVE  Found(account, instructions, 1) = account
BY DEF Found

LEMMA FoundNext ==
  ASSUME NEW account, NEW instructions, NEW i \in Nat \ {0}
  PROVE  Found(account, instructions, i + 1)
           = After(instructions[i], Found(account, instructions, i))
<1> DEFINE Kept(fact, j, n) ==
             \A k \in j + 1 .. n - 1 : fact \notin instructions[k].drops
           Reaches(fact, n) ==
             \/ fact \in account /\ Kept(fact, 0, n)
             \/ \E j \in 1 .. n - 1 : fact \in instructions[j].adds /\ Kept(fact, j, n)
<1>1. ASSUME NEW fact, NEW n
      PROVE  fact \in Found(account, instructions, n) <=> Reaches(fact, n)
  BY <1>1 DEF Found
<1>2. ASSUME NEW fact, NEW j \in 0 .. i - 1
      PROVE  Kept(fact, j, i + 1) <=> Kept(fact, j, i) /\ fact \notin instructions[i].drops
  OBVIOUS
<1>3. ASSUME NEW fact
      PROVE  Kept(fact, i, i + 1)
  OBVIOUS
<1>4. ASSUME NEW fact
      PROVE  Reaches(fact, i + 1) <=>
               \/ Reaches(fact, i) /\ fact \notin instructions[i].drops
               \/ fact \in instructions[i].adds
  <2> HIDE DEF Kept
  <2>1. 1 .. (i + 1) - 1 = (1 .. i - 1) \cup {i}
    OBVIOUS
  <2> QED
    BY <1>2, <1>3, <2>1
<1> HIDE DEF Reaches
<1> QED
  BY <1>1, <1>4 DEF After

\* Where the items of a concatenation come from.
LEMMA Concatenated ==
  ASSUME NEW T, NEW p \in Seq(T), NEW q \in Seq(T)
  PROVE  /\ Len(p \o q) = Len(p) + Len(q)
         /\ DOMAIN (p \o q) = 1 .. Len(p) + Len(q)
         /\ \A i \in 1 .. Len(p) : (p \o q)[i] = p[i]
         /\ \A i \in 1 .. Len(q) : (p \o q)[Len(p) + i] = q[i]
OBVIOUS

\* A transaction of five instructions and some more.
LEMMA FiveAndMore ==
  ASSUME NEW p1, NEW p2, NEW p3, NEW p4, NEW p5, NEW S, NEW q \in Seq(S),
         NEW s, s = <<p1, p2, p3, p4, p5>> \o q
  PROVE  /\ DOMAIN s = 1 .. Len(q) + 5
         /\ Len(s) = Len(q) + 5
         /\ s[1] = p1 /\ s[2] = p2 /\ s[3] = p3 /\ s[4] = p4 /\ s[5] = p5
         /\ \A i \in 1 .. Len(q) : s[5 + i] = q[i]
<1> DEFINE p == <<p1, p2, p3, p4, p5>>
           T == {p1, p2, p3, p4, p5} \cup S
<1>1. p \in Seq(T) /\ q \in Seq(T)
  OBVIOUS
<1>2. Len(p) = 5 /\ Len(q) \in Nat
  OBVIOUS
<1>3. p[1] = p1 /\ p[2] = p2 /\ p[3] = p3 /\ p[4] = p4 /\ p[5] = p5
  OBVIOUS
<1> HIDE DEF p, T
<1>4. /\ Len(p \o q) = Len(p) + Len(q)
      /\ DOMAIN (p \o q) = 1 .. Len(p) + Len(q)
      /\ \A i \in 1 .. Len(p) : (p \o q)[i] = p[i]
      /\ \A i \in 1 .. Len(q) : (p \o q)[Len(p) + i] = q[i]
  BY <1>1, Concatenated
<1>5. s = p \o q
  BY DEF p
<1> QED
  BY <1>1, <1>2, <1>3, <1>4, <1>5
-----------------------------------------------------------------------------
(* Induction over the instructions of a transaction.  The induction        *)
(* theorems of the library take an operator; here the hypothesis is a set. *)

\* A set of numbers that is not empty has a least element.
LEMMA LeastNumber ==
  ASSUME NEW T \in SUBSET Nat, NEW n \in T
  PROVE  \E x \in T : \A y \in T : x <= y
<1> DEFINE R == OpToRel(<, Nat)
<1>1. IsWellFoundedOn(R, Nat)
  BY NatLessThanWellFounded
<1>2. \A x, y \in Nat : <<x, y>> \in R <=> x < y
  BY DEF OpToRel
<1> HIDE DEF R
<1>3. PICK x \in T : \A y \in T : ~(<<y, x>> \in R)
  BY <1>1, WFMin, Zenon
<1>4. ASSUME NEW y \in T PROVE x <= y
  <2>1. x \in Nat /\ y \in Nat
    OBVIOUS
  <2>2. ~(y < x)
    BY <1>2, <1>3, <2>1
  <2> QED
    BY <2>1, <2>2
<1> QED
  BY <1>4

\* A set that holds zero and with every number the next holds all of them.
LEMMA SetInduction ==
  ASSUME NEW T, 0 \in T, \A n \in Nat : n \in T => n + 1 \in T
  PROVE  Nat \subseteq T
<1> SUFFICES ASSUME NEW m \in Nat, m \notin T PROVE FALSE
  OBVIOUS
<1> DEFINE B == {n \in Nat : n \notin T}
<1>1. PICK x \in B : \A y \in B : x <= y
  BY LeastNumber
<1>2. x # 0 /\ x - 1 \in Nat
  BY <1>1
<1>3. x - 1 \in T
  BY <1>1, <1>2
<1> QED
  BY <1>1, <1>2, <1>3

\* A transaction of any length, on any account, succeeds exactly if the runtime gets
\* through it one instruction after another, and then leaves what the runtime leaves:
\* Found, Succeeds and Outcome, which the models use, say nothing else.
THEOREM StepwiseTheorem ==
  ASSUME NEW start, NEW S, NEW instructions \in Seq(S)
  PROVE  LET result == StepByStep(start, instructions)
         IN  /\ Succeeds(start, instructions) <=> result.ok
             /\ result.ok => Outcome(start, instructions) = result.facts
<1> DEFINE n == Len(instructions)
           F(i) == Found(start, instructions, i)
           Step(i, before) ==
             IF before.ok /\ Valid(instructions[i], before.facts)
             THEN [ok |-> TRUE, facts |-> After(instructions[i], before.facts)]
             ELSE [ok |-> FALSE, facts |-> start]
           Body(f) == [i \in 0..n |-> IF i = 0 THEN [ok |-> TRUE, facts |-> start]
                                     ELSE Step(i, f[i - 1])]
           step == CHOOSE f : f = Body(f)
           AllValid(i) == \A j \in 1..i : Valid(instructions[j], F(j))
           Expected(i) == IF AllValid(i) THEN [ok |-> TRUE, facts |-> F(i + 1)]
                          ELSE [ok |-> FALSE, facts |-> start]
           known == [i \in 0..n |-> Expected(i)]
<1>1. n \in Nat /\ DOMAIN instructions = 1..n
  OBVIOUS
<1>2. StepByStep(start, instructions) = step[n]
  BY DEF StepByStep
<1>3. Expected(0) = [ok |-> TRUE, facts |-> start]
  <2>1. F(0 + 1) = start
    BY FoundFirst
  <2>2. AllValid(0)
    OBVIOUS
  <2> HIDE DEF F, AllValid
  <2> QED
    BY <2>1, <2>2
<1>4. ASSUME NEW i \in 1..n
      PROVE  Expected(i) = Step(i, Expected(i - 1))
  <2>1. F(i + 1) = After(instructions[i], F(i))
    BY FoundNext
  <2>2. AllValid(i) <=> AllValid(i - 1) /\ Valid(instructions[i], F(i))
    <3>1. 1..i = (1..(i - 1)) \cup {i}
      OBVIOUS
    <3> HIDE DEF F
    <3> QED
      BY <3>1
  <2>3. (i - 1) + 1 = i
    OBVIOUS
  <2> HIDE DEF F, AllValid
  <2> QED
    BY <2>1, <2>2, <2>3
<1> HIDE DEF Expected, Step
<1>5. known = Body(known)
  <2>1. ASSUME NEW i \in 0..n, i # 0
        PROVE  i \in 1..n /\ i - 1 \in 0..n
    BY <1>1, <2>1
  <2>2. \A i \in 0..n : Expected(i) = IF i = 0 THEN [ok |-> TRUE, facts |-> start]
                                 ELSE Step(i, known[i - 1])
    BY <1>3, <1>4, <2>1
  <2> QED
    BY <2>2
<1>6. step = Body(step)
  BY <1>5
<1> HIDE DEF step
<1>7. /\ step[0] = [ok |-> TRUE, facts |-> start]
      /\ \A i \in 1..n : step[i] = Step(i, step[i - 1])
  <2>1. \A i \in 0..n : step[i] = Body(step)[i]
    BY <1>6
  <2>2. 0 \in 0..n /\ \A i \in 1..n : i \in 0..n /\ i # 0
    BY <1>1
  <2> QED
    BY <2>1, <2>2
<1>8. Nat \subseteq {i \in Nat : i <= n => step[i] = Expected(i)}
  <2> DEFINE T == {i \in Nat : i <= n => step[i] = Expected(i)}
  <2>1. 0 \in T
    BY <1>3, <1>7
  <2>2. ASSUME NEW i \in Nat, i \in T
        PROVE  i + 1 \in T
    <3> SUFFICES ASSUME i + 1 <= n
                 PROVE  step[i + 1] = Expected(i + 1)
      OBVIOUS
    <3>1. step[i] = Expected(i)
      BY <1>1, <2>2
    <3>2. i + 1 \in 1..n /\ (i + 1) - 1 = i
      BY <1>1
    <3> QED
      BY <1>4, <1>7, <3>1, <3>2
  <2> QED
    BY <2>1, <2>2, SetInduction
<1>9. step[n] = Expected(n)
  BY <1>1, <1>8
<1>10. Succeeds(start, instructions) <=> AllValid(n)
  BY <1>1 DEF Succeeds
<1>11. Outcome(start, instructions) = F(n + 1)
  BY DEF Outcome
<1> HIDE DEF AllValid, F, n
<1> QED
  BY <1>2, <1>9, <1>10, <1>11 DEF Expected

\* What an instruction finds depends only on the instructions before it.
LEMMA FoundInPrefix ==
  ASSUME NEW start, NEW p, NEW s, NEW i \in Nat,
         \A j \in 1 .. i - 1 : s[j] = p[j]
  PROVE  Found(start, s, i) = Found(start, p, i)
<1>1. ASSUME NEW f, NEW j \in 0 .. i - 1
      PROVE  (\A k \in j + 1 .. i - 1 : f \notin s[k].drops)
               <=> (\A k \in j + 1 .. i - 1 : f \notin p[k].drops)
  OBVIOUS
<1>2. ASSUME NEW f
      PROVE  f \in Found(start, s, i) <=> f \in Found(start, p, i)
  <2> DEFINE Kept(t, j) == \A k \in j + 1 .. i - 1 : f \notin t[k].drops
             Reaches(t) == \/ f \in start /\ Kept(t, 0)
                           \/ \E j \in 1 .. i - 1 : f \in t[j].adds /\ Kept(t, j)
  <2>1. /\ f \in Found(start, s, i) <=> Reaches(s)
        /\ f \in Found(start, p, i) <=> Reaches(p)
    BY DEF Found
  <2>2. \A j \in 0 .. i - 1 : Kept(s, j) <=> Kept(p, j)
    BY <1>1
  <2>3. 0 \in 0 .. i - 1 \/ 1 .. i - 1 = {}
    OBVIOUS
  <2>4. CASE i = 0
    BY <2>1, <2>4
  <2>5. CASE i # 0
    <3>1. Kept(s, 0) <=> Kept(p, 0)
      BY <2>2, <2>5
    <3>2. \A j \in 1 .. i - 1 : (Kept(s, j) <=> Kept(p, j)) /\ s[j] = p[j]
      BY <2>2
    <3> HIDE DEF Kept
    <3> QED
      BY <2>1, <3>1, <3>2
  <2> QED
    BY <2>4, <2>5
<1> QED
  BY <1>2

\* An atomic transaction of two parts does what its parts do in two transactions, one
\* after the other, if both succeed; and if one of them does not, neither does it.
\* Hence what a service puts into one transaction can be reasoned about in pieces.
THEOREM PartsTheorem ==
  ASSUME NEW start, NEW S, NEW p \in Seq(S), NEW q \in Seq(S)
  PROVE  LET between == Outcome(start, p)
         IN  /\ Succeeds(start, p \o q) <=> Succeeds(start, p) /\ Succeeds(between, q)
             /\ Outcome(start, p \o q) = Outcome(between, q)
<1> DEFINE n == Len(p)
           m == Len(q)
           s == p \o q
           between == Outcome(start, p)
<1>1. /\ n \in Nat /\ m \in Nat
      /\ Len(s) = n + m
      /\ DOMAIN p = 1..n /\ DOMAIN q = 1..m /\ DOMAIN s = 1..(n + m)
      /\ \A i \in 1..n : s[i] = p[i]
      /\ \A i \in 1..m : s[n + i] = q[i]
  BY Concatenated
<1> HIDE DEF n, m, s
<1>2. ASSUME NEW i \in 1..(n + 1)
      PROVE  Found(start, s, i) = Found(start, p, i)
  <2>1. i \in Nat /\ \A j \in 1 .. i - 1 : s[j] = p[j]
    BY <1>1
  <2> QED
    BY <2>1, FoundInPrefix
<1>3. between = Found(start, p, n + 1)
  BY DEF Outcome, n
<1> HIDE DEF between
<1>4. ASSUME NEW i \in 0..m
      PROVE  Found(start, s, n + i + 1) = Found(between, q, i + 1)
  <2> DEFINE T == {j \in Nat :
                     j <= m => Found(start, s, n + j + 1) = Found(between, q, j + 1)}
  <2>1. 0 \in T
    BY <1>1, <1>2, <1>3, FoundFirst
  <2>2. ASSUME NEW j \in Nat, j \in T
        PROVE  j + 1 \in T
    <3> SUFFICES ASSUME j + 1 <= m
                 PROVE  Found(start, s, n + (j + 1) + 1) = Found(between, q, (j + 1) + 1)
      OBVIOUS
    <3>1. Found(start, s, n + j + 1) = Found(between, q, j + 1)
      BY <1>1, <2>2
    <3>2. n + j + 1 \in Nat \ {0} /\ j + 1 \in Nat \ {0}
      BY <1>1
    <3>3. /\ Found(start, s, (n + j + 1) + 1) = After(s[n + j + 1], Found(start, s, n + j + 1))
          /\ Found(between, q, (j + 1) + 1) = After(q[j + 1], Found(between, q, j + 1))
      BY <3>2, FoundNext
    <3>4. j + 1 \in 1..m /\ n + (j + 1) = n + j + 1
      BY <1>1
    <3>5. s[n + j + 1] = q[j + 1]
      BY <1>1, <3>4
    <3> QED
      BY <3>1, <3>3, <3>4, <3>5
  <2>3. Nat \subseteq T
    <3> HIDE DEF T
    <3> QED
      BY <2>1, <2>2, SetInduction
  <2>4. i \in Nat /\ i <= m
    BY <1>1
  <2>5. i \in T
    <3> HIDE DEF T
    <3> QED
      BY <2>3, <2>4
  <2> QED
    BY <2>4, <2>5
<1>5. Outcome(start, s) = Outcome(between, q)
  <2>1. Outcome(start, s) = Found(start, s, n + m + 1)
    BY <1>1 DEF Outcome
  <2>2. Outcome(between, q) = Found(between, q, m + 1)
    BY DEF Outcome, m
  <2> QED
    BY <1>1, <1>4, <2>1, <2>2
<1> DEFINE Fine(i) == Valid(s[i], Found(start, s, i))
<1>6. Succeeds(start, s) <=> \A i \in 1..(n + m) : Fine(i)
  BY <1>1 DEF Succeeds
<1>7. Succeeds(start, p) <=> \A i \in 1..n : Fine(i)
  BY <1>1, <1>2 DEF Succeeds
<1>8. Succeeds(between, q) <=> \A i \in 1..m : Fine(n + i)
  <2>1. ASSUME NEW i \in 1..m
        PROVE  Fine(n + i) <=> Valid(q[i], Found(between, q, i))
    <3>1. i - 1 \in 0..m /\ n + (i - 1) + 1 = n + i /\ (i - 1) + 1 = i
      BY <1>1
    <3>2. Found(start, s, n + i) = Found(between, q, i)
      BY <1>4, <3>1
    <3> QED
      BY <1>1, <3>2
  <2> HIDE DEF Fine
  <2> QED
    BY <1>1, <2>1 DEF Succeeds
<1> HIDE DEF Fine
<1>9. (\A i \in 1..(n + m) : Fine(i)) <=> (\A i \in 1..n : Fine(i)) /\ (\A i \in 1..m : Fine(n + i))
  <2>1. ASSUME NEW i \in 1..(n + m), i \notin 1..n
        PROVE  i - n \in 1..m /\ n + (i - n) = i
    BY <1>1, <2>1
  <2>2. \A i \in 1..m : n + i \in 1..(n + m)
    BY <1>1
  <2>3. \A i \in 1..n : i \in 1..(n + m)
    BY <1>1
  <2> QED
    BY <2>1, <2>2, <2>3
<1>10. Succeeds(start, s) <=> Succeeds(start, p) /\ Succeeds(between, q)
  <2> HIDE DEF Fine
  <2> QED
    BY <1>6, <1>7, <1>8, <1>9
<1> QED
  BY <1>5, <1>10 DEF s, between
=============================================================================

------------------------------ MODULE PrefixInduction ------------------------------
(* Induction on numbers, in the form that the provers of this project take: with a *)
(* set for the induction hypothesis, not an operator.  It serves the recursive     *)
(* functions that fold a sequence, prefix by prefix.                                *)
EXTENDS CommandQueue, WellFoundedInduction, SequenceTheorems, TLAPS

LEMMA Smaller ==
  \E R : IsWellFoundedOn(R, Nat) /\ \A m, n \in Nat : <<m, n>> \in R <=> m < n
<1>1. IsWellFoundedOn(OpToRel(<, Nat), Nat)
  BY NatLessThanWellFounded
<1>2. \A m, n \in Nat : <<m, n>> \in OpToRel(<, Nat) <=> m < n
  BY Zenon DEF OpToRel
<1> QED BY <1>1, <1>2, Zenon

\* A nonempty set of numbers has a least one.
LEMMA Least ==
  ASSUME NEW T, T \subseteq Nat, T # {}
  PROVE  \E n \in T : \A m \in T : n <= m
<1>1. PICK R : IsWellFoundedOn(R, Nat) /\ \A m, n \in Nat : <<m, n>> \in R <=> m < n
  BY Smaller, Zenon
<1>2. IsWellFoundedOn(R, Nat)
  BY <1>1, Zenon
<1>3. \A m, n \in Nat : <<m, n>> \in R <=> m < n
  BY <1>1, Zenon
<1>4. \E n \in T : \A m \in T : ~(<<m, n>> \in R)
  <2> HIDE <1>1
  <2> QED BY <1>2, WFMin
<1>5. PICK n \in T : \A m \in T : ~(<<m, n>> \in R)
  BY <1>4
<1>6. ASSUME NEW m \in T PROVE n <= m
  <2>1. m \in Nat /\ n \in Nat /\ ~(<<m, n>> \in R)
    BY <1>5
  <2>2. ~(m < n)
    BY <2>1, <1>3, Zenon
  <2> QED BY <2>1, <2>2
<1> QED BY <1>6

\* What holds at 0, and of each number when it holds of the one before it.
LEMMA Inducts ==
  ASSUME NEW n \in Nat, NEW T, 0 \in T, \A i \in 1..n : i - 1 \in T => i \in T
  PROVE  \A i \in 0..n : i \in T
<1> DEFINE U == {i \in 0..n : i \notin T}
<1>1. SUFFICES ASSUME U # {} PROVE FALSE
  OBVIOUS
<1>2. PICK k \in U : \A m \in U : k <= m
  <2>1. U \subseteq Nat
    OBVIOUS
  <2> HIDE DEF U
  <2> QED BY <1>1, <2>1, Least
<1>3. k \in 1..n /\ k - 1 \in 0..n /\ k - 1 \notin U
  BY <1>2
<1> QED BY <1>2, <1>3

\* Two functions that begin alike, and go on alike as long as they have been alike.
LEMMA GoAlike ==
  ASSUME NEW n \in Nat, NEW f, NEW g, f[0] = g[0],
         \A i \in 1..n : f[i - 1] = g[i - 1] => f[i] = g[i]
  PROVE  \A i \in 0..n : f[i] = g[i]
<1> DEFINE T == {i \in 0..n : f[i] = g[i]}
<1>1. 0 \in T /\ \A i \in 1..n : i - 1 \in T => i \in T
  OBVIOUS
<1>2. \A i \in 0..n : i \in T
  <2> HIDE DEF T
  <2> QED BY <1>1, Inducts
<1> QED BY <1>2

-----------------------------------------------------------------------------------
(* A queue without some of its commands.                                           *)

\* A function that has the recursion of Without up to n.
Keeps(f, q, C, n) ==
  f = [i \in 0..n |-> IF i = 0 THEN <<>>
                      ELSE IF q[i] \in C THEN f[i - 1] ELSE Append(f[i - 1], q[i])]

LEMMA KeepsExist ==
  ASSUME NEW q, NEW C, NEW n \in Nat
  PROVE  \E f : Keeps(f, q, C, n)
<1> DEFINE T == {k \in Nat : \E f : Keeps(f, q, C, k)}
           next(x, k) == IF q[k] \in C THEN x ELSE Append(x, q[k])
<1>1. 0 \in T
  <2>1. Keeps([i \in 0..0 |-> <<>>], q, C, 0)
    BY DEF Keeps
  <2> QED BY <2>1
<1>2. ASSUME NEW k \in 1..n, k - 1 \in T PROVE k \in T
  <2>1. k \in Nat /\ k - 1 \in Nat /\ k # 0
    OBVIOUS
  <2>2. PICK f : Keeps(f, q, C, k - 1)
    BY <1>2
  <2> DEFINE g == [i \in 0..k |-> IF i = k THEN next(f[k - 1], k) ELSE f[i]]
  <2>3. \A i \in 0..k : g[i] = IF i = 0 THEN <<>> ELSE next(g[i - 1], i)
    <3> TAKE i \in 0..k
    <3>1. \A j \in 0..k - 1 : f[j] = IF j = 0 THEN <<>> ELSE next(f[j - 1], j)
      BY <2>2 DEF Keeps
    <3> HIDE DEF next
    <3>2. CASE i = k
      BY <3>2, <2>1
    <3>3. CASE i # k
      <4>1. i \in 0..k - 1 /\ g[i] = f[i]
        BY <3>3, <2>1
      <4>2. i # 0 => i - 1 \in 0..k /\ i - 1 # k /\ g[i - 1] = f[i - 1]
        BY <3>3, <2>1
      <4> QED BY <4>1, <4>2, <3>1
    <3> QED BY <3>2, <3>3
  <2>4. g = [i \in 0..k |-> IF i = 0 THEN <<>> ELSE next(g[i - 1], i)]
    <3> HIDE DEF next
    <3> QED BY <2>3
  <2>5. Keeps(g, q, C, k)
    <3> HIDE <2>3
    <3>1. PICK h : h = g
      OBVIOUS
    <3>2. h = [i \in 0..k |-> IF i = 0 THEN <<>> ELSE next(h[i - 1], i)]
      <4> HIDE DEF g, next
      <4> QED BY <2>4, <3>1, Zenon
    <3>3. Keeps(h, q, C, k)
      <4> HIDE DEF g
      <4> QED BY <3>2 DEF Keeps
    <3> QED BY <3>1, <3>3
  <2> QED BY <2>1, <2>5
<1>3. \A i \in 0..n : i \in T
  <2> HIDE DEF T
  <2> QED BY <1>1, <1>2, Inducts
<1> QED BY <1>3

\* The first n steps of f keep what is not in C.
Filters(f, q, C, n) ==
  /\ f[0] = <<>>
  /\ \A i \in 1..n : f[i] = IF q[i] \in C THEN f[i - 1] ELSE Append(f[i - 1], q[i])

LEMMA WithoutKeeps ==
  ASSUME NEW q, NEW C, NEW n \in Nat, Len(q) = n
  PROVE  \E f : Filters(f, q, C, n) /\ Without(q, C) = f[n]
<1>1. \E f : Keeps(f, q, C, n)
  BY KeepsExist
<1>2. PICK f : f = CHOOSE g : Keeps(g, q, C, n)
  OBVIOUS
<1>3. Keeps(f, q, C, n)
  BY <1>1, <1>2
<1>4. Without(q, C) = f[n]
  BY <1>2 DEF Without, Keeps
<1>5. f[0] = <<>>
  BY <1>3 DEF Keeps
<1>6. ASSUME NEW i \in 1..n
      PROVE  f[i] = IF q[i] \in C THEN f[i - 1] ELSE Append(f[i - 1], q[i])
  <2>1. i \in 0..n /\ i # 0
    OBVIOUS
  <2> QED BY <2>1, <1>3 DEF Keeps
<1>7. Filters(f, q, C, n)
  BY <1>5, <1>6 DEF Filters
<1> QED BY <1>4, <1>7

LEMMA WithoutIsSeq ==
  ASSUME NEW S, NEW q \in Seq(S), NEW C
  PROVE  Without(q, C) \in Seq(S)
<1>1. PICK n \in Nat : Len(q) = n
  BY LenProperties
<1>2. PICK f : Filters(f, q, C, n) /\ Without(q, C) = f[n]
  BY <1>1, WithoutKeeps
<1> DEFINE T == {i \in 0..n : f[i] \in Seq(S)}
<1>3. 0 \in T
  <2>1. <<>> \in Seq(S)
    BY EmptySeq
  <2>2. 0 \in 0..n
    OBVIOUS
  <2> QED BY <1>2, <2>1, <2>2 DEF Filters
<1>4. ASSUME NEW i \in 1..n, i - 1 \in T PROVE i \in T
  <2>1. q[i] \in S /\ i \in 0..n
    BY <1>1, ElementOfSeq
  <2>2. PICK s \in Seq(S) : s = f[i - 1]
    BY <1>4
  <2>3. Append(s, q[i]) \in Seq(S)
    BY <2>1, AppendProperties
  <2> QED BY <1>2, <2>1, <2>2, <2>3 DEF Filters
<1>5. \A i \in 0..n : i \in T
  <2> HIDE DEF T
  <2> QED BY <1>3, <1>4, Inducts
<1> QED BY <1>2, <1>5
===================================================================================

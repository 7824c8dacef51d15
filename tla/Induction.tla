------------------------------ MODULE Induction ------------------------------
(***************************************************************************)
(* Induction over the natural numbers, for sets.  The theorems of the      *)
(* library state it for an operator, which the provers cannot instantiate; *)
(* the set of the numbers that have a property does as well.               *)
(***************************************************************************)
EXTENDS Integers, Sequences, SequenceTheorems, WellFoundedInduction, TLAPS

(* A set of numbers that is not empty has a least element.                 *)
LEMMA NatLeast ==
  ASSUME NEW T, T \subseteq Nat, T # {}
  PROVE  \E x \in T : \A y \in T : ~ (y < x)
<1> DEFINE Less == OpToRel(<, Nat)
<1>1. PICK x \in T : \A y \in T : <<y, x>> \notin Less
  <2>1. IsWellFoundedOn(Less, Nat)
    BY NatLessThanWellFounded, Zenon
  <2> HIDE DEF Less
  <2> QED  BY <2>1, WFMin
<1>2. \A y \in T : y < x => <<y, x>> \in Less
  BY Zenon DEF OpToRel
<1> HIDE DEF Less
<1> QED  BY <1>1, <1>2

(* One that is bounded has a greatest.                                     *)
LEMMA NatGreatest ==
  ASSUME NEW N \in Nat, NEW T, T \subseteq 1..N, T # {}
  PROVE  \E x \in T : \A y \in T : y <= x
<1> DEFINE U == {k \in Nat : \E x \in T : k = N - x}
<1>1. U \subseteq Nat /\ U # {}
  <2>1. PICK x \in T : TRUE
    OBVIOUS
  <2>2. N - x \in U
    BY <2>1
  <2> QED  BY <2>2
<1>2. PICK k \in U : \A j \in U : ~ (j < k)
  <2> HIDE DEF U
  <2> QED  BY <1>1, NatLeast
<1>3. PICK x \in T : k = N - x
  BY <1>2
<1>4. ASSUME NEW y \in T PROVE y <= x
  <2>1. N - y \in U
    BY <1>4
  <2>2. ~ (N - y < k)
    BY <1>2, <2>1
  <2>3. x \in 1..N /\ y \in 1..N
    OBVIOUS
  <2> QED  BY <1>3, <2>2, <2>3
<1> QED  BY <1>4

(* A set that contains 0, and with a number the next one, contains all.    *)
LEMMA SetInduction ==
  ASSUME NEW S, 0 \in S, \A n \in Nat : n \in S => n + 1 \in S
  PROVE  Nat \subseteq S
<1>1. SUFFICES ASSUME NEW n \in Nat, n \notin S PROVE FALSE
  OBVIOUS
<1>2. PICK x \in {k \in Nat : k \notin S} : \A y \in {k \in Nat : k \notin S} : ~ (y < x)
  BY <1>1, NatLeast
<1>3. x \in Nat /\ x # 0
  BY <1>2
<1> QED  BY <1>2, <1>3

(* What is defined by recursion over 0..N exists: from the value a at 0,   *)
(* F makes the value at n from that at n - 1.                              *)
Recursion(f, N, a, F) == f[0] = a /\ \A n \in 1..N : f[n] = F[<<n, f[n - 1]>>]

LEMMA RecursionExists ==
  ASSUME NEW N \in Nat, NEW S, NEW a \in S, NEW F \in [(1..N) \X S -> S]
  PROVE  \E f \in [0..N -> S] : Recursion(f, N, a, F)
<1> DEFINE Upto(m, f) == f[0] = a /\ \A n \in 1..m : f[n] = F[<<n, f[n - 1]>>]
           T == {m \in Nat : m <= N => \E f \in [0..m -> S] : Upto(m, f)}
<1>1. 0 \in T
  <2> DEFINE f == [n \in 0..0 |-> a]
  <2>1. f \in [0..0 -> S] /\ Upto(0, f)
    OBVIOUS
  <2> HIDE DEF f, Upto
  <2>2. \E h \in [0..0 -> S] : Upto(0, h)
    BY <2>1
  <2> HIDE DEF Upto
  <2> QED  BY <2>2
<1>2. ASSUME NEW m \in Nat, m \in T PROVE m + 1 \in T
  <2>1. SUFFICES ASSUME m + 1 <= N PROVE \E f \in [0..m + 1 -> S] : Upto(m + 1, f)
    OBVIOUS
  <2>2. PICK f \in [0..m -> S] : Upto(m, f)
    BY <1>2, <2>1
  <2> DEFINE g == [n \in 0..m + 1 |-> IF n = m + 1 THEN F[<<m + 1, f[m]>>] ELSE f[n]]
  <2>3. F[<<m + 1, f[m]>>] \in S
    <3>1. m + 1 \in 1..N /\ f[m] \in S
      BY <2>1
    <3> QED  BY <3>1
  <2>4. g \in [0..m + 1 -> S]
    BY <2>3
  <2>5. \A n \in 0..m : g[n] = f[n]
    OBVIOUS
  <2>6. g[m + 1] = F[<<m + 1, f[m]>>]
    OBVIOUS
  <2> HIDE DEF g
  <2>7. ASSUME NEW n \in 1..m + 1 PROVE g[n] = F[<<n, g[n - 1]>>]
    <3>1. CASE n = m + 1
      <4>1. n - 1 = m /\ g[m] = f[m]
        BY <2>5, <3>1
      <4> QED  BY <2>6, <3>1, <4>1
    <3>2. CASE n # m + 1
      <4>1. n \in 1..m /\ n \in 0..m /\ n - 1 \in 0..m
        BY <3>2
      <4> QED  BY <2>2, <2>5, <4>1
    <3> QED  BY <3>1, <3>2
  <2>8. g[0] = a
    BY <2>2, <2>5
  <2>9. Upto(m + 1, g)
    BY <2>7, <2>8
  <2> HIDE DEF Upto
  <2> QED  BY <2>4, <2>9
<1> HIDE DEF T
<1>3. N \in T
  BY <1>1, <1>2, SetInduction
<1> QED  BY <1>3 DEF T, Recursion

-----------------------------------------------------------------------------
(* What is left of a sequence after its first m elements, and what comes   *)
(* of appending the first n elements of another.                           *)
LEMMA Rest ==
  ASSUME NEW S, NEW s \in Seq(S), NEW m \in Nat, m <= Len(s)
  PROVE  /\ SubSeq(s, m + 1, Len(s)) \in Seq(S)
         /\ Len(SubSeq(s, m + 1, Len(s))) = Len(s) - m
         /\ \A k \in 1..Len(s) - m : SubSeq(s, m + 1, Len(s))[k] = s[m + k]
<1>1. Len(s) \in Nat /\ m + 1 \in Int /\ Len(s) \in Int
  OBVIOUS
<1>2. \A i \in m + 1..Len(s) : s[i] \in S
  BY <1>1
<1>3. /\ SubSeq(s, m + 1, Len(s)) \in Seq(S)
      /\ Len(SubSeq(s, m + 1, Len(s)))
           = IF m + 1 <= Len(s) THEN Len(s) - (m + 1) + 1 ELSE 0
      /\ \A i \in 1..Len(s) - (m + 1) + 1 :
           SubSeq(s, m + 1, Len(s))[i] = s[m + 1 + i - 1]
  BY <1>1, <1>2, SubSeqProperties
<1>4. Len(SubSeq(s, m + 1, Len(s))) = Len(s) - m
  BY <1>1, <1>3
<1>5. ASSUME NEW k \in 1..Len(s) - m
      PROVE  SubSeq(s, m + 1, Len(s))[k] = s[m + k]
  <2>1. k \in 1..Len(s) - (m + 1) + 1 /\ m + 1 + k - 1 = m + k
    BY <1>1
  <2> QED  BY <1>3, <2>1
<1> QED
  BY <1>3, <1>4, <1>5

LEMMA Front ==
  ASSUME NEW S, NEW s \in Seq(S), NEW n \in Nat, n <= Len(s)
  PROVE  SubSeq(s, 1, n) \in Seq(S) /\ Len(SubSeq(s, 1, n)) = n
<1>1. Len(s) \in Nat /\ 1 \in Int /\ n \in Int
  OBVIOUS
<1>2. \A i \in 1..n : s[i] \in S
  BY <1>1
<1>3. /\ SubSeq(s, 1, n) \in Seq(S)
      /\ Len(SubSeq(s, 1, n)) = IF 1 <= n THEN n - 1 + 1 ELSE 0
  BY <1>1, <1>2, SubSeqProperties
<1> QED
  BY <1>3

(* Quotient and remainder by b, at the next number and b numbers on.       *)
LEMMA NextQuotient ==
  ASSUME NEW i \in Nat, NEW b \in Nat \ {0}
  PROVE  /\ i \div b \in Nat /\ i % b \in 0..b - 1
         /\ \E q \in Nat, r \in 0..b - 1 : i = b * q + r /\ q = i \div b /\ r = i % b
         /\ IF i % b = b - 1
              THEN (i + 1) % b = 0 /\ (i + 1) \div b = i \div b + 1
              ELSE (i + 1) % b = (i % b) + 1 /\ (i + 1) \div b = i \div b
         /\ (i + b) % b = i % b /\ (i + b) \div b = i \div b + 1
         /\ 0 % b = 0 /\ 0 \div b = 0
<1>1. ASSUME NEW q \in Nat, NEW r \in 0..b - 1, NEW n \in Nat, n = b * q + r
      PROVE  n \div b = q /\ n % b = r
  BY <1>1
<1>2. \A q \in Nat : b * (q + 1) = b * q + b /\ b * q \in Nat /\ b * 0 = 0
  OBVIOUS
<1>3. PICK q \in Nat, r \in 0..b - 1 : i = b * q + r
  <2> DEFINE S == {n \in Nat : \E q \in Nat, r \in 0..b - 1 : n = b * q + r}
  <2>1. 0 \in S
    <3>1. 0 = b * 0 + 0 /\ 0 \in 0..b - 1
      BY <1>2
    <3> QED  BY <3>1
  <2>2. ASSUME NEW n \in S PROVE n + 1 \in S
    <3>1. PICK q \in Nat, r \in 0..b - 1 : n = b * q + r
      OBVIOUS
    <3>2. r = b - 1 => n + 1 = b * (q + 1) + 0
      BY <1>2, <3>1
    <3>3. n + 1 = b * q + (r + 1)
      BY <1>2, <3>1
    <3>4. 0 \in 0..b - 1 /\ q + 1 \in Nat /\ (r # b - 1 => r + 1 \in 0..b - 1) /\ n + 1 \in Nat
      OBVIOUS
    <3> QED  BY <3>2, <3>3, <3>4
  <2> HIDE DEF S
  <2>3. Nat \subseteq S
    BY <2>1, <2>2, SetInduction
  <2> QED  BY <2>3 DEF S
<1>4. i \div b = q /\ i % b = r
  BY <1>1, <1>3
<1>5. (i + b) \div b = q + 1 /\ (i + b) % b = r
  <2>1. i + b = b * (q + 1) + r /\ q + 1 \in Nat /\ i + b \in Nat
    BY <1>2, <1>3
  <2> QED  BY <1>1, <2>1, ZenonT(60)
<1>6. 0 \div b = 0 /\ 0 % b = 0
  <2>1. 0 = b * 0 + 0 /\ 0 \in 0..b - 1
    BY <1>2
  <2> QED  BY <1>1, <2>1
<1>7. CASE r = b - 1
  <2>1. i + 1 = b * (q + 1) + 0 /\ q + 1 \in Nat /\ 0 \in 0..b - 1 /\ i + 1 \in Nat
    BY <1>2, <1>3, <1>7
  <2>2. (i + 1) \div b = q + 1 /\ (i + 1) % b = 0
    BY <1>1, <2>1, ZenonT(60)
  <2> QED  BY <1>3, <1>4, <1>5, <1>6, <1>7, <2>2
<1>8. CASE r # b - 1
  <2>1. i + 1 = b * q + (r + 1) /\ r + 1 \in 0..b - 1 /\ i + 1 \in Nat
    BY <1>2, <1>3, <1>8
  <2>2. (i + 1) \div b = q /\ (i + 1) % b = r + 1
    BY <1>1, <2>1
  <2> QED  BY <1>3, <1>4, <1>5, <1>6, <1>8, <2>2
<1> QED  BY <1>7, <1>8
=============================================================================

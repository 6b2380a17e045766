---------------------------- MODULE FoldTheorems ----------------------------
(***************************************************************************)
(* Induction over the natural numbers, and what a fold over a list         *)
(* computes: the lemmas that the proofs about the task store, the memories *)
(* and the planner share.                                                  *)
(*                                                                         *)
(* A lemma cannot be given an operator, so induction is stated for a set   *)
(* of numbers and a fold by its operator as a function (F) and a solution  *)
(* of its recursion (it): the value of FoldLeft is the solution at the set *)
(* of all places.                                                          *)
(***************************************************************************)
EXTENDS Integers, Sequences, FiniteSetsExt, NaturalsInduction, WellFoundedInduction, FiniteSetTheorems,
        SequenceTheorems, TLAPS

\* A set of natural numbers that has 0 and the successor of each is all of them.
LEMMA NatSetInduction ==
    ASSUME NEW S, 0 \in S, \A n \in Nat : n \in S => n + 1 \in S
    PROVE  Nat \subseteq S
<1>1. SUFFICES ASSUME Nat \ S # {} PROVE FALSE
  OBVIOUS
<1> DEFINE T == Nat \ S
           R == OpToRel(<, Nat)
<1>2. IsWellFoundedOn(R, Nat)
  BY NatLessThanWellFounded
<1>3. T \subseteq Nat /\ T # {}
  BY <1>1
<1>4. \A x, y \in Nat : <<x, y>> \in R <=> x < y
  BY DEF OpToRel
<1> HIDE DEF R, T
<1>5. PICK n \in T : \A k \in T : ~ (<<k, n>> \in R)
  BY <1>2, <1>3, WFMin
<1>6. n \in Nat /\ n \notin S
  BY <1>5 DEF T
<1>7. n # 0 /\ n - 1 \in Nat
  BY <1>6
<1>8. n - 1 \in S
  <2>1. SUFFICES ASSUME n - 1 \notin S PROVE FALSE
    OBVIOUS
  <2>2. n - 1 \in T
    BY <1>7, <2>1 DEF T
  <2>3. <<n - 1, n>> \in R
    BY <1>4, <1>6, <1>7
  <2> QED BY <1>5, <2>2, <2>3
<1>9. (n - 1) + 1 \in S
  BY <1>7, <1>8
<1> QED BY <1>6, <1>9

\* The greatest of some of the first n + 1 numbers.
LEMMA GreatestIs ==
    ASSUME NEW n \in Nat, NEW s \in SUBSET (1..n + 1)
    PROVE  /\ n + 1 \in s => Max(s) = n + 1 /\ s \ {Max(s)} \in SUBSET (1..n)
           /\ n + 1 \notin s => s \in SUBSET (1..n)
<1>1. CASE n + 1 \in s
  <2>1. \A y \in s : n + 1 >= y
    OBVIOUS
  <2>2. PICK m : m = Max(s)
    OBVIOUS
  <2>3. m \in s /\ \A y \in s : m >= y
    BY <1>1, <2>1, <2>2 DEF Max
  <2>4. m = n + 1
    BY <1>1, <2>1, <2>3
  <2>5. s \ {n + 1} \in SUBSET (1..n)
    OBVIOUS
  <2> QED BY <2>2, <2>4, <2>5, <1>1
<1>2. CASE n + 1 \notin s
  BY <1>2
<1> QED BY <1>1, <1>2

\* The greatest of some of the first numbers is one of them.
LEMMA GreatestOf ==
    ASSUME NEW n \in Nat, NEW s \in SUBSET (1..n), s # {}
    PROVE  Max(s) \in s
<1>1. \A k \in Nat : \A r \in SUBSET (1..k) : r # {} => Max(r) \in r
  <2> DEFINE S == {k \in Nat : \A r \in SUBSET (1..k) : r # {} => Max(r) \in r}
  <2>1. 0 \in S
    <3>1. 1..0 = {}
      OBVIOUS
    <3> QED BY <3>1
  <2>2. ASSUME NEW k \in Nat, k \in S PROVE k + 1 \in S
    <3> SUFFICES ASSUME NEW r \in SUBSET (1..k + 1), r # {} PROVE Max(r) \in r
      OBVIOUS
    <3>1. CASE k + 1 \in r
      BY <3>1, GreatestIs
    <3>2. CASE k + 1 \notin r
      <4>1. r \in SUBSET (1..k)
        BY <3>2, GreatestIs
      <4> QED BY <4>1, <2>2
    <3> QED BY <3>1, <3>2
  <2> HIDE DEF S
  <2>3. Nat \subseteq S
    BY <2>1, <2>2, NatSetInduction
  <2> QED BY <2>3 DEF S
<1> QED BY <1>1

\* The recursion of a fold over the places of a list, with its operator as a function.
Recursion(f, n, base, F, list) ==
    f = [s \in SUBSET (1..n) |-> IF s = {} THEN base ELSE F[<<f[s \ {Max(s)}], list[Max(s)]>>]]

LEMMA RecursionExists ==
    ASSUME NEW A, NEW B, NEW base \in A, NEW F \in [A \X B -> A], NEW N \in Nat, NEW list \in [1..N -> B]
    PROVE  \E f \in [SUBSET (1..N) -> A] : Recursion(f, N, base, F, list)
<1> DEFINE Has(n) == \E f \in [SUBSET (1..n) -> A] : Recursion(f, n, base, F, list)
           S == {n \in Nat : n <= N => Has(n)}
<1>1. 0 \in S
  <2> DEFINE f == [s \in SUBSET (1..0) |-> base]
  <2>1. 1..0 = {}
    OBVIOUS
  <2>2. f = [s \in SUBSET (1..0) |-> IF s = {} THEN base ELSE F[<<f[s \ {Max(s)}], list[Max(s)]>>]]
    BY <2>1
  <2>3. f \in [SUBSET (1..0) -> A]
    OBVIOUS
  <2> HIDE DEF f
  <2> QED BY <2>2, <2>3 DEF Recursion
<1>2. ASSUME NEW n \in Nat, n <= N => Has(n), n + 1 <= N PROVE Has(n + 1)
  <2>0. n <= N
    BY <1>2
  <2>1. PICK f \in [SUBSET (1..n) -> A] : Recursion(f, n, base, F, list)
    BY <1>2, <2>0
  <2>2. n + 1 \in 1..N /\ list[n + 1] \in B
    BY <1>2
  <2> DEFINE D == SUBSET (1..n + 1)
             g == [s \in D |-> IF n + 1 \in s THEN F[<<f[s \ {n + 1}], list[n + 1]>>] ELSE f[s]]
  <2>3. \A s \in D : n + 1 \in s => s \ {n + 1} \in SUBSET (1..n)
    BY GreatestIs
  <2>4. g \in [D -> A]
    <3> SUFFICES ASSUME NEW s \in D PROVE (IF n + 1 \in s THEN F[<<f[s \ {n + 1}], list[n + 1]>>] ELSE f[s]) \in A
      OBVIOUS
    <3>1. CASE n + 1 \in s
      <4>1. f[s \ {n + 1}] \in A
        BY <2>3, <3>1
      <4> QED BY <4>1, <2>2, <3>1
    <3>2. CASE n + 1 \notin s
      BY <3>2, GreatestIs
    <3> QED BY <3>1, <3>2
  <2>5. \A s \in SUBSET (1..n) : g[s] = f[s] /\ s \in D
    OBVIOUS
  <2>6. \A s \in D : g[s] = IF s = {} THEN base ELSE F[<<g[s \ {Max(s)}], list[Max(s)]>>]
    <3> SUFFICES ASSUME NEW s \in D PROVE g[s] = IF s = {} THEN base ELSE F[<<g[s \ {Max(s)}], list[Max(s)]>>]
      OBVIOUS
    <3>1. CASE n + 1 \in s
      <4>1. Max(s) = n + 1 /\ s \ {Max(s)} \in SUBSET (1..n) /\ s # {}
        BY <3>1, GreatestIs
      <4>2. g[s] = F[<<f[s \ {n + 1}], list[n + 1]>>]
        BY <3>1
      <4> HIDE DEF g
      <4> QED BY <4>1, <4>2, <2>5
    <3>2. CASE n + 1 \notin s
      <4>1. s \in SUBSET (1..n)
        BY <3>2, GreatestIs
      <4>2. f[s] = IF s = {} THEN base ELSE F[<<f[s \ {Max(s)}], list[Max(s)]>>]
        BY <4>1, <2>1 DEF Recursion
      <4>3. s \ {Max(s)} \in SUBSET (1..n)
        BY <4>1
      <4> HIDE DEF g
      <4> QED BY <4>1, <4>2, <4>3, <2>5
    <3> QED BY <3>1, <3>2
  <2>7. g = [s \in D |-> g[s]]
    BY <2>4
  <2> HIDE DEF g
  <2>8. g = [s \in D |-> IF s = {} THEN base ELSE F[<<g[s \ {Max(s)}], list[Max(s)]>>]]
    BY <2>6, <2>7
  <2> QED BY <2>4, <2>8 DEF Recursion
<1> HIDE DEF Has
<1>3. \A n \in Nat : n \in S => n + 1 \in S
  BY <1>2
<1> HIDE DEF S
<1>4. Nat \subseteq S
  BY <1>1, <1>3, NatSetInduction
<1>5. Has(N)
  BY <1>4 DEF S
<1> QED BY <1>5 DEF Has

LEMMA IntervalTop ==
    ASSUME NEW k \in Nat, k # 0
    PROVE  Max(1..k) = k /\ (1..k) \ {k} = 1..k - 1 /\ 1..k # {}
<1>1. PICK m \in 1..k : m = Max(1..k) /\ m >= k
  <2>1. k \in 1..k /\ \A y \in 1..k : k >= y
    OBVIOUS
  <2> QED BY <2>1 DEF Max
<1>2. m = k
  BY <1>1
<1> QED BY <1>1, <1>2

\* The values a fold goes through.
Trace(h, base, F, list) == h[0] = base /\ \A k \in 1..Len(list) : h[k] = F[<<h[k - 1], list[k]>>]

\* A solution of a fold's recursion: it is an operator's and need not know its type.
FoldTypes(A, B, base, F, list) == base \in A /\ F \in [A \X B -> A] /\ list \in Seq(B)
Solves(f, A, base, F, list) ==
    f[{}] = base /\ \A k \in 1..Len(list) : f[1..k - 1] \in A => f[1..k] = F[<<f[1..k - 1], list[k]>>]

LEMMA RecursionHasTrace ==
    ASSUME NEW A, NEW B, NEW base, NEW F, NEW list, FoldTypes(A, B, base, F, list),
           NEW f, Solves(f, A, base, F, list)
    PROVE  \E h \in [0..Len(list) -> A] : Trace(h, base, F, list) /\ h[Len(list)] = f[1..Len(list)]
<1> DEFINE N == Len(list)
           S == {k \in Nat : k <= N => f[1..k] \in A}
           h == [k \in 0..N |-> f[1..k]]
<1>1. N \in Nat /\ \A k \in 1..N : list[k] \in B
  BY DEF FoldTypes
<1> USE DEF Solves, FoldTypes
<1>2. 0 \in S
  <2>1. 1..0 = {}
    OBVIOUS
  <2> QED BY <2>1
<1>3. ASSUME NEW k \in Nat, k \in S PROVE k + 1 \in S
  <2> SUFFICES ASSUME k + 1 <= N PROVE f[1..k + 1] \in A
    OBVIOUS
  <2>1. k + 1 \in 1..N /\ (k + 1) - 1 = k /\ f[1..k] \in A
    BY <1>1, <1>3
  <2>2. f[1..k + 1] = F[<<f[1..k], list[k + 1]>>]
    BY <2>1
  <2> QED BY <1>1, <2>1, <2>2
<1> HIDE DEF S
<1>4. Nat \subseteq S
  BY <1>2, <1>3, NatSetInduction
<1>5. \A k \in 0..N : f[1..k] \in A
  BY <1>1, <1>4 DEF S
<1>6. h \in [0..N -> A]
  BY <1>5
<1>7. h[0] = base
  <2>1. 1..0 = {}
    OBVIOUS
  <2> QED BY <1>1, <2>1
<1>8. ASSUME NEW k \in 1..N PROVE h[k] = F[<<h[k - 1], list[k]>>]
  <2>1. k \in 0..N /\ k - 1 \in 0..N
    BY <1>1
  <2>2. f[1..k] = F[<<f[1..k - 1], list[k]>>]
    BY <2>1, <1>5
  <2> QED BY <2>1, <2>2
<1>9. h[N] = f[1..N]
  BY <1>1
<1> HIDE DEF h
<1> QED BY <1>6, <1>7, <1>8, <1>9 DEF Trace

\* A fold of the same steps goes through the same values.
LEMMA TracesAgree ==
    ASSUME NEW base, NEW F, NEW list, NEW other, Len(list) \in Nat, Len(other) \in Nat,
           Len(list) <= Len(other), \A k \in 1..Len(list) : list[k] = other[k],
           NEW h, Trace(h, base, F, list), NEW g, Trace(g, base, F, other)
    PROVE  \A k \in 0..Len(list) : h[k] = g[k]
<1> DEFINE N == Len(list)
           S == {k \in Nat : k <= N => h[k] = g[k]}
<1>1. 0 \in S
  BY DEF Trace
<1>2. ASSUME NEW k \in Nat, k \in S PROVE k + 1 \in S
  <2> SUFFICES ASSUME k + 1 <= N PROVE h[k + 1] = g[k + 1]
    OBVIOUS
  <2>1. k + 1 \in 1..Len(list) /\ k + 1 \in 1..Len(other) /\ (k + 1) - 1 = k /\ h[k] = g[k]
    BY <1>2
  <2>2. h[k + 1] = F[<<h[k], list[k + 1]>>] /\ g[k + 1] = F[<<g[k], other[k + 1]>>]
    BY <2>1 DEF Trace
  <2> QED BY <2>1, <2>2
<1> HIDE DEF S
<1>3. Nat \subseteq S
  BY <1>1, <1>2, NatSetInduction
<1> QED BY <1>3 DEF S

\* The least of some numbers.
LEMMA Smallest ==
    ASSUME NEW hits \in SUBSET Nat, hits # {}
    PROVE  \E i \in hits : \A j \in hits : i <= j
<1> DEFINE R == OpToRel(<, Nat)
<1>1. IsWellFoundedOn(R, Nat)
  BY NatLessThanWellFounded
<1>2. \A x, y \in Nat : <<x, y>> \in R <=> x < y
  BY DEF OpToRel
<1> HIDE DEF R
<1>3. PICK n \in hits : \A k \in hits : ~ (<<k, n>> \in R)
  BY <1>1, WFMin
<1>4. n \in Nat /\ \A k \in hits : k \in Nat
  OBVIOUS
<1>5. \A k \in hits : ~ (k < n)
  BY <1>2, <1>3, <1>4
<1> QED BY <1>4, <1>5

\* A fold is a solution of its recursion, of a set of places first the greatest one is taken.
Unfolds(it, A, base, F, list) ==
    /\ it[{}] = base
    /\ \A s \in SUBSET (DOMAIN list) :
          s # {} /\ it[s \ {Max(s)}] \in A => it[s] = F[<<it[s \ {Max(s)}], list[Max(s)]>>]

Unfolded(f, A, B, base, F, list) ==
    /\ f = [s \in SUBSET (DOMAIN list) |-> IF s = {} THEN base ELSE F[<<f[s \ {Max(s)}], list[Max(s)]>>]]
    /\ \A s \in SUBSET (DOMAIN list) : s # {} => f[s \ {Max(s)}] \in A /\ list[Max(s)] \in B

LEMMA UnfoldingExists ==
    ASSUME NEW A, NEW B, NEW base, NEW F, NEW list, FoldTypes(A, B, base, F, list)
    PROVE  \E f : Unfolded(f, A, B, base, F, list)
<1> DEFINE N == Len(list)
<1>1. N \in Nat /\ DOMAIN list = 1..N /\ list \in [1..N -> B] /\ base \in A /\ F \in [A \X B -> A]
  BY DEF FoldTypes
<1>2. PICK f \in [SUBSET (1..N) -> A] : Recursion(f, N, base, F, list)
  BY <1>1, RecursionExists
<1>3. f = [s \in SUBSET (1..N) |-> IF s = {} THEN base ELSE F[<<f[s \ {Max(s)}], list[Max(s)]>>]]
  BY <1>2 DEF Recursion
<1>4. ASSUME NEW s \in SUBSET (1..N), s # {} PROVE f[s \ {Max(s)}] \in A /\ list[Max(s)] \in B
  <2>1. Max(s) \in 1..N
    BY <1>1, <1>4, GreatestOf
  <2> QED BY <1>1, <1>2, <2>1
<1> QED BY <1>1, <1>3, <1>4 DEF Unfolded

\* What every step of a fold keeps holds of what it computes.
LEMMA FoldKeeps ==
    ASSUME NEW A, NEW B, NEW base, NEW F, NEW list, FoldTypes(A, B, base, F, list),
           NEW it, Unfolds(it, A, base, F, list),
           NEW Good, <<0, base>> \in Good,
           \A k \in 1..Len(list), a \in A : <<k - 1, a>> \in Good => <<k, F[<<a, list[k]>>]>> \in Good
    PROVE  it[DOMAIN list] \in A /\ <<Len(list), it[DOMAIN list]>> \in Good
<1> DEFINE N == Len(list)
           S == {k \in Nat : k <= N => it[1..k] \in A /\ <<k, it[1..k]>> \in Good}
<1>1. N \in Nat /\ DOMAIN list = 1..N /\ (\A k \in 1..N : list[k] \in B) /\ base \in A /\ F \in [A \X B -> A]
  BY DEF FoldTypes
<1>2. 0 \in S
  <2>1. 1..0 = {}
    OBVIOUS
  <2> QED BY <1>1, <2>1 DEF Unfolds
<1>3. ASSUME NEW k \in Nat, k \in S PROVE k + 1 \in S
  <2> SUFFICES ASSUME k + 1 <= N PROVE it[1..k + 1] \in A /\ <<k + 1, it[1..k + 1]>> \in Good
    OBVIOUS
  <2>1. k + 1 \in 1..N /\ (k + 1) - 1 = k /\ it[1..k] \in A /\ <<k, it[1..k]>> \in Good
    BY <1>1, <1>3
  <2>2. Max(1..k + 1) = k + 1 /\ (1..k + 1) \ {k + 1} = 1..k /\ 1..k + 1 # {}
    <3>1. k + 1 \in Nat /\ k + 1 # 0
      OBVIOUS
    <3> QED BY <2>1, <3>1, IntervalTop
  <2>3. 1..k + 1 \in SUBSET (DOMAIN list)
    BY <1>1, <2>1
  <2>4. it[1..k + 1] = F[<<it[1..k], list[k + 1]>>]
    BY <2>1, <2>2, <2>3 DEF Unfolds
  <2>5. F[<<it[1..k], list[k + 1]>>] \in A
    BY <1>1, <2>1
  <2>6. <<k + 1, F[<<it[1..k], list[k + 1]>>]>> \in Good
    BY <2>1
  <2> QED BY <2>4, <2>5, <2>6
<1> HIDE DEF S
<1>4. Nat \subseteq S
  BY <1>2, <1>3, NatSetInduction
<1> QED BY <1>1, <1>4 DEF S

\* The recursion over the numbers below a bound.
Iterates(f, base, F, n) == f = [k \in 0..n |-> IF k = 0 THEN base ELSE F[f[k - 1]]]

LEMMA IterationExists ==
    ASSUME NEW A, NEW base \in A, NEW F \in [A -> A], NEW N \in Nat
    PROVE  \E f \in [0..N -> A] : Iterates(f, base, F, N)
<1> DEFINE Has(n) == \E f \in [0..n -> A] : Iterates(f, base, F, n)
           S == {n \in Nat : Has(n)}
<1>1. 0 \in S
  <2> DEFINE f == [k \in 0..0 |-> base]
  <2>1. f \in [0..0 -> A] /\ f = [k \in 0..0 |-> IF k = 0 THEN base ELSE F[f[k - 1]]]
    OBVIOUS
  <2> HIDE DEF f
  <2> QED BY <2>1 DEF Iterates
<1>2. ASSUME NEW n \in Nat, Has(n) PROVE Has(n + 1)
  <2>1. PICK f \in [0..n -> A] : Iterates(f, base, F, n)
    BY <1>2
  <2> DEFINE g == [k \in 0..n + 1 |-> IF k = n + 1 THEN F[f[n]] ELSE f[k]]
  <2>2. \A k \in 0..n + 1 : k \in 0..n \/ k = n + 1
    OBVIOUS
  <2>3. g \in [0..n + 1 -> A]
    <3>1. f[n] \in A /\ F[f[n]] \in A
      OBVIOUS
    <3> QED BY <2>2, <3>1
  <2>4. (\A k \in 0..n : g[k] = f[k]) /\ g[n + 1] = F[f[n]]
    OBVIOUS
  <2> HIDE DEF g
  <2>5. \A k \in 0..n : f[k] = IF k = 0 THEN base ELSE F[f[k - 1]]
    BY <2>1 DEF Iterates
  <2>6. ASSUME NEW k \in 0..n + 1 PROVE g[k] = IF k = 0 THEN base ELSE F[g[k - 1]]
    <3>1. CASE k \in 0..n
      <4>1. k # 0 => k - 1 \in 0..n
        BY <3>1
      <4> QED BY <2>4, <2>5, <3>1, <4>1
    <3>2. CASE k = n + 1
      <4>1. k # 0 /\ k - 1 = n /\ n \in 0..n
        BY <3>2
      <4> QED BY <2>4, <3>2, <4>1
    <3> QED BY <2>2, <3>1, <3>2
  <2>7. g = [k \in 0..n + 1 |-> IF k = 0 THEN base ELSE F[g[k - 1]]]
    BY <2>3, <2>6
  <2> QED BY <2>3, <2>7 DEF Iterates
<1> HIDE DEF Has
<1>3. \A n \in Nat : n \in S => n + 1 \in S
  BY <1>2
<1> HIDE DEF S
<1>4. Nat \subseteq S
  BY <1>1, <1>3, NatSetInduction
<1> QED BY <1>4 DEF S, Has

=============================================================================

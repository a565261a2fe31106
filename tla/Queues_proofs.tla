---------------------------- MODULE Queues_proofs ----------------------------
(***************************************************************************)
(* Lemmas about numbers and sequences.  The library's induction theorems   *)
(* take a predicate; SetInduction takes a set, which the provers can       *)
(* instantiate, and carries the inductions over data.                      *)
(***************************************************************************)
EXTENDS Queues, WellFoundedInduction, TLAPS

\* A set of natural numbers that has a member has a least one.
LEMMA LeastOf ==
  ASSUME NEW S \in SUBSET Nat, S # {}
  PROVE  \E n \in S : \A m \in S : n <= m
<1>1. PICK n \in S : \A m \in S : <<m, n>> \notin OpToRel(<, Nat)
  BY NatLessThanWellFounded, WFMin, Zenon
<1>2. ASSUME NEW m \in S PROVE n <= m
  <2>1. <<m, n>> \in Nat \X Nat /\ <<m, n>> \notin OpToRel(<, Nat)
    BY <1>1
  <2>2. ~(m < n)
    BY <2>1 DEF OpToRel
  <2> QED
    BY <2>2
<1> QED
  BY <1>2

\* A set of numbers below a bound that has a member has a greatest one.
LEMMA GreatestOf ==
  ASSUME NEW k \in Nat, NEW S \in SUBSET (0..k), S # {}
  PROVE  \E n \in S : \A m \in S : m <= n
<1> DEFINE T == {k - n : n \in S}
<1>1. T \in SUBSET Nat /\ T # {}
  <2>1. ASSUME NEW n \in S PROVE k - n \in Nat
    <3>1. n \in 0..k
      OBVIOUS
    <3> QED
      BY <3>1
  <2>2. PICK n \in S : TRUE
    OBVIOUS
  <2>3. k - n \in T
    OBVIOUS
  <2> QED
    BY <2>1, <2>3
<1>2. PICK t \in T : \A u \in T : t <= u
  <2> HIDE DEF T
  <2> QED
    BY <1>1, LeastOf
<1>3. PICK n \in S : t = k - n
  BY <1>2
<1>4. ASSUME NEW m \in S PROVE m <= n
  <2>1. k - m \in T
    OBVIOUS
  <2>2. k - n <= k - m
    BY <1>2, <1>3, <2>1
  <2> QED
    BY <2>2
<1> QED
  BY <1>4

\* Induction over the natural numbers, for a set instead of a predicate.
LEMMA SetInduction ==
  ASSUME NEW P, 0 \in P, \A n \in Nat : n \in P => n + 1 \in P
  PROVE  Nat \subseteq P
<1> DEFINE F == Nat \ P
<1>1. SUFFICES ASSUME F # {} PROVE FALSE
  OBVIOUS
<1>2. PICK n \in F : \A m \in F : n <= m
  <2>1. F \in SUBSET Nat
    OBVIOUS
  <2> HIDE DEF F
  <2> QED
    BY <1>1, <2>1, LeastOf
<1>3. n # 0 /\ n - 1 \in Nat
  OBVIOUS
<1>4. n - 1 \in P
  BY <1>2, <1>3
<1> QED
  BY <1>3, <1>4

\* f is computed on 0..k from base, each value by a step from the one before.
Computes(f, X, k, base, step) ==
    /\ f \in [0..k -> X]
    /\ f[0] = base
    /\ \A n \in 1..k : f[n] = step[n][f[n - 1]]

\* A recursive function exists on 0..k, when its steps stay within a set.
LEMMA RecursionExists ==
  ASSUME NEW X, NEW k \in Nat, NEW base \in X, NEW step \in [1..k -> [X -> X]]
  PROVE  \E f : Computes(f, X, k, base, step)
<1> DEFINE Rec(f, m) == /\ f \in [0..m -> X]
                        /\ f[0] = base
                        /\ \A n \in 1..m : n <= k => f[n] = step[n][f[n - 1]]
           P == {m \in Nat : \E f : Rec(f, m)}
<1>1. 0 \in P
  <2>1. Rec([n \in 0..0 |-> base], 0)
    OBVIOUS
  <2> QED
    BY <2>1
<1>2. ASSUME NEW m \in P PROVE m + 1 \in P
  <2>1. PICK f : Rec(f, m)
    OBVIOUS
  <2> DEFINE v == IF m + 1 <= k THEN step[m + 1][f[m]] ELSE base
             g == [n \in 0..(m + 1) |-> IF n <= m THEN f[n] ELSE v]
  <2>2. v \in X
    <3>1. f[m] \in X
      BY <2>1
    <3>2. m + 1 <= k => step[m + 1] \in [X -> X]
      OBVIOUS
    <3> QED
      BY <3>1, <3>2
  <2>3. m + 1 <= k => v = step[m + 1][f[m]]
    OBVIOUS
  <2> HIDE DEF v
  <2>4. /\ g \in [0..(m + 1) -> X]
        /\ \A n \in 0..m : g[n] = f[n]
        /\ g[m + 1] = v
    BY <2>1, <2>2
  <2> HIDE DEF g
  <2>5. ASSUME NEW n \in 1..(m + 1), n <= k PROVE g[n] = step[n][g[n - 1]]
    <3>1. CASE n <= m
      <4>1. n \in 1..m /\ n \in 0..m /\ n - 1 \in 0..m
        BY <3>1
      <4>2. f[n] = step[n][f[n - 1]]
        BY <2>1, <2>5, <4>1
      <4>3. g[n] = f[n] /\ g[n - 1] = f[n - 1]
        BY <2>4, <4>1
      <4> QED
        BY <4>2, <4>3
    <3>2. CASE n = m + 1
      <4>1. n - 1 = m /\ m \in 0..m
        BY <3>2
      <4>2. g[m] = f[m] /\ g[m + 1] = step[m + 1][f[m]]
        BY <2>3, <2>4, <2>5, <3>2, <4>1
      <4> QED
        BY <3>2, <4>1, <4>2
    <3> QED
      BY <3>1, <3>2
  <2>6. Rec(g, m + 1)
    BY <2>1, <2>4, <2>5
  <2> QED
    BY <2>6
<1>3. k \in P
  <2> HIDE DEF P
  <2> QED
    BY <1>1, <1>2, SetInduction
<1>4. PICK f : Rec(f, k)
  BY <1>3
<1>5. Computes(f, X, k, base, step)
  BY <1>4 DEF Computes
<1> QED
  BY <1>5

\* Pick is computed by the function its definition names: there is one.
LEMMA PickDef ==
  ASSUME NEW q, NEW S, Len(q) \in Nat
  PROVE  \E f : /\ f = [n \in 0..Len(q) |->
                          IF n = 0 THEN <<>>
                          ELSE IF q[n] \in S THEN Append(f[n - 1], q[n])
                          ELSE f[n - 1]]
                /\ Pick(q, S) = f[Len(q)]
<1> DEFINE Rec(f, k) == f = [n \in 0..k |->
                          IF n = 0 THEN <<>>
                          ELSE IF q[n] \in S THEN Append(f[n - 1], q[n])
                          ELSE f[n - 1]]
           P == {k \in Nat : \E f : Rec(f, k)}
<1>1. 0 \in P
  <2>1. Rec([n \in 0..0 |-> <<>>], 0)
    OBVIOUS
  <2> QED
    BY <2>1
<1>2. ASSUME NEW k \in P PROVE k + 1 \in P
  <2>1. PICK f : Rec(f, k)
    OBVIOUS
  <2> DEFINE g == [n \in 0..(k + 1) |->
                     IF n <= k THEN f[n]
                     ELSE IF q[n] \in S THEN Append(f[k], q[n])
                     ELSE f[k]]
  <2>2. \A n \in 0..k : f[n] = IF n = 0 THEN <<>>
                               ELSE IF q[n] \in S THEN Append(f[n - 1], q[n])
                               ELSE f[n - 1]
    <3> SUFFICES ASSUME NEW n \in 0..k
                 PROVE f[n] = IF n = 0 THEN <<>>
                               ELSE IF q[n] \in S THEN Append(f[n - 1], q[n])
                               ELSE f[n - 1]
      OBVIOUS
    <3> QED
      BY <2>1, Zenon
  <2>3. /\ \A n \in 0..k : g[n] = f[n]
        /\ g[k + 1] = IF q[k + 1] \in S THEN Append(f[k], q[k + 1]) ELSE f[k]
        /\ g = [n \in 0..(k + 1) |-> g[n]]
    OBVIOUS
  <2> HIDE DEF g
  <2>4. ASSUME NEW n \in 0..(k + 1)
        PROVE  g[n] = IF n = 0 THEN <<>>
                      ELSE IF q[n] \in S THEN Append(g[n - 1], q[n])
                      ELSE g[n - 1]
    <3>1. CASE n \in 0..k
      <4>1. n # 0 => n - 1 \in 0..k
        BY <3>1
      <4> QED
        BY <2>2, <2>3, <3>1, <4>1
    <3>2. CASE n = k + 1
      <4>1. n - 1 = k /\ k \in 0..k /\ n # 0
        BY <3>2
      <4> QED
        BY <2>3, <3>2, <4>1
    <3> QED
      BY <3>1, <3>2
  <2>5. g = [n \in 0..(k + 1) |-> IF n = 0 THEN <<>>
                      ELSE IF q[n] \in S THEN Append(g[n - 1], q[n])
                      ELSE g[n - 1]]
    BY <2>3, <2>4
  <2>6. Rec(g, k + 1)
    BY <2>5, Zenon
  <2> HIDE DEF Rec
  <2> QED
    BY <2>6
<1>3. Len(q) \in P
  <2> HIDE DEF P
  <2> QED
    BY <1>1, <1>2, SetInduction
<1>4. PICK g : Rec(g, Len(q))
  BY <1>3
<1> DEFINE h == CHOOSE f : Rec(f, Len(q))
<1>5. Rec(h, Len(q))
  <2> HIDE DEF Rec
  <2> QED
    BY <1>4
<1>6. Pick(q, S) = h[Len(q)]
  BY DEF Pick
<1> QED
  BY <1>5, <1>6

-------------------------------------------------------------------------------
\* What a sequence holds.

\* The empty sequence is one over any set.
LEMMA EmptyTyped == \A S : <<>> \in Seq(S) /\ Len(<<>>) = 0
  OBVIOUS

\* Nothing is in the empty sequence.
LEMMA EmptyRange == <<>> \in Seq({}) /\ Range(<<>>) = {}
  BY DEF Range

\* What a sequence over S holds is in S.
LEMMA MemberOf ==
  ASSUME NEW T, NEW q \in Seq(T)
  PROVE  /\ Range(q) = {q[i] : i \in 1..Len(q)}
         /\ Range(q) \subseteq T
         /\ q \in Seq(Range(q))
  BY DEF Range

\* Append adds one member.
LEMMA AppendRange ==
  ASSUME NEW T, NEW q \in Seq(T), NEW e
  PROVE  Range(Append(q, e)) = Range(q) \cup {e}
<1> DEFINE U == T \cup {e}
           a == Append(q, e)
<1>1. q \in Seq(U) /\ a \in Seq(U) /\ Len(a) = Len(q) + 1
  OBVIOUS
<1>2. a[Len(q) + 1] = e /\ \A i \in 1..Len(q) : a[i] = q[i]
  OBVIOUS
<1>3. Range(a) = {a[i] : i \in 1..(Len(q) + 1)} /\ Range(q) = {q[i] : i \in 1..Len(q)}
  BY <1>1 DEF Range
<1>4. 1..(Len(q) + 1) = (1..Len(q)) \cup {Len(q) + 1}
  OBVIOUS
<1> HIDE DEF a
<1> QED
  BY <1>2, <1>3, <1>4 DEF a

\* A concatenation holds what its parts hold.
LEMMA ConcatRange ==
  ASSUME NEW T, NEW p \in Seq(T), NEW q \in Seq(T)
  PROVE  p \o q \in Seq(T) /\ Range(p \o q) = Range(p) \cup Range(q)
<1> DEFINE c == p \o q
<1>1. c \in Seq(T) /\ Len(c) = Len(p) + Len(q)
  OBVIOUS
<1>2. /\ \A i \in 1..Len(p) : i \in 1..Len(c) /\ c[i] = p[i]
      /\ \A i \in 1..Len(q) : i + Len(p) \in 1..Len(c) /\ c[i + Len(p)] = q[i]
      /\ \A i \in 1..Len(c) : \/ i \in 1..Len(p) /\ c[i] = p[i]
                              \/ i - Len(p) \in 1..Len(q) /\ c[i] = q[i - Len(p)]
  OBVIOUS
<1> HIDE DEF c
<1>3. Range(c) = {c[i] : i \in 1..Len(c)}
  BY <1>1, MemberOf
<1>4. Range(p) = {p[i] : i \in 1..Len(p)} /\ Range(q) = {q[i] : i \in 1..Len(q)}
  BY MemberOf
<1>5. Range(c) = Range(p) \cup Range(q)
  BY <1>2, <1>3, <1>4
<1> QED
  BY <1>1, <1>5 DEF c

\* Pick keeps what is in the set, and nothing else.
LEMMA PickRange ==
  ASSUME NEW T, NEW q \in Seq(T), NEW S
  PROVE  /\ Pick(q, S) \in Seq(T)
         /\ Range(Pick(q, S)) = Range(q) \cap S
         /\ Len(Pick(q, S)) <= Len(q)
<1>1. PICK f : /\ f = [n \in 0..Len(q) |->
                          IF n = 0 THEN <<>>
                          ELSE IF q[n] \in S THEN Append(f[n - 1], q[n])
                          ELSE f[n - 1]]
               /\ Pick(q, S) = f[Len(q)]
  <2>1. Len(q) \in Nat
    OBVIOUS
  <2> QED
    BY <2>1, PickDef, Zenon
<1> DEFINE Upto(n) == {q[i] : i \in 1..n}
           Good(n) == /\ f[n] \in Seq(T)
                      /\ Range(f[n]) = Upto(n) \cap S
                      /\ Len(f[n]) <= n
           P == {n \in Nat : n <= Len(q) => Good(n)}
<1>2. 0 \in P
  <2>1. f[0] = <<>>
    BY <1>1
  <2>2. Upto(0) = {}
    OBVIOUS
  <2> HIDE DEF Upto
  <2>3. <<>> \in Seq(T) /\ Len(<<>>) = 0
    OBVIOUS
  <2>4. Good(0)
    BY <2>1, <2>2, <2>3, EmptyRange
  <2> QED
    BY <2>4
<1>3. ASSUME NEW n \in Nat, n \in P PROVE n + 1 \in P
  <2>1. SUFFICES ASSUME n + 1 <= Len(q) PROVE Good(n + 1)
    OBVIOUS
  <2>2. Good(n) /\ n + 1 \in 1..Len(q) /\ q[n + 1] \in T
    BY <1>3, <2>1
  <2>3. f[n + 1] = IF q[n + 1] \in S THEN Append(f[n], q[n + 1]) ELSE f[n]
    <3>1. n + 1 \in 0..Len(q) /\ n + 1 # 0 /\ (n + 1) - 1 = n
      BY <2>1
    <3>2. f[n + 1] = IF n + 1 = 0 THEN <<>>
                     ELSE IF q[n + 1] \in S THEN Append(f[(n + 1) - 1], q[n + 1])
                     ELSE f[(n + 1) - 1]
      BY <1>1, <3>1, Zenon
    <3> QED
      BY <3>1, <3>2
  <2>4. Upto(n + 1) = Upto(n) \cup {q[n + 1]}
    OBVIOUS
  <2> HIDE DEF Upto
  <2>5. CASE q[n + 1] \in S
    <3>1. f[n + 1] = Append(f[n], q[n + 1])
      BY <2>3, <2>5
    <3>2. Range(f[n + 1]) = Range(f[n]) \cup {q[n + 1]}
      BY <2>2, <3>1, AppendRange
    <3> QED
      BY <2>2, <2>4, <2>5, <3>1, <3>2
  <2>6. CASE q[n + 1] \notin S
    BY <2>2, <2>3, <2>4, <2>6
  <2> QED
    BY <2>5, <2>6
<1>4. Good(Len(q))
  <2>1. Len(q) \in P
    <3> HIDE DEF P
    <3> QED
      BY <1>2, <1>3, SetInduction
  <2> QED
    BY <2>1
<1>5. Upto(Len(q)) = Range(q)
  BY DEF Range
<1> QED
  BY <1>1, <1>4, <1>5

\* Without leaves the others.
LEMMA WithoutRange ==
  ASSUME NEW T, NEW q \in Seq(T), NEW S
  PROVE  /\ Without(q, S) \in Seq(T)
         /\ Range(Without(q, S)) = Range(q) \ S
         /\ Len(Without(q, S)) <= Len(q)
<1>1. Range(q) \cap (Range(q) \ S) = Range(q) \ S
  OBVIOUS
<1> QED
  BY <1>1, PickRange DEF Without
===============================================================================

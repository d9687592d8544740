-------------------------- MODULE SelectionProofs --------------------------
(***************************************************************************)
(* What Select gives, for every sequence and every set: the facts that the *)
(* proofs about queues, stores and logs need. They are inductions over the *)
(* length of the sequence, each by its least counterexample.               *)
(***************************************************************************)
EXTENDS Selection, WellFoundedInduction, TLAPS

\* A set of numbers that is not empty has a least element: what the proofs
\* by induction below rest on.
LEMMA LeastNumber ==
  ASSUME NEW T, T \subseteq Nat, T # {}
  PROVE  \E x \in T : \A y \in T : x <= y
<1> DEFINE R == OpToRel(<, Nat)
<1>1. \A x, y \in Nat : <<y, x>> \in R <=> y < x
  BY DEF OpToRel
<1>2. IsWellFoundedOn(R, Nat)
  BY NatLessThanWellFounded
<1> HIDE DEF R
<1>3. \E x \in T : \A y \in T : ~(<<y, x>> \in R)
  BY <1>2, WFMin
<1>4. PICK x \in T : \A y \in T : ~(<<y, x>> \in R)
  BY <1>3
<1>5. ASSUME NEW y \in T PROVE x <= y
  <2>1. x \in Nat /\ y \in Nat
    BY <1>5
  <2>2. ~(y < x)
    BY <1>1, <1>4, <2>1
  <2> QED
    BY <2>1, <2>2
<1> QED
  BY <1>5

\* g is the selection from the first n elements of s, step by step.
Selects(g, s, S, n) ==
  g = [i \in 0..n |-> IF i = 0 THEN << >>
                      ELSE IF s[i] \in S THEN Append(g[i - 1], s[i])
                      ELSE g[i - 1]]

\* There is such a function for every length, by induction on it.
LEMMA SelectionExists ==
  ASSUME NEW s, NEW S, NEW n \in Nat
  PROVE  \E g : Selects(g, s, S, n)
<1> DEFINE Bad == {m \in Nat : ~ \E g : Selects(g, s, S, m)}
<1>1. SUFFICES ASSUME Bad # {} PROVE FALSE
  OBVIOUS
<1>2. PICK m \in Bad : \A y \in Bad : m <= y
  <2>1. Bad \subseteq Nat
    OBVIOUS
  <2> HIDE DEF Bad
  <2> QED
    BY <1>1, <2>1, LeastNumber
<1>3. m # 0
  <2>1. Selects([i \in 0..0 |-> << >>], s, S, 0)
    BY DEF Selects
  <2> QED
    BY <2>1
<1>4. m - 1 \in Nat /\ m - 1 \notin Bad
  BY <1>2, <1>3
<1>5. PICK g : Selects(g, s, S, m - 1)
  BY <1>4
<1> DEFINE h == [i \in 0..m |-> IF i < m THEN g[i]
                                ELSE IF s[m] \in S THEN Append(g[m - 1], s[m])
                                ELSE g[m - 1]]
<1>6. Selects(h, s, S, m)
  <2>1. ASSUME NEW i \in 0..m
        PROVE  h[i] = IF i = 0 THEN << >>
                      ELSE IF s[i] \in S THEN Append(h[i - 1], s[i])
                      ELSE h[i - 1]
    <3>1. CASE i = m
      <4>1. i - 1 \in 0..m /\ i - 1 < m
        BY <3>1, <1>3
      <4> QED
        BY <3>1, <4>1, <1>3
    <3>2. CASE i # m /\ i # 0
      <4>1. i \in 0..(m - 1) /\ i - 1 \in 0..m /\ i - 1 < m /\ i < m
        BY <3>2
      <4>2. g[i] = IF s[i] \in S THEN Append(g[i - 1], s[i]) ELSE g[i - 1]
        BY <4>1, <1>5, <3>2 DEF Selects
      <4> QED
        BY <4>1, <4>2, <3>2
    <3>3. CASE i = 0
      <4>1. g[0] = << >> /\ 0 < m
        BY <1>5, <1>3, <1>4 DEF Selects
      <4> QED
        BY <3>3, <4>1
    <3> QED
      BY <3>1, <3>2, <3>3
  <2> HIDE DEF h
  <2>2. h = [i \in 0..m |-> h[i]]
    BY DEF h
  <2> QED
    BY <2>1, <2>2 DEF Selects
<1> QED
  BY <1>6

\* Its values, one element at a time.
LEMMA SelectsStep ==
  ASSUME NEW s, NEW S, NEW g, NEW n \in Nat, Selects(g, s, S, n)
  PROVE  /\ g[0] = << >>
         /\ \A i \in 1..n :
              g[i] = IF s[i] \in S THEN Append(g[i - 1], s[i]) ELSE g[i - 1]
<1> DEFINE f(i) == IF i = 0 THEN << >>
                   ELSE IF s[i] \in S THEN Append(g[i - 1], s[i])
                   ELSE g[i - 1]
<1>1. g = [i \in 0..n |-> f(i)]
  BY DEF Selects
<1>2. \A i \in 0..n : g[i] = f(i)
  <2> HIDE DEF f
  <2> QED
    BY <1>1, Zenon
<1> QED
  BY <1>2

\* What is selected from the beginning of a sequence does not depend on the
\* rest of it.
LEMMA SelectionsAgree ==
  ASSUME NEW s, NEW t, NEW S, NEW g, NEW h, NEW m \in Nat, NEW n \in Nat,
         Selects(g, s, S, m), Selects(h, t, S, n),
         NEW k \in Nat, k <= m, k <= n, \A i \in 1..k : s[i] = t[i]
  PROVE  g[k] = h[k]
<1> DEFINE Bad == {i \in 0..k : g[i] # h[i]}
<1>1. SUFFICES ASSUME Bad # {} PROVE FALSE
  OBVIOUS
<1>2. PICK i \in Bad : \A y \in Bad : i <= y
  <2>1. Bad \subseteq Nat
    OBVIOUS
  <2> HIDE DEF Bad
  <2> QED
    BY <1>1, <2>1, LeastNumber
<1>3. i \in 0..m /\ i \in 0..n
  BY <1>2
<1>4. i # 0
  BY <1>2, <1>3 DEF Selects
<1>5. i - 1 \in 0..k /\ i - 1 \notin Bad
  BY <1>2, <1>4
<1>6. g[i - 1] = h[i - 1] /\ s[i] = t[i]
  BY <1>2, <1>4, <1>5
<1>7. i \in 1..m /\ i \in 1..n
  BY <1>3, <1>4
<1> QED
  BY <1>2, <1>6, <1>7, SelectsStep

\* SelectUpTo is such a function.
LEMMA SelectIs ==
  ASSUME NEW s, NEW S, Len(s) \in Nat
  PROVE  Selects(SelectUpTo(s, S), s, S, Len(s))
<1>1. PICK g : Selects(g, s, S, Len(s))
  BY SelectionExists
<1> QED
  BY <1>1 DEF SelectUpTo, Selects

\* Nothing is selected from the empty sequence.
THEOREM SelectEmpty == \A S : Select(<< >>, S) = << >>
<1> TAKE S
<1>1. Selects(SelectUpTo(<< >>, S), << >>, S, 0)
  BY SelectIs
<1> QED
  BY <1>1 DEF Select, Selects

\* An element appended to a sequence is appended to the selection when it is
\* in the set, and changes nothing when it is not.
THEOREM SelectAppend ==
  ASSUME NEW T, NEW s \in Seq(T), NEW e, NEW S
  PROVE  Select(Append(s, e), S) =
           IF e \in S THEN Append(Select(s, S), e) ELSE Select(s, S)
<1> DEFINE t == Append(s, e)
           n == Len(s)
           g == SelectUpTo(s, S)
           h == SelectUpTo(t, S)
<1>1. n \in Nat /\ Len(t) = n + 1 /\ t[n + 1] = e /\ \A i \in 1..n : s[i] = t[i]
  OBVIOUS
<1>2. Selects(g, s, S, n) /\ Selects(h, t, S, n + 1)
  <2>1. Selects(SelectUpTo(s, S), s, S, Len(s))
    BY <1>1, SelectIs
  <2> HIDE DEF t
  <2>2. Selects(SelectUpTo(t, S), t, S, Len(t))
    BY <1>1, SelectIs
  <2> QED
    BY <1>1, <2>1, <2>2
<1>3. Select(s, S) = g[n] /\ Select(t, S) = h[n + 1]
  BY <1>1 DEF Select
<1> HIDE DEF t, n, g, h
<1>4. g[n] = h[n]
  BY <1>1, <1>2, SelectionsAgree
<1>5. h[n + 1] = IF e \in S THEN Append(h[n], e) ELSE h[n]
  <2>1. n + 1 \in Nat /\ n + 1 \in 1..(n + 1) /\ (n + 1) - 1 = n
    BY <1>1
  <2> QED
    BY <1>1, <1>2, <2>1, SelectsStep
<1> QED
  BY <1>3, <1>4, <1>5 DEF t

\* What is selected are elements of the sequence that are in the set.
THEOREM SelectType ==
  ASSUME NEW T, NEW s \in Seq(T), NEW S
  PROVE  Select(s, S) \in Seq(T \cap S)
<1> DEFINE g == SelectUpTo(s, S)
           n == Len(s)
<1>1. n \in Nat /\ Selects(g, s, S, n) /\ Select(s, S) = g[n]
  BY SelectIs DEF Select
<1> HIDE DEF g
<1> DEFINE Bad == {i \in 0..n : g[i] \notin Seq(T \cap S)}
<1>2. SUFFICES ASSUME Bad # {} PROVE FALSE
  BY <1>1
<1>3. PICK i \in Bad : \A y \in Bad : i <= y
  <2>1. Bad \subseteq Nat
    BY <1>1
  <2> HIDE DEF Bad
  <2> QED
    BY <1>2, <2>1, LeastNumber
<1>4. i # 0
  BY <1>1, <1>3 DEF Selects
<1>5. i - 1 \in 0..n /\ g[i - 1] \in Seq(T \cap S) /\ s[i] \in T
  BY <1>1, <1>3, <1>4
<1>6. g[i] = IF s[i] \in S THEN Append(g[i - 1], s[i]) ELSE g[i - 1]
  <2>1. i \in 1..n
    BY <1>1, <1>3, <1>4
  <2> QED
    BY <1>1, <2>1, SelectsStep
<1>7. s[i] \in S => Append(g[i - 1], s[i]) \in Seq(T \cap S)
  BY <1>5
<1> QED
  BY <1>3, <1>5, <1>6, <1>7

\* Nothing is repeated.
Distinct(s) == \A i, j \in 1..Len(s) : s[i] = s[j] => i = j

\* r is the selection from the first i elements of s: as a set, in its length,
\* and without repetition where s has none.
Faithful(r, s, S, i) ==
  /\ Len(r) \in Nat /\ Len(r) <= i
  /\ \A j \in 1..Len(r) : r[j] \in S /\ \E m \in 1..i : s[m] = r[j]
  /\ \A m \in 1..i : s[m] \in S => \E j \in 1..Len(r) : r[j] = s[m]
  /\ Distinct(s) => Distinct(r)

\* One more element keeps a selection faithful.
LEMMA FaithfulStep ==
  ASSUME NEW T, NEW s \in Seq(T), NEW S, NEW i \in 1..Len(s), NEW r \in Seq(T),
         Faithful(r, s, S, i - 1)
  PROVE  Faithful(IF s[i] \in S THEN Append(r, s[i]) ELSE r, s, S, i)
<1>1. i \in Nat /\ i - 1 \in Nat /\ Len(s) \in Nat /\ s[i] \in T
  OBVIOUS
<1>2. CASE s[i] \notin S
  <2>1. \A m \in 1..i : m = i \/ m \in 1..(i - 1)
    BY <1>1
  <2>2. 1..(i - 1) \subseteq 1..i /\ Len(r) <= i
    BY <1>1 DEF Faithful
  <2>3. \A j \in 1..Len(r) : r[j] \in S /\ \E m \in 1..i : s[m] = r[j]
    BY <2>2 DEF Faithful
  <2>4. \A m \in 1..i : s[m] \in S => \E j \in 1..Len(r) : r[j] = s[m]
    BY <1>2, <2>1 DEF Faithful
  <2>5. Faithful(r, s, S, i)
    BY <2>2, <2>3, <2>4 DEF Faithful
  <2> QED
    BY <1>2, <2>5
<1>3. CASE s[i] \in S
  <2> DEFINE q == Append(r, s[i])
  <2>1. /\ Len(r) \in Nat /\ Len(q) = Len(r) + 1 /\ q[Len(r) + 1] = s[i]
        /\ \A j \in 1..Len(r) : q[j] = r[j]
    BY <1>1
  <2> HIDE DEF q
  <2>2. \A j \in 1..Len(q) : j = Len(r) + 1 \/ j \in 1..Len(r)
    BY <2>1
  <2>3. \A j \in 1..Len(r) : j \in 1..Len(q)
    BY <2>1
  <2>4. Len(r) + 1 \in 1..Len(q) /\ Len(q) \in Nat /\ Len(q) <= i
    BY <1>1, <2>1 DEF Faithful
  <2>5. \A m \in 1..i : m = i \/ m \in 1..(i - 1)
    BY <1>1
  <2>6. \A m \in 1..(i - 1) : m \in 1..i /\ m # i /\ m \in 1..Len(s)
    BY <1>1
  <2>7. \A j \in 1..Len(r) : r[j] \in S /\ \E m \in 1..(i - 1) : s[m] = r[j]
    BY DEF Faithful
  <2>8. \A j \in 1..Len(q) : q[j] \in S /\ \E m \in 1..i : s[m] = q[j]
    BY SMTT(30), <1>3, <2>1, <2>2, <2>6, <2>7
  <2>9. \A m \in 1..i : s[m] \in S => \E j \in 1..Len(q) : q[j] = s[m]
    <3>1. \A m \in 1..(i - 1) : s[m] \in S => \E j \in 1..Len(r) : r[j] = s[m]
      BY DEF Faithful
    <3> QED
      BY <2>1, <2>3, <2>4, <2>5, <3>1
  <2>10. ASSUME Distinct(s) PROVE Distinct(q)
    <3>1. Distinct(r)
      BY <2>10 DEF Faithful
    <3>2. \A j \in 1..Len(r) : r[j] # s[i]
      BY <2>6, <2>7, <2>10 DEF Distinct
    <3>3. ASSUME NEW j \in 1..Len(q), NEW k \in 1..Len(q), q[j] = q[k]
          PROVE  j = k
      <4>1. CASE j \in 1..Len(r) /\ k \in 1..Len(r)
        BY <2>1, <3>1, <3>3, <4>1 DEF Distinct
      <4>2. CASE j = Len(r) + 1 /\ k \in 1..Len(r)
        BY <2>1, <3>2, <3>3, <4>2
      <4>3. CASE k = Len(r) + 1 /\ j \in 1..Len(r)
        BY <2>1, <3>2, <3>3, <4>3
      <4> QED
        BY <2>2, <4>1, <4>2, <4>3
    <3> QED
      BY <3>3 DEF Distinct
  <2>11. Faithful(q, s, S, i)
    BY <2>4, <2>8, <2>9, <2>10 DEF Faithful
  <2> QED
    BY <1>3, <2>11 DEF q
<1> QED
  BY <1>2, <1>3

\* What Select gives has the elements of s that are in S and no other, is not
\* longer than s, and repeats nothing if s does not.
THEOREM SelectFaithful ==
  ASSUME NEW T, NEW s \in Seq(T), NEW S
  PROVE  Faithful(Select(s, S), s, S, Len(s))
<1> DEFINE g == SelectUpTo(s, S)
           n == Len(s)
<1>1. n \in Nat /\ Selects(g, s, S, n) /\ Select(s, S) = g[n]
  BY SelectIs DEF Select
<1> HIDE DEF g
<1> DEFINE Bad == {i \in 0..n : ~(g[i] \in Seq(T) /\ Faithful(g[i], s, S, i))}
<1>2. SUFFICES ASSUME Bad # {} PROVE FALSE
  BY <1>1
<1>3. PICK i \in Bad : \A y \in Bad : i <= y
  <2>1. Bad \subseteq Nat
    BY <1>1
  <2> HIDE DEF Bad
  <2> QED
    BY <1>2, <2>1, LeastNumber
<1>4. i # 0
  <2>1. g[0] = << >> /\ << >> \in Seq(T)
    BY <1>1 DEF Selects
  <2>2. Faithful(<< >>, s, S, 0)
    BY DEF Faithful, Distinct
  <2> QED
    BY <1>1, <1>3, <2>1, <2>2
<1>5. i \in 1..n /\ i - 1 \in 0..n /\ i - 1 \notin Bad
  BY <1>1, <1>3, <1>4
<1>6. g[i - 1] \in Seq(T) /\ Faithful(g[i - 1], s, S, i - 1)
  BY <1>5
<1>7. g[i] = IF s[i] \in S THEN Append(g[i - 1], s[i]) ELSE g[i - 1]
  BY <1>1, <1>5, SelectsStep
<1>8. g[i] \in Seq(T)
  <2>1. s[i] \in T
    BY <1>1, <1>5
  <2>2. Append(g[i - 1], s[i]) \in Seq(T)
    BY <1>6, <2>1
  <2> QED
    BY <1>6, <1>7, <2>2
<1>9. Faithful(g[i], s, S, i)
  BY <1>5, <1>6, <1>7, FaithfulStep
<1> QED
  BY <1>3, <1>8, <1>9
=============================================================================

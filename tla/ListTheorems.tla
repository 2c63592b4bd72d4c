----------------------------- MODULE ListTheorems -----------------------------
(***************************************************************************)
(* Recursion and induction up to a number, and what Filtered makes of a list.  *)
(***************************************************************************)
EXTENDS ForwardList, NaturalsInduction, WellFoundedInduction, TLAPS

-----------------------------------------------------------------------------
(* Recursion and induction.                                                *)

\* Every nonempty set of naturals has a least element.
LEMMA LeastOf ==
  ASSUME NEW S, S \subseteq Nat, S # {}
  PROVE  \E n \in S : \A k \in S : n <= k
<1>1. PICK n \in S : \A k \in S : <<k, n>> \notin OpToRel(<, Nat)
  BY WFMin, NatLessThanWellFounded, Zenon
<1>2. ASSUME NEW k \in S PROVE n <= k
  <2>1. n \in Nat /\ k \in Nat
    OBVIOUS
  <2>2. ~(k < n)
    BY <1>1, <2>1 DEF OpToRel
  <2>3. QED
    BY <2>1, <2>2
<1>3. QED
  BY <1>2

\* Induction up to n, with the set S of the numbers for which it holds.
LEMMA InductionOf ==
  ASSUME NEW n \in Nat, NEW S, 0 \in S, \A i \in 1 .. n : i - 1 \in S => i \in S
  PROVE  0 .. n \subseteq S
<1> DEFINE Out == (0 .. n) \ S
<1>1. SUFFICES ASSUME Out # {} PROVE FALSE
  OBVIOUS
<1>2. Out \subseteq Nat
  OBVIOUS
<1>3. PICK m \in Out : \A k \in Out : m <= k
  <2> HIDE DEF Out
  <2>1. QED
    BY <1>1, <1>2, LeastOf
<1>4. m \in 1 .. n /\ m - 1 \in 0 .. n
  BY <1>3
<1>5. m - 1 \in S
  BY <1>3, <1>4
<1>6. QED
  BY <1>3, <1>4, <1>5

\* g is what b and the functions step[i] define, line by line.
IsRecursion(g, n, V, b, step) ==
  /\ g \in [0 .. n -> V]
  /\ g[0] = b
  /\ \A i \in 1 .. n : g[i] = step[i][g[i - 1]]

\* A recursive function that is defined from line to line exists.
LEMMA RecursionOf ==
  ASSUME NEW n \in Nat, NEW V, NEW b \in V, NEW step \in [1 .. n -> [V -> V]]
  PROVE  \E g : IsRecursion(g, n, V, b, step)
<1> DEFINE Def(g, m) == g[0] = b /\ \A i \in 1 .. m : g[i] = step[i][g[i - 1]]
           Good == {m \in 0 .. n : \E g \in [0 .. m -> V] : Def(g, m)}
<1>1. 0 \in Good
  <2>1. [i \in {0} |-> b] \in [0 .. 0 -> V] /\ Def([i \in {0} |-> b], 0)
    OBVIOUS
  <2> HIDE DEF Def
  <2>2. QED
    BY <2>1
<1>2. ASSUME NEW m \in 1 .. n, m - 1 \in Good
      PROVE  m \in Good
  <2>1. PICK g \in [0 .. m - 1 -> V] : Def(g, m - 1)
    BY <1>2
  <2> DEFINE h == [i \in 0 .. m |-> IF i = m THEN step[m][g[m - 1]] ELSE g[i]]
  <2>2. step[m][g[m - 1]] \in V
    OBVIOUS
  <2>3. h \in [0 .. m -> V]
    BY <2>2
  <2>4. h[m] = step[m][h[m - 1]] /\ h[0] = b
    BY <2>1
  <2>5. ASSUME NEW i \in 1 .. m - 1 PROVE h[i] = step[i][h[i - 1]]
    BY <2>1
  <2>6. Def(h, m)
    <3> HIDE DEF h
    <3>1. QED
      BY <2>4, <2>5
  <2> HIDE DEF Def, h
  <2>7. QED
    BY <2>3, <2>6
<1>3. 0 .. n \subseteq Good
  <2> HIDE DEF Good
  <2>1. QED
    BY <1>1, <1>2, InductionOf
<1>4. QED
  BY <1>3 DEF IsRecursion

-----------------------------------------------------------------------------
(* Filtered.                                                                   *)

\* g[i] is the list that Filtered has made of the first i elements.
IsFiltered(g, s, S, E) ==
  /\ g \in [0 .. Len(s) -> Seq(E)]
  /\ g[0] = << >>
  /\ \A i \in 1 .. Len(s) :
       g[i] = IF s[i] \in S THEN Append(g[i - 1], s[i]) ELSE g[i - 1]
  /\ Filtered(s, S) = g[Len(s)]

\* The function Filtered recurs with has the values of its recursion.
LEMMA FilteredRecursion ==
  ASSUME NEW E, NEW s \in Seq(E), NEW S
  PROVE  \E g : IsFiltered(g, s, S, E)
<1> DEFINE n == Len(s)
           Line(i, t) == IF s[i] \in S THEN Append(t, s[i]) ELSE t
           step == [i \in 1 .. n |-> [t \in Seq(E) |-> Line(i, t)]]
           Def(f) == f = [i \in 0 .. n |-> IF i = 0 THEN << >> ELSE Line(i, f[i - 1])]
<1>1. n \in Nat /\ << >> \in Seq(E) /\ \A i \in 1 .. n : s[i] \in E
  OBVIOUS
<1>2. \A i \in 1 .. n, t \in Seq(E) : Line(i, t) \in Seq(E)
  BY <1>1
<1>3. step \in [1 .. n -> [Seq(E) -> Seq(E)]]
  BY <1>2
<1>5. PICK g \in [0 .. n -> Seq(E)] :
        g[0] = << >> /\ \A i \in 1 .. n : g[i] = step[i][g[i - 1]]
  <2> DEFINE V == Seq(E)
             b == << >>
  <2>1. n \in Nat /\ b \in V /\ step \in [1 .. n -> [V -> V]]
    BY <1>1, <1>3
  <2> HIDE DEF step, n, V, b
  <2>2. PICK g : IsRecursion(g, n, V, b, step)
    BY <2>1, RecursionOf
  <2>3. QED
    BY <2>2 DEF IsRecursion, V, b
<1>6. \A i \in 1 .. n : g[i] = Line(i, g[i - 1])
  <2>1. SUFFICES ASSUME NEW i \in 1 .. n PROVE g[i] = Line(i, g[i - 1])
    OBVIOUS
  <2>2. g[i - 1] \in Seq(E)
    BY <1>1
  <2>3. step[i][g[i - 1]] = Line(i, g[i - 1])
    BY <2>2
  <2>4. QED
    BY <2>3, <1>5
<1>7. Def(g)
  <2> HIDE DEF Line
  <2>1. QED
    BY <1>5, <1>6
<1> DEFINE f == CHOOSE f : Def(f)
<1>8. Def(f)
  <2> HIDE DEF Def
  <2>1. QED
    BY <1>7, Zenon
<1>9. f = g
  <2>1. f = [i \in 0 .. n |-> IF i = 0 THEN << >> ELSE Line(i, f[i - 1])]
    BY <1>8
  <2> HIDE DEF f, Line, n
  <2>2. \A i \in 0 .. n : f[i] = IF i = 0 THEN << >> ELSE Line(i, f[i - 1])
    BY <2>1
  <2> DEFINE Same == {i \in 0 .. n : f[i] = g[i]}
  <2>3. 0 \in Same
    <3>1. 0 \in 0 .. n
      BY <1>1
    <3>2. f[0] = << >>
      BY <2>2, <3>1
    <3>3. QED
      BY <3>1, <3>2, <1>5
  <2>4. \A i \in 1 .. n : i - 1 \in Same => i \in Same
    BY <2>2, <1>6
  <2>5. 0 .. n \subseteq Same
    <3> HIDE DEF Same
    <3>1. QED
      BY <1>1, <2>3, <2>4, InductionOf
  <2>6. QED
    BY <2>1, <2>5
<1>10. Filtered(s, S) = f[n]
  BY DEF Filtered
<1>11. QED
  <2>1. g \in [0 .. n -> Seq(E)] /\ g[0] = << >>
    BY <1>5
  <2>2. Filtered(s, S) = g[n]
    BY <1>9, <1>10
  <2>3. QED
    BY <2>1, <2>2, <1>6, Zenon DEF IsFiltered

\* Filtered, line by line.
LEMMA FilteredLines ==
  ASSUME NEW E, NEW s \in Seq(E), NEW S, NEW g, IsFiltered(g, s, S, E)
  PROVE  /\ \A i \in 0 .. Len(s) : g[i] \in Seq(E)
         /\ g[0] = << >> /\ Filtered(s, S) = g[Len(s)]
         /\ \A i \in 1 .. Len(s) :
              /\ i - 1 \in 0 .. Len(s) /\ s[i] \in E
              /\ s[i] \in S => g[i] = Append(g[i - 1], s[i])
              /\ s[i] \notin S => g[i] = g[i - 1]
<1>1. g \in [0 .. Len(s) -> Seq(E)] /\ g[0] = << >> /\ Filtered(s, S) = g[Len(s)]
  BY Zenon DEF IsFiltered
<1>2. \A i \in 1 .. Len(s) :
        g[i] = IF s[i] \in S THEN Append(g[i - 1], s[i]) ELSE g[i - 1]
  BY Zenon DEF IsFiltered
<1>3. \A i \in 0 .. Len(s) : g[i] \in Seq(E)
  BY <1>1
<1>4. \A i \in 1 .. Len(s) : i - 1 \in 0 .. Len(s) /\ s[i] \in E
  OBVIOUS
<1>5. \A i \in 1 .. Len(s) : /\ s[i] \in S => g[i] = Append(g[i - 1], s[i])
                             /\ s[i] \notin S => g[i] = g[i - 1]
  BY <1>2, Zenon
<1>6. QED
  BY <1>1, <1>3, <1>4, <1>5, Zenon

\* What is left is in the list and in S, and everything that is in both is left.
LEMMA FilteredElements ==
  ASSUME NEW E, NEW s \in Seq(E), NEW S
  PROVE  /\ Filtered(s, S) \in Seq(E)
         /\ \A k \in 1 .. Len(Filtered(s, S)) :
              Filtered(s, S)[k] \in S /\ \E j \in 1 .. Len(s) : s[j] = Filtered(s, S)[k]
         /\ \A j \in 1 .. Len(s) :
              s[j] \in S => \E k \in 1 .. Len(Filtered(s, S)) : Filtered(s, S)[k] = s[j]
<1>1. PICK g : IsFiltered(g, s, S, E)
  BY FilteredRecursion, Zenon
<1> DEFINE n == Len(s)
           Ok(i) ==
             /\ \A k \in 1 .. Len(g[i]) : g[i][k] \in S /\ \E j \in 1 .. i : s[j] = g[i][k]
             /\ \A j \in 1 .. i : s[j] \in S => \E k \in 1 .. Len(g[i]) : g[i][k] = s[j]
           Good == {i \in 0 .. n : Ok(i)}
<1>2. n \in Nat /\ \A i \in 0 .. n : g[i] \in Seq(E)
  BY <1>1, FilteredLines
<1>3. 0 \in Good
  <2>1. 0 \in 0 .. n /\ Len(g[0]) = 0
    BY <1>1, <1>2, FilteredLines
  <2>2. QED
    BY <2>1
<1>4. ASSUME NEW i \in 1 .. n, i - 1 \in Good
      PROVE  i \in Good
  <2>1. Ok(i - 1) /\ i - 1 \in 0 .. n /\ g[i - 1] \in Seq(E)
    BY <1>2, <1>4
  <2>2. CASE s[i] \notin S
    <3>1. g[i] = g[i - 1]
      BY <1>1, <2>2, FilteredLines
    <3>2. \A j \in 1 .. i : j \in 1 .. i - 1 \/ j = i
      BY <1>2
    <3>3. Ok(i)
      BY <2>1, <2>2, <3>1, <3>2
    <3>4. QED
      BY <3>3
  <2>3. CASE s[i] \in S
    <3>1. g[i] = Append(g[i - 1], s[i]) /\ s[i] \in E
      BY <1>1, <2>3, FilteredLines
    <3>2. /\ Len(g[i]) = Len(g[i - 1]) + 1
          /\ g[i][Len(g[i])] = s[i]
          /\ \A k \in 1 .. Len(g[i - 1]) : g[i][k] = g[i - 1][k]
      BY <2>1, <3>1
    <3>3. ASSUME NEW k \in 1 .. Len(g[i])
          PROVE  g[i][k] \in S /\ \E j \in 1 .. i : s[j] = g[i][k]
      <4>1. CASE k = Len(g[i])
        BY <2>3, <3>2, <4>1
      <4>2. CASE k # Len(g[i])
        <5>1. k \in 1 .. Len(g[i - 1]) /\ g[i][k] = g[i - 1][k]
          BY <2>1, <3>2, <4>2
        <5>2. PICK j \in 1 .. i - 1 : s[j] = g[i - 1][k]
          BY <2>1, <5>1
        <5>3. QED
          BY <2>1, <5>1, <5>2
      <4>3. QED
        BY <4>1, <4>2
    <3>4. ASSUME NEW j \in 1 .. i, s[j] \in S
          PROVE  \E k \in 1 .. Len(g[i]) : g[i][k] = s[j]
      <4>1. CASE j = i
        <5>1. Len(g[i]) \in 1 .. Len(g[i])
          BY <2>1, <3>2
        <5>2. QED
          BY <3>2, <4>1, <5>1
      <4>2. CASE j # i
        <5>1. j \in 1 .. i - 1
          BY <4>2
        <5>2. PICK k \in 1 .. Len(g[i - 1]) : g[i - 1][k] = s[j]
          BY <2>1, <3>4, <5>1
        <5>3. k \in 1 .. Len(g[i]) /\ g[i][k] = s[j]
          BY <2>1, <3>2, <5>2
        <5>4. QED
          BY <5>3
      <4>3. QED
        BY <4>1, <4>2
    <3>5. QED
      BY <3>3, <3>4
  <2>4. QED
    BY <2>2, <2>3
<1>5. Ok(n)
  <2>1. 0 .. n \subseteq Good
    <3> HIDE DEF Good, n
    <3>1. QED
      BY <1>2, <1>3, <1>4, InductionOf
  <2>2. n \in 0 .. n
    BY <1>2
  <2> HIDE DEF Ok
  <2>3. QED
    BY <2>1, <2>2
<1>6. Filtered(s, S) = g[n] /\ n \in 0 .. n
  BY <1>1, <1>2, FilteredLines
<1>7. QED
  BY <1>2, <1>5, <1>6

\* An element that is left stands behind those that were left in front of it.
LEMMA FilteredPlace ==
  ASSUME NEW E, NEW s \in Seq(E), NEW S, NEW n \in 1 .. Len(s), s[n] \in S
  PROVE  /\ Len(Filtered(SubSeq(s, 1, n), S)) \in 1 .. Len(Filtered(s, S))
         /\ Filtered(s, S)[Len(Filtered(SubSeq(s, 1, n), S))] = s[n]
<1> DEFINE t == SubSeq(s, 1, n)
<1>1. t \in Seq(E) /\ Len(t) = n /\ \A i \in 1 .. n : t[i] = s[i]
  OBVIOUS
<1>2. PICK g : IsFiltered(g, s, S, E)
  BY FilteredRecursion, Zenon
<1>3. PICK h : IsFiltered(h, t, S, E)
  <2> HIDE DEF t
  <2>1. QED
    BY <1>1, FilteredRecursion, Zenon
<1> HIDE DEF t
<1>4. h[n] = g[n]
  <2> DEFINE Same == {i \in 0 .. n : h[i] = g[i]}
  <2>1. 0 \in Same
    BY <1>1, <1>2, <1>3 DEF IsFiltered
  <2>2. ASSUME NEW i \in 1 .. n, i - 1 \in Same
        PROVE  i \in Same
    <3>1. h[i] = IF t[i] \in S THEN Append(h[i - 1], t[i]) ELSE h[i - 1]
      BY <1>1, <1>3 DEF IsFiltered
    <3>2. g[i] = IF s[i] \in S THEN Append(g[i - 1], s[i]) ELSE g[i - 1]
      BY <1>2 DEF IsFiltered
    <3>3. h[i - 1] = g[i - 1] /\ t[i] = s[i]
      BY <1>1, <2>2
    <3>4. QED
      BY <3>1, <3>2, <3>3
  <2>3. 0 .. n \subseteq Same
    <3> HIDE DEF Same
    <3>1. n \in Nat
      OBVIOUS
    <3>2. QED
      BY <2>1, <2>2, <3>1, InductionOf
  <2>4. QED
    BY <2>3
<1>5. g[n] = Append(g[n - 1], s[n]) /\ g[n - 1] \in Seq(E) /\ s[n] \in E
  BY <1>2, FilteredLines
<1>6. Len(g[n]) \in Nat /\ Len(g[n]) >= 1 /\ g[n][Len(g[n])] = s[n]
  BY <1>5
<1> DEFINE m == Len(g[n])
           Ok(i) == i >= n => Len(g[i]) >= m /\ g[i][m] = s[n]
           Good == {i \in 0 .. Len(s) : Ok(i)}
<1>7. 0 \in Good
  OBVIOUS
<1>8. ASSUME NEW i \in 1 .. Len(s), i - 1 \in Good
      PROVE  i \in Good
  <2>1. CASE i <= n
    BY <1>6, <2>1
  <2>2. CASE i > n
    <3>1. g[i - 1] \in Seq(E) /\ s[i] \in E /\ i - 1 >= n
      BY <1>2, <2>2, FilteredLines
    <3>2. Len(g[i - 1]) >= m /\ g[i - 1][m] = s[n]
      BY <1>8, <3>1
    <3>3. g[i] = g[i - 1] \/ g[i] = Append(g[i - 1], s[i])
      BY <1>2, FilteredLines
    <3> HIDE DEF m
    <3>4. m \in Nat /\ m >= 1
      BY <1>6 DEF m
    <3>5. Len(g[i]) >= m /\ g[i][m] = s[n]
      BY <3>1, <3>2, <3>3, <3>4
    <3>6. QED
      BY <3>5
  <2>3. QED
    BY <2>1, <2>2
<1>9. Ok(Len(s))
  <2>1. 0 .. Len(s) \subseteq Good
    <3> HIDE DEF Good
    <3>1. Len(s) \in Nat
      OBVIOUS
    <3>2. QED
      BY <1>7, <1>8, <3>1, InductionOf
  <2>2. QED
    BY <2>1
<1>10. QED
  BY <1>1, <1>2, <1>3, <1>4, <1>6, <1>9 DEF t, IsFiltered

\* remove_if makes no list longer.
LEMMA FilteredShorter ==
  ASSUME NEW E, NEW s \in Seq(E), NEW S
  PROVE  Filtered(s, S) \in Seq(E) /\ Len(Filtered(s, S)) <= Len(s)
<1> DEFINE n == Len(s)
<1>1. PICK g : IsFiltered(g, s, S, E)
  BY FilteredRecursion, Zenon
<1>2. /\ \A i \in 0 .. n : g[i] \in Seq(E)
      /\ g[0] = << >> /\ Filtered(s, S) = g[n]
      /\ \A i \in 1 .. n :
           /\ i - 1 \in 0 .. n /\ s[i] \in E
           /\ s[i] \in S => g[i] = Append(g[i - 1], s[i])
           /\ s[i] \notin S => g[i] = g[i - 1]
  BY <1>1, FilteredLines
<1> DEFINE Good == {i \in 0 .. n : Len(g[i]) <= i}
<1>3. n \in Nat /\ n \in 0 .. n
  OBVIOUS
<1> HIDE DEF n
<1>4. 0 \in Good
  BY <1>2, <1>3
<1>5. ASSUME NEW i \in 1 .. n, i - 1 \in Good PROVE i \in Good
  <2>1. g[i - 1] \in Seq(E) /\ s[i] \in E /\ Len(g[i - 1]) <= i - 1
    BY <1>2, <1>5
  <2>2. Len(g[i]) <= Len(g[i - 1]) + 1
    <3>1. Len(Append(g[i - 1], s[i])) = Len(g[i - 1]) + 1 /\ Len(g[i - 1]) \in Nat
      BY <2>1
    <3>2. CASE s[i] \in S
      <4>1. g[i] = Append(g[i - 1], s[i])
        BY <1>2, <3>2, Zenon
      <4>2. Len(g[i]) = Len(g[i - 1]) + 1
        BY <3>1, <4>1, Zenon
      <4>3. QED
        BY <3>1, <4>2
    <3>3. CASE s[i] \notin S
      <4>1. g[i] = g[i - 1]
        BY <1>2, <3>3, Zenon
      <4>2. QED
        BY <3>1, <4>1
    <3>4. QED
      BY <3>2, <3>3
  <2>3. Len(g[i]) \in Nat /\ Len(g[i - 1]) \in Nat /\ i \in 0 .. n
    <3>1. i \in 0 .. n
      BY <1>3
    <3>2. QED
      BY <1>2, <2>1, <3>1
  <2>4. QED
    BY <2>1, <2>2, <2>3
<1>6. 0 .. n \subseteq Good
  <2> HIDE DEF Good
  <2>1. QED
    BY <1>3, <1>4, <1>5, InductionOf
<1>7. QED
  BY <1>2, <1>3, <1>6 DEF n

===============================================================================

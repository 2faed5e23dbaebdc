--------------------------- MODULE Upstreams_proofs ---------------------------
(***************************************************************************)
(* sortServers sorts, for any list of servers.  The two loops are          *)
(* recursive functions: that they are defined, and what they compute, is   *)
(* shown by induction over the natural numbers, stated with sets, since    *)
(* the induction theorems of the library with an operator as a parameter   *)
(* are beyond the provers at hand.                                         *)
(***************************************************************************)
EXTENDS Upstreams, Integers, SequenceTheorems, WellFoundedInduction,
        FiniteSetTheorems, TLAPS

-----------------------------------------------------------------------------
(* Induction and recursion.                                                *)

\* A set of natural numbers has a least element.
LEMMA LeastElement ==
  ASSUME NEW T, T \subseteq Nat, T # {}
  PROVE  \E m \in T : \A n \in T : m <= n
<1> DEFINE R == OpToRel(<, Nat)
<1>1. IsWellFoundedOn(R, Nat)
  BY NatLessThanWellFounded, Zenon
<1>2. \A a, b \in Nat : a < b => <<a, b>> \in R
  BY DEF OpToRel
<1> HIDE DEF R
<1>3. PICK m \in T : \A n \in T : ~(<<n, m>> \in R)
  BY <1>1, WFMin
<1>4. ASSUME NEW n \in T PROVE m <= n
  <2>1. m \in Nat /\ n \in Nat /\ ~(n < m)
    BY <1>2, <1>3
  <2> QED BY <2>1
<1> QED BY <1>4

\* What holds of m, and of each successor of what it holds of, holds up to n.
LEMMA Induction ==
  ASSUME NEW m \in Nat, NEW n \in Nat, NEW S, m \in S,
         \A k \in m .. n - 1 : k \in S => k + 1 \in S
  PROVE  m .. n \subseteq S
<1> DEFINE T == {k \in m .. n : k \notin S}
<1> SUFFICES ASSUME T # {} PROVE FALSE
  OBVIOUS
<1>1. T \subseteq Nat
  OBVIOUS
<1>2. PICK k \in T : \A i \in T : k <= i
  BY <1>1, LeastElement
<1>3. k \in m .. n /\ k \notin S /\ k # m
  BY <1>2
<1>4. k - 1 \in m .. n - 1 /\ k - 1 \in m .. n /\ k - 1 + 1 = k
  BY <1>3
<1>5. k - 1 \in S
  BY <1>2, <1>4
<1> QED BY <1>3, <1>4, <1>5

\* F takes a value in D, and a place from m + 1 to n, to a value in D.
Step(F, D, m, n) == \A d \in D : \A k \in m + 1 .. n : F[<<d, k>>] \in D

\* h begins with c at m and goes on by F up to n.
Iterates(h, F, D, c, m, n) ==
  /\ h \in [m .. n -> D] /\ h[m] = c
  /\ \A k \in m + 1 .. n : h[k] = F[<<h[k - 1], k>>]

\* Primitive recursion: there is such a function.
LEMMA Recursion ==
  ASSUME NEW m \in Nat, NEW n \in Nat, m <= n, NEW D, NEW c \in D, NEW F,
         Step(F, D, m, n)
  PROVE  \E h : Iterates(h, F, D, c, m, n)
<1> DEFINE Upto(h, i) == h[m] = c /\ \A k \in m + 1 .. i : h[k] = F[<<h[k - 1], k>>]
           S == {i \in m .. n : \E h \in [m .. i -> D] : Upto(h, i)}
<1> USE DEF Step
<1>1. m \in S
  <2> DEFINE h == [k \in m .. m |-> c]
  <2>1. h \in [m .. m -> D] /\ h[m] = c /\ m + 1 .. m = {} /\ m \in m .. n
    OBVIOUS
  <2>2. Upto(h, m)
    BY <2>1
  <2> HIDE DEF h
  <2> QED BY <2>1, <2>2
<1>2. ASSUME NEW i \in m .. n - 1, i \in S PROVE i + 1 \in S
  <2>1. PICK h \in [m .. i -> D] : Upto(h, i)
    BY <1>2
  <2>2. i \in m .. i /\ i + 1 \in m + 1 .. n /\ i + 1 \in m .. n /\ m \in m .. i
    OBVIOUS
  <2> DEFINE g == [k \in m .. i + 1 |-> IF k = i + 1 THEN F[<<h[i], k>>] ELSE h[k]]
  <2>3. \A k \in m .. i + 1 : k \in m .. i \/ k = i + 1
    OBVIOUS
  <2>4. g \in [m .. i + 1 -> D]
    BY <2>1, <2>2, <2>3
  <2>5. g[m] = c
    BY <2>1, <2>2
  <2>6. ASSUME NEW k \in m + 1 .. i + 1 PROVE g[k] = F[<<g[k - 1], k>>]
    <3>1. k \in m .. i + 1 /\ k - 1 \in m .. i + 1 /\ k - 1 # i + 1
      OBVIOUS
    <3>2. CASE k = i + 1
      <4>1. g[k] = F[<<h[i], k>>] /\ k - 1 = i /\ g[k - 1] = h[i]
        BY <3>1, <3>2
      <4> QED BY <4>1
    <3>3. CASE k # i + 1
      <4>1. k \in m + 1 .. i /\ g[k] = h[k] /\ g[k - 1] = h[k - 1]
        BY <3>1, <3>3
      <4> QED BY <2>1, <4>1
    <3> QED BY <3>2, <3>3
  <2> HIDE DEF g
  <2>7. Upto(g, i + 1)
    BY <2>5, <2>6
  <2> QED BY <2>2, <2>4, <2>7
<1> HIDE DEF S
<1>3. m .. n \subseteq S
  BY <1>1, <1>2, Induction
<1>4. n \in S
  BY <1>3
<1> QED BY <1>4 DEF S, Iterates

-----------------------------------------------------------------------------
(* The loops.                                                              *)

\* A list of n servers.
ServerList(n) == [1 .. n -> Scheme]

LEMMA ListFacts ==
  ASSUME NEW n \in Nat, NEW s \in ServerList(n)
  PROVE  s \in Seq(Scheme) /\ Len(s) = n
<1>1. s \in Seq(Scheme)
  BY SeqDef DEF ServerList
<1>2. DOMAIN s = 1 .. n /\ DOMAIN s = 1 .. Len(s) /\ Len(s) \in Nat
  BY <1>1, LenProperties DEF ServerList
<1> QED BY <1>1, <1>2

LEMMA PriorityType ==
  ASSUME NEW x
  PROVE  Priority(x) \in 0 .. 99
  BY DEF Priority

\* s is t with its places rearranged by f, which leaves those below i alone.
Rearranged(n, s, t, f, i) ==
  /\ f \in [1 .. n -> 1 .. n]
  /\ \A a, b \in 1 .. n : f[a] = f[b] => a = b
  /\ \A b \in 1 .. n : \E a \in 1 .. n : f[a] = b
  /\ \A a \in 1 .. n : s[a] = t[f[a]]
  /\ \A a \in 1 .. i - 1 : f[a] = a

LEMMA Unmoved ==
  ASSUME NEW n \in Nat, NEW s, NEW i \in 1 .. n
  PROVE  \E f : Rearranged(n, s, s, f, i)
<1> DEFINE f == [a \in 1 .. n |-> a]
<1>1. \A a \in 1 .. i - 1 : a \in 1 .. n
  OBVIOUS
<1>2. Rearranged(n, s, s, f, i)
  BY <1>1 DEF Rearranged
<1> HIDE DEF f
<1> QED BY <1>2

\* An exchange of two places rearranges, once more.
LEMMA ExchangeRearranges ==
  ASSUME NEW n \in Nat, NEW s \in ServerList(n), NEW t, NEW f,
         NEW i \in 1 .. n, NEW j \in i + 1 .. n, Rearranged(n, s, t, f, i)
  PROVE  /\ Exchange(s, i, j) \in ServerList(n)
         /\ \E g : Rearranged(n, Exchange(s, i, j), t, g, i)
<1>1. i \in 1 .. n /\ j \in 1 .. n /\ i # j /\ \A a \in 1 .. i - 1 : a # i /\ a # j
      /\ a \in 1 .. n
  OBVIOUS
<1>2. CASE Exchange(s, i, j) = s
  BY <1>2
<1>3. CASE Exchange(s, i, j) = [s EXCEPT ![i] = s[j], ![j] = s[i]]
  <2> DEFINE u == Exchange(s, i, j)
             g == [f EXCEPT ![i] = f[j], ![j] = f[i]]
  <2>1. u \in ServerList(n)
    BY <1>1, <1>3 DEF ServerList
  <2>2. f \in [1 .. n -> 1 .. n]
    BY DEF Rearranged
  <2>3. /\ g \in [1 .. n -> 1 .. n] /\ g[i] = f[j] /\ g[j] = f[i]
        /\ \A a \in 1 .. n : a # i /\ a # j => g[a] = f[a]
    BY <1>1, <2>2
  <2>4. /\ u[i] = s[j] /\ u[j] = s[i]
        /\ \A a \in 1 .. n : a # i /\ a # j => u[a] = s[a]
    BY <1>1, <1>3 DEF ServerList
  <2> HIDE DEF u, g
  <2>5. \A a, b \in 1 .. n : g[a] = g[b] => a = b
    <3> SUFFICES ASSUME NEW a \in 1 .. n, NEW b \in 1 .. n, g[a] = g[b], a # b
                 PROVE  FALSE
      OBVIOUS
    <3>1. \A c, d \in 1 .. n : f[c] = f[d] => c = d
      BY DEF Rearranged
    <3>2. CASE a = i
      BY <1>1, <2>3, <3>1, <3>2
    <3>3. CASE a = j
      BY <1>1, <2>3, <3>1, <3>3
    <3>4. CASE a # i /\ a # j
      <4>1. g[a] = f[a]
        BY <2>3, <3>4
      <4> QED BY <1>1, <2>3, <3>1, <3>4, <4>1
    <3> QED BY <3>2, <3>3, <3>4
  <2>6. \A b \in 1 .. n : \E a \in 1 .. n : g[a] = b
    <3> SUFFICES ASSUME NEW b \in 1 .. n PROVE \E a \in 1 .. n : g[a] = b
      OBVIOUS
    <3>1. PICK a \in 1 .. n : f[a] = b
      BY DEF Rearranged
    <3>2. CASE a = i
      BY <1>1, <2>3, <3>1, <3>2
    <3>3. CASE a = j
      BY <1>1, <2>3, <3>1, <3>3
    <3>4. CASE a # i /\ a # j
      BY <2>3, <3>1, <3>4
    <3> QED BY <3>2, <3>3, <3>4
  <2>7. ASSUME NEW a \in 1 .. n PROVE u[a] = t[g[a]]
    <3>1. \A c \in 1 .. n : s[c] = t[f[c]]
      BY DEF Rearranged
    <3>2. CASE a = i
      BY <1>1, <2>3, <2>4, <3>1, <3>2
    <3>3. CASE a = j
      BY <1>1, <2>3, <2>4, <3>1, <3>3
    <3>4. CASE a # i /\ a # j
      BY <2>3, <2>4, <3>1, <3>4
    <3> QED BY <3>2, <3>3, <3>4
  <2>8. \A a \in 1 .. i - 1 : g[a] = a
    BY <1>1, <2>3 DEF Rearranged
  <2>9. Rearranged(n, u, t, g, i)
    BY <2>3, <2>5, <2>6, <2>7, <2>8 DEF Rearranged
  <2> QED BY <2>1, <2>9 DEF u
<1> QED BY <1>2, <1>3 DEF Exchange

\* The inner loop satisfies its equation.
LEMMA RowDefined ==
  ASSUME NEW n \in Nat, NEW s \in ServerList(n), NEW i \in 1 .. n
  PROVE  \E g : /\ g[i] = s /\ Row(s, i) = g[n]
                /\ \A j \in i + 1 .. n : g[j] = Exchange(g[j - 1], i, j)
<1> DEFINE D == ServerList(n)
           F == [p \in D \X (i + 1 .. n) |-> Exchange(p[1], i, p[2])]
           Eq(g) == g = [j \in i .. n |-> IF j = i THEN s ELSE Exchange(g[j - 1], i, j)]
<1>1. ASSUME NEW d \in D, NEW k \in i + 1 .. n
      PROVE  F[<<d, k>>] \in D /\ F[<<d, k>>] = Exchange(d, i, k)
  <2>1. F[<<d, k>>] = Exchange(d, i, k)
    OBVIOUS
  <2>2. \E f : Rearranged(n, d, d, f, i)
    BY Unmoved
  <2> QED BY <2>1, <2>2, ExchangeRearranges
<1> HIDE DEF F
<1>2. \E h : Iterates(h, F, D, s, i, n)
  <2>1. i \in Nat /\ i <= n /\ s \in D
    OBVIOUS
  <2>2. Step(F, D, i, n)
    BY <1>1, Zenon DEF Step
  <2> HIDE DEF D
  <2> QED BY <2>1, <2>2, Recursion
<1>3. PICK h : /\ h \in [i .. n -> D] /\ h[i] = s
               /\ \A k \in i + 1 .. n : h[k] = F[<<h[k - 1], k>>]
  BY <1>2, Zenon DEF Iterates
<1>4. ASSUME NEW j \in i .. n
      PROVE  h[j] = IF j = i THEN s ELSE Exchange(h[j - 1], i, j)
  <2>1. CASE j = i
    BY <1>3, <2>1
  <2>2. CASE j # i
    <3>1. j \in i + 1 .. n /\ j - 1 \in i .. n
      BY <2>2
    <3> QED BY <1>1, <1>3, <2>2, <3>1
  <2> QED BY <2>1, <2>2
<1>5. Eq(h)
  BY <1>3, <1>4
<1>6. Len(s) = n
  BY ListFacts
<1> DEFINE g == CHOOSE g : Eq(g)
<1>7. Eq(g)
  BY <1>5
<1>8. Row(s, i) = g[n]
  BY <1>6 DEF Row
<1> HIDE DEF g
<1>9. \A j \in i .. n : g[j] = IF j = i THEN s ELSE Exchange(g[j - 1], i, j)
  BY <1>7
<1>10. i \in i .. n /\ \A j \in i + 1 .. n : j \in i .. n /\ j # i
  OBVIOUS
<1> QED BY <1>8, <1>9, <1>10

\* An exchange puts the smaller priority first and raises that of neither i nor
\* of a third place.
LEMMA ExchangeOrders ==
  ASSUME NEW n \in Nat, NEW s \in ServerList(n), NEW i \in 1 .. n, NEW j \in i + 1 .. n
  PROVE  LET u == Exchange(s, i, j)
         IN  /\ Priority(u[i]) <= Priority(u[j]) /\ Priority(u[i]) <= Priority(s[i])
             /\ \A k \in 1 .. n : k # i /\ k # j => u[k] = s[k]
<1>1. i \in 1 .. n /\ j \in 1 .. n /\ i # j
  OBVIOUS
<1>2. Priority(s[i]) \in 0 .. 99 /\ Priority(s[j]) \in 0 .. 99
  BY PriorityType
<1>3. CASE Priority(s[i]) > Priority(s[j])
  <2>1. Exchange(s, i, j) = [s EXCEPT ![i] = s[j], ![j] = s[i]]
    BY <1>3 DEF Exchange
  <2>2. /\ Exchange(s, i, j)[i] = s[j] /\ Exchange(s, i, j)[j] = s[i]
        /\ \A k \in 1 .. n : k # i /\ k # j => Exchange(s, i, j)[k] = s[k]
    BY <1>1, <2>1 DEF ServerList
  <2> QED BY <1>2, <1>3, <2>2
<1>4. CASE ~(Priority(s[i]) > Priority(s[j]))
  <2>1. Exchange(s, i, j) = s
    BY <1>4 DEF Exchange
  <2> QED BY <1>2, <1>4, <2>1
<1> QED BY <1>3, <1>4

\* The inner loop rearranges the places from i on, and brings the smallest
\* priority among them to place i.
LEMMA RowFacts ==
  ASSUME NEW n \in Nat, NEW s \in ServerList(n), NEW i \in 1 .. n
  PROVE  /\ Row(s, i) \in ServerList(n)
         /\ \E f : Rearranged(n, Row(s, i), s, f, i)
         /\ \A k \in i .. n : Priority(Row(s, i)[i]) <= Priority(Row(s, i)[k])
<1>1. PICK g : /\ g[i] = s /\ Row(s, i) = g[n]
               /\ \A j \in i + 1 .. n : g[j] = Exchange(g[j - 1], i, j)
  BY RowDefined
<1> DEFINE Swept(j) ==
             /\ g[j] \in ServerList(n) /\ \E f : Rearranged(n, g[j], s, f, i)
             /\ \A k \in i .. j : Priority(g[j][i]) <= Priority(g[j][k])
           S == {j \in i .. n : Swept(j)}
<1>2. i \in S
  <2>1. \E f : Rearranged(n, s, s, f, i)
    BY Unmoved
  <2>2. Priority(s[i]) <= Priority(s[i]) /\ \A k \in i .. i : k = i
    BY PriorityType
  <2> QED BY <1>1, <2>1, <2>2
<1>3. ASSUME NEW j \in i .. n - 1, j \in S PROVE j + 1 \in S
  <2> DEFINE t == g[j]
             u == g[j + 1]
  <2>1. t \in ServerList(n) /\ \A k \in i .. j : Priority(t[i]) <= Priority(t[k])
    BY <1>3
  <2>2. PICK f : Rearranged(n, t, s, f, i)
    BY <1>3
  <2>3. j + 1 \in i + 1 .. n /\ j + 1 - 1 = j /\ j + 1 \in i .. n
    OBVIOUS
  <2>4. u = Exchange(t, i, j + 1)
    BY <1>1, <2>3
  <2> HIDE DEF t, u
  <2>5. u \in ServerList(n) /\ \E h : Rearranged(n, u, s, h, i)
    BY <2>1, <2>2, <2>3, <2>4, ExchangeRearranges
  <2>6. /\ Priority(u[i]) <= Priority(u[j + 1]) /\ Priority(u[i]) <= Priority(t[i])
        /\ \A k \in 1 .. n : k # i /\ k # j + 1 => u[k] = t[k]
    BY <2>1, <2>3, <2>4, ExchangeOrders
  <2>7. ASSUME NEW k \in i .. j + 1 PROVE Priority(u[i]) <= Priority(u[k])
    <3>1. CASE k = i
      BY <3>1, PriorityType
    <3>2. CASE k = j + 1
      BY <2>6, <3>2
    <3>3. CASE k # i /\ k # j + 1
      <4>1. k \in i .. j /\ k \in 1 .. n
        BY <3>3
      <4>2. u[k] = t[k] /\ Priority(t[i]) <= Priority(t[k])
        BY <2>1, <2>6, <3>3, <4>1
      <4>3. /\ Priority(u[i]) \in 0 .. 99 /\ Priority(t[i]) \in 0 .. 99
            /\ Priority(t[k]) \in 0 .. 99
        BY PriorityType
      <4> QED BY <2>6, <4>2, <4>3
    <3> QED BY <3>1, <3>2, <3>3
  <2>8. Swept(j + 1)
    BY <2>5, <2>7 DEF u
  <2> QED BY <2>3, <2>8
<1> HIDE DEF S
<1>4. i .. n \subseteq S
  BY <1>2, <1>3, Induction
<1>5. n \in S
  BY <1>4
<1>6. Swept(n)
  BY <1>5 DEF S
<1> QED BY <1>1, <1>6

\* The outer loop satisfies its equation.
LEMMA SortDefined ==
  ASSUME NEW n \in Nat, NEW s \in ServerList(n)
  PROVE  \E g : /\ g[0] = s /\ SortServers(s) = g[n]
                /\ \A i \in 1 .. n : g[i] = Row(g[i - 1], i)
<1> DEFINE D == ServerList(n)
           F == [p \in D \X (0 + 1 .. n) |-> Row(p[1], p[2])]
           Eq(g) == g = [i \in 0 .. n |-> IF i = 0 THEN s ELSE Row(g[i - 1], i)]
<1>1. ASSUME NEW d \in D, NEW k \in 0 + 1 .. n
      PROVE  F[<<d, k>>] \in D /\ F[<<d, k>>] = Row(d, k)
  <2>1. F[<<d, k>>] = Row(d, k)
    OBVIOUS
  <2>2. k \in 1 .. n
    OBVIOUS
  <2> QED BY <2>1, <2>2, RowFacts
<1> HIDE DEF F
<1>2. \E h : Iterates(h, F, D, s, 0, n)
  <2>1. 0 \in Nat /\ 0 <= n /\ s \in D
    OBVIOUS
  <2>2. Step(F, D, 0, n)
    BY <1>1, Zenon DEF Step
  <2> HIDE DEF D
  <2> QED BY <2>1, <2>2, Recursion
<1>3. PICK h : /\ h \in [0 .. n -> D] /\ h[0] = s
               /\ \A k \in 0 + 1 .. n : h[k] = F[<<h[k - 1], k>>]
  BY <1>2, Zenon DEF Iterates
<1>4. ASSUME NEW i \in 0 .. n
      PROVE  h[i] = IF i = 0 THEN s ELSE Row(h[i - 1], i)
  <2>1. CASE i = 0
    BY <1>3, <2>1
  <2>2. CASE i # 0
    <3>1. i \in 0 + 1 .. n /\ i - 1 \in 0 .. n
      BY <2>2
    <3> QED BY <1>1, <1>3, <2>2, <3>1
  <2> QED BY <2>1, <2>2
<1>5. Eq(h)
  BY <1>3, <1>4
<1>6. Len(s) = n
  BY ListFacts
<1> DEFINE g == CHOOSE g : Eq(g)
<1>7. Eq(g)
  BY <1>5
<1>8. SortServers(s) = g[n]
  BY <1>6 DEF SortServers
<1> HIDE DEF g
<1>9. \A i \in 0 .. n : g[i] = IF i = 0 THEN s ELSE Row(g[i - 1], i)
  BY <1>7
<1>10. 0 \in 0 .. n /\ \A i \in 1 .. n : i \in 0 .. n /\ i # 0
  OBVIOUS
<1> QED BY <1>8, <1>9, <1>10

\* One rearrangement after another.
LEMMA RearrangedTwice ==
  ASSUME NEW n \in Nat, NEW s, NEW t, NEW u, NEW f, NEW g, NEW i \in Nat,
         Rearranged(n, t, s, f, 1), Rearranged(n, u, t, g, i)
  PROVE  \E h : Rearranged(n, u, s, h, 1)
<1> DEFINE h == [a \in 1 .. n |-> f[g[a]]]
<1>1. /\ f \in [1 .. n -> 1 .. n] /\ \A a, b \in 1 .. n : f[a] = f[b] => a = b
      /\ \A b \in 1 .. n : \E a \in 1 .. n : f[a] = b
      /\ \A a \in 1 .. n : t[a] = s[f[a]]
  BY DEF Rearranged
<1>2. /\ g \in [1 .. n -> 1 .. n] /\ \A a, b \in 1 .. n : g[a] = g[b] => a = b
      /\ \A b \in 1 .. n : \E a \in 1 .. n : g[a] = b
      /\ \A a \in 1 .. n : u[a] = t[g[a]]
  BY DEF Rearranged
<1>3. h \in [1 .. n -> 1 .. n] /\ \A a \in 1 .. n : h[a] = f[g[a]]
  BY <1>1, <1>2
<1> HIDE DEF h
<1>4. ASSUME NEW a \in 1 .. n, NEW b \in 1 .. n, h[a] = h[b] PROVE a = b
  <2>1. g[a] \in 1 .. n /\ g[b] \in 1 .. n /\ f[g[a]] = f[g[b]]
    BY <1>2, <1>3, <1>4
  <2>2. g[a] = g[b]
    BY <1>1, <2>1
  <2> QED BY <1>2, <2>2
<1>5. ASSUME NEW b \in 1 .. n PROVE \E a \in 1 .. n : h[a] = b
  <2>1. PICK c \in 1 .. n : f[c] = b
    BY <1>1
  <2>2. PICK a \in 1 .. n : g[a] = c
    BY <1>2
  <2>3. h[a] = f[g[a]] /\ f[g[a]] = b
    BY <1>3, <2>1, <2>2
  <2> QED BY <2>3
<1>6. ASSUME NEW a \in 1 .. n PROVE u[a] = s[h[a]]
  <2>1. g[a] \in 1 .. n /\ u[a] = t[g[a]] /\ h[a] = f[g[a]]
    BY <1>2, <1>3
  <2>2. \A b \in 1 .. n : t[b] = s[f[b]]
    BY <1>1
  <2>3. t[g[a]] = s[f[g[a]]]
    BY <2>1, <2>2
  <2> QED BY <2>1, <2>3
<1>7. \A a \in 1 .. 1 - 1 : h[a] = a
  OBVIOUS
<1>8. Rearranged(n, u, s, h, 1)
  BY <1>3, <1>4, <1>5, <1>6, <1>7 DEF Rearranged
<1> QED BY <1>8

\* What sortServers returns are the same servers, none lost and none asked twice,
\* with the more secure protocols before the less secure ones, for any list.
THEOREM ServersSorted ==
  ASSUME NEW n \in Nat, NEW servers \in ServerList(n)
  PROVE  LET sorted == SortServers(servers)
         IN  /\ sorted \in ServerList(n)
             /\ \E f : Rearranged(n, sorted, servers, f, 1)
             /\ \A a \in 1 .. n : \A b \in a .. n :
                  Priority(sorted[a]) <= Priority(sorted[b])
<1>1. PICK g : /\ g[0] = servers /\ SortServers(servers) = g[n]
               /\ \A i \in 1 .. n : g[i] = Row(g[i - 1], i)
  BY SortDefined
<1> DEFINE Sorted(i) ==
             /\ g[i] \in ServerList(n) /\ \E f : Rearranged(n, g[i], servers, f, 1)
             /\ \A a \in 1 .. i : \A b \in a .. n : Priority(g[i][a]) <= Priority(g[i][b])
           S == {i \in 0 .. n : Sorted(i)}
<1>2. 0 \in S
  <2>1. \E f : Rearranged(n, servers, servers, f, 1)
    <3> DEFINE f == [a \in 1 .. n |-> a]
    <3>1. Rearranged(n, servers, servers, f, 1)
      BY DEF Rearranged
    <3> HIDE DEF f
    <3> QED BY <3>1
  <2> QED BY <1>1, <2>1
<1>3. ASSUME NEW i \in 0 .. n - 1, i \in S PROVE i + 1 \in S
  <2> DEFINE t == g[i]
             u == g[i + 1]
  <2>1. /\ t \in ServerList(n)
        /\ \A a \in 1 .. i : \A b \in a .. n : Priority(t[a]) <= Priority(t[b])
    BY <1>3
  <2>2. PICK f : Rearranged(n, t, servers, f, 1)
    BY <1>3
  <2>3. i + 1 \in 1 .. n /\ i + 1 - 1 = i /\ i + 1 \in 0 .. n /\ i + 1 \in Nat
    OBVIOUS
  <2>4. u = Row(t, i + 1)
    BY <1>1, <2>3
  <2> HIDE DEF t, u
  <2>5. /\ u \in ServerList(n)
        /\ \A k \in i + 1 .. n : Priority(u[i + 1]) <= Priority(u[k])
    BY <2>1, <2>3, <2>4, RowFacts
  <2>6. PICK h : Rearranged(n, u, t, h, i + 1)
    BY <2>1, <2>3, <2>4, RowFacts
  <2>7. \E f2 : Rearranged(n, u, servers, f2, 1)
    BY <2>2, <2>3, <2>6, RearrangedTwice
  <2>8. /\ h \in [1 .. n -> 1 .. n] /\ \A a, b \in 1 .. n : h[a] = h[b] => a = b
        /\ \A a \in 1 .. n : u[a] = t[h[a]]
        /\ \A a \in 1 .. i : h[a] = a
    <3>1. i + 1 - 1 = i
      OBVIOUS
    <3> QED BY <2>6, <3>1 DEF Rearranged
  <2>9. ASSUME NEW a \in 1 .. i + 1, NEW b \in a .. n
        PROVE  Priority(u[a]) <= Priority(u[b])
    <3>1. CASE a = i + 1
      BY <2>5, <3>1
    <3>2. CASE a # i + 1
      <4>1. a \in 1 .. i /\ a \in 1 .. n /\ b \in 1 .. n
        BY <3>2
      <4>2. h[b] \in a .. n
        <5>1. h[b] \in 1 .. n
          BY <2>8, <4>1
        <5>2. CASE h[b] \in 1 .. i
          <6>1. h[h[b]] = h[b]
            BY <2>8, <5>2
          <6>2. h[b] = b
            BY <2>8, <4>1, <5>1, <6>1
          <6> QED BY <6>2
        <5>3. CASE h[b] \notin 1 .. i
          BY <4>1, <5>1, <5>3
        <5> QED BY <5>2, <5>3
      <4>3. u[a] = t[a] /\ u[b] = t[h[b]]
        BY <2>8, <4>1
      <4> QED BY <2>1, <4>1, <4>2, <4>3
    <3> QED BY <3>1, <3>2
  <2>10. Sorted(i + 1)
    BY <2>5, <2>7, <2>9 DEF u
  <2> QED BY <2>3, <2>10
<1> HIDE DEF S
<1>4. 0 .. n \subseteq S
  BY <1>2, <1>3, Induction
<1>5. n \in S
  BY <1>4
<1>6. Sorted(n)
  BY <1>5 DEF S
<1> QED BY <1>1, <1>6

\* The places up to n of the servers of a more secure protocol than those of
\* priority p.
Better(n, s, p) == {i \in 1 .. n : Priority(s[i]) < p}

\* A rearranged list has as many of them.
LEMMA BetterKept ==
  ASSUME NEW n \in Nat, NEW s, NEW t, NEW f, NEW p, Rearranged(n, s, t, f, 1)
  PROVE  Cardinality(Better(n, s, p)) = Cardinality(Better(n, t, p))
<1> DEFINE A == Better(n, s, p)
           B == Better(n, t, p)
           g == [a \in A |-> f[a]]
<1> USE DEF Better
<1>1. /\ f \in [1 .. n -> 1 .. n] /\ \A a, b \in 1 .. n : f[a] = f[b] => a = b
      /\ \A b \in 1 .. n : \E a \in 1 .. n : f[a] = b
      /\ \A a \in 1 .. n : s[a] = t[f[a]]
  BY DEF Rearranged
<1>2. g \in [A -> B] /\ \A a \in A : g[a] = f[a]
  BY <1>1
<1>3. \A a, b \in A : g[a] = g[b] => a = b
  BY <1>1
<1>4. ASSUME NEW b \in B PROVE \E a \in A : g[a] = b
  <2>1. PICK a \in 1 .. n : f[a] = b
    BY <1>1
  <2>2. a \in A
    BY <1>1, <2>1
  <2> QED BY <2>1, <2>2
<1>5. IsFiniteSet(A)
  <2>1. IsFiniteSet(1 .. n)
    BY FS_Interval
  <2>2. A \in SUBSET (1 .. n)
    OBVIOUS
  <2> HIDE DEF A
  <2> QED BY <2>1, <2>2, FS_Subset
<1> HIDE DEF A, B, g
<1>6. ExistsBijection(A, B)
  BY <1>2, <1>3, <1>4
  DEF ExistsBijection, Bijection, Injection, Surjection, IsInjective
<1>7. Cardinality(A) = Cardinality(B)
  BY <1>5, <1>6, FS_Bijection
<1> QED BY <1>7 DEF A, B
=============================================================================

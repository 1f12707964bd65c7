----------------------------- MODULE JobsProofs ------------------------------
(***************************************************************************)
(* Theorems about Jobs, for any number of processes and jobs.              *)
(***************************************************************************)
EXTENDS Jobs, SequenceTheorems, WellFoundedInduction, TLAPS

(* Facts about numbers and lists.                                          *)

\* Every non-empty set of naturals has a least element.
LEMMA Least ==
  ASSUME NEW S \in SUBSET Nat, S # {}
  PROVE  \E d \in S : \A e \in S : d <= e
<1> DEFINE R == {ss \in Nat \X Nat : ss[1] < ss[2]}
<1>1. IsWellFoundedOn(R, Nat)
  BY NatLessThanWellFounded, Zenon DEF OpToRel
<1> HIDE DEF R
<1>2. PICK d \in S : \A e \in S : ~(<<e, d>> \in R)
  BY <1>1, WFMin, Zenon
<1>3. \A e \in S : ~(e < d)
  BY <1>2 DEF R
<1>4. \A e \in S : d <= e
  BY <1>3
<1> QED BY <1>4

\* Induction, on a set.
LEMMA Induction ==
  ASSUME NEW n \in Nat, NEW S, 0 \in S, \A i \in 0 .. n - 1 : i \in S => i + 1 \in S
  PROVE  \A i \in 0 .. n : i \in S
<1> SUFFICES ASSUME (0 .. n) \ S # {} PROVE FALSE
  OBVIOUS
<1>1. (0 .. n) \ S \in SUBSET Nat
  OBVIOUS
<1>2. PICK d \in (0 .. n) \ S : \A e \in (0 .. n) \ S : d <= e
  BY <1>1, Least
<1>3. d # 0
  BY <1>2
<1>4. d - 1 \in 0 .. n - 1 /\ d - 1 \in 0 .. n
  BY <1>2, <1>3
<1>5. d - 1 \in S
  BY <1>2, <1>4
<1>6. d - 1 + 1 \in S
  BY <1>4, <1>5
<1>7. d - 1 + 1 = d
  BY <1>2
<1> QED BY <1>2, <1>6, <1>7

\* The greatest element of a set of indices.
LEMMA Greatest ==
  ASSUME NEW n \in Nat, NEW S \in SUBSET (1 .. n), S # {}
  PROVE  \E d \in S : \A e \in S : e <= d
<1> DEFINE T == {n - i : i \in S}
<1>1. T \in SUBSET Nat /\ T # {}
  <2>1. \A i \in S : i \in 1 .. n
    OBVIOUS
  <2>2. \A i \in S : n - i \in Nat
    BY <2>1
  <2> QED BY <2>2
<1>2. PICK d \in T : \A e \in T : d <= e
  BY <1>1, Least
<1>3. PICK i \in S : d = n - i
  BY <1>2
<1>4. \A e \in S : n - i <= n - e
  BY <1>2, <1>3
<1>5. \A e \in S : e <= i
  BY <1>4
<1> QED BY <1>5

Elems(q) == {q[i] : i \in DOMAIN q}
Once(q) == \A i, k \in DOMAIN q : q[i] = q[k] => i = k

\* The recursion of Unlink.
Step(q, S, r, i) == IF q[i] \in S THEN r ELSE Append(r, q[i])
Rests(q, S, n) ==
  {f \in [0 .. n -> Seq(Elems(q))] :
     f[0] = <<>> /\ \A i \in 1 .. n : f[i] = Step(q, S, f[i - 1], i)}

LEMMA UnlinkDefined ==
  ASSUME NEW D, NEW q \in Seq(D), NEW S
  PROVE  \E f \in Rests(q, S, Len(q)) : Unlink(q, S) = f[Len(q)]
<1> DEFINE N == Len(q)
           B == {n \in 0 .. N : Rests(q, S, n) # {}}
<1>1. N \in Nat /\ DOMAIN q = 1 .. N
  BY LenProperties
<1>2. 0 \in B
  <2> DEFINE f == [i \in 0 .. 0 |-> <<>>]
  <2>1. f \in [0 .. 0 -> Seq(Elems(q))] /\ f[0] = <<>>
    BY EmptySeq
  <2>2. f \in Rests(q, S, 0)
    BY <2>1 DEF Rests
  <2> QED BY <1>1, <2>2
<1>3. ASSUME NEW n \in 0 .. N - 1, n \in B PROVE n + 1 \in B
  <2>1. PICK f \in Rests(q, S, n) : TRUE
    BY <1>3
  <2> DEFINE g == [i \in 0 .. n + 1 |-> IF i = n + 1 THEN Step(q, S, f[n], n + 1) ELSE f[i]]
  <2>2. n \in Nat /\ n + 1 \in 1 .. N /\ q[n + 1] \in Elems(q)
    BY <1>1, <1>3 DEF Elems
  <2>3. f \in [0 .. n -> Seq(Elems(q))] /\ f[0] = <<>>
        /\ \A i \in 1 .. n : f[i] = Step(q, S, f[i - 1], i)
    BY <2>1 DEF Rests
  <2>4. Step(q, S, f[n], n + 1) \in Seq(Elems(q))
    <3>1. f[n] \in Seq(Elems(q))
      BY <2>2, <2>3
    <3> QED BY <2>2, <3>1, AppendProperties DEF Step
  <2>5. g \in [0 .. n + 1 -> Seq(Elems(q))]
    BY <2>2, <2>3, <2>4
  <2>6. g[0] = <<>> /\ \A i \in 0 .. n : g[i] = f[i]
    BY <2>2, <2>3
  <2>7. g[n + 1] = Step(q, S, f[n], n + 1)
    BY <2>2
  <2>8. \A i \in 1 .. n + 1 : g[i] = Step(q, S, g[i - 1], i)
    <3> HIDE DEF g
    <3> SUFFICES ASSUME NEW i \in 1 .. n + 1 PROVE g[i] = Step(q, S, g[i - 1], i)
      OBVIOUS
    <3>1. CASE i = n + 1
      <4>1. i - 1 = n /\ n \in 0 .. n
        BY <2>2, <3>1
      <4> QED BY <2>6, <2>7, <3>1, <4>1
    <3>2. CASE i # n + 1
      <4>1. i \in 1 .. n /\ i \in 0 .. n /\ i - 1 \in 0 .. n
        BY <2>2, <3>2
      <4> QED BY <2>3, <2>6, <4>1
    <3> QED BY <3>1, <3>2
  <2> HIDE DEF g
  <2>9. g \in Rests(q, S, n + 1)
    BY <2>5, <2>6, <2>8 DEF Rests
  <2> QED BY <2>2, <2>9
<1> HIDE DEF B
<1>4. \A i \in 0 .. N : i \in B
  BY <1>1, <1>2, <1>3, Induction
<1>5. PICK f \in Rests(q, S, N) : TRUE
  BY <1>1, <1>4 DEF B
<1> DEFINE Fix(g) == g = [i \in 0 .. Len(q) |->
                            IF i = 0 THEN <<>>
                            ELSE IF q[i] \in S THEN g[i - 1] ELSE Append(g[i - 1], q[i])]
<1>6. Fix(f)
  <2>1. f \in [0 .. N -> Seq(Elems(q))] /\ f[0] = <<>>
        /\ \A i \in 1 .. N : f[i] = Step(q, S, f[i - 1], i)
    BY <1>5 DEF Rests
  <2>2. ASSUME NEW i \in 0 .. N
        PROVE  f[i] = IF i = 0 THEN <<>>
                      ELSE IF q[i] \in S THEN f[i - 1] ELSE Append(f[i - 1], q[i])
    <3>1. i # 0 => i \in 1 .. N
      BY <1>1
    <3> QED BY <2>1, <3>1 DEF Step
  <2> QED BY <2>1, <2>2
<1>7. Unlink(q, S) = (CHOOSE g : Fix(g))[Len(q)]
  BY Zenon DEF Unlink
<1>8. PICK g : Fix(g) /\ Unlink(q, S) = g[Len(q)]
  BY <1>6, <1>7
<1> DEFINE V(h, i) == IF q[i + 1] \in S THEN h[i] ELSE Append(h[i], q[i + 1])
<1>9. ASSUME NEW h, Fix(h) PROVE h[0] = <<>> /\ \A i \in 0 .. N - 1 : h[i + 1] = V(h, i)
  <2>1. \A i \in 0 .. N : h[i] = IF i = 0 THEN <<>>
                                ELSE IF q[i] \in S THEN h[i - 1] ELSE Append(h[i - 1], q[i])
    BY <1>9, Zenon
  <2>2. ASSUME NEW i \in 0 .. N - 1 PROVE h[i + 1] = V(h, i)
    <3>1. i + 1 \in 0 .. N /\ i + 1 # 0 /\ i + 1 - 1 = i
      BY <1>1
    <3>2. h[i + 1] = IF q[i + 1] \in S THEN h[i + 1 - 1] ELSE Append(h[i + 1 - 1], q[i + 1])
      BY <2>1, <3>1
    <3> QED BY <3>1, <3>2
  <2>3. 0 \in 0 .. N
    BY <1>1
  <2> QED BY <2>1, <2>2, <2>3
<1>10. \A i \in 0 .. N : g[i] = f[i]
  <2> DEFINE E == {i \in 0 .. N : g[i] = f[i]}
  <2> HIDE DEF Fix
  <2>1. 0 \in E
    BY <1>1, <1>6, <1>8, <1>9
  <2>2. ASSUME NEW i \in 0 .. N - 1, i \in E PROVE i + 1 \in E
    <3>1. i + 1 \in 0 .. N
      BY <1>1
    <3>2. g[i + 1] = V(g, i) /\ f[i + 1] = V(f, i)
      BY <1>6, <1>8, <1>9
    <3>3. g[i] = f[i]
      BY <2>2
    <3> QED BY <3>1, <3>2, <3>3
  <2> HIDE DEF E
  <2>3. \A i \in 0 .. N : i \in E
    BY <1>1, <2>1, <2>2, Induction
  <2> QED BY <2>3 DEF E
<1>11. g[Len(q)] = f[Len(q)]
  BY <1>1, <1>10
<1> QED BY <1>5, <1>8, <1>11

\* The list without S holds the same elements but for S, each once if it did.
LEMMA UnlinkFacts ==
  ASSUME NEW D, NEW q \in Seq(D), NEW S
  PROVE  /\ Unlink(q, S) \in Seq(Elems(q) \ S)
         /\ Elems(Unlink(q, S)) = Elems(q) \ S
         /\ Once(q) => Once(Unlink(q, S))
<1> DEFINE N == Len(q)
           Before(i) == {q[k] : k \in 1 .. i}
<1>1. N \in Nat /\ DOMAIN q = 1 .. N
  BY LenProperties
<1>2. PICK f \in Rests(q, S, N) : Unlink(q, S) = f[N]
  BY UnlinkDefined
<1>3. f \in [0 .. N -> Seq(Elems(q))] /\ f[0] = <<>>
      /\ \A i \in 1 .. N : f[i] = Step(q, S, f[i - 1], i)
  BY <1>2 DEF Rests
<1> DEFINE Good(i) == /\ f[i] \in Seq(Before(i) \ S) /\ Elems(f[i]) = Before(i) \ S
                      /\ Once(q) => Once(f[i])
           G == {i \in 0 .. N : Good(i)}
<1>4. 0 \in G
  <2>1. Before(0) = {} /\ f[0] = <<>> /\ 0 \in 0 .. N
    BY <1>1, <1>3
  <2>2. <<>> \in Seq({} \ S) /\ Elems(<<>>) = {} /\ Once(<<>>)
    BY EmptySeq DEF Elems, Once
  <2> QED BY <2>1, <2>2
<1>5. ASSUME NEW i \in 0 .. N - 1, i \in G PROVE i + 1 \in G
  <2>1. Good(i) /\ i \in Nat /\ i + 1 \in 1 .. N /\ i + 1 \in 0 .. N /\ i + 1 - 1 = i
    BY <1>1, <1>5
  <2> HIDE DEF G
  <2>2. f[i + 1] = Step(q, S, f[i], i + 1)
    BY <1>3, <2>1
  <2>3. Before(i + 1) = Before(i) \cup {q[i + 1]}
    <3>1. 1 .. i + 1 = (1 .. i) \cup {i + 1}
      BY <2>1
    <3> QED BY <3>1
  <2>4. CASE q[i + 1] \in S
    <3>1. f[i + 1] = f[i] /\ Before(i + 1) \ S = Before(i) \ S
      BY <2>2, <2>3, <2>4 DEF Step
    <3>2. Good(i + 1)
      BY <2>1, <3>1
    <3> QED BY <2>1, <3>2 DEF G
  <2>5. CASE q[i + 1] \notin S
    <3> DEFINE x == q[i + 1]  r == f[i]  T == Before(i + 1) \ S
    <3>1. f[i + 1] = Append(r, x)
      BY <2>2, <2>5 DEF Step
    <3>2. T = (Before(i) \ S) \cup {x} /\ x \in T
      BY <2>3, <2>5
    <3>3. r \in Seq(Before(i) \ S) /\ Elems(r) = Before(i) \ S /\ (Once(q) => Once(r))
      BY <2>1
    <3>4. Once(q) => x \notin Before(i)
      BY <1>1, <2>1 DEF Once
    <3> HIDE DEF r, T, Before, x
    <3>5. r \in Seq(T)
      BY <3>2, <3>3, SeqMonotonic
    <3>6. /\ Append(r, x) \in Seq(T) /\ Len(Append(r, x)) = Len(r) + 1
          /\ \A m \in 1 .. Len(r) : Append(r, x)[m] = r[m]
          /\ Append(r, x)[Len(r) + 1] = x /\ Len(r) \in Nat
          /\ DOMAIN r = 1 .. Len(r) /\ DOMAIN Append(r, x) = 1 .. Len(r) + 1
      BY <3>2, <3>5, AppendProperties, LenProperties
    <3>7. Elems(Append(r, x)) = Elems(r) \cup {x}
      BY <3>6 DEF Elems
    <3>8. Once(q) => Once(Append(r, x))
      <4> SUFFICES ASSUME Once(q), NEW a \in 1 .. Len(r) + 1, NEW b \in 1 .. Len(r) + 1,
                          Append(r, x)[a] = Append(r, x)[b]
                   PROVE  a = b
        BY <3>6 DEF Once
      <4>1. \A m \in 1 .. Len(r) : r[m] # x
        BY <3>3, <3>4, <3>6 DEF Elems
      <4>2. CASE a \in 1 .. Len(r) /\ b \in 1 .. Len(r)
        BY <3>3, <3>6, <4>2 DEF Once
      <4>3. CASE a \notin 1 .. Len(r) /\ b \in 1 .. Len(r)
        <5>1. a = Len(r) + 1
          BY <3>6, <4>3
        <5> QED BY <3>6, <4>1, <4>3, <5>1
      <4>4. CASE b \notin 1 .. Len(r) /\ a \in 1 .. Len(r)
        <5>1. b = Len(r) + 1
          BY <3>6, <4>4
        <5> QED BY <3>6, <4>1, <4>4, <5>1
      <4>5. CASE a \notin 1 .. Len(r) /\ b \notin 1 .. Len(r)
        BY <3>6, <4>5
      <4> QED BY <4>2, <4>3, <4>4, <4>5
    <3>9. f[i + 1] \in Seq(T) /\ Elems(f[i + 1]) = T /\ (Once(q) => Once(f[i + 1]))
      BY <3>1, <3>2, <3>3, <3>6, <3>7, <3>8
    <3>10. Good(i + 1)
      BY <3>9 DEF T
    <3> QED BY <2>1, <3>10 DEF G
  <2> QED BY <2>4, <2>5
<1> HIDE DEF G
<1>6. \A i \in 0 .. N : i \in G
  BY <1>1, <1>4, <1>5, Induction
<1>7. N \in G
  BY <1>1, <1>6
<1>8. Good(N)
  BY <1>7 DEF G
<1>9. Before(N) = Elems(q)
  BY <1>1 DEF Elems
<1> QED BY <1>2, <1>8, <1>9

\* A list with an element put into it that was not there.
LEMMA InsertFacts ==
  ASSUME NEW D, NEW q \in Seq(D), NEW x \in D, NEW n \in 0 .. Len(q)
  PROVE  LET r == SubSeq(q, 1, n) \o <<x>> \o SubSeq(q, n + 1, Len(q)) IN
         /\ r \in Seq(D) /\ Elems(r) = Elems(q) \cup {x}
         /\ Once(q) /\ x \notin Elems(q) => Once(r)
<1> DEFINE a == SubSeq(q, 1, n)
           b == SubSeq(q, n + 1, Len(q))
           r == a \o <<x>> \o b
           L == Len(q)
<1>1. L \in Nat /\ n \in Nat /\ n <= L /\ DOMAIN q = 1 .. L
  BY LenProperties
<1>2. a \in Seq(D) /\ Len(a) = n /\ \A i \in 1 .. n : a[i] = q[i]
  BY <1>1
<1>3. b \in Seq(D) /\ Len(b) = L - n /\ \A i \in 1 .. L - n : b[i] = q[n + i]
  <2>1. n + 1 \in Int /\ L \in Int /\ \A i \in n + 1 .. L : q[i] \in D
    BY <1>1, ElementOfSeq
  <2>2. /\ b \in Seq(D) /\ Len(b) = IF n + 1 <= L THEN L - (n + 1) + 1 ELSE 0
        /\ \A i \in 1 .. L - (n + 1) + 1 : b[i] = q[n + 1 + i - 1]
    <3> HIDE DEF L
    <3> QED BY <2>1, SubSeqProperties DEF L
  <2> HIDE DEF b, L
  <2>3. L - (n + 1) + 1 = L - n /\ \A i \in Nat : n + 1 + i - 1 = n + i
    BY <1>1
  <2>4. \A i \in 1 .. L - n : b[i] = q[n + i]
    BY <1>1, <2>2, <2>3
  <2> QED BY <1>1, <2>2, <2>3, <2>4
<1>4. r \in Seq(D) /\ Len(r) = L + 1
      /\ \A i \in 1 .. L + 1 : r[i] = IF i <= n THEN q[i] ELSE IF i = n + 1 THEN x ELSE q[i - 1]
  <2> HIDE DEF a, b
  <2>1. <<x>> \in Seq(D) /\ Len(<<x>>) = 1 /\ <<x>>[1] = x
    OBVIOUS
  <2>2. a \o <<x>> \in Seq(D) /\ Len(a \o <<x>>) = n + 1
        /\ \A i \in 1 .. n + 1 : (a \o <<x>>)[i] = IF i <= n THEN a[i] ELSE x
    BY <1>1, <1>2, <2>1
  <2> DEFINE c == a \o <<x>>
  <2> HIDE DEF c
  <2>3. c \in Seq(D) /\ Len(c) = n + 1
        /\ \A i \in 1 .. n + 1 : c[i] = IF i <= n THEN a[i] ELSE x
    BY <2>2 DEF c
  <2>4. c \o b \in Seq(D) /\ Len(c \o b) = L + 1
        /\ \A i \in 1 .. L + 1 : (c \o b)[i] = IF i <= n + 1 THEN c[i] ELSE b[i - (n + 1)]
    <3>1. /\ c \o b \in Seq(D) /\ Len(c \o b) = Len(c) + Len(b)
          /\ \A i \in 1 .. Len(c) + Len(b) :
               (c \o b)[i] = IF i <= Len(c) THEN c[i] ELSE b[i - Len(c)]
      BY <1>3, <2>3, ConcatProperties
    <3>2. Len(c) + Len(b) = L + 1
      BY <1>1, <1>3, <2>3
    <3> QED BY <2>3, <3>1, <3>2
  <2>5. r = c \o b
    BY DEF c
  <2> HIDE DEF r
  <2>6. ASSUME NEW i \in 1 .. L + 1
        PROVE  r[i] = IF i <= n THEN q[i] ELSE IF i = n + 1 THEN x ELSE q[i - 1]
    <3>1. CASE i <= n + 1
      <4>1. r[i] = c[i] /\ i \in 1 .. n + 1
        BY <1>1, <2>4, <2>5, <3>1
      <4>2. i <= n => i \in 1 .. n
        BY <1>1
      <4> QED BY <1>1, <1>2, <2>3, <4>1, <4>2, <3>1
    <3>2. CASE ~(i <= n + 1)
      <4>1. r[i] = b[i - (n + 1)] /\ i - (n + 1) \in 1 .. L - n /\ n + (i - (n + 1)) = i - 1
        BY <1>1, <2>4, <2>5, <3>2
      <4>2. b[i - (n + 1)] = q[n + (i - (n + 1))]
        BY <1>3, <4>1
      <4> QED BY <1>1, <3>2, <4>1, <4>2
    <3> QED BY <3>1, <3>2
  <2> QED BY <2>4, <2>5, <2>6
<1> HIDE DEF r, a, b, L
<1>5. DOMAIN r = 1 .. L + 1
  BY <1>4, LenProperties
<1>6. Elems(r) = Elems(q) \cup {x}
  <2>1. ASSUME NEW i \in 1 .. L PROVE \E m \in 1 .. L + 1 : r[m] = q[i]
    <3>1. CASE i <= n
      <4>1. i \in 1 .. L + 1
        BY <1>1
      <4> QED BY <1>4, <3>1, <4>1
    <3>2. CASE ~(i <= n)
      <4>1. i + 1 \in 1 .. L + 1 /\ i + 1 - 1 = i /\ ~(i + 1 <= n) /\ i + 1 # n + 1
        BY <1>1, <3>2
      <4> QED BY <1>4, <4>1
    <3> QED BY <3>1, <3>2
  <2>2. \E m \in 1 .. L + 1 : r[m] = x
    <3>1. n + 1 \in 1 .. L + 1 /\ ~(n + 1 <= n)
      BY <1>1
    <3> QED BY <1>4, <3>1
  <2>3. ASSUME NEW i \in 1 .. L + 1 PROVE r[i] = x \/ \E m \in 1 .. L : r[i] = q[m]
    <3>1. CASE i <= n
      BY <1>1, <1>4, <3>1
    <3>2. CASE i = n + 1
      BY <1>1, <1>4, <3>2
    <3>3. CASE ~(i <= n) /\ i # n + 1
      <4>1. i - 1 \in 1 .. L
        BY <1>1, <3>3
      <4> QED BY <1>4, <3>3, <4>1
    <3> QED BY <3>1, <3>2, <3>3
  <2>4. Elems(r) = {r[i] : i \in 1 .. L + 1} /\ Elems(q) = {q[i] : i \in 1 .. L}
    BY <1>1, <1>5 DEF Elems
  <2>5. Elems(r) \subseteq Elems(q) \cup {x}
    BY <2>3, <2>4
  <2>6. \A e \in Elems(q) : e \in Elems(r)
    BY <2>1, <2>4
  <2> QED BY <2>2, <2>4, <2>5, <2>6
<1>7. ASSUME Once(q), x \notin Elems(q) PROVE Once(r)
  <2> DEFINE Old(i) == IF i <= n THEN i ELSE i - 1
  <2>1. ASSUME NEW i \in 1 .. L + 1, i # n + 1 PROVE Old(i) \in 1 .. L /\ r[i] = q[Old(i)]
    BY <1>1, <1>4, <2>1
  <2>2. \A m \in 1 .. L : q[m] # x
    BY <1>1, <1>7 DEF Elems
  <2>3. r[n + 1] = x
    <3>1. n + 1 \in 1 .. L + 1 /\ ~(n + 1 <= n)
      BY <1>1
    <3> QED BY <1>4, <3>1
  <2>4. ASSUME NEW i \in 1 .. L + 1, NEW k \in 1 .. L + 1, i # n + 1, k # n + 1, Old(i) = Old(k)
        PROVE  i = k
    BY <1>1, <2>4
  <2> HIDE DEF Old
  <2>5. ASSUME NEW i \in 1 .. L + 1, NEW k \in 1 .. L + 1, r[i] = r[k] PROVE i = k
    <3>1. CASE i = n + 1
      BY <2>1, <2>2, <2>3, <2>5, <3>1
    <3>2. CASE k = n + 1
      BY <2>1, <2>2, <2>3, <2>5, <3>2
    <3>3. CASE i # n + 1 /\ k # n + 1
      <4>1. q[Old(i)] = q[Old(k)] /\ Old(i) \in DOMAIN q /\ Old(k) \in DOMAIN q
        BY <1>1, <2>1, <2>5, <3>3
      <4>2. Old(i) = Old(k)
        BY <1>7, <4>1 DEF Once
      <4> QED BY <2>4, <3>3, <4>2
    <3> QED BY <3>1, <3>2, <3>3
  <2> QED BY <1>5, <2>5 DEF Once
<1> QED BY <1>4, <1>6, <1>7 DEF r, a, b, L

-----------------------------------------------------------------------------
(* Jobs and their processes.                                               *)

LEMMA MapSeq ==
  ASSUME NEW S, NEW n \in Nat, NEW s \in [1 .. n -> S]
  PROVE  s \in Seq(S) /\ Len(s) = n /\ DOMAIN s = 1 .. n
<1>1. s \in Seq(S)
  BY SeqDef
<1>2. DOMAIN s = 1 .. Len(s) /\ Len(s) \in Nat
  BY <1>1, LenProperties
<1> QED BY <1>1, <1>2

LEMMA JobType ==
  ASSUME NEW jb \in Job
  PROVE  /\ jb.ps \in Seq(Procstat) /\ jb.state \in States /\ jb.used \in BOOLEAN
         /\ Len(jb.ps) \in Nat /\ DOMAIN jb.ps = 1 .. Len(jb.ps)
         /\ \A k \in DOMAIN jb.ps : /\ jb.ps[k] \in Procstat
                                    /\ jb.ps[k].pid \in Pids /\ jb.ps[k].status \in Statuses
         /\ jb.ps = <<>> <=> Len(jb.ps) = 0
<1>1. jb.ps \in Seq(Procstat) /\ jb.state \in States /\ jb.used \in BOOLEAN
  BY DEF Job
<1>2. Len(jb.ps) \in Nat /\ DOMAIN jb.ps = 1 .. Len(jb.ps)
      /\ \A k \in DOMAIN jb.ps : jb.ps[k] \in Procstat
  BY <1>1, LenProperties, ElementOfSeq
<1>3. jb.ps = <<>> <=> Len(jb.ps) = 0
  BY <1>1, EmptySeq
<1> QED BY <1>1, <1>2, <1>3 DEF Procstat

\* How the state of a job follows from its processes, and what taking the
\* terminal may leave when it fails.
Sound(jb) ==
  /\ jb.ps = <<>> => jb.state = "JOBRUNNING"
  /\ "running" \in StatusesOf(jb) => jb.state = "JOBRUNNING"
  /\ jb.state = "JOBDONE" => "stopped" \notin StatusesOf(jb)
  /\ jb.ps # <<>> /\ StatusesOf(jb) \cap {"running", "stopped"} = {} => jb.state = "JOBDONE"
  /\ jb.ps # <<>> /\ jb.state = "JOBRUNNING" =>
       "running" \in StatusesOf(jb) \/ "tty" \in Faults

LEMMA SoundSame ==
  ASSUME NEW a, NEW b, a.ps = b.ps, a.state = b.state, Sound(a)
  PROVE  Sound(b)
BY DEF Sound, StatusesOf

\* A job that differs in what its processes did, or in none of it.
SamePids(jb, nb) ==
  /\ nb \in Job /\ nb.used = jb.used /\ DOMAIN nb.ps = DOMAIN jb.ps
  /\ \A k \in DOMAIN jb.ps : nb.ps[k].pid = jb.ps[k].pid

Recorded(jb, p, st) ==
  LET nb == NewStatus(jb, p, st) IN
    IF StateOf(nb) = "JOBRUNNING" THEN nb
    ELSE [nb EXCEPT !.changed = TRUE, !.state = StateOf(nb)]

LEMMA RecordedJob ==
  ASSUME NEW jb \in Job, Sound(jb), NEW p \in PidsOf(jb), p \in Pids,
         NEW st \in Statuses \ {"running"}
  PROVE  LET nb == Recorded(jb, p, st) IN
         /\ SamePids(jb, nb) /\ Sound(nb)
         /\ \A k \in DOMAIN jb.ps :
              nb.ps[k].status = IF jb.ps[k].pid = p THEN st ELSE jb.ps[k].status
<1> DEFINE new == [k \in DOMAIN jb.ps |-> IF jb.ps[k].pid = p THEN [pid |-> p, status |-> st]
                                         ELSE jb.ps[k]]
           n1 == NewStatus(jb, p, st)
           nb == Recorded(jb, p, st)
<1>1. /\ jb.ps \in Seq(Procstat) /\ jb.state \in States
      /\ Len(jb.ps) \in Nat /\ DOMAIN jb.ps = 1 .. Len(jb.ps)
      /\ \A k \in DOMAIN jb.ps : jb.ps[k] \in Procstat /\ jb.ps[k].status \in Statuses
  BY JobType
<1>2. new \in [1 .. Len(jb.ps) -> Procstat]
  BY <1>1 DEF Procstat
<1>3. new \in Seq(Procstat) /\ DOMAIN new = DOMAIN jb.ps
  BY <1>1, <1>2, MapSeq
<1>4. n1 = [jb EXCEPT !.ps = new]
  BY DEF NewStatus
<1>5. n1 \in Job /\ n1.ps = new /\ n1.state = jb.state /\ n1.used = jb.used
  BY <1>3, <1>4 DEF Job
<1>6. StateOf(n1) \in States
  BY DEF StateOf, States
<1>7. nb = IF StateOf(n1) = "JOBRUNNING" THEN n1
           ELSE [n1 EXCEPT !.changed = TRUE, !.state = StateOf(n1)]
  BY DEF Recorded
<1> HIDE DEF n1, nb, new
<1>8. nb \in Job /\ nb.ps = new /\ nb.used = jb.used
      /\ nb.state = IF StateOf(n1) = "JOBRUNNING" THEN jb.state ELSE StateOf(n1)
  BY <1>5, <1>6, <1>7 DEF Job
<1>9. \A k \in DOMAIN jb.ps : /\ new[k].pid = jb.ps[k].pid
                              /\ new[k].status = IF jb.ps[k].pid = p THEN st ELSE jb.ps[k].status
  BY DEF new
<1>10. /\ StatusesOf(nb) = StatusesOf(n1)
       /\ "running" \in StatusesOf(nb) => "running" \in StatusesOf(jb)
  <2>1. StatusesOf(nb) = {new[k].status : k \in DOMAIN new} /\ StatusesOf(n1) = StatusesOf(nb)
    BY <1>5, <1>8 DEF StatusesOf
  <2>2. ASSUME "running" \in StatusesOf(nb) PROVE "running" \in StatusesOf(jb)
    <3>1. PICK k \in DOMAIN jb.ps : new[k].status = "running"
      BY <1>3, <2>1, <2>2
    <3>2. jb.ps[k].status = "running"
      BY <1>9, <3>1
    <3> QED BY <3>2 DEF StatusesOf
  <2> QED BY <2>1, <2>2
<1>11. nb.ps # <<>> /\ Len(new) = Len(jb.ps)
  <2>1. PICK k \in DOMAIN jb.ps : jb.ps[k].pid = p
    BY DEF PidsOf
  <2>2. k \in DOMAIN new /\ DOMAIN new = 1 .. Len(new) /\ Len(new) \in Nat
    BY <1>3, <2>1, LenProperties
  <2>3. new # <<>>
    BY <2>2
  <2> QED BY <1>1, <1>3, <1>8, <2>2, <2>3
<1>12. Sound(nb)
  <2>1. CASE "running" \in StatusesOf(nb)
    <3>1. StateOf(n1) = "JOBRUNNING" /\ jb.state = "JOBRUNNING"
      BY <1>10, <2>1 DEF StateOf, Sound
    <3> QED BY <1>8, <2>1, <3>1, <1>11 DEF Sound
  <2>2. CASE "running" \notin StatusesOf(nb) /\ "stopped" \in StatusesOf(nb)
    <3>1. StateOf(n1) = "JOBSTOPPED"
      BY <1>10, <2>2 DEF StateOf
    <3> QED BY <1>8, <2>2, <3>1, <1>11 DEF Sound
  <2>3. CASE "running" \notin StatusesOf(nb) /\ "stopped" \notin StatusesOf(nb)
    <3>1. StateOf(n1) = "JOBDONE"
      BY <1>10, <2>3 DEF StateOf
    <3> QED BY <1>8, <2>3, <3>1, <1>11 DEF Sound
  <2> QED BY <2>1, <2>2, <2>3
<1>13. SamePids(jb, nb)
  BY <1>3, <1>8, <1>9 DEF SamePids
<1> QED BY <1>8, <1>9, <1>12, <1>13 DEF nb

\* A job that is continued.
LEMMA RestartedJob ==
  ASSUME NEW jb \in Job, jb.state # "JOBDONE", jb.ps # <<>>, Sound(jb)
  PROVE  LET nb == Restarted(jb) IN
         /\ SamePids(jb, nb) /\ Sound(nb) /\ nb.state = "JOBRUNNING"
         /\ \A k \in DOMAIN jb.ps :
              nb.ps[k].status = IF jb.ps[k].status = "stopped" THEN "running" ELSE jb.ps[k].status
<1> DEFINE new == [k \in DOMAIN jb.ps |-> IF jb.ps[k].status = "stopped"
                                         THEN [jb.ps[k] EXCEPT !.status = "running"]
                                         ELSE jb.ps[k]]
           nb == Restarted(jb)
<1>1. /\ jb.ps \in Seq(Procstat) /\ jb.state \in States
      /\ Len(jb.ps) \in Nat /\ DOMAIN jb.ps = 1 .. Len(jb.ps)
      /\ \A k \in DOMAIN jb.ps : jb.ps[k] \in Procstat /\ jb.ps[k].status \in Statuses
  BY JobType
<1>2. new \in [1 .. Len(jb.ps) -> Procstat]
  BY <1>1 DEF Procstat, Statuses
<1>3. new \in Seq(Procstat) /\ DOMAIN new = DOMAIN jb.ps /\ Len(new) = Len(jb.ps)
  BY <1>1, <1>2, MapSeq
<1>4. nb = [jb EXCEPT !.state = "JOBRUNNING", !.ps = new]
  BY DEF Restarted
<1>5. \A k \in DOMAIN jb.ps :
        /\ new[k].pid = jb.ps[k].pid
        /\ new[k].status = IF jb.ps[k].status = "stopped" THEN "running" ELSE jb.ps[k].status
  BY <1>1 DEF Procstat
<1> HIDE DEF nb, new
<1>6. nb \in Job /\ nb.ps = new /\ nb.used = jb.used /\ nb.state = "JOBRUNNING"
  BY <1>3, <1>4 DEF Job, States
<1>7. \E k \in DOMAIN jb.ps : jb.ps[k].status \in {"stopped", "running"}
  <2>1. StatusesOf(jb) \cap {"running", "stopped"} # {}
    BY DEF Sound
  <2> QED BY <2>1 DEF StatusesOf
<1>8. "running" \in StatusesOf(nb)
  BY <1>3, <1>5, <1>6, <1>7 DEF StatusesOf
<1>9. nb.ps # <<>>
  BY <1>1, <1>3, <1>6, <1>7, EmptySeq
<1> QED BY <1>3, <1>5, <1>6, <1>8, <1>9 DEF SamePids, Sound, nb

\* A process more, that runs.
LEMMA AppendedJob ==
  ASSUME NEW jb \in Job, jb.state = "JOBRUNNING", NEW p \in Pids
  PROVE  LET nb == [jb EXCEPT !.ps = Append(@, [pid |-> p, status |-> "running"])] IN
         /\ nb \in Job /\ nb.used = jb.used /\ Sound(nb) /\ nb.state = "JOBRUNNING"
         /\ nb.ps # <<>> /\ DOMAIN nb.ps = DOMAIN jb.ps \cup {Len(jb.ps) + 1}
         /\ \A k \in DOMAIN jb.ps : nb.ps[k] = jb.ps[k]
         /\ nb.ps[Len(jb.ps) + 1] = [pid |-> p, status |-> "running"]
         /\ Len(jb.ps) + 1 \notin DOMAIN jb.ps /\ 1 \in DOMAIN nb.ps
<1> DEFINE new == Append(jb.ps, [pid |-> p, status |-> "running"])
           nb == [jb EXCEPT !.ps = Append(@, [pid |-> p, status |-> "running"])]
<1>1. jb.ps \in Seq(Procstat) /\ Len(jb.ps) \in Nat /\ DOMAIN jb.ps = 1 .. Len(jb.ps)
  BY JobType
<1>2. [pid |-> p, status |-> "running"] \in Procstat
  BY DEF Procstat, Statuses
<1>3. /\ new \in Seq(Procstat) /\ new # <<>> /\ Len(new) = Len(jb.ps) + 1
      /\ \A k \in 1 .. Len(jb.ps) : new[k] = jb.ps[k]
      /\ new[Len(jb.ps) + 1] = [pid |-> p, status |-> "running"]
  BY <1>1, <1>2, AppendProperties
<1>4. DOMAIN new = 1 .. Len(jb.ps) + 1
  BY <1>3, LenProperties
<1>5. nb = [jb EXCEPT !.ps = new]
  OBVIOUS
<1> HIDE DEF new, nb
<1>6. nb \in Job /\ nb.used = jb.used /\ nb.state = "JOBRUNNING" /\ nb.ps = new
  BY <1>3, <1>5 DEF Job
<1>7. DOMAIN new = DOMAIN jb.ps \cup {Len(jb.ps) + 1} /\ Len(jb.ps) + 1 \notin DOMAIN jb.ps
      /\ 1 \in DOMAIN new
  BY <1>1, <1>4
<1>8. "running" \in StatusesOf(nb)
  BY <1>3, <1>6, <1>7 DEF StatusesOf
<1> QED BY <1>1, <1>3, <1>6, <1>7, <1>8 DEF Sound, nb

\* A job that is marked, shown or taken over.
LEMMA MarkedJob ==
  ASSUME NEW jb \in Job, Sound(jb)
  PROVE  /\ LET nb == [jb EXCEPT !.waited = TRUE] IN
              SamePids(jb, nb) /\ Sound(nb) /\ nb.ps = jb.ps /\ nb.state = jb.state
         /\ LET nb == [jb EXCEPT !.changed = FALSE] IN
              SamePids(jb, nb) /\ Sound(nb) /\ nb.ps = jb.ps /\ nb.state = jb.state
         /\ "tty" \in Faults /\ jb.state # "JOBDONE" =>
              LET nb == [jb EXCEPT !.state = "JOBRUNNING"] IN
              SamePids(jb, nb) /\ Sound(nb) /\ nb.ps = jb.ps /\ nb.state = "JOBRUNNING"
<1>1. ASSUME NEW nb, nb = [jb EXCEPT !.waited = TRUE]
      PROVE  SamePids(jb, nb) /\ Sound(nb) /\ nb.ps = jb.ps /\ nb.state = jb.state
  <2>1. nb \in Job /\ nb.used = jb.used /\ nb.ps = jb.ps /\ nb.state = jb.state
    BY <1>1 DEF Job
  <2> QED BY ONLY <2>1, Sound(jb) DEF SamePids, Sound, StatusesOf
<1>2. ASSUME NEW nb, nb = [jb EXCEPT !.changed = FALSE]
      PROVE  SamePids(jb, nb) /\ Sound(nb) /\ nb.ps = jb.ps /\ nb.state = jb.state
  <2>1. nb \in Job /\ nb.used = jb.used /\ nb.ps = jb.ps /\ nb.state = jb.state
    BY <1>2 DEF Job
  <2> QED BY ONLY <2>1, Sound(jb) DEF SamePids, Sound, StatusesOf
<1>3. ASSUME "tty" \in Faults, jb.state # "JOBDONE", NEW nb, nb = [jb EXCEPT !.state = "JOBRUNNING"]
      PROVE  SamePids(jb, nb) /\ Sound(nb) /\ nb.ps = jb.ps /\ nb.state = "JOBRUNNING"
  <2>1. nb \in Job /\ nb.used = jb.used /\ nb.ps = jb.ps /\ nb.state = "JOBRUNNING"
    BY <1>3 DEF Job, States
  <2> QED BY ONLY <2>1, <1>3, Sound(jb) DEF SamePids, Sound, StatusesOf
<1> QED BY ONLY <1>1, <1>2, <1>3

LEMMA NewTypes ==
  /\ Unused \in Job /\ ~Unused.used /\ Unused.ps = <<>>
  /\ mflag \in BOOLEAN =>
       \A pipefail \in BOOLEAN :
         /\ NewJob(pipefail) \in Job /\ NewJob(pipefail).used /\ NewJob(pipefail).ps = <<>>
         /\ NewJob(pipefail).state = "JOBRUNNING" /\ Sound(NewJob(pipefail))
<1>1. <<>> \in Seq(Procstat) /\ DOMAIN <<>> = {}
  BY EmptySeq
<1>2. Unused \in Job /\ ~Unused.used /\ Unused.ps = <<>>
  BY <1>1 DEF Unused, Job, States
<1> QED BY <1>1, <1>2 DEF Unused, NewJob, Job, States, Sound, StatusesOf

\* What wait returns is the status of a process that there is.
LEMMA GetstatusType ==
  ASSUME NEW jb \in Job, jb.ps # <<>>
  PROVE  getstatus(jb) \in Statuses
<1>1. /\ Len(jb.ps) \in Nat /\ DOMAIN jb.ps = 1 .. Len(jb.ps) /\ Len(jb.ps) # 0
      /\ \A k \in DOMAIN jb.ps : jb.ps[k].status \in Statuses
  BY JobType
<1>2. Len(jb.ps) \in DOMAIN jb.ps
  BY <1>1
<1>3. CASE jb.pipefail /\ Failed(jb) # {}
  <2>1. Failed(jb) \in SUBSET (1 .. Len(jb.ps))
    BY <1>1 DEF Failed
  <2>2. \E k \in Failed(jb) : \A i \in Failed(jb) : i <= k
    BY <1>1, <1>3, <2>1, Greatest
  <2>3. (CHOOSE k \in Failed(jb) : \A i \in Failed(jb) : i <= k) \in DOMAIN jb.ps
    BY <1>1, <2>1, <2>2
  <2> QED BY <1>1, <1>3, <2>3 DEF getstatus
<1> QED BY <1>1, <1>2, <1>3 DEF getstatus

-----------------------------------------------------------------------------
(* The table and its list.                                                 *)

Listed(t, q) == q \in Seq(DOMAIN t) /\ Elems(q) = Used(t) /\ Once(q)
Table(t, q) == t \in Seq(Job) /\ Listed(t, q) /\ \A j \in Used(t) : Sound(t[j])

\* The entries change and the list stays.
LEMMA TableMapped ==
  ASSUME NEW t, NEW q, Table(t, q), NEW u \in [DOMAIN t -> Job],
         \A j \in Used(t) : u[j].used /\ Sound(u[j]),
         \A j \in DOMAIN t \ Used(t) : ~u[j].used
  PROVE  Table(u, q) /\ Used(u) = Used(t) /\ DOMAIN u = DOMAIN t
<1>1. t \in Seq(Job) /\ Len(t) \in Nat /\ DOMAIN t = 1 .. Len(t)
  BY LenProperties DEF Table
<1>2. u \in Seq(Job) /\ DOMAIN u = DOMAIN t
  BY <1>1, MapSeq
<1>3. Used(u) = Used(t)
  BY <1>2 DEF Used
<1> QED BY <1>2, <1>3 DEF Table, Listed

\* Entries are freed and taken out of the list.
LEMMA TableFreed ==
  ASSUME NEW t, NEW q, Table(t, q), NEW S, NEW u \in [DOMAIN t -> Job],
         \A j \in Used(t) \ S : u[j].used /\ Sound(u[j]),
         \A j \in DOMAIN t : j \in S \/ j \notin Used(t) => ~u[j].used
  PROVE  Table(u, Unlink(q, S)) /\ Used(u) = Used(t) \ S /\ DOMAIN u = DOMAIN t
<1>1. t \in Seq(Job) /\ Len(t) \in Nat /\ DOMAIN t = 1 .. Len(t)
  BY LenProperties DEF Table
<1>2. u \in Seq(Job) /\ DOMAIN u = DOMAIN t
  BY <1>1, MapSeq
<1>3. Used(u) = Used(t) \ S
  BY <1>2 DEF Used
<1>4. /\ Unlink(q, S) \in Seq(Elems(q) \ S) /\ Elems(Unlink(q, S)) = Elems(q) \ S
      /\ Once(Unlink(q, S))
  BY UnlinkFacts DEF Table, Listed
<1>5. Elems(q) \ S \subseteq DOMAIN u
  BY <1>2 DEF Table, Listed, Used
<1>6. Unlink(q, S) \in Seq(DOMAIN u)
  BY <1>4, <1>5, SeqMonotonic
<1> QED BY <1>2, <1>3, <1>4, <1>6 DEF Table, Listed

LEMMA Pushed ==
  ASSUME NEW D, NEW q \in Seq(D), NEW j \in D, j \notin Elems(q)
  PROVE  /\ <<j>> \o q \in Seq(D) /\ Elems(<<j>> \o q) = Elems(q) \cup {j}
         /\ Once(q) => Once(<<j>> \o q)
<1>1. Len(q) \in Nat /\ 0 \in 0 .. Len(q)
  BY LenProperties
<1>2. SubSeq(q, 1, 0) = <<>> /\ SubSeq(q, 0 + 1, Len(q)) = q
  BY <1>1, SubSeqEmpty, SubSeqFull
<1>3. SubSeq(q, 1, 0) \o <<j>> \o SubSeq(q, 0 + 1, Len(q)) = <<j>> \o q
  <2>1. <<j>> \in Seq(D)
    OBVIOUS
  <2>2. <<>> \o <<j>> = <<j>>
    BY <2>1, ConcatEmptySeq
  <2> QED BY <1>2, <2>2
<1> DEFINE r == SubSeq(q, 1, 0) \o <<j>> \o SubSeq(q, 0 + 1, Len(q))
<1>4. /\ r \in Seq(D) /\ Elems(r) = Elems(q) \cup {j}
      /\ Once(q) /\ j \notin Elems(q) => Once(r)
  BY <1>1, InsertFacts
<1>5. r = <<j>> \o q
  BY <1>3
<1> HIDE DEF r
<1> QED BY <1>4, <1>5

\* An entry gets a new job.
LEMMA TableReplaced ==
  ASSUME NEW t, NEW q, Table(t, q), NEW j \in DOMAIN t, NEW jb \in Job, jb.used, Sound(jb)
  PROVE  /\ Table([t EXCEPT ![j] = jb], <<j>> \o Without(q, j))
         /\ Used([t EXCEPT ![j] = jb]) = Used(t) \cup {j}
         /\ DOMAIN [t EXCEPT ![j] = jb] = DOMAIN t
<1> DEFINE u == [t EXCEPT ![j] = jb]
           r == Unlink(q, {j})
<1>1. t \in Seq(Job) /\ Len(t) \in Nat /\ DOMAIN t = 1 .. Len(t)
      /\ q \in Seq(DOMAIN t) /\ Elems(q) = Used(t) /\ Once(q)
  BY LenProperties DEF Table, Listed
<1>2. u \in Seq(Job) /\ DOMAIN u = DOMAIN t
  BY <1>1, ExceptSeq, LenProperties
<1>3. u[j] = jb /\ \A k \in DOMAIN t : k # j => u[k] = t[k]
  OBVIOUS
<1> HIDE DEF u
<1>4. Used(u) = Used(t) \cup {j}
  BY <1>2, <1>3 DEF Used
<1>5. r \in Seq(Elems(q) \ {j}) /\ Elems(r) = Elems(q) \ {j} /\ Once(r)
  BY <1>1, UnlinkFacts
<1>6. Elems(q) \ {j} \subseteq DOMAIN t
  BY <1>1 DEF Used
<1>7. r \in Seq(DOMAIN t) /\ j \notin Elems(r)
  BY <1>5, <1>6, SeqMonotonic
<1> HIDE DEF r
<1>8. <<j>> \o r \in Seq(DOMAIN t) /\ Elems(<<j>> \o r) = Elems(r) \cup {j} /\ Once(<<j>> \o r)
  BY <1>5, <1>7, Pushed
<1>9. Elems(<<j>> \o r) = Used(u)
  BY <1>1, <1>4, <1>5, <1>8
<1>10. \A k \in Used(u) : Sound(u[k])
  BY <1>3, <1>4 DEF Table, Used
<1>11. r = Without(q, j)
  BY DEF Without, r
<1> QED BY <1>2, <1>4, <1>8, <1>9, <1>10, <1>11 DEF Table, Listed, u

\* The list is put into another order.
LEMMA CurStoppedFacts ==
  ASSUME NEW D, NEW q \in Seq(D), Once(q), NEW j \in Elems(q), j \in D
  PROVE  CurStopped(q, j) \in Seq(D) /\ Elems(CurStopped(q, j)) = Elems(q) /\ Once(CurStopped(q, j))
<1> DEFINE r == Unlink(q, {j})
<1>1. r \in Seq(Elems(q) \ {j}) /\ Elems(r) = Elems(q) \ {j} /\ Once(r)
  BY UnlinkFacts
<1>2. Elems(q) \subseteq D
  BY LenProperties, ElementOfSeq DEF Elems
<1>3. r \in Seq(D) /\ j \notin Elems(r)
  BY <1>1, <1>2, SeqMonotonic
<1> HIDE DEF r
<1>4. <<j>> \o r \in Seq(D) /\ Elems(<<j>> \o r) = Elems(r) \cup {j} /\ Once(<<j>> \o r)
  BY <1>1, <1>3, Pushed
<1> QED BY <1>1, <1>4 DEF CurStopped, Without, r

LEMMA CurRunningFacts ==
  ASSUME NEW D, NEW q \in Seq(D), Once(q), NEW j \in Elems(q), j \in D, NEW t
  PROVE  /\ CurRunning(q, j, t) \in Seq(D) /\ Elems(CurRunning(q, j, t)) = Elems(q)
         /\ Once(CurRunning(q, j, t))
<1> DEFINE r == Unlink(q, {j})
           n == Leading(r, t)
<1>1. r \in Seq(Elems(q) \ {j}) /\ Elems(r) = Elems(q) \ {j} /\ Once(r)
  BY UnlinkFacts
<1>2. Elems(q) \subseteq D
  BY LenProperties, ElementOfSeq DEF Elems
<1>3. r \in Seq(D) /\ j \notin Elems(r) /\ Len(r) \in Nat
  BY <1>1, <1>2, SeqMonotonic, LenProperties
<1>4. n \in 0 .. Len(r)
  <2> HIDE DEF r
  <2> DEFINE E == {i \in 0 .. Len(r) : i < Len(r) => t[r[i + 1]].state # "JOBSTOPPED"}
  <2>1. E \in SUBSET Nat /\ Len(r) \in E
    BY <1>3
  <2>2. PICK d \in E : \A e \in E : d <= e
    BY <2>1, Least
  <2>3. \A i \in 1 .. d : t[r[i]].state = "JOBSTOPPED"
    <3> SUFFICES ASSUME NEW i \in 1 .. d PROVE t[r[i]].state = "JOBSTOPPED"
      OBVIOUS
    <3>1. i - 1 \in 0 .. Len(r) /\ i - 1 < Len(r) /\ i - 1 + 1 = i /\ ~(d <= i - 1)
      BY <1>3, <2>2
    <3>2. i - 1 \notin E
      BY <2>2, <3>1
    <3> QED BY <3>1, <3>2
  <2>4. d \in 0 .. Len(r) /\ (d < Len(r) => t[r[d + 1]].state # "JOBSTOPPED")
    BY <2>2
  <2> QED BY <2>3, <2>4 DEF Leading
<1>5. CurRunning(q, j, t) = SubSeq(r, 1, n) \o <<j>> \o SubSeq(r, n + 1, Len(r))
  BY DEF CurRunning, Without
<1> HIDE DEF r, n
<1>6. /\ CurRunning(q, j, t) \in Seq(D) /\ Elems(CurRunning(q, j, t)) = Elems(r) \cup {j}
      /\ Once(CurRunning(q, j, t))
  BY <1>1, <1>3, <1>4, <1>5, InsertFacts
<1> QED BY <1>1, <1>6

LEMMA TableReordered ==
  ASSUME NEW t, NEW q, Table(t, q), NEW r \in Seq(DOMAIN t), Elems(r) = Elems(q), Once(r)
  PROVE  Table(t, r)
BY DEF Table, Listed

\* The table that makejob and a child begin with, and the entry they take.
List == IF parjob THEN <<>> ELSE curjob

LEMMA KeptTable ==
  ASSUME Table(jobtab, curjob)
  PROVE  Table(Kept, List) /\ (parjob => Used(Kept) = {}) /\ (~parjob => Kept = jobtab)
         /\ DOMAIN Kept = DOMAIN jobtab
<1>1. CASE ~parjob
  BY <1>1 DEF Kept, List
<1>2. CASE parjob
  <2>1. Kept = [j \in DOMAIN jobtab |-> Unused] /\ List = <<>>
    BY <1>2 DEF Kept, List
  <2>2. jobtab \in Seq(Job) /\ Len(jobtab) \in Nat /\ DOMAIN jobtab = 1 .. Len(jobtab)
    BY LenProperties DEF Table
  <2>3. Kept \in [1 .. Len(jobtab) -> Job]
    BY <2>1, <2>2, NewTypes
  <2>4. Kept \in Seq(Job) /\ DOMAIN Kept = DOMAIN jobtab
    BY <2>2, <2>3, MapSeq
  <2>5. Used(Kept) = {}
    BY <2>1, <2>4, NewTypes DEF Used
  <2>6. List \in Seq(DOMAIN Kept) /\ Elems(List) = {} /\ Once(List)
    BY <2>1, EmptySeq DEF Elems, Once
  <2> QED BY <1>2, <2>4, <2>5, <2>6 DEF Table, Listed
<1> QED BY <1>1, <1>2

LEMMA GrownTable ==
  ASSUME NEW t, NEW q, Table(t, q)
  PROVE  /\ Table(growjobtab(t), q) /\ Used(growjobtab(t)) = Used(t)
         /\ DOMAIN t \subseteq DOMAIN growjobtab(t) /\ Len(t) + 1 \in DOMAIN growjobtab(t)
         /\ \A j \in DOMAIN t : growjobtab(t)[j] = t[j]
         /\ Len(t) + 1 \notin DOMAIN t
<1> DEFINE more == [k \in 1 .. JobGrow |-> Unused]
           u == growjobtab(t)
<1>1. t \in Seq(Job) /\ Len(t) \in Nat /\ DOMAIN t = 1 .. Len(t)
  BY LenProperties DEF Table
<1>2. JobGrow \in Nat /\ JobGrow >= 1
  BY JobsAssumption
<1>3. more \in Seq(Job) /\ Len(more) = JobGrow
  BY <1>2, NewTypes, MapSeq
<1>4. \A k \in 1 .. JobGrow : more[k] = Unused
  OBVIOUS
<1>5. u = t \o more
  BY DEF growjobtab
<1> HIDE DEF more, u
<1>6. /\ u \in Seq(Job) /\ Len(u) = Len(t) + JobGrow
      /\ \A i \in 1 .. Len(t) + JobGrow : u[i] = IF i <= Len(t) THEN t[i] ELSE more[i - Len(t)]
  BY <1>1, <1>3, <1>5, ConcatProperties
<1>7. DOMAIN u = 1 .. Len(t) + JobGrow
  BY <1>6, LenProperties
<1>8. DOMAIN t \subseteq DOMAIN u /\ Len(t) + 1 \in DOMAIN u /\ Len(t) + 1 \notin DOMAIN t
  BY <1>1, <1>2, <1>7
<1>9. \A j \in DOMAIN t : u[j] = t[j]
  BY <1>1, <1>2, <1>6
<1>10. \A j \in DOMAIN u \ DOMAIN t : u[j] = Unused
  <2> SUFFICES ASSUME NEW j \in DOMAIN u \ DOMAIN t PROVE u[j] = Unused
    OBVIOUS
  <2>1. j \in 1 .. Len(t) + JobGrow /\ ~(j <= Len(t)) /\ j - Len(t) \in 1 .. JobGrow
    BY <1>1, <1>2, <1>7
  <2> QED BY <1>4, <1>6, <2>1
<1>11. Used(u) = Used(t)
  BY <1>8, <1>9, <1>10, NewTypes DEF Used
<1>12. q \in Seq(DOMAIN u) /\ Elems(q) = Used(t) /\ Once(q)
  BY <1>8, SeqMonotonic DEF Table, Listed
<1>13. \A j \in Used(u) : Sound(u[j])
  BY <1>9, <1>11 DEF Table, Used
<1> QED BY <1>6, <1>8, <1>9, <1>11, <1>12, <1>13 DEF Table, Listed, u

LEMMA SlotFacts ==
  ASSUME NEW t, t \in Seq(Job)
  PROVE  /\ Free(t) # {} => Slot(t) \in Free(t) /\ Slot(t) \in DOMAIN t
         /\ Free(t) = {} => Slot(t) = Len(t) + 1
<1>1. CASE Free(t) # {}
  <2>1. Free(t) \in SUBSET Nat
    BY LenProperties DEF Free
  <2>2. \E d \in Free(t) : \A k \in Free(t) : d <= k
    BY <1>1, <2>1, Least
  <2>3. Slot(t) \in Free(t)
    BY <1>1, <2>2 DEF Slot
  <2> QED BY <1>1, <2>3 DEF Free
<1>2. CASE Free(t) = {}
  BY <1>2 DEF Slot
<1> QED BY <1>1, <1>2

-----------------------------------------------------------------------------
(* The invariant.                                                          *)

Rets == Statuses \cup {"none", "error", "signal", "EXINT", "stay", "leave"}
KernelOK ==
  /\ proc \in [Pids -> {"unborn", "run", "stop", "zombie", "gone"}]
  /\ exit \in [Pids -> Exits]
  /\ news \subseteq Pids /\ children \subseteq Pids
  /\ group \in [Pids -> Pids \cup {0}]
  /\ sigchld \in BOOLEAN
FlagsOK ==
  /\ parjob \in BOOLEAN /\ mflag \in BOOLEAN /\ gotsigchld \in BOOLEAN
  /\ pending_sig \in BOOLEAN /\ job_warning \in 0 .. 2 /\ level \in 0 .. MaxLevel
CallOK ==
  /\ intpending \in BOOLEAN /\ op \in Ops /\ job \in {0} \cup DOMAIN jobtab
  /\ op \in {"fork", "forjob", "waitjob"} => job \in Used(jobtab)
  /\ left \in 0 .. PipeLen
  /\ mode \in ForkModes \cup ShowModes \cup {"none"}
  /\ block \in Blocks /\ found \in BOOLEAN
  /\ ret \in Rets /\ pc \in Points

\* Where an operation is, and the job that is being started.
Control ==
  /\ pc = "idle" <=> op = "none"
  /\ pc = "fork" <=> op = "fork"
  /\ pc = "fork" => left >= 1 /\ ~parjob /\ jobtab[job].state = "JOBRUNNING"

Quiet == UNCHANGED <<tableVars, intpending, callVars, block, found, ret, pc>>

\* The table is well formed, each state of a job follows from its processes,
\* and the list holds the jobs of the table.
TableInv == KernelOK /\ FlagsOK /\ Table(jobtab, curjob) /\ CallOK /\ Control

LEMMA TypesOf == TypeOK <=> /\ KernelOK /\ FlagsOK /\ CallOK
                            /\ jobtab \in Seq(Job) /\ curjob \in Seq(DOMAIN jobtab)
BY DEF TypeOK, KernelOK, FlagsOK, CallOK, Rets

LEMMA ListOf == TableInv => ListInv
<1> SUFFICES ASSUME TableInv PROVE ListInv
  OBVIOUS
<1>1. TypeOK
  BY TypesOf DEF TableInv, Table, Listed
<1>2. Elems(curjob) = Used(jobtab) /\ Once(curjob)
  BY DEF TableInv, Table, Listed
<1> QED BY <1>1, <1>2 DEF ListInv, Elems, Once

LEMMA CallReturn ==
  ASSUME intpending \in BOOLEAN, NEW r \in Rets, Return(r)
  PROVE  CallOK' /\ Control'
<1>1. /\ pc' = "idle" /\ op' = "none" /\ job' = 0 /\ left' = 0 /\ mode' = "none"
      /\ block' = "DOWAIT_NORMAL" /\ found' = FALSE /\ intpending' = FALSE
      /\ ret' = IF intpending THEN "EXINT" ELSE r
  BY DEF Return
<1>2. left' \in 0 .. PipeLen
  BY <1>1, JobsAssumption
<1>3. pc' \in Points /\ op' \in Ops /\ block' \in Blocks /\ ret' \in Rets
  BY <1>1 DEF Points, Ops, Blocks, Rets
<1>4. CallOK'
  BY <1>1, <1>2, <1>3 DEF CallOK
<1>5. Control'
  BY <1>1 DEF Control
<1> QED BY <1>4, <1>5

LEMMA CallDowait ==
  ASSUME intpending \in BOOLEAN, NEW o \in Ops \ {"none", "fork"}, NEW j \in {0} \cup DOMAIN jobtab',
         o \in {"forjob", "waitjob"} => j \in Used(jobtab'),
         NEW m \in ForkModes \cup ShowModes \cup {"none"}, NEW b \in Blocks, Dowait(o, j, m, b)
  PROVE  CallOK' /\ Control'
<1>1. /\ pc' = "clear" /\ op' = o /\ job' = j /\ mode' = m /\ left' = 0
      /\ block' = b /\ found' = FALSE /\ ret' = "none" /\ intpending' = intpending
  BY DEF Dowait
<1>2. pc' \in Points /\ ret' \in Rets /\ found' \in BOOLEAN /\ left' \in 0 .. PipeLen
  <2>1. left' \in 0 .. PipeLen
    BY <1>1, JobsAssumption
  <2> QED BY <1>1, <2>1 DEF Points, Rets
<1>3. CallOK'
  BY <1>1, <1>2 DEF CallOK
<1>4. Control'
  BY <1>1 DEF Control
<1> QED BY <1>3, <1>4

LEMMA CallOn ==
  ASSUME CallOK, Control, UNCHANGED <<callVars, ret>>, pc \notin {"idle", "fork"},
         pc' \in Points \ {"idle", "fork"}, block' \in Blocks, found' \in BOOLEAN,
         intpending' \in BOOLEAN, Used(jobtab) \subseteq Used(jobtab'),
         DOMAIN jobtab \subseteq DOMAIN jobtab'
  PROVE  CallOK' /\ Control'
<1>1. op' = op /\ job' = job /\ left' = left /\ mode' = mode /\ ret' = ret
  BY DEF callVars
<1>2. CallOK'
  BY <1>1 DEF CallOK
<1>3. Control'
  BY <1>1 DEF Control
<1> QED BY <1>2, <1>3

LEMMA CallIdle ==
  ASSUME CallOK, Control, pc = "idle", UNCHANGED <<intpending, callVars, block, found, ret, pc>>,
         DOMAIN jobtab \subseteq DOMAIN jobtab'
  PROVE  CallOK' /\ Control'
BY DEF CallOK, Control, callVars

LEMMA TableQuiet ==
  ASSUME TableInv, Quiet, KernelOK', FlagsOK'
  PROVE  TableInv'
BY DEF TableInv, Quiet, CallOK, Control, callVars, tableVars

LEMMA TableStartJob == TableInv /\ StartJob => TableInv'
<1> SUFFICES ASSUME TableInv, StartJob PROVE TableInv'
  OBVIOUS
<1>1. Table(jobtab, curjob) /\ KernelOK /\ FlagsOK /\ CallOK
  BY DEF TableInv
<1>2. PICK pipefail \in Pipefail : makejob(pipefail)
  BY DEF StartJob
<1>3. pipefail \in BOOLEAN /\ mflag \in BOOLEAN
  BY <1>1, JobsAssumption DEF FlagsOK
<1> DEFINE j == Slot(Kept)
           t == IF Free(Kept) = {} THEN growjobtab(Kept) ELSE Kept
           new == NewJob(pipefail)
<1>4. jobtab' = [t EXCEPT ![j] = new] /\ curjob' = <<j>> \o Without(List, j) /\ parjob' = FALSE /\ job' = j
  BY <1>2 DEF makejob, List
<1>5. Table(t, List) /\ j \in DOMAIN t
  <2>1. Table(Kept, List) /\ Kept \in Seq(Job)
    BY <1>1, KeptTable DEF Table
  <2>2. CASE Free(Kept) = {}
    BY <2>1, <2>2, GrownTable, SlotFacts
  <2>3. CASE Free(Kept) # {}
    BY <2>1, <2>3, SlotFacts
  <2> QED BY <2>2, <2>3
<1>6. new \in Job /\ new.used /\ Sound(new) /\ new.state = "JOBRUNNING"
  BY <1>3, NewTypes
<1> HIDE DEF t, j, new
<1>7. Table(jobtab', curjob') /\ j \in Used(jobtab') /\ j \in DOMAIN jobtab' /\ jobtab'[j] = new
  <2> DEFINE u == [t EXCEPT ![j] = new]
  <2>1. Table(u, <<j>> \o Without(List, j)) /\ Used(u) = Used(t) \cup {j} /\ DOMAIN u = DOMAIN t
    BY <1>5, <1>6, TableReplaced
  <2>2. u[j] = new
    BY <1>5
  <2> QED BY <1>4, <1>5, <2>1, <2>2
<1>8. op' = "fork" /\ pc' = "fork" /\ mode' \in ForkModes /\ left' \in 1 .. PipeLen /\ ret' = "none"
      /\ UNCHANGED <<kernelVars, mflag, flagVars, intpending, job_warning, level, block, found>>
  BY JobsAssumption DEF StartJob
<1>9. KernelOK' /\ FlagsOK'
  <2>1. KernelOK'
    BY <1>1, <1>8 DEF KernelOK, kernelVars
  <2>2. FlagsOK'
    BY <1>1, <1>4, <1>8 DEF FlagsOK, flagVars
  <2> QED BY <2>1, <2>2
<1>10. left' \in 0 .. PipeLen /\ left' >= 1
  BY <1>8, JobsAssumption
<1>11. CallOK'
  BY <1>1, <1>4, <1>7, <1>8, <1>10 DEF CallOK, Ops, Points, Rets
<1>12. Control'
  BY <1>4, <1>6, <1>7, <1>8, <1>10 DEF Control
<1> QED BY <1>7, <1>9, <1>11, <1>12 DEF TableInv

\* A process more in the job that is being started.
LEMMA ForkedTable ==
  ASSUME TableInv, pc = "fork", NEW p \in Pids, forkparent(p)
  PROVE  /\ Table(jobtab', curjob') /\ Used(jobtab') = Used(jobtab)
         /\ DOMAIN jobtab' = DOMAIN jobtab /\ jobtab'[job].state = "JOBRUNNING"
         /\ job \in Used(jobtab) /\ group' \in [Pids -> Pids \cup {0}]
<1> DEFINE new == [jobtab[job] EXCEPT !.ps = Append(@, [pid |-> p, status |-> "running"])]
           u == [jobtab EXCEPT ![job] = new]
<1>1. Table(jobtab, curjob) /\ job \in Used(jobtab) /\ jobtab[job].state = "JOBRUNNING"
      /\ jobtab \in Seq(Job)
  BY DEF TableInv, CallOK, Control, Table
<1>2. job \in DOMAIN jobtab /\ jobtab[job] \in Job /\ jobtab[job].used
      /\ \A j \in DOMAIN jobtab : jobtab[j] \in Job
  BY <1>1, LenProperties, ElementOfSeq DEF Used
<1>3. new \in Job /\ new.used = jobtab[job].used /\ Sound(new) /\ new.state = "JOBRUNNING"
      /\ 1 \in DOMAIN new.ps
  BY <1>1, <1>2, AppendedJob
<1>4. jobtab' = u
  BY DEF forkparent
<1> HIDE DEF new
<1>5. u \in [DOMAIN jobtab -> Job] /\ u[job] = new /\ \A j \in DOMAIN jobtab : j # job => u[j] = jobtab[j]
  BY <1>2, <1>3
<1>6. /\ \A j \in Used(jobtab) : u[j].used /\ Sound(u[j])
      /\ \A j \in DOMAIN jobtab \ Used(jobtab) : ~u[j].used
  BY <1>1, <1>2, <1>3, <1>5 DEF Table, Used
<1> HIDE DEF u
<1>7. Table(u, curjob) /\ Used(u) = Used(jobtab) /\ DOMAIN u = DOMAIN jobtab
  BY <1>1, <1>5, <1>6, TableMapped
<1>8. Table(u, curjob')
  <2>1. curjob' = CurRunning(curjob, job, jobtab) \/ curjob' = curjob
    BY DEF forkparent
  <2>2. curjob \in Seq(DOMAIN u) /\ Once(curjob) /\ job \in Elems(curjob) /\ job \in DOMAIN u
    BY <1>1, <1>2, <1>7 DEF Table, Listed
  <2>3. /\ CurRunning(curjob, job, jobtab) \in Seq(DOMAIN u)
        /\ Elems(CurRunning(curjob, job, jobtab)) = Elems(curjob)
        /\ Once(CurRunning(curjob, job, jobtab))
    BY <2>2, CurRunningFacts
  <2> QED BY <1>7, <2>1, <2>3, TableReordered
<1>9. group' \in [Pids -> Pids \cup {0}]
  <2>1. new.ps[1].pid \in Pids
    BY <1>3, JobType
  <2>2. group' = [group EXCEPT ![p] = IF mode = "FORK_NOJOB" \/ ~jobtab[job].jobctl THEN 0
                                      ELSE new.ps[1].pid]
    BY DEF forkparent, new
  <2> QED BY <2>1, <2>2 DEF TableInv, KernelOK
<1> QED BY <1>1, <1>3, <1>4, <1>5, <1>7, <1>8, <1>9

LEMMA TableForkshell == TableInv /\ forkshell => TableInv'
<1> SUFFICES ASSUME TableInv, forkshell PROVE TableInv'
  OBVIOUS
<1>1. KernelOK /\ FlagsOK /\ CallOK /\ Control /\ pc = "fork" /\ Unborn # {}
  BY DEF TableInv, forkshell
<1> DEFINE p == CHOOSE q \in Unborn : \A r \in Unborn : q <= r
<1>2. p \in Unborn
  <2>1. Unborn \in SUBSET Nat
    BY DEF Unborn, Pids
  <2> QED BY <1>1, <2>1, Least
<1>3. p \in Pids
  BY <1>2 DEF Unborn
<1>4. forkparent(p) /\ proc' = [proc EXCEPT ![p] = "run"] /\ children' = children \cup {p}
  BY DEF forkshell
<1> HIDE DEF p
<1>5. /\ Table(jobtab', curjob') /\ Used(jobtab') = Used(jobtab)
      /\ DOMAIN jobtab' = DOMAIN jobtab /\ jobtab'[job].state = "JOBRUNNING"
      /\ job \in Used(jobtab) /\ group' \in [Pids -> Pids \cup {0}]
  BY <1>1, <1>3, <1>4, ForkedTable
<1>6. UNCHANGED <<exit, news, sigchld, parjob, mflag, flagVars, job_warning, level>>
  BY DEF forkshell
<1>7. KernelOK' /\ FlagsOK'
  BY <1>1, <1>3, <1>4, <1>5, <1>6 DEF KernelOK, FlagsOK, flagVars
<1>8. intpending \in BOOLEAN /\ mode \in ForkModes \cup ShowModes \cup {"none"} /\ left \in 0 .. PipeLen
  BY <1>1 DEF CallOK
<1>9. CallOK' /\ Control'
  <2>1. CASE left > 1
    <3>1. left' = left - 1 /\ UNCHANGED <<op, job, mode, block, found, ret, intpending, pc>>
      BY <2>1 DEF forkshell
    <3>2. left' \in 0 .. PipeLen /\ left' >= 1
      BY <1>8, <2>1, <3>1, JobsAssumption
    <3> QED BY <1>1, <1>5, <1>6, <3>1, <3>2 DEF CallOK, Control
  <2>2. CASE ~(left > 1) /\ mode = "FORK_BG"
    <3>1. Return("exit0") /\ "exit0" \in Rets
      BY <2>2, JobsAssumption DEF forkshell, Rets, Statuses
    <3> QED BY <1>8, <3>1, CallReturn
  <2>3. CASE ~(left > 1) /\ mode # "FORK_BG"
    <3>1. Dowait("forjob", job, mode, "DOWAIT_BLOCK")
      BY <2>3 DEF forkshell
    <3>2. "forjob" \in Ops \ {"none", "fork"} /\ job \in {0} \cup DOMAIN jobtab' /\ "DOWAIT_BLOCK" \in Blocks
      BY <1>5 DEF Ops, Blocks, Used
    <3> QED BY <1>5, <1>8, <3>1, <3>2, CallDowait
  <2> QED BY <2>1, <2>2, <2>3
<1> QED BY <1>5, <1>7, <1>9 DEF TableInv

\* freejob.
LEMMA FreedTable ==
  ASSUME Table(jobtab, curjob), NEW j \in Used(jobtab), freejob(j)
  PROVE  Table(jobtab', curjob') /\ Used(jobtab') = Used(jobtab) \ {j} /\ DOMAIN jobtab' = DOMAIN jobtab
<1> DEFINE u == [jobtab EXCEPT ![j] = Unused]
<1>1. \A k \in DOMAIN jobtab : jobtab[k] \in Job
  BY LenProperties, ElementOfSeq DEF Table
<1>2. u \in [DOMAIN jobtab -> Job] /\ u[j] = Unused /\ \A k \in DOMAIN jobtab : k # j => u[k] = jobtab[k]
  BY <1>1, NewTypes DEF Used
<1>3. jobtab' = u /\ curjob' = Unlink(curjob, {j})
  BY DEF freejob, CurDelete, Without
<1> HIDE DEF u
<1>4. \A k \in Used(jobtab) \ {j} : u[k].used /\ Sound(u[k])
  BY <1>2 DEF Table, Used
<1>5. \A k \in DOMAIN jobtab : k \in {j} \/ k \notin Used(jobtab) => ~u[k].used
  BY <1>2, NewTypes DEF Used
<1> QED BY <1>2, <1>3, <1>4, <1>5, TableFreed

\* dowait records what became of a process, in the first job that holds it.
LEMMA RecordTable ==
  ASSUME Table(jobtab, curjob), NEW p \in Pids, NEW st \in Statuses \ {"running"}, Record(p, st)
  PROVE  /\ Table(jobtab', curjob') /\ Used(jobtab') = Used(jobtab) /\ DOMAIN jobtab' = DOMAIN jobtab
         /\ \/ Holders(p) = {} /\ jobtab' = jobtab
            \/ \E i \in Holders(p) :
                 jobtab' = [jobtab EXCEPT ![curjob[i]] = Recorded(jobtab[curjob[i]], p, st)]
<1>1. CASE Holders(p) = {}
  BY <1>1 DEF Record
<1>2. CASE Holders(p) # {}
  <2> DEFINE i == CHOOSE i \in Holders(p) : \A k \in Holders(p) : i <= k
             j == curjob[i]
             new == Recorded(jobtab[j], p, st)
             u == [jobtab EXCEPT ![j] = new]
  <2>1. i \in Holders(p)
    <3>1. Holders(p) \in SUBSET Nat
      BY LenProperties DEF Holders, Table, Listed
    <3> QED BY <1>2, <3>1, Least
  <2>2. /\ jobtab' = u
        /\ curjob' = IF StateOf(NewStatus(jobtab[j], p, st)) = "JOBSTOPPED"
                        /\ jobtab[j].state # StateOf(NewStatus(jobtab[j], p, st))
                     THEN CurStopped(curjob, j) ELSE curjob
    BY <1>2 DEF Record, Recorded
  <2> HIDE DEF i
  <2>3. j \in Elems(curjob) /\ j \in Used(jobtab) /\ j \in DOMAIN jobtab /\ p \in PidsOf(jobtab[j])
    BY <2>1 DEF Holders, Elems, Table, Listed, Used
  <2>4. \A k \in DOMAIN jobtab : jobtab[k] \in Job
    BY LenProperties, ElementOfSeq DEF Table
  <2>5. new \in Job /\ new.used = jobtab[j].used /\ Sound(new)
    <3>1. jobtab[j] \in Job /\ Sound(jobtab[j])
      BY <2>3, <2>4 DEF Table
    <3> QED BY <2>3, <3>1, RecordedJob DEF SamePids
  <2> HIDE DEF new
  <2>6. u \in [DOMAIN jobtab -> Job] /\ u[j] = new /\ \A k \in DOMAIN jobtab : k # j => u[k] = jobtab[k]
    BY <2>3, <2>4, <2>5
  <2> HIDE DEF u
  <2>7. /\ \A k \in Used(jobtab) : u[k].used /\ Sound(u[k])
        /\ \A k \in DOMAIN jobtab \ Used(jobtab) : ~u[k].used
    BY <2>3, <2>5, <2>6 DEF Table, Used
  <2>8. Table(u, curjob) /\ Used(u) = Used(jobtab) /\ DOMAIN u = DOMAIN jobtab
    BY <2>6, <2>7, TableMapped
  <2>9. Table(u, curjob')
    <3>1. curjob \in Seq(DOMAIN u) /\ Once(curjob) /\ j \in Elems(curjob) /\ j \in DOMAIN u
      BY <2>3, <2>8 DEF Table, Listed
    <3>2. /\ CurStopped(curjob, j) \in Seq(DOMAIN u) /\ Elems(CurStopped(curjob, j)) = Elems(curjob)
          /\ Once(CurStopped(curjob, j))
      BY <3>1, CurStoppedFacts
    <3>3. Table(u, CurStopped(curjob, j))
      BY <2>8, <3>2, TableReordered
    <3> QED BY <2>2, <2>8, <3>3
  <2> QED BY <2>1, <2>2, <2>8, <2>9 DEF u, new
<1> QED BY <1>1, <1>2

LEMMA TableForkEnds == TableInv /\ (ForkFails \/ PipeFails) => TableInv'
<1> SUFFICES ASSUME TableInv, ForkFails \/ PipeFails PROVE TableInv'
  OBVIOUS
<1>1. KernelOK /\ FlagsOK /\ Table(jobtab, curjob) /\ intpending \in BOOLEAN /\ pc = "fork"
      /\ job \in Used(jobtab)
  BY DEF TableInv, CallOK, Control, ForkFails, PipeFails
<1>2. Return("error") /\ UNCHANGED <<kernelVars, parjob, mflag, flagVars, job_warning, level>>
      /\ (freejob(job) \/ UNCHANGED <<jobtab, curjob>>)
  BY DEF ForkFails, PipeFails, tableVars
<1>3. "error" \in Rets
  BY DEF Rets
<1>4. CallOK' /\ Control'
  BY <1>1, <1>2, <1>3, CallReturn
<1>5. KernelOK' /\ FlagsOK'
  BY <1>1, <1>2 DEF KernelOK, FlagsOK, kernelVars, flagVars
<1>6. Table(jobtab', curjob')
  BY <1>1, <1>2, FreedTable
<1> QED BY <1>4, <1>5, <1>6 DEF TableInv

LEMMA TableWaitproc ==
  TableInv /\ (WaitClear \/ Wait3None \/ WaitMask \/ WaitCheck \/ WaitSuspend \/ WaitUnmask \/ WaitTest)
    => TableInv'
<1> SUFFICES ASSUME TableInv, WaitClear \/ Wait3None \/ WaitMask \/ WaitCheck \/ WaitSuspend
                              \/ WaitUnmask \/ WaitTest
             PROVE  TableInv'
  OBVIOUS
<1>1. KernelOK /\ FlagsOK /\ Table(jobtab, curjob) /\ CallOK /\ Control
  BY DEF TableInv
<1>2. /\ UNCHANGED <<proc, exit, news, group, children, tableVars, mflag, pending_sig, intpending,
                     job_warning, level, callVars, found, ret>>
      /\ gotsigchld' \in BOOLEAN /\ sigchld' \in BOOLEAN
      /\ pc' \in Points \ {"idle", "fork"} /\ block' \in Blocks
  <2>1. sigchld \in BOOLEAN /\ gotsigchld \in BOOLEAN /\ block \in Blocks
    BY <1>1 DEF KernelOK, FlagsOK, CallOK
  <2>2. CASE WaitClear
    BY <2>1, <2>2 DEF WaitClear, kernelVars, Points
  <2>3. CASE Wait3None
    BY <2>1, <2>3 DEF Wait3None, Deliver, Points, Blocks
  <2>4. CASE WaitMask \/ WaitUnmask
    BY <2>1, <2>4 DEF WaitMask, WaitUnmask, Deliver, Points
  <2>5. CASE WaitCheck \/ WaitSuspend \/ WaitTest
    BY <2>1, <2>5 DEF WaitCheck, WaitSuspend, WaitTest, kernelVars, flagVars, Points
  <2> QED BY <2>2, <2>3, <2>4, <2>5
<1>3. pc \notin {"idle", "fork"}
  BY DEF WaitClear, Wait3None, WaitMask, WaitCheck, WaitSuspend, WaitUnmask, WaitTest
<1>4. KernelOK' /\ FlagsOK'
  BY <1>1, <1>2 DEF KernelOK, FlagsOK, tableVars
<1>5. jobtab' = jobtab /\ curjob' = curjob
  BY <1>2 DEF tableVars
<1>6. found' \in BOOLEAN /\ intpending' \in BOOLEAN
  BY <1>1, <1>2 DEF CallOK
<1>7. CallOK' /\ Control'
  BY <1>1, <1>2, <1>3, <1>5, <1>6, CallOn
<1> QED BY <1>1, <1>4, <1>5, <1>7 DEF TableInv

LEMMA TableWait3Found == TableInv /\ Wait3Found => TableInv'
<1> SUFFICES ASSUME TableInv, Wait3Found PROVE TableInv'
  OBVIOUS
<1>1. KernelOK /\ FlagsOK /\ Table(jobtab, curjob) /\ CallOK /\ Control
  BY DEF TableInv
<1>2. PICK p \in Pids :
       /\ Reportable(p)
       /\ IF proc[p] = "zombie"
          THEN proc' = [proc EXCEPT ![p] = "gone"] /\ Record(p, exit[p])
          ELSE Record(p, "stopped") /\ UNCHANGED proc
       /\ news' = news \ {p}
  BY DEF Wait3Found
<1>3. /\ pc = "wait3" /\ pc' = "after" /\ found' = TRUE
      /\ gotsigchld' = (gotsigchld \/ sigchld) /\ sigchld' = FALSE
      /\ UNCHANGED <<exit, group, children, parjob, mflag, pending_sig,
                     intpending, job_warning, level, callVars, block, ret>>
  BY DEF Wait3Found, Deliver
<1>4. /\ exit[p] \in Statuses \ {"running"} /\ "stopped" \in Statuses \ {"running"}
  BY <1>1, JobsAssumption DEF KernelOK, Statuses
<1>5. Table(jobtab', curjob') /\ Used(jobtab') = Used(jobtab) /\ DOMAIN jobtab' = DOMAIN jobtab
  BY <1>1, <1>2, <1>4, RecordTable
<1>6. KernelOK'
  BY <1>1, <1>2, <1>3 DEF KernelOK
<1>7. FlagsOK'
  BY <1>1, <1>3 DEF FlagsOK, KernelOK
<1>8. /\ pc' \in Points \ {"idle", "fork"} /\ block' \in Blocks /\ found' \in BOOLEAN
      /\ intpending' \in BOOLEAN /\ pc \notin {"idle", "fork"}
  BY <1>1, <1>3 DEF Points, CallOK
<1>9. CallOK' /\ Control'
  BY <1>1, <1>3, <1>5, <1>8, CallOn
<1> QED BY <1>5, <1>6, <1>7, <1>9 DEF TableInv

\* An operation goes on or returns, without a change of table or kernel.
LEMMA TableTurn ==
  ASSUME TableInv, UNCHANGED <<kernelVars, parjob, mflag, flagVars, level>>, job_warning' \in 0 .. 2,
         Table(jobtab', curjob'), CallOK', Control'
  PROVE  TableInv'
BY DEF TableInv, KernelOK, FlagsOK, kernelVars, flagVars

LEMMA TableReturns ==
  TableInv /\ (Interrupted \/ CollectStart \/ CollectNext \/ WaitSigout) => TableInv'
<1> SUFFICES ASSUME TableInv, Interrupted \/ CollectStart \/ CollectNext \/ WaitSigout
             PROVE  TableInv'
  OBVIOUS
<1>1. /\ UNCHANGED <<kernelVars, tableVars, mflag, flagVars, job_warning, level>>
      /\ \/ \E r \in {"EXINT", "none", "signal"} : Return(r)
         \/ Dowait("loop", 0, "none", "DOWAIT_NORMAL")
  BY DEF Interrupted, CollectStart, CollectNext, WaitSigout
<1>2. Table(jobtab, curjob) /\ intpending \in BOOLEAN /\ job_warning \in 0 .. 2
  BY DEF TableInv, CallOK, FlagsOK
<1>3. CallOK' /\ Control'
  <2>1. {"EXINT", "none", "signal"} \subseteq Rets /\ "loop" \in Ops \ {"none", "fork"}
        /\ "DOWAIT_NORMAL" \in Blocks
    BY DEF Rets, Ops, Blocks
  <2>2. CASE \E r \in {"EXINT", "none", "signal"} : Return(r)
    BY <1>2, <2>1, <2>2, CallReturn
  <2>3. CASE Dowait("loop", 0, "none", "DOWAIT_NORMAL")
    BY <1>2, <2>1, <2>3, CallDowait
  <2> QED BY <1>1, <2>2, <2>3
<1> QED BY <1>1, <1>2, <1>3, TableTurn DEF tableVars

\* A job that does not run has a process, and so a status.
LEMMA StatusThere ==
  ASSUME Table(jobtab, curjob), NEW j \in Used(jobtab), jobtab[j].state # "JOBRUNNING"
  PROVE  getstatus(jobtab[j]) \in Rets
<1>1. jobtab[j] \in Job /\ Sound(jobtab[j])
  BY LenProperties, ElementOfSeq DEF Table, Used
<1>2. jobtab[j].ps # <<>>
  BY <1>1 DEF Sound
<1> QED BY <1>1, <1>2, GetstatusType DEF Rets

LEMMA TableWaitforjob == TableInv /\ waitforjob => TableInv'
<1> SUFFICES ASSUME TableInv, waitforjob PROVE TableInv'
  OBVIOUS
<1>1. Table(jobtab, curjob) /\ intpending \in BOOLEAN /\ job_warning \in 0 .. 2 /\ job \in Used(jobtab)
      /\ mode \in ForkModes \cup ShowModes \cup {"none"}
  BY DEF TableInv, CallOK, FlagsOK, waitforjob
<1>2. UNCHANGED <<kernelVars, parjob, mflag, flagVars, job_warning, level>> /\ op = "forjob"
  BY DEF waitforjob
<1> DEFINE jb == jobtab[job]
           r == IF jb.jobctl /\ Sigint(jb) THEN "EXINT" ELSE getstatus(jb)
<1>3. CASE jb.state = "JOBRUNNING"
  <2>1. Dowait("forjob", job, mode, "DOWAIT_BLOCK") /\ UNCHANGED <<jobtab, curjob>>
    BY <1>3 DEF waitforjob
  <2>2. "forjob" \in Ops \ {"none", "fork"} /\ "DOWAIT_BLOCK" \in Blocks /\ job \in {0} \cup DOMAIN jobtab'
        /\ job \in Used(jobtab')
    BY <1>1, <2>1 DEF Ops, Blocks, Used
  <2>3. CallOK' /\ Control'
    BY <1>1, <2>1, <2>2, CallDowait
  <2> QED BY <1>1, <1>2, <2>1, <2>3, TableTurn
<1>4. CASE jb.state # "JOBRUNNING"
  <2>1. \/ Return(r) /\ (freejob(job) \/ UNCHANGED <<jobtab, curjob>>)
        \/ Return("error") /\ UNCHANGED <<jobtab, curjob>>
    BY <1>4 DEF waitforjob
  <2>2. r \in Rets /\ "error" \in Rets
    BY <1>1, <1>4, StatusThere DEF Rets
  <2>3. CallOK' /\ Control'
    <3> HIDE DEF r
    <3> QED BY <1>1, <2>1, <2>2, CallReturn
  <2>4. Table(jobtab', curjob')
    <3> HIDE DEF r
    <3> QED BY <1>1, <2>1, FreedTable
  <2> QED BY <1>1, <1>2, <2>3, <2>4, TableTurn
<1> QED BY <1>3, <1>4

\* Jobs are marked as waited for.
LEMMA WaitedTable ==
  ASSUME Table(jobtab, curjob), NEW S,
         jobtab' = [j \in DOMAIN jobtab |-> IF j \in S THEN [jobtab[j] EXCEPT !.waited = TRUE]
                                            ELSE jobtab[j]]
  PROVE  /\ Table(jobtab', curjob) /\ Used(jobtab') = Used(jobtab) /\ DOMAIN jobtab' = DOMAIN jobtab
         /\ \A j \in DOMAIN jobtab : /\ jobtab'[j].ps = jobtab[j].ps
                                     /\ jobtab'[j].state = jobtab[j].state
<1>1. \A j \in DOMAIN jobtab : jobtab[j] \in Job
  BY LenProperties, ElementOfSeq DEF Table
<1>2. ASSUME NEW j \in DOMAIN jobtab
      PROVE  /\ jobtab'[j] \in Job /\ jobtab'[j].used = jobtab[j].used
             /\ jobtab'[j].ps = jobtab[j].ps /\ jobtab'[j].state = jobtab[j].state
  BY <1>1 DEF Job
<1>3. jobtab' \in [DOMAIN jobtab -> Job]
  BY <1>2
<1>4. ASSUME NEW j \in Used(jobtab) PROVE jobtab'[j].used /\ Sound(jobtab'[j])
  <2>1. j \in DOMAIN jobtab /\ jobtab[j].used /\ Sound(jobtab[j])
    BY DEF Table, Used
  <2>2. jobtab'[j].ps = jobtab[j].ps /\ jobtab'[j].state = jobtab[j].state
        /\ jobtab'[j].used = jobtab[j].used
    BY <1>2, <2>1
  <2>3. Sound(jobtab'[j])
    BY <2>1, <2>2, SoundSame
  <2> QED BY <2>1, <2>2, <2>3
<1>5. \A j \in DOMAIN jobtab \ Used(jobtab) : ~jobtab'[j].used
  BY <1>2 DEF Used
<1>6. Table(jobtab', curjob) /\ Used(jobtab') = Used(jobtab) /\ DOMAIN jobtab' = DOMAIN jobtab
  BY <1>3, <1>4, <1>5, TableMapped
<1> QED BY <1>2, <1>6

LEMMA TableWaitTurns == TableInv /\ (WaitStart \/ WaitNext) => TableInv'
<1> SUFFICES ASSUME TableInv, WaitStart \/ WaitNext PROVE TableInv'
  OBVIOUS
<1>1. Table(jobtab, curjob) /\ intpending \in BOOLEAN /\ job_warning \in 0 .. 2
  BY DEF TableInv, CallOK, FlagsOK
<1>2. UNCHANGED <<kernelVars, curjob, parjob, mflag, flagVars, job_warning, level>>
  BY DEF WaitStart, WaitNext
<1>3. WaitAllTurn \/ \E j \in Used(jobtab) : WaitJobTurn(j)
  BY DEF WaitStart, WaitNext, TableInv, CallOK
<1>4. "waitall" \in Ops \ {"none", "fork"} /\ "waitjob" \in Ops \ {"none", "fork"}
      /\ "DOWAIT_WAITCMD" \in Blocks /\ "exit0" \in Rets
  BY JobsAssumption DEF Ops, Blocks, Rets, Statuses
<1>5. CASE WaitAllTurn
  <2> DEFINE S == {curjob[i] : i \in {k \in DOMAIN curjob : \A r \in Running(jobtab) : k < r}}
  <2>1. jobtab' = [j \in DOMAIN jobtab |-> IF j \in S THEN [jobtab[j] EXCEPT !.waited = TRUE]
                                           ELSE jobtab[j]]
    BY <1>5 DEF WaitAllTurn
  <2> HIDE DEF S
  <2>2. Table(jobtab', curjob)
    BY <1>1, <2>1, WaitedTable
  <2>3. Return("exit0") \/ Dowait("waitall", 0, "none", "DOWAIT_WAITCMD")
    BY <1>5 DEF WaitAllTurn
  <2>4. CallOK' /\ Control'
    BY <1>1, <1>4, <2>3, CallReturn, CallDowait
  <2> QED BY <1>1, <1>2, <2>2, <2>4, TableTurn
<1>6. ASSUME NEW j \in Used(jobtab), WaitJobTurn(j) PROVE TableInv'
  <2>1. CASE jobtab[j].state = "JOBRUNNING"
    <3>1. Dowait("waitjob", j, "none", "DOWAIT_WAITCMD") /\ jobtab' = jobtab
      BY <1>6, <2>1 DEF WaitJobTurn
    <3>2. j \in {0} \cup DOMAIN jobtab' /\ j \in Used(jobtab')
      BY <3>1 DEF Used
    <3>3. CallOK' /\ Control'
      BY <1>1, <1>4, <3>1, <3>2, CallDowait
    <3> QED BY <1>1, <1>2, <3>1, <3>3, TableTurn
  <2>2. CASE jobtab[j].state # "JOBRUNNING"
    <3>1. jobtab' = [jobtab EXCEPT ![j].waited = TRUE] /\ Return(getstatus(jobtab[j]))
      BY <1>6, <2>2 DEF WaitJobTurn
    <3>2. jobtab' = [k \in DOMAIN jobtab |-> IF k \in {j} THEN [jobtab[k] EXCEPT !.waited = TRUE]
                                             ELSE jobtab[k]]
      BY <3>1 DEF Used
    <3>3. Table(jobtab', curjob)
      BY <1>1, <3>2, WaitedTable
    <3>4. getstatus(jobtab[j]) \in Rets
      BY <1>1, <2>2, StatusThere
    <3>5. CallOK' /\ Control'
      BY <1>1, <3>1, <3>4, CallReturn
    <3> QED BY <1>1, <1>2, <3>3, <3>5, TableTurn
  <2> QED BY <2>1, <2>2
<1> QED BY <1>3, <1>5, <1>6

\* Jobs are shown, and those that are done are freed.
LEMMA ShownTable ==
  ASSUME Table(jobtab, curjob), NEW S \in SUBSET Used(jobtab), showjob(S)
  PROVE  /\ Table(jobtab', curjob') /\ DOMAIN jobtab' = DOMAIN jobtab
         /\ Used(jobtab') = Used(jobtab) \ {j \in S : jobtab[j].state = "JOBDONE"}
         /\ \A j \in Used(jobtab') : /\ jobtab'[j].ps = jobtab[j].ps
                                     /\ jobtab'[j].state = jobtab[j].state
<1> DEFINE F == {j \in S : jobtab[j].state = "JOBDONE"}
<1>1. \A j \in DOMAIN jobtab : jobtab[j] \in Job
  BY LenProperties, ElementOfSeq DEF Table
<1>2. /\ jobtab' = [j \in DOMAIN jobtab |->
                      IF j \notin S THEN jobtab[j]
                      ELSE IF jobtab[j].state = "JOBDONE" THEN Unused
                      ELSE [jobtab[j] EXCEPT !.changed = FALSE]]
      /\ curjob' = Unlink(curjob, F)
  BY DEF showjob
<1>3. ASSUME NEW j \in DOMAIN jobtab, j \notin F
      PROVE  /\ jobtab'[j] \in Job /\ jobtab'[j].used = jobtab[j].used
             /\ jobtab'[j].ps = jobtab[j].ps /\ jobtab'[j].state = jobtab[j].state
  BY <1>1, <1>2, <1>3 DEF Job
<1>4. ASSUME NEW j \in F PROVE j \in DOMAIN jobtab /\ jobtab'[j] = Unused
  BY <1>2 DEF Used
<1>5. jobtab' \in [DOMAIN jobtab -> Job]
  BY <1>2, <1>3, <1>4, NewTypes
<1>6. ASSUME NEW j \in Used(jobtab) \ F PROVE jobtab'[j].used /\ Sound(jobtab'[j])
  <2>1. j \in DOMAIN jobtab /\ jobtab[j].used /\ Sound(jobtab[j])
    BY DEF Table, Used
  <2>2. jobtab'[j].ps = jobtab[j].ps /\ jobtab'[j].state = jobtab[j].state
        /\ jobtab'[j].used = jobtab[j].used
    BY <1>3, <1>6, <2>1
  <2>3. Sound(jobtab'[j])
    BY <2>1, <2>2, SoundSame
  <2> QED BY <2>1, <2>2, <2>3
<1>7. \A j \in DOMAIN jobtab : j \in F \/ j \notin Used(jobtab) => ~jobtab'[j].used
  BY <1>3, <1>4, NewTypes DEF Used
<1> HIDE DEF F
<1>8. Table(jobtab', Unlink(curjob, F)) /\ Used(jobtab') = Used(jobtab) \ F /\ DOMAIN jobtab' = DOMAIN jobtab
  BY <1>5, <1>6, <1>7, TableFreed
<1>9. \A j \in Used(jobtab') : /\ jobtab'[j].ps = jobtab[j].ps
                               /\ jobtab'[j].state = jobtab[j].state
  BY <1>3, <1>8 DEF Used
<1> QED BY <1>2, <1>8, <1>9 DEF F

LEMMA TableShow == TableInv /\ (showjobs \/ ShowOne) => TableInv'
<1> SUFFICES ASSUME TableInv, showjobs \/ ShowOne PROVE TableInv'
  OBVIOUS
<1>1. Table(jobtab, curjob) /\ intpending \in BOOLEAN /\ job_warning \in 0 .. 2
      /\ mode \in ForkModes \cup ShowModes \cup {"none"}
  BY DEF TableInv, CallOK, FlagsOK
<1>2. UNCHANGED <<kernelVars, parjob, mflag, flagVars, job_warning, level>>
  BY DEF showjobs, ShowOne, tableVars
<1>3. \/ /\ UNCHANGED <<jobtab, curjob>>
         /\ \/ \E m \in ForkModes \cup ShowModes \cup {"none"} : Dowait("show", 0, m, "DOWAIT_NORMAL")
            \/ Return("exit0")
      \/ (\E S \in SUBSET Used(jobtab) : showjob(S)) /\ Return("exit0")
  <2>1. \A m : Shown(m) \in SUBSET Used(jobtab)
    BY DEF Shown
  <2>2. CASE showjobs
    <3>1. CASE pc = "idle" /\ (\E m \in ShowModes : Dowait("show", 0, m, "DOWAIT_NORMAL"))
               /\ UNCHANGED tableVars
      BY <3>1 DEF tableVars
    <3>2. CASE IF found
               THEN Dowait("show", 0, mode, "DOWAIT_NORMAL") /\ UNCHANGED <<jobtab, curjob>>
               ELSE /\ IF mode = "SHOW_PGID" THEN UNCHANGED <<jobtab, curjob>>
                       ELSE showjob(Shown(mode))
                    /\ Return("exit0")
      BY <1>1, <2>1, <3>2
    <3> QED BY <2>2, <3>1, <3>2 DEF showjobs
  <2>3. CASE ShowOne
    BY <2>3 DEF ShowOne
  <2> QED BY <2>2, <2>3
<1>4. "show" \in Ops \ {"none", "fork"} /\ "DOWAIT_NORMAL" \in Blocks /\ "exit0" \in Rets
  BY JobsAssumption DEF Ops, Blocks, Rets, Statuses
<1>5. CallOK' /\ Control'
  BY <1>1, <1>3, <1>4, CallReturn, CallDowait
<1>6. Table(jobtab', curjob')
  BY <1>1, <1>3, ShownTable
<1> QED BY <1>1, <1>2, <1>5, <1>6, TableTurn

\* fg and bg.
LEMMA RestartTable ==
  ASSUME Table(jobtab, curjob), NEW j \in Used(jobtab), NEW m, restartjob(j, m)
  PROVE  /\ Table(jobtab', curjob') /\ Used(jobtab') = Used(jobtab) /\ DOMAIN jobtab' = DOMAIN jobtab
         /\ \A k \in DOMAIN jobtab : k # j => jobtab'[k] = jobtab[k]
         /\ \/ jobtab'[j] = jobtab[j]
            \/ /\ jobtab'[j] = Restarted(jobtab[j])
               /\ jobtab[j].state # "JOBDONE" /\ jobtab[j].ps # <<>>
            \/ /\ jobtab'[j] = [jobtab[j] EXCEPT !.state = "JOBRUNNING"]
               /\ jobtab[j].state # "JOBDONE" /\ "tty" \in Faults
<1>1. /\ \A k \in DOMAIN jobtab : jobtab[k] \in Job
      /\ j \in DOMAIN jobtab /\ jobtab[j].used /\ Sound(jobtab[j])
  BY LenProperties, ElementOfSeq DEF Table, Used
<1>2. \/ jobtab' = jobtab
      \/ /\ jobtab' = [jobtab EXCEPT ![j] = Restarted(jobtab[j])]
         /\ jobtab[j].state # "JOBDONE" /\ jobtab[j].ps # <<>>
      \/ /\ jobtab' = [jobtab EXCEPT ![j].state = "JOBRUNNING"]
         /\ jobtab[j].state # "JOBDONE" /\ "tty" \in Faults
  BY DEF restartjob
<1>3. \/ jobtab'[j] = jobtab[j]
      \/ /\ jobtab'[j] = Restarted(jobtab[j])
         /\ jobtab[j].state # "JOBDONE" /\ jobtab[j].ps # <<>>
      \/ /\ jobtab'[j] = [jobtab[j] EXCEPT !.state = "JOBRUNNING"]
         /\ jobtab[j].state # "JOBDONE" /\ "tty" \in Faults
  BY <1>1, <1>2
<1>4. DOMAIN jobtab' = DOMAIN jobtab /\ jobtab' = [k \in DOMAIN jobtab |-> jobtab'[k]]
      /\ \A k \in DOMAIN jobtab : k # j => jobtab'[k] = jobtab[k]
  <2>1. CASE jobtab' = jobtab
    <3>1. jobtab \in [DOMAIN jobtab -> Job]
      BY <1>1, LenProperties DEF Table
    <3> QED BY <2>1, <3>1
  <2>2. CASE jobtab' = [jobtab EXCEPT ![j] = Restarted(jobtab[j])]
    BY <2>2
  <2>3. CASE jobtab' = [jobtab EXCEPT ![j].state = "JOBRUNNING"]
    BY <2>3
  <2> QED BY <1>2, <2>1, <2>2, <2>3
<1>5. jobtab'[j] \in Job /\ jobtab'[j].used /\ Sound(jobtab'[j])
  <2>1. CASE jobtab'[j] = jobtab[j]
    BY <1>1, <2>1
  <2>2. CASE jobtab'[j] = Restarted(jobtab[j]) /\ jobtab[j].state # "JOBDONE" /\ jobtab[j].ps # <<>>
    BY <1>1, <2>2, RestartedJob DEF SamePids
  <2>3. CASE jobtab'[j] = [jobtab[j] EXCEPT !.state = "JOBRUNNING"]
             /\ jobtab[j].state # "JOBDONE" /\ "tty" \in Faults
    <3>1. PICK a, b : a = jobtab[j] /\ b = jobtab'[j]
      OBVIOUS
    <3>2. a \in Job /\ a.used /\ Sound(a) /\ b = [a EXCEPT !.state = "JOBRUNNING"]
          /\ a.state # "JOBDONE" /\ "tty" \in Faults
      BY <1>1, <2>3, <3>1
    <3>3. SamePids(a, b) /\ Sound(b)
      BY ONLY <3>2, MarkedJob
    <3> QED BY ONLY <3>1, <3>2, <3>3 DEF SamePids
  <2> QED BY <1>3, <2>1, <2>2, <2>3
<1>6. jobtab' \in [DOMAIN jobtab -> Job]
  BY <1>1, <1>4, <1>5
<1>7. /\ \A k \in Used(jobtab) : jobtab'[k].used /\ Sound(jobtab'[k])
      /\ \A k \in DOMAIN jobtab \ Used(jobtab) : ~jobtab'[k].used
  <2>1. ASSUME NEW k \in Used(jobtab) PROVE jobtab'[k].used /\ Sound(jobtab'[k])
    <3>1. k \in DOMAIN jobtab /\ jobtab[k].used /\ Sound(jobtab[k])
      BY DEF Table, Used
    <3> QED BY <1>4, <1>5, <3>1
  <2> QED BY <1>1, <1>4, <2>1 DEF Used
<1>8. Table(jobtab', curjob) /\ Used(jobtab') = Used(jobtab)
  BY <1>6, <1>7, TableMapped
<1>9. Table(jobtab', curjob')
  <2>1. curjob \in Seq(DOMAIN jobtab') /\ Once(curjob) /\ j \in Elems(curjob) /\ j \in DOMAIN jobtab'
    BY <1>1, <1>4, <1>8 DEF Table, Listed
  <2>2. /\ CurRunning(curjob, j, jobtab) \in Seq(DOMAIN jobtab')
        /\ Elems(CurRunning(curjob, j, jobtab)) = Elems(curjob)
        /\ Once(CurRunning(curjob, j, jobtab))
    BY <2>1, CurRunningFacts
  <2>3. curjob' = CurRunning(curjob, j, jobtab) \/ curjob' = curjob
    BY DEF restartjob
  <2> QED BY <1>8, <2>2, <2>3, TableReordered
<1> QED BY <1>3, <1>4, <1>8, <1>9

LEMMA ContinueType ==
  ASSUME KernelOK, NEW S, Continue(S), UNCHANGED <<exit, group, children>>
  PROVE  KernelOK'
<1>1. sigchld' \in BOOLEAN
  BY DEF Continue, KernelOK
<1> QED BY <1>1 DEF KernelOK, Continue

LEMMA TableRestart == TableInv /\ Restart => TableInv'
<1> SUFFICES ASSUME TableInv, NEW j \in Used(jobtab), NEW m \in {"FORK_FG", "FORK_BG"},
                    restartjob(j, m)
             PROVE  TableInv'
  BY DEF Restart
<1>1. KernelOK /\ FlagsOK /\ Table(jobtab, curjob) /\ CallOK /\ intpending \in BOOLEAN
  BY DEF TableInv, CallOK
<1>2. Table(jobtab', curjob') /\ Used(jobtab') = Used(jobtab) /\ DOMAIN jobtab' = DOMAIN jobtab
  BY <1>1, RestartTable
<1>3. UNCHANGED <<exit, group, children, parjob, mflag, flagVars, job_warning, level>>
  BY DEF restartjob
<1>4. KernelOK'
  <2>1. UNCHANGED <<proc, news, sigchld>> \/ Continue(Members(j))
    BY DEF restartjob
  <2> QED BY <1>1, <1>3, <2>1, ContinueType DEF KernelOK
<1>5. FlagsOK'
  BY <1>1, <1>3 DEF FlagsOK, flagVars
<1>6. CallOK' /\ Control'
  <2>1. \/ /\ pc' = "after" /\ op' = "forjob" /\ job' = j /\ ret' = "none"
           /\ UNCHANGED <<left, mode, block, found, intpending>>
        \/ Return("exit0") \/ Return("error")
        \/ Dowait("forjob", j, "FORK_FG", "DOWAIT_BLOCK")
    BY DEF restartjob
  <2>2. "exit0" \in Rets /\ "error" \in Rets
    BY JobsAssumption DEF Rets, Statuses
  <2>3. "forjob" \in Ops \ {"none", "fork"} /\ "DOWAIT_BLOCK" \in Blocks
        /\ j \in {0} \cup DOMAIN jobtab' /\ j \in Used(jobtab')
        /\ "FORK_FG" \in ForkModes \cup ShowModes \cup {"none"}
    BY <1>2 DEF Ops, Blocks, Used, ForkModes
  <2>4. CASE /\ pc' = "after" /\ op' = "forjob" /\ job' = j /\ ret' = "none"
             /\ UNCHANGED <<left, mode, block, found, intpending>>
    <3>1. pc' \in Points /\ ret' \in Rets
      BY <2>4 DEF Points, Rets
    <3>2. CallOK'
      BY <1>1, <2>3, <2>4, <3>1 DEF CallOK
    <3> QED BY <2>4, <3>2 DEF Control
  <2>5. CASE Return("exit0") \/ Return("error")
    BY <1>1, <2>2, <2>5, CallReturn
  <2>6. CASE Dowait("forjob", j, "FORK_FG", "DOWAIT_BLOCK")
    BY <1>1, <2>3, <2>6, CallDowait
  <2> QED BY <2>1, <2>4, <2>5, <2>6
<1> QED BY <1>2, <1>4, <1>5, <1>6 DEF TableInv

LEMMA TableKill == TableInv /\ killcmd => TableInv'
<1> SUFFICES ASSUME TableInv, killcmd PROVE TableInv'
  OBVIOUS
<1>1. KernelOK /\ FlagsOK /\ Table(jobtab, curjob) /\ intpending \in BOOLEAN
  BY DEF TableInv, CallOK
<1>2. UNCHANGED <<group, children, tableVars, mflag, flagVars, job_warning, level>> /\ Return("exit0")
  BY DEF killcmd
<1>3. KernelOK'
  <2>1. PICK j \in Used(jobtab), x \in Exits :
         LET hit == {p \in Targets(jobtab[j]) : proc[p] \in {"run", "stop"}} IN
           /\ proc' = [p \in Pids |-> IF p \in hit THEN "zombie" ELSE proc[p]]
           /\ exit' = [p \in Pids |-> IF p \in hit THEN x ELSE exit[p]]
           /\ news' = news \ hit
           /\ sigchld' = (sigchld \/ hit \cap children # {})
    BY DEF killcmd
  <2> DEFINE hit == {p \in Targets(jobtab[j]) : proc[p] \in {"run", "stop"}}
  <2>2. /\ proc' = [p \in Pids |-> IF p \in hit THEN "zombie" ELSE proc[p]]
        /\ exit' = [p \in Pids |-> IF p \in hit THEN x ELSE exit[p]]
        /\ news' = news \ hit
        /\ sigchld' = (sigchld \/ hit \cap children # {})
    BY <2>1
  <2> HIDE DEF hit
  <2>3. sigchld' \in BOOLEAN
    BY <1>1, <2>2 DEF KernelOK
  <2> QED BY <1>1, <1>2, <2>2, <2>3 DEF KernelOK
<1>4. FlagsOK'
  BY <1>1, <1>2 DEF FlagsOK, tableVars, flagVars
<1>5. CallOK' /\ Control'
  <2>1. "exit0" \in Rets
    BY JobsAssumption DEF Rets, Statuses
  <2> QED BY <1>1, <1>2, <2>1, CallReturn
<1>6. Table(jobtab', curjob')
  BY <1>1, <1>2 DEF tableVars
<1> QED BY <1>3, <1>4, <1>5, <1>6 DEF TableInv

LEMMA TableLeaving == TableInv /\ Leaving => TableInv'
<1> SUFFICES ASSUME TableInv, Leaving PROVE TableInv'
  OBVIOUS
<1>1. Table(jobtab, curjob) /\ intpending \in BOOLEAN /\ job_warning \in 0 .. 2 /\ CallOK /\ Control
  BY DEF TableInv, CallOK, FlagsOK
<1>2. UNCHANGED <<kernelVars, tableVars, mflag, flagVars, level>>
  BY DEF Leaving
<1>3. \/ /\ job_warning' \in {job_warning, 2}
         /\ \/ \E r \in {"leave", "stay"} : Return(r)
            \/ Dowait("stopped", 0, "none", "DOWAIT_NORMAL")
      \/ pc = "idle" /\ job_warning' \in {0, 1} /\ UNCHANGED <<intpending, callVars, block, found, ret, pc>>
  BY DEF Leaving, stoppedjobs, CommandLine
<1>4. job_warning' \in 0 .. 2
  BY <1>1, <1>3
<1>5. {"leave", "stay"} \subseteq Rets /\ "stopped" \in Ops \ {"none", "fork"} /\ "DOWAIT_NORMAL" \in Blocks
  BY DEF Rets, Ops, Blocks
<1>6. jobtab' = jobtab /\ curjob' = curjob /\ parjob' = parjob
  BY <1>2 DEF tableVars
<1>7. CallOK' /\ Control'
  <2>1. CASE \E r \in {"leave", "stay"} : Return(r)
    BY <1>1, <1>5, <2>1, CallReturn
  <2>2. CASE Dowait("stopped", 0, "none", "DOWAIT_NORMAL")
    BY <1>1, <1>5, <2>2, CallDowait
  <2>3. CASE pc = "idle" /\ UNCHANGED <<intpending, callVars, block, found, ret, pc>>
    BY <1>1, <1>6, <2>3, CallIdle
  <2> QED BY <1>3, <2>1, <2>2, <2>3
<1> QED BY <1>1, <1>2, <1>4, <1>6, <1>7, TableTurn

LEMMA TableIdle == TableInv /\ (SetMonitor \/ Dotrap) => TableInv'
<1> SUFFICES ASSUME TableInv, SetMonitor \/ Dotrap PROVE TableInv'
  OBVIOUS
<1>1. KernelOK /\ FlagsOK
  BY DEF TableInv
<1>2. Quiet
  BY DEF SetMonitor, Dotrap, Quiet
<1>3. KernelOK'
  BY <1>1 DEF KernelOK, SetMonitor, Dotrap, kernelVars
<1>4. FlagsOK'
  BY <1>1 DEF FlagsOK, SetMonitor, Dotrap, tableVars, flagVars
<1> QED BY <1>2, <1>3, <1>4, TableQuiet

\* The table of a child, and of a subshell in the shell itself.
LEMMA ChildTable ==
  ASSUME Table(jobtab, curjob), NEW u, NEW q,
         LET j == Slot(Kept) IN
           /\ u = IF Free(Kept) # {} THEN [Kept EXCEPT ![j] = Unused] ELSE growjobtab(Kept)
           /\ q = IF parjob THEN <<>> ELSE Without(curjob, j)
  PROVE  Table(u, q) /\ DOMAIN jobtab \subseteq DOMAIN u
<1> DEFINE j == Slot(Kept)
<1>1. Table(Kept, List) /\ (parjob => Used(Kept) = {}) /\ DOMAIN Kept = DOMAIN jobtab
      /\ Kept \in Seq(Job)
  BY KeptTable DEF Table
<1>2. \A k \in DOMAIN Kept : Kept[k] \in Job
  BY <1>1, LenProperties, ElementOfSeq
<1>3. u = IF Free(Kept) # {} THEN [Kept EXCEPT ![j] = Unused] ELSE growjobtab(Kept)
  OBVIOUS
<1>4. q = IF parjob THEN <<>> ELSE Unlink(curjob, {j})
  BY DEF Without
<1>5. CASE Free(Kept) # {}
  <2>1. j \in DOMAIN Kept
    BY <1>1, <1>5, SlotFacts
  <2> HIDE DEF j
  <2>2. u \in [DOMAIN Kept -> Job] /\ u[j] = Unused /\ \A k \in DOMAIN Kept : k # j => u[k] = Kept[k]
    BY <1>2, <1>3, <1>5, <2>1, NewTypes
  <2>3. \A k \in Used(Kept) \ {j} : u[k].used /\ Sound(u[k])
    BY <1>1, <2>2 DEF Table, Used
  <2>4. \A k \in DOMAIN Kept : k \in {j} \/ k \notin Used(Kept) => ~u[k].used
    BY <2>2, NewTypes DEF Used
  <2>5. Table(u, Unlink(List, {j})) /\ DOMAIN u = DOMAIN Kept /\ Used(u) = Used(Kept) \ {j}
    <3> DEFINE S == {j}
    <3>1. Table(Kept, List) /\ u \in [DOMAIN Kept -> Job]
      BY <1>1, <2>2
    <3>2. \A k \in Used(Kept) \ S : u[k].used /\ Sound(u[k])
      BY <2>3
    <3>3. \A k \in DOMAIN Kept : k \in S \/ k \notin Used(Kept) => ~u[k].used
      BY <2>4
    <3> HIDE DEF S
    <3>4. Table(u, Unlink(List, S)) /\ Used(u) = Used(Kept) \ S /\ DOMAIN u = DOMAIN Kept
      BY ONLY <3>1, <3>2, <3>3, TableFreed
    <3> QED BY <3>4 DEF S
  <2>6. CASE parjob
    <3>1. q = <<>> /\ Used(u) = {}
      BY <1>1, <1>4, <2>5, <2>6
    <3>2. q \in Seq(DOMAIN u)
      <4>1. <<>> \in Seq(DOMAIN u)
        BY ONLY EmptySeq
      <4> QED BY <3>1, <4>1
    <3>3. Elems(q) = {} /\ Once(q)
      <4>1. DOMAIN q = {}
        BY <3>1
      <4> QED BY <4>1 DEF Elems, Once
    <3> QED BY <1>1, <2>5, <3>1, <3>2, <3>3 DEF Table, Listed
  <2>7. CASE ~parjob
    BY <1>1, <1>4, <2>5, <2>7 DEF List
  <2> QED BY <2>6, <2>7
<1>6. CASE Free(Kept) = {}
  <2>1. Table(u, List) /\ Used(u) = Used(Kept) /\ DOMAIN Kept \subseteq DOMAIN u
    BY <1>1, <1>3, <1>6, GrownTable
  <2>2. CASE parjob
    BY <1>1, <1>4, <2>1, <2>2 DEF List
  <2>3. CASE ~parjob
    <3>1. j \notin DOMAIN Kept /\ Kept = jobtab
      BY <1>1, <1>6, <2>3, SlotFacts, GrownTable, KeptTable
    <3>2. j \notin Elems(curjob) /\ Elems(curjob) = Used(jobtab) /\ curjob \in Seq(DOMAIN jobtab)
      BY <3>1 DEF Table, Listed, Used
    <3> HIDE DEF j
    <3>3. \A k \in DOMAIN jobtab : jobtab[k] \in Job
      BY <1>2, <3>1
    <3>4. u \in Seq(Job) /\ \A k \in Used(u) : Sound(u[k])
      BY <2>1 DEF Table
    <3>5. Unlink(curjob, {j}) \in Seq(Elems(curjob) \ {j}) /\ Elems(Unlink(curjob, {j})) = Elems(curjob) \ {j}
          /\ Once(Unlink(curjob, {j}))
      BY <3>2, UnlinkFacts DEF Table, Listed
    <3>6. Elems(curjob) \ {j} = Used(u) /\ Used(u) \subseteq DOMAIN u
      BY <2>1, <3>1, <3>2 DEF Used
    <3>7. q \in Seq(DOMAIN u)
      <4> DEFINE r == Unlink(curjob, {j})
                 S == Elems(curjob) \ {j}
      <4>1. r \in Seq(S) /\ S \subseteq DOMAIN u
        BY <3>5, <3>6
      <4>2. q = r
        BY <1>4, <2>3
      <4> HIDE DEF r, S
      <4>3. r \in Seq(DOMAIN u)
        BY ONLY <4>1, SeqMonotonic
      <4> QED BY <4>2, <4>3
    <3> QED BY <1>1, <1>4, <2>1, <2>3, <3>4, <3>5, <3>6, <3>7 DEF Table, Listed
  <2> QED BY <2>2, <2>3
<1> QED BY <1>5, <1>6

LEMMA TableSubshell == TableInv /\ (Subshell \/ SubshellInPlace) => TableInv'
<1> SUFFICES ASSUME TableInv, Subshell \/ SubshellInPlace PROVE TableInv'
  OBVIOUS
<1>1. KernelOK /\ FlagsOK /\ Table(jobtab, curjob) /\ CallOK /\ Control
  BY DEF TableInv
<1>2. /\ pc = "idle" /\ level < MaxLevel /\ level' = level + 1
      /\ UNCHANGED <<proc, exit, news, group, flagVars, intpending, job_warning, callVars,
                     block, found, ret, pc>>
      /\ children' \in {children, {}} /\ sigchld' \in BOOLEAN /\ mflag' \in BOOLEAN /\ parjob' \in BOOLEAN
  BY <1>1 DEF Subshell, SubshellInPlace, kernelVars, KernelOK, FlagsOK
<1>3. Table(jobtab', curjob') /\ DOMAIN jobtab \subseteq DOMAIN jobtab'
  <2>1. CASE Subshell
    <3>1. LET j == Slot(Kept) IN
            /\ jobtab' = IF Free(Kept) # {} THEN [Kept EXCEPT ![j] = Unused] ELSE growjobtab(Kept)
            /\ curjob' = IF parjob THEN <<>> ELSE Without(curjob, j)
      BY <2>1 DEF Subshell
    <3> QED BY <1>1, <3>1, ChildTable
  <2>2. CASE SubshellInPlace
    <3>1. jobtab' = Kept /\ curjob' = List
      BY <2>2 DEF SubshellInPlace, List
    <3> QED BY <1>1, <3>1, KeptTable
  <2> QED BY <2>1, <2>2
<1>4. KernelOK'
  BY <1>1, <1>2 DEF KernelOK
<1>5. FlagsOK'
  BY <1>1, <1>2, JobsAssumption DEF FlagsOK, flagVars
<1>6. CallOK' /\ Control'
  BY <1>1, <1>2, <1>3, CallIdle
<1> QED BY <1>3, <1>4, <1>5, <1>6 DEF TableInv

LEMMA TableHandlers == TableInv /\ Handlers => TableInv'
<1> SUFFICES ASSUME TableInv, Handlers PROVE TableInv'
  OBVIOUS
<1>1. KernelOK /\ FlagsOK /\ Table(jobtab, curjob) /\ CallOK /\ Control
  BY DEF TableInv
<1>2. /\ UNCHANGED <<proc, exit, news, group, children, tableVars, mflag, job_warning, level,
                     callVars, block, found, ret>>
      /\ gotsigchld' \in BOOLEAN /\ pending_sig' \in BOOLEAN /\ sigchld' \in BOOLEAN
      /\ intpending' \in BOOLEAN /\ pc' \in Woken
      /\ (intpending' = intpending \/ pc # "idle")
  BY <1>1 DEF Handlers, OnSigchld, OnTrapped, OnInterrupt, KernelOK, FlagsOK, CallOK,
              kernelVars, flagVars
<1>3. KernelOK' /\ FlagsOK'
  BY <1>1, <1>2 DEF KernelOK, FlagsOK, tableVars
<1>4. jobtab' = jobtab /\ curjob' = curjob
  BY <1>2 DEF tableVars
<1>5. pc' = pc \/ (pc \in {"asleep", "wait3"} /\ pc' \in Points \ {"idle", "fork"})
  BY <1>2 DEF Woken, Points
<1>6. CallOK' /\ Control'
  BY <1>1, <1>2, <1>4, <1>5 DEF CallOK, Control, callVars, tableVars
<1> QED BY <1>1, <1>3, <1>4, <1>6 DEF TableInv

LEMMA TableKernel == TableInv /\ Kernel => TableInv'
<1> SUFFICES ASSUME TableInv, NEW p \in Pids, Exit(p) \/ Stop(p) \/ Cont(p), UNCHANGED shellVars
             PROVE  TableInv'
  BY DEF Kernel, Ends
<1>1. KernelOK /\ FlagsOK
  BY DEF TableInv
<1>2. Quiet
  BY DEF shellVars, Quiet
<1>3. FlagsOK'
  BY <1>1 DEF FlagsOK, shellVars, tableVars, flagVars
<1>4. KernelOK'
  <2>1. CASE Exit(p)
    BY <1>1, <2>1 DEF Exit, KernelOK
  <2>2. CASE Stop(p)
    BY <1>1, <2>2 DEF Stop, KernelOK
  <2>3. CASE Cont(p)
    BY <1>1, <2>3, ContinueType DEF Cont
  <2> QED BY <2>1, <2>2, <2>3
<1> QED BY <1>2, <1>3, <1>4, TableQuiet

LEMMA TableInit == Init => TableInv
<1> SUFFICES ASSUME Init PROVE TableInv
  OBVIOUS
<1>1. KernelOK
  BY JobsAssumption DEF Init, KernelOK
<1>2. FlagsOK
  <2>1. mflag \in BOOLEAN
    BY JobsAssumption DEF Init
  <2>2. level \in 0 .. MaxLevel /\ job_warning \in 0 .. 2
    BY JobsAssumption DEF Init
  <2> QED BY <2>1, <2>2 DEF Init, FlagsOK
<1>3. /\ intpending = FALSE /\ op = "none" /\ job = 0 /\ left = 0 /\ mode = "none"
      /\ block = "DOWAIT_NORMAL" /\ found = FALSE /\ ret = "none" /\ pc = "idle"
      /\ jobtab = <<>> /\ curjob = <<>>
  BY DEF Init
<1>4. left \in 0 .. PipeLen
  BY <1>3, JobsAssumption
<1>5. CallOK /\ Control
  BY <1>3, <1>4 DEF CallOK, Control, Ops, Blocks, Rets, Points
<1>6. Table(jobtab, curjob)
  <2>1. jobtab \in Seq(Job) /\ DOMAIN jobtab = {}
    BY <1>3, EmptySeq
  <2>2. Used(jobtab) = {}
    BY <2>1 DEF Used
  <2>3. curjob \in Seq(DOMAIN jobtab) /\ DOMAIN curjob = {}
    BY <1>3, EmptySeq
  <2>4. Elems(curjob) = {} /\ Once(curjob)
    BY <2>3 DEF Elems, Once
  <2> QED BY <2>1, <2>2, <2>3, <2>4 DEF Table, Listed
<1> QED BY <1>1, <1>2, <1>5, <1>6 DEF TableInv

LEMMA TableNext == TableInv /\ [Next]_vars => TableInv'
<1> SUFFICES ASSUME TableInv, [Next]_vars PROVE TableInv'
  OBVIOUS
<1>1. CASE Idle
  BY <1>1, TableStartJob, TableReturns, TableWaitTurns, TableShow, TableLeaving, TableRestart,
     TableKill, TableIdle, TableSubshell DEF Idle
<1>2. CASE Fork
  BY <1>2, TableForkshell, TableForkEnds DEF Fork
<1>3. CASE Waitproc
  BY <1>3, TableWaitproc, TableWait3Found DEF Waitproc
<1>4. CASE After
  BY <1>4, TableReturns, TableWaitforjob, TableWaitTurns, TableShow, TableLeaving DEF After
<1>5. CASE Handlers \/ Kernel
  BY <1>5, TableHandlers, TableKernel
<1>6. CASE UNCHANGED vars
  <2>1. Quiet /\ KernelOK' /\ FlagsOK'
    BY <1>6 DEF vars, Quiet, TableInv, KernelOK, FlagsOK, kernelVars, flagVars, tableVars
  <2> QED BY <2>1, TableQuiet
<1> QED BY <1>1, <1>2, <1>3, <1>4, <1>5, <1>6 DEF Next

LEMMA TableAlways == Spec => []TableInv
BY TableInit, TableNext, PTL DEF Spec

\* The list through prev_job holds every used entry of the table exactly once,
\* for any number of jobs and processes and whatever order they are started,
\* waited for, shown, continued and freed in.
THEOREM ListIsTable == Spec => []ListInv
BY ListOf, TableAlways, PTL

\* The state that is kept with a job follows from the statuses of its
\* processes, unless the terminal may be refused to a job that is continued:
\* restartjob then marks the job as running before it fails.
THEOREM StatesFollow == "tty" \notin Faults => (Spec => []StateInv)
<1> SUFFICES ASSUME "tty" \notin Faults PROVE Spec => []StateInv
  OBVIOUS
<1>1. TableInv => StateInv
  <2> SUFFICES ASSUME TableInv, NEW j \in Used(jobtab), jobtab[j].ps # <<>>
               PROVE  /\ jobtab[j].state = "JOBRUNNING" <=> "running" \in StatusesOf(jobtab[j])
                      /\ jobtab[j].state = "JOBDONE" <=> /\ "running" \notin StatusesOf(jobtab[j])
                                                         /\ "stopped" \notin StatusesOf(jobtab[j])
    BY DEF StateInv
  <2>1. Sound(jobtab[j])
    BY DEF TableInv, Table
  <2> QED BY <2>1 DEF Sound
<1> QED BY <1>1, TableAlways, PTL

=============================================================================

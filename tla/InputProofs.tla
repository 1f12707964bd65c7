------------------------------ MODULE InputProofs ------------------------------
(***************************************************************************)
(* Theorems about Input: no alias is freed while it is read or referred    *)
(* to, none stays in use when it no longer is, and every character is read *)
(* once and in its order, for every text, every set of aliases and every   *)
(* nesting of files.                                                       *)
(***************************************************************************)
EXTENDS Input, SequenceTheorems, WellFoundedInduction, TLAPS

(***************************************************************************)
(* The invariant.  Of files and strings it says only where pushed strings  *)
(* are, not what they hold.                                                *)
(***************************************************************************)

IsSeq(s) == s \in Seq({s[i] : i \in DOMAIN s})

\* Files with their pushed strings, where a name is pushed once at most.
Stacked(fs) ==
  /\ IsSeq(fs) /\ Len(fs) # 0
  /\ \A i \in 1 .. Len(fs) : "push" \in DOMAIN fs[i] /\ IsSeq(fs[i].push)
Once(fs) ==
  \A i, k \in DOMAIN fs : \A j \in DOMAIN fs[i].push, l \in DOMAIN fs[k].push :
    fs[i].push[j].ap = fs[k].push[l].ap => i = k /\ j = l

\* Aliases have texts of their own, in memory that is not free.
Alias == [cell : Cells \cup {0}, inuse : BOOLEAN, dead : BOOLEAN]
Texts(h, a) ==
  /\ DOMAIN h = Cells /\ \A c \in Cells : 1 \in DOMAIN h[c]
  /\ a \in [Names -> Alias]
  /\ \A n \in Names : a[n].cell # 0 => h[a[n].cell][1] # "free"
  /\ \A n, m \in Names : a[n].cell # 0 /\ a[n].cell = a[m].cell => n = m

\* The strings in P are pushed, the aliases in d are done: each name is one or
\* the other.  A string is its alias's text, or a text that its alias had.
Used(P, h, a, d) ==
  /\ \A sp \in P : /\ sp.ap \in Names /\ sp.string \in Cells
                   /\ h[sp.string][1] # "free" /\ a[sp.ap].cell # 0
                   /\ sp.ap \notin d
                   /\ \A n \in Names : a[n].cell = sp.string => n = sp.ap
  /\ \A sp, sq \in P : sp.ap = sq.ap \/ sp.string = sq.string => sp = sq
  /\ d \subseteq Names /\ \A n \in d : a[n].cell # 0
  /\ \A n \in Names : /\ a[n].inuse <=> n \in d \cup {sp.ap : sp \in P}
                      /\ a[n].dead => a[n].inuse

MemoryOK(P, h, a, d) == Texts(h, a) /\ Used(P, h, a, d)

InputInv ==
  /\ Stacked(files) /\ Once(files) /\ MemoryOK(Pushed(files), heap, aliases, aliasdone)
  /\ phase = "return" => Len(files) > 1

(***************************************************************************)
(* Sequences.                                                              *)
(***************************************************************************)

LEMMA SeqIs ==
  ASSUME NEW T, NEW s \in Seq(T)
  PROVE  IsSeq(s) /\ Len(s) \in Nat /\ DOMAIN s = 1 .. Len(s) /\ \A i \in 1 .. Len(s) : s[i] \in T
<1>1. Len(s) \in Nat /\ DOMAIN s = 1 .. Len(s) /\ s \in [1 .. Len(s) -> T] /\ \A i \in 1 .. Len(s) : s[i] \in T
  BY LenProperties, ElementOfSeq
<1>2. PICK R : R = {s[i] : i \in DOMAIN s}
  OBVIOUS
<1>3. s \in [1 .. Len(s) -> R]
  BY <1>1, <1>2
<1>4. s \in Seq(R)
  BY <1>1, <1>3, SeqDef
<1> QED BY <1>1, <1>2, <1>4 DEF IsSeq

LEMMA IsSeqIs ==
  ASSUME NEW s, IsSeq(s)
  PROVE  Len(s) \in Nat /\ DOMAIN s = 1 .. Len(s)
BY SeqIs DEF IsSeq

LEMMA AppendIs ==
  ASSUME NEW s, IsSeq(s), NEW x
  PROVE  /\ IsSeq(Append(s, x)) /\ Len(Append(s, x)) = Len(s) + 1
         /\ DOMAIN Append(s, x) = 1 .. Len(s) + 1
         /\ Append(s, x)[Len(s) + 1] = x /\ \A i \in 1 .. Len(s) : Append(s, x)[i] = s[i]
<1>1. PICK T : T = {s[i] : i \in DOMAIN s} \cup {x}
  OBVIOUS
<1>2. s \in Seq(T)
  <2>1. {s[i] : i \in DOMAIN s} \subseteq T
    BY <1>1
  <2> QED BY <2>1, SeqMonotonic DEF IsSeq
<1>3. x \in T
  BY <1>1
<1>4. Append(s, x) \in Seq(T) /\ Len(Append(s, x)) = Len(s) + 1
      /\ Append(s, x)[Len(s) + 1] = x /\ \A i \in 1 .. Len(s) : Append(s, x)[i] = s[i]
  BY <1>2, <1>3, AppendProperties
<1> QED BY <1>4, SeqIs

LEMMA CutIs ==
  ASSUME NEW s, IsSeq(s), NEW m \in 1 .. Len(s) + 1, NEW n \in 0 .. Len(s)
  PROVE  /\ IsSeq(SubSeq(s, m, n))
         /\ Len(SubSeq(s, m, n)) = IF m <= n THEN n - m + 1 ELSE 0
         /\ DOMAIN SubSeq(s, m, n) = 1 .. Len(SubSeq(s, m, n))
         /\ \A i \in 1 .. n - m + 1 : SubSeq(s, m, n)[i] = s[m + i - 1]
<1>1. PICK T : T = {s[i] : i \in DOMAIN s}
  OBVIOUS
<1>2. s \in Seq(T) /\ Len(s) \in Nat
  BY <1>1, IsSeqIs DEF IsSeq
<1>3. \A i \in m .. n : s[i] \in T
  BY <1>2, ElementOfSeq
<1>4. /\ SubSeq(s, m, n) \in Seq(T) /\ Len(SubSeq(s, m, n)) = IF m <= n THEN n - m + 1 ELSE 0
      /\ \A i \in 1 .. n - m + 1 : SubSeq(s, m, n)[i] = s[m + i - 1]
  BY <1>2, <1>3, SubSeqProperties
<1> QED BY <1>4, SeqIs

LEMMA FrontIs ==
  ASSUME NEW s, IsSeq(s), s # <<>>
  PROVE  /\ IsSeq(Front(s)) /\ Len(s) \in Nat \ {0} /\ Len(Front(s)) = Len(s) - 1
         /\ DOMAIN Front(s) = 1 .. Len(s) - 1 /\ Last(s) = s[Len(s)]
         /\ \A i \in 1 .. Len(s) - 1 : Front(s)[i] = s[i]
<1>1. Len(s) \in Nat \ {0}
  <2>1. s \in Seq({s[i] : i \in DOMAIN s}) /\ Len(s) \in Nat
    BY IsSeqIs DEF IsSeq
  <2>2. Len(s) # 0
    BY <2>1, EmptySeq
  <2> QED BY <2>1, <2>2
<1>2. PICK n \in Nat : n = Len(s) - 1
  BY <1>1
<1>3. 1 \in 1 .. Len(s) + 1 /\ n \in 0 .. Len(s)
  BY <1>1, <1>2
<1>4. /\ IsSeq(SubSeq(s, 1, n)) /\ Len(SubSeq(s, 1, n)) = IF 1 <= n THEN n - 1 + 1 ELSE 0
      /\ DOMAIN SubSeq(s, 1, n) = 1 .. Len(SubSeq(s, 1, n))
      /\ \A i \in 1 .. n - 1 + 1 : SubSeq(s, 1, n)[i] = s[1 + i - 1]
  BY <1>3, CutIs
<1> QED BY <1>1, <1>2, <1>4 DEF Front, Last

LEMMA ReplaceIs ==
  ASSUME NEW s, IsSeq(s), NEW k \in 1 .. Len(s), NEW x
  PROVE  /\ IsSeq([s EXCEPT ![k] = x]) /\ Len([s EXCEPT ![k] = x]) = Len(s)
         /\ DOMAIN [s EXCEPT ![k] = x] = 1 .. Len(s)
         /\ \A i \in 1 .. Len(s) : [s EXCEPT ![k] = x][i] = IF i = k THEN x ELSE s[i]
<1>1. PICK T : T = {s[i] : i \in DOMAIN s} \cup {x}
  OBVIOUS
<1>2. s \in Seq(T)
  <2>1. {s[i] : i \in DOMAIN s} \subseteq T
    BY <1>1
  <2> QED BY <2>1, SeqMonotonic DEF IsSeq
<1>3. x \in T
  BY <1>1
<1>4. /\ [s EXCEPT ![k] = x] \in Seq(T) /\ Len([s EXCEPT ![k] = x]) = Len(s)
      /\ \A i \in 1 .. Len(s) : [s EXCEPT ![k] = x][i] = IF i = k THEN x ELSE s[i]
  BY <1>2, <1>3, ExceptSeq
<1> QED BY <1>4, SeqIs

\* What Min returns.
MinOf(T, m) == m \in T /\ \A x \in T : m <= x

LEMMA MinIs ==
  ASSUME NEW T \in SUBSET Nat, T # {}
  PROVE  MinOf(T, Min(T))
<1> DEFINE R == {ss \in Nat \X Nat : ss[1] < ss[2]}
<1>1. IsWellFoundedOn(R, Nat)
  BY NatLessThanWellFounded, Zenon DEF OpToRel
<1> HIDE DEF R
<1>2. PICK x \in T : \A y \in T : ~(<<y, x>> \in R)
  BY <1>1, WFMin, Zenon
<1>3. \A y \in T : ~(y < x)
  BY <1>2 DEF R
<1>4. \A y \in T : x <= y
  BY <1>3
<1> QED BY <1>4 DEF Min, MinOf

(***************************************************************************)
(* Files and their pushed strings.                                         *)
(***************************************************************************)

LEMMA PushedIs ==
  \A fs, sp : sp \in Pushed(fs) <=> \E i \in DOMAIN fs : \E j \in DOMAIN fs[i].push : sp = fs[i].push[j]
BY DEF Pushed

LEMMA StackedIs ==
  ASSUME NEW fs, Stacked(fs)
  PROVE  /\ Len(fs) \in Nat \ {0} /\ DOMAIN fs = 1 .. Len(fs) /\ Last(fs) = fs[Len(fs)]
         /\ IsSeq(Last(fs).push) /\ "push" \in DOMAIN Last(fs)
         /\ \A i \in 1 .. Len(fs) : /\ IsSeq(fs[i].push) /\ Len(fs[i].push) \in Nat
                                    /\ DOMAIN fs[i].push = 1 .. Len(fs[i].push)
<1>1. Len(fs) \in Nat \ {0} /\ DOMAIN fs = 1 .. Len(fs)
  BY IsSeqIs DEF Stacked
<1>2. Last(fs) = fs[Len(fs)] /\ Len(fs) \in 1 .. Len(fs)
  BY <1>1 DEF Last
<1> QED BY <1>1, <1>2, IsSeqIs DEF Stacked

\* The innermost file is replaced by g.
With(fs, g) == [fs EXCEPT ![Len(fs)] = g]

LEMMA WithIs ==
  ASSUME NEW fs, Stacked(fs), NEW g, "push" \in DOMAIN g, IsSeq(g.push)
  PROVE  /\ Stacked(With(fs, g)) /\ Len(With(fs, g)) = Len(fs)
         /\ DOMAIN With(fs, g) = DOMAIN fs
         /\ \A i \in DOMAIN fs : With(fs, g)[i] = IF i = Len(fs) THEN g ELSE fs[i]
<1>1. Len(fs) \in 1 .. Len(fs) /\ DOMAIN fs = 1 .. Len(fs) /\ Len(fs) \in Nat \ {0}
  BY StackedIs
<1>2. /\ IsSeq(With(fs, g)) /\ Len(With(fs, g)) = Len(fs) /\ DOMAIN With(fs, g) = 1 .. Len(fs)
      /\ \A i \in 1 .. Len(fs) : With(fs, g)[i] = IF i = Len(fs) THEN g ELSE fs[i]
  BY <1>1, ReplaceIs DEF With, Stacked
<1>3. Stacked(With(fs, g))
  BY <1>1, <1>2 DEF Stacked
<1> QED BY <1>1, <1>2, <1>3

\* Strings stay as they are, one is popped, one is pushed.
LEMMA SamePushed ==
  ASSUME NEW fs, Stacked(fs), Once(fs), NEW g, "push" \in DOMAIN g, g.push = Last(fs).push
  PROVE  /\ Stacked(With(fs, g)) /\ Len(With(fs, g)) = Len(fs)
         /\ Once(With(fs, g)) /\ Pushed(With(fs, g)) = Pushed(fs)
<1>1. IsSeq(g.push) /\ Last(fs) = fs[Len(fs)]
  BY StackedIs
<1>2. PICK gs : gs = With(fs, g)
  OBVIOUS
<1>3. /\ Stacked(gs) /\ Len(gs) = Len(fs) /\ DOMAIN gs = DOMAIN fs
      /\ \A i \in DOMAIN fs : gs[i] = IF i = Len(fs) THEN g ELSE fs[i]
  BY <1>1, <1>2, WithIs
<1>4. \A i \in DOMAIN fs : gs[i].push = fs[i].push
  BY <1>1, <1>3
<1>5. Once(gs)
  BY <1>3, <1>4 DEF Once
<1>6. \A sp : sp \in Pushed(gs) <=> sp \in Pushed(fs)
  BY <1>3, <1>4, PushedIs
<1> QED BY <1>2, <1>3, <1>5, <1>6

LEMMA PushPopped ==
  ASSUME NEW fs, Stacked(fs), Once(fs), Last(fs).push # <<>>,
         NEW g, "push" \in DOMAIN g, g.push = Front(Last(fs).push)
  PROVE  /\ Stacked(With(fs, g)) /\ Len(With(fs, g)) = Len(fs) /\ Once(With(fs, g))
         /\ Last(Last(fs).push) \in Pushed(fs)
         /\ Pushed(With(fs, g)) = Pushed(fs) \ {Last(Last(fs).push)}
<1>1. /\ IsSeq(Last(fs).push) /\ Last(fs) = fs[Len(fs)] /\ Len(fs) \in DOMAIN fs
      /\ \A i \in DOMAIN fs : DOMAIN fs[i].push = 1 .. Len(fs[i].push) /\ Len(fs[i].push) \in Nat
  BY StackedIs
<1>2. PICK n : n = Len(Last(fs).push)
  OBVIOUS
<1>3. /\ IsSeq(g.push) /\ n \in Nat \ {0} /\ DOMAIN g.push = 1 .. n - 1 /\ Last(Last(fs).push) = fs[Len(fs)].push[n]
      /\ \A i \in 1 .. n - 1 : g.push[i] = fs[Len(fs)].push[i]
  BY <1>1, <1>2, FrontIs
<1>4. PICK gs : gs = With(fs, g)
  OBVIOUS
<1>5. /\ Stacked(gs) /\ Len(gs) = Len(fs) /\ DOMAIN gs = DOMAIN fs
      /\ \A i \in DOMAIN fs : gs[i] = IF i = Len(fs) THEN g ELSE fs[i]
  BY <1>3, <1>4, WithIs
<1>6. ASSUME NEW i \in DOMAIN gs, NEW j \in DOMAIN gs[i].push
      PROVE  /\ i \in DOMAIN fs /\ j \in DOMAIN fs[i].push /\ gs[i].push[j] = fs[i].push[j]
             /\ ~(i = Len(fs) /\ j = n)
  <2>1. CASE i = Len(fs)
    <3>1. gs[i].push = g.push /\ j \in 1 .. n - 1
      BY <1>3, <1>5, <2>1
    <3>2. j \in 1 .. n /\ j # n
      BY <1>3, <3>1
    <3> QED BY <1>1, <1>2, <1>3, <1>5, <2>1, <3>1, <3>2
  <2>2. CASE i # Len(fs)
    BY <1>5, <2>2
  <2> QED BY <2>1, <2>2
<1>7. Once(gs)
  BY <1>6 DEF Once
<1>8. PICK sp : sp = Last(Last(fs).push)
  OBVIOUS
<1>9. sp = fs[Len(fs)].push[n] /\ n \in DOMAIN fs[Len(fs)].push
  BY <1>1, <1>2, <1>3, <1>8
<1>10. sp \in Pushed(fs)
  BY <1>1, <1>9, PushedIs
<1>11. ASSUME NEW x \in Pushed(gs)
       PROVE  x \in Pushed(fs) /\ x # sp
  <2>0. PICK i \in DOMAIN gs : \E j \in DOMAIN gs[i].push : x = gs[i].push[j]
    BY PushedIs
  <2>1. PICK j \in DOMAIN gs[i].push : x = gs[i].push[j]
    BY <2>0
  <2>2. i \in DOMAIN fs /\ j \in DOMAIN fs[i].push /\ x = fs[i].push[j] /\ ~(i = Len(fs) /\ j = n)
    BY <1>6, <2>1
  <2>3. x # sp
    BY <1>1, <1>9, <2>2 DEF Once
  <2> QED BY <2>2, <2>3, PushedIs
<1>12. ASSUME NEW x \in Pushed(fs), x # sp
       PROVE  x \in Pushed(gs)
  <2>0. PICK i \in DOMAIN fs : \E j \in DOMAIN fs[i].push : x = fs[i].push[j]
    BY PushedIs
  <2>1. PICK j \in DOMAIN fs[i].push : x = fs[i].push[j]
    BY <2>0
  <2>2. CASE i = Len(fs)
    <3>1. j \in 1 .. n /\ j # n
      BY <1>1, <1>2, <1>9, <1>12, <2>1, <2>2
    <3>2. j \in 1 .. n - 1
      BY <1>3, <3>1
    <3>3. j \in DOMAIN gs[i].push /\ x = gs[i].push[j]
      BY <1>3, <1>5, <2>1, <2>2, <3>2
    <3> QED BY <1>5, <2>1, <3>3, PushedIs
  <2>3. CASE i # Len(fs)
    BY <1>5, <2>1, <2>3, PushedIs
  <2> QED BY <2>2, <2>3
<1>13. Pushed(gs) = Pushed(fs) \ {sp}
  BY <1>11, <1>12
<1> QED BY <1>4, <1>5, <1>7, <1>8, <1>10, <1>13

LEMMA PushPushed ==
  ASSUME NEW fs, Stacked(fs), Once(fs), NEW sp, \A sq \in Pushed(fs) : sq.ap # sp.ap,
         NEW g, "push" \in DOMAIN g, g.push = Append(Last(fs).push, sp)
  PROVE  /\ Stacked(With(fs, g)) /\ Len(With(fs, g)) = Len(fs) /\ Once(With(fs, g))
         /\ Pushed(With(fs, g)) = Pushed(fs) \cup {sp}
<1>1. /\ IsSeq(Last(fs).push) /\ Last(fs) = fs[Len(fs)] /\ Len(fs) \in DOMAIN fs
      /\ \A i \in DOMAIN fs : DOMAIN fs[i].push = 1 .. Len(fs[i].push) /\ Len(fs[i].push) \in Nat
  BY StackedIs
<1>2. PICK n : n = Len(Last(fs).push)
  OBVIOUS
<1>3. /\ IsSeq(g.push) /\ n \in Nat /\ DOMAIN g.push = 1 .. n + 1 /\ g.push[n + 1] = sp
      /\ \A i \in 1 .. n : g.push[i] = fs[Len(fs)].push[i]
  BY <1>1, <1>2, AppendIs
<1>4. PICK gs : gs = With(fs, g)
  OBVIOUS
<1>5. /\ Stacked(gs) /\ Len(gs) = Len(fs) /\ DOMAIN gs = DOMAIN fs
      /\ \A i \in DOMAIN fs : gs[i] = IF i = Len(fs) THEN g ELSE fs[i]
  <2>1. IsSeq(g.push)
    BY <1>3
  <2> QED BY ONLY <2>1, <1>4, Stacked(fs), "push" \in DOMAIN g, WithIs
<1>6. ASSUME NEW i \in DOMAIN gs, NEW j \in DOMAIN gs[i].push
      PROVE  \/ i = Len(fs) /\ j = n + 1 /\ gs[i].push[j] = sp
             \/ i \in DOMAIN fs /\ j \in DOMAIN fs[i].push /\ gs[i].push[j] = fs[i].push[j]
  <2>1. CASE i = Len(fs)
    <3>1. gs[i].push = g.push /\ j \in 1 .. n + 1
      BY <1>3, <1>5, <2>1
    <3>2. j = n + 1 \/ j \in 1 .. n
      BY <1>3, <3>1
    <3> QED BY <1>1, <1>2, <1>3, <1>5, <2>1, <3>1, <3>2
  <2>2. CASE i # Len(fs)
    BY <1>5, <2>2
  <2> QED BY <2>1, <2>2
<1>7. \A i \in DOMAIN fs : \A j \in DOMAIN fs[i].push : fs[i].push[j].ap # sp.ap
  BY PushedIs
<1>8. Once(gs)
  <2> SUFFICES ASSUME NEW i \in DOMAIN gs, NEW k \in DOMAIN gs, NEW j \in DOMAIN gs[i].push,
                      NEW l \in DOMAIN gs[k].push, gs[i].push[j].ap = gs[k].push[l].ap
               PROVE  i = k /\ j = l
    BY DEF Once
  <2>1. \/ i = Len(fs) /\ j = n + 1 /\ gs[i].push[j] = sp
        \/ i \in DOMAIN fs /\ j \in DOMAIN fs[i].push /\ gs[i].push[j] = fs[i].push[j]
    BY <1>6
  <2>2. \/ k = Len(fs) /\ l = n + 1 /\ gs[k].push[l] = sp
        \/ k \in DOMAIN fs /\ l \in DOMAIN fs[k].push /\ gs[k].push[l] = fs[k].push[l]
    BY <1>6
  <2> QED BY <1>7, <2>1, <2>2 DEF Once
<1>9. \A x \in Pushed(gs) : x \in Pushed(fs) \cup {sp}
  BY <1>6, PushedIs
<1>10. \A i \in DOMAIN fs : \A j \in DOMAIN fs[i].push : j \in DOMAIN gs[i].push /\ gs[i].push[j] = fs[i].push[j]
  <2> TAKE i \in DOMAIN fs
  <2> TAKE j \in DOMAIN fs[i].push
  <2>1. CASE i = Len(fs)
    <3>1. j \in 1 .. n /\ j \in 1 .. n + 1
      BY <1>1, <1>2, <1>3, <2>1
    <3> QED BY <1>3, <1>5, <2>1, <3>1
  <2>2. CASE i # Len(fs)
    BY <1>5, <2>2
  <2> QED BY <2>1, <2>2
<1>11. \A x \in Pushed(fs) : x \in Pushed(gs)
  BY <1>5, <1>10, PushedIs
<1>12. sp \in Pushed(gs)
  <2>1. n + 1 \in DOMAIN gs[Len(fs)].push /\ gs[Len(fs)].push[n + 1] = sp
    BY <1>1, <1>3, <1>5
  <2> QED BY <1>1, <1>5, <2>1, PushedIs
<1>13. Pushed(gs) = Pushed(fs) \cup {sp}
  BY <1>9, <1>11, <1>12
<1> QED BY <1>4, <1>5, <1>8, <1>13

\* Files after the first keep are left, one without strings is opened.
Kept(fs, keep) == SubSeq(fs, 1, keep)
Gone(fs, keep) == SubSeq(fs, keep + 1, Len(fs))

LEMMA FilesCut ==
  ASSUME NEW fs, Stacked(fs), Once(fs), NEW keep \in 1 .. Len(fs)
  PROVE  /\ Stacked(Kept(fs, keep)) /\ Once(Kept(fs, keep))
         /\ Pushed(Gone(fs, keep)) \subseteq Pushed(fs)
         /\ Pushed(Kept(fs, keep)) = Pushed(fs) \ Pushed(Gone(fs, keep))
<1>0. PICK up : up = Gone(fs, keep)
  OBVIOUS
<1>1. Len(fs) \in Nat \ {0} /\ DOMAIN fs = 1 .. Len(fs) /\ IsSeq(fs)
  BY StackedIs DEF Stacked
<1>2. PICK n \in Nat : n = Len(fs)
  BY <1>1
<1>3. PICK lo : lo = Kept(fs, keep)
  OBVIOUS
<1>4. IsSeq(lo) /\ Len(lo) = keep /\ DOMAIN lo = 1 .. keep /\ \A i \in 1 .. keep : lo[i] = fs[i]
  <2>1. 1 \in 1 .. Len(fs) + 1 /\ keep \in 0 .. Len(fs) /\ 1 <= keep /\ keep - 1 + 1 = keep
    BY <1>1
  <2>2. /\ IsSeq(lo) /\ Len(lo) = (IF 1 <= keep THEN keep - 1 + 1 ELSE 0)
        /\ DOMAIN lo = 1 .. Len(lo)
        /\ \A i \in 1 .. keep - 1 + 1 : lo[i] = fs[1 + i - 1]
    BY <1>1, <1>3, <2>1, CutIs DEF Kept
  <2> QED BY <2>1, <2>2
<1>5. DOMAIN up = 1 .. n - keep /\ \A i \in 1 .. n - keep : up[i] = fs[keep + i]
  <2>1. PICK m \in Nat : m = keep + 1
    BY <1>1
  <2>2. m \in 1 .. Len(fs) + 1 /\ n \in 0 .. Len(fs)
    BY <1>1, <1>2, <2>1
  <2>3. /\ Len(up) = (IF m <= n THEN n - m + 1 ELSE 0)
        /\ DOMAIN up = 1 .. Len(up)
        /\ \A i \in 1 .. n - m + 1 : up[i] = fs[m + i - 1]
    <3>1. up = SubSeq(fs, m, n)
      BY <1>0, <1>2, <2>1 DEF Gone
    <3>2. /\ Len(SubSeq(fs, m, n)) = IF m <= n THEN n - m + 1 ELSE 0
          /\ DOMAIN SubSeq(fs, m, n) = 1 .. Len(SubSeq(fs, m, n))
          /\ \A i \in 1 .. n - m + 1 : SubSeq(fs, m, n)[i] = fs[m + i - 1]
      <4>1. IsSeq(fs)
        BY <1>1
      <4> QED BY ONLY <2>2, <4>1, CutIs
    <3> QED BY ONLY <3>1, <3>2
  <2>4. DOMAIN up = 1 .. n - keep
    BY <1>2, <2>1, <2>3
  <2>5. \A i \in 1 .. n - keep : m + i - 1 = keep + i /\ i \in 1 .. n - m + 1
    BY <1>2, <2>1
  <2> QED BY <2>3, <2>4, <2>5
<1>6. 1 .. keep \subseteq DOMAIN fs
  BY <1>1
<1>7. Stacked(lo)
  BY <1>1, <1>4, <1>6 DEF Stacked
<1>8. Once(lo)
  BY <1>4, <1>6 DEF Once
<1>9. ASSUME NEW x \in Pushed(up)
      PROVE  x \in Pushed(fs) /\ x \notin Pushed(lo)
  <2>1. PICK i \in DOMAIN up : \E j \in DOMAIN up[i].push : x = up[i].push[j]
    BY ONLY x \in Pushed(up), PushedIs
  <2>2. PICK k \in DOMAIN fs : k = keep + i /\ k \notin 1 .. keep
    BY <1>1, <1>2, <1>5
  <2>3. up[i] = fs[k]
    BY <1>5, <2>2
  <2>4. PICK j \in DOMAIN fs[k].push : x = fs[k].push[j]
    BY <2>1, <2>3
  <2>5. x \in Pushed(fs)
    BY <2>4, PushedIs
  <2>6. ASSUME x \in Pushed(lo)
        PROVE  FALSE
    <3>1. PICK h \in DOMAIN lo : \E l \in DOMAIN lo[h].push : x = lo[h].push[l]
      BY <2>6, PushedIs
    <3>2. h \in 1 .. keep /\ h \in DOMAIN fs /\ lo[h] = fs[h]
      BY <1>4, <1>6
    <3>3. PICK l \in DOMAIN fs[h].push : x = fs[h].push[l]
      BY <3>1, <3>2
    <3>4. h = k
      BY <2>4, <3>2, <3>3 DEF Once
    <3> QED BY <2>2, <3>2, <3>4
  <2> QED BY <2>5, <2>6
<1>10. ASSUME NEW x \in Pushed(lo)
       PROVE  x \in Pushed(fs)
  <2>1. PICK h \in DOMAIN lo : \E l \in DOMAIN lo[h].push : x = lo[h].push[l]
    BY PushedIs
  <2>2. h \in DOMAIN fs /\ lo[h] = fs[h]
    BY <1>4, <1>6
  <2> QED BY <2>1, <2>2, PushedIs
<1>11. ASSUME NEW x \in Pushed(fs), x \notin Pushed(up)
       PROVE  x \in Pushed(lo)
  <2>1. PICK h \in DOMAIN fs : \E l \in DOMAIN fs[h].push : x = fs[h].push[l]
    BY PushedIs
  <2>2. CASE h \in 1 .. keep
    BY <1>4, <2>1, <2>2, PushedIs
  <2>3. CASE h \notin 1 .. keep
    <3>1. h \in 1 .. n
      BY <1>1, <1>2
    <3>2. PICK i \in 1 .. n - keep : h = keep + i
      <4>1. h - keep \in 1 .. n - keep /\ h = keep + (h - keep)
        BY <1>1, <1>2, <2>3, <3>1
      <4> QED BY <4>1
    <3>3. i \in DOMAIN up /\ up[i] = fs[h]
      BY <1>5, <3>2
    <3> QED BY <1>11, <2>1, <3>3, PushedIs
  <2> QED BY <2>2, <2>3
<1>12. Pushed(lo) = Pushed(fs) \ Pushed(up)
  BY <1>9, <1>10, <1>11
<1> QED BY <1>0, <1>3, <1>7, <1>8, <1>9, <1>12

LEMMA FileAdded ==
  ASSUME NEW fs, Stacked(fs), Once(fs), NEW f, "push" \in DOMAIN f, f.push = <<>>
  PROVE  /\ Stacked(Append(fs, f)) /\ Once(Append(fs, f)) /\ Pushed(Append(fs, f)) = Pushed(fs)
<1>1. Len(fs) \in Nat \ {0} /\ DOMAIN fs = 1 .. Len(fs) /\ IsSeq(fs)
  BY StackedIs DEF Stacked
<1>2. PICK gs : gs = Append(fs, f)
  OBVIOUS
<1>3. PICK n \in Nat : n = Len(fs)
  BY <1>1
<1>4. IsSeq(gs) /\ Len(gs) = n + 1 /\ DOMAIN gs = 1 .. n + 1 /\ gs[n + 1] = f /\ \A i \in 1 .. n : gs[i] = fs[i]
  BY <1>1, <1>2, <1>3, AppendIs
<1>5. DOMAIN f.push = {} /\ IsSeq(f.push)
  <2>1. <<>> \in Seq({}) /\ Len(<<>>) = 0
    BY EmptySeq
  <2>2. IsSeq(<<>>) /\ DOMAIN <<>> = 1 .. Len(<<>>)
    BY <2>1, SeqIs
  <2>3. 1 .. Len(<<>>) = {}
    BY <2>1
  <2> QED BY <2>2, <2>3
<1>6. 1 .. n \subseteq 1 .. n + 1 /\ \A i \in 1 .. n + 1 : i \in 1 .. n \/ i = n + 1
  BY <1>3
<1>7. Stacked(gs)
  <2>1. Len(gs) # 0
    BY <1>3, <1>4
  <2> QED BY <1>1, <1>3, <1>4, <1>5, <1>6, <2>1 DEF Stacked
<1>8. \A i \in DOMAIN gs : \A j \in DOMAIN gs[i].push : i \in DOMAIN fs /\ j \in DOMAIN fs[i].push /\ gs[i] = fs[i]
  BY <1>1, <1>3, <1>4, <1>5, <1>6
<1>9. Once(gs)
  BY <1>8 DEF Once
<1>10. \A i \in DOMAIN fs : i \in DOMAIN gs /\ gs[i] = fs[i]
  BY <1>1, <1>3, <1>4, <1>6
<1>11. \A x : x \in Pushed(gs) <=> x \in Pushed(fs)
  BY <1>8, <1>10, PushedIs
<1> QED BY <1>2, <1>7, <1>9, <1>11

(***************************************************************************)
(* The memory of the aliases.                                              *)
(***************************************************************************)

\* What is freed, and what it leaves alone.
LEMMA FreedIs ==
  ASSUME DOMAIN heap = Cells, NEW cs
  PROVE  /\ DOMAIN Freed(cs) = Cells
         /\ \A c \in Cells : c \notin cs => Freed(cs)[c] = heap[c]
         /\ \A c \in Cells : 1 \in DOMAIN heap[c] => 1 \in DOMAIN Freed(cs)[c]
BY DEF Freed

\* Strings are popped, and their aliases are done.
LEMMA DoneKeeps ==
  ASSUME NEW P, MemoryOK(P, heap, aliases, aliasdone), NEW Q \in SUBSET P, Done(Q)
  PROVE  MemoryOK(P \ Q, heap', aliases', aliasdone')
<1>1. /\ DOMAIN heap = Cells /\ \A c \in Cells : 1 \in DOMAIN heap[c]
      /\ aliases \in [Names -> Alias]
      /\ \A n \in Names : aliases[n].cell # 0 => heap[aliases[n].cell][1] # "free"
      /\ \A n, m \in Names : aliases[n].cell # 0 /\ aliases[n].cell = aliases[m].cell => n = m
  BY DEF MemoryOK, Texts
<1>2. \A n \in Names : aliases[n].cell \in Cells \cup {0}
  BY <1>1 DEF Alias
<1>3. /\ \A sp \in P : /\ sp.ap \in Names /\ sp.string \in Cells
                       /\ heap[sp.string][1] # "free" /\ aliases[sp.ap].cell # 0
                       /\ sp.ap \notin aliasdone
                       /\ \A n \in Names : aliases[n].cell = sp.string => n = sp.ap
      /\ \A sp, sq \in P : sp.ap = sq.ap \/ sp.string = sq.string => sp = sq
      /\ aliasdone \subseteq Names /\ \A n \in aliasdone : aliases[n].cell # 0
      /\ \A n \in Names : /\ aliases[n].inuse <=> n \in aliasdone \cup {sp.ap : sp \in P}
                          /\ aliases[n].dead => aliases[n].inuse
  BY DEF MemoryOK, Used
<1>4. PICK cs : cs = {sp.string : sp \in {sp \in Q : sp.string # aliases[sp.ap].cell}}
  OBVIOUS
<1>5. /\ heap' = Freed(cs) /\ aliasdone' = aliasdone \cup {sp.ap : sp \in Q} /\ aliases' = aliases
  BY <1>4 DEF Done
<1>6. /\ DOMAIN heap' = Cells /\ \A c \in Cells : c \notin cs => heap'[c] = heap[c]
      /\ \A c \in Cells : 1 \in DOMAIN heap'[c]
  BY <1>1, <1>5, FreedIs
<1>7. \A n \in Names : aliases[n].cell \notin cs
  <2> SUFFICES ASSUME NEW n \in Names, aliases[n].cell \in cs
               PROVE  FALSE
    OBVIOUS
  <2>1. PICK sp \in Q : sp.string # aliases[sp.ap].cell /\ aliases[n].cell = sp.string
    BY <1>4
  <2>2. n = sp.ap
    BY <1>3, <2>1
  <2> QED BY <2>1, <2>2
<1>8. \A sp \in P \ Q : sp.string \notin cs
  BY <1>3, <1>4
<1>9. Texts(heap', aliases')
  BY <1>1, <1>2, <1>5, <1>6, <1>7, Zenon DEF Texts
<1>10. Used(P \ Q, heap', aliases', aliasdone')
  <2>1. ASSUME NEW sp \in P \ Q
        PROVE  /\ sp.ap \in Names /\ sp.string \in Cells
               /\ heap'[sp.string][1] # "free" /\ aliases'[sp.ap].cell # 0
               /\ sp.ap \notin aliasdone'
               /\ \A n \in Names : aliases'[n].cell = sp.string => n = sp.ap
    <3>1. sp \in P /\ sp.string \notin cs
      BY <1>8
    <3>2. heap'[sp.string] = heap[sp.string]
      BY <1>3, <1>6, <3>1
    <3>3. sp.ap \notin {sq.ap : sq \in Q}
      BY <1>3, <2>1
    <3> QED BY <1>3, <1>5, <3>1, <3>2, <3>3
  <2>2. \A sp, sq \in P \ Q : sp.ap = sq.ap \/ sp.string = sq.string => sp = sq
    BY <1>3
  <2>3. aliasdone' \subseteq Names /\ \A n \in aliasdone' : aliases'[n].cell # 0
    BY <1>3, <1>5
  <2>4. aliasdone' \cup {sp.ap : sp \in P \ Q} = aliasdone \cup {sp.ap : sp \in P}
    BY <1>5
  <2>5. \A n \in Names : /\ aliases'[n].inuse <=> n \in aliasdone' \cup {sp.ap : sp \in P \ Q}
                         /\ aliases'[n].dead => aliases'[n].inuse
    BY <1>3, <1>5, <2>4
  <2> QED BY <2>1, <2>2, <2>3, <2>5 DEF Used
<1> QED BY <1>9, <1>10 DEF MemoryOK

\* The memory stays as it is.
LEMMA MemorySame ==
  ASSUME NEW P, MemoryOK(P, heap, aliases, aliasdone), UNCHANGED memory
  PROVE  MemoryOK(P, heap', aliases', aliasdone')
BY DEF memory

\* The aliases in G are removed, which are not pushed.
LEMMA Removed ==
  ASSUME NEW P, MemoryOK(P, heap, aliases, aliasdone),
         NEW G \in SUBSET Names, \A n \in G : aliases[n].cell # 0 /\ n \notin {sp.ap : sp \in P},
         heap' = Freed({aliases[n].cell : n \in G}), aliases' \in [Names -> Alias],
         \A n \in Names : aliases'[n].cell = IF n \in G THEN 0 ELSE aliases[n].cell,
         aliasdone' \subseteq aliasdone \ G,
         \A n \in Names : /\ aliases'[n].inuse <=> n \in aliasdone' \cup {sp.ap : sp \in P}
                          /\ aliases'[n].dead => aliases'[n].inuse
  PROVE  MemoryOK(P, heap', aliases', aliasdone')
<1>1. /\ DOMAIN heap = Cells /\ \A c \in Cells : 1 \in DOMAIN heap[c]
      /\ aliases \in [Names -> Alias]
      /\ \A n \in Names : aliases[n].cell # 0 => heap[aliases[n].cell][1] # "free"
      /\ \A n, m \in Names : aliases[n].cell # 0 /\ aliases[n].cell = aliases[m].cell => n = m
  BY DEF MemoryOK, Texts
<1>2. /\ \A sp \in P : /\ sp.ap \in Names /\ sp.string \in Cells
                       /\ heap[sp.string][1] # "free" /\ aliases[sp.ap].cell # 0
                       /\ sp.ap \notin aliasdone
                       /\ \A n \in Names : aliases[n].cell = sp.string => n = sp.ap
      /\ \A sp, sq \in P : sp.ap = sq.ap \/ sp.string = sq.string => sp = sq
      /\ aliasdone \subseteq Names /\ \A n \in aliasdone : aliases[n].cell # 0
      /\ \A n \in Names : /\ aliases[n].inuse <=> n \in aliasdone \cup {sp.ap : sp \in P}
                          /\ aliases[n].dead => aliases[n].inuse
  BY DEF MemoryOK, Used
<1>0. \A n \in Names : aliases[n].cell \in Cells \cup {0}
  BY <1>1 DEF Alias
<1>3. PICK cs : cs = {aliases[n].cell : n \in G}
  OBVIOUS
<1>4. /\ DOMAIN heap' = Cells /\ \A c \in Cells : c \notin cs => heap'[c] = heap[c]
      /\ \A c \in Cells : 1 \in DOMAIN heap'[c]
  BY <1>1, <1>3, FreedIs
<1>5. ASSUME NEW n \in Names, aliases'[n].cell # 0
      PROVE  n \notin G /\ aliases'[n].cell = aliases[n].cell /\ heap'[aliases[n].cell] = heap[aliases[n].cell]
  <2>1. n \notin G /\ aliases'[n].cell = aliases[n].cell
    BY <1>5
  <2>2. aliases[n].cell \notin cs
    BY <1>1, <1>3, <1>5, <2>1
  <2>3. aliases[n].cell \in Cells
    BY <1>0, <1>5, <2>1
  <2> QED BY <1>4, <2>1, <2>2, <2>3
<1>6. Texts(heap', aliases')
  <2>1. \A n \in Names : aliases'[n].cell # 0 => heap'[aliases'[n].cell][1] # "free"
    BY <1>1, <1>5
  <2>2. \A n, m \in Names : aliases'[n].cell # 0 /\ aliases'[n].cell = aliases'[m].cell => n = m
    BY <1>1, <1>5
  <2> QED BY <1>4, <2>1, <2>2, Zenon DEF Texts
<1>7. Used(P, heap', aliases', aliasdone')
  <2>1. ASSUME NEW sp \in P
        PROVE  /\ sp.ap \in Names /\ sp.string \in Cells
               /\ heap'[sp.string][1] # "free" /\ aliases'[sp.ap].cell # 0
               /\ sp.ap \notin aliasdone'
               /\ \A n \in Names : aliases'[n].cell = sp.string => n = sp.ap
    <3>1. /\ sp.ap \in Names /\ sp.string \in Cells
          /\ heap[sp.string][1] # "free" /\ aliases[sp.ap].cell # 0
          /\ sp.ap \notin aliasdone
          /\ \A n \in Names : aliases[n].cell = sp.string => n = sp.ap
      BY <1>2, Zenon
    <3>2. sp.ap \notin G
      OBVIOUS
    <3>3. sp.string \notin cs
      BY <1>3, <3>1, <3>2
    <3>4. heap'[sp.string] = heap[sp.string]
      BY <1>4, <3>1, <3>3
    <3>5. sp.string # 0
      BY <3>1, InputAssumption
    <3>6. \A n \in Names : aliases'[n].cell = sp.string => n = sp.ap
      BY <1>5, <3>1, <3>5
    <3> QED BY <3>1, <3>2, <3>4, <3>6
  <2>2. aliasdone' \subseteq Names /\ \A n \in aliasdone' : aliases'[n].cell # 0
    BY <1>2
  <2> QED BY <1>2, <2>1, <2>2 DEF Used
<1> QED BY <1>6, <1>7 DEF MemoryOK

LEMMA freealiasKeeps ==
  ASSUME NEW P, MemoryOK(P, heap, aliases, aliasdone), NEW ns \in SUBSET Defined, freealias(ns)
  PROVE  MemoryOK(P, heap', aliases', aliasdone')
<1>1. /\ DOMAIN heap = Cells /\ \A c \in Cells : 1 \in DOMAIN heap[c]
      /\ aliases \in [Names -> Alias]
      /\ \A n \in Names : aliases[n].cell # 0 => heap[aliases[n].cell][1] # "free"
      /\ \A n, m \in Names : aliases[n].cell # 0 /\ aliases[n].cell = aliases[m].cell => n = m
  BY DEF MemoryOK, Texts
<1>2. /\ \A sp \in P : /\ sp.ap \in Names /\ sp.string \in Cells
                       /\ heap[sp.string][1] # "free" /\ aliases[sp.ap].cell # 0
                       /\ sp.ap \notin aliasdone
                       /\ \A n \in Names : aliases[n].cell = sp.string => n = sp.ap
      /\ \A sp, sq \in P : sp.ap = sq.ap \/ sp.string = sq.string => sp = sq
      /\ aliasdone \subseteq Names /\ \A n \in aliasdone : aliases[n].cell # 0
      /\ \A n \in Names : /\ aliases[n].inuse <=> n \in aliasdone \cup {sp.ap : sp \in P}
                          /\ aliases[n].dead => aliases[n].inuse
  BY DEF MemoryOK, Used
<1>3. PICK G : G = {k \in ns : ~aliases[k].inuse}
  OBVIOUS
<1>4. ns \subseteq Names /\ \A n \in ns : aliases[n].cell # 0
  BY DEF Defined
<1>5. heap' = Freed({aliases[n].cell : n \in G}) /\ aliasdone' = aliasdone
  BY <1>3 DEF freealias
<1>6. \A n \in Names : aliases'[n] = IF n \in G THEN None
                                     ELSE IF n \in ns THEN [aliases[n] EXCEPT !.dead = TRUE] ELSE aliases[n]
  BY <1>3 DEF freealias
<1>7. \A n \in Names : /\ aliases'[n] \in Alias
                       /\ aliases'[n].cell = IF n \in G THEN 0 ELSE aliases[n].cell
                       /\ aliases'[n].inuse <=> aliases[n].inuse
                       /\ aliases'[n].dead => aliases[n].inuse
  <2> TAKE n \in Names
  <2>1. CASE n \in G
    <3>1. aliases'[n] = [cell |-> 0, inuse |-> FALSE, dead |-> FALSE] /\ ~aliases[n].inuse
      BY <1>3, <1>6, <2>1 DEF None
    <3> QED BY <2>1, <3>1 DEF Alias
  <2>2. CASE n \notin G /\ n \in ns
    <3>1. aliases'[n] = [aliases[n] EXCEPT !.dead = TRUE] /\ aliases[n].inuse /\ aliases[n] \in Alias
      BY <1>1, <1>3, <1>6, <2>2
    <3> QED BY <2>2, <3>1 DEF Alias
  <2>3. CASE n \notin ns
    <3>1. aliases'[n] = aliases[n] /\ n \notin G
      BY <1>3, <1>6, <2>3
    <3> QED BY <1>1, <1>2, <3>1
  <2> QED BY <2>1, <2>2, <2>3
<1>8. aliases' \in [Names -> Alias]
  <2>1. DOMAIN aliases' = Names /\ aliases' = [n \in Names |-> aliases'[n]]
    BY DEF freealias
  <2> QED BY <1>7, <2>1
<1>9. G \in SUBSET Names /\ \A n \in G : aliases[n].cell # 0 /\ n \notin aliasdone \cup {sp.ap : sp \in P}
  BY <1>2, <1>3, <1>4
<1>10. aliasdone' \subseteq aliasdone \ G
  BY <1>5, <1>9
<1>11. \A n \in Names : /\ aliases'[n].inuse <=> n \in aliasdone' \cup {sp.ap : sp \in P}
                        /\ aliases'[n].dead => aliases'[n].inuse
  BY <1>2, <1>5, <1>7
<1>12. \A n \in G : aliases[n].cell # 0 /\ n \notin {sp.ap : sp \in P}
  BY <1>9
<1>13. \A n \in Names : aliases'[n].cell = IF n \in G THEN 0 ELSE aliases[n].cell
  BY <1>7
<1>14. G \in SUBSET Names
  BY <1>9
<1> QED BY <1>5, <1>8, <1>10, <1>11, <1>12, <1>13, <1>14, Removed, Zenon

LEMMA endaliasuseKeeps ==
  ASSUME NEW P, MemoryOK(P, heap, aliases, aliasdone), endaliasuse
  PROVE  MemoryOK(P, heap', aliases', aliasdone')
<1>1. /\ DOMAIN heap = Cells /\ \A c \in Cells : 1 \in DOMAIN heap[c]
      /\ aliases \in [Names -> Alias]
      /\ \A n \in Names : aliases[n].cell # 0 => heap[aliases[n].cell][1] # "free"
      /\ \A n, m \in Names : aliases[n].cell # 0 /\ aliases[n].cell = aliases[m].cell => n = m
  BY DEF MemoryOK, Texts
<1>2. /\ \A sp \in P : /\ sp.ap \in Names /\ sp.string \in Cells
                       /\ heap[sp.string][1] # "free" /\ aliases[sp.ap].cell # 0
                       /\ sp.ap \notin aliasdone
                       /\ \A n \in Names : aliases[n].cell = sp.string => n = sp.ap
      /\ \A sp, sq \in P : sp.ap = sq.ap \/ sp.string = sq.string => sp = sq
      /\ aliasdone \subseteq Names /\ \A n \in aliasdone : aliases[n].cell # 0
      /\ \A n \in Names : /\ aliases[n].inuse <=> n \in aliasdone \cup {sp.ap : sp \in P}
                          /\ aliases[n].dead => aliases[n].inuse
  BY DEF MemoryOK, Used
<1>3. PICK G : G = {n \in aliasdone : aliases[n].dead}
  OBVIOUS
<1>4. heap' = Freed({aliases[n].cell : n \in G}) /\ aliasdone' = {}
  BY <1>3 DEF endaliasuse
<1>5. \A n \in Names : aliases'[n] = IF n \in G THEN None
                                     ELSE IF n \in aliasdone THEN [aliases[n] EXCEPT !.inuse = FALSE] ELSE aliases[n]
  BY <1>3 DEF endaliasuse
<1>6. \A n \in Names : /\ aliases'[n] \in Alias
                       /\ aliases'[n].cell = IF n \in G THEN 0 ELSE aliases[n].cell
                       /\ aliases'[n].inuse <=> aliases[n].inuse /\ n \notin aliasdone
                       /\ aliases'[n].dead => aliases[n].inuse /\ n \notin aliasdone
  <2> TAKE n \in Names
  <2>1. CASE n \in G
    <3>1. aliases'[n] = [cell |-> 0, inuse |-> FALSE, dead |-> FALSE] /\ n \in aliasdone
      BY <1>3, <1>5, <2>1 DEF None
    <3> QED BY <2>1, <3>1 DEF Alias
  <2>2. CASE n \notin G /\ n \in aliasdone
    <3>1. aliases'[n] = [aliases[n] EXCEPT !.inuse = FALSE] /\ ~aliases[n].dead /\ aliases[n] \in Alias
      BY <1>1, <1>3, <1>5, <2>2
    <3> QED BY <2>2, <3>1 DEF Alias
  <2>3. CASE n \notin aliasdone
    <3>1. aliases'[n] = aliases[n] /\ n \notin G
      BY <1>3, <1>5, <2>3
    <3> QED BY <1>1, <1>2, <2>3, <3>1
  <2> QED BY <2>1, <2>2, <2>3
<1>7. aliases' \in [Names -> Alias]
  <2>1. DOMAIN aliases' = Names /\ aliases' = [n \in Names |-> aliases'[n]]
    BY DEF endaliasuse
  <2> QED BY <1>6, <2>1
<1>8. G \in SUBSET Names /\ \A n \in G : aliases[n].cell # 0 /\ n \notin {sp.ap : sp \in P}
  BY <1>2, <1>3
<1>9. aliasdone' \subseteq aliasdone \ G
  BY <1>4
<1>10. \A n \in Names : /\ aliases'[n].inuse <=> n \in aliasdone' \cup {sp.ap : sp \in P}
                        /\ aliases'[n].dead => aliases'[n].inuse
  BY <1>2, <1>4, <1>6
<1>11. \A n \in G : aliases[n].cell # 0 /\ n \notin {sp.ap : sp \in P}
  BY <1>8
<1>12. \A n \in Names : aliases'[n].cell = IF n \in G THEN 0 ELSE aliases[n].cell
  BY <1>6
<1>13. G \in SUBSET Names
  BY <1>8
<1> QED BY <1>4, <1>7, <1>9, <1>10, <1>11, <1>12, <1>13, Removed, Zenon

LEMMA FreeIs ==
  ASSUME FreeCells # {}
  PROVE  Min(FreeCells) \in Cells /\ heap[Min(FreeCells)][1] = "free"
<1>1. FreeCells \in SUBSET Nat
  BY InputAssumption DEF FreeCells
<1>2. Min(FreeCells) \in FreeCells
  BY <1>1, MinIs DEF MinOf
<1> QED BY <1>2 DEF FreeCells

LEMMA setaliasKeeps ==
  ASSUME NEW P, MemoryOK(P, heap, aliases, aliasdone), NEW n \in Names, NEW v \in Values, setalias(n, v)
  PROVE  MemoryOK(P, heap', aliases', aliasdone')
<1>1. /\ DOMAIN heap = Cells /\ \A c \in Cells : 1 \in DOMAIN heap[c]
      /\ aliases \in [Names -> Alias]
      /\ \A k \in Names : aliases[k].cell # 0 => heap[aliases[k].cell][1] # "free"
      /\ \A k, m \in Names : aliases[k].cell # 0 /\ aliases[k].cell = aliases[m].cell => k = m
  BY DEF MemoryOK, Texts
<1>2. /\ \A sp \in P : /\ sp.ap \in Names /\ sp.string \in Cells
                       /\ heap[sp.string][1] # "free" /\ aliases[sp.ap].cell # 0
                       /\ sp.ap \notin aliasdone
                       /\ \A k \in Names : aliases[k].cell = sp.string => k = sp.ap
      /\ \A sp, sq \in P : sp.ap = sq.ap \/ sp.string = sq.string => sp = sq
      /\ aliasdone \subseteq Names /\ \A k \in aliasdone : aliases[k].cell # 0
      /\ \A k \in Names : /\ aliases[k].inuse <=> k \in aliasdone \cup {sp.ap : sp \in P}
                          /\ aliases[k].dead => aliases[k].inuse
  BY DEF MemoryOK, Used
<1>3. \A k \in Names : aliases[k].cell \in Cells \cup {0}
  BY <1>1 DEF Alias
<1>4. PICK new \in Cells : new = Min(FreeCells) /\ heap[new][1] = "free"
  BY FreeIs DEF setalias
<1>5. PICK old : old = IF aliases[n].inuse THEN {} ELSE {aliases[n].cell}
  OBVIOUS
<1>6. PICK text : text = <<"=">> \o v /\ 1 \in DOMAIN text /\ text[1] = "="
  <2>1. PICK T : v \in Seq(T) /\ "=" \in T
    <3>1. PICK A : A = Names \cup {"z", " ", ";", "\\", "\n"}
      OBVIOUS
    <3>2. v \in Seq(A)
      BY <3>1, InputAssumption
    <3>3. v \in Seq(A \cup {"="})
      BY <3>2, SeqMonotonic
    <3> QED BY <3>3
  <2>2. <<"=">> \in Seq(T) /\ Len(<<"=">>) = 1 /\ <<"=">>[1] = "="
    BY <2>1
  <2>3. /\ <<"=">> \o v \in Seq(T) /\ Len(<<"=">> \o v) = 1 + Len(v)
        /\ \A i \in 1 .. 1 : (<<"=">> \o v)[i] = <<"=">>[i]
    BY <2>1, <2>2, ConcatProperties
  <2>4. Len(v) \in Nat /\ DOMAIN (<<"=">> \o v) = 1 .. Len(<<"=">> \o v)
    BY <2>1, <2>3, LenProperties
  <2>5. 1 \in 1 .. 1 /\ 1 \in DOMAIN (<<"=">> \o v)
    BY <2>3, <2>4
  <2> QED BY <2>2, <2>3, <2>5
<1>7. /\ heap' = [Freed(old) EXCEPT ![new] = text]
      /\ aliases' = [aliases EXCEPT ![n].cell = new, ![n].dead = FALSE]
      /\ aliasdone' = aliasdone
  BY <1>4, <1>5, <1>6 DEF setalias
<1>8. /\ DOMAIN Freed(old) = Cells /\ \A c \in Cells : c \notin old => Freed(old)[c] = heap[c]
      /\ \A c \in Cells : 1 \in DOMAIN Freed(old)[c]
  BY <1>1, FreedIs
<1>9. /\ DOMAIN heap' = Cells /\ \A c \in Cells : c \notin old /\ c # new => heap'[c] = heap[c]
      /\ \A c \in Cells : 1 \in DOMAIN heap'[c]
      /\ heap'[new] = text
  BY <1>4, <1>6, <1>7, <1>8
<1>10. /\ \A k \in Names : k # n => aliases'[k] = aliases[k]
       /\ aliases'[n] \in Alias /\ aliases'[n].cell = new /\ ~aliases'[n].dead
       /\ aliases'[n].inuse <=> aliases[n].inuse
       /\ DOMAIN aliases' = Names /\ aliases' = [k \in Names |-> aliases'[k]]
  <2>1. aliases[n] \in Alias
    BY <1>1
  <2>2. aliases'[n] = [[aliases[n] EXCEPT !.cell = new] EXCEPT !.dead = FALSE]
    BY <1>1, <1>7
  <2>3. \A k \in Names : k # n => aliases'[k] = aliases[k]
    BY <1>1, <1>7
  <2>4. DOMAIN aliases' = Names /\ aliases' = [k \in Names |-> aliases'[k]]
    BY <1>1, <1>7
  <2>5. aliases'[n] \in Alias /\ aliases'[n].cell = new /\ ~aliases'[n].dead
    BY <2>1, <2>2 DEF Alias
  <2>6. aliases'[n].inuse = aliases[n].inuse
    BY <2>1, <2>2 DEF Alias
  <2> QED BY <2>3, <2>4, <2>5, <2>6
<1>11. aliases' \in [Names -> Alias]
  BY <1>1, <1>10
<1>12. \A k \in Names : k # n => aliases[k].cell # new
  <2> SUFFICES ASSUME NEW k \in Names, aliases[k].cell = new
               PROVE  FALSE
    OBVIOUS
  <2>1. new # 0
    BY <1>4, InputAssumption
  <2> QED BY <1>1, <1>4, <2>1
<1>13. Texts(heap', aliases')
  <2>1. ASSUME NEW k \in Names, aliases'[k].cell # 0
        PROVE  heap'[aliases'[k].cell][1] # "free"
    <3>1. CASE k = n
      <4>1. heap'[aliases'[k].cell] = text
        BY <1>9, <1>10, <3>1
      <4> QED BY <1>6, <4>1
    <3>2. CASE k # n
      <4>1. aliases'[k] = aliases[k] /\ aliases[k].cell # new
        BY <1>10, <1>12, <3>2
      <4>2. aliases[k].cell \notin old
        BY <1>1, <1>5, <2>1, <3>2, <4>1
      <4>3. heap'[aliases[k].cell] = heap[aliases[k].cell]
        BY <1>3, <1>9, <2>1, <4>1, <4>2
      <4> QED BY <1>1, <2>1, <4>1, <4>3
    <3> QED BY <3>1, <3>2
  <2>2. \A k, m \in Names : aliases'[k].cell # 0 /\ aliases'[k].cell = aliases'[m].cell => k = m
    BY <1>1, <1>10, <1>12
  <2> QED BY <1>9, <1>11, <2>1, <2>2, Zenon DEF Texts
<1>14. Used(P, heap', aliases', aliasdone')
  <2>1. ASSUME NEW sp \in P
        PROVE  /\ sp.ap \in Names /\ sp.string \in Cells
               /\ heap'[sp.string][1] # "free" /\ aliases'[sp.ap].cell # 0
               /\ sp.ap \notin aliasdone'
               /\ \A k \in Names : aliases'[k].cell = sp.string => k = sp.ap
    <3>1. /\ sp.ap \in Names /\ sp.string \in Cells
          /\ heap[sp.string][1] # "free" /\ aliases[sp.ap].cell # 0
          /\ sp.ap \notin aliasdone
          /\ \A k \in Names : aliases[k].cell = sp.string => k = sp.ap
      BY <1>2, Zenon
    <3>2. sp.string # new
      BY <1>4, <3>1
    <3>3. aliases[sp.ap].inuse
      BY <1>2, <3>1
    <3>4. sp.string \notin old
      BY <1>5, <3>1, <3>3
    <3>5. heap'[sp.string] = heap[sp.string]
      BY <1>9, <3>1, <3>2, <3>4
    <3>6. \A k \in Names : aliases'[k].cell = sp.string => k = sp.ap
      BY <1>10, <3>1, <3>2
    <3>7. new # 0
      BY <1>4, InputAssumption
    <3>8. aliases'[sp.ap].cell # 0
      BY <1>10, <3>1, <3>7
    <3> QED BY <1>7, <3>1, <3>5, <3>6, <3>8
  <2>2. new # 0
    BY <1>4, InputAssumption
  <2>3. aliasdone' \subseteq Names /\ \A k \in aliasdone' : aliases'[k].cell # 0
    BY <1>2, <1>7, <1>10, <2>2
  <2>4. \A k \in Names : /\ aliases'[k].inuse <=> k \in aliasdone' \cup {sp.ap : sp \in P}
                         /\ aliases'[k].dead => aliases'[k].inuse
    BY <1>2, <1>7, <1>10
  <2> QED BY <1>2, <2>1, <2>3, <2>4 DEF Used
<1> QED BY <1>13, <1>14 DEF MemoryOK

\* A string is pushed of an alias that is not in use.
LEMMA PushKeeps ==
  ASSUME NEW P, MemoryOK(P, heap, aliases, aliasdone), NEW n \in Defined, ~aliases[n].inuse,
         NEW sp, sp.ap = n, sp.string = aliases[n].cell,
         aliases' = [aliases EXCEPT ![n].inuse = TRUE], heap' = heap, aliasdone' = aliasdone
  PROVE  MemoryOK(P \cup {sp}, heap', aliases', aliasdone') /\ \A sq \in P : sq.ap # sp.ap
<1>1. /\ DOMAIN heap = Cells /\ \A c \in Cells : 1 \in DOMAIN heap[c]
      /\ aliases \in [Names -> Alias]
      /\ \A k \in Names : aliases[k].cell # 0 => heap[aliases[k].cell][1] # "free"
      /\ \A k, m \in Names : aliases[k].cell # 0 /\ aliases[k].cell = aliases[m].cell => k = m
  BY DEF MemoryOK, Texts
<1>2. /\ \A sq \in P : /\ sq.ap \in Names /\ sq.string \in Cells
                       /\ heap[sq.string][1] # "free" /\ aliases[sq.ap].cell # 0
                       /\ sq.ap \notin aliasdone
                       /\ \A k \in Names : aliases[k].cell = sq.string => k = sq.ap
      /\ \A sq, sr \in P : sq.ap = sr.ap \/ sq.string = sr.string => sq = sr
      /\ aliasdone \subseteq Names /\ \A k \in aliasdone : aliases[k].cell # 0
      /\ \A k \in Names : /\ aliases[k].inuse <=> k \in aliasdone \cup {sq.ap : sq \in P}
                          /\ aliases[k].dead => aliases[k].inuse
  BY DEF MemoryOK, Used
<1>3. \A k \in Names : aliases[k].cell \in Cells \cup {0}
  BY <1>1 DEF Alias
<1>4. n \in Names /\ aliases[n].cell # 0 /\ sp.string \in Cells
  BY <1>3 DEF Defined
<1>5. n \notin aliasdone /\ \A sq \in P : sq.ap # n
  BY <1>2, <1>4
<1>6. /\ \A k \in Names : k # n => aliases'[k] = aliases[k]
      /\ aliases'[n] \in Alias /\ aliases'[n].cell = aliases[n].cell /\ aliases'[n].inuse
      /\ DOMAIN aliases' = Names /\ aliases' = [k \in Names |-> aliases'[k]]
  <2>1. aliases[n] \in Alias /\ aliases'[n] = [aliases[n] EXCEPT !.inuse = TRUE]
    BY <1>1, <1>4
  <2>2. aliases'[n] \in Alias /\ aliases'[n].cell = aliases[n].cell /\ aliases'[n].inuse
    <3>1. PICK a, b : a = aliases[n] /\ b = aliases'[n]
      OBVIOUS
    <3>2. a \in Alias /\ b = [a EXCEPT !.inuse = TRUE]
      BY <2>1, <3>1
    <3>3. b \in Alias /\ b.cell = a.cell /\ b.inuse
      BY ONLY <3>2 DEF Alias
    <3> QED BY ONLY <3>1, <3>3
  <2> QED BY <1>1, <1>4, <2>2
<1>7. \A k \in Names : aliases'[k].cell = aliases[k].cell
  BY <1>6
<1>8. Texts(heap', aliases')
  <2>1. aliases' \in [Names -> Alias]
    BY <1>1, <1>6
  <2> QED BY <1>1, <1>7, <2>1 DEF Texts
<1>9. Used(P \cup {sp}, heap', aliases', aliasdone')
  <2>1. ASSUME NEW sq \in P \cup {sp}
        PROVE  /\ sq.ap \in Names /\ sq.string \in Cells
               /\ heap'[sq.string][1] # "free" /\ aliases'[sq.ap].cell # 0
               /\ sq.ap \notin aliasdone'
               /\ \A k \in Names : aliases'[k].cell = sq.string => k = sq.ap
    <3>1. CASE sq = sp
      BY <1>1, <1>4, <1>5, <1>7, <3>1
    <3>2. CASE sq \in P
      BY <1>2, <1>7, <3>2
    <3> QED BY <3>1, <3>2
  <2>2. \A sq \in P : sq.string # sp.string
    BY <1>2, <1>4, <1>5
  <2>3. \A sq, sr \in P \cup {sp} : sq.ap = sr.ap \/ sq.string = sr.string => sq = sr
    BY <1>2, <1>5, <2>2
  <2>4. aliasdone' \subseteq Names /\ \A k \in aliasdone' : aliases'[k].cell # 0
    BY <1>2, <1>7
  <2>5. {sq.ap : sq \in P \cup {sp}} = {sq.ap : sq \in P} \cup {n}
    OBVIOUS
  <2>6. \A k \in Names : /\ aliases'[k].inuse <=> k \in aliasdone' \cup {sq.ap : sq \in P \cup {sp}}
                         /\ aliases'[k].dead => aliases'[k].inuse
    BY <1>2, <1>6, <2>5
  <2> QED BY <2>1, <2>3, <2>4, <2>6 DEF Used
<1> QED BY <1>5, <1>8, <1>9 DEF MemoryOK

(***************************************************************************)
(* The invariant, action by action.                                        *)
(***************************************************************************)

LEMMA InputInvInit ==
  Init => InputInv
<1> SUFFICES ASSUME Init
             PROVE  InputInv
  OBVIOUS
<1>1. PICK f : files = <<f>> /\ "push" \in DOMAIN f /\ f.push = <<>>
  <2>1. PICK s \in Scripts : files = <<[Script(s) EXCEPT !.nonul = TRUE]>>
    BY DEF Init
  <2>2. PICK f : f = [Script(s) EXCEPT !.nonul = TRUE]
    OBVIOUS
  <2>3. "push" \in DOMAIN Script(s) /\ Script(s).push = <<>>
    BY DEF Script, String
  <2>4. "push" \in DOMAIN f /\ f.push = <<>>
    BY <2>2, <2>3
  <2> QED BY <2>1, <2>2, <2>4
<1>2. IsSeq(<<>>) /\ DOMAIN <<>> = {}
  <2>1. <<>> \in Seq({}) /\ Len(<<>>) = 0
    BY EmptySeq
  <2>2. IsSeq(<<>>) /\ DOMAIN <<>> = 1 .. Len(<<>>)
    BY <2>1, SeqIs
  <2>3. 1 .. Len(<<>>) = {}
    BY <2>1
  <2> QED BY <2>2, <2>3
<1>3. IsSeq(files) /\ Len(files) = 1 /\ DOMAIN files = {1} /\ files[1] = f
  <2>1. PICK s : s = <<f>>
    OBVIOUS
  <2>2. s \in Seq({f}) /\ Len(s) = 1 /\ s[1] = f
    BY <2>1
  <2>3. IsSeq(s) /\ DOMAIN s = 1 .. Len(s)
    BY <2>2, SeqIs
  <2>4. DOMAIN s = {1}
    BY <2>2, <2>3
  <2> QED BY <1>1, <2>1, <2>2, <2>3, <2>4
<1>4. Stacked(files)
  BY <1>1, <1>2, <1>3 DEF Stacked
<1>5. \A i \in DOMAIN files : DOMAIN files[i].push = {}
  BY <1>1, <1>2, <1>3
<1>6. Once(files) /\ Pushed(files) = {}
  BY <1>5, PushedIs DEF Once
<1>7. /\ heap = [c \in Cells |-> <<"free">>] /\ aliases = [n \in Names |-> None]
      /\ aliasdone = {} /\ phase # "return"
  BY DEF Init
<1>8. MemoryOK({}, heap, aliases, aliasdone)
  <2>1. None \in Alias /\ None.cell = 0 /\ ~None.inuse /\ ~None.dead
    BY DEF None, Alias
  <2>2. Texts(heap, aliases)
    BY <1>7, <2>1 DEF Texts
  <2>3. Used({}, heap, aliases, aliasdone)
    BY <1>7, <2>1 DEF Used
  <2> QED BY <2>2, <2>3 DEF MemoryOK
<1> QED BY <1>4, <1>6, <1>7, <1>8 DEF InputInv

\* What pgetc makes of the innermost file leaves its strings alone.
LEMMA PgetcKeeps ==
  ASSUME InputInv, NEW c, Pgetc(c)
  PROVE  Stacked(files') /\ Once(files') /\ Pushed(files') = Pushed(files) /\ Len(files') = Len(files)
<1>1. "push" \in DOMAIN File
  BY StackedIs DEF InputInv, File
<1>2. "push" \in DOMAIN Got.f /\ Got.f.push = File.push
  <2>1. CASE File.p.unget > 0
    BY <1>1, <2>1 DEF Got
  <2>2. CASE ~(File.p.unget > 0) /\ File.p.unget = 0 /\ File.p.left > 0
    BY <1>1, <2>2 DEF Got
  <2>3. CASE ~(File.p.unget > 0) /\ ~(File.p.unget = 0 /\ File.p.left > 0)
    BY <1>1, <2>3 DEF Got
  <2> QED BY <2>1, <2>2, <2>3
<1>3. PICK g : g = Got.f
  OBVIOUS
<1>4. files' = With(files, g)
  BY <1>3 DEF Pgetc, SetFile, With
<1>5. "push" \in DOMAIN g /\ g.push = Last(files).push
  BY <1>2, <1>3 DEF File
<1>6. Stacked(files) /\ Once(files)
  BY DEF InputInv
<1> QED BY ONLY <1>4, <1>5, <1>6, SamePushed

LEMMA InputInvStep ==
  InputInv /\ [Next]_vars => InputInv'
<1> SUFFICES ASSUME InputInv, [Next]_vars
             PROVE  InputInv'
  OBVIOUS
<1> DEFINE P == Pushed(files)
<1>1. /\ Stacked(files) /\ Once(files) /\ MemoryOK(P, heap, aliases, aliasdone)
      /\ phase = "return" => Len(files) > 1
  BY DEF InputInv
<1>2. Len(files) \in Nat \ {0} /\ "push" \in DOMAIN File
  BY <1>1, StackedIs DEF File
<1> HIDE DEF P
\* Where the files keep their strings, what matters is the memory.
<1>3. ASSUME Stacked(files'), Once(files'), Pushed(files') = P, phase' # "return",
             MemoryOK(P, heap', aliases', aliasdone')
      PROVE  InputInv'
  BY <1>3 DEF InputInv
<1>4. ASSUME UNCHANGED files, phase' # "return", MemoryOK(P, heap', aliases', aliasdone')
      PROVE  InputInv'
  BY <1>1, <1>4 DEF InputInv, P
<1>5. ASSUME NEW c, Pgetc(c), phase' # "return", MemoryOK(P, heap', aliases', aliasdone')
      PROVE  InputInv'
  BY <1>3, <1>5, PgetcKeeps DEF P
<1>6. ASSUME UNCHANGED memory
      PROVE  MemoryOK(P, heap', aliases', aliasdone')
  BY <1>1, <1>6 DEF memory
<1>7. CASE popstring
  <2>1. File.push # <<>> /\ Done({Last(File.push)}) /\ UNCHANGED phase /\ phase # "return"
    BY <1>7 DEF popstring, Wanting
  <2>2. PICK g : g = [File EXCEPT !.push = Front(@), !.p = Last(File.push).p]
    OBVIOUS
  <2>3. files' = With(files, g)
    BY <1>7, <2>2 DEF popstring, SetFile, With
  <2>4. "push" \in DOMAIN g /\ g.push = Front(Last(files).push)
    BY <1>2, <2>2 DEF File
  <2>5. Last(files).push # <<>>
    BY <2>1 DEF File
  <2>6. /\ Stacked(files') /\ Once(files') /\ Last(Last(files).push) \in P
        /\ Pushed(files') = P \ {Last(Last(files).push)}
    BY <1>1, <2>3, <2>4, <2>5, PushPopped DEF P
  <2>7. PICK Q : Q = {Last(Last(files).push)} /\ Q \in SUBSET P
    BY <2>6
  <2>8. Done(Q)
    BY <2>1, <2>7 DEF File
  <2>9. MemoryOK(P \ Q, heap', aliases', aliasdone')
    BY <1>1, <2>7, <2>8, DoneKeeps
  <2> QED BY <2>1, <2>6, <2>7, <2>9 DEF InputInv
<1>8. CASE preadbuffer
  <2>1. /\ UNCHANGED memory /\ phase # "return" /\ phase' # "return"
        /\ UNCHANGED files \/ \E n : files' = SetFile(Refilled(File, n))
    BY <1>8 DEF preadbuffer, Wanting
  <2>2. CASE UNCHANGED files
    BY <1>4, <1>6, <2>1, <2>2
  <2>3. ASSUME NEW n, files' = SetFile(Refilled(File, n))
        PROVE  InputInv'
    <3>1. PICK g : g = Refilled(File, n)
      OBVIOUS
    <3>2. "push" \in DOMAIN g /\ g.push = Last(files).push
      <4>1. \A s, k : "push" \in DOMAIN Ready(File, s, k) /\ Ready(File, s, k).push = File.push
        BY <1>2 DEF Ready
      <4> QED BY <3>1, <4>1 DEF Refilled, File
    <3>3. files' = With(files, g)
      BY <2>3, <3>1 DEF SetFile, With
    <3>4. Stacked(files') /\ Once(files') /\ Pushed(files') = P
      BY <1>1, <3>2, <3>3, SamePushed DEF P
    <3> QED BY <1>3, <1>6, <2>1, <3>4
  <2> QED BY <2>1, <2>2, <2>3
<1>9. CASE start
  <2>1. phase = "start" /\ phase' \in {"start", "token", "semi", "word"}
    BY <1>9 DEF start
  <2>2. endaliasuse \/ UNCHANGED memory
    BY <1>9 DEF start
  <2>3. \E c : Pgetc(c)
    BY <1>9 DEF start
  <2>4. MemoryOK(P, heap', aliases', aliasdone')
    BY <1>1, <1>6, <2>2, endaliasuseKeeps
  <2> QED BY <1>5, <2>1, <2>3, <2>4
<1>10. CASE backslash
  <2>1. phase' # "return" /\ UNCHANGED memory /\ \E c : Pgetc(c)
    BY <1>10 DEF backslash, Backslash
  <2> QED BY <1>5, <1>6, <2>1
<1>11. CASE pgetc_eatbnl
  <2>1. phase' # "return" /\ UNCHANGED memory /\ \E c : Pgetc(c)
    BY <1>11 DEF pgetc_eatbnl, Backslash
  <2> QED BY <1>5, <1>6, <2>1
<1>12. CASE semi
  <2>1. phase' # "return" /\ UNCHANGED memory /\ \E c : Pgetc(c)
    BY <1>12 DEF semi
  <2> QED BY <1>5, <1>6, <2>1
<1>13. CASE inword
  <2>1. phase' # "return" /\ UNCHANGED memory /\ \E c : Pgetc(c)
    BY <1>13 DEF inword
  <2> QED BY <1>5, <1>6, <2>1
<1>14. CASE unread
  <2>1. phase \in {"unread", "unread two", "unread quoted", "unread end"}
        /\ phase' \in {"token", "unread", "escape", "word"}
    BY <1>14 DEF unread, Unread
  <2>2. PICK g : g = [File EXCEPT !.p.unget = @ + 1]
    OBVIOUS
  <2>3. files' = With(files, g) /\ UNCHANGED memory
    BY <1>14, <2>2 DEF unread, pungetc, SetFile, With
  <2>4. "push" \in DOMAIN g /\ g.push = Last(files).push
    BY <1>2, <2>2 DEF File
  <2>5. Stacked(files') /\ Once(files') /\ Pushed(files') = P
    BY <1>1, <2>3, <2>4, SamePushed DEF P
  <2> QED BY <1>3, <1>6, <2>1, <2>3, <2>5
<1>15. CASE expand
  <2>1. phase' # "return" /\ word \in Defined /\ ~aliases[word].inuse
    BY <1>15 DEF expand, lookupalias
  <2>2. CASE UNCHANGED <<files, memory>>
    BY <1>4, <1>6, <2>1, <2>2
  <2>3. CASE pushstring(word)
    <3>1. PICK sp : sp = [ap |-> word, string |-> aliases[word].cell, p |-> File.p]
      OBVIOUS
    <3>2. PICK g : g = [File EXCEPT !.push = Append(@, sp),
                                    !.p = [At(aliases[word].cell, Len(heap[aliases[word].cell]) - 1)
                                             EXCEPT !.lastc = File.p.lastc]]
      OBVIOUS
    <3>3. files' = With(files, g)
      BY <2>3, <3>1, <3>2 DEF pushstring, SetFile, With
    <3>4. "push" \in DOMAIN g /\ g.push = Append(Last(files).push, sp)
      BY <1>2, <3>2 DEF File
    <3>5. sp.ap = word /\ sp.string = aliases[word].cell
      BY <3>1
    <3>6. aliases' = [aliases EXCEPT ![word].inuse = TRUE] /\ heap' = heap /\ aliasdone' = aliasdone
      BY <2>3 DEF pushstring
    <3>7. MemoryOK(P \cup {sp}, heap', aliases', aliasdone') /\ \A sq \in P : sq.ap # sp.ap
      BY <1>1, <2>1, <3>5, <3>6, PushKeeps
    <3>8. Stacked(files') /\ Once(files') /\ Pushed(files') = P \cup {sp}
      BY <1>1, <3>3, <3>4, <3>7, PushPushed DEF P
    <3> QED BY <2>1, <3>7, <3>8 DEF InputInv
  <2> QED BY <1>15, <2>2, <2>3 DEF expand
<1>16. CASE token
  <2>1. endaliasuse /\ UNCHANGED files /\ (phase' = "return" => Len(files) > 1)
    BY <1>16 DEF token
  <2>2. MemoryOK(P, heap', aliases', aliasdone')
    BY <1>1, <2>1, endaliasuseKeeps
  <2> QED BY <1>1, <2>1, <2>2 DEF InputInv, P
<1>17. CASE skipline
  <2>1. phase' # "return" /\ UNCHANGED memory /\ \E c : Pgetc(c)
    BY <1>17 DEF skipline
  <2> QED BY <1>5, <1>6, <2>1
<1>18. ASSUME NEW keep \in 1 .. Len(files), popfiles(keep), phase' # "return"
       PROVE  InputInv'
  <2>1. PICK up : up = Gone(files, keep)
    OBVIOUS
  <2>2. files' = Kept(files, keep) /\ Done(Pushed(up))
    BY <1>18, <2>1 DEF popfiles, Kept, Gone
  <2>3. /\ Stacked(files') /\ Once(files') /\ Pushed(up) \in SUBSET P /\ Pushed(files') = P \ Pushed(up)
    BY <1>1, <1>18, <2>1, <2>2, FilesCut DEF P
  <2>4. MemoryOK(P \ Pushed(up), heap', aliases', aliasdone')
    BY <1>1, <2>2, <2>3, DoneKeeps
  <2> QED BY <1>18, <2>3, <2>4 DEF InputInv
<1>19. CASE evalstring
  <2>1. popfiles(Len(files) - 1) /\ phase' # "return" /\ Len(files) > 1
    BY <1>1, <1>19 DEF evalstring, Goon
  <2>2. Len(files) - 1 \in 1 .. Len(files)
    BY <1>2, <2>1
  <2> QED BY <1>18, <2>1, <2>2
<1>20. CASE error
  <2>1. popfiles(1) /\ phase' # "return"
    BY <1>20 DEF error
  <2>2. 1 \in 1 .. Len(files)
    BY <1>2
  <2> QED BY <1>18, <2>1, <2>2
<1>21. CASE exec
  <2>1. phase' # "return"
    BY <1>21 DEF exec, Goon
  <2>2. CASE UNCHANGED <<files, memory>>
    BY <1>4, <1>6, <2>1, <2>2
  <2>3. ASSUME NEW n \in Names, NEW v \in Values, setalias(n, v), UNCHANGED files
        PROVE  InputInv'
    BY <1>1, <1>4, <2>1, <2>3, setaliasKeeps
  <2>4. ASSUME NEW ns \in SUBSET Defined, freealias(ns), UNCHANGED files
        PROVE  InputInv'
    BY <1>1, <1>4, <2>1, <2>4, freealiasKeeps
  <2>5. ASSUME NEW s \in Strings, NEW f \in {String(NoNul(s)), Script(s)}, files' = Append(files, f), UNCHANGED memory
        PROVE  InputInv'
    <3>1. "push" \in DOMAIN f /\ f.push = <<>>
      <4>1. \A t : "push" \in DOMAIN String(t) /\ String(t).push = <<>>
        BY DEF String
      <4>2. "push" \in DOMAIN Script(s) /\ Script(s).push = <<>>
        BY <4>1 DEF Script
      <4> QED BY <2>5, <4>1, <4>2
    <3>2. Stacked(files') /\ Once(files') /\ Pushed(files') = P
      BY <1>1, <2>5, <3>1, FileAdded DEF P
    <3> QED BY <1>3, <1>6, <2>1, <2>5, <3>2
  <2>6. \A n \in Defined : {n} \in SUBSET Defined
    OBVIOUS
  <2> QED BY <1>21, <2>2, <2>3, <2>4, <2>5, <2>6 DEF exec
<1>22. CASE UNCHANGED vars
  <2>1. UNCHANGED <<files, memory, phase>>
    BY <1>22 DEF vars, parser
  <2> QED BY <1>1, <1>6, <2>1 DEF InputInv, P
<1> QED
  BY <1>7, <1>8, <1>9, <1>10, <1>11, <1>12, <1>13, <1>14, <1>15, <1>16, <1>17,
     <1>19, <1>20, <1>21, <1>22 DEF Next

LEMMA InputInvHolds ==
  Spec => []InputInv
BY InputInvInit, InputInvStep, PTL DEF Spec

\* No text is freed while it is read, and no alias while something refers to
\* it, whatever is redefined or removed between two lines.
THEOREM NothingReadIsFreed ==
  Spec => []Alive
<1>1. InputInv => Alive
  <2> SUFFICES ASSUME InputInv
               PROVE  Alive
    OBVIOUS
  <2>1. Texts(heap, aliases) /\ Used(Pushed(files), heap, aliases, aliasdone)
    BY DEF InputInv, MemoryOK
  <2> QED BY <2>1 DEF Alive, Texts, Used, Defined
<1> QED BY <1>1, InputInvHolds, PTL

\* An alias is in use exactly while its text is being read or was just left,
\* so it can be expanded again and, once removed, goes.
THEOREM AliasesComeBack ==
  Spec => []Usable
<1>1. InputInv => Usable
  BY DEF InputInv, MemoryOK, Used, Usable
<1> QED BY <1>1, InputInvHolds, PTL

(***************************************************************************)
(* Induction, on a set of numbers, and functions that are recursive: their *)
(* step is a function, from an argument and the value before.              *)
(***************************************************************************)

LEMMA Induction ==
  ASSUME NEW n \in Nat, NEW E, 0 \in E, \A i \in 0 .. n - 1 : i \in E => i + 1 \in E
  PROVE  \A i \in 0 .. n : i \in E
<1> SUFFICES ASSUME (0 .. n) \ E # {} PROVE FALSE
  OBVIOUS
<1>1. (0 .. n) \ E \in SUBSET Nat
  OBVIOUS
<1>2. PICK d \in (0 .. n) \ E : \A e \in (0 .. n) \ E : d <= e
  BY <1>1, MinIs DEF MinOf
<1>3. d # 0
  BY <1>2
<1>4. d - 1 \in 0 .. n - 1 /\ d - 1 \in 0 .. n
  BY <1>2, <1>3
<1>5. d - 1 \in E
  BY <1>2, <1>4
<1>6. d - 1 + 1 \in E
  BY <1>4, <1>5
<1>7. d - 1 + 1 = d
  BY <1>2
<1> QED BY <1>2, <1>6, <1>7

Steps(F, b, R, n) ==
  {f \in [0 .. n -> R] : f[0] = b /\ \A i \in 1 .. n : f[i] = F[<<i, f[i - 1]>>]}

LEMMA Recursion ==
  ASSUME NEW N \in Nat, NEW R, NEW b \in R, NEW F \in [(1 .. N) \X R -> R]
  PROVE  Steps(F, b, R, N) # {}
<1> DEFINE B == {n \in 0 .. N : Steps(F, b, R, n) # {}}
<1>1. 0 \in B
  <2> DEFINE f == [i \in 0 .. 0 |-> b]
  <2>1. f \in Steps(F, b, R, 0)
    BY DEF Steps
  <2> QED BY <2>1
<1>2. ASSUME NEW n \in 0 .. N - 1, n \in B PROVE n + 1 \in B
  <2>1. PICK f \in Steps(F, b, R, n) : TRUE
    BY <1>2
  <2>2. PICK x : x = F[<<n + 1, f[n]>>]
    OBVIOUS
  <2>3. n \in Nat /\ n + 1 \in 1 .. N /\ n + 1 \in 0 .. N
    BY <1>2
  <2>4. f \in [0 .. n -> R] /\ f[0] = b /\ \A i \in 1 .. n : f[i] = F[<<i, f[i - 1]>>]
    BY <2>1 DEF Steps
  <2>5. f[n] \in R /\ x \in R
    BY <2>2, <2>3, <2>4
  <2> DEFINE g == [i \in 0 .. n + 1 |-> IF i = n + 1 THEN x ELSE f[i]]
  <2>6. g \in [0 .. n + 1 -> R]
    BY <2>3, <2>4, <2>5
  <2>7. g[0] = b /\ g[n + 1] = x /\ \A i \in 0 .. n : g[i] = f[i]
    BY <2>3, <2>4
  <2> HIDE DEF g
  <2>8. ASSUME NEW i \in 1 .. n + 1 PROVE g[i] = F[<<i, g[i - 1]>>]
    <3>1. CASE i = n + 1
      <4>1. i - 1 = n /\ n \in 0 .. n
        BY <2>3, <3>1
      <4> QED BY <2>2, <2>7, <3>1, <4>1
    <3>2. CASE i # n + 1
      <4>1. i \in 1 .. n /\ i \in 0 .. n /\ i - 1 \in 0 .. n
        BY <2>3, <3>2
      <4> QED BY <2>4, <2>7, <4>1
    <3> QED BY <3>1, <3>2
  <2>9. g \in Steps(F, b, R, n + 1)
    BY <2>6, <2>7, <2>8 DEF Steps
  <2> QED BY <2>3, <2>9
<1> HIDE DEF B
<1>3. \A i \in 0 .. N : i \in B
  BY <1>1, <1>2, Induction
<1> QED BY <1>3 DEF B

\* Sequences are put together in either order.
Regroups(s, t, u) == (s \o t) \o u = s \o (t \o u)

LEMMA ConcatRegroups ==
  ASSUME NEW T, NEW s \in Seq(T), NEW t \in Seq(T), NEW u \in Seq(T)
  PROVE  Regroups(s, t, u)
<1>1. PICK a, b : a = (s \o t) \o u /\ b = s \o (t \o u)
  OBVIOUS
<1>2. /\ a \in Seq(T) /\ b \in Seq(T) /\ Len(a) = Len(b)
  BY <1>1, ConcatProperties, LenProperties
<1>3. \A i \in 1 .. Len(a) : a[i] = b[i]
  BY <1>1, ConcatProperties, LenProperties
<1> QED BY <1>1, <1>2, <1>3, SeqEqual DEF Regroups

LEMMA SliceIs ==
  ASSUME NEW T, NEW s \in Seq(T), NEW b \in Nat \ {0}, NEW e \in Int, e <= Len(s)
  PROVE  /\ SubSeq(s, b, e) \in Seq(T) /\ Len(SubSeq(s, b, e)) = IF b <= e THEN e - b + 1 ELSE 0
         /\ \A i \in 1 .. e - b + 1 : SubSeq(s, b, e)[i] = s[b + i - 1]
<1>1. Len(s) \in Nat
  BY LenProperties
<1>2. \A i \in b .. e : i \in 1 .. Len(s)
  BY <1>1
<1>3. \A i \in b .. e : s[i] \in T
  BY <1>2, ElementOfSeq
<1>4. b \in Int
  OBVIOUS
<1> QED BY ONLY <1>3, <1>4, e \in Int, SubSeqProperties

(***************************************************************************)
(* InFront, which puts texts together.                                     *)
(***************************************************************************)

\* The texts put together so far.
Puts(parts, rest, g) ==
  g[0] = rest /\ \A i \in 0 .. Len(parts) - 1 : g[i + 1] = parts[i + 1] \o g[i]

LEMMA InFrontDefined ==
  ASSUME NEW T, NEW parts \in Seq(Seq(T)), NEW rest \in Seq(T)
  PROVE  \E g : Puts(parts, rest, g) /\ InFront(parts, rest) = g[Len(parts)]
<1> DEFINE N == Len(parts)
           R == Seq(T)
           F == [x \in (1 .. N) \X R |-> parts[x[1]] \o x[2]]
           Fix(g) == g = [i \in 0 .. Len(parts) |-> IF i = 0 THEN rest ELSE parts[i] \o g[i - 1]]
<1>1. N \in Nat /\ \A i \in 1 .. N : parts[i] \in R
  BY LenProperties, ElementOfSeq
<1>2. F \in [(1 .. N) \X R -> R]
  <2>1. ASSUME NEW x \in (1 .. N) \X R PROVE parts[x[1]] \o x[2] \in R
    BY <1>1, <2>1, ConcatProperties
  <2> QED BY <2>1
<1>3. \A i \in 1 .. N, r \in R : F[<<i, r>>] = parts[i] \o r
  OBVIOUS
<1> HIDE DEF F
<1>4. PICK f \in Steps(F, rest, R, N) : TRUE
  BY <1>1, <1>2, Recursion
<1>5. f \in [0 .. N -> R] /\ f[0] = rest /\ \A i \in 1 .. N : f[i] = F[<<i, f[i - 1]>>]
  BY <1>4 DEF Steps
<1>6. Fix(f)
  <2>1. ASSUME NEW i \in 0 .. N PROVE f[i] = IF i = 0 THEN rest ELSE parts[i] \o f[i - 1]
    <3>1. CASE i = 0
      BY <1>5, <3>1
    <3>2. CASE i # 0
      <4>1. i \in 1 .. N /\ i - 1 \in 0 .. N
        BY <1>1, <3>2
      <4>2. f[i - 1] \in R /\ f[i] = F[<<i, f[i - 1]>>]
        BY <1>5, <4>1
      <4> QED BY <1>3, <3>2, <4>1, <4>2
    <3> QED BY <3>1, <3>2
  <2> HIDE DEF R
  <2> QED BY <1>5, <2>1
<1>7. InFront(parts, rest) = (CHOOSE g : Fix(g))[Len(parts)]
  BY Zenon DEF InFront
<1>8. PICK g : Fix(g) /\ InFront(parts, rest) = g[Len(parts)]
  BY <1>6, <1>7
<1>9. \A i \in 0 .. N : g[i] = IF i = 0 THEN rest ELSE parts[i] \o g[i - 1]
  BY <1>8, Zenon
<1>10. ASSUME NEW i \in 0 .. N - 1 PROVE g[i + 1] = parts[i + 1] \o g[i]
  <2>1. i + 1 \in 0 .. N /\ i + 1 # 0 /\ i + 1 - 1 = i
    BY <1>1
  <2>2. PICK k : k = i + 1
    OBVIOUS
  <2>3. g[k] = parts[k] \o g[k - 1]
    BY <1>9, <2>1, <2>2
  <2>4. k - 1 = i
    BY <2>1, <2>2
  <2>5. g[k] = parts[i + 1] \o g[i]
    BY ONLY <2>2, <2>3, <2>4
  <2> QED BY ONLY <2>2, <2>5
<1>11. g[0] = rest
  <2>1. 0 \in 0 .. N
    BY <1>1
  <2> QED BY <1>9, <2>1
<1> QED BY <1>8, <1>10, <1>11 DEF Puts

LEMMA InFrontNone ==
  ASSUME NEW T, NEW parts \in Seq(Seq(T)), NEW rest \in Seq(T), Len(parts) = 0
  PROVE  InFront(parts, rest) = rest
<1>1. PICK g : Puts(parts, rest, g) /\ InFront(parts, rest) = g[Len(parts)]
  BY InFrontDefined
<1> QED BY <1>1 DEF Puts

LEMMA InFrontType ==
  ASSUME NEW T, NEW parts \in Seq(Seq(T)), NEW rest \in Seq(T)
  PROVE  InFront(parts, rest) \in Seq(T)
<1> DEFINE N == Len(parts)
<1>1. N \in Nat /\ \A i \in 1 .. N : parts[i] \in Seq(T)
  BY LenProperties, ElementOfSeq
<1>2. PICK g : Puts(parts, rest, g) /\ InFront(parts, rest) = g[N]
  BY InFrontDefined
<1> DEFINE E == {i \in 0 .. N : g[i] \in Seq(T)}
<1>3. 0 \in E
  BY <1>1, <1>2 DEF Puts
<1>4. ASSUME NEW i \in 0 .. N - 1, i \in E PROVE i + 1 \in E
  <2>1. i + 1 \in 1 .. N /\ i + 1 \in 0 .. N
    BY <1>1
  <2>2. g[i + 1] = parts[i + 1] \o g[i] /\ parts[i + 1] \in Seq(T) /\ g[i] \in Seq(T)
    BY <1>1, <1>2, <1>4, <2>1 DEF Puts
  <2>3. g[i + 1] \in Seq(T)
    BY <2>2, ConcatProperties
  <2> QED BY <2>1, <2>3
<1> HIDE DEF E
<1>5. \A i \in 0 .. N : i \in E
  BY <1>1, <1>3, <1>4, Induction
<1> QED BY <1>1, <1>2, <1>5 DEF E

LEMMA InFrontMore ==
  ASSUME NEW T, NEW parts \in Seq(Seq(T)), NEW rest \in Seq(T), NEW x \in Seq(T)
  PROVE  InFront(Append(parts, x), rest) = x \o InFront(parts, rest)
<1> DEFINE N == Len(parts)
<1>1. PICK more : more = Append(parts, x)
  OBVIOUS
<1>2. /\ N \in Nat /\ more \in Seq(Seq(T)) /\ Len(more) = N + 1 /\ more[N + 1] = x
      /\ \A i \in 1 .. N : more[i] = parts[i]
  BY <1>1, LenProperties, AppendProperties
<1>3. PICK g : Puts(parts, rest, g) /\ InFront(parts, rest) = g[N]
  BY InFrontDefined
<1>4. PICK f : Puts(more, rest, f) /\ InFront(more, rest) = f[Len(more)]
  BY <1>2, InFrontDefined
<1> DEFINE E == {i \in 0 .. N : f[i] = g[i]}
<1>5. 0 \in E
  BY <1>2, <1>3, <1>4 DEF Puts
<1>6. ASSUME NEW i \in 0 .. N - 1, i \in E PROVE i + 1 \in E
  <2>1. i + 1 \in 1 .. N /\ i + 1 \in 0 .. N /\ i \in 0 .. Len(more) - 1
    BY <1>2
  <2>2. g[i + 1] = parts[i + 1] \o g[i] /\ f[i + 1] = more[i + 1] \o f[i]
    BY <1>3, <1>4, <2>1 DEF Puts
  <2> QED BY <1>2, <1>6, <2>1, <2>2
<1> HIDE DEF E
<1>7. \A i \in 0 .. N : i \in E
  BY <1>2, <1>5, <1>6, Induction
<1>8. f[N] = g[N]
  BY <1>2, <1>7 DEF E
<1>9. N \in 0 .. Len(more) - 1
  BY <1>2
<1>10. f[N + 1] = x \o f[N]
  BY <1>2, <1>4, <1>9 DEF Puts
<1> QED BY <1>1, <1>2, <1>3, <1>4, <1>8, <1>10

(***************************************************************************)
(* NoNul, which leaves out NULs.                                           *)
(***************************************************************************)

\* The characters kept so far.
Sifts(s, g) ==
  /\ g[0] = <<>>
  /\ \A i \in 0 .. Len(s) - 1 : g[i + 1] = IF s[i + 1] = "0" THEN g[i] ELSE Append(g[i], s[i + 1])

LEMMA NoNulDefined ==
  ASSUME NEW T, NEW s \in Seq(T)
  PROVE  \E g : Sifts(s, g) /\ NoNul(s) = g[Len(s)]
<1> DEFINE N == Len(s)
           R == Seq(T)
           F == [x \in (1 .. N) \X R |-> IF s[x[1]] = "0" THEN x[2] ELSE Append(x[2], s[x[1]])]
           Fix(g) == g = [i \in 0 .. Len(s) |->
                            IF i = 0 THEN <<>> ELSE IF s[i] = "0" THEN g[i - 1] ELSE Append(g[i - 1], s[i])]
<1>1. N \in Nat /\ (\A i \in 1 .. N : s[i] \in T) /\ <<>> \in R
  BY LenProperties, ElementOfSeq, EmptySeq
<1>2. F \in [(1 .. N) \X R -> R]
  <2>1. ASSUME NEW x \in (1 .. N) \X R
        PROVE  (IF s[x[1]] = "0" THEN x[2] ELSE Append(x[2], s[x[1]])) \in R
    <3>1. s[x[1]] \in T /\ x[2] \in Seq(T)
      BY <1>1, <2>1
    <3>2. Append(x[2], s[x[1]]) \in Seq(T)
      BY <3>1, AppendProperties
    <3> QED BY <3>1, <3>2
  <2> QED BY <2>1
<1>3. \A i \in 1 .. N, r \in R : F[<<i, r>>] = IF s[i] = "0" THEN r ELSE Append(r, s[i])
  OBVIOUS
<1> HIDE DEF F
<1>4. PICK f \in Steps(F, <<>>, R, N) : TRUE
  BY <1>1, <1>2, Recursion
<1>5. f \in [0 .. N -> R] /\ f[0] = <<>> /\ \A i \in 1 .. N : f[i] = F[<<i, f[i - 1]>>]
  BY <1>4 DEF Steps
<1>6. Fix(f)
  <2>1. ASSUME NEW i \in 0 .. N
        PROVE  f[i] = IF i = 0 THEN <<>> ELSE IF s[i] = "0" THEN f[i - 1] ELSE Append(f[i - 1], s[i])
    <3>1. CASE i = 0
      BY <1>5, <3>1
    <3>2. CASE i # 0
      <4>1. i \in 1 .. N /\ i - 1 \in 0 .. N
        BY <1>1, <3>2
      <4>2. f[i - 1] \in R /\ f[i] = F[<<i, f[i - 1]>>]
        BY <1>5, <4>1
      <4> QED BY <1>3, <3>2, <4>1, <4>2
    <3> QED BY <3>1, <3>2
  <2> HIDE DEF R
  <2> QED BY <1>5, <2>1
<1>7. NoNul(s) = (CHOOSE g : Fix(g))[Len(s)]
  BY Zenon DEF NoNul
<1>8. PICK g : Fix(g) /\ NoNul(s) = g[Len(s)]
  BY <1>6, <1>7
<1>9. \A i \in 0 .. N : g[i] = IF i = 0 THEN <<>>
                               ELSE IF s[i] = "0" THEN g[i - 1] ELSE Append(g[i - 1], s[i])
  BY <1>8, Zenon
<1>10. ASSUME NEW i \in 0 .. N - 1
       PROVE  g[i + 1] = IF s[i + 1] = "0" THEN g[i] ELSE Append(g[i], s[i + 1])
  <2>1. i + 1 \in 0 .. N /\ i + 1 # 0 /\ i + 1 - 1 = i
    BY <1>1
  <2>2. PICK k : k = i + 1
    OBVIOUS
  <2>3. g[k] = IF s[k] = "0" THEN g[k - 1] ELSE Append(g[k - 1], s[k])
    BY <1>9, <2>1, <2>2
  <2>4. k - 1 = i
    BY <2>1, <2>2
  <2>5. g[k] = IF s[i + 1] = "0" THEN g[i] ELSE Append(g[i], s[i + 1])
    BY ONLY <2>2, <2>3, <2>4
  <2> QED BY ONLY <2>2, <2>5
<1>11. g[0] = <<>>
  <2>1. 0 \in 0 .. N
    BY <1>1
  <2> QED BY <1>9, <2>1
<1> QED BY <1>8, <1>10, <1>11 DEF Sifts

LEMMA NoNulType ==
  ASSUME NEW T, NEW s \in Seq(T)
  PROVE  NoNul(s) \in Seq(T)
<1> DEFINE N == Len(s)
<1>1. N \in Nat /\ \A i \in 1 .. N : s[i] \in T
  BY LenProperties, ElementOfSeq
<1>2. PICK g : Sifts(s, g) /\ NoNul(s) = g[N]
  BY NoNulDefined
<1> DEFINE E == {i \in 0 .. N : g[i] \in Seq(T)}
<1>3. 0 \in E
  <2>1. g[0] = <<>> /\ <<>> \in Seq(T) /\ 0 \in 0 .. N
    BY <1>1, <1>2, EmptySeq DEF Sifts
  <2> QED BY <2>1
<1>4. ASSUME NEW i \in 0 .. N - 1, i \in E PROVE i + 1 \in E
  <2>1. i + 1 \in 1 .. N /\ i + 1 \in 0 .. N
    BY <1>1
  <2>2. /\ g[i + 1] = IF s[i + 1] = "0" THEN g[i] ELSE Append(g[i], s[i + 1])
        /\ s[i + 1] \in T /\ g[i] \in Seq(T)
    BY <1>1, <1>2, <1>4, <2>1 DEF Sifts
  <2>3. g[i + 1] \in Seq(T)
    BY <2>2, AppendProperties
  <2> QED BY <2>1, <2>3
<1> HIDE DEF E
<1>5. \A i \in 0 .. N : i \in E
  BY <1>1, <1>3, <1>4, Induction
<1> QED BY <1>1, <1>2, <1>5 DEF E

\* Nothing is left out where there is no NUL.
LEMMA NoNulSame ==
  ASSUME NEW T, "0" \notin T, NEW s \in Seq(T)
  PROVE  NoNul(s) = s
<1> DEFINE N == Len(s)
<1>1. N \in Nat /\ \A i \in 1 .. N : s[i] \in T
  BY LenProperties, ElementOfSeq
<1>2. PICK g : Sifts(s, g) /\ NoNul(s) = g[N]
  BY NoNulDefined
<1> DEFINE E == {i \in 0 .. N : g[i] = SubSeq(s, 1, i)}
<1>3. 0 \in E
  <2>1. g[0] = <<>> /\ 0 \in 0 .. N
    BY <1>1, <1>2 DEF Sifts
  <2>2. SubSeq(s, 1, 0) = <<>>
    BY SubSeqEmpty
  <2> QED BY <2>1, <2>2
<1>4. ASSUME NEW i \in 0 .. N - 1, i \in E PROVE i + 1 \in E
  <2>1. PICK k : k = i + 1
    OBVIOUS
  <2>2. k \in 1 .. N /\ k \in 0 .. N /\ k - 1 = i /\ 1 \in 1 .. N /\ k \in 1 .. Len(s)
    BY <1>1, <2>1
  <2>3. g[k] = Append(g[i], s[k])
    BY <1>1, <1>2, <2>1, <2>2 DEF Sifts
  <2>4. SubSeq(s, 1, k) = SubSeq(s, 1, k - 1) \o <<s[k]>>
    BY <2>2, SubSeqRecursiveSecond
  <2>5. SubSeq(s, 1, i) \in Seq(T)
    <3>1. \A j \in 1 .. i : s[j] \in T
      BY <1>1
    <3> QED BY <3>1, SubSeqProperties
  <2>6. Append(SubSeq(s, 1, i), s[k]) = SubSeq(s, 1, i) \o <<s[k]>>
    BY <1>1, <2>2, <2>5, AppendIsConcat
  <2>7. g[k] = SubSeq(s, 1, k)
    BY <1>4, <2>2, <2>3, <2>4, <2>6
  <2> QED BY <2>1, <2>2, <2>7
<1> HIDE DEF E
<1>5. \A i \in 0 .. N : i \in E
  BY <1>1, <1>3, <1>4, Induction
<1>6. g[N] = SubSeq(s, 1, N)
  BY <1>1, <1>5 DEF E
<1> QED BY <1>2, <1>6, SubSeqFull

LEMMA NoNulConcat ==
  ASSUME NEW T, NEW s \in Seq(T), NEW t \in Seq(T)
  PROVE  NoNul(s \o t) = NoNul(s) \o NoNul(t)
<1>1. PICK m, n, u, a : m = Len(s) /\ n = Len(t) /\ u = s \o t /\ a = NoNul(s)
  OBVIOUS
<1>2. /\ m \in Nat /\ n \in Nat /\ u \in Seq(T) /\ Len(u) = m + n /\ a \in Seq(T)
      /\ \A i \in 1 .. m : u[i] = s[i]
      /\ \A i \in 1 .. n : u[m + i] = t[i] /\ t[i] \in T
  <2>1. /\ m \in Nat /\ n \in Nat /\ u \in Seq(T) /\ Len(u) = m + n /\ a \in Seq(T)
        /\ \A i \in 1 .. m + n : u[i] = IF i <= m THEN s[i] ELSE t[i - m]
    BY <1>1, LenProperties, ConcatProperties, NoNulType
  <2>2. ASSUME NEW i \in 1 .. m PROVE u[i] = s[i]
    <3>1. i \in 1 .. m + n /\ i <= m
      BY <2>1
    <3> QED BY <2>1, <3>1
  <2>3. ASSUME NEW i \in 1 .. n PROVE u[m + i] = t[i] /\ t[i] \in T
    <3>1. PICK k : k = m + i
      OBVIOUS
    <3>2. k \in 1 .. m + n /\ ~(k <= m) /\ k - m = i
      BY <2>1, <3>1
    <3>3. u[k] = t[k - m]
      BY <2>1, <3>2
    <3>4. t[i] \in T
      BY <1>1, ElementOfSeq
    <3> QED BY <3>1, <3>2, <3>3, <3>4
  <2> QED BY <2>1, <2>2, <2>3
<1>3. PICK f : Sifts(s, f) /\ a = f[m]
  BY <1>1, NoNulDefined
<1>4. PICK g : Sifts(t, g) /\ NoNul(t) = g[n]
  BY <1>1, NoNulDefined
<1>5. PICK h : Sifts(u, h) /\ NoNul(u) = h[m + n]
  BY <1>2, NoNulDefined
<1> DEFINE D == {i \in 0 .. m : h[i] = f[i]}
           E == {i \in 0 .. n : h[m + i] = a \o g[i] /\ g[i] \in Seq(T)}
<1>6. 0 \in D
  BY <1>2, <1>3, <1>5 DEF Sifts
<1>7. ASSUME NEW i \in 0 .. m - 1, i \in D PROVE i + 1 \in D
  <2>1. i + 1 \in 1 .. m /\ i + 1 \in 0 .. m /\ i \in 0 .. Len(s) - 1 /\ i \in 0 .. Len(u) - 1
    BY <1>1, <1>2
  <2>2. f[i + 1] = IF s[i + 1] = "0" THEN f[i] ELSE Append(f[i], s[i + 1])
    BY <1>3, <2>1 DEF Sifts
  <2>3. h[i + 1] = IF u[i + 1] = "0" THEN h[i] ELSE Append(h[i], u[i + 1])
    BY <1>5, <2>1 DEF Sifts
  <2>4. u[i + 1] = s[i + 1] /\ h[i] = f[i]
    BY <1>2, <1>7, <2>1
  <2> QED BY <2>1, <2>2, <2>3, <2>4
<1> HIDE DEF D
<1>8. h[m] = a
  <2>1. \A i \in 0 .. m : i \in D
    BY <1>2, <1>6, <1>7, Induction
  <2>2. m \in D
    BY <1>2, <2>1
  <2> QED BY <1>3, <2>2 DEF D
<1>9. 0 \in E
  <2>1. g[0] = <<>> /\ <<>> \in Seq(T) /\ a \o <<>> = a
    BY <1>2, <1>4, EmptySeq, ConcatEmptySeq DEF Sifts
  <2>2. m + 0 = m /\ 0 \in 0 .. n
    BY <1>2
  <2>3. h[m + 0] = a \o g[0] /\ g[0] \in Seq(T)
    BY <1>8, <2>1, <2>2
  <2> QED BY <2>2, <2>3
<1>10. ASSUME NEW i \in 0 .. n - 1, i \in E PROVE i + 1 \in E
  <2>1. PICK k, j, c : k = m + i /\ j = i + 1 /\ c = t[i + 1]
    OBVIOUS
  <2>2. j \in 1 .. n /\ j \in 0 .. n /\ i \in 0 .. Len(t) - 1 /\ k \in 0 .. Len(u) - 1 /\ k + 1 = m + j
    BY <1>1, <1>2, <2>1
  <2>3. g[j] = IF c = "0" THEN g[i] ELSE Append(g[i], c)
    BY <1>4, <2>1, <2>2 DEF Sifts
  <2>4. h[k + 1] = IF u[k + 1] = "0" THEN h[k] ELSE Append(h[k], u[k + 1])
    BY <1>5, <2>2 DEF Sifts
  <2>5. u[m + j] = c /\ c \in T
    BY <1>2, <2>1, <2>2
  <2>6. h[k] = a \o g[i] /\ g[i] \in Seq(T)
    BY <1>10, <2>1
  <2>7. h[m + j] = IF c = "0" THEN a \o g[i] ELSE Append(a \o g[i], c)
    BY <2>2, <2>4, <2>5, <2>6
  <2>8. Append(a \o g[i], c) = a \o Append(g[i], c) /\ Append(g[i], c) \in Seq(T)
    <3>1. PICK b, w : b = g[i] /\ w = <<c>>
      OBVIOUS
    <3>2. b \in Seq(T) /\ a \o b \in Seq(T) /\ w \in Seq(T)
      BY <1>2, <2>5, <2>6, <3>1, ConcatProperties
    <3>3. Append(a \o b, c) = (a \o b) \o w /\ Append(b, c) = b \o w
      BY <2>5, <3>1, <3>2, AppendIsConcat
    <3>0. a \in Seq(T)
      BY <1>2
    <3>4. (a \o b) \o w = a \o (b \o w)
      <4>1. Regroups(a, b, w)
        BY ONLY <3>0, <3>2, ConcatRegroups
      <4> QED BY ONLY <4>1 DEF Regroups
    <3>5. Append(b, c) \in Seq(T)
      BY <2>5, <3>2, AppendProperties
    <3> QED BY <3>1, <3>3, <3>4, <3>5
  <2>9. h[m + j] = a \o g[j] /\ g[j] \in Seq(T)
    BY <2>3, <2>6, <2>7, <2>8
  <2> QED BY <2>1, <2>2, <2>9
<1> HIDE DEF E
<1>11. h[m + n] = a \o g[n]
  <2>1. \A i \in 0 .. n : i \in E
    BY <1>2, <1>9, <1>10, Induction
  <2>2. n \in E
    BY <1>2, <2>1
  <2> QED BY <2>2 DEF E
<1> QED BY <1>1, <1>4, <1>5, <1>11

(***************************************************************************)
(* What is said of places in texts.  A string that is pushed is read from  *)
(* its second character, what was returned last is in front of the place,  *)
(* and after the end of a file nothing comes.                              *)
(***************************************************************************)

Byte == Names \cup {"z", " ", ";", "\\", "\n", "0"}
Returned == Byte \cup {"EOF"}
Point == [cell : Cells \cup {0}, next : Nat \ {0}, left : Nat, lastc : Returned \X Returned, unget : 0 .. 2]
PushedString == [ap : Names, string : Cells, p : Point]
ParseFile ==
  [fd : BOOLEAN, kernel : Seq(Byte), buf : Seq(Byte), lleft : Nat, nonul : BOOLEAN,
   p : Point, push : Seq(PushedString)]

AliasText(s) == \E v \in Values : s = <<"=">> \o v
InText(s, p) ==
  /\ p.next > 1 /\ p.next + p.left = Len(s) + 1
  /\ p.next > 2 => p.lastc[1] = s[p.next - 1]
  /\ p.unget > 0 => p.next > 2
InFile(f, p) ==
  /\ p.cell = 0 /\ p.next + p.left + f.lleft = Len(f.buf) + 1
  /\ p.lastc[1] = "EOF" => p.left = 0 /\ f.lleft = 0 /\ f.kernel = <<>>
Placed(h, f) ==
  /\ InFile(f, Levels(f)[1])
  /\ \A i \in 1 .. Len(f.push) :
       /\ Levels(f)[i + 1].cell = f.push[i].string /\ AliasText(h[f.push[i].string])
       /\ InText(h[f.push[i].string], Levels(f)[i + 1])
       /\ f.push[i].p.unget < 2
  /\ ~f.fd => f.lleft = 0 /\ f.kernel = <<>>
AllPlaced(h, fs) ==
  /\ fs \in Seq(ParseFile) /\ \A i \in 1 .. Len(fs) : Placed(h, fs[i])
  /\ \A i \in 1 .. Len(fs) - 1 : fs[i].p.unget < 2

Saved(h) == \A c \in Cells : h[c][1] # "free" => AliasText(h[c])

\* What the parser is about to put back, or has put back, was returned.  Only
\* of ";" and a backslash it puts two characters back.
AtLast(p, rd) ==
  /\ rd # <<>> /\ Last(rd) = p.lastc[p.unget + 1] /\ (p.cell = 0 \/ p.next > 2)
Ahead(p, ph, w, pop, rd) ==
  /\ rd \in Seq(Returned)
  /\ p.unget = 2 => p.lastc[2] = "\\" /\ ~pop /\ (ph \in {"start", "skip"} \/ (ph = "token" /\ w = ";"))
  /\ ph \in {"semi", "semi\\", "unread two"} => w = ";"
  /\ ph = "semi\\" => AtLast(p, rd) /\ p.unget = 0 /\ p.lastc[1] = "\\" /\ ~pop
  /\ ph \in {"unread", "unread two", "unread quoted", "unread end"} => AtLast(p, rd) /\ ~pop
  /\ ph \in {"unread two", "unread quoted", "unread end"} => p.unget = 0
  /\ ph = "unread two" => Front(rd) # <<>> /\ Last(Front(rd)) = "\\" /\ p.lastc[2] = "\\"
  /\ ph = "unread" /\ p.unget = 1 => w = ";" /\ p.lastc[2] = "\\"

\* No text of an alias ends in a backslash.
Whole == \A v \in Values : v # <<>> => Last(v) # "\\"

PlacesInv == AllPlaced(heap, files) /\ Saved(heap) /\ Ahead(File.p, phase, word, popped, read)

\* What remains of a file with alias texts h, and of it what is below the text
\* that is read.
TextIn(h, f, p) == IF p.cell = 0 THEN f.buf ELSE h[p.cell]
All(h, f) ==
  InFront([i \in DOMAIN Levels(f) |-> Left(TextIn(h, f, Levels(f)[i]), Levels(f)[i])], NoNul(Unseen(f)))
Parts(h, f) == [i \in DOMAIN f.push |-> Left(TextIn(h, f, f.push[i].p), f.push[i].p)]
Below(h, f) == InFront(Parts(h, f), NoNul(Unseen(f)))
Top(h, f) == Left(TextIn(h, f, f.p), f.p)

Chr == Returned \cup {"="}
Fits(s, p) == s \in Seq(Chr) /\ p \in Point /\ p.next + p.left <= Len(s) + 1

LEMMA FileIs ==
  ASSUME NEW f \in ParseFile
  PROVE  /\ f.fd \in BOOLEAN /\ f.kernel \in Seq(Byte) /\ f.buf \in Seq(Byte) /\ f.lleft \in Nat
         /\ f.p \in Point /\ f.push \in Seq(PushedString)
BY DEF ParseFile

LEMMA PointIs ==
  ASSUME NEW p \in Point
  PROVE  /\ p.next \in Nat \ {0} /\ p.left \in Nat /\ p.unget \in 0 .. 2 /\ p.cell \in Cells \cup {0}
         /\ p.lastc[1] \in Returned /\ p.lastc[2] \in Returned /\ p.lastc \in Returned \X Returned
BY DEF Point

LEMMA Chars ==
  /\ "0" \notin Byte \ {"0"} /\ Byte \subseteq Chr /\ Returned \subseteq Chr /\ "EOF" \notin Byte
  /\ "=" \in Chr /\ Byte \subseteq Returned /\ "EOF" \in Returned
  /\ Values \subseteq Seq(Byte \ {"0"}) /\ Scripts \cup Strings \subseteq Seq(Byte)
<1>1. Names \cap {"z", " ", ";", "\\", "\n", "0", "EOF", "", "long", ";;"} = {}
  BY InputAssumption
<1>2. "EOF" \notin Byte
  BY <1>1 DEF Byte
<1>3. Byte \ {"0"} = Names \cup {"z", " ", ";", "\\", "\n"}
  BY <1>1 DEF Byte
<1>4. Values \subseteq Seq(Byte \ {"0"}) /\ Scripts \cup Strings \subseteq Seq(Byte)
  <2>1. /\ Values \subseteq Seq(Names \cup {"z", " ", ";", "\\", "\n"})
        /\ Scripts \cup Strings \subseteq Seq(Names \cup {"z", " ", ";", "\\", "\n", "0"})
    BY InputAssumption
  <2> QED BY <1>3, <2>1 DEF Byte
<1> QED BY <1>2, <1>4 DEF Chr, Returned

LEMMA AliasTextIs ==
  ASSUME NEW s, AliasText(s)
  PROVE  /\ s \in Seq(Chr) /\ Len(s) \in Nat \ {0} /\ s[1] = "="
         /\ \A i \in 2 .. Len(s) : s[i] \in Byte \ {"0"}
         /\ SubSeq(s, 2, Len(s)) \in Values
         /\ Whole /\ Len(s) > 1 => s[Len(s)] # "\\"
<1>1. PICK v \in Values : s = <<"=">> \o v
  BY DEF AliasText
<1>2. PICK e : e = <<"=">>
  OBVIOUS
<1>3. v \in Seq(Byte \ {"0"}) /\ v \in Seq(Chr) /\ e \in Seq(Chr) /\ Len(e) = 1 /\ e[1] = "="
  <2>1. v \in Seq(Byte \ {"0"}) /\ Byte \ {"0"} \subseteq Chr /\ "=" \in Chr
    BY Chars
  <2>2. v \in Seq(Chr)
    BY <2>1, SeqMonotonic
  <2> QED BY <1>2, <2>1, <2>2
<1>4. PICK n \in Nat : n = Len(v)
  BY <1>3, LenProperties
<1>5. /\ s \in Seq(Chr) /\ Len(s) = 1 + n
      /\ \A i \in 1 .. 1 + n : s[i] = IF i <= 1 THEN e[i] ELSE v[i - 1]
  <2>1. s = e \o v
    BY <1>1, <1>2
  <2>2. /\ e \o v \in Seq(Chr) /\ Len(e \o v) = Len(e) + Len(v)
        /\ \A i \in 1 .. Len(e) + Len(v) : (e \o v)[i] = IF i <= Len(e) THEN e[i] ELSE v[i - Len(e)]
    BY <1>3, ConcatProperties
  <2> QED BY <1>3, <1>4, <2>1, <2>2
<1>6. s[1] = "="
  BY <1>3, <1>5
<1>7. ASSUME NEW i \in 2 .. 1 + n PROVE s[i] = v[i - 1] /\ i - 1 \in 1 .. Len(v) /\ v[i - 1] \in Byte \ {"0"}
  <2>1. i \in 1 .. 1 + n /\ ~(i <= 1) /\ i - 1 \in 1 .. Len(v)
    BY <1>4
  <2>2. v[i - 1] \in Byte \ {"0"}
    BY <1>3, <2>1, ElementOfSeq
  <2> QED BY <1>5, <2>1, <2>2
<1>8. SubSeq(s, 2, Len(s)) = v
  <2>1. PICK u : u = SubSeq(s, 2, 1 + n)
    OBVIOUS
  <2>2. \A i \in 2 .. 1 + n : s[i] \in Byte \ {"0"}
    BY <1>7
  <2>3. /\ u \in Seq(Byte \ {"0"}) /\ Len(u) = (IF 2 <= 1 + n THEN 1 + n - 2 + 1 ELSE 0)
        /\ \A i \in 1 .. 1 + n - 2 + 1 : u[i] = s[2 + i - 1]
    BY <2>1, <2>2, SubSeqProperties
  <2>4. Len(u) = n
    BY <2>3
  <2>5. ASSUME NEW i \in 1 .. n PROVE u[i] = v[i]
    <3>1. PICK k : k = i + 1
      OBVIOUS
    <3>2. k \in 2 .. 1 + n /\ k - 1 = i /\ 2 + i - 1 = k /\ i \in 1 .. 1 + n - 2 + 1
      BY <3>1
    <3>3. u[i] = s[2 + i - 1]
      BY <2>3, <3>2
    <3>4. s[k] = v[k - 1]
      BY <1>7, <3>2
    <3> QED BY <3>2, <3>3, <3>4
  <2>6. u = v
    BY <1>3, <1>4, <2>3, <2>4, <2>5, SeqEqual
  <2> QED BY <1>5, <2>1, <2>6
<1>9. Whole /\ Len(s) > 1 => s[Len(s)] # "\\"
  <2> SUFFICES ASSUME Whole, Len(s) > 1 PROVE s[Len(s)] # "\\"
    OBVIOUS
  <2>1. n > 0 /\ Len(s) \in 2 .. 1 + n /\ Len(s) - 1 = n
    BY <1>5
  <2>2. s[Len(s)] = v[n]
    BY <1>7, <2>1
  <2>3. v # <<>> /\ Last(v) = v[n]
    BY <1>4, <2>1, EmptySeq DEF Last
  <2> QED BY <2>2, <2>3 DEF Whole
<1>10. \A i \in 2 .. Len(s) : s[i] \in Byte \ {"0"}
  BY <1>5, <1>7
<1>11. Len(s) \in Nat \ {0}
  BY <1>5
<1>12. SubSeq(s, 2, Len(s)) \in Values
  BY <1>8
<1> QED BY <1>5, <1>6, <1>9, <1>10, <1>11, <1>12

LEMMA LevelsAre ==
  ASSUME NEW f \in ParseFile
  PROVE  /\ Len(f.push) \in Nat /\ DOMAIN f.push = 1 .. Len(f.push)
         /\ Levels(f) \in Seq(Point) /\ Len(Levels(f)) = Len(f.push) + 1
         /\ DOMAIN Levels(f) = 1 .. Len(f.push) + 1 /\ Levels(f)[Len(f.push) + 1] = f.p
         /\ \A i \in 1 .. Len(f.push) : /\ f.push[i] \in PushedString /\ f.push[i].p \in Point
                                        /\ f.push[i].string \in Cells /\ Levels(f)[i] = f.push[i].p
<1>1. PICK s : s = f.push
  OBVIOUS
<1>2. s \in Seq(PushedString) /\ f.p \in Point
  BY <1>1, FileIs
<1>3. Len(s) \in Nat /\ DOMAIN s = 1 .. Len(s) /\ \A i \in 1 .. Len(s) : s[i] \in PushedString
  BY <1>2, LenProperties, ElementOfSeq
<1>4. \A i \in 1 .. Len(s) : s[i].p \in Point /\ s[i].string \in Cells
  BY <1>3 DEF PushedString
<1>5. PICK l : l = [i \in DOMAIN s |-> s[i].p]
  OBVIOUS
<1>6. l \in Seq(Point) /\ Len(l) = Len(s) /\ \A i \in 1 .. Len(s) : l[i] = s[i].p
  <2>1. l \in [1 .. Len(s) -> Point]
    BY <1>3, <1>4, <1>5
  <2>2. l \in Seq(Point)
    BY <1>3, <2>1, SeqDef
  <2> QED BY <1>3, <1>5, <2>2, LenProperties
<1>7. Levels(f) = Append(l, f.p)
  BY <1>1, <1>5 DEF Levels
<1>8. /\ Append(l, f.p) \in Seq(Point) /\ Len(Append(l, f.p)) = Len(l) + 1
      /\ Append(l, f.p)[Len(l) + 1] = f.p /\ \A i \in 1 .. Len(l) : Append(l, f.p)[i] = l[i]
  BY <1>2, <1>6, AppendProperties
<1>9. DOMAIN Append(l, f.p) = 1 .. Len(s) + 1
  BY <1>6, <1>8, LenProperties
<1> QED BY <1>1, <1>3, <1>4, <1>6, <1>7, <1>8, <1>9

\* What is behind a place, and what was put back.
LEMMA LeftIs ==
  ASSUME NEW s, NEW p, Fits(s, p)
  PROVE  Left(s, p) \in Seq(Chr) /\ SubSeq(s, p.next, p.next + p.left - 1) \in Seq(Chr)
<1>1. s \in Seq(Chr) /\ p \in Point /\ p.next + p.left <= Len(s) + 1
  BY DEF Fits
<1>2. /\ p.next \in Nat \ {0} /\ p.left \in Nat /\ p.lastc[1] \in Returned /\ p.lastc[2] \in Returned
  BY <1>1, PointIs
<1>3. PICK a, b, t : /\ a = (IF p.unget > 1 THEN Back(p.lastc[2]) ELSE <<>>)
                     /\ b = (IF p.unget > 0 THEN Back(p.lastc[1]) ELSE <<>>)
                     /\ t = SubSeq(s, p.next, p.next + p.left - 1)
  OBVIOUS
<1>4. \A c \in Returned : Back(c) \in Seq(Chr)
  <2> SUFFICES ASSUME NEW c \in Returned PROVE Back(c) \in Seq(Chr)
    OBVIOUS
  <2>1. c \in Chr
    BY Chars
  <2>2. <<>> \in Seq(Chr) /\ <<c>> \in Seq(Chr)
    BY <2>1
  <2> QED BY <2>2 DEF Back
<1>5. a \in Seq(Chr) /\ b \in Seq(Chr)
  BY <1>2, <1>3, <1>4, EmptySeq
<1>6. t \in Seq(Chr)
  <2>1. Len(s) \in Nat
    BY <1>1, LenProperties
  <2>2. PICK e : e = p.next + p.left - 1
    OBVIOUS
  <2>3. e \in Int /\ e <= Len(s)
    BY <1>1, <1>2, <2>1, <2>2
  <2>4. SubSeq(s, p.next, e) \in Seq(Chr)
    BY ONLY <1>1, <1>2, <2>3, SliceIs
  <2> QED BY <1>3, <2>2, <2>4
<1>7. a \o b \in Seq(Chr)
  BY <1>5, ConcatProperties
<1>8. (a \o b) \o t \in Seq(Chr)
  BY <1>6, <1>7, ConcatProperties
<1> QED BY <1>3, <1>6, <1>8 DEF Left

LEMMA LevelFits ==
  ASSUME NEW h, NEW f \in ParseFile, Placed(h, f)
  PROVE  /\ Fits(TextIn(h, f, f.p), f.p)
         /\ \A i \in 1 .. Len(f.push) : Fits(TextIn(h, f, f.push[i].p), f.push[i].p)
         /\ f.push = <<>> => f.p = Levels(f)[1] /\ f.p.cell = 0
         /\ f.push # <<>> => /\ Levels(f)[1] = f.push[1].p /\ 1 \in DOMAIN f.push
                             /\ f.p.cell # 0 /\ TextIn(h, f, f.p) = h[f.p.cell]
                             /\ AliasText(h[f.p.cell]) /\ InText(h[f.p.cell], f.p)
<1>1. PICK n : n = Len(f.push)
  OBVIOUS
<1>2. /\ n \in Nat /\ DOMAIN f.push = 1 .. n /\ Levels(f) \in Seq(Point)
      /\ Len(Levels(f)) = n + 1 /\ Levels(f)[n + 1] = f.p
      /\ \A i \in 1 .. n : /\ f.push[i] \in PushedString /\ f.push[i].p \in Point
                           /\ f.push[i].string \in Cells /\ Levels(f)[i] = f.push[i].p
  BY <1>1, LevelsAre
<1>3. f.push = <<>> <=> n = 0
  <2>1. f.push \in Seq(PushedString)
    BY FileIs
  <2>2. f.push # <<>> => Len(f.push) \in Nat \ {0}
    BY <2>1, EmptySeq
  <2> QED BY <1>1, <2>2, EmptySeq
<1>4. 0 \notin Cells
  BY InputAssumption
<1>5. PICK l : l = Levels(f)
  OBVIOUS
<1>6. \A k \in 1 .. n + 1 : l[k] \in Point
  BY <1>2, <1>5, ElementOfSeq
<1>7. Fits(TextIn(h, f, l[1]), l[1]) /\ l[1].cell = 0
  <2>1. InFile(f, l[1])
    BY <1>5 DEF Placed
  <2>2. l[1] \in Point /\ f.lleft \in Nat /\ f.buf \in Seq(Byte)
    BY <1>2, <1>6, FileIs
  <2>3. f.buf \in Seq(Chr)
    BY <2>2, Chars, SeqMonotonic
  <2>4. Len(f.buf) \in Nat
    BY <2>2, LenProperties
  <2>5. TextIn(h, f, l[1]) = f.buf /\ l[1].next + l[1].left + f.lleft = Len(f.buf) + 1 /\ l[1].cell = 0
    BY <2>1 DEF InFile, TextIn
  <2>6. l[1].next + l[1].left <= Len(f.buf) + 1
    <3>1. l[1].next \in Nat \ {0} /\ l[1].left \in Nat
      BY <2>2, PointIs
    <3>2. PICK x, y, z, k : x = l[1].next /\ y = l[1].left /\ z = f.lleft /\ k = Len(f.buf)
      OBVIOUS
    <3>3. x \in Nat /\ y \in Nat /\ z \in Nat /\ k \in Nat /\ x + y + z = k + 1
      BY <2>2, <2>4, <2>5, <3>1, <3>2
    <3>4. x + y <= k + 1
      BY ONLY <3>3
    <3> QED BY <3>2, <3>4
  <2> QED BY <2>2, <2>3, <2>5, <2>6 DEF Fits
<1>8. ASSUME NEW k \in 1 .. n
      PROVE  /\ Fits(TextIn(h, f, l[k + 1]), l[k + 1]) /\ l[k + 1].cell # 0
             /\ TextIn(h, f, l[k + 1]) = h[l[k + 1].cell]
             /\ AliasText(h[l[k + 1].cell]) /\ InText(h[l[k + 1].cell], l[k + 1])
  <2>1. PICK q, s : q = l[k + 1] /\ s = h[q.cell]
    OBVIOUS
  <2>2. q \in Point
    BY <1>2, <1>6, <2>1
  <2>3. q.cell = f.push[k].string /\ AliasText(s) /\ InText(s, q) /\ q.cell \in Cells
    BY <1>1, <1>2, <1>5, <2>1 DEF Placed
  <2>4. s \in Seq(Chr)
    BY <2>3, AliasTextIs
  <2>5. q.cell # 0 /\ TextIn(h, f, q) = s
    BY <1>4, <2>1, <2>3 DEF TextIn
  <2>6. q.next + q.left <= Len(s) + 1
    <3>1. Len(s) \in Nat /\ q.next \in Nat /\ q.left \in Nat
      BY <2>2, <2>4, LenProperties, PointIs
    <3> QED BY <2>3, <3>1 DEF InText
  <2> QED BY <2>1, <2>2, <2>3, <2>4, <2>5, <2>6 DEF Fits
<1>9. ASSUME NEW k \in 1 .. n + 1
      PROVE  Fits(TextIn(h, f, l[k]), l[k])
  <2>1. CASE k = 1
    BY <1>7, <2>1
  <2>2. CASE k # 1
    <3>1. PICK j : j = k - 1
      OBVIOUS
    <3>2. j \in 1 .. n /\ j + 1 = k
      BY <1>2, <2>2, <3>1
    <3> QED BY <1>8, <3>2
  <2> QED BY <2>1, <2>2
<1>10. ASSUME n # 0
       PROVE  /\ l[1] = f.push[1].p /\ 1 \in DOMAIN f.push
              /\ f.p.cell # 0 /\ TextIn(h, f, f.p) = h[f.p.cell]
              /\ AliasText(h[f.p.cell]) /\ InText(h[f.p.cell], f.p)
  <2>1. 1 \in 1 .. n /\ n \in 1 .. n
    BY <1>2, <1>10
  <2>2. l[n + 1] = f.p /\ l[1] = f.push[1].p
    BY <1>2, <1>5, <2>1
  <2> QED BY <1>2, <1>8, <2>1, <2>2
<1>11. n + 1 \in 1 .. n + 1 /\ \A k \in 1 .. n : k \in 1 .. n + 1
  BY <1>2
<1>12. Fits(TextIn(h, f, f.p), f.p)
  BY <1>2, <1>5, <1>9, <1>11
<1>13. \A i \in 1 .. Len(f.push) : Fits(TextIn(h, f, f.push[i].p), f.push[i].p)
  BY <1>1, <1>2, <1>5, <1>9, <1>11
<1>14. f.push = <<>> => f.p = l[1] /\ f.p.cell = 0
  BY <1>2, <1>3, <1>5, <1>7
<1> QED BY <1>3, <1>5, <1>10, <1>12, <1>13, <1>14

LEMMA UnseenIs ==
  ASSUME NEW h, NEW f \in ParseFile, Placed(h, f)
  PROVE  NoNul(Unseen(f)) \in Seq(Chr) /\ Unseen(f) \in Seq(Byte)
<1>1. PICK q, k, t : q = Levels(f)[1] /\ k = f.lleft /\ t = f.buf
  OBVIOUS
<1>2. t \in Seq(Byte) /\ k \in Nat /\ f.kernel \in Seq(Byte) /\ Len(t) \in Nat
  <2>1. f.buf \in Seq(Byte) /\ f.lleft \in Nat /\ f.kernel \in Seq(Byte)
    BY FileIs
  <2>2. Len(f.buf) \in Nat
    BY <2>1, LenProperties
  <2> QED BY <1>1, <2>1, <2>2
<1>3. PICK b, e : b = q.next + q.left /\ e = b + k - 1
  OBVIOUS
<1>4. b \in Nat \ {0} /\ e = Len(t) /\ e \in Int
  <2>1. Len(f.push) \in Nat /\ Levels(f) \in Seq(Point) /\ Len(Levels(f)) = Len(f.push) + 1
    BY LevelsAre
  <2>2. q \in Point
    BY <1>1, <2>1, ElementOfSeq
  <2>3. q.next \in Nat \ {0} /\ q.left \in Nat
    BY <2>2, PointIs
  <2>4. q.next + q.left + k = Len(t) + 1
    BY <1>1 DEF Placed, InFile
  <2>5. PICK x, y, z : x = q.next /\ y = q.left /\ z = Len(t)
    OBVIOUS
  <2>6. x \in Nat \ {0} /\ y \in Nat /\ z \in Nat /\ k \in Nat /\ x + y + k = z + 1 /\ b = x + y /\ e = b + k - 1
    BY <1>2, <1>3, <2>3, <2>4, <2>5
  <2>7. b \in Nat \ {0} /\ e = z /\ e \in Int
    BY ONLY <2>6
  <2> QED BY <2>5, <2>7
<1>5. PICK s : s = SubSeq(t, b, e)
  OBVIOUS
<1>6. s \in Seq(Byte)
  <2>1. e <= Len(t)
    BY <1>2, <1>4
  <2> QED BY ONLY <1>2, <1>4, <1>5, <2>1, SliceIs
<1>7. Unseen(f) \in Seq(Byte)
  <2>1. s \o f.kernel \in Seq(Byte)
    BY <1>2, <1>6, ConcatProperties
  <2>2. Unseen(f) = s \o f.kernel
    BY <1>1, <1>3, <1>5 DEF Unseen
  <2> QED BY <2>1, <2>2
<1>8. NoNul(Unseen(f)) \in Seq(Byte)
  BY <1>7, NoNulType
<1> QED BY <1>7, <1>8, Chars, SeqMonotonic

LEMMA PartsAre ==
  ASSUME NEW h, NEW f \in ParseFile, Placed(h, f)
  PROVE  /\ Parts(h, f) \in Seq(Seq(Chr)) /\ Len(Parts(h, f)) = Len(f.push)
         /\ \A i \in 1 .. Len(f.push) : Parts(h, f)[i] = Left(TextIn(h, f, f.push[i].p), f.push[i].p)
<1>1. Len(f.push) \in Nat /\ DOMAIN f.push = 1 .. Len(f.push)
  BY LevelsAre
<1>2. ASSUME NEW i \in 1 .. Len(f.push)
      PROVE  Left(TextIn(h, f, f.push[i].p), f.push[i].p) \in Seq(Chr)
  <2>1. Fits(TextIn(h, f, f.push[i].p), f.push[i].p)
    BY LevelFits
  <2> QED BY <2>1, LeftIs
<1>3. Parts(h, f) \in [1 .. Len(f.push) -> Seq(Chr)]
  BY <1>1, <1>2 DEF Parts
<1>4. Parts(h, f) \in Seq(Seq(Chr))
  BY <1>1, <1>3, SeqDef
<1> QED BY <1>1, <1>3, <1>4, LenProperties DEF Parts

LEMMA AllIs ==
  ASSUME NEW h, NEW f \in ParseFile, Placed(h, f)
  PROVE  /\ All(h, f) = Top(h, f) \o Below(h, f)
         /\ Top(h, f) \in Seq(Chr) /\ Below(h, f) \in Seq(Chr) /\ All(h, f) \in Seq(Chr)
<1>1. PICK low, u, n : low = Parts(h, f) /\ u = NoNul(Unseen(f)) /\ n = Len(f.push)
  OBVIOUS
<1>2. /\ low \in Seq(Seq(Chr)) /\ Len(low) = n /\ u \in Seq(Chr)
      /\ \A i \in 1 .. n : low[i] = Left(TextIn(h, f, f.push[i].p), f.push[i].p)
  BY <1>1, PartsAre, UnseenIs
<1>3. PICK x : x = Top(h, f)
  OBVIOUS
<1>4. x \in Seq(Chr)
  <2>1. Fits(TextIn(h, f, f.p), f.p)
    BY LevelFits
  <2> QED BY <1>3, <2>1, LeftIs DEF Top
<1>5. /\ n \in Nat /\ DOMAIN Levels(f) = 1 .. n + 1 /\ Levels(f)[n + 1] = f.p
      /\ \A i \in 1 .. n : Levels(f)[i] = f.push[i].p
  BY <1>1, LevelsAre
<1>6. PICK all : all = [i \in DOMAIN Levels(f) |-> Left(TextIn(h, f, Levels(f)[i]), Levels(f)[i])]
  OBVIOUS
<1>7. /\ Append(low, x) \in Seq(Seq(Chr)) /\ Len(Append(low, x)) = n + 1
      /\ Append(low, x)[n + 1] = x /\ \A i \in 1 .. n : Append(low, x)[i] = low[i]
  BY <1>2, <1>4, AppendProperties
<1>8. ASSUME NEW i \in 1 .. n + 1 PROVE all[i] = Append(low, x)[i]
  <2>1. all[i] = Left(TextIn(h, f, Levels(f)[i]), Levels(f)[i])
    BY <1>5, <1>6
  <2>2. CASE i = n + 1
    BY <1>3, <1>5, <1>7, <2>1, <2>2 DEF Top
  <2>3. CASE i # n + 1
    <3>1. i \in 1 .. n
      BY <1>5, <2>3
    <3>2. Levels(f)[i] = f.push[i].p /\ Append(low, x)[i] = low[i]
      BY <1>5, <1>7, <3>1
    <3> QED BY <1>2, <2>1, <3>1, <3>2
  <2> QED BY <2>2, <2>3
<1>9. all = Append(low, x)
  <2>1. all = [i \in 1 .. n + 1 |-> all[i]]
    BY <1>5, <1>6
  <2>2. Append(low, x) = [i \in 1 .. n + 1 |-> Append(low, x)[i]]
    BY <1>7, LenProperties
  <2> QED BY <1>8, <2>1, <2>2
<1>10. InFront(all, u) = x \o InFront(low, u)
  BY <1>2, <1>4, <1>9, InFrontMore
<1>11. InFront(low, u) \in Seq(Chr)
  BY <1>2, InFrontType
<1>12. x \o InFront(low, u) \in Seq(Chr)
  BY <1>4, <1>11, ConcatProperties
<1>13. All(h, f) = InFront(all, u) /\ Below(h, f) = InFront(low, u)
  BY <1>1, <1>6 DEF All, Below
<1> QED BY <1>3, <1>4, <1>10, <1>11, <1>12, <1>13

\* A string is pushed, or with f and g exchanged it is popped.
LEMMA OneMore ==
  ASSUME NEW h, NEW f \in ParseFile, NEW g \in ParseFile, Placed(h, f), Placed(h, g),
         NEW sp, g.push = Append(f.push, sp), sp.p = f.p,
         g.buf = f.buf, g.kernel = f.kernel, g.lleft = f.lleft
  PROVE  Below(h, g) = All(h, f)
<1>1. PICK n : n = Len(f.push)
  OBVIOUS
<1>2. /\ n \in Nat /\ DOMAIN f.push = 1 .. n /\ Levels(f)[n + 1] = f.p
      /\ \A i \in 1 .. n : Levels(f)[i] = f.push[i].p
  BY <1>1, LevelsAre
<1>3. /\ Len(g.push) = n + 1 /\ g.push[n + 1] = sp /\ \A i \in 1 .. n : g.push[i] = f.push[i]
  <2>1. IsSeq(f.push)
    BY FileIs, SeqIs
  <2> QED BY <1>1, <2>1, AppendIs
<1>4. Parts(h, g) = Append(Parts(h, f), Top(h, f))
  <2>1. PICK low, x : low = Parts(h, f) /\ x = Top(h, f)
    OBVIOUS
  <2>2. /\ low \in Seq(Seq(Chr)) /\ Len(low) = n /\ x \in Seq(Chr)
        /\ \A i \in 1 .. n : low[i] = Left(TextIn(h, f, f.push[i].p), f.push[i].p)
    BY <1>1, <2>1, PartsAre, AllIs
  <2>3. /\ Append(low, x) \in Seq(Seq(Chr)) /\ Len(Append(low, x)) = n + 1
        /\ Append(low, x)[n + 1] = x /\ \A i \in 1 .. n : Append(low, x)[i] = low[i]
    BY <2>2, AppendProperties
  <2>4. /\ Parts(h, g) \in Seq(Seq(Chr)) /\ Len(Parts(h, g)) = n + 1
        /\ \A i \in 1 .. n + 1 : Parts(h, g)[i] = Left(TextIn(h, g, g.push[i].p), g.push[i].p)
    <3>1. /\ Parts(h, g) \in Seq(Seq(Chr)) /\ Len(Parts(h, g)) = Len(g.push)
          /\ \A i \in 1 .. Len(g.push) : Parts(h, g)[i] = Left(TextIn(h, g, g.push[i].p), g.push[i].p)
      BY PartsAre
    <3> QED BY <1>3, <3>1
  <2>5. \A p : TextIn(h, g, p) = TextIn(h, f, p)
    BY DEF TextIn
  <2>6. ASSUME NEW i \in 1 .. n + 1 PROVE Parts(h, g)[i] = Append(low, x)[i]
    <3>1. Parts(h, g)[i] = Left(TextIn(h, f, g.push[i].p), g.push[i].p)
      BY <2>4, <2>5
    <3>2. CASE i = n + 1
      <4>1. g.push[i].p = f.p
        BY <1>3, <3>2
      <4> QED BY <2>1, <2>3, <3>1, <3>2, <4>1 DEF Top
    <3>3. CASE i # n + 1
      <4>1. i \in 1 .. n
        BY <1>2, <3>3
      <4> QED BY <1>3, <2>2, <2>3, <3>1, <4>1
    <3> QED BY <3>2, <3>3
  <2>7. Parts(h, g) = Append(low, x)
    BY ONLY <2>3, <2>4, <2>6, SeqEqual
  <2> QED BY <2>1, <2>7
<1>5. Levels(g)[1] = Levels(f)[1]
  <2>1. \A i \in 1 .. n + 1 : Levels(g)[i] = g.push[i].p
    BY <1>3, LevelsAre
  <2>2. Levels(g)[1] = g.push[1].p
    BY <1>2, <2>1
  <2>3. CASE n = 0
    BY <1>2, <1>3, <2>2, <2>3
  <2>4. CASE n # 0
    <3>1. 1 \in 1 .. n
      BY <1>2, <2>4
    <3> QED BY <1>2, <1>3, <2>2, <3>1
  <2> QED BY <2>3, <2>4
<1>6. Unseen(g) = Unseen(f)
  BY <1>5 DEF Unseen
<1>7. PICK low, x, u : low = Parts(h, f) /\ x = Top(h, f) /\ u = NoNul(Unseen(f))
  OBVIOUS
<1>8. low \in Seq(Seq(Chr)) /\ x \in Seq(Chr) /\ u \in Seq(Chr)
  BY <1>7, PartsAre, AllIs, UnseenIs
<1>9. InFront(Append(low, x), u) = x \o InFront(low, u)
  BY <1>8, InFrontMore
<1> QED BY <1>4, <1>6, <1>7, <1>9, AllIs DEF Below

\* A character is taken or put back.
LEMMA BelowSame ==
  ASSUME NEW h, NEW f \in ParseFile, NEW g \in ParseFile, Placed(h, f), Placed(h, g),
         g.push = f.push, g.buf = f.buf, g.kernel = f.kernel, g.lleft = f.lleft,
         g.p.next + g.p.left = f.p.next + f.p.left
  PROVE  Below(h, g) = Below(h, f)
<1>1. \A p : TextIn(h, g, p) = TextIn(h, f, p)
  BY DEF TextIn
<1>2. Parts(h, g) = Parts(h, f)
  BY <1>1 DEF Parts
<1>3. Levels(g)[1].next + Levels(g)[1].left = Levels(f)[1].next + Levels(f)[1].left
  <2>1. CASE f.push = <<>>
    <3>1. f.p = Levels(f)[1]
      BY <2>1, LevelFits
    <3>2. g.p = Levels(g)[1]
      BY <2>1, LevelFits
    <3> QED BY <3>1, <3>2
  <2>2. CASE f.push # <<>>
    <3>1. Levels(f)[1] = f.push[1].p
      BY <2>2, LevelFits
    <3>2. Levels(g)[1] = g.push[1].p
      BY <2>2, LevelFits
    <3> QED BY <3>1, <3>2
  <2> QED BY <2>1, <2>2
<1>4. Unseen(g) = Unseen(f)
  BY <1>3 DEF Unseen
<1> QED BY <1>2, <1>4 DEF Below

\* Memory changes, but not the texts that are read.
LEMMA TextsSame ==
  ASSUME NEW h, NEW k, NEW f \in ParseFile, Placed(h, f),
         \A i \in 1 .. Len(f.push) : k[f.push[i].string] = h[f.push[i].string]
  PROVE  Placed(k, f) /\ All(k, f) = All(h, f)
<1>1. PICK n, l : n = Len(f.push) /\ l = Levels(f)
  OBVIOUS
<1>2. n \in Nat /\ DOMAIN l = 1 .. n + 1
  BY <1>1, LevelsAre
<1>3. Placed(k, f)
  BY DEF Placed
<1>4. ASSUME NEW i \in DOMAIN l PROVE TextIn(k, f, l[i]) = TextIn(h, f, l[i])
  <2>1. CASE i = 1
    <3>1. l[1].cell = 0
      BY <1>1 DEF Placed, InFile
    <3> QED BY <2>1, <3>1 DEF TextIn
  <2>2. CASE i # 1
    <3>1. PICK j : j = i - 1
      OBVIOUS
    <3>2. j \in 1 .. n /\ j + 1 = i
      BY <1>2, <2>2, <3>1
    <3>3. l[i].cell = f.push[j].string
      BY <1>1, <3>2 DEF Placed
    <3>4. k[f.push[j].string] = h[f.push[j].string]
      BY <1>1, <3>2
    <3> QED BY <3>3, <3>4 DEF TextIn
  <2> QED BY <2>1, <2>2
<1>5. [i \in DOMAIN l |-> Left(TextIn(k, f, l[i]), l[i])] = [i \in DOMAIN l |-> Left(TextIn(h, f, l[i]), l[i])]
  BY <1>4
<1> QED BY <1>1, <1>3, <1>5 DEF All

(***************************************************************************)
(* Characters that are taken and put back.                                 *)
(***************************************************************************)

LEMMA BackIs ==
  /\ \A c \in Returned : Back(c) \in Seq(Chr)
  /\ Back("EOF") = <<>> /\ \A c : c # "EOF" => Back(c) = <<c>>
<1>1. ASSUME NEW c \in Returned PROVE Back(c) \in Seq(Chr)
  <2>1. c \in Chr
    BY Chars
  <2>2. <<>> \in Seq(Chr) /\ <<c>> \in Seq(Chr)
    BY <2>1
  <2> QED BY <2>2 DEF Back
<1> QED BY <1>1 DEF Back

Forms(s, p, t) ==
  /\ p.unget = 0 => Left(s, p) = t
  /\ p.unget = 1 => Left(s, p) = Back(p.lastc[1]) \o t
  /\ p.unget = 2 => Left(s, p) = Back(p.lastc[2]) \o (Back(p.lastc[1]) \o t)

LEMMA LeftForms ==
  ASSUME NEW s, NEW p, Fits(s, p), NEW t, t = SubSeq(s, p.next, p.next + p.left - 1)
  PROVE  Forms(s, p, t)
<1>1. t \in Seq(Chr) /\ p \in Point
  BY LeftIs DEF Fits
<1>2. PICK a, b : a = Back(p.lastc[2]) /\ b = Back(p.lastc[1])
  OBVIOUS
<1>3. a \in Seq(Chr) /\ b \in Seq(Chr) /\ p.unget \in 0 .. 2
  BY <1>1, <1>2, PointIs, BackIs
<1>4. <<>> \o <<>> = <<>> /\ <<>> \o t = t /\ <<>> \o b = b
  <2>1. <<>> \in Seq(Chr)
    BY EmptySeq
  <2> QED BY <1>1, <1>3, <2>1, ConcatEmptySeq
<1>5. CASE p.unget = 0
  <2>1. Left(s, p) = (<<>> \o <<>>) \o t
    BY <1>5 DEF Left
  <2> QED BY <1>4, <1>5, <2>1 DEF Forms
<1>6. CASE p.unget = 1
  <2>1. Left(s, p) = (<<>> \o b) \o t
    BY <1>2, <1>6 DEF Left
  <2>2. Left(s, p) = b \o t /\ p.unget # 0 /\ p.unget # 2
    BY ONLY <1>4, <1>6, <2>1
  <2> QED BY ONLY <1>2, <2>2 DEF Forms
<1>7. CASE p.unget = 2
  <2>1. Left(s, p) = (a \o b) \o t
    BY <1>2, <1>7 DEF Left
  <2>2. Regroups(a, b, t)
    BY <1>1, <1>3, ConcatRegroups
  <2>3. Left(s, p) = a \o (b \o t)
    BY ONLY <2>1, <2>2 DEF Regroups
  <2>4. p.unget # 0 /\ p.unget # 1
    BY <1>7
  <2> QED BY ONLY <1>2, <2>3, <2>4 DEF Forms
<1>8. p.unget \in {0, 1, 2}
  BY <1>3
<1> QED BY ONLY <1>5, <1>6, <1>7, <1>8 DEF Forms

\* p has put one more character back than q.
LEMMA LeftBack ==
  ASSUME NEW s, NEW p, Fits(s, p), NEW q, Fits(s, q),
         p.unget > 0, q.unget = p.unget - 1, q.next = p.next, q.left = p.left,
         q.unget = 1 => q.lastc[1] = p.lastc[1]
  PROVE  Left(s, p) = Back(p.lastc[p.unget]) \o Left(s, q)
<1>1. PICK t : t = SubSeq(s, p.next, p.next + p.left - 1)
  OBVIOUS
<1>2. t = SubSeq(s, q.next, q.next + q.left - 1)
  BY <1>1
<1>3. p.unget \in {1, 2}
  <2>1. p.unget \in 0 .. 2
    BY PointIs DEF Fits
  <2> QED BY <2>1
<1>4. Forms(s, p, t)
  BY ONLY Fits(s, p), <1>1, LeftForms
<1>5. Forms(s, q, t)
  BY ONLY Fits(s, q), <1>2, LeftForms
<1>6. CASE p.unget = 1
  <2>1. q.unget = 0
    BY <1>6
  <2> QED BY ONLY <1>4, <1>5, <1>6, <2>1 DEF Forms
<1>7. CASE p.unget = 2
  <2>1. q.unget = 1 /\ q.lastc[1] = p.lastc[1]
    BY <1>7
  <2> QED BY ONLY <1>4, <1>5, <1>7, <2>1 DEF Forms
<1> QED BY ONLY <1>3, <1>6, <1>7

\* q is one character further than p.
LEMMA LeftText ==
  ASSUME NEW s, NEW p, Fits(s, p), NEW q, Fits(s, q),
         p.unget = 0, q.unget = 0, p.left > 0, q.next = p.next + 1, q.left = p.left - 1
  PROVE  p.next \in 1 .. Len(s) /\ Left(s, p) = <<s[p.next]>> \o Left(s, q)
<1>1. PICK m, n : m = p.next /\ n = p.next + p.left - 1
  OBVIOUS
<1>2. /\ s \in Seq(Chr) /\ Len(s) \in Nat /\ m \in Nat \ {0} /\ p.left \in Nat /\ p.left > 0
      /\ m + p.left <= Len(s) + 1
  BY <1>1, PointIs, LenProperties DEF Fits
<1>3. m \in 1 .. Len(s) /\ n \in m .. Len(s) /\ q.next = m + 1 /\ q.next + q.left - 1 = n
  <2>1. PICK l, k : l = p.left /\ k = Len(s)
    OBVIOUS
  <2>2. l \in Nat /\ k \in Nat /\ m \in Nat \ {0} /\ l > 0 /\ m + l <= k + 1 /\ n = m + l - 1
    BY <1>1, <1>2, <2>1
  <2>3. m \in 1 .. k /\ n \in m .. k /\ m + 1 + (l - 1) - 1 = n
    BY ONLY <2>2
  <2>4. q.next = m + 1 /\ q.left = l - 1
    BY <1>1, <2>1
  <2> QED BY <2>1, <2>3, <2>4
<1>4. SubSeq(s, m, n) = <<s[m]>> \o SubSeq(s, m + 1, n)
  BY ONLY <1>2, <1>3, SubSeqRecursiveFirst
<1>5. Left(s, p) = SubSeq(s, m, n)
  <2>1. Forms(s, p, SubSeq(s, m, n))
    BY ONLY Fits(s, p), <1>1, LeftForms
  <2> QED BY <2>1 DEF Forms
<1>6. Left(s, q) = SubSeq(s, m + 1, n)
  <2>1. Forms(s, q, SubSeq(s, m + 1, n))
    BY ONLY Fits(s, q), <1>3, LeftForms
  <2> QED BY <2>1 DEF Forms
<1> QED BY <1>1, <1>3, <1>4, <1>5, <1>6

LEMMA LeftNothing ==
  ASSUME NEW s, NEW p, Fits(s, p), p.unget = 0, p.left = 0
  PROVE  Left(s, p) = <<>>
<1>1. PICK m, n : m = p.next /\ n = p.next + p.left - 1
  OBVIOUS
<1>2. m \in Int /\ n \in Int /\ n < m
  BY <1>1, PointIs DEF Fits
<1>3. SubSeq(s, m, n) = <<>>
  BY <1>2, SubSeqEmpty
<1>4. Forms(s, p, SubSeq(s, m, n))
  BY ONLY Fits(s, p), <1>1, LeftForms
<1> QED BY <1>3, <1>4 DEF Forms

\* At the end of a file nothing is below.
LEMMA BelowNothing ==
  ASSUME NEW h, NEW f \in ParseFile, Placed(h, f), f.push = <<>>, f.lleft = 0, f.kernel = <<>>
  PROVE  Below(h, f) = <<>>
<1>1. PICK m, n : m = Levels(f)[1].next + Levels(f)[1].left /\ n = m + f.lleft - 1
  OBVIOUS
<1>2. m \in Int /\ n \in Int /\ n < m
  <2>1. Levels(f)[1] = f.p /\ f.p \in Point
    BY FileIs, LevelFits
  <2>2. m \in Nat
    BY <1>1, <2>1, PointIs
  <2> QED BY <1>1, <2>2
<1>3. Unseen(f) = SubSeq(f.buf, m, n) \o f.kernel
  BY <1>1 DEF Unseen
<1>4. SubSeq(f.buf, m, n) = <<>>
  BY <1>2, SubSeqEmpty
<1>5. <<>> \in Seq({}) /\ <<>> \o <<>> = <<>>
  BY EmptySeq, ConcatEmptySeq
<1>6. NoNul(<<>>) = <<>>
  BY <1>5, NoNulSame
<1>7. NoNul(Unseen(f)) = <<>>
  BY <1>3, <1>4, <1>5, <1>6
<1>8. Parts(h, f) \in Seq(Seq(Chr)) /\ Len(Parts(h, f)) = 0 /\ <<>> \in Seq(Chr)
  BY PartsAre, EmptySeq
<1>9. InFront(Parts(h, f), <<>>) = <<>>
  BY <1>8, InFrontNone
<1> QED BY <1>7, <1>9 DEF Below

Moved(f, q) == [f EXCEPT !.p = q]

LEMMA MovedIs ==
  ASSUME NEW h, NEW f \in ParseFile, Placed(h, f), NEW q \in Point,
         q.cell = f.p.cell, q.next + q.left = f.p.next + f.p.left,
         f.push = <<>> => (q.lastc[1] = "EOF" => q.left = 0 /\ f.lleft = 0 /\ f.kernel = <<>>),
         f.push # <<>> => InText(h[f.p.cell], q)
  PROVE  /\ Moved(f, q) \in ParseFile /\ Moved(f, q).p = q /\ Moved(f, q).push = f.push
         /\ Placed(h, Moved(f, q)) /\ Below(h, Moved(f, q)) = Below(h, f)
         /\ TextIn(h, Moved(f, q), q) = TextIn(h, f, f.p)
         /\ Fits(TextIn(h, f, f.p), q)
<1>1. PICK g : g = Moved(f, q)
  OBVIOUS
<1>2. /\ g \in ParseFile /\ g.p = q /\ g.push = f.push /\ g.buf = f.buf /\ g.kernel = f.kernel
      /\ g.lleft = f.lleft /\ g.fd = f.fd
  BY <1>1 DEF ParseFile, Moved
<1>3. PICK n : n = Len(f.push)
  OBVIOUS
<1>4. /\ n \in Nat /\ Levels(f)[n + 1] = f.p /\ \A i \in 1 .. n : Levels(f)[i] = f.push[i].p
  BY <1>3, LevelsAre
<1>5. Levels(g)[n + 1] = q /\ \A i \in 1 .. n : Levels(g)[i] = f.push[i].p
  <2>1. /\ Levels(g)[Len(g.push) + 1] = g.p
        /\ \A i \in 1 .. Len(g.push) : Levels(g)[i] = g.push[i].p
    BY <1>2, LevelsAre
  <2> QED BY <1>2, <1>3, <2>1
<1>6. InFile(g, Levels(g)[1])
  <2>1. InFile(f, Levels(f)[1])
    BY DEF Placed
  <2>2. CASE n = 0
    <3>1. Levels(g)[1] = q /\ Levels(f)[1] = f.p
      BY <1>4, <1>5, <2>2
    <3>2. f.push = <<>>
      <4>1. f.push \in Seq(PushedString)
        BY FileIs
      <4> QED BY <1>3, <2>2, <4>1, EmptySeq
    <3> QED BY <1>2, <2>1, <3>1, <3>2 DEF InFile
  <2>3. CASE n # 0
    <3>1. 1 \in 1 .. n
      BY <1>4, <2>3
    <3>2. Levels(g)[1] = Levels(f)[1]
      BY <1>4, <1>5, <3>1
    <3> QED BY <1>2, <2>1, <3>2 DEF InFile
  <2> QED BY <2>2, <2>3
<1>7. ASSUME NEW i \in 1 .. n
      PROVE  /\ Levels(g)[i + 1].cell = f.push[i].string /\ AliasText(h[f.push[i].string])
             /\ InText(h[f.push[i].string], Levels(g)[i + 1])
             /\ f.push[i].p.unget < 2
  <2>1. /\ Levels(f)[i + 1].cell = f.push[i].string /\ AliasText(h[f.push[i].string])
        /\ InText(h[f.push[i].string], Levels(f)[i + 1])
        /\ f.push[i].p.unget < 2
    BY <1>3 DEF Placed
  <2>2. CASE i = n
    <3>1. Levels(g)[i + 1] = q /\ Levels(f)[i + 1] = f.p
      BY <1>4, <1>5, <2>2
    <3>2. f.push # <<>>
      BY <1>3, <1>4, <2>2, EmptySeq
    <3> QED BY <2>1, <3>1, <3>2
  <2>3. CASE i # n
    <3>1. i + 1 \in 1 .. n
      BY <1>4, <2>3
    <3>2. Levels(g)[i + 1] = Levels(f)[i + 1]
      BY <1>4, <1>5, <3>1
    <3> QED BY <2>1, <3>2
  <2> QED BY <2>2, <2>3
<1>8. ~g.fd => g.lleft = 0 /\ g.kernel = <<>>
  BY <1>2 DEF Placed
<1>9. Placed(h, g)
  BY <1>2, <1>3, <1>6, <1>7, <1>8 DEF Placed
<1>10. Below(h, g) = Below(h, f)
  BY <1>2, <1>9, BelowSame
<1>11. TextIn(h, g, q) = TextIn(h, f, f.p)
  BY <1>2 DEF TextIn
<1>12. Fits(TextIn(h, f, f.p), q)
  <2>1. Fits(TextIn(h, f, f.p), f.p)
    BY LevelFits
  <2> QED BY <2>1 DEF Fits
<1> QED BY <1>1, <1>2, <1>9, <1>10, <1>11, <1>12

\* pgetc takes c, and makes g of the innermost file f.
Took(h, f, g, c, pop) ==
  /\ g \in ParseFile /\ Placed(h, g) /\ g.push = f.push /\ c \in Returned
  /\ \/ c = "EOF" /\ All(h, f) = <<>> /\ All(h, g) = <<>>
     \/ c # "EOF" /\ All(h, f) = <<c>> \o All(h, g)
  /\ g.p.unget = (IF f.p.unget > 0 THEN f.p.unget - 1 ELSE 0)
  /\ g.p.cell = 0 \/ g.p.next > 2
  /\ f.p.unget < 2 => g.p.lastc[1] = c
  /\ f.p.unget = 2 => c = f.p.lastc[2]
  /\ f.p.unget = 0 /\ ~pop => g.p.lastc[2] = f.p.lastc[1]

\* Of the text that is read a character is taken, or it is at its end.
LEMMA TookIs ==
  ASSUME NEW h, NEW f \in ParseFile, Placed(h, f), NEW g \in ParseFile, Placed(h, g),
         NEW c \in Returned, Below(h, g) = Below(h, f),
         c # "EOF" => Top(h, f) = <<c>> \o Top(h, g),
         c = "EOF" => Top(h, f) = <<>> /\ Top(h, g) = <<>> /\ Below(h, f) = <<>>
  PROVE  \/ c = "EOF" /\ All(h, f) = <<>> /\ All(h, g) = <<>>
         \/ c # "EOF" /\ All(h, f) = <<c>> \o All(h, g)
<1>1. PICK a, b, l, e : a = Top(h, f) /\ b = Top(h, g) /\ l = Below(h, f) /\ e = <<c>>
  OBVIOUS
<1>2. /\ All(h, f) = a \o l /\ All(h, g) = b \o l
      /\ a \in Seq(Chr) /\ b \in Seq(Chr) /\ l \in Seq(Chr)
  BY <1>1, AllIs
<1>3. CASE c = "EOF"
  <2>1. <<>> \o <<>> = <<>>
    BY EmptySeq, ConcatEmptySeq
  <2> QED BY <1>1, <1>2, <1>3, <2>1
<1>4. CASE c # "EOF"
  <2>1. a = e \o b
    BY <1>1, <1>4
  <2>2. e \in Seq(Chr)
    <3>1. c \in Chr
      BY Chars
    <3> QED BY <1>1, <3>1
  <2>3. Regroups(e, b, l)
    BY <1>2, <2>2, ConcatRegroups
  <2>4. a \o l = e \o (b \o l)
    BY ONLY <2>1, <2>3 DEF Regroups
  <2> QED BY ONLY <1>1, <1>2, <1>4, <2>4
<1> QED BY <1>3, <1>4

LEMMA GotIs ==
  ASSUME File \in ParseFile, Placed(heap, File), File.p.unget = 2 => ~popped /\ File.p.lastc[2] # "EOF",
         ~Exhausted \/ AtEnd
  PROVE  Took(heap, File, Got.f, Got.c, popped)
<1>1. PICK h, f, p, s, pop : h = heap /\ f = File /\ p = f.p /\ s = TextIn(h, f, p) /\ pop = popped
  OBVIOUS
<1>2. PICK g, c : g = Got.f /\ c = Got.c
  OBVIOUS
<1>3. /\ f \in ParseFile /\ Placed(h, f) /\ p \in Point /\ p = f.p
      /\ p.unget = 2 => ~pop /\ p.lastc[2] # "EOF"
  BY <1>1, FileIs
<1>4. /\ p.next \in Nat \ {0} /\ p.left \in Nat /\ p.unget \in 0 .. 2
      /\ p.lastc[1] \in Returned /\ p.lastc[2] \in Returned
  BY <1>3, PointIs
<1>5. Fits(s, p) /\ Top(h, f) = Left(s, p)
  BY <1>1, <1>3, LevelFits DEF Top
<1>6. f.push = <<>> => /\ p.cell = 0 /\ s = f.buf
                       /\ p.lastc[1] = "EOF" => p.left = 0 /\ f.lleft = 0 /\ f.kernel = <<>>
  <2> SUFFICES ASSUME f.push = <<>>
               PROVE  /\ p.cell = 0 /\ s = f.buf
                      /\ p.lastc[1] = "EOF" => p.left = 0 /\ f.lleft = 0 /\ f.kernel = <<>>
    OBVIOUS
  <2>1. p = Levels(f)[1] /\ p.cell = 0
    BY <1>3, LevelFits
  <2>2. InFile(f, p)
    BY <1>3, <2>1 DEF Placed
  <2> QED BY <1>1, <2>1, <2>2 DEF InFile, TextIn
<1>7. f.push # <<>> => s = h[p.cell] /\ AliasText(s) /\ InText(s, p) /\ p.cell # 0
  BY <1>1, <1>3, LevelFits
\* What follows of what is made of the place.
<1>8. ASSUME NEW q \in Point, g = Moved(f, q), q.cell = p.cell, q.next + q.left = p.next + p.left,
             f.push = <<>> => (q.lastc[1] = "EOF" => q.left = 0 /\ f.lleft = 0 /\ f.kernel = <<>>),
             f.push # <<>> => InText(s, q)
      PROVE  /\ g \in ParseFile /\ Placed(h, g) /\ g.push = f.push /\ Below(h, g) = Below(h, f)
             /\ Fits(s, q) /\ Top(h, g) = Left(s, q) /\ g.p = q
  <2>1. f.push # <<>> => InText(h[f.p.cell], q)
    BY <1>3, <1>7, <1>8
  <2>2. /\ g \in ParseFile /\ g.p = q /\ g.push = f.push /\ Placed(h, g) /\ Below(h, g) = Below(h, f)
        /\ TextIn(h, g, q) = TextIn(h, f, f.p) /\ Fits(TextIn(h, f, f.p), q)
    BY <1>3, <1>8, <2>1, MovedIs
  <2> QED BY <1>1, <2>2 DEF Top
<1>9. CASE p.unget > 0
  <2>1. PICK q : q = [IF pop THEN Stored(p, p.lastc[p.unget]) ELSE p EXCEPT !.unget = @ - 1]
    OBVIOUS
  <2>2. g = Moved(f, q) /\ c = p.lastc[p.unget]
    BY <1>1, <1>2, <1>9, <2>1 DEF Got, Moved
  <2>3. p.unget \in {1, 2} /\ c \in Returned
    <3>1. p.unget \in {1, 2}
      BY <1>4, <1>9
    <3> QED BY <1>4, <2>2, <3>1
  <2>4. /\ q \in Point /\ q.cell = p.cell /\ q.next = p.next /\ q.left = p.left /\ q.unget = p.unget - 1
        /\ q.lastc[1] = IF pop THEN c ELSE p.lastc[1]
    <3>1. PICK r : r = IF pop THEN Stored(p, c) ELSE p
      OBVIOUS
    <3>2. /\ r \in Point /\ r.cell = p.cell /\ r.next = p.next /\ r.left = p.left /\ r.unget = p.unget
          /\ r.lastc[1] = IF pop THEN c ELSE p.lastc[1]
      <4>1. CASE pop
        <5>1. PICK d : d = <<c, IF popped THEN c ELSE p.lastc[1]>>
          OBVIOUS
        <5>2. d \in Returned \X Returned /\ d[1] = c
          BY <1>4, <2>3, <5>1
        <5>3. r = [p EXCEPT !.lastc = d]
          BY <3>1, <4>1, <5>1 DEF Stored
        <5> QED BY ONLY <1>3, <4>1, <5>2, <5>3 DEF Point
      <4>2. CASE ~pop
        BY <1>3, <3>1, <4>2
      <4> QED BY <4>1, <4>2
    <3>3. q = [r EXCEPT !.unget = r.unget - 1]
      BY <2>1, <2>2, <3>1
    <3>4. r.unget - 1 \in 0 .. 2
      BY <2>3, <3>2
    <3>5. /\ q \in Point /\ q.cell = r.cell /\ q.next = r.next /\ q.left = r.left /\ q.unget = r.unget - 1
          /\ q.lastc = r.lastc
      BY ONLY <3>2, <3>3, <3>4 DEF Point
    <3> QED BY <3>2, <3>5
  <2>5. q.lastc[1] = p.lastc[1] /\ (p.unget = 1 => c = p.lastc[1]) /\ (p.unget = 2 => c = p.lastc[2] /\ c # "EOF")
    BY <1>3, <2>2, <2>3, <2>4
  <2>6. f.push # <<>> => InText(s, q)
    BY <1>7, <1>9, <2>4, <2>5 DEF InText
  <2>7. /\ g \in ParseFile /\ Placed(h, g) /\ g.push = f.push /\ Below(h, g) = Below(h, f)
        /\ Fits(s, q) /\ Top(h, g) = Left(s, q) /\ g.p = q
    BY <1>6, <1>8, <2>2, <2>4, <2>5, <2>6
  <2>8. Left(s, p) = Back(c) \o Left(s, q)
    BY ONLY <1>5, <1>9, <2>2, <2>4, <2>5, <2>7, LeftBack
  <2>9. c = "EOF" => f.push = <<>> /\ p.left = 0 /\ f.lleft = 0 /\ f.kernel = <<>> /\ q.unget = 0
    <3> SUFFICES ASSUME c = "EOF" PROVE f.push = <<>> /\ p.left = 0 /\ f.lleft = 0 /\ f.kernel = <<>> /\ q.unget = 0
      OBVIOUS
    <3>1. p.unget = 1 /\ p.lastc[1] = "EOF" /\ q.unget = 0
      BY <2>3, <2>4, <2>5
    <3>2. CASE f.push # <<>>
      <4>1. p.next > 2 /\ p.lastc[1] = s[p.next - 1] /\ p.next + p.left = Len(s) + 1
        BY <1>7, <1>9, <3>2 DEF InText
      <4>2. Len(s) \in Nat /\ \A i \in 2 .. Len(s) : s[i] \in Byte \ {"0"}
        BY <1>7, <3>2, AliasTextIs
      <4>3. p.next - 1 \in 2 .. Len(s)
        BY <1>4, <4>1, <4>2
      <4>4. "EOF" \in Byte
        BY <3>1, <4>1, <4>2, <4>3
      <4> QED BY <4>4, Chars
    <3> QED BY <1>6, <3>1, <3>2
  <2>10. c = "EOF" => Top(h, f) = <<>> /\ Top(h, g) = <<>> /\ Below(h, f) = <<>>
    <3> SUFFICES ASSUME c = "EOF" PROVE Top(h, f) = <<>> /\ Top(h, g) = <<>> /\ Below(h, f) = <<>>
      OBVIOUS
    <3>1. Below(h, f) = <<>>
      BY <1>3, <2>9, BelowNothing
    <3>2. q.unget = 0 /\ q.left = 0
      BY <2>4, <2>9
    <3>3. Left(s, q) = <<>>
      BY ONLY <2>7, <3>2, LeftNothing
    <3>4. Back(c) = <<>> /\ <<>> \o <<>> = <<>>
      BY BackIs, EmptySeq, ConcatEmptySeq
    <3> QED BY <1>5, <2>7, <2>8, <3>1, <3>3, <3>4
  <2>11. c # "EOF" => Top(h, f) = <<c>> \o Top(h, g)
    BY <1>5, <2>7, <2>8, BackIs
  <2>12. \/ c = "EOF" /\ All(h, f) = <<>> /\ All(h, g) = <<>>
         \/ c # "EOF" /\ All(h, f) = <<c>> \o All(h, g)
    BY ONLY <1>3, <2>3, <2>7, <2>10, <2>11, TookIs
  <2>13. q.cell = 0 \/ q.next > 2
    BY <1>6, <1>7, <1>9, <2>4 DEF InText
  <2>14. /\ q.unget = (IF p.unget > 0 THEN p.unget - 1 ELSE 0) /\ p.unget # 0
         /\ p.unget < 2 => q.lastc[1] = c
    BY <1>9, <2>3, <2>4, <2>5
  <2>15. Took(h, f, g, c, pop)
    BY ONLY <1>3, <2>3, <2>5, <2>7, <2>12, <2>13, <2>14 DEF Took
  <2> QED BY <1>1, <1>2, <2>15
<1>10. CASE p.unget = 0 /\ p.left > 0
  <2>1. PICK q, d : d = <<c, IF pop THEN c ELSE p.lastc[1]>>
                    /\ q = [[p EXCEPT !.lastc = d] EXCEPT !.next = @ + 1, !.left = @ - 1]
    OBVIOUS
  <2>2. c = s[p.next]
    BY <1>1, <1>2, <1>10 DEF Got, Text, TextIn
  <2>3. g = Moved(f, q)
    <3>1. Got.f = [f EXCEPT !.p = [Stored(p, Text(f, p)[p.next]) EXCEPT !.next = @ + 1, !.left = @ - 1]]
      BY <1>1, <1>10 DEF Got
    <3>2. Text(f, p)[p.next] = c
      BY <1>1, <2>2 DEF Text, TextIn
    <3>3. Stored(p, c) = [p EXCEPT !.lastc = d]
      BY <1>1, <2>1 DEF Stored
    <3> QED BY <1>2, <2>1, <3>1, <3>2, <3>3 DEF Moved
  <2>4. s \in Seq(Chr) /\ Len(s) \in Nat /\ p.next \in 1 .. Len(s)
    <3>1. s \in Seq(Chr) /\ p.next + p.left <= Len(s) + 1
      BY <1>5 DEF Fits
    <3>2. Len(s) \in Nat
      BY <3>1, LenProperties
    <3> QED BY <1>4, <1>10, <3>1, <3>2
  <2>5. c \in Byte
    <3>1. CASE f.push = <<>>
      <4>1. f.buf \in Seq(Byte) /\ s = f.buf
        BY <1>3, <1>6, <3>1, FileIs
      <4> QED BY <2>2, <2>4, <4>1, ElementOfSeq
    <3>2. CASE f.push # <<>>
      <4>1. p.next > 1 /\ \A i \in 2 .. Len(s) : s[i] \in Byte \ {"0"}
        BY <1>7, <3>2, AliasTextIs DEF InText
      <4>2. p.next \in 2 .. Len(s)
        BY <1>4, <2>4, <4>1
      <4> QED BY <2>2, <4>1, <4>2
    <3> QED BY <3>1, <3>2
  <2>6. c \in Returned /\ c # "EOF"
    BY <2>5, Chars
  <2>7. d \in Returned \X Returned /\ d[1] = c /\ (~pop => d[2] = p.lastc[1])
    BY <1>4, <2>1, <2>6
  <2>8. /\ q \in Point /\ q.cell = p.cell /\ q.next = p.next + 1 /\ q.left = p.left - 1 /\ q.unget = p.unget
        /\ q.lastc = d
    <3>1. p.next + 1 \in Nat \ {0} /\ p.left - 1 \in Nat
      BY <1>4, <1>10
    <3> QED BY ONLY <1>3, <2>1, <2>7, <3>1 DEF Point
  <2>9. f.push # <<>> => InText(s, q)
    <3> SUFFICES ASSUME f.push # <<>> PROVE InText(s, q)
      OBVIOUS
    <3>1. p.next > 1 /\ p.next + p.left = Len(s) + 1
      BY <1>7 DEF InText
    <3>2. q.next > 2 /\ q.next + q.left = Len(s) + 1 /\ q.next - 1 = p.next /\ q.unget = 0
      <4>1. PICK x, y, z : x = p.next /\ y = p.left /\ z = Len(s)
        OBVIOUS
      <4>2. x \in Nat \ {0} /\ y \in Nat /\ z \in Nat /\ x > 1 /\ x + y = z + 1
        BY <1>4, <2>4, <3>1, <4>1
      <4>3. x + 1 > 2 /\ x + 1 + (y - 1) = z + 1 /\ x + 1 - 1 = x
        BY ONLY <4>2
      <4>4. q.next = x + 1 /\ q.left = y - 1 /\ q.unget = 0
        BY <1>10, <2>8, <4>1
      <4> QED BY <4>1, <4>2, <4>3, <4>4
    <3>3. q.lastc[1] = s[q.next - 1]
      BY <2>2, <2>7, <2>8, <3>2
    <3>4. q.next > 1
      BY ONLY <1>4, <2>8, <3>1
    <3>5. ~(q.unget > 0)
      BY ONLY <3>2
    <3> QED BY ONLY <3>2, <3>3, <3>4, <3>5 DEF InText
  <2>10. q.next + q.left = p.next + p.left
    BY <1>4, <2>8
  <2>11. /\ g \in ParseFile /\ Placed(h, g) /\ g.push = f.push /\ Below(h, g) = Below(h, f)
         /\ Fits(s, q) /\ Top(h, g) = Left(s, q) /\ g.p = q
    BY <1>8, <2>3, <2>6, <2>7, <2>8, <2>9, <2>10
  <2>12. q.unget = 0 /\ p.left > 0
    BY <1>10, <2>8
  <2>13. Left(s, p) = <<s[p.next]>> \o Left(s, q)
    BY ONLY <1>5, <1>10, <2>8, <2>11, <2>12, LeftText
  <2>14. Top(h, f) = <<c>> \o Top(h, g)
    BY ONLY <1>5, <2>2, <2>11, <2>13
  <2>15. \/ c = "EOF" /\ All(h, f) = <<>> /\ All(h, g) = <<>>
         \/ c # "EOF" /\ All(h, f) = <<c>> \o All(h, g)
    BY ONLY <1>3, <2>6, <2>11, <2>14, TookIs
  <2>16. q.cell = 0 \/ q.next > 2
    BY <1>4, <1>6, <1>7, <2>8 DEF InText
  <2>17. q.unget = (IF p.unget > 0 THEN p.unget - 1 ELSE 0) /\ p.unget < 2 /\ p.unget # 2
    BY <1>10, <2>12
  <2>18. q.lastc[1] = c /\ (~pop => q.lastc[2] = p.lastc[1])
    BY <2>7, <2>8
  <2>19. Took(h, f, g, c, pop)
    BY ONLY <1>3, <2>6, <2>11, <2>15, <2>16, <2>17, <2>18 DEF Took
  <2> QED BY <1>1, <1>2, <2>19
<1>11. CASE p.unget = 0 /\ ~(p.left > 0)
  <2>1. PICK q, d : d = <<"EOF", IF pop THEN "EOF" ELSE p.lastc[1]>> /\ q = [p EXCEPT !.lastc = d]
    OBVIOUS
  <2>2. p.left = 0
    BY <1>4, <1>11
  <2>3. c = "EOF" /\ g = Moved(f, q)
    <3>1. Got.c = "EOF" /\ Got.f = [f EXCEPT !.p = Stored(p, "EOF")]
      BY <1>1, <1>11 DEF Got
    <3>2. Stored(p, "EOF") = q
      BY <1>1, <2>1 DEF Stored
    <3> QED BY <1>2, <3>1, <3>2 DEF Moved
  <2>4. f.push = <<>> /\ f.lleft = 0 /\ f.kernel = <<>>
    <3>1. AtEnd
      BY <1>1, <1>11, <2>2 DEF Exhausted
    <3> QED BY <1>1, <1>3, <3>1 DEF AtEnd, Placed
  <2>5. c \in Returned
    BY <2>3, Chars
  <2>6. d \in Returned \X Returned /\ d[1] = c /\ (~pop => d[2] = p.lastc[1])
    BY <1>4, <2>1, <2>3, <2>5
  <2>7. /\ q \in Point /\ q.cell = p.cell /\ q.next = p.next /\ q.left = p.left /\ q.unget = p.unget
        /\ q.lastc = d
    BY ONLY <1>3, <2>1, <2>6 DEF Point
  <2>8. /\ g \in ParseFile /\ Placed(h, g) /\ g.push = f.push /\ Below(h, g) = Below(h, f)
        /\ Fits(s, q) /\ Top(h, g) = Left(s, q) /\ g.p = q
    BY <1>8, <2>2, <2>3, <2>4, <2>7
  <2>9. Below(h, f) = <<>>
    BY <1>3, <2>4, BelowNothing
  <2>10. Left(s, p) = <<>>
    BY ONLY <1>5, <1>11, <2>2, LeftNothing
  <2>11. q.unget = 0 /\ q.left = 0
    BY <1>11, <2>2, <2>7
  <2>12. Left(s, q) = <<>>
    BY ONLY <2>8, <2>11, LeftNothing
  <2>13. \/ c = "EOF" /\ All(h, f) = <<>> /\ All(h, g) = <<>>
         \/ c # "EOF" /\ All(h, f) = <<c>> \o All(h, g)
    <3>1. c = "EOF" => Top(h, f) = <<>> /\ Top(h, g) = <<>> /\ Below(h, f) = <<>>
      BY <1>5, <2>8, <2>9, <2>10, <2>12
    <3>2. c # "EOF" => Top(h, f) = <<c>> \o Top(h, g)
      BY <2>3
    <3> QED BY ONLY <1>3, <2>5, <2>8, <3>1, <3>2, TookIs
  <2>14. q.cell = 0 /\ q.unget = (IF p.unget > 0 THEN p.unget - 1 ELSE 0) /\ p.unget < 2 /\ p.unget # 2
    BY <1>6, <1>11, <2>4, <2>7
  <2>15. q.lastc[1] = c /\ (~pop => q.lastc[2] = p.lastc[1])
    BY <2>6, <2>7
  <2>16. Took(h, f, g, c, pop)
    BY ONLY <1>3, <2>5, <2>8, <2>13, <2>14, <2>15 DEF Took
  <2> QED BY <1>1, <1>2, <2>16
<1> QED BY <1>4, <1>9, <1>10, <1>11

(***************************************************************************)
(* What remains of all files, and what Source makes of it.                 *)
(***************************************************************************)

Sound(h, fs) == fs \in Seq(ParseFile) /\ \A i \in 1 .. Len(fs) : Placed(h, fs[i])
Remain(h, fs) == [i \in 1 .. Len(fs) |-> All(h, fs[i])]

LEMMA RemainIs ==
  ASSUME NEW h, NEW fs, Sound(h, fs)
  PROVE  /\ Remain(h, fs) \in Seq(Seq(Chr)) /\ Len(Remain(h, fs)) = Len(fs)
         /\ \A i \in 1 .. Len(fs) : Remain(h, fs)[i] = All(h, fs[i])
<1>0. fs \in Seq(ParseFile) /\ \A i \in 1 .. Len(fs) : Placed(h, fs[i])
  BY DEF Sound
<1>1. Len(fs) \in Nat /\ \A i \in 1 .. Len(fs) : fs[i] \in ParseFile
  BY <1>0, LenProperties, ElementOfSeq
<1>2. \A i \in 1 .. Len(fs) : All(h, fs[i]) \in Seq(Chr)
  BY <1>0, <1>1, AllIs
<1>3. Remain(h, fs) \in [1 .. Len(fs) -> Seq(Chr)]
  BY <1>2 DEF Remain
<1>4. Remain(h, fs) \in Seq(Seq(Chr))
  BY <1>1, <1>3, SeqDef
<1> QED BY <1>1, <1>3, <1>4, LenProperties DEF Remain

\* The innermost file is replaced, one is added, or some are left.
LEMMA RemainWith ==
  ASSUME NEW h, NEW fs, Sound(h, fs), fs # <<>>, NEW g \in ParseFile, Placed(h, g)
  PROVE  /\ Sound(h, With(fs, g))
         /\ Len(With(fs, g)) = Len(fs) /\ With(fs, g)[Len(fs)] = g
         /\ \A i \in 1 .. Len(fs) - 1 : With(fs, g)[i] = fs[i]
         /\ Remain(h, With(fs, g)) = [Remain(h, fs) EXCEPT ![Len(fs)] = All(h, g)]
<1>1. PICK n, gs : n = Len(fs) /\ gs = With(fs, g)
  OBVIOUS
<1>0. fs \in Seq(ParseFile) /\ \A i \in 1 .. Len(fs) : Placed(h, fs[i])
  BY DEF Sound
<1>2. n \in Nat /\ n \in 1 .. n
  <2>1. n \in Nat \ {0}
    BY <1>0, <1>1, EmptySeq
  <2> QED BY <2>1
<1>3. gs \in Seq(ParseFile) /\ Len(gs) = n /\ \A i \in 1 .. n : gs[i] = IF i = n THEN g ELSE fs[i]
  BY <1>0, <1>1, <1>2, ExceptSeq DEF With
<1>4. gs[n] = g /\ \A i \in 1 .. n - 1 : gs[i] = fs[i]
  BY <1>2, <1>3
<1>5. Sound(h, gs)
  BY <1>0, <1>1, <1>3 DEF Sound
<1>6. Remain(h, gs) = [Remain(h, fs) EXCEPT ![n] = All(h, g)]
  BY <1>1, <1>2, <1>3 DEF Remain
<1> QED BY <1>1, <1>3, <1>4, <1>5, <1>6

LEMMA RemainAppend ==
  ASSUME NEW h, NEW fs, Sound(h, fs), NEW g \in ParseFile, Placed(h, g)
  PROVE  /\ Sound(h, Append(fs, g))
         /\ Len(Append(fs, g)) = Len(fs) + 1 /\ Append(fs, g)[Len(fs) + 1] = g
         /\ \A i \in 1 .. Len(fs) : Append(fs, g)[i] = fs[i]
         /\ Remain(h, Append(fs, g)) = Append(Remain(h, fs), All(h, g))
<1>1. PICK n, gs : n = Len(fs) /\ gs = Append(fs, g)
  OBVIOUS
<1>0. fs \in Seq(ParseFile) /\ \A i \in 1 .. Len(fs) : Placed(h, fs[i])
  BY DEF Sound
<1>2. /\ n \in Nat /\ gs \in Seq(ParseFile) /\ Len(gs) = n + 1 /\ gs[n + 1] = g
      /\ \A i \in 1 .. n : gs[i] = fs[i]
  BY <1>0, <1>1, LenProperties, AppendProperties
<1>3. ASSUME NEW i \in 1 .. n + 1 PROVE Placed(h, gs[i])
  <2>1. CASE i = n + 1
    BY <1>2, <2>1
  <2>2. CASE i # n + 1
    <3>1. i \in 1 .. n
      BY <1>2, <2>2
    <3> QED BY <1>0, <1>1, <1>2, <3>1
  <2> QED BY <2>1, <2>2
<1>4. /\ Remain(h, gs) \in Seq(Seq(Chr)) /\ Len(Remain(h, gs)) = n + 1
      /\ \A i \in 1 .. n + 1 : Remain(h, gs)[i] = All(h, gs[i])
      /\ Sound(h, gs)
  <2>1. Sound(h, gs)
    BY <1>2, <1>3 DEF Sound
  <2>2. /\ Remain(h, gs) \in Seq(Seq(Chr)) /\ Len(Remain(h, gs)) = Len(gs)
        /\ \A i \in 1 .. Len(gs) : Remain(h, gs)[i] = All(h, gs[i])
    BY ONLY <2>1, RemainIs
  <2> QED BY <1>2, <2>1, <2>2
<1>5. PICK r, x : r = Remain(h, fs) /\ x = All(h, g)
  OBVIOUS
<1>6. r \in Seq(Seq(Chr)) /\ Len(r) = n /\ (\A i \in 1 .. n : r[i] = All(h, fs[i])) /\ x \in Seq(Chr)
  BY <1>1, <1>5, RemainIs, AllIs
<1>7. /\ Append(r, x) \in Seq(Seq(Chr)) /\ Len(Append(r, x)) = n + 1 /\ Append(r, x)[n + 1] = x
      /\ \A i \in 1 .. n : Append(r, x)[i] = r[i]
  BY <1>6, AppendProperties
<1>8. ASSUME NEW i \in 1 .. n + 1 PROVE Remain(h, gs)[i] = Append(r, x)[i]
  <2>1. CASE i = n + 1
    BY <1>2, <1>4, <1>5, <1>7, <2>1
  <2>2. CASE i # n + 1
    <3>1. i \in 1 .. n
      BY <1>2, <2>2
    <3> QED BY <1>2, <1>4, <1>6, <1>7, <3>1
  <2> QED BY <2>1, <2>2
<1>9. Remain(h, gs) = Append(r, x)
  BY ONLY <1>4, <1>7, <1>8, SeqEqual
<1> QED BY <1>1, <1>2, <1>4, <1>5, <1>9

LEMMA RemainKept ==
  ASSUME NEW h, NEW fs, Sound(h, fs), NEW k \in 1 .. Len(fs)
  PROVE  /\ Sound(h, Kept(fs, k))
         /\ Len(Kept(fs, k)) = k /\ \A i \in 1 .. k : Kept(fs, k)[i] = fs[i]
         /\ Remain(h, Kept(fs, k)) = SubSeq(Remain(h, fs), 1, k)
<1>1. PICK n, gs, r : n = Len(fs) /\ gs = Kept(fs, k) /\ r = Remain(h, fs)
  OBVIOUS
<1>0. fs \in Seq(ParseFile) /\ \A i \in 1 .. Len(fs) : Placed(h, fs[i])
  BY DEF Sound
<1>2. n \in Nat /\ k \in Nat /\ k \in Int /\ k <= n /\ 1 \in Nat \ {0} /\ k - 1 + 1 = k
  BY <1>0, <1>1, LenProperties
<1>3. gs \in Seq(ParseFile) /\ Len(gs) = k /\ \A i \in 1 .. k : gs[i] = fs[i]
  <2>1. /\ SubSeq(fs, 1, k) \in Seq(ParseFile) /\ Len(SubSeq(fs, 1, k)) = (IF 1 <= k THEN k - 1 + 1 ELSE 0)
        /\ \A i \in 1 .. k - 1 + 1 : SubSeq(fs, 1, k)[i] = fs[1 + i - 1]
    BY <1>0, <1>1, <1>2, SliceIs
  <2>2. \A i \in 1 .. k : 1 + i - 1 = i
    OBVIOUS
  <2> QED BY <1>1, <1>2, <2>1, <2>2 DEF Kept
<1>4. \A i \in 1 .. k : i \in 1 .. n
  BY <1>2
<1>5. Sound(h, gs)
  BY <1>0, <1>1, <1>3, <1>4 DEF Sound
<1>6. /\ Remain(h, gs) \in Seq(Seq(Chr)) /\ Len(Remain(h, gs)) = k
      /\ \A i \in 1 .. k : Remain(h, gs)[i] = All(h, gs[i])
  BY <1>3, <1>5, RemainIs
<1>7. r \in Seq(Seq(Chr)) /\ Len(r) = n /\ \A i \in 1 .. n : r[i] = All(h, fs[i])
  BY <1>1, RemainIs
<1>8. SubSeq(r, 1, k) \in Seq(Seq(Chr)) /\ Len(SubSeq(r, 1, k)) = k /\ \A i \in 1 .. k : SubSeq(r, 1, k)[i] = r[i]
  <2>1. /\ SubSeq(r, 1, k) \in Seq(Seq(Chr)) /\ Len(SubSeq(r, 1, k)) = (IF 1 <= k THEN k - 1 + 1 ELSE 0)
        /\ \A i \in 1 .. k - 1 + 1 : SubSeq(r, 1, k)[i] = r[1 + i - 1]
    BY <1>2, <1>7, SliceIs
  <2>2. \A i \in 1 .. k : 1 + i - 1 = i
    OBVIOUS
  <2> QED BY <1>2, <2>1, <2>2
<1>9. \A i \in 1 .. k : Remain(h, gs)[i] = SubSeq(r, 1, k)[i]
  BY <1>3, <1>4, <1>6, <1>7, <1>8
<1>10. Remain(h, gs) = SubSeq(r, 1, k)
  BY ONLY <1>6, <1>8, <1>9, SeqEqual
<1> QED BY <1>1, <1>3, <1>5, <1>10

LEMMA RemainSame ==
  ASSUME NEW h, NEW k, NEW fs \in Seq(ParseFile),
         \A i \in 1 .. Len(fs) : Placed(h, fs[i]) /\ \A j \in 1 .. Len(fs[i].push) :
            k[fs[i].push[j].string] = h[fs[i].push[j].string]
  PROVE  (\A i \in 1 .. Len(fs) : Placed(k, fs[i])) /\ Remain(k, fs) = Remain(h, fs)
<1>1. \A i \in 1 .. Len(fs) : fs[i] \in ParseFile
  BY ElementOfSeq
<1>2. ASSUME NEW i \in 1 .. Len(fs) PROVE Placed(k, fs[i]) /\ All(k, fs[i]) = All(h, fs[i])
  <2>1. PICK f : f = fs[i]
    OBVIOUS
  <2>2. f \in ParseFile /\ Placed(h, f) /\ \A j \in 1 .. Len(f.push) : k[f.push[j].string] = h[f.push[j].string]
    BY <1>1, <2>1
  <2>3. Placed(k, f) /\ All(k, f) = All(h, f)
    BY <2>2, TextsSame
  <2> QED BY <2>1, <2>3
<1> QED BY <1>2 DEF Remain

\* The refinement mapping.
LEMMA RemainingIs ==
  ASSUME DOMAIN files = 1 .. Len(files)
  PROVE  Remaining = Remain(heap, files)
<1>1. \A f, p : Text(f, p) = TextIn(heap, f, p)
  BY DEF Text, TextIn
<1>2. ASSUME NEW f PROVE Pending(f) = All(heap, f)
  <2>1. [i \in DOMAIN Levels(f) |-> Left(Text(f, Levels(f)[i]), Levels(f)[i])]
        = [i \in DOMAIN Levels(f) |-> Left(TextIn(heap, f, Levels(f)[i]), Levels(f)[i])]
    BY <1>1
  <2> QED BY <2>1 DEF Pending, All
<1> QED BY <1>2 DEF Remaining, Remain

LEMMA RemainingNext ==
  ASSUME DOMAIN files' = 1 .. Len(files')
  PROVE  Remaining' = Remain(heap', files')
<1>1. PICK h, fs : h = heap' /\ fs = files'
  OBVIOUS
<1>2. Remaining' = [i \in DOMAIN fs |-> InFront([j \in DOMAIN Levels(fs[i]) |->
                       Left(IF Levels(fs[i])[j].cell = 0 THEN fs[i].buf ELSE h[Levels(fs[i])[j].cell], Levels(fs[i])[j])],
                       NoNul(Unseen(fs[i])))]
  BY <1>1 DEF Remaining, Pending, Text
<1>3. Remain(h, fs) = [i \in 1 .. Len(fs) |-> InFront([j \in DOMAIN Levels(fs[i]) |->
                       Left(IF Levels(fs[i])[j].cell = 0 THEN fs[i].buf ELSE h[Levels(fs[i])[j].cell], Levels(fs[i])[j])],
                       NoNul(Unseen(fs[i])))]
  BY DEF Remain, All, TextIn
<1> QED BY <1>1, <1>2, <1>3

(***************************************************************************)
(* The characters that were returned last.                                 *)
(***************************************************************************)

LEMMA RecentIs ==
  ASSUME NEW T, NEW s \in Seq(T), NEW c \in T
  PROVE  /\ Recent(Append(s, c)) \in Seq(T) /\ Recent(Append(s, c)) # <<>>
         /\ Last(Recent(Append(s, c))) = c
         /\ s # <<>> => /\ Front(Recent(Append(s, c))) # <<>>
                        /\ Last(Front(Recent(Append(s, c)))) = Last(s)
<1>1. PICK n, a, r : n = Len(s) /\ a = Append(s, c) /\ r = Recent(a)
  OBVIOUS
<1>2. n \in Nat /\ a \in Seq(T) /\ Len(a) = n + 1 /\ a[n + 1] = c /\ \A i \in 1 .. n : a[i] = s[i]
  BY <1>1, LenProperties, AppendProperties
<1>3. s # <<>> => n # 0
  BY <1>1, EmptySeq
<1>4. \E m \in Nat \ {0} : /\ r \in Seq(T) /\ Len(r) = m /\ r[m] = c
                           /\ n # 0 => m > 1 /\ r[m - 1] = s[n]
  <2>1. CASE n + 1 > 2
    <3>1. r = SubSeq(a, n, n + 1)
      BY <1>1, <1>2, <2>1 DEF Recent
    <3>2. n \in Nat \ {0} /\ n + 1 \in Int /\ n + 1 <= Len(a) /\ n <= n + 1 /\ n + 1 - n + 1 = 2
          /\ 1 \in 1 .. 2 /\ 2 \in 1 .. 2 /\ n + 1 - 1 = n /\ n + 2 - 1 = n + 1 /\ n \in 1 .. n
      BY <1>2, <2>1
    <3>3. /\ r \in Seq(T) /\ Len(r) = IF n <= n + 1 THEN n + 1 - n + 1 ELSE 0
          /\ \A i \in 1 .. n + 1 - n + 1 : r[i] = a[n + i - 1]
      BY ONLY <1>2, <3>1, <3>2, SliceIs
    <3>4. Len(r) = 2 /\ r[1] = a[n + 1 - 1] /\ r[2] = a[n + 2 - 1]
      BY ONLY <3>2, <3>3
    <3>5. r[1] = s[n] /\ r[2] = c
      BY ONLY <1>2, <3>2, <3>4
    <3> QED BY <3>3, <3>4, <3>5
  <2>2. CASE ~(n + 1 > 2)
    <3>1. r = a
      BY <1>1, <1>2, <2>2 DEF Recent
    <3>2. n # 0 => n = 1 /\ n \in 1 .. n /\ n + 1 - 1 = n
      BY <1>2, <2>2
    <3> QED BY <1>2, <3>1, <3>2
  <2> QED BY <2>1, <2>2
<1>5. PICK m \in Nat \ {0} : /\ r \in Seq(T) /\ Len(r) = m /\ r[m] = c
                             /\ n # 0 => m > 1 /\ r[m - 1] = s[n]
  BY <1>4
<1>6. r # <<>>
  BY <1>5, EmptySeq
<1>7. Last(r) = c
  BY <1>5 DEF Last
<1>8. IsSeq(r)
  BY <1>5, SeqIs
<1>9. /\ IsSeq(Front(r)) /\ Len(Front(r)) = m - 1 /\ \A i \in 1 .. m - 1 : Front(r)[i] = r[i]
  BY <1>5, <1>6, <1>8, FrontIs
<1>10. s # <<>> => Front(r) # <<>> /\ Last(Front(r)) = Last(s)
  <2> SUFFICES ASSUME s # <<>> PROVE Front(r) # <<>> /\ Last(Front(r)) = Last(s)
    OBVIOUS
  <2>1. m > 1 /\ m - 1 \in 1 .. m - 1 /\ r[m - 1] = s[n] /\ m - 1 # 0
    BY <1>3, <1>5
  <2>2. Front(r)[m - 1] = s[n]
    BY <1>9, <2>1
  <2>3. Front(r) # <<>>
    BY <1>9, <2>1, EmptySeq
  <2> QED BY <1>1, <1>9, <2>2, <2>3 DEF Last
<1> QED BY <1>1, <1>5, <1>6, <1>7, <1>10

LEMMA FrontType ==
  ASSUME NEW T, NEW s \in Seq(T), s # <<>>
  PROVE  Front(s) \in Seq(T)
<1>1. Len(s) \in Nat /\ Len(s) - 1 \in Int /\ Len(s) - 1 <= Len(s) /\ 1 \in Nat \ {0}
  BY LenProperties
<1>2. SubSeq(s, 1, Len(s) - 1) \in Seq(T)
  BY ONLY <1>1, s \in Seq(T), SliceIs
<1> QED BY <1>2 DEF Front

(***************************************************************************)
(* The steps of Source.                                                    *)
(***************************************************************************)

\* The innermost text becomes x.
Becomes(r, x) == [r EXCEPT ![Len(r)] = x]

LEMMA BecomesSame ==
  ASSUME NEW T, NEW r \in Seq(T), r # <<>>
  PROVE  Becomes(r, r[Len(r)]) = r
<1>1. Len(r) \in Nat /\ r \in [1 .. Len(r) -> T]
  BY LenProperties
<1> QED BY <1>1 DEF Becomes

LEMMA HeadTail ==
  ASSUME NEW T, NEW c \in T, NEW x \in Seq(T)
  PROVE  <<c>> \o x # <<>> /\ Head(<<c>> \o x) = c /\ Tail(<<c>> \o x) = x
<1>1. PICK e, s : e = <<c>> /\ s = e \o x
  OBVIOUS
<1>2. e \in Seq(T) /\ Len(e) = 1 /\ e[1] = c
  BY <1>1
<1>3. PICK n \in Nat : n = Len(x)
  BY LenProperties
<1>4. s \in Seq(T) /\ Len(s) = 1 + n /\ \A i \in 1 .. 1 + n : s[i] = IF i <= 1 THEN e[i] ELSE x[i - 1]
  BY <1>1, <1>2, <1>3, ConcatProperties
<1>5. s # <<>> /\ s[1] = c
  BY <1>2, <1>4, EmptySeq
<1>6. Head(s) = s[1] /\ Tail(s) \in Seq(T) /\ Len(Tail(s)) = n /\ \A i \in 1 .. n : Tail(s)[i] = s[i + 1]
  <2>1. s \in Seq(T) /\ s # <<>>
    BY <1>4, <1>5
  <2>2. /\ Tail(s) \in Seq(T) /\ Len(Tail(s)) = Len(s) - 1
        /\ \A i \in 1 .. Len(Tail(s)) : Tail(s)[i] = s[i + 1]
    BY ONLY <2>1, HeadTailProperties
  <2>3. Len(Tail(s)) = n
    BY <1>4, <2>2
  <2>4. Head(s) = s[1]
    BY <2>1
  <2> QED BY <2>2, <2>3, <2>4
<1>7. ASSUME NEW i \in 1 .. n PROVE Tail(s)[i] = x[i]
  <2>1. PICK k : k = i + 1
    OBVIOUS
  <2>2. k \in 1 .. 1 + n /\ ~(k <= 1) /\ k - 1 = i
    BY <2>1
  <2> QED BY <1>4, <1>6, <2>1, <2>2
<1>8. Tail(s) = x
  BY <1>3, <1>6, <1>7, SeqEqual
<1> QED BY <1>1, <1>5, <1>6, <1>8

LEMMA TakeIs ==
  ASSUME NEW r, r = Remaining, NEW u, u = Remaining', r \in Seq(Seq(Chr)), r # <<>>,
         NEW c \in Returned, NEW x \in Seq(Chr), u = Becomes(r, x),
         \/ c = "EOF" /\ r[Len(r)] = <<>> /\ x = <<>>
         \/ c # "EOF" /\ r[Len(r)] = <<c>> \o x,
         read' = Recent(Append(read, c))
  PROVE  S!Take
<1>1. S!Top = r[Len(r)]
  BY DEF S!Top
<1>2. \A t : S!SetTop(t) = Becomes(r, t)
  BY DEF S!SetTop, Becomes
<1>3. \A s : S!Recent(s) = Recent(s)
  BY DEF S!Recent, Recent
<1>4. CASE c = "EOF"
  <2>1. u = r /\ S!Top = <<>>
    BY <1>1, <1>4, BecomesSame
  <2> QED BY <1>3, <1>4, <2>1 DEF S!Take
<1>5. CASE c # "EOF"
  <2>1. c \in Chr
    BY Chars
  <2>2. S!Top # <<>> /\ Head(S!Top) = c /\ Tail(S!Top) = x
    BY <1>1, <1>5, <2>1, HeadTail
  <2> QED BY <1>2, <1>3, <2>2 DEF S!Take
<1> QED BY <1>4, <1>5

LEMMA PutBackIs ==
  ASSUME NEW r, r = Remaining, NEW u, u = Remaining', r \in Seq(Seq(Chr)), r # <<>>,
         NEW c, read # <<>>, c = Last(read), read' = Front(read), u = Becomes(r, Back(c) \o r[Len(r)])
  PROVE  S!PutBack
<1>1. S!Top = r[Len(r)]
  BY DEF S!Top
<1>2. \A t : S!SetTop(t) = Becomes(r, t)
  BY DEF S!SetTop, Becomes
<1>3. read' = SubSeq(read, 1, Len(read) - 1) /\ c = read[Len(read)]
  BY DEF Front, Last
<1>4. u = IF c = "EOF" THEN r ELSE S!SetTop(<<c>> \o S!Top)
  <2>1. CASE c = "EOF"
    <3>1. Len(r) \in 1 .. Len(r)
      <4>1. Len(r) \in Nat \ {0}
        BY EmptySeq, LenProperties
      <4> QED BY <4>1
    <3>2. r[Len(r)] \in Seq(Chr)
      BY <3>1, ElementOfSeq
    <3>3. Back(c) \o r[Len(r)] = r[Len(r)]
      BY <2>1, <3>2, BackIs, ConcatEmptySeq
    <3> QED BY <2>1, <3>3, BecomesSame
  <2>2. CASE c # "EOF"
    BY <1>1, <1>2, <2>2, BackIs
  <2> QED BY <2>1, <2>2
<1> QED BY <1>3, <1>4 DEF S!PutBack

LEMMA InsertIs ==
  ASSUME NEW r, r = Remaining, NEW u, u = Remaining', NEW t \in Contents,
         u = Becomes(r, t \o r[Len(r)]), read' = read
  PROVE  S!Insert
<1>1. S!Top = r[Len(r)] /\ \A x : S!SetTop(x) = Becomes(r, x)
  BY DEF S!Top, S!SetTop, Becomes
<1> QED BY <1>1 DEF S!Insert

LEMMA OpenIs ==
  ASSUME NEW t \in Contents, Remaining' = Append(Remaining, t), read' = <<>>
  PROVE  S!Open
BY DEF S!Open

LEMMA CloseIs ==
  ASSUME NEW n \in 1 .. Len(Remaining) - 1, Remaining' = SubSeq(Remaining, 1, n), read' = <<>>
  PROVE  S!Close
BY DEF S!Close

(***************************************************************************)
(* Files that are opened, filled and given strings.                        *)
(***************************************************************************)

LEMMA NoStrings ==
  ASSUME NEW h, NEW f \in ParseFile, f.push = <<>>, InFile(f, f.p), ~f.fd => f.lleft = 0 /\ f.kernel = <<>>
  PROVE  /\ Placed(h, f) /\ Below(h, f) = NoNul(Unseen(f))
         /\ Unseen(f) = SubSeq(f.buf, f.p.next + f.p.left, f.p.next + f.p.left + f.lleft - 1) \o f.kernel
<1>1. Len(f.push) = 0
  BY EmptySeq
<1>2. Levels(f)[1] = f.p
  <2>1. Levels(f)[Len(f.push) + 1] = f.p
    BY LevelsAre
  <2> QED BY <1>1, <2>1
<1>3. Placed(h, f)
  BY <1>1, <1>2 DEF Placed
<1>4. Parts(h, f) \in Seq(Seq(Chr)) /\ Len(Parts(h, f)) = 0 /\ NoNul(Unseen(f)) \in Seq(Chr)
  BY <1>1, <1>3, PartsAre, UnseenIs
<1>5. Below(h, f) = NoNul(Unseen(f))
  BY <1>4, InFrontNone DEF Below
<1> QED BY <1>2, <1>3, <1>5 DEF Unseen

\* What is read first of a file that was filled, or opened.
LEMMA LineIs ==
  ASSUME NEW h, NEW f \in ParseFile, Placed(h, f), f.push = <<>>, f.p.unget = 0, f.p.next = 1
  PROVE  Top(h, f) = SubSeq(f.buf, 1, f.p.left)
<1>1. f.p.cell = 0 /\ Fits(TextIn(h, f, f.p), f.p)
  BY LevelFits
<1>2. TextIn(h, f, f.p) = f.buf
  BY <1>1 DEF TextIn
<1>3. f.p.next + f.p.left - 1 = f.p.left
  <2>1. f.p.left \in Nat
    BY FileIs, PointIs
  <2> QED BY <2>1
<1>4. PICK s, p : s = f.buf /\ p = f.p
  OBVIOUS
<1>5. Fits(s, p) /\ p.unget = 0
  BY <1>1, <1>2, <1>4
<1>6. Forms(s, p, SubSeq(s, p.next, p.next + p.left - 1))
  BY ONLY <1>5, LeftForms
<1>7. Left(s, p) = SubSeq(s, p.next, p.next + p.left - 1)
  BY ONLY <1>5, <1>6 DEF Forms
<1> QED BY <1>2, <1>3, <1>4, <1>7 DEF Top

\* A file that is opened holds s.
Holds(h, f, s) ==
  f \in ParseFile /\ Placed(h, f) /\ All(h, f) = NoNul(s) /\ f.p.unget = 0

LEMMA HoldsIs ==
  ASSUME NEW h, NEW f \in ParseFile, NEW s \in Seq(Byte), f.push = <<>>,
         f.p.cell = 0, f.p.next = 1, f.p.left = Len(f.buf), f.p.unget = 0, f.p.lastc[1] # "EOF", f.lleft = 0,
         \/ f.buf = NoNul(s) /\ f.kernel = <<>>
         \/ f.buf = <<>> /\ f.kernel = s /\ f.fd
  PROVE  Holds(h, f, s)
<1>1. PICK b, n : b = f.buf /\ n = Len(b)
  OBVIOUS
<1>2. b \in Seq(Byte) /\ b \in Seq(Chr) /\ n \in Nat /\ f.kernel \in Seq(Byte)
  <2>1. b \in Seq(Byte) /\ f.kernel \in Seq(Byte)
    BY <1>1, FileIs
  <2> QED BY <1>1, <2>1, Chars, SeqMonotonic, LenProperties
<1>3. InFile(f, f.p) /\ (~f.fd => f.lleft = 0 /\ f.kernel = <<>>)
  BY <1>1, <1>2 DEF InFile
<1>4. /\ Placed(h, f) /\ Below(h, f) = NoNul(Unseen(f))
      /\ Unseen(f) = SubSeq(b, f.p.next + f.p.left, f.p.next + f.p.left + f.lleft - 1) \o f.kernel
  BY <1>1, <1>3, NoStrings
<1>5. Unseen(f) = f.kernel
  <2>1. PICK l, m : l = f.p.next + f.p.left /\ m = l + f.lleft - 1
    OBVIOUS
  <2>2. l \in Int /\ m \in Int /\ m < l
    BY <1>1, <1>2, <2>1
  <2>3. SubSeq(b, l, m) = <<>>
    BY <2>2, SubSeqEmpty
  <2>4. <<>> \o f.kernel = f.kernel
    BY <1>2, ConcatEmptySeq
  <2> QED BY <1>4, <2>1, <2>3, <2>4
<1>6. Top(h, f) = b
  <2>1. Top(h, f) = SubSeq(b, 1, n)
    BY <1>1, <1>4, LineIs
  <2> QED BY <1>1, <1>2, <2>1, SubSeqFull
<1>7. All(h, f) = b \o NoNul(f.kernel)
  BY <1>4, <1>5, <1>6, AllIs
<1>8. NoNul(s) \in Seq(Byte)
  BY NoNulType
<1>9. CASE f.buf = NoNul(s) /\ f.kernel = <<>>
  <2>0. <<>> \in Seq({})
    BY EmptySeq
  <2>1. NoNul(<<>>) = <<>>
    BY <2>0, NoNulSame
  <2>2. NoNul(s) \o <<>> = NoNul(s)
    BY <1>8, ConcatEmptySeq
  <2> QED BY <1>1, <1>4, <1>7, <1>9, <2>1, <2>2 DEF Holds
<1>10. CASE f.buf = <<>> /\ f.kernel = s
  <2>1. <<>> \o NoNul(s) = NoNul(s)
    BY <1>8, ConcatEmptySeq
  <2> QED BY <1>1, <1>4, <1>7, <1>10, <2>1 DEF Holds
<1> QED BY <1>9, <1>10

LEMMA OpenedIs ==
  ASSUME NEW h, NEW s \in Seq(Byte),
         NEW f \in {String(NoNul(s)), Script(s), [Script(s) EXCEPT !.nonul = TRUE]}
  PROVE  Holds(h, f, s)
<1>1. \A b \in Seq(Byte) : At(0, Len(b)) \in Point
  <2> SUFFICES ASSUME NEW b \in Seq(Byte) PROVE At(0, Len(b)) \in Point
    OBVIOUS
  <2>1. Len(b) \in Nat
    BY LenProperties
  <2>2. "\n" \in Returned
    BY DEF Returned, Byte
  <2> QED BY <2>1, <2>2 DEF At, Point
<1>2. NoNul(s) \in Seq(Byte) /\ <<>> \in Seq(Byte) /\ <<>> \in Seq(PushedString) /\ Len(<<>>) = 0
  BY NoNulType, EmptySeq
<1>3. \A b \in Seq(Byte) :
        /\ String(b) \in ParseFile /\ String(b).push = <<>> /\ String(b).lleft = 0 /\ String(b).kernel = <<>>
        /\ String(b).buf = b /\ String(b).p = At(0, Len(b)) /\ ~String(b).fd
  BY <1>1, <1>2 DEF String, ParseFile
<1>4. \A n : /\ At(0, n).cell = 0 /\ At(0, n).next = 1 /\ At(0, n).left = n /\ At(0, n).unget = 0
             /\ At(0, n).lastc[1] = "\n"
  BY DEF At
<1>5. CASE f = String(NoNul(s))
  <2>1. PICK b : b = NoNul(s)
    OBVIOUS
  <2>2. /\ f \in ParseFile /\ f.push = <<>> /\ f.lleft = 0 /\ f.kernel = <<>> /\ f.buf = b /\ f.p = At(0, Len(b))
    BY <1>2, <1>3, <1>5, <2>1
  <2> QED BY <1>4, <2>1, <2>2, HoldsIs
<1>6. CASE f = Script(s) \/ f = [Script(s) EXCEPT !.nonul = TRUE]
  <2>1. /\ f \in ParseFile /\ f.push = <<>> /\ f.lleft = 0 /\ f.kernel = s /\ f.buf = <<>>
        /\ f.p = At(0, 0) /\ f.fd
    <3>1. PICK g : g = String(<<>>)
      OBVIOUS
    <3>2. g \in ParseFile /\ g.push = <<>> /\ g.lleft = 0 /\ g.buf = <<>> /\ g.p = At(0, 0)
      BY <1>2, <1>3, <3>1
    <3>3. PICK k : k = [g EXCEPT !.fd = TRUE, !.kernel = s]
      OBVIOUS
    <3>4. k \in ParseFile /\ k.push = <<>> /\ k.lleft = 0 /\ k.kernel = s /\ k.buf = <<>> /\ k.p = At(0, 0) /\ k.fd
      BY ONLY <3>2, <3>3, s \in Seq(Byte) DEF ParseFile
    <3>5. f = k \/ f = [k EXCEPT !.nonul = TRUE]
      BY <1>6, <3>1, <3>3 DEF Script
    <3> QED BY ONLY <3>4, <3>5 DEF ParseFile
  <2> QED BY <1>2, <1>4, <2>1, HoldsIs
<1> QED BY <1>5, <1>6

\* A sequence is put together of its parts.
LEMMA SplitIs ==
  ASSUME NEW T, NEW s \in Seq(T), NEW k \in 0 .. Len(s)
  PROVE  /\ SubSeq(s, 1, k) \in Seq(T) /\ Len(SubSeq(s, 1, k)) = k
         /\ SubSeq(s, k + 1, Len(s)) \in Seq(T)
         /\ SubSeq(s, 1, k) \o SubSeq(s, k + 1, Len(s)) = s
<1>1. PICK n, m, a, b : n = Len(s) /\ m = k + 1 /\ a = SubSeq(s, 1, k) /\ b = SubSeq(s, m, n)
  OBVIOUS
<1>2. /\ n \in Nat /\ k \in Int /\ k <= Len(s) /\ n <= Len(s) /\ n \in Int /\ m \in Nat \ {0} /\ 1 \in Nat \ {0}
      /\ k - 1 + 1 = k /\ (1 <= k \/ k = 0) /\ n - m + 1 = n - k /\ (m <= n \/ n - k = 0)
  BY <1>1, LenProperties
<1>3. a \in Seq(T) /\ Len(a) = k /\ \A i \in 1 .. k : a[i] = s[i]
  <2>1. /\ a \in Seq(T) /\ Len(a) = (IF 1 <= k THEN k - 1 + 1 ELSE 0)
        /\ \A i \in 1 .. k - 1 + 1 : a[i] = s[1 + i - 1]
    BY ONLY <1>1, <1>2, s \in Seq(T), SliceIs
  <2>2. \A i \in 1 .. k : 1 + i - 1 = i
    OBVIOUS
  <2> QED BY <1>2, <2>1, <2>2
<1>4. b \in Seq(T) /\ Len(b) = n - k /\ \A i \in 1 .. n - k : b[i] = s[m + i - 1]
  <2>1. /\ b \in Seq(T) /\ Len(b) = (IF m <= n THEN n - m + 1 ELSE 0)
        /\ \A i \in 1 .. n - m + 1 : b[i] = s[m + i - 1]
    BY ONLY <1>1, <1>2, s \in Seq(T), SliceIs
  <2> QED BY ONLY <1>2, <2>1
<1>5. PICK c : c = a \o b
  OBVIOUS
<1>6. k + (n - k) = n
  BY <1>2
<1>7. c \in Seq(T) /\ Len(c) = n /\ \A i \in 1 .. n : c[i] = IF i <= k THEN a[i] ELSE b[i - k]
  <2>1. /\ a \o b \in Seq(T) /\ Len(a \o b) = Len(a) + Len(b)
        /\ \A i \in 1 .. Len(a) + Len(b) : (a \o b)[i] = IF i <= Len(a) THEN a[i] ELSE b[i - Len(a)]
    BY ONLY <1>3, <1>4, ConcatProperties
  <2> QED BY ONLY <1>3, <1>4, <1>5, <1>6, <2>1
<1>8. ASSUME NEW i \in 1 .. n PROVE c[i] = s[i]
  <2>1. CASE i <= k
    <3>1. i \in 1 .. k
      BY <2>1
    <3> QED BY <1>3, <1>7, <2>1, <3>1
  <2>2. CASE ~(i <= k)
    <3>1. PICK j : j = i - k
      OBVIOUS
    <3>2. j \in 1 .. n - k /\ m + j - 1 = i
      BY <1>1, <1>2, <2>2, <3>1
    <3> QED BY <1>4, <1>7, <2>2, <3>1, <3>2
  <2> QED BY <2>1, <2>2
<1>9. c = s
  BY ONLY <1>1, <1>7, <1>8, s \in Seq(T), SeqEqual
<1> QED BY <1>1, <1>3, <1>4, <1>5, <1>9

LEMMA LineLength ==
  ASSUME NEW T, NEW s \in Seq(T)
  PROVE  \E k \in 0 .. Len(s) : Line(s) = SubSeq(s, 1, k)
<1>1. PICK ends : ends = {i \in DOMAIN s : s[i] = "\n"}
  OBVIOUS
<1>2. Len(s) \in Nat /\ ends \in SUBSET Nat /\ \A i \in ends : i \in 0 .. Len(s)
  BY <1>1, LenProperties
<1>3. Line(s) = SubSeq(s, 1, IF ends = {} THEN Len(s) ELSE Min(ends))
  BY <1>1 DEF Line
<1>4. CASE ends = {}
  <2>1. Len(s) \in 0 .. Len(s)
    BY <1>2
  <2> QED BY <1>3, <1>4, <2>1
<1>5. CASE ends # {}
  <2>1. Min(ends) \in ends
    BY <1>2, <1>5, MinIs DEF MinOf
  <2> QED BY <1>2, <1>3, <1>5, <2>1
<1> QED BY <1>4, <1>5

\* g holds what f holds, and its place is the first of its buffer.
Fills(h, f, g) ==
  /\ g \in ParseFile /\ Placed(h, g) /\ g.push = <<>> /\ All(h, g) = All(h, f)
  /\ g.p.unget = 0 /\ g.p.lastc = f.p.lastc /\ g.p.cell = 0

LEMMA ReadyIs ==
  ASSUME NEW h, NEW f \in ParseFile, Placed(h, f), f.push = <<>>, f.fd, f.p.unget = 0, f.p.left = 0,
         f.p.lastc[1] # "EOF", NEW s \in Seq(Byte), NEW kernel \in Seq(Byte), Unseen(f) = s \o kernel
  PROVE  Fills(h, f, Ready(f, s, kernel))
<1>1. PICK k \in 0 .. Len(s) : Line(s) = SubSeq(s, 1, k)
  BY LineLength
<1>2. PICK l, after, line : l = SubSeq(s, 1, k) /\ after = SubSeq(s, k + 1, Len(s)) /\ line = NoNul(l)
  OBVIOUS
<1>3. l \in Seq(Byte) /\ Len(l) = k /\ after \in Seq(Byte) /\ l \o after = s
  <2>1. k \in 0 .. Len(s) /\ s \in Seq(Byte)
    BY <1>1
  <2>2. /\ SubSeq(s, 1, k) \in Seq(Byte) /\ Len(SubSeq(s, 1, k)) = k
        /\ SubSeq(s, k + 1, Len(s)) \in Seq(Byte)
        /\ SubSeq(s, 1, k) \o SubSeq(s, k + 1, Len(s)) = s
    BY ONLY <2>1, SplitIs
  <2> QED BY ONLY <1>2, <2>2
<1>4. line \in Seq(Byte)
  BY <1>2, <1>3, NoNulType
<1>5. PICK m \in Nat, n \in Nat : m = Len(line) /\ n = Len(after)
  BY <1>3, <1>4, LenProperties
<1>6. PICK b : b = line \o after
  OBVIOUS
<1>7. /\ b \in Seq(Byte) /\ Len(b) = m + n
      /\ \A i \in 1 .. m + n : b[i] = IF i <= m THEN line[i] ELSE after[i - m]
  BY <1>3, <1>4, <1>5, <1>6, ConcatProperties
<1>8. PICK g : g = Ready(f, s, kernel)
  OBVIOUS
<1>9. g = [f EXCEPT !.kernel = kernel, !.buf = b, !.lleft = n, !.nonul = FALSE, !.p.next = 1, !.p.left = m]
  <2>1. Len(Line(s)) = k
    BY <1>1, <1>2, <1>3
  <2>2. NoNul(Line(s)) = line
    BY <1>1, <1>2
  <2>3. SubSeq(s, Len(Line(s)) + 1, Len(s)) = after
    BY <1>2, <2>1
  <2> QED BY <1>5, <1>6, <1>8, <2>2, <2>3 DEF Ready
<1>10. PICK p, q : p = f.p /\ q = [p EXCEPT !.next = 1, !.left = m]
  OBVIOUS
<1>11. p \in Point /\ p.cell = 0
  BY <1>10, FileIs, LevelFits
<1>12. /\ q \in Point /\ q.cell = 0 /\ q.next = 1 /\ q.left = m /\ q.unget = p.unget /\ q.lastc = p.lastc
  <2>1. m \in Nat /\ 1 \in Nat \ {0} /\ q = [p EXCEPT !.next = 1, !.left = m]
    BY <1>5, <1>10
  <2> QED BY ONLY <1>11, <2>1 DEF Point
<1>13. /\ g \in ParseFile /\ g.kernel = kernel /\ g.buf = b /\ g.lleft = n /\ g.p = q /\ g.push = f.push /\ g.fd = f.fd
  <2>1. g = [f EXCEPT !.kernel = kernel, !.buf = b, !.lleft = n, !.nonul = FALSE, !.p = q]
    <3>1. "p" \in DOMAIN f /\ f.p \in Point
      BY DEF ParseFile
    <3> QED BY <1>9, <1>10, <3>1 DEF ParseFile, Point
  <2> QED BY <1>7, <1>12, <2>1 DEF ParseFile
<1>14. InFile(g, g.p)
  <2>1. 1 + m + n = m + n + 1 /\ q.lastc[1] # "EOF"
    BY <1>10, <1>12
  <2> QED BY ONLY <1>7, <1>12, <1>13, <2>1 DEF InFile
<1>15. /\ Placed(h, g) /\ Below(h, g) = NoNul(Unseen(g))
       /\ Unseen(g) = SubSeq(b, 1 + m, 1 + m + n - 1) \o kernel
  BY <1>12, <1>13, <1>14, NoStrings
\* The line is first, and what is after it is not changed.
<1>16. SubSeq(b, 1, m) = line
  <2>1. m \in 0 .. Len(b)
    BY <1>7
  <2>2. SubSeq(b, 1, m) \in Seq(Byte) /\ Len(SubSeq(b, 1, m)) = m
    BY <1>7, <2>1, SplitIs
  <2>3. m \in Int /\ m <= Len(b) /\ 1 \in Nat \ {0} /\ m - 1 + 1 = m /\ \A i \in 1 .. m : 1 + i - 1 = i
    BY <1>7
  <2>4. \A i \in 1 .. m - 1 + 1 : SubSeq(b, 1, m)[i] = b[1 + i - 1]
    BY ONLY <1>7, <2>3, SliceIs
  <2>5. ASSUME NEW i \in 1 .. m PROVE SubSeq(b, 1, m)[i] = line[i]
    <3>1. i \in 1 .. m + n /\ i <= m
      OBVIOUS
    <3>2. SubSeq(b, 1, m)[i] = b[i]
      BY <2>3, <2>4
    <3> QED BY <1>7, <3>1, <3>2
  <2> QED BY ONLY <1>4, <1>5, <2>2, <2>5, SeqEqual
<1>17. SubSeq(b, 1 + m, 1 + m + n - 1) = after
  <2>1. PICK u, e, c : u = 1 + m /\ e = m + n /\ c = SubSeq(b, u, e)
    OBVIOUS
  <2>2. u \in Nat \ {0} /\ e \in Int /\ e <= Len(b) /\ e - u + 1 = n /\ 1 + m + n - 1 = e /\ (u <= e \/ n = 0)
    BY <1>7, <2>1
  <2>3. /\ c \in Seq(Byte) /\ Len(c) = (IF u <= e THEN e - u + 1 ELSE 0)
        /\ \A i \in 1 .. e - u + 1 : c[i] = b[u + i - 1]
    BY ONLY <1>7, <2>1, <2>2, SliceIs
  <2>4. Len(c) = n
    BY ONLY <2>2, <2>3
  <2>5. ASSUME NEW i \in 1 .. n PROVE c[i] = after[i]
    <3>1. PICK j : j = u + i - 1
      OBVIOUS
    <3>2. j \in 1 .. m + n /\ ~(j <= m) /\ j - m = i
      <4>1. m \in Nat /\ n \in Nat /\ i \in 1 .. n /\ j = 1 + m + i - 1
        BY <2>1, <3>1
      <4> QED BY ONLY <4>1
    <3>3. c[i] = b[j]
      BY <2>2, <2>3, <3>1
    <3> QED BY <1>7, <3>2, <3>3
  <2>6. c = after
    BY ONLY <1>3, <1>5, <2>3, <2>4, <2>5, SeqEqual
  <2> QED BY <2>1, <2>2, <2>6
<1>18. Top(h, g) = line
  <2>1. Top(h, g) = SubSeq(g.buf, 1, g.p.left)
    <3>1. g \in ParseFile /\ Placed(h, g) /\ g.push = <<>> /\ g.p.unget = 0 /\ g.p.next = 1
      BY <1>10, <1>12, <1>13, <1>15
    <3> QED BY ONLY <3>1, LineIs
  <2> QED BY <1>12, <1>13, <1>16, <2>1
<1>19. All(h, g) = line \o NoNul(after \o kernel)
  BY <1>13, <1>15, <1>17, <1>18, AllIs
<1>20. NoNul(Unseen(f)) = line \o NoNul(after \o kernel)
  <2>1. Regroups(l, after, kernel)
    BY <1>3, ConcatRegroups
  <2>2. Unseen(f) = l \o (after \o kernel)
    BY <1>3, <2>1 DEF Regroups
  <2>3. after \o kernel \in Seq(Byte)
    BY <1>3, ConcatProperties
  <2>4. NoNul(l \o (after \o kernel)) = NoNul(l) \o NoNul(after \o kernel)
    BY ONLY <1>3, <2>3, NoNulConcat
  <2> QED BY <1>2, <2>2, <2>4
<1>21. All(h, f) = NoNul(Unseen(f))
  <2>1. PICK t : t = TextIn(h, f, f.p)
    OBVIOUS
  <2>2. Fits(t, f.p)
    BY <2>1, LevelFits
  <2>3. Top(h, f) = <<>>
    BY <2>1, <2>2, LeftNothing DEF Top
  <2>4. InFile(f, f.p)
    <3>1. f.p = Levels(f)[1]
      BY LevelFits
    <3> QED BY <3>1 DEF Placed
  <2>5. Below(h, f) = NoNul(Unseen(f))
    BY <2>4, NoStrings
  <2>6. <<>> \o NoNul(Unseen(f)) = NoNul(Unseen(f))
    BY UnseenIs, ConcatEmptySeq
  <2>7. All(h, f) = Top(h, f) \o Below(h, f)
    BY AllIs
  <2> QED BY <2>3, <2>5, <2>6, <2>7
<1> QED BY <1>8, <1>10, <1>12, <1>13, <1>15, <1>19, <1>20, <1>21 DEF Fills

\* A character is put back.
Unreads(h, f, g, c) ==
  /\ g \in ParseFile /\ Placed(h, g) /\ g.push = f.push /\ All(h, g) = Back(c) \o All(h, f)
  /\ g.p.unget = f.p.unget + 1 /\ g.p.lastc = f.p.lastc /\ g.p.cell = f.p.cell /\ g.p.next = f.p.next

LEMMA UnreadsIs ==
  ASSUME NEW h, NEW f \in ParseFile, Placed(h, f), f.p.unget < 2, f.p.cell = 0 \/ f.p.next > 2
  PROVE  Unreads(h, f, [f EXCEPT !.p.unget = @ + 1], f.p.lastc[f.p.unget + 1])
<1>1. PICK p, q, c, s : /\ p = f.p /\ q = [p EXCEPT !.unget = @ + 1] /\ c = p.lastc[p.unget + 1]
                        /\ s = TextIn(h, f, p)
  OBVIOUS
<1>2. p \in Point /\ p.next \in Nat /\ p.left \in Nat /\ p.unget \in {0, 1}
  <2>1. p \in Point /\ p.unget < 2
    BY <1>1, FileIs
  <2>2. p.next \in Nat /\ p.left \in Nat /\ p.unget \in 0 .. 2
    BY <2>1, PointIs
  <2> QED BY <2>1, <2>2
<1>3. /\ q \in Point /\ q.cell = p.cell /\ q.next = p.next /\ q.left = p.left /\ q.unget = p.unget + 1
      /\ q.lastc = p.lastc
  <2>1. p.unget + 1 \in 0 .. 2
    BY <1>2
  <2> QED BY ONLY <1>1, <1>2, <2>1 DEF Point
<1>4. PICK g : g = [f EXCEPT !.p.unget = @ + 1]
  OBVIOUS
<1>5. g = Moved(f, q)
  <2>1. g = [f EXCEPT !.p = [f.p EXCEPT !.unget = @ + 1]]
    BY <1>4 DEF ParseFile, Point
  <2> QED BY <1>1, <2>1 DEF Moved
<1>6. f.push = <<>> => (q.lastc[1] = "EOF" => q.left = 0 /\ f.lleft = 0 /\ f.kernel = <<>>)
  <2> SUFFICES ASSUME f.push = <<>>, q.lastc[1] = "EOF" PROVE q.left = 0 /\ f.lleft = 0 /\ f.kernel = <<>>
    OBVIOUS
  <2>1. p = Levels(f)[1]
    BY <1>1, LevelFits
  <2>2. InFile(f, p)
    BY <2>1 DEF Placed
  <2> QED BY <1>3, <2>2 DEF InFile
<1>7. f.push # <<>> => InText(h[f.p.cell], q)
  <2> SUFFICES ASSUME f.push # <<>> PROVE InText(h[f.p.cell], q)
    OBVIOUS
  <2>1. InText(h[f.p.cell], p) /\ f.p.cell # 0 /\ p.next > 2
    BY <1>1, LevelFits
  <2> QED BY <1>3, <2>1 DEF InText
<1>8. /\ g \in ParseFile /\ g.p = q /\ g.push = f.push /\ Placed(h, g) /\ Below(h, g) = Below(h, f)
      /\ TextIn(h, g, q) = s /\ Fits(s, q)
  <2>1. q.cell = f.p.cell /\ q.next + q.left = f.p.next + f.p.left
    BY <1>1, <1>3
  <2>2. /\ Moved(f, q) \in ParseFile /\ Moved(f, q).p = q /\ Moved(f, q).push = f.push
        /\ Placed(h, Moved(f, q)) /\ Below(h, Moved(f, q)) = Below(h, f)
        /\ TextIn(h, Moved(f, q), q) = TextIn(h, f, f.p)
        /\ Fits(TextIn(h, f, f.p), q)
    BY <1>3, <1>6, <1>7, <2>1, MovedIs
  <2> QED BY <1>1, <1>5, <2>2
<1>9. Left(s, q) = Back(c) \o Left(s, p)
  <2>1. Fits(s, p)
    BY <1>1, LevelFits
  <2>2. q.unget > 0 /\ p.unget = q.unget - 1 /\ p.next = q.next /\ p.left = q.left
        /\ p.lastc[1] = q.lastc[1] /\ c = q.lastc[q.unget]
    BY <1>1, <1>2, <1>3
  <2> QED BY ONLY <1>8, <2>1, <2>2, LeftBack
<1>10. PICK a, l, t : a = Back(c) /\ l = Below(h, f) /\ t = Top(h, f)
  OBVIOUS
<1>11. t = Left(s, p) /\ Top(h, g) = Left(s, q)
  BY <1>1, <1>8, <1>10 DEF Top
<1>12. /\ All(h, f) = t \o l /\ All(h, g) = (a \o t) \o l
       /\ t \in Seq(Chr) /\ l \in Seq(Chr)
  <2>1. All(h, f) = t \o l /\ t \in Seq(Chr) /\ l \in Seq(Chr)
    BY <1>10, AllIs
  <2>2. All(h, g) = Top(h, g) \o Below(h, g)
    BY <1>8, AllIs
  <2>3. Top(h, g) = a \o t
    BY <1>9, <1>10, <1>11
  <2> QED BY <1>8, <1>10, <2>1, <2>2, <2>3
<1>13. a \in Seq(Chr)
  <2>1. c \in Returned
    <3>1. p.lastc[1] \in Returned /\ p.lastc[2] \in Returned
      BY <1>2, PointIs
    <3>2. p.unget + 1 = 1 \/ p.unget + 1 = 2
      BY <1>2
    <3> QED BY <1>1, <3>1, <3>2
  <2> QED BY <1>10, <2>1, BackIs
<1>14. Regroups(a, t, l)
  BY <1>12, <1>13, ConcatRegroups
<1>15. All(h, g) = a \o All(h, f)
  BY ONLY <1>12, <1>14 DEF Regroups
<1> QED BY <1>1, <1>3, <1>4, <1>8, <1>10, <1>15 DEF Unreads

\* A string is popped.
Pops(h, f, g) ==
  /\ g \in ParseFile /\ Placed(h, g) /\ g.push = Front(f.push) /\ All(h, g) = All(h, f) /\ g.p.unget < 2

LEMMA PopsIs ==
  ASSUME NEW h, NEW f \in ParseFile, Placed(h, f), f.push # <<>>, f.p.unget = 0, f.p.left = 0
  PROVE  Pops(h, f, [f EXCEPT !.push = Front(@), !.p = Last(f.push).p])
<1>1. PICK n, s, sp, lo : n = Len(f.push) /\ s = f.push /\ sp = Last(s) /\ lo = Front(s)
  OBVIOUS
<1>2. s \in Seq(PushedString) /\ s # <<>>
  BY <1>1, FileIs
<1>3. /\ n \in Nat \ {0} /\ Len(lo) = n - 1 /\ sp = s[n] /\ (\A i \in 1 .. n - 1 : lo[i] = s[i])
      /\ lo \in Seq(PushedString) /\ n \in 1 .. n /\ sp \in PushedString /\ sp.p \in Point
  <2>1. IsSeq(s)
    BY <1>2, SeqIs
  <2>2. n \in Nat \ {0} /\ Len(lo) = n - 1 /\ sp = s[n] /\ \A i \in 1 .. n - 1 : lo[i] = s[i]
    BY <1>1, <1>2, <2>1, FrontIs
  <2>3. lo \in Seq(PushedString)
    BY <1>1, <1>2, FrontType
  <2>4. n \in 1 .. n
    BY <2>2
  <2>5. sp \in PushedString
    BY <1>1, <1>2, <2>2, <2>4, ElementOfSeq
  <2>6. sp.p \in Point
    BY <2>5 DEF PushedString
  <2> QED BY <2>2, <2>3, <2>4, <2>5, <2>6
<1>4. PICK g : g = [f EXCEPT !.push = Front(@), !.p = Last(f.push).p]
  OBVIOUS
<1>5. /\ g \in ParseFile /\ g.push = lo /\ g.p = sp.p /\ g.buf = f.buf /\ g.kernel = f.kernel
      /\ g.lleft = f.lleft /\ g.fd = f.fd
  <2>1. g = [f EXCEPT !.push = lo, !.p = sp.p]
    BY <1>1, <1>4
  <2> QED BY ONLY <1>3, <2>1, f \in ParseFile DEF ParseFile
<1>6. s = Append(lo, sp)
  <2>1. /\ Append(lo, sp) \in Seq(PushedString) /\ Len(Append(lo, sp)) = n - 1 + 1
        /\ Append(lo, sp)[n - 1 + 1] = sp /\ \A i \in 1 .. n - 1 : Append(lo, sp)[i] = lo[i]
    BY <1>3, AppendProperties
  <2>2. n - 1 + 1 = n
    BY <1>3
  <2>3. ASSUME NEW i \in 1 .. n PROVE Append(lo, sp)[i] = s[i]
    <3>1. CASE i = n
      BY <1>3, <2>1, <2>2, <3>1
    <3>2. CASE i # n
      <4>1. i \in 1 .. n - 1
        BY <1>3, <3>2
      <4> QED BY <1>3, <2>1, <4>1
    <3> QED BY <3>1, <3>2
  <2>4. Len(Append(lo, sp)) = n /\ Len(s) = n
    BY <1>1, <2>1, <2>2
  <2> QED BY ONLY <1>2, <2>1, <2>3, <2>4, SeqEqual
<1>7. \A i \in 1 .. n : Levels(f)[i] = f.push[i].p
  BY <1>1, LevelsAre
<1>8. Levels(g)[n] = sp.p /\ \A i \in 1 .. n - 1 : Levels(g)[i] = g.push[i].p
  <2>1. Levels(g)[Len(g.push) + 1] = g.p /\ \A i \in 1 .. Len(g.push) : Levels(g)[i] = g.push[i].p
    BY <1>5, LevelsAre
  <2>2. Len(g.push) = n - 1 /\ n - 1 + 1 = n
    BY <1>3, <1>5
  <2> QED BY <1>5, <2>1, <2>2
<1>9. ASSUME NEW i \in 1 .. n PROVE Levels(g)[i] = Levels(f)[i]
  <2>1. CASE i = n
    BY <1>1, <1>3, <1>7, <1>8, <2>1
  <2>2. CASE i # n
    <3>1. i \in 1 .. n - 1
      BY <1>3, <2>2
    <3> QED BY <1>1, <1>3, <1>5, <1>7, <1>8, <3>1
  <2> QED BY <2>1, <2>2
<1>10. Placed(h, g)
  <2>1. 1 \in 1 .. n
    BY <1>3
  <2>2. InFile(g, Levels(g)[1])
    <3>1. InFile(f, Levels(f)[1])
      BY DEF Placed
    <3> QED BY <1>5, <1>9, <2>1, <3>1 DEF InFile
  <2>3. ASSUME NEW i \in 1 .. n - 1
        PROVE  /\ Levels(g)[i + 1].cell = g.push[i].string /\ AliasText(h[g.push[i].string])
               /\ InText(h[g.push[i].string], Levels(g)[i + 1]) /\ g.push[i].p.unget < 2
    <3>1. i \in 1 .. n /\ i + 1 \in 1 .. n
      BY <1>3
    <3>2. /\ Levels(f)[i + 1].cell = f.push[i].string /\ AliasText(h[f.push[i].string])
          /\ InText(h[f.push[i].string], Levels(f)[i + 1]) /\ f.push[i].p.unget < 2
      BY <1>1, <3>1 DEF Placed
    <3>3. g.push[i] = f.push[i] /\ Levels(g)[i + 1] = Levels(f)[i + 1]
      BY <1>1, <1>3, <1>5, <1>9, <3>1
    <3> QED BY <3>2, <3>3
  <2>4. ~g.fd => g.lleft = 0 /\ g.kernel = <<>>
    BY <1>5 DEF Placed
  <2>5. Len(g.push) = n - 1
    BY <1>3, <1>5
  <2> QED BY <2>2, <2>3, <2>4, <2>5 DEF Placed
<1>11. Below(h, f) = All(h, g)
  <2>1. f.push = Append(g.push, sp) /\ sp.p = g.p /\ f.buf = g.buf /\ f.kernel = g.kernel /\ f.lleft = g.lleft
    BY <1>1, <1>5, <1>6
  <2> QED BY ONLY <1>5, <1>10, <2>1, f \in ParseFile, Placed(h, f), OneMore
<1>12. All(h, f) = Below(h, f)
  <2>1. PICK t : t = TextIn(h, f, f.p)
    OBVIOUS
  <2>2. Fits(t, f.p)
    BY <2>1, LevelFits
  <2>3. Top(h, f) = <<>>
    BY <2>1, <2>2, LeftNothing DEF Top
  <2>4. All(h, f) = Top(h, f) \o Below(h, f) /\ Below(h, f) \in Seq(Chr)
    BY AllIs
  <2>5. <<>> \o Below(h, f) = Below(h, f)
    BY <2>4, ConcatEmptySeq
  <2> QED BY <2>3, <2>4, <2>5
<1>13. g.p.unget < 2
  <2>1. f.push[n].p.unget < 2
    BY <1>1, <1>3 DEF Placed
  <2> QED BY <1>1, <1>3, <1>5, <2>1
<1> QED BY <1>1, <1>4, <1>5, <1>10, <1>11, <1>12, <1>13 DEF Pops

\* A string is pushed, which starts behind its "=".
Pushes(h, f, g, sp) ==
  /\ g \in ParseFile /\ Placed(h, g) /\ g.push = Append(f.push, sp) /\ g.p.unget = 0
  /\ \E t \in Contents : All(h, g) = t \o All(h, f)

LEMMA PushesIs ==
  ASSUME NEW h, NEW f \in ParseFile, Placed(h, f), f.p.unget < 2,
         NEW n \in Names, NEW cell \in Cells, AliasText(h[cell]),
         NEW sp, sp = [ap |-> n, string |-> cell, p |-> f.p]
  PROVE  Pushes(h, f, [f EXCEPT !.push = Append(@, sp),
                                !.p = [At(cell, Len(h[cell]) - 1) EXCEPT !.lastc = f.p.lastc]], sp)
<1>1. PICK s, p, q, k : /\ s = h[cell] /\ p = f.p /\ q = [At(cell, Len(s) - 1) EXCEPT !.lastc = p.lastc]
                        /\ k = Len(f.push)
  OBVIOUS
<1>2. /\ s \in Seq(Chr) /\ Len(s) \in Nat \ {0} /\ SubSeq(s, 2, Len(s)) \in Values
  BY <1>1, AliasTextIs
<1>3. p \in Point /\ p.lastc \in Returned \X Returned
  BY <1>1, FileIs, PointIs
<1>4. cell # 0
  BY InputAssumption
<1>5. /\ q \in Point /\ q.cell = cell /\ q.next = 2 /\ q.left = Len(s) - 1 /\ q.unget = 0
  <2>1. q = [cell |-> cell, next |-> 2, left |-> Len(s) - 1, lastc |-> p.lastc, unget |-> 0]
    BY <1>1, <1>4 DEF At
  <2>2. Len(s) - 1 \in Nat
    BY <1>2
  <2> QED BY ONLY <1>3, <2>1, <2>2, cell \in Cells DEF Point
<1>6. PICK g : g = [f EXCEPT !.push = Append(@, sp),
                             !.p = [At(cell, Len(h[cell]) - 1) EXCEPT !.lastc = f.p.lastc]]
  OBVIOUS
<1>7. sp \in PushedString
  BY <1>1, <1>3 DEF PushedString
<1>8. /\ k \in Nat /\ Append(f.push, sp) \in Seq(PushedString) /\ Len(Append(f.push, sp)) = k + 1
      /\ Append(f.push, sp)[k + 1] = sp /\ \A i \in 1 .. k : Append(f.push, sp)[i] = f.push[i]
  <2>1. f.push \in Seq(PushedString)
    BY FileIs
  <2> QED BY <1>1, <1>7, <2>1, LenProperties, AppendProperties
<1>9. /\ g \in ParseFile /\ g.push = Append(f.push, sp) /\ g.p = q /\ g.buf = f.buf /\ g.kernel = f.kernel
      /\ g.lleft = f.lleft /\ g.fd = f.fd
  <2>1. g = [f EXCEPT !.push = Append(f.push, sp), !.p = q]
    BY <1>1, <1>6
  <2> QED BY ONLY <1>5, <1>8, <2>1, f \in ParseFile DEF ParseFile
<1>10. /\ Levels(f)[k + 1] = p /\ \A i \in 1 .. k : Levels(f)[i] = f.push[i].p
  BY <1>1, LevelsAre
<1>11. /\ Levels(g)[k + 2] = q /\ \A i \in 1 .. k + 1 : Levels(g)[i] = g.push[i].p
  <2>1. Levels(g)[Len(g.push) + 1] = g.p /\ \A i \in 1 .. Len(g.push) : Levels(g)[i] = g.push[i].p
    BY <1>9, LevelsAre
  <2>2. Len(g.push) = k + 1 /\ k + 1 + 1 = k + 2
    BY <1>8, <1>9
  <2> QED BY <1>9, <2>1, <2>2
<1>12. ASSUME NEW i \in 1 .. k + 1 PROVE Levels(g)[i] = Levels(f)[i]
  <2>1. CASE i = k + 1
    BY <1>1, <1>8, <1>9, <1>10, <1>11, <2>1
  <2>2. CASE i # k + 1
    <3>1. i \in 1 .. k
      BY <1>8, <2>2
    <3> QED BY <1>8, <1>9, <1>10, <1>11, <3>1
  <2> QED BY <2>1, <2>2
<1>13. Placed(h, g)
  <2>1. 1 \in 1 .. k + 1
    BY <1>8
  <2>2. InFile(g, Levels(g)[1])
    <3>1. InFile(f, Levels(f)[1])
      BY DEF Placed
    <3> QED BY <1>9, <1>12, <2>1, <3>1 DEF InFile
  <2>3. ASSUME NEW i \in 1 .. k + 1
        PROVE  /\ Levels(g)[i + 1].cell = g.push[i].string /\ AliasText(h[g.push[i].string])
               /\ InText(h[g.push[i].string], Levels(g)[i + 1]) /\ g.push[i].p.unget < 2
    <3>1. CASE i = k + 1
      <4>1. g.push[i] = sp /\ Levels(g)[i + 1] = q
        <5>1. k + 1 + 1 = k + 2
          BY <1>8
        <5> QED BY <1>8, <1>9, <1>11, <3>1, <5>1
      <4>2. InText(s, q)
        <5>1. 2 + (Len(s) - 1) = Len(s) + 1
          BY <1>2
        <5> QED BY ONLY <1>5, <5>1 DEF InText
      <4> QED BY <1>1, <1>5, <4>1, <4>2
    <3>2. CASE i # k + 1
      <4>1. i \in 1 .. k /\ i + 1 \in 1 .. k + 1
        BY <1>8, <3>2
      <4>2. /\ Levels(f)[i + 1].cell = f.push[i].string /\ AliasText(h[f.push[i].string])
            /\ InText(h[f.push[i].string], Levels(f)[i + 1]) /\ f.push[i].p.unget < 2
        BY <1>1, <4>1 DEF Placed
      <4>3. g.push[i] = f.push[i] /\ Levels(g)[i + 1] = Levels(f)[i + 1]
        BY <1>8, <1>9, <1>12, <4>1
      <4> QED BY <4>2, <4>3
    <3> QED BY <3>1, <3>2
  <2>4. ~g.fd => g.lleft = 0 /\ g.kernel = <<>>
    BY <1>9 DEF Placed
  <2>5. Len(g.push) = k + 1
    BY <1>8, <1>9
  <2> QED BY <2>2, <2>3, <2>4, <2>5 DEF Placed
<1>14. Below(h, g) = All(h, f)
  <2>1. g.push = Append(f.push, sp) /\ sp.p = f.p
    BY <1>9
  <2> QED BY <1>9, <1>13, <2>1, OneMore
<1>15. PICK t : t = SubSeq(s, 2, Len(s))
  OBVIOUS
<1>16. Top(h, g) = t
  <2>1. TextIn(h, g, q) = s
    BY <1>1, <1>4, <1>5 DEF TextIn
  <2>2. Fits(s, q)
    <3>1. Fits(TextIn(h, g, g.p), g.p)
      BY <1>9, <1>13, LevelFits
    <3> QED BY <1>9, <2>1, <3>1
  <2>3. Forms(s, q, SubSeq(s, q.next, q.next + q.left - 1))
    BY ONLY <2>2, LeftForms
  <2>4. q.next + q.left - 1 = Len(s)
    BY <1>2, <1>5
  <2>5. Left(s, q) = t
    BY <1>5, <1>15, <2>3, <2>4 DEF Forms
  <2> QED BY <1>9, <2>1, <2>5 DEF Top
<1>17. t \in Contents
  <2>1. t \in Values
    BY <1>2, <1>15
  <2>2. t \in Seq(Byte \ {"0"}) /\ "0" \notin Byte \ {"0"}
    BY <2>1, Chars
  <2>3. NoNul(t) = t
    BY ONLY <2>2, NoNulSame
  <2> QED BY <2>1, <2>3 DEF Contents
<1>18. All(h, g) = t \o All(h, f)
  <2>1. All(h, g) = Top(h, g) \o Below(h, g)
    BY <1>9, <1>13, AllIs
  <2> QED BY <1>14, <1>16, <2>1
<1> QED BY <1>5, <1>6, <1>9, <1>13, <1>17, <1>18 DEF Pushes

(***************************************************************************)
(* The texts that are being read stay as they are.                         *)
(***************************************************************************)

Keeps == (\A sp \in Pushed(files') : heap'[sp.string] = heap[sp.string]) /\ Saved(heap')

LEMMA HeapIs ==
  InputInv => /\ DOMAIN heap = Cells /\ \A c \in Cells : 1 \in DOMAIN heap[c]
              /\ \A sp \in Pushed(files) : sp.string \in Cells /\ heap[sp.string][1] # "free"
              /\ \A n \in Defined : aliases[n].cell \in Cells /\ heap[aliases[n].cell][1] # "free"
<1> SUFFICES ASSUME InputInv
             PROVE  /\ DOMAIN heap = Cells /\ \A c \in Cells : 1 \in DOMAIN heap[c]
                    /\ \A sp \in Pushed(files) : sp.string \in Cells /\ heap[sp.string][1] # "free"
                    /\ \A n \in Defined : aliases[n].cell \in Cells /\ heap[aliases[n].cell][1] # "free"
  OBVIOUS
<1>1. Texts(heap, aliases) /\ Used(Pushed(files), heap, aliases, aliasdone)
  BY DEF InputInv, MemoryOK
<1>2. \A n \in Defined : n \in Names /\ aliases[n].cell # 0
  BY DEF Defined
<1>3. \A n \in Names : aliases[n].cell \in Cells \cup {0}
  BY <1>1 DEF Texts, Alias
<1> QED BY <1>1, <1>2, <1>3 DEF Texts, Used

\* What is freed is neither read any more nor the text of an alias.
LEMMA FreedKeeps ==
  ASSUME InputInv, InputInv', Saved(heap), NEW cs, heap' = Freed(cs)
  PROVE  Keeps
<1>1. DOMAIN heap = Cells /\ \A c \in Cells : 1 \in DOMAIN heap[c]
  BY HeapIs
<1>2. ASSUME NEW c \in Cells, heap'[c][1] # "free" PROVE heap'[c] = heap[c]
  <2>1. CASE c \in cs
    <3>1. heap'[c] = [i \in DOMAIN heap[c] |-> "free"]
      BY <2>1 DEF Freed
    <3> QED BY <1>1, <1>2, <3>1
  <2>2. CASE c \notin cs
    BY <2>2 DEF Freed
  <2> QED BY <2>1, <2>2
<1>3. \A sp \in Pushed(files') : sp.string \in Cells /\ heap'[sp.string][1] # "free"
  <2>1. Used(Pushed(files'), heap', aliases', aliasdone')
    BY DEF InputInv, MemoryOK
  <2> QED BY <2>1 DEF Used
<1>4. Saved(heap')
  BY <1>2 DEF Saved
<1> QED BY <1>2, <1>3, <1>4 DEF Keeps

LEMMA SameKeeps ==
  ASSUME Saved(heap), heap' = heap
  PROVE  Keeps
BY DEF Keeps

\* A new text is put where nothing is read.
LEMMA SetKeeps ==
  ASSUME InputInv, Saved(heap), NEW n \in Names, NEW v \in Values, setalias(n, v), files' = files
  PROVE  Keeps
<1>1. /\ DOMAIN heap = Cells /\ \A c \in Cells : 1 \in DOMAIN heap[c]
      /\ \A sp \in Pushed(files) : sp.string \in Cells /\ heap[sp.string][1] # "free"
  BY HeapIs
<1>2. PICK new \in Cells : new = Min(FreeCells) /\ heap[new][1] = "free"
  BY FreeIs DEF setalias
<1>3. PICK old : old = IF aliases[n].inuse THEN {} ELSE {aliases[n].cell}
  OBVIOUS
<1>4. heap' = [Freed(old) EXCEPT ![new] = <<"=">> \o v]
  BY <1>2, <1>3 DEF setalias
<1>5. heap'[new] = <<"=">> \o v /\ \A c \in Cells : c # new => heap'[c] = Freed(old)[c]
  BY <1>4 DEF Freed
<1>6. \A c \in Cells : c \notin old => Freed(old)[c] = heap[c]
  BY <1>1, FreedIs
<1>7. ASSUME NEW c \in Cells, c # new, heap'[c][1] # "free" PROVE heap'[c] = heap[c]
  <2>1. CASE c \in old
    <3>1. heap'[c] = [i \in DOMAIN heap[c] |-> "free"]
      BY <1>5, <1>7, <2>1 DEF Freed
    <3> QED BY <1>1, <1>7, <3>1
  <2>2. CASE c \notin old
    BY <1>5, <1>6, <1>7, <2>2
  <2> QED BY <2>1, <2>2
<1>8. Saved(heap')
  <2> SUFFICES ASSUME NEW c \in Cells, heap'[c][1] # "free" PROVE AliasText(heap'[c])
    BY DEF Saved
  <2>1. CASE c = new
    BY <1>5, <2>1 DEF AliasText
  <2>2. CASE c # new
    BY <1>7, <2>2 DEF Saved
  <2> QED BY <2>1, <2>2
<1>9. ASSUME NEW sp \in Pushed(files) PROVE heap'[sp.string] = heap[sp.string]
  <2>1. sp.string \in Cells /\ heap[sp.string][1] # "free" /\ sp.string # new
    BY <1>1, <1>2
  <2>2. sp.string \notin old
    <3> SUFFICES ASSUME sp.string \in old PROVE FALSE
      OBVIOUS
    <3>1. ~aliases[n].inuse /\ aliases[n].cell = sp.string
      BY <1>3
    <3>2. Used(Pushed(files), heap, aliases, aliasdone)
      BY DEF InputInv, MemoryOK
    <3>3. n = sp.ap
      BY <3>1, <3>2 DEF Used
    <3>4. sp.ap \in {sq.ap : sq \in Pushed(files)}
      OBVIOUS
    <3> QED BY <3>1, <3>2, <3>3, <3>4 DEF Used
  <2> QED BY <1>5, <1>6, <2>1, <2>2
<1> QED BY <1>8, <1>9 DEF Keeps

\* What the files hold is said with the memory there was.
InPlace(fs) ==
  /\ Sound(heap, fs) /\ fs # <<>>
  /\ \A i \in 1 .. Len(fs) - 1 : fs[i].p.unget < 2

LEMMA PlacesAre ==
  ASSUME InputInv, PlacesInv
  PROVE  /\ InPlace(files) /\ Saved(heap) /\ Len(files) \in Nat \ {0}
         /\ File = files[Len(files)] /\ File \in ParseFile /\ Placed(heap, File) /\ Len(files) \in 1 .. Len(files)
         /\ Remaining = Remain(heap, files) /\ Remaining \in Seq(Seq(Chr)) /\ Remaining # <<>>
         /\ Len(Remaining) = Len(files) /\ Remaining[Len(files)] = All(heap, File)
<1>1. /\ files \in Seq(ParseFile) /\ (\A i \in 1 .. Len(files) : Placed(heap, files[i]))
      /\ Sound(heap, files) /\ (\A i \in 1 .. Len(files) - 1 : files[i].p.unget < 2) /\ Saved(heap)
  BY DEF PlacesInv, AllPlaced, Sound
<1>2. /\ Len(files) \in Nat \ {0} /\ DOMAIN files = 1 .. Len(files) /\ File = files[Len(files)]
  BY StackedIs DEF InputInv, File
<1>3. Len(files) \in 1 .. Len(files) /\ files # <<>>
  BY <1>2, EmptySeq
<1>4. File \in ParseFile /\ Placed(heap, File)
  <2>1. files[Len(files)] \in ParseFile
    BY <1>1, <1>3, ElementOfSeq
  <2> QED BY <1>1, <1>2, <1>3, <2>1
<1>5. Remaining = Remain(heap, files)
  BY <1>2, RemainingIs
<1>6. /\ Remain(heap, files) \in Seq(Seq(Chr)) /\ Len(Remain(heap, files)) = Len(files)
      /\ \A i \in 1 .. Len(files) : Remain(heap, files)[i] = All(heap, files[i])
  BY <1>1, RemainIs
<1>7. Remain(heap, files) # <<>>
  BY <1>2, <1>6, EmptySeq
<1> QED BY <1>1, <1>2, <1>3, <1>4, <1>5, <1>6, <1>7 DEF InPlace

LEMMA Carried ==
  ASSUME InputInv', Keeps, InPlace(files')
  PROVE  AllPlaced(heap', files') /\ Saved(heap') /\ Remaining' = Remain(heap, files')
<1>1. PICK h, fs, k : h = heap /\ fs = files' /\ k = heap'
  OBVIOUS
<1>2. Stacked(fs)
  BY <1>1 DEF InputInv
<1>3. DOMAIN files' = 1 .. Len(files')
  BY <1>1, <1>2, StackedIs
<1>4. /\ fs \in Seq(ParseFile) /\ (\A i \in 1 .. Len(fs) : Placed(h, fs[i]))
      /\ \A i \in 1 .. Len(fs) - 1 : fs[i].p.unget < 2
  BY <1>1 DEF InPlace, Sound
<1>5. \A i \in 1 .. Len(fs) : \A j \in 1 .. Len(fs[i].push) : k[fs[i].push[j].string] = h[fs[i].push[j].string]
  <2> TAKE i \in 1 .. Len(fs)
  <2> TAKE j \in 1 .. Len(fs[i].push)
  <2>1. i \in DOMAIN fs /\ j \in DOMAIN fs[i].push
    BY <1>2, StackedIs
  <2>2. fs[i].push[j] \in Pushed(fs)
    BY <2>1, PushedIs
  <2> QED BY <1>1, <2>2 DEF Keeps
<1>6. (\A i \in 1 .. Len(fs) : Placed(k, fs[i])) /\ Remain(k, fs) = Remain(h, fs)
  BY <1>4, <1>5, RemainSame
<1>7. Remaining' = Remain(k, fs)
  BY <1>1, <1>3, RemainingNext
<1> QED BY <1>1, <1>4, <1>6, <1>7 DEF AllPlaced, Keeps

(***************************************************************************)
(* What each action does to the files and to what remains of them.         *)
(***************************************************************************)

Settled == AllPlaced(heap', files') /\ Saved(heap')

LEMMA FileReplaced ==
  ASSUME InputInv, PlacesInv, NEW g \in ParseFile, Placed(heap, g), files' = With(files, g)
  PROVE  /\ InPlace(files') /\ File' = g
         /\ Remain(heap, files') = Becomes(Remaining, All(heap, g))
<1>1. PICK h, fs, n : h = heap /\ fs = files /\ n = Len(files)
  OBVIOUS
<1>2. /\ Sound(h, fs) /\ fs # <<>>
      /\ (\A i \in 1 .. n - 1 : fs[i].p.unget < 2) /\ n \in Nat \ {0}
      /\ Remaining = Remain(h, fs) /\ Len(Remaining) = n /\ n = Len(fs)
  BY <1>1, PlacesAre DEF InPlace
<1>3. PICK gs : gs = With(fs, g)
  OBVIOUS
<1>4. /\ Sound(h, gs) /\ Len(gs) = n /\ gs[n] = g /\ (\A i \in 1 .. n - 1 : gs[i] = fs[i])
      /\ Remain(h, gs) = [Remain(h, fs) EXCEPT ![n] = All(h, g)]
  BY <1>1, <1>2, <1>3, RemainWith
<1>5. gs # <<>>
  BY <1>2, <1>4, EmptySeq
<1>6. files' = gs
  BY <1>1, <1>3
<1>7. InPlace(files')
  BY <1>1, <1>2, <1>4, <1>5, <1>6 DEF InPlace
<1>8. File' = g
  BY <1>4, <1>6 DEF File, Last
<1> QED BY <1>1, <1>2, <1>4, <1>6, <1>7, <1>8 DEF Becomes

LEMMA Stutters ==
  ASSUME InputInv, PlacesInv, InputInv', Keeps, UNCHANGED <<files, read>>
  PROVE  Settled /\ UNCHANGED S!vars /\ File' = File
<1>1. InPlace(files') /\ Remaining = Remain(heap, files)
  BY PlacesAre
<1>2. AllPlaced(heap', files') /\ Saved(heap') /\ Remaining' = Remain(heap, files')
  BY <1>1, Carried
<1>3. Remaining' = Remaining /\ read' = read
  BY <1>1, <1>2
<1>4. File' = File
  BY DEF File
<1> QED BY <1>2, <1>3, <1>4 DEF Settled, S!vars

\* pgetc takes a character.
Taken(c) ==
  /\ Settled /\ S!Take /\ Took(heap, File, File', c, popped)
  /\ read' \in Seq(Returned) /\ read' # <<>> /\ Last(read') = c
  /\ read # <<>> => Front(read') # <<>> /\ Last(Front(read')) = Last(read)

LEMMA PgetcTakes ==
  ASSUME InputInv, PlacesInv, InputInv', Keeps, NEW c, Pgetc(c)
  PROVE  Taken(c)
<1>1. PICK g, h, f : g = Got.f /\ h = heap /\ f = File
  OBVIOUS
<1>2. c = Got.c /\ files' = With(files, g) /\ read' = Recent(Append(read, c)) /\ (~Exhausted \/ AtEnd)
  BY <1>1 DEF Pgetc, SetFile, With
<1>3. f \in ParseFile /\ Placed(h, f) /\ Len(files) \in Nat \ {0}
  BY <1>1, PlacesAre
<1>4. read \in Seq(Returned) /\ (f.p.unget = 2 => ~popped /\ f.p.lastc[2] # "EOF")
  BY <1>1 DEF PlacesInv, Ahead
<1>5. Took(h, f, g, c, popped)
  BY <1>1, <1>2, <1>3, <1>4, GotIs
<1>6. /\ g \in ParseFile /\ Placed(h, g) /\ c \in Returned
      /\ \/ c = "EOF" /\ All(h, f) = <<>> /\ All(h, g) = <<>>
         \/ c # "EOF" /\ All(h, f) = <<c>> \o All(h, g)
  BY <1>5 DEF Took
<1>7. /\ InPlace(files') /\ File' = g /\ Remain(heap, files') = Becomes(Remaining, All(heap, g))
  BY <1>1, <1>2, <1>6, FileReplaced
<1>8. AllPlaced(heap', files') /\ Saved(heap') /\ Remaining' = Remain(heap, files')
  BY <1>7, Carried
<1>9. PICK r, u, x : r = Remaining /\ u = Remaining' /\ x = All(h, g)
  OBVIOUS
<1>10. r \in Seq(Seq(Chr)) /\ r # <<>> /\ r[Len(r)] = All(h, f) /\ u = Becomes(r, x) /\ x \in Seq(Chr)
  BY <1>1, <1>6, <1>7, <1>8, <1>9, PlacesAre, AllIs
<1>11. \/ c = "EOF" /\ r[Len(r)] = <<>> /\ x = <<>>
       \/ c # "EOF" /\ r[Len(r)] = <<c>> \o x
  BY <1>6, <1>9, <1>10
<1>12. S!Take
  BY <1>2, <1>6, <1>9, <1>10, <1>11, TakeIs
<1>13. /\ read' \in Seq(Returned) /\ read' # <<>> /\ Last(read') = c
       /\ read # <<>> => Front(read') # <<>> /\ Last(Front(read')) = Last(read)
  <2>1. PICK s, t : s = read /\ t = Recent(Append(s, c))
    OBVIOUS
  <2>2. s \in Seq(Returned) /\ c \in Returned
    BY <1>4, <1>6, <2>1
  <2>3. /\ t \in Seq(Returned) /\ t # <<>> /\ Last(t) = c
        /\ s # <<>> => Front(t) # <<>> /\ Last(Front(t)) = Last(s)
    BY <2>1, <2>2, RecentIs
  <2> QED BY <1>2, <2>1, <2>3
<1> QED BY <1>1, <1>5, <1>7, <1>8, <1>12, <1>13 DEF Taken, Settled

\* pungetc puts one back.
PutsBack ==
  /\ Settled /\ S!PutBack /\ read' \in Seq(Returned) /\ read' = Front(read)
  /\ File'.p.unget = File.p.unget + 1 /\ File'.p.lastc = File.p.lastc
  /\ File'.p.cell = File.p.cell /\ File'.p.next = File.p.next

LEMMA PungetcPutsBack ==
  ASSUME InputInv, PlacesInv, InputInv', Keeps, pungetc, File.p.unget < 2, AtLast(File.p, read)
  PROVE  PutsBack
<1>1. PICK h, f, g, c : h = heap /\ f = File /\ g = [f EXCEPT !.p.unget = @ + 1] /\ c = f.p.lastc[f.p.unget + 1]
  OBVIOUS
<1>2. f \in ParseFile /\ Placed(h, f) /\ f.p.unget < 2 /\ (f.p.cell = 0 \/ f.p.next > 2)
  BY <1>1, PlacesAre DEF AtLast
<1>3. files' = With(files, g) /\ read' = Front(read) /\ read # <<>> /\ Last(read) = c /\ read \in Seq(Returned)
  BY <1>1 DEF pungetc, SetFile, With, AtLast, PlacesInv, Ahead
<1>4. Unreads(h, f, g, c)
  BY <1>1, <1>2, UnreadsIs
<1>5. /\ g \in ParseFile /\ Placed(h, g) /\ All(h, g) = Back(c) \o All(h, f)
      /\ g.p.unget = f.p.unget + 1 /\ g.p.lastc = f.p.lastc /\ g.p.cell = f.p.cell /\ g.p.next = f.p.next
  BY <1>4 DEF Unreads
<1>6. InPlace(files') /\ File' = g /\ Remain(heap, files') = Becomes(Remaining, All(heap, g))
  BY <1>1, <1>3, <1>5, FileReplaced
<1>7. AllPlaced(heap', files') /\ Saved(heap') /\ Remaining' = Remain(heap, files')
  BY <1>6, Carried
<1>8. PICK r, u : r = Remaining /\ u = Remaining'
  OBVIOUS
<1>9. r \in Seq(Seq(Chr)) /\ r # <<>> /\ r[Len(r)] = All(h, f)
  BY <1>1, <1>8, PlacesAre
<1>10. u = Becomes(r, Back(c) \o r[Len(r)])
  BY <1>1, <1>5, <1>6, <1>7, <1>8, <1>9
<1>11. S!PutBack
  BY <1>3, <1>8, <1>9, <1>10, PutBackIs
<1>12. read' \in Seq(Returned)
  <2>1. PICK s : s = read
    OBVIOUS
  <2>2. Front(s) \in Seq(Returned)
    BY <1>3, <2>1, FrontType
  <2> QED BY <1>3, <2>1, <2>2
<1> QED BY <1>1, <1>3, <1>5, <1>6, <1>7, <1>11, <1>12 DEF PutsBack, Settled

\* The innermost file is replaced, but holds what it held.
LEMMA HoldsSame ==
  ASSUME InputInv, PlacesInv, InputInv', Keeps, NEW g \in ParseFile, Placed(heap, g),
         All(heap, g) = All(heap, File), files' = With(files, g), read' = read
  PROVE  Settled /\ UNCHANGED S!vars /\ File' = g
<1>1. InPlace(files') /\ File' = g /\ Remain(heap, files') = Becomes(Remaining, All(heap, g))
  BY FileReplaced
<1>2. AllPlaced(heap', files') /\ Saved(heap') /\ Remaining' = Remain(heap, files')
  BY <1>1, Carried
<1>3. PICK r : r = Remaining
  OBVIOUS
<1>4. r \in Seq(Seq(Chr)) /\ r # <<>> /\ r[Len(r)] = All(heap, File)
  BY <1>3, PlacesAre
<1>5. Becomes(r, r[Len(r)]) = r
  BY <1>4, BecomesSame
<1>6. Remaining' = Remaining
  BY <1>1, <1>2, <1>3, <1>4, <1>5
<1> QED BY <1>1, <1>2, <1>6 DEF Settled, S!vars

LEMMA popstringSame ==
  ASSUME InputInv, PlacesInv, InputInv', Keeps, popstring
  PROVE  Settled /\ UNCHANGED S!vars /\ File'.p.unget < 2
<1>1. PICK f, g : f = File /\ g = [f EXCEPT !.push = Front(@), !.p = Last(f.push).p]
  OBVIOUS
<1>2. /\ f.push # <<>> /\ f.p.unget = 0 /\ f.p.left = 0 /\ f \in ParseFile /\ Placed(heap, f)
      /\ files' = With(files, g) /\ read' = read
  BY <1>1, PlacesAre DEF popstring, Exhausted, SetFile, With
<1>3. PICK h : h = heap
  OBVIOUS
<1>4. Pops(h, f, g)
  <2>1. Placed(h, f)
    BY <1>2, <1>3
  <2> QED BY ONLY <1>1, <1>2, <2>1, PopsIs
<1>5. g \in ParseFile /\ Placed(heap, g) /\ All(heap, g) = All(heap, File) /\ g.p.unget < 2
  BY <1>1, <1>3, <1>4 DEF Pops
<1>6. Settled /\ UNCHANGED S!vars /\ File' = g
  BY <1>2, <1>5, HoldsSame
<1> QED BY <1>5, <1>6

\* A buffer is filled: the place is another, but what was returned is not.
LEMMA RefilledSame ==
  ASSUME InputInv, PlacesInv, InputInv', Keeps, NEW n, files' = SetFile(Refilled(File, n)), read' = read,
         n \in 1 .. (IF File.lleft > 0 THEN 1 ELSE Min({Chunk, Len(File.kernel)})),
         Exhausted, File.push = <<>>, File.fd, File.lleft > 0 \/ File.kernel # <<>>
  PROVE  /\ Settled /\ UNCHANGED S!vars
         /\ File'.p.unget = 0 /\ File'.p.lastc = File.p.lastc /\ File'.p.cell = 0
<1>1. PICK f, g, h : f = File /\ g = Refilled(f, n) /\ h = heap
  OBVIOUS
<1>2. /\ f \in ParseFile /\ Placed(h, f) /\ f.push = <<>> /\ f.fd /\ f.p.unget = 0 /\ f.p.left = 0
      /\ f.lleft > 0 \/ f.kernel # <<>>
  <2>1. File \in ParseFile /\ Placed(heap, File)
    BY PlacesAre
  <2>2. File.p.unget = 0 /\ File.p.left = 0
    BY DEF Exhausted
  <2> QED BY ONLY <1>1, <2>1, <2>2, File.push = <<>>, File.fd, File.lleft > 0 \/ File.kernel # <<>>
<1>3. /\ f.buf \in Seq(Byte) /\ f.kernel \in Seq(Byte) /\ f.lleft \in Nat /\ f.p.next \in Nat \ {0}
      /\ Len(f.buf) \in Nat /\ Len(f.kernel) \in Nat
  <2>1. /\ f.buf \in Seq(Byte) /\ f.kernel \in Seq(Byte) /\ f.lleft \in Nat /\ f.p \in Point
    BY <1>2, FileIs
  <2> QED BY <2>1, PointIs, LenProperties
<1>4. InFile(f, f.p) /\ f.p = Levels(f)[1]
  <2>1. f.p = Levels(f)[1]
    BY <1>2, LevelFits
  <2> QED BY <1>2, <2>1 DEF Placed
<1>5. f.p.lastc[1] # "EOF"
  BY <1>2, <1>4 DEF InFile
<1>6. PICK b, e : b = f.p.next /\ e = f.p.next + f.lleft - 1
  OBVIOUS
<1>7. f.p.next + f.p.left = b
  BY <1>2, <1>3, <1>6
<1>8. Unseen(f) = SubSeq(f.buf, b, e) \o f.kernel
  <2>1. ~f.fd => f.lleft = 0 /\ f.kernel = <<>>
    BY <1>2
  <2>2. Unseen(f) = SubSeq(f.buf, f.p.next + f.p.left, f.p.next + f.p.left + f.lleft - 1) \o f.kernel
    <3>1. f \in ParseFile /\ f.push = <<>> /\ InFile(f, f.p)
      BY <1>2, <1>4
    <3> QED BY ONLY <2>1, <3>1, NoStrings
  <2> QED BY <1>6, <1>7, <2>2
<1>9. CASE f.lleft > 0
  <2>1. b \in Nat \ {0} /\ e \in Int /\ e <= Len(f.buf)
    BY <1>2, <1>3, <1>4, <1>6 DEF InFile
  <2>2. SubSeq(f.buf, b, e) \in Seq(Byte)
    BY ONLY <1>3, <2>1, SliceIs
  <2>3. PICK s, k : s = SubSeq(f.buf, b, e) /\ k = f.kernel
    OBVIOUS
  <2>4. g = Ready(f, s, k)
    BY <1>1, <1>6, <1>9, <2>3 DEF Refilled
  <2>5. s \in Seq(Byte) /\ k \in Seq(Byte) /\ Unseen(f) = s \o k
    BY <1>3, <1>8, <2>2, <2>3
  <2>6. Fills(h, f, g)
    BY ONLY <1>2, <1>5, <2>4, <2>5, ReadyIs
  <2>7. files' = With(files, g)
    BY <1>1 DEF SetFile, With
  <2>8. g \in ParseFile /\ Placed(heap, g) /\ All(heap, g) = All(heap, File)
    BY <1>1, <2>6 DEF Fills
  <2>9. Settled /\ UNCHANGED S!vars /\ File' = g
    BY <2>7, <2>8, HoldsSame
  <2> QED BY <1>1, <2>6, <2>9 DEF Fills
<1>10. CASE ~(f.lleft > 0)
  <2>1. f.lleft = 0 /\ f.kernel # <<>>
    BY <1>2, <1>3, <1>10
  <2>2. SubSeq(f.buf, b, e) = <<>>
    <3>1. b \in Int /\ e \in Int /\ e < b
      BY <1>3, <1>6, <2>1
    <3> QED BY <3>1, SubSeqEmpty
  <2>3. Unseen(f) = f.kernel
    <3>1. <<>> \o f.kernel = f.kernel
      BY <1>3, ConcatEmptySeq
    <3> QED BY <1>8, <2>2, <3>1
  <2>4. n \in 0 .. Len(f.kernel)
    <3>1. PICK m : m = Min({Chunk, Len(f.kernel)})
      OBVIOUS
    <3>2. {Chunk, Len(f.kernel)} \in SUBSET Nat /\ {Chunk, Len(f.kernel)} # {}
      BY <1>3, InputAssumption
    <3>3. m <= Len(f.kernel) /\ m \in Nat
      <4>1. MinOf({Chunk, Len(f.kernel)}, m)
        BY <3>1, <3>2, MinIs
      <4> QED BY <1>3, <3>2, <4>1 DEF MinOf
    <3>4. n \in 1 .. m
      BY <1>1, <1>10, <3>1
    <3> QED BY <1>3, <3>3, <3>4
  <2>5. PICK s, k : s = SubSeq(f.kernel, 1, n) /\ k = SubSeq(f.kernel, n + 1, Len(f.kernel))
    OBVIOUS
  <2>6. g = Ready(f, s, k)
    BY <1>1, <1>10, <2>5 DEF Refilled
  <2>7. s \in Seq(Byte) /\ k \in Seq(Byte) /\ Unseen(f) = s \o k
    BY <1>3, <2>3, <2>4, <2>5, SplitIs
  <2>8. Fills(h, f, g)
    BY ONLY <1>2, <1>5, <2>6, <2>7, ReadyIs
  <2>9. files' = With(files, g)
    BY <1>1 DEF SetFile, With
  <2>10. g \in ParseFile /\ Placed(heap, g) /\ All(heap, g) = All(heap, File)
    BY <1>1, <2>8 DEF Fills
  <2>11. Settled /\ UNCHANGED S!vars /\ File' = g
    BY <2>9, <2>10, HoldsSame
  <2> QED BY <1>1, <2>8, <2>11 DEF Fills
<1> QED BY <1>9, <1>10

\* The text of an alias is read next.
LEMMA PushstringInserts ==
  ASSUME InputInv, PlacesInv, InputInv', NEW n \in Defined, pushstring(n), read' = read, File.p.unget < 2
  PROVE  Settled /\ S!Insert /\ File'.p.unget = 0
<1>1. PICK h, f, cell : h = heap /\ f = File /\ cell = aliases[n].cell
  OBVIOUS
<1>2. PICK sp : sp = [ap |-> n, string |-> cell, p |-> f.p]
  OBVIOUS
<1>3. PICK g : g = [f EXCEPT !.push = Append(@, sp), !.p = [At(cell, Len(h[cell]) - 1) EXCEPT !.lastc = f.p.lastc]]
  OBVIOUS
<1>4. files' = With(files, g) /\ heap' = heap
  BY <1>1, <1>2, <1>3 DEF pushstring, SetFile, With
<1>5. n \in Names /\ cell \in Cells /\ AliasText(h[cell])
  <2>1. cell \in Cells /\ heap[cell][1] # "free"
    BY <1>1, HeapIs
  <2>2. Saved(heap)
    BY DEF PlacesInv
  <2> QED BY <1>1, <2>1, <2>2 DEF Saved, Defined
<1>6. f \in ParseFile /\ Placed(h, f) /\ f.p.unget < 2
  BY <1>1, PlacesAre
<1>7. Pushes(h, f, g, sp)
  BY ONLY <1>2, <1>3, <1>5, <1>6, PushesIs
<1>8. PICK t \in Contents : All(h, g) = t \o All(h, f)
  BY <1>7 DEF Pushes
<1>9. g \in ParseFile /\ Placed(h, g) /\ g.p.unget = 0
  BY <1>7 DEF Pushes
<1>10. InPlace(files') /\ File' = g /\ Remain(heap, files') = Becomes(Remaining, All(heap, g))
  BY <1>1, <1>4, <1>9, FileReplaced
<1>11. Keeps
  BY <1>4, SameKeeps DEF PlacesInv
<1>12. AllPlaced(heap', files') /\ Saved(heap') /\ Remaining' = Remain(heap, files')
  BY <1>10, <1>11, Carried
<1>13. PICK r, u : r = Remaining /\ u = Remaining'
  OBVIOUS
<1>14. r[Len(r)] = All(h, f)
  BY <1>1, <1>13, PlacesAre
<1>15. u = Becomes(r, t \o r[Len(r)])
  BY <1>1, <1>8, <1>10, <1>12, <1>13, <1>14
<1>16. S!Insert
  BY <1>13, <1>15, InsertIs
<1> QED BY <1>9, <1>10, <1>12, <1>16 DEF Settled

\* Files are left.
LEMMA PopfilesCloses ==
  ASSUME InputInv, PlacesInv, InputInv', NEW k \in 1 .. Len(files), popfiles(k), File.p.unget < 2
  PROVE  Settled /\ (S!Close \/ UNCHANGED S!vars) /\ File'.p.unget < 2 /\ read' \in Seq(Returned)
<1>1. PICK h, fs, n : h = heap /\ fs = files /\ n = Len(files)
  OBVIOUS
<1>2. /\ Sound(h, fs) /\ fs # <<>> /\ (\A i \in 1 .. n - 1 : fs[i].p.unget < 2) /\ n \in Nat \ {0}
      /\ Remaining = Remain(h, fs) /\ Len(Remaining) = n /\ n = Len(fs)
  BY <1>1, PlacesAre DEF InPlace
<1>3. files' = Kept(fs, k) /\ read' = IF k < n THEN <<>> ELSE read
  BY <1>1 DEF popfiles, Kept
<1>4. Keeps
  <2>1. PICK cs : heap' = Freed(cs)
    BY DEF popfiles, Done
  <2> QED BY <2>1, FreedKeeps DEF PlacesInv
<1>5. CASE k = n
  <2>1. Kept(fs, n) = fs
    <3>1. fs \in Seq(ParseFile)
      BY <1>2 DEF Sound
    <3> QED BY <1>2, <3>1, SubSeqFull DEF Kept
  <2>2. UNCHANGED <<files, read>>
    BY <1>1, <1>2, <1>3, <1>5, <2>1
  <2>3. Settled /\ UNCHANGED S!vars /\ File' = File
    BY <1>4, <2>2, Stutters
  <2>4. read' \in Seq(Returned)
    BY <2>2 DEF PlacesInv, Ahead
  <2> QED BY <2>3, <2>4
<1>6. CASE k # n
  <2>1. k \in 1 .. n - 1 /\ k < n /\ k \in 1 .. n
    BY <1>1, <1>2, <1>6
  <2>2. PICK gs : gs = Kept(fs, k)
    OBVIOUS
  <2>3. /\ Sound(h, gs) /\ Len(gs) = k /\ (\A i \in 1 .. k : gs[i] = fs[i])
        /\ Remain(h, gs) = SubSeq(Remain(h, fs), 1, k)
    BY <1>2, <2>1, <2>2, RemainKept
  <2>4. gs # <<>> /\ k \in 1 .. k /\ (\A i \in 1 .. k - 1 : i \in 1 .. k /\ i \in 1 .. n - 1)
    BY <1>2, <2>1, <2>3, EmptySeq
  <2>5. InPlace(files')
    BY <1>1, <1>2, <1>3, <2>2, <2>3, <2>4 DEF InPlace
  <2>6. AllPlaced(heap', files') /\ Saved(heap') /\ Remaining' = Remain(heap, files')
    BY <1>4, <2>5, Carried
  <2>7. Remaining' = SubSeq(Remaining, 1, k) /\ k \in 1 .. Len(Remaining) - 1
    BY <1>1, <1>2, <1>3, <2>1, <2>2, <2>3, <2>6
  <2>8. read' = <<>>
    BY <1>3, <2>1
  <2>9. S!Close
    BY <2>7, <2>8, CloseIs
  <2>10. File' = fs[k]
    BY <1>3, <2>2, <2>3, <2>4 DEF File, Last
  <2> QED BY <1>2, <2>1, <2>6, <2>8, <2>9, <2>10 DEF Settled
<1> QED BY <1>5, <1>6

\* A file or a string is opened.
LEMMA ExecOpens ==
  ASSUME InputInv, PlacesInv, InputInv', UNCHANGED memory, File.p.unget < 2, read' = <<>>,
         NEW s \in Strings, NEW g \in {String(NoNul(s)), Script(s)}, files' = Append(files, g)
  PROVE  Settled /\ S!Open /\ File'.p.unget < 2
<1>1. PICK h, fs, n : h = heap /\ fs = files /\ n = Len(files)
  OBVIOUS
<1>2. /\ Sound(h, fs) /\ fs # <<>> /\ (\A i \in 1 .. n - 1 : fs[i].p.unget < 2) /\ n \in Nat \ {0}
      /\ Remaining = Remain(h, fs) /\ Len(Remaining) = n /\ n = Len(fs) /\ fs[n].p.unget < 2
  BY <1>1, PlacesAre DEF InPlace
<1>3. g \in ParseFile /\ Placed(h, g) /\ All(h, g) = NoNul(s) /\ g.p.unget = 0
  <2>1. s \in Seq(Byte)
    BY Chars
  <2>2. Holds(h, g, s)
    BY <2>1, OpenedIs
  <2> QED BY <2>2 DEF Holds
<1>4. PICK gs : gs = Append(fs, g)
  OBVIOUS
<1>5. /\ Sound(h, gs) /\ Len(gs) = n + 1 /\ gs[n + 1] = g /\ (\A i \in 1 .. n : gs[i] = fs[i])
      /\ Remain(h, gs) = Append(Remain(h, fs), All(h, g))
  BY <1>2, <1>3, <1>4, RemainAppend
<1>6. gs # <<>> /\ n \in 1 .. n /\ n + 1 - 1 = n
  BY <1>2, <1>5, EmptySeq
<1>7. ASSUME NEW i \in 1 .. n PROVE gs[i].p.unget < 2
  BY <1>2, <1>5
<1>8. InPlace(files')
  BY <1>1, <1>4, <1>5, <1>6, <1>7 DEF InPlace
<1>9. Keeps
  BY SameKeeps DEF PlacesInv, memory
<1>10. AllPlaced(heap', files') /\ Saved(heap') /\ Remaining' = Remain(heap, files')
  BY <1>8, <1>9, Carried
<1>11. NoNul(s) \in Contents
  BY DEF Contents
<1>12. Remaining' = Append(Remaining, NoNul(s))
  BY <1>1, <1>2, <1>3, <1>4, <1>5, <1>10
<1>13. S!Open
  BY <1>11, <1>12, OpenIs
<1>14. File' = g
  BY <1>1, <1>4, <1>5 DEF File, Last
<1> QED BY <1>3, <1>10, <1>13, <1>14 DEF Settled

(***************************************************************************)
(* What is put back, after each action.                                    *)
(***************************************************************************)

Calm(ph, w) ==
  /\ ph \notin {"semi\\", "unread", "unread two", "unread quoted", "unread end"}
  /\ ph = "semi" => w = ";"

LEMMA AheadCalm ==
  ASSUME NEW p, NEW ph, NEW w, NEW pop, NEW rd \in Seq(Returned), p.unget # 2, Calm(ph, w)
  PROVE  Ahead(p, ph, w, pop, rd)
BY DEF Ahead, Calm

\* Nothing is about to be put back.
LEMMA PlacesCalm ==
  ASSUME Settled, read' \in Seq(Returned), File'.p.unget < 2, Calm(phase', word')
  PROVE  PlacesInv'
<1>1. PICK q, ph, w, pop, rd : q = File'.p /\ ph = phase' /\ w = word' /\ pop = popped' /\ rd = read'
  OBVIOUS
<1>2. q.unget # 2
  BY <1>1
<1>3. Ahead(q, ph, w, pop, rd)
  BY ONLY <1>1, <1>2, read' \in Seq(Returned), Calm(phase', word'), AheadCalm
<1> QED BY <1>1, <1>3 DEF PlacesInv, Settled

LEMMA PlacesSame ==
  ASSUME InputInv, PlacesInv, InputInv', Keeps, UNCHANGED <<files, read>>, Calm(phase', word'), File.p.unget < 2
  PROVE  PlacesInv' /\ [S!Next]_(S!vars)
<1>1. Settled /\ UNCHANGED S!vars /\ File' = File
  BY Stutters
<1>2. read' \in Seq(Returned)
  BY DEF PlacesInv, Ahead
<1> QED BY <1>1, <1>2, PlacesCalm

\* Two characters were put back only where another is read, or ";" returned.
LEMMA UngetIs ==
  ASSUME InputInv, PlacesInv
  PROVE  /\ File.p.unget \in 0 .. 2 /\ read \in Seq(Returned)
         /\ phase \notin {"start", "skip", "token"} => File.p.unget < 2
         /\ phase = "token" /\ word # ";" => File.p.unget < 2
<1>1. File.p \in Point
  <2>1. File \in ParseFile
    BY PlacesAre
  <2> QED BY <2>1, FileIs
<1>2. File.p.unget \in 0 .. 2
  BY <1>1, PointIs
<1>3. /\ read \in Seq(Returned)
      /\ File.p.unget = 2 => phase \in {"start", "skip"} \/ (phase = "token" /\ word = ";")
  BY DEF PlacesInv, Ahead
<1>4. File.p.unget = 2 \/ File.p.unget < 2
  BY <1>2
<1> QED BY <1>2, <1>3, <1>4

LEMMA PgetcCalm ==
  ASSUME InputInv, PlacesInv, InputInv', Keeps, NEW c, Pgetc(c), Calm(phase', word')
  PROVE  PlacesInv' /\ [S!Next]_(S!vars)
<1>1. Taken(c)
  BY PgetcTakes
<1>2. Settled /\ S!Take /\ read' \in Seq(Returned)
  BY <1>1 DEF Taken
<1>3. File'.p.unget = IF File.p.unget > 0 THEN File.p.unget - 1 ELSE 0
  BY <1>1 DEF Taken, Took
<1>4. File'.p.unget < 2
  <2>1. File.p.unget \in 0 .. 2
    BY UngetIs
  <2>2. PICK m, n : m = File.p.unget /\ n = File'.p.unget
    OBVIOUS
  <2>3. m \in 0 .. 2 /\ n = IF m > 0 THEN m - 1 ELSE 0
    BY <1>3, <2>1, <2>2
  <2>4. n < 2
    BY ONLY <2>3
  <2> QED BY <2>2, <2>4
<1>5. PlacesInv'
  BY <1>2, <1>4, PlacesCalm
<1> QED BY <1>2, <1>5 DEF S!Next

\* The character that was returned can be put back.
LEMMA PgetcAtLast ==
  ASSUME InputInv, PlacesInv, InputInv', Keeps, NEW c, Pgetc(c), phase \notin {"start", "skip", "token"}
  PROVE  /\ Settled /\ S!Take /\ read' \in Seq(Returned)
         /\ File'.p.unget = 0 /\ File'.p.lastc[1] = c /\ AtLast(File'.p, read') /\ ~popped'
         /\ File.p.unget = 0 /\ ~popped => File'.p.lastc[2] = File.p.lastc[1]
         /\ read # <<>> => Front(read') # <<>> /\ Last(Front(read')) = Last(read)
<1>1. Taken(c)
  BY PgetcTakes
<1>2. /\ Settled /\ S!Take /\ read' \in Seq(Returned) /\ read' # <<>> /\ Last(read') = c
      /\ read # <<>> => Front(read') # <<>> /\ Last(Front(read')) = Last(read)
  BY <1>1 DEF Taken
<1>3. File.p.unget \in 0 .. 2 /\ File.p.unget < 2
  BY UngetIs
<1>4. PICK f, g, pop : f = File /\ g = File' /\ pop = popped
  OBVIOUS
<1>5. Took(heap, f, g, c, pop)
  BY <1>1, <1>4 DEF Taken
<1>6. /\ g.p.unget = (IF f.p.unget > 0 THEN f.p.unget - 1 ELSE 0) /\ (g.p.cell = 0 \/ g.p.next > 2)
      /\ f.p.unget < 2 => g.p.lastc[1] = c
      /\ f.p.unget = 0 /\ ~pop => g.p.lastc[2] = f.p.lastc[1]
  BY <1>5 DEF Took
<1>7. f.p.unget \in {0, 1} /\ f.p.unget < 2
  BY <1>3, <1>4
<1>8. g.p.unget = 0 /\ g.p.lastc[1] = c
  BY <1>6, <1>7
<1>9. g.p.lastc[g.p.unget + 1] = c
  BY <1>8
<1>10. AtLast(g.p, read')
  BY <1>2, <1>6, <1>9 DEF AtLast
<1>11. ~popped'
  BY DEF Pgetc
<1> QED BY <1>2, <1>4, <1>6, <1>8, <1>10, <1>11

(***************************************************************************)
(* The actions.                                                            *)
(***************************************************************************)

LEMMA UsedKeeps ==
  ASSUME InputInv, PlacesInv, InputInv', endaliasuse \/ UNCHANGED memory
  PROVE  Keeps
<1>1. CASE endaliasuse
  <2>1. PICK cs : heap' = Freed(cs)
    BY <1>1 DEF endaliasuse
  <2> QED BY <2>1, FreedKeeps DEF PlacesInv
<1>2. CASE UNCHANGED memory
  BY <1>2, SameKeeps DEF PlacesInv, memory
<1> QED BY <1>1, <1>2

LEMMA startPlaces ==
  ASSUME InputInv, PlacesInv, InputInv', start
  PROVE  PlacesInv' /\ [S!Next]_(S!vars)
<1>1. /\ \E c : Pgetc(c)
      /\ endaliasuse \/ UNCHANGED memory
      /\ phase' \in {"start", "token", "semi", "word"} /\ (phase' = "semi" => word' = ";")
  BY DEF start
<1>2. Calm(phase', word')
  BY <1>1 DEF Calm
<1> QED BY <1>1, <1>2, UsedKeeps, PgetcCalm

LEMMA backslashPlaces ==
  ASSUME InputInv, PlacesInv, InputInv', backslash
  PROVE  PlacesInv' /\ [S!Next]_(S!vars)
<1>1. /\ Pgetc("\\") /\ UNCHANGED memory /\ word' = word
      /\ (phase = "semi" /\ phase' = "semi\\") \/ phase' \in {"start\\", "word\\"}
  BY DEF backslash, Backslash
<1>2. Keeps
  BY <1>1, UsedKeeps
<1>3. CASE phase' \in {"start\\", "word\\"}
  <2>1. Calm(phase', word')
    BY <1>3 DEF Calm
  <2> QED BY <1>1, <1>2, <2>1, PgetcCalm
<1>4. CASE phase = "semi" /\ phase' = "semi\\"
  <2>1. /\ Settled /\ S!Take /\ read' \in Seq(Returned)
        /\ File'.p.unget = 0 /\ File'.p.lastc[1] = "\\" /\ AtLast(File'.p, read') /\ ~popped'
    BY <1>1, <1>2, <1>4, PgetcAtLast
  <2>2. word = ";"
    BY <1>4 DEF PlacesInv, Ahead
  <2>3. Ahead(File'.p, "semi\\", ";", popped', read')
    BY <2>1 DEF Ahead
  <2>4. PlacesInv'
    BY <1>1, <1>4, <2>1, <2>2, <2>3 DEF PlacesInv, Settled
  <2> QED BY <2>1, <2>4 DEF S!Next
<1> QED BY <1>1, <1>3, <1>4

LEMMA pgetc_eatbnlPlaces ==
  ASSUME InputInv, PlacesInv, InputInv', pgetc_eatbnl
  PROVE  PlacesInv' /\ [S!Next]_(S!vars)
<1>1. PICK c, ph : /\ ph \in {"start", "semi", "word"} /\ phase = Backslash[ph] /\ Pgetc(c)
                   /\ phase' = IF c = "\n" THEN ph ELSE IF ph = "semi" THEN "unread two" ELSE "unread quoted"
  BY DEF pgetc_eatbnl, Backslash
<1>2. /\ UNCHANGED memory /\ word' = word /\ phase \notin {"start", "skip", "token"}
      /\ ph = "semi" => phase = "semi\\"
  <2>1. UNCHANGED memory /\ word' = word
    BY DEF pgetc_eatbnl
  <2>2. Backslash["start"] = "start\\" /\ Backslash["semi"] = "semi\\" /\ Backslash["word"] = "word\\"
    BY DEF Backslash
  <2> QED BY <1>1, <2>1, <2>2
<1>3. Keeps
  BY <1>2, UsedKeeps
<1>4. ph = "semi" => word = ";"
  BY <1>2 DEF PlacesInv, Ahead
<1>5. CASE c = "\n"
  <2>1. Calm(phase', word')
    BY <1>1, <1>2, <1>4, <1>5 DEF Calm
  <2> QED BY <1>1, <1>3, <2>1, PgetcCalm
<1>6. CASE c # "\n"
  <2>1. /\ Settled /\ S!Take /\ read' \in Seq(Returned)
        /\ File'.p.unget = 0 /\ AtLast(File'.p, read') /\ ~popped'
        /\ File.p.unget = 0 /\ ~popped => File'.p.lastc[2] = File.p.lastc[1]
        /\ read # <<>> => Front(read') # <<>> /\ Last(Front(read')) = Last(read)
    BY <1>1, <1>2, <1>3, PgetcAtLast
  <2>2. Ahead(File'.p, phase', word', popped', read')
    <3>1. CASE ph = "semi"
      <4>1. AtLast(File.p, read) /\ File.p.unget = 0 /\ File.p.lastc[1] = "\\" /\ ~popped
        BY <1>2, <3>1 DEF PlacesInv, Ahead
      <4>2. read # <<>> /\ Last(read) = "\\"
        <5>1. Last(read) = File.p.lastc[File.p.unget + 1] /\ File.p.unget + 1 = 1
          BY <4>1 DEF AtLast
        <5> QED BY <4>1, <5>1 DEF AtLast
      <4>3. Front(read') # <<>> /\ Last(Front(read')) = "\\" /\ File'.p.lastc[2] = "\\"
        BY <2>1, <4>1, <4>2
      <4>4. phase' = "unread two" /\ word' = ";"
        BY <1>1, <1>2, <1>4, <1>6, <3>1
      <4>5. Ahead(File'.p, "unread two", ";", popped', read')
        BY <2>1, <4>3 DEF Ahead
      <4> QED BY <4>4, <4>5
    <3>2. CASE ph # "semi"
      <4>1. phase' = "unread quoted"
        BY <1>1, <1>6, <3>2
      <4>2. Ahead(File'.p, "unread quoted", word', popped', read')
        BY <2>1 DEF Ahead
      <4> QED BY <4>1, <4>2
    <3> QED BY <3>1, <3>2
  <2>3. PlacesInv'
    BY <2>1, <2>2 DEF PlacesInv, Settled
  <2> QED BY <2>1, <2>3 DEF S!Next
<1> QED BY <1>5, <1>6

LEMMA AheadLast ==
  ASSUME NEW p, p.unget = 0, p.unget # 1, p.unget # 2, NEW ph \in {"unread", "unread end"}, NEW w, NEW pop, ~pop,
         NEW rd \in Seq(Returned), AtLast(p, rd)
  PROVE  Ahead(p, ph, w, pop, rd)
<1>1. CASE ph = "unread"
  BY <1>1, Zenon DEF Ahead
<1>2. CASE ph = "unread end"
  BY <1>2, Zenon DEF Ahead
<1> QED BY <1>1, <1>2

\* A character is returned, and will be put back.
LEMMA PgetcUnread ==
  ASSUME InputInv, PlacesInv, InputInv', Keeps, NEW c, Pgetc(c), phase \notin {"start", "skip", "token"},
         phase' \in {"unread", "unread end"}
  PROVE  PlacesInv' /\ [S!Next]_(S!vars)
<1>1. /\ Settled /\ S!Take /\ read' \in Seq(Returned)
      /\ File'.p.unget = 0 /\ AtLast(File'.p, read') /\ ~popped'
  BY PgetcAtLast
<1>2. PICK ph : ph = phase' /\ ph \in {"unread", "unread end"}
  OBVIOUS
<1>3. PICK q, w, pop, rd : q = File'.p /\ w = word' /\ pop = popped' /\ rd = read'
  OBVIOUS
<1>4. rd \in Seq(Returned) /\ q.unget = 0 /\ AtLast(q, rd) /\ ~pop /\ q.unget # 1 /\ q.unget # 2
  <2>1. rd \in Seq(Returned) /\ q.unget = 0 /\ AtLast(q, rd) /\ ~pop
    BY <1>1, <1>3
  <2>2. q.unget # 1 /\ q.unget # 2
    BY ONLY <2>1
  <2> QED BY <2>1, <2>2
<1>5. Ahead(q, ph, w, pop, rd)
  BY ONLY <1>2, <1>4, AheadLast
<1>6. PlacesInv'
  BY <1>1, <1>2, <1>3, <1>5 DEF PlacesInv, Settled
<1> QED BY <1>1, <1>6 DEF S!Next

LEMMA semiPlaces ==
  ASSUME InputInv, PlacesInv, InputInv', semi
  PROVE  PlacesInv' /\ [S!Next]_(S!vars)
<1>1. UNCHANGED memory /\ phase = "semi" /\ phase' \in {"token", "unread"} /\ \E c : Pgetc(c)
  BY DEF semi
<1>2. Keeps
  BY <1>1, UsedKeeps
<1>3. PICK c : Pgetc(c)
  BY <1>1
<1>4. CASE phase' = "token"
  <2>1. Calm(phase', word')
    BY <1>4 DEF Calm
  <2> QED BY <1>2, <1>3, <2>1, PgetcCalm
<1>5. CASE phase' = "unread"
  BY <1>1, <1>2, <1>3, <1>5, PgetcUnread
<1> QED BY <1>1, <1>4, <1>5

LEMMA inwordPlaces ==
  ASSUME InputInv, PlacesInv, InputInv', inword
  PROVE  PlacesInv' /\ [S!Next]_(S!vars)
<1>1. /\ UNCHANGED memory /\ phase \in {"word", "escape"} /\ phase' \in {"word", "unread", "unread end"}
      /\ \E c : Pgetc(c)
  BY DEF inword
<1>2. Keeps
  BY <1>1, UsedKeeps
<1>3. PICK c : Pgetc(c)
  BY <1>1
<1>4. CASE phase' = "word"
  <2>1. Calm(phase', word')
    BY <1>4 DEF Calm
  <2> QED BY <1>2, <1>3, <2>1, PgetcCalm
<1>5. CASE phase' \in {"unread", "unread end"}
  <2>1. phase \notin {"start", "skip", "token"}
    BY <1>1
  <2> QED BY <1>2, <1>3, <1>5, <2>1, PgetcUnread
<1> QED BY <1>1, <1>4, <1>5

LEMMA skiplinePlaces ==
  ASSUME InputInv, PlacesInv, InputInv', skipline
  PROVE  PlacesInv' /\ [S!Next]_(S!vars)
<1>1. UNCHANGED memory /\ phase' \in {"error", "skip"} /\ \E c : Pgetc(c)
  BY DEF skipline
<1>2. Keeps
  BY <1>1, UsedKeeps
<1>3. Calm(phase', word')
  BY <1>1 DEF Calm
<1> QED BY <1>1, <1>2, <1>3, PgetcCalm

LEMMA unreadPlaces ==
  ASSUME InputInv, PlacesInv, InputInv', unread
  PROVE  PlacesInv' /\ [S!Next]_(S!vars)
<1>1. /\ pungetc /\ phase \in {"unread", "unread two", "unread quoted", "unread end"} /\ word' = word
      /\ phase' = Unread[phase]
  BY DEF unread, Unread
<1>2. heap' = heap /\ popped' = popped
  BY <1>1 DEF pungetc, memory
<1>3. Keeps
  BY <1>2, SameKeeps DEF PlacesInv
<1>4. PICK p, q, rd, w, pop : p = File.p /\ q = File'.p /\ rd = read /\ w = word /\ pop = popped
  OBVIOUS
<1>5. Ahead(p, phase, w, pop, rd)
  BY <1>4 DEF PlacesInv
<1>6. AtLast(p, rd) /\ ~pop /\ p.unget \in 0 .. 2 /\ p.unget < 2
  <2>1. phase \notin {"start", "skip", "token"}
    BY <1>1
  <2>2. p.unget \in 0 .. 2 /\ p.unget < 2
    BY <1>4, <2>1, UngetIs
  <2>3. AtLast(p, rd) /\ ~pop
    BY <1>1, <1>5 DEF Ahead
  <2> QED BY <2>2, <2>3
<1>7. PutsBack
  BY <1>1, <1>3, <1>4, <1>6, PungetcPutsBack
<1>8. /\ Settled /\ S!PutBack /\ read' \in Seq(Returned) /\ read' = Front(rd)
      /\ q.unget = p.unget + 1 /\ q.lastc = p.lastc /\ q.cell = p.cell /\ q.next = p.next
  BY <1>4, <1>7 DEF PutsBack
<1>9. p.unget \in {0, 1}
  BY <1>6
<1>10. CASE phase \in {"unread quoted", "unread end"}
  <2>1. p.unget = 0
    BY <1>5, <1>10 DEF Ahead
  <2>2. q.unget < 2
    BY <1>8, <2>1
  <2>3. Calm(phase', word')
    <3>1. phase' \in {"escape", "word"}
      BY <1>1, <1>10 DEF Unread
    <3> QED BY <3>1 DEF Calm
  <2>4. PlacesInv'
    BY <1>4, <1>8, <2>2, <2>3, PlacesCalm
  <2> QED BY <1>8, <2>4 DEF S!Next
<1>11. CASE phase = "unread two"
  <2>1. p.unget = 0 /\ Front(rd) # <<>> /\ Last(Front(rd)) = "\\" /\ p.lastc[2] = "\\" /\ w = ";"
    BY <1>5, <1>11 DEF Ahead
  <2>2. q.unget = 1 /\ q.lastc[2] = "\\"
    <3>1. 0 + 1 = 1
      OBVIOUS
    <3>2. q.unget = 1
      BY <1>8, <2>1, <3>1
    <3>3. q.lastc[2] = "\\"
      BY <1>8, <2>1
    <3> QED BY <3>2, <3>3
  <2>3. AtLast(q, read')
    <3>1. q.lastc[q.unget + 1] = "\\"
      BY <2>2
    <3>2. q.cell = 0 \/ q.next > 2
      BY <1>6, <1>8 DEF AtLast
    <3> QED BY <1>8, <2>1, <3>1, <3>2 DEF AtLast
  <2>4. phase' = "unread" /\ word' = w /\ popped' = pop
    BY <1>1, <1>2, <1>4, <1>11 DEF Unread
  <2>5. Ahead(q, "unread", w, pop, read')
    <3>1. q.unget # 2 /\ q.unget # 0
      BY <2>2
    <3> QED BY <1>6, <1>8, <2>1, <2>2, <2>3, <3>1, Zenon DEF Ahead
  <2>6. PlacesInv'
    BY <1>4, <1>8, <2>4, <2>5 DEF PlacesInv, Settled
  <2> QED BY <1>8, <2>6 DEF S!Next
<1>12. CASE phase = "unread"
  <2>1. phase' = "token" /\ word' = w /\ popped' = pop
    BY <1>1, <1>2, <1>4, <1>12 DEF Unread
  <2>2. CASE p.unget = 0
    <3>1. q.unget < 2
      BY <1>8, <2>2
    <3>2. Calm(phase', word')
      BY <2>1 DEF Calm
    <3>3. PlacesInv'
      BY <1>4, <1>8, <3>1, <3>2, PlacesCalm
    <3> QED BY <1>8, <3>3 DEF S!Next
  <2>3. CASE p.unget = 1
    <3>1. w = ";" /\ p.lastc[2] = "\\"
      BY <1>5, <1>12, <2>3 DEF Ahead
    <3>2. q.lastc[2] = "\\" /\ read' \in Seq(Returned)
      BY <1>8, <3>1
    <3>3. Ahead(q, "token", w, pop, read')
      BY <1>6, <3>1, <3>2, Zenon DEF Ahead
    <3>4. PlacesInv'
      BY <1>4, <1>8, <2>1, <3>3 DEF PlacesInv, Settled
    <3> QED BY <1>8, <3>4 DEF S!Next
  <2> QED BY <1>9, <2>2, <2>3
<1> QED BY <1>1, <1>10, <1>11, <1>12

\* What is about to be put back is not at the end of an alias's text.
LEMMA NotAtEnd ==
  ASSUME Whole, InputInv, PlacesInv, File.push # <<>>, File.p.unget = 0, File.p.left = 0
  PROVE  phase # "semi\\"
<1>1. PICK h, f, p, s : h = heap /\ f = File /\ p = f.p /\ s = h[p.cell]
  OBVIOUS
<1>2. f \in ParseFile /\ Placed(h, f) /\ p.left = 0 /\ f.push # <<>>
  <2>1. File \in ParseFile /\ Placed(heap, File)
    BY PlacesAre
  <2> QED BY ONLY <1>1, <2>1, File.push # <<>>, File.p.left = 0
<1>3. p.cell # 0 /\ AliasText(s) /\ InText(s, p)
  BY <1>1, <1>2, LevelFits
<1>4. p.next \in Nat
  BY <1>1, <1>2, FileIs, PointIs
<1>5. Len(s) \in Nat /\ (Len(s) > 1 => s[Len(s)] # "\\")
  BY <1>3, AliasTextIs
<1>6. SUFFICES ASSUME phase = "semi\\" PROVE FALSE
  OBVIOUS
<1>7. (p.cell = 0 \/ p.next > 2) /\ p.lastc[1] = "\\"
  BY <1>1, <1>6 DEF PlacesInv, Ahead, AtLast
<1>8. p.next > 2 /\ p.next = Len(s) + 1 /\ p.lastc[1] = s[p.next - 1]
  BY <1>2, <1>3, <1>4, <1>7 DEF InText
<1>9. p.next - 1 = Len(s) /\ Len(s) > 1
  BY <1>4, <1>5, <1>8
<1> QED BY <1>5, <1>7, <1>8, <1>9

LEMMA popstringPlaces ==
  ASSUME Whole, InputInv, PlacesInv, InputInv', popstring
  PROVE  PlacesInv' /\ [S!Next]_(S!vars)
<1>1. PICK cs : heap' = Freed(cs)
  BY DEF popstring, Done
<1>2. Keeps
  BY <1>1, FreedKeeps DEF PlacesInv
<1>3. Settled /\ UNCHANGED S!vars /\ File'.p.unget < 2
  BY <1>2, popstringSame
<1>4. phase' = phase /\ word' = word /\ read' = read
  BY DEF popstring
<1>5. phase # "semi\\"
  BY NotAtEnd DEF popstring, Exhausted
<1>6. Calm(phase, word)
  <2>1. phase \notin {"unread", "unread two", "unread quoted", "unread end"}
    BY DEF popstring, Wanting
  <2>2. phase = "semi" => word = ";"
    BY DEF PlacesInv, Ahead
  <2> QED BY <1>5, <2>1, <2>2 DEF Calm
<1>7. read' \in Seq(Returned)
  BY <1>4, UngetIs
<1>8. PlacesInv'
  BY <1>3, <1>4, <1>6, <1>7, PlacesCalm
<1> QED BY <1>3, <1>8

LEMMA preadbufferPlaces ==
  ASSUME InputInv, PlacesInv, InputInv', preadbuffer
  PROVE  PlacesInv' /\ [S!Next]_(S!vars)
<1>1. UNCHANGED memory /\ popped' = popped /\ read' = read /\ word' = word /\ File.p.unget = 0
  BY DEF preadbuffer, Exhausted
<1>2. Keeps
  BY <1>1, UsedKeeps
<1>3. PICK n \in 1 .. (IF File.lleft > 0 THEN 1 ELSE Min({Chunk, Len(File.kernel)})) :
        \/ files' = SetFile(Refilled(File, n)) /\ UNCHANGED phase
        \/ phase' = "end" /\ UNCHANGED files
  BY DEF preadbuffer
<1>4. CASE phase' = "end" /\ UNCHANGED files
  <2>1. Calm(phase', word') /\ File.p.unget < 2
    BY <1>1, <1>4 DEF Calm
  <2> QED BY <1>1, <1>2, <1>4, <2>1, PlacesSame
<1>5. CASE files' = SetFile(Refilled(File, n)) /\ UNCHANGED phase
  <2>1. Exhausted /\ File.push = <<>> /\ File.fd /\ (File.lleft > 0 \/ File.kernel # <<>>)
    BY DEF preadbuffer
  <2>2. Settled /\ UNCHANGED S!vars /\ File'.p.unget = 0 /\ File'.p.lastc = File.p.lastc /\ File'.p.cell = 0
    BY <1>1, <1>2, <1>3, <1>5, <2>1, RefilledSame
  <2>3. PICK p, q, rd, w, pop : p = File.p /\ q = File'.p /\ rd = read /\ w = word /\ pop = popped
    OBVIOUS
  <2>4. Ahead(p, phase, w, pop, rd)
    BY <2>3 DEF PlacesInv
  <2>5. q.unget = 0 /\ p.unget = 0 /\ q.unget # 2 /\ q.unget # 1 /\ q.lastc = p.lastc /\ q.cell = 0
    <3>1. q.unget = 0 /\ p.unget = 0 /\ q.lastc = p.lastc /\ q.cell = 0
      BY <1>1, <2>2, <2>3
    <3>2. q.unget # 2 /\ q.unget # 1
      BY ONLY <3>1
    <3> QED BY <3>1, <3>2
  <2>6. Ahead(q, phase, w, pop, rd)
    <3>1. CASE phase = "semi\\"
      <4>1. rd \in Seq(Returned) /\ w = ";" /\ AtLast(p, rd) /\ p.lastc[1] = "\\" /\ ~pop
        BY <2>4, <3>1 DEF Ahead
      <4>2. AtLast(q, rd)
        BY <2>5, <4>1 DEF AtLast
      <4>3. q.lastc[1] = "\\"
        BY <2>5, <4>1
      <4> QED BY <2>5, <3>1, <4>1, <4>2, <4>3, Zenon DEF Ahead
    <3>2. CASE phase # "semi\\"
      <4>1. phase \notin {"unread", "unread two", "unread quoted", "unread end"}
        BY DEF preadbuffer, Wanting
      <4>2. rd \in Seq(Returned) /\ (phase = "semi" => w = ";")
        BY <2>4 DEF Ahead
      <4>3. Calm(phase, w)
        BY <3>2, <4>1, <4>2 DEF Calm
      <4> QED BY <2>5, <4>2, <4>3, AheadCalm
    <3> QED BY <3>1, <3>2
  <2>7. phase' = phase /\ word' = w /\ popped' = pop /\ read' = rd
    BY <1>1, <1>5, <2>3
  <2>8. PlacesInv'
    BY <2>2, <2>3, <2>6, <2>7 DEF PlacesInv, Settled
  <2> QED BY <2>2, <2>8
<1> QED BY <1>3, <1>4, <1>5

LEMMA expandPlaces ==
  ASSUME InputInv, PlacesInv, InputInv', expand
  PROVE  PlacesInv' /\ [S!Next]_(S!vars)
<1>1. /\ phase = "token" /\ word \in Defined /\ phase' = "start" /\ read' = read
      /\ pushstring(word) \/ UNCHANGED <<files, memory>>
  BY DEF expand, lookupalias
<1>2. File.p.unget < 2
  <2>1. word # ";"
    BY <1>1, InputAssumption DEF Defined
  <2> QED BY <1>1, <2>1, UngetIs
<1>3. Calm(phase', word')
  BY <1>1 DEF Calm
<1>4. CASE pushstring(word)
  <2>1. PICK n \in Defined : n = word
    BY <1>1
  <2>2. Settled /\ S!Insert /\ File'.p.unget = 0
    BY <1>1, <1>2, <1>4, <2>1, PushstringInserts
  <2>3. File'.p.unget < 2
    BY <2>2
  <2>4. read' \in Seq(Returned)
    BY <1>1, UngetIs
  <2>5. PlacesInv'
    BY <1>3, <2>2, <2>3, <2>4, PlacesCalm
  <2> QED BY <2>2, <2>5 DEF S!Next
<1>5. CASE UNCHANGED <<files, memory>>
  <2>1. Keeps
    BY <1>5, UsedKeeps
  <2> QED BY <1>1, <1>2, <1>3, <1>5, <2>1, PlacesSame
<1> QED BY <1>1, <1>4, <1>5

LEMMA tokenPlaces ==
  ASSUME InputInv, PlacesInv, InputInv', token
  PROVE  PlacesInv' /\ [S!Next]_(S!vars)
<1>1. /\ phase = "token" /\ endaliasuse /\ files' = files /\ popped' = popped /\ read' = read
      /\ phase' \in {"start", "skip", "exec", "return", "end"}
      /\ word = ";" => phase' \in {"start", "skip"}
  BY DEF token
<1>2. Keeps
  BY <1>1, UsedKeeps
<1>3. Calm(phase', word')
  BY <1>1 DEF Calm
<1>4. CASE File.p.unget < 2
  BY <1>1, <1>2, <1>3, <1>4, PlacesSame
<1>5. CASE ~(File.p.unget < 2)
  <2>1. Settled /\ UNCHANGED S!vars /\ File' = File
    BY <1>1, <1>2, Stutters
  <2>2. File.p.unget = 2
    <3>1. PICK m : m = File.p.unget
      OBVIOUS
    <3>2. m \in 0 .. 2
      BY <3>1, UngetIs
    <3>3. ~(m < 2)
      BY <1>5, <3>1
    <3>4. m = 2
      BY ONLY <3>2, <3>3
    <3> QED BY <3>1, <3>4
  <2>3. PICK p, q, ph, rd, pop, w : p = File.p /\ q = File'.p /\ ph = phase' /\ rd = read /\ pop = popped /\ w = word'
    OBVIOUS
  <2>4. word = ";" /\ p.lastc[2] = "\\" /\ ~pop /\ rd \in Seq(Returned)
    BY <1>1, <2>2, <2>3 DEF PlacesInv, Ahead
  <2>5. ph \in {"start", "skip"} /\ q = p
    BY <1>1, <2>1, <2>3, <2>4
  <2>6. Ahead(q, ph, w, pop, rd)
    <3>1. ph \notin {"semi", "semi\\", "unread", "unread two", "unread quoted", "unread end"}
      BY <2>5
    <3> QED BY <2>4, <2>5, <3>1, Zenon DEF Ahead
  <2>7. PlacesInv'
    BY <1>1, <2>1, <2>3, <2>6 DEF PlacesInv, Settled
  <2> QED BY <2>1, <2>7
<1> QED BY <1>4, <1>5

LEMMA PopfilesPlaces ==
  ASSUME InputInv, PlacesInv, InputInv', NEW k \in 1 .. Len(files), popfiles(k), phase' = "start",
         phase \notin {"start", "skip", "token"}
  PROVE  PlacesInv' /\ [S!Next]_(S!vars)
<1>1. File.p.unget < 2
  BY UngetIs
<1>2. Settled /\ (S!Close \/ UNCHANGED S!vars) /\ File'.p.unget < 2 /\ read' \in Seq(Returned)
  BY <1>1, PopfilesCloses
<1>3. Calm(phase', word')
  BY DEF Calm
<1>4. PlacesInv'
  BY <1>2, <1>3, PlacesCalm
<1> QED BY <1>2, <1>4 DEF S!Next

LEMMA evalstringPlaces ==
  ASSUME InputInv, PlacesInv, InputInv', evalstring
  PROVE  PlacesInv' /\ [S!Next]_(S!vars)
<1>1. phase = "return" /\ popfiles(Len(files) - 1) /\ phase' = "start"
  BY DEF evalstring, Goon
<1>2. PICK k : k = Len(files) - 1
  OBVIOUS
<1>3. k \in 1 .. Len(files)
  <2>1. Len(files) \in Nat /\ Len(files) > 1
    BY <1>1, PlacesAre DEF InputInv
  <2> QED BY <1>2, <2>1
<1>4. phase \notin {"start", "skip", "token"}
  BY <1>1
<1> QED BY <1>1, <1>2, <1>3, <1>4, PopfilesPlaces

LEMMA errorPlaces ==
  ASSUME InputInv, PlacesInv, InputInv', error
  PROVE  PlacesInv' /\ [S!Next]_(S!vars)
<1>1. phase = "error" /\ popfiles(1) /\ phase' = "start"
  BY DEF error
<1>2. 1 \in 1 .. Len(files)
  <2>1. Len(files) \in Nat \ {0}
    BY PlacesAre
  <2> QED BY <2>1
<1>3. phase \notin {"start", "skip", "token"}
  BY <1>1
<1> QED BY <1>1, <1>2, <1>3, PopfilesPlaces

LEMMA execPlaces ==
  ASSUME InputInv, PlacesInv, InputInv', exec
  PROVE  PlacesInv' /\ [S!Next]_(S!vars)
<1>1. phase = "exec" /\ phase' \in {"start", "error"}
  BY DEF exec, Goon
<1>2. Calm(phase', word') /\ File.p.unget < 2
  <2>1. phase \notin {"start", "skip", "token"}
    BY <1>1
  <2>2. File.p.unget < 2
    BY <2>1, UngetIs
  <2> QED BY <1>1, <2>2 DEF Calm
<1>3. ASSUME UNCHANGED <<files, read>>, Keeps
      PROVE  PlacesInv' /\ [S!Next]_(S!vars)
  BY <1>2, <1>3, PlacesSame
<1>4. CASE UNCHANGED <<files, memory, read>>
  BY <1>3, <1>4, UsedKeeps
<1>5. CASE UNCHANGED <<files, read>> /\ \E n \in Names, v \in Values : setalias(n, v)
  <2>1. PICK n \in Names, v \in Values : setalias(n, v)
    BY <1>5
  <2>2. Keeps
    BY <1>5, <2>1, SetKeeps DEF PlacesInv
  <2> QED BY <1>3, <1>5, <2>2
<1>6. CASE UNCHANGED <<files, read>> /\ \E ns : freealias(ns)
  <2>1. PICK ns : freealias(ns)
    BY <1>6
  <2>2. PICK cs : heap' = Freed(cs)
    BY <2>1 DEF freealias
  <2>3. Keeps
    BY <2>2, FreedKeeps DEF PlacesInv
  <2> QED BY <1>3, <1>6, <2>3
<1>7. CASE /\ UNCHANGED memory /\ read' = <<>>
           /\ \E s \in Strings : \E f \in {String(NoNul(s)), Script(s)} : files' = Append(files, f)
  <2>1. PICK s \in Strings : \E f \in {String(NoNul(s)), Script(s)} : files' = Append(files, f)
    BY <1>7
  <2>2. PICK f \in {String(NoNul(s)), Script(s)} : files' = Append(files, f)
    BY <2>1
  <2>3. Settled /\ S!Open /\ File'.p.unget < 2
    BY <1>2, <1>7, <2>2, ExecOpens
  <2>4. read' \in Seq(Returned)
    BY <1>7
  <2>5. PlacesInv'
    BY <1>2, <2>3, <2>4, PlacesCalm
  <2> QED BY <2>3, <2>5 DEF S!Next
<1> QED BY <1>4, <1>5, <1>6, <1>7 DEF exec

LEMMA PlacesInvStep ==
  ASSUME Whole, InputInv, PlacesInv, InputInv', [Next]_vars
  PROVE  PlacesInv' /\ [S!Next]_(S!vars)
<1>1. CASE popstring
  BY <1>1, popstringPlaces
<1>2. CASE preadbuffer
  BY <1>2, preadbufferPlaces
<1>3. CASE start
  BY <1>3, startPlaces
<1>4. CASE backslash
  BY <1>4, backslashPlaces
<1>5. CASE pgetc_eatbnl
  BY <1>5, pgetc_eatbnlPlaces
<1>6. CASE semi
  BY <1>6, semiPlaces
<1>7. CASE inword
  BY <1>7, inwordPlaces
<1>8. CASE unread
  BY <1>8, unreadPlaces
<1>9. CASE expand
  BY <1>9, expandPlaces
<1>10. CASE token
  BY <1>10, tokenPlaces
<1>11. CASE skipline
  BY <1>11, skiplinePlaces
<1>12. CASE evalstring
  BY <1>12, evalstringPlaces
<1>13. CASE error
  BY <1>13, errorPlaces
<1>14. CASE exec
  BY <1>14, execPlaces
<1>15. CASE UNCHANGED vars
  <2>1. UNCHANGED <<files, memory, read, phase, word, popped>>
    BY <1>15 DEF vars, parser
  <2>2. Keeps
    BY <2>1, UsedKeeps
  <2>3. Settled /\ UNCHANGED S!vars /\ File' = File
    BY <2>1, <2>2, Stutters
  <2>4. Ahead(File'.p, phase', word', popped', read')
    BY <2>1, <2>3 DEF PlacesInv
  <2> QED BY <2>3, <2>4 DEF PlacesInv, Settled
<1> QED
  BY <1>1, <1>2, <1>3, <1>4, <1>5, <1>6, <1>7, <1>8, <1>9, <1>10, <1>11, <1>12,
     <1>13, <1>14, <1>15 DEF Next

LEMMA PlacesInvInit ==
  Init => PlacesInv /\ S!Init
<1> SUFFICES ASSUME Init
             PROVE  PlacesInv /\ S!Init
  OBVIOUS
<1>1. PICK s \in Scripts : files = <<[Script(s) EXCEPT !.nonul = TRUE]>>
  BY DEF Init
<1>2. PICK h, f, fs : h = heap /\ f = [Script(s) EXCEPT !.nonul = TRUE] /\ fs = files
  OBVIOUS
<1>3. f \in ParseFile /\ Placed(h, f) /\ All(h, f) = NoNul(s) /\ f.p.unget = 0
  <2>1. s \in Seq(Byte)
    BY Chars
  <2>2. Holds(h, f, s)
    BY <1>2, <2>1, OpenedIs
  <2> QED BY <2>2 DEF Holds
<1>4. fs = <<f>> /\ Len(fs) = 1 /\ DOMAIN fs = {1} /\ fs[1] = f /\ fs \in Seq(ParseFile)
  BY <1>1, <1>2, <1>3
<1>5. 1 .. Len(fs) = {1} /\ 1 .. Len(fs) - 1 = {}
  BY <1>4
<1>6. AllPlaced(h, fs)
  BY <1>3, <1>4, <1>5 DEF AllPlaced
<1>7. Saved(h)
  BY <1>2 DEF Saved, Init
<1>8. File = f
  BY <1>2, <1>4 DEF File, Last
<1>9. phase = "start" /\ read = <<>>
  BY DEF Init
<1>10. Ahead(File.p, phase, word, popped, read)
  <2>1. File.p.unget # 2 /\ read \in Seq(Returned) /\ Calm(phase, word)
    BY <1>3, <1>8, <1>9 DEF Calm
  <2> QED BY <2>1, AheadCalm
<1>11. Remaining = [i \in 1 .. 1 |-> NoNul(s)]
  <2>1. DOMAIN files = 1 .. Len(files)
    BY <1>2, <1>4, <1>5
  <2>2. Remaining = Remain(h, fs)
    BY <1>2, <2>1, RemainingIs
  <2> QED BY <1>3, <1>4, <2>2 DEF Remain
<1>12. NoNul(s) \in Contents
  BY DEF Contents
<1>13. S!Init
  BY <1>9, <1>11, <1>12 DEF S!Init
<1> QED BY <1>2, <1>6, <1>7, <1>10, <1>13 DEF PlacesInv

\* Where no alias text ends in a backslash, every character of a file, of a
\* string and of an alias is read once, in its order, whatever is put back,
\* refilled, redefined, opened or left.  An alias text that does end in one
\* can be left with two characters to put back, of which pungetc then returns
\* the wrong one.
THEOREM EveryCharacterIsRead ==
  Whole => (Spec => Reads)
<1>1. Init => S!Init
  BY PlacesInvInit
<1> SUFFICES ASSUME Whole
             PROVE  Spec => Reads
  OBVIOUS
<1>2. InputInv /\ PlacesInv /\ InputInv' /\ [Next]_vars => PlacesInv' /\ [S!Next]_(S!vars)
  BY PlacesInvStep
<1>3. Init => PlacesInv
  BY PlacesInvInit
<1> QED BY <1>1, <1>2, <1>3, InputInvHolds, PTL DEF Spec, Reads, S!Spec

=============================================================================

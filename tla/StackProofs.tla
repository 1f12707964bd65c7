------------------------------ MODULE StackProofs ------------------------------
(***************************************************************************)
(* Theorems about Stack: that it implements Store, for all sizes, blocks   *)
(* and alignments, and any number of texts and marks.                      *)
(***************************************************************************)
EXTENDS Stack, SequenceTheorems, TLAPS

(***************************************************************************)
(* The invariant.                                                          *)
(***************************************************************************)

AllBlocks == Blocks \cup {Base}
Cell == Nat \X Nat
StackType ==
  [mem : [AllBlocks -> Seq(Cell)], chain : Seq(AllBlocks),
   stacknxt : Nat, stacknleft : Nat, sstrend : Nat]
Place == [block : AllBlocks, at : Nat, n : Nat]
MarkType ==
  [stackp : AllBlocks, stacknxt : Nat, stacknleft : Nat, kept : Nat, behind : Nat, held : Nat]

Aligned(n) == \E k \in 0 .. n : n = k * Align

\* A block of the chain has memory, and is there once.  What is free is the rest
\* of the innermost one, behind stacknxt.
Distinct(c) == \A i, j \in DOMAIN c : c[i] = c[j] => i = j
GoodStack(s) ==
  /\ s \in StackType /\ s.chain # <<>> /\ Distinct(s.chain)
  /\ \A i \in DOMAIN s.chain : s.mem[s.chain[i]] # <<>>
  /\ Aligned(s.stacknxt) /\ Aligned(s.stacknleft)
  /\ s.stacknxt + s.stacknleft = Len(s.mem[stackp(s)])
  /\ s.sstrend = s.stacknxt + s.stacknleft

\* What ends at e in block b comes before at in block d.  At the start of a block
\* other than the first nothing has been taken from it: it may move.
InChain(c, b) == \E i \in DOMAIN c : c[i] = b
Inside(c, b, d) == \E i, j \in DOMAIN c : i < j /\ c[i] = b /\ c[j] = d
Under(c, b, e, d, at) ==
  Inside(c, b, d) \/ (b = d /\ InChain(c, b) /\ e <= at /\ (b = Base \/ at > 0))
Below(s, b, e) == Under(s.chain, b, e, stackp(s), s.stacknxt)

\* Texts and marks lie in the order in which they were made.
End(t) == t.at + t.n
Ordered(c, T, M) ==
  /\ \A i, k \in DOMAIN T : i < k => Under(c, T[i].block, End(T[i]), T[k].block, T[k].at)
  /\ \A i \in DOMAIN M, k \in DOMAIN T :
       /\ k <= M[i].kept => Under(c, T[k].block, End(T[k]), M[i].stackp, M[i].stacknxt)
       /\ k > M[i].behind => Under(c, M[i].stackp, M[i].stacknxt, T[k].block, T[k].at)
  /\ \A i, j \in DOMAIN M : i < j =>
       /\ Under(c, M[i].stackp, M[i].stacknxt, M[j].stackp, M[j].stacknxt)
       /\ M[i].behind <= M[j].kept

\* The k-th text is found, n characters of it.
Holds(mem, b, at, k, n) == at + n <= Len(mem[b]) /\ \A i \in 1 .. n : mem[b][at + i] = <<k, i>>
TextsOK(mem, T) ==
  \A k \in DOMAIN T : Aligned(T[k].at) /\ Holds(mem, T[k].block, T[k].at, k, T[k].n)

\* What was being written when a mark was set is the text that is kept behind it.
MarkOK(mem, T, m) ==
  /\ m.kept <= m.behind /\ m.behind <= Len(T) /\ m.held <= m.stacknleft
  /\ Aligned(m.stacknxt) /\ Aligned(m.stacknleft)
  /\ m.stacknxt + m.stacknleft = Len(mem[m.stackp])
  /\ m.held > 0 =>
       m.kept < m.behind /\ T[m.kept + 1] = [block |-> m.stackp, at |-> m.stacknxt, n |-> m.held]

Stacked(s, T, M) ==
  /\ \A k \in DOMAIN T : Below(s, T[k].block, End(T[k]))
  /\ \A k \in DOMAIN M : Below(s, M[k].stackp, M[k].stacknxt)
  /\ Ordered(s.chain, T, M) /\ TextsOK(s.mem, T)
  /\ \A k \in DOMAIN M : MarkOK(s.mem, T, M[k])

Fine(s, T, M, l) ==
  /\ GoodStack(s) /\ T \in Seq(Place) /\ M \in Seq(MarkType) /\ Stacked(s, T, M)
  /\ l \in Nat /\ l <= s.stacknleft /\ Holds(s.mem, stackp(s), s.stacknxt, Len(T) + 1, l)

StackInv == Fine(stack, texts, marks, length) /\ wanted \in Sizes \cup {0}

(***************************************************************************)
(* Sequences.                                                              *)
(***************************************************************************)

LEMMA SeqIs ==
  ASSUME NEW T, NEW s \in Seq(T)
  PROVE  Len(s) \in Nat /\ DOMAIN s = 1 .. Len(s) /\ \A i \in 1 .. Len(s) : s[i] \in T
BY LenProperties, ElementOfSeq

\* Sequences are the functions on intervals from 1.
LEMMA FunctionIs ==
  ASSUME NEW T, NEW n \in Nat, NEW f, DOMAIN f = 1 .. n, f = [i \in 1 .. n |-> f[i]],
         \A i \in 1 .. n : f[i] \in T
  PROVE  f \in Seq(T) /\ Len(f) = n
<1>1. f \in [1 .. n -> T]
  OBVIOUS
<1>2. f \in Seq(T)
  BY <1>1, SeqDef
<1>3. Len(f) \in Nat /\ DOMAIN f = 1 .. Len(f)
  BY <1>2, LenProperties
<1> QED BY <1>2, <1>3

LEMMA PushedIs ==
  ASSUME NEW T, NEW s \in Seq(T), NEW x \in T
  PROVE  /\ Append(s, x) \in Seq(T) /\ Len(Append(s, x)) = Len(s) + 1
         /\ DOMAIN Append(s, x) = 1 .. Len(s) + 1
         /\ Append(s, x)[Len(s) + 1] = x /\ \A i \in 1 .. Len(s) : Append(s, x)[i] = s[i]
BY AppendProperties, SeqIs

LEMMA PartIs ==
  ASSUME NEW T, NEW s \in Seq(T), NEW m \in Nat \ {0}, NEW n \in Nat, m <= n + 1, n <= Len(s)
  PROVE  /\ SubSeq(s, m, n) \in Seq(T) /\ Len(SubSeq(s, m, n)) = n - m + 1
         /\ DOMAIN SubSeq(s, m, n) = 1 .. n - m + 1
         /\ \A i \in 1 .. n - m + 1 : SubSeq(s, m, n)[i] = s[m + i - 1]
<1>1. Len(s) \in Nat /\ \A i \in m .. n : s[i] \in T
  BY SeqIs
<1>2. /\ SubSeq(s, m, n) \in Seq(T)
      /\ Len(SubSeq(s, m, n)) = IF m <= n THEN n - m + 1 ELSE 0
      /\ \A i \in 1 .. n - m + 1 : SubSeq(s, m, n)[i] = s[m + i - 1]
  BY <1>1, SubSeqProperties
<1>3. DOMAIN SubSeq(s, m, n) = 1 .. Len(SubSeq(s, m, n))
  BY <1>2, LenProperties
<1> QED BY <1>2, <1>3

LEMMA CutIs ==
  ASSUME NEW T, NEW s \in Seq(T), NEW n \in 0 .. Len(s)
  PROVE  /\ SubSeq(s, 1, n) \in Seq(T) /\ Len(SubSeq(s, 1, n)) = n
         /\ DOMAIN SubSeq(s, 1, n) = 1 .. n
         /\ \A i \in 1 .. n : SubSeq(s, 1, n)[i] = s[i]
<1>1. n \in Nat /\ n <= Len(s) /\ 1 <= n + 1 /\ n - 1 + 1 = n
  BY SeqIs
<1>2. \A i \in 1 .. n : 1 + i - 1 = i
  OBVIOUS
<1>3. /\ SubSeq(s, 1, n) \in Seq(T) /\ Len(SubSeq(s, 1, n)) = n
      /\ DOMAIN SubSeq(s, 1, n) = 1 .. n
      /\ \A i \in 1 .. n : SubSeq(s, 1, n)[i] = s[1 + i - 1]
  BY <1>1, PartIs
<1> QED BY <1>2, <1>3

LEMMA FrontIs ==
  ASSUME NEW T, NEW s \in Seq(T), s # <<>>
  PROVE  /\ Len(s) > 0 /\ Front(s) \in Seq(T) /\ Len(Front(s)) = Len(s) - 1
         /\ DOMAIN Front(s) = 1 .. Len(s) - 1 /\ Last(s) = s[Len(s)] /\ Last(s) \in T
         /\ \A i \in 1 .. Len(s) - 1 : Front(s)[i] = s[i]
<1>1. Len(s) \in Nat /\ Len(s) > 0 /\ Len(s) - 1 \in 0 .. Len(s)
  BY EmptySeq, SeqIs
<1>2. s[Len(s)] \in T
  BY <1>1, SeqIs
<1> QED BY <1>1, <1>2, CutIs DEF Front, Last

(***************************************************************************)
(* SHELL_ALIGN.                                                            *)
(***************************************************************************)

LEMMA Multiples ==
  ASSUME NEW a \in Nat \ {0}, NEW j \in Nat, NEW k \in Nat
  PROVE  /\ j * a \in Nat /\ (j + k) * a = j * a + k * a
         /\ (k - j) * a = k * a - j * a
         /\ j <= j * a /\ (j * a <= k * a <=> j <= k)
         /\ j * a < k * a + a => j <= k
<1>1. (j + k) * a = j * a + k * a /\ (k - j) * a = k * a - j * a
  BY SMTT(20)
<1>2. j * a \in Nat /\ j <= j * a
  BY SMTT(20)
<1>3. j * a <= k * a <=> j <= k
  BY SMTT(20)
<1>4. j * a < k * a + a => j <= k
  BY SMTT(20)
<1> QED BY <1>1, <1>2, <1>3, <1>4

LEMMA Division ==
  ASSUME NEW a \in Nat \ {0}, NEW x \in Nat
  PROVE  /\ x \div a \in Nat /\ (x \div a) * a <= x /\ x < (x \div a) * a + a
         /\ x % a = 0 => x = (x \div a) * a
<1>1. x \div a \in Nat /\ (x \div a) * a <= x
  BY SMTT(20)
<1>2. x < (x \div a) * a + a
  BY SMTT(20)
<1>3. x % a = 0 => x = (x \div a) * a
  BY SMTT(20)
<1> QED BY <1>1, <1>2, <1>3

LEMMA AlignIs == Align \in Nat \ {0} /\ Align > 0
BY StackAssumption

LEMMA AlignedIs ==
  ASSUME NEW m \in Nat, Aligned(m), NEW n \in Nat, Aligned(n)
  PROVE  Aligned(m + n) /\ (m <= n => Aligned(n - m))
<1>1. PICK j \in 0 .. m : m = j * Align
  BY DEF Aligned
<1>2. PICK k \in 0 .. n : n = k * Align
  BY DEF Aligned
<1>3. j \in Nat /\ k \in Nat /\ j + k \in 0 .. m + n
  OBVIOUS
<1>4. /\ (j + k) * Align = j * Align + k * Align /\ (k - j) * Align = k * Align - j * Align
      /\ j * Align <= k * Align <=> j <= k
  BY <1>3, AlignIs, Multiples
<1>5. Aligned(m + n)
  BY <1>1, <1>2, <1>3, <1>4 DEF Aligned
<1>6. ASSUME m <= n PROVE Aligned(n - m)
  <2>1. j <= k /\ n - m = (k - j) * Align
    BY <1>1, <1>2, <1>4, <1>6
  <2>2. k - j \in Nat
    BY <1>3, <2>1
  <2>3. k - j <= (k - j) * Align
    BY <2>2, <1>3, AlignIs, Multiples
  <2>4. k - j \in 0 .. n - m
    BY <2>1, <2>2, <2>3
  <2> QED BY <2>1, <2>4 DEF Aligned
<1> QED BY <1>5, <1>6

\* The least multiple of Align that is not below n.
LEMMA ShellAlignIs ==
  ASSUME NEW n \in Nat
  PROVE  /\ SHELL_ALIGN(n) \in Nat /\ n <= SHELL_ALIGN(n) /\ Aligned(SHELL_ALIGN(n))
         /\ \A m \in Nat : Aligned(m) /\ n <= m => SHELL_ALIGN(n) <= m
         /\ Aligned(n) => SHELL_ALIGN(n) = n
<1>1. PICK x \in Nat : x = n + Align - 1
  BY AlignIs
<1>2. PICK q : q = x \div Align
  OBVIOUS
<1>3. q \in Nat /\ q * Align <= x /\ x < q * Align + Align
  BY <1>2, AlignIs, Division
<1>4. PICK p : p = q * Align
  OBVIOUS
<1>5. SHELL_ALIGN(n) = p
  BY <1>1, <1>2, <1>4 DEF SHELL_ALIGN
<1>6. p \in Nat /\ q <= p
  BY <1>3, <1>4, AlignIs, Multiples
<1>7. n <= p
  BY <1>1, <1>3, <1>4, <1>6, AlignIs
<1>8. Aligned(p)
  BY <1>3, <1>4, <1>6 DEF Aligned
<1>9. ASSUME NEW m \in Nat, Aligned(m), n <= m
      PROVE  p <= m
  <2>1. PICK k \in 0 .. m : m = k * Align
    BY <1>9 DEF Aligned
  <2>2. k \in Nat /\ q * Align < k * Align + Align
    BY <2>1, <1>1, <1>3, <1>9, <1>4, <1>6, AlignIs
  <2>3. q <= k /\ (q * Align <= k * Align <=> q <= k)
    BY <2>2, <1>3, AlignIs, Multiples
  <2> QED BY <2>1, <2>3, <1>4
<1>10. Aligned(n) => p = n
  BY <1>6, <1>7, <1>9
<1> QED BY <1>5, <1>6, <1>7, <1>8, <1>9, <1>10

LEMMA SizesAligned ==
  /\ MINSIZE \in Nat /\ MINSIZE > 0 /\ Aligned(MINSIZE)
  /\ GrowMin \in Nat /\ GrowMin > 0 /\ Aligned(GrowMin) /\ Aligned(0)
<1>1. ASSUME NEW x \in Nat, x % Align = 0
      PROVE  Aligned(x)
  <2>1. PICK q : q = x \div Align
    OBVIOUS
  <2>2. q \in Nat /\ x = q * Align
    BY <2>1, <1>1, AlignIs, Division
  <2>3. q <= q * Align
    BY <2>2, AlignIs, Multiples
  <2> QED BY <2>2, <2>3 DEF Aligned
<1>2. /\ MINSIZE \in Nat /\ MINSIZE > 0 /\ MINSIZE % Align = 0
      /\ GrowMin \in Nat /\ GrowMin > 0 /\ GrowMin % Align = 0
  BY StackAssumption
<1>3. Aligned(0)
  BY AlignIs DEF Aligned
<1> QED BY <1>1, <1>2, <1>3

(***************************************************************************)
(* The order of places.                                                    *)
(***************************************************************************)

LEMMA UnderLonger ==
  ASSUME NEW c, NEW b, NEW d, NEW e \in Nat, NEW f \in Nat, NEW at \in Nat, NEW up \in Nat,
         Under(c, b, e, d, at), f <= e, at <= up
  PROVE  Under(c, b, f, d, up)
BY DEF Under

\* Two chains begin alike.
Prefix(c, g, n) == n <= Len(c) /\ n <= Len(g) /\ \A i \in 1 .. n : g[i] = c[i]

Among(c, j, b) == \E i \in 1 .. j : c[i] = b

\* What is under a place in the blocks that they share is under it in both.
LEMMA UnderPrefix ==
  ASSUME NEW c \in Seq(AllBlocks), NEW g \in Seq(AllBlocks), Distinct(c),
         NEW n \in Nat, Prefix(c, g, n), NEW j \in 1 .. n,
         NEW b, NEW e \in Nat, NEW at \in Nat, Under(c, b, e, c[j], at)
  PROVE  Under(g, b, e, c[j], at) /\ Among(c, j, b)
<1>1. /\ DOMAIN c = 1 .. Len(c) /\ DOMAIN g = 1 .. Len(g) /\ Len(c) \in Nat /\ Len(g) \in Nat
      /\ n <= Len(c) /\ n <= Len(g) /\ \A i \in 1 .. n : g[i] = c[i]
  BY SeqIs DEF Prefix
<1>2. \A i, k \in 1 .. Len(c) : c[i] = c[k] => i = k
  BY <1>1 DEF Distinct
<1>3. CASE Inside(c, b, c[j])
  <2>1. PICK i, k \in 1 .. Len(c) : i < k /\ c[i] = b /\ c[k] = c[j]
    BY <1>1, <1>3 DEF Inside
  <2>2. k = j /\ i \in 1 .. n /\ j \in 1 .. n /\ i < j /\ i \in 1 .. Len(g) /\ j \in 1 .. Len(g)
    BY <2>1, <1>1, <1>2
  <2>3. g[i] = b /\ g[j] = c[j]
    BY <2>1, <2>2, <1>1
  <2>4. Inside(g, b, c[j])
    BY <2>2, <2>3, <1>1 DEF Inside
  <2>5. i \in 1 .. j
    BY <2>2
  <2> QED BY <2>1, <2>4, <2>5 DEF Under, Among
<1>4. CASE b = c[j] /\ e <= at /\ (b = Base \/ at > 0)
  <2>1. j \in 1 .. Len(g) /\ g[j] = c[j] /\ j \in 1 .. j
    BY <1>1
  <2>2. InChain(g, b)
    BY <2>1, <1>1, <1>4 DEF InChain
  <2> QED BY <2>1, <2>2, <1>4 DEF Under, Among
<1> QED BY <1>3, <1>4 DEF Under

LEMMA InsidePrefix ==
  ASSUME NEW c \in Seq(AllBlocks), NEW g \in Seq(AllBlocks), NEW n \in Nat, Prefix(c, g, n),
         NEW i \in 1 .. n, n < Len(g)
  PROVE  Inside(g, c[i], g[Len(g)])
<1>1. /\ DOMAIN g = 1 .. Len(g) /\ Len(g) \in Nat /\ g[i] = c[i]
      /\ i \in 1 .. Len(g) /\ Len(g) \in 1 .. Len(g) /\ i < Len(g)
  BY SeqIs DEF Prefix
<1> QED BY <1>1 DEF Inside

\* What is under a place in the last block of a chain.
LEMMA UnderLast ==
  ASSUME NEW c \in Seq(AllBlocks), NEW n \in Nat \ {0}, n <= Len(c), Distinct(c),
         NEW b, NEW e \in Nat, NEW at \in Nat, Under(c, b, e, c[n], at)
  PROVE  \E i \in 1 .. n : c[i] = b /\ (i < n \/ (e <= at /\ (b = Base \/ at > 0)))
<1>1. DOMAIN c = 1 .. Len(c) /\ Len(c) \in Nat /\ n \in 1 .. Len(c)
  BY SeqIs
<1>2. \A i, k \in 1 .. Len(c) : c[i] = c[k] => i = k
  BY <1>1 DEF Distinct
<1>3. CASE Inside(c, b, c[n])
  <2>1. PICK i, k \in 1 .. Len(c) : i < k /\ c[i] = b /\ c[k] = c[n]
    BY <1>1, <1>3 DEF Inside
  <2>2. k = n
    BY <2>1, <1>1, <1>2
  <2>3. i \in 1 .. n /\ i < n
    BY <2>1, <2>2
  <2> QED BY <2>1, <2>3
<1>4. CASE b = c[n] /\ e <= at /\ (b = Base \/ at > 0)
  <2>1. n \in 1 .. n
    OBVIOUS
  <2> QED BY <2>1, <1>4
<1> QED BY <1>3, <1>4 DEF Under

(***************************************************************************)
(* What the functions of memalloc.c do.                                    *)
(***************************************************************************)

LEMMA StackIs ==
  ASSUME NEW s, GoodStack(s)
  PROVE  /\ s.mem \in [AllBlocks -> Seq(Cell)] /\ s.chain \in Seq(AllBlocks) /\ s.chain # <<>>
         /\ Len(s.chain) \in Nat /\ Len(s.chain) > 0
         /\ DOMAIN s.chain = 1 .. Len(s.chain)
         /\ stackp(s) = s.chain[Len(s.chain)] /\ stackp(s) \in AllBlocks
         /\ s.stacknxt \in Nat /\ s.stacknleft \in Nat /\ s.sstrend \in Nat
         /\ Aligned(s.stacknxt) /\ Aligned(s.stacknleft)
         /\ s.stacknxt + s.stacknleft = Len(s.mem[stackp(s)])
<1>1. s \in StackType /\ s.chain # <<>>
  BY DEF GoodStack
<1>2. /\ s.mem \in [AllBlocks -> Seq(Cell)] /\ s.chain \in Seq(AllBlocks)
      /\ s.stacknxt \in Nat /\ s.stacknleft \in Nat /\ s.sstrend \in Nat
  BY <1>1 DEF StackType
<1>3. /\ Len(s.chain) > 0 /\ Last(s.chain) = s.chain[Len(s.chain)] /\ Last(s.chain) \in AllBlocks
  BY <1>1, <1>2, FrontIs
<1>4. Len(s.chain) \in Nat /\ DOMAIN s.chain = 1 .. Len(s.chain)
  BY <1>2, SeqIs
<1>5. stackp(s) = Last(s.chain)
  BY DEF stackp
<1>6. Aligned(s.stacknxt) /\ Aligned(s.stacknleft) /\ s.stacknxt + s.stacknleft = Len(s.mem[stackp(s)])
  BY DEF GoodStack
<1> QED BY <1>1, <1>2, <1>3, <1>4, <1>5, <1>6

LEMMA MemIs ==
  ASSUME NEW mem \in [AllBlocks -> Seq(Cell)], NEW b \in AllBlocks
  PROVE  /\ mem[b] \in Seq(Cell) /\ Len(mem[b]) \in Nat /\ DOMAIN mem[b] = 1 .. Len(mem[b])
         /\ \A i \in 1 .. Len(mem[b]) : mem[b][i] \in Cell
<1>1. mem[b] \in Seq(Cell)
  OBVIOUS
<1> QED BY <1>1, SeqIs

\* The same blocks of the same sizes.
Alike(s, r) ==
  /\ r \in StackType /\ r.chain = s.chain /\ r.stacknxt + r.stacknleft = s.stacknxt + s.stacknleft
  /\ r.sstrend = s.sstrend /\ \A b \in AllBlocks : Len(r.mem[b]) = Len(s.mem[b])

LEMMA AlikeIsGood ==
  ASSUME NEW s, GoodStack(s), NEW r, Alike(s, r), Aligned(r.stacknxt), Aligned(r.stacknleft)
  PROVE  GoodStack(r) /\ stackp(r) = stackp(s)
<1>1. r.chain = s.chain /\ stackp(r) = stackp(s) /\ stackp(s) \in AllBlocks /\ r \in StackType
  BY StackIs DEF Alike, stackp
<1>2. r.mem \in [AllBlocks -> Seq(Cell)]
  BY <1>1 DEF StackType
<1>3. ASSUME NEW i \in DOMAIN r.chain
      PROVE  r.mem[r.chain[i]] # <<>>
  <2>1. s.chain \in Seq(AllBlocks) /\ i \in DOMAIN s.chain /\ s.mem[s.chain[i]] # <<>>
    BY <1>1, <1>3, StackIs DEF GoodStack
  <2>2. s.chain[i] \in AllBlocks
    BY <2>1, SeqIs
  <2>3. PICK b \in AllBlocks : b = s.chain[i] /\ b = r.chain[i]
    BY <2>2, <1>1
  <2>4. s.mem[b] \in Seq(Cell) /\ r.mem[b] \in Seq(Cell) /\ s.mem[b] # <<>>
    BY <2>1, <2>3, <1>2, StackIs
  <2>5. Len(s.mem[b]) # 0 /\ Len(r.mem[b]) = Len(s.mem[b])
    BY <2>4, EmptySeq DEF Alike
  <2> QED BY <2>3, <2>4, <2>5, EmptySeq
<1>4. r.stacknxt + r.stacknleft = Len(r.mem[stackp(r)]) /\ r.sstrend = r.stacknxt + r.stacknleft
  <2>1. /\ r.stacknxt + r.stacknleft = s.stacknxt + s.stacknleft
        /\ r.sstrend = s.sstrend /\ Len(r.mem[stackp(s)]) = Len(s.mem[stackp(s)])
    BY <1>1 DEF Alike
  <2>2. s.stacknxt + s.stacknleft = Len(s.mem[stackp(s)]) /\ s.sstrend = s.stacknxt + s.stacknleft
    BY DEF GoodStack
  <2> QED BY <2>1, <2>2, <1>1
<1>5. s.chain # <<>> /\ Distinct(s.chain)
  BY DEF GoodStack
<1> QED BY <1>1, <1>3, <1>4, <1>5 DEF GoodStack

LEMMA CellsIs ==
  ASSUME NEW n \in Nat
  PROVE  Cells(n) \in Seq(Cell) /\ Len(Cells(n)) = n
<1>1. Junk \in Cell
  BY DEF Junk, Cell
<1>2. PICK f : f = Cells(n)
  OBVIOUS
<1>3. DOMAIN f = 1 .. n /\ f = [i \in 1 .. n |-> f[i]] /\ \A i \in 1 .. n : f[i] \in Cell
  BY <1>1, <1>2 DEF Cells
<1> QED BY <1>2, <1>3, FunctionIs

LEMMA TextIs ==
  ASSUME NEW k \in Nat, NEW n \in Nat
  PROVE  /\ Text(k, n) \in Seq(Cell) /\ Len(Text(k, n)) = n
         /\ \A i \in 1 .. n : Text(k, n)[i] = <<k, i>>
<1>1. PICK f : f = Text(k, n)
  OBVIOUS
<1>2. DOMAIN f = 1 .. n /\ f = [i \in 1 .. n |-> f[i]] /\ \A i \in 1 .. n : f[i] = <<k, i>>
  BY <1>1 DEF Text
<1>3. ASSUME NEW i \in 1 .. n
      PROVE  f[i] \in Cell
  <2>1. f[i] = <<k, i>>
    BY <1>2
  <2>2. i \in Nat
    OBVIOUS
  <2>3. <<k, i>> \in Nat \X Nat
    BY ONLY <2>2, k \in Nat
  <2> QED BY <2>1, <2>3 DEF Cell
<1>4. f \in Seq(Cell) /\ Len(f) = n
  BY <1>2, <1>3, FunctionIs
<1> QED BY <1>1, <1>2, <1>4

\* The first character of a cell's pair is its text.
LEMMA CellIs ==
  /\ \A c \in Cell : c[1] \in Nat
  /\ \A k, i : <<k, i>>[1] = k
  /\ Junk \in Cell
BY DEF Cell, Junk

Over(s, r, b, at, x) ==
  /\ Alike(s, r) /\ r.stacknxt = s.stacknxt /\ r.stacknleft = s.stacknleft
  /\ \A d \in AllBlocks : d # b => r.mem[d] = s.mem[d]
  /\ \A i \in 1 .. Len(s.mem[b]) :
       r.mem[b][i] = IF i - at \in 1 .. Len(x) THEN x[i - at] ELSE s.mem[b][i]

LEMMA WriteIs ==
  ASSUME NEW s, GoodStack(s), NEW b \in AllBlocks, NEW at \in Nat, NEW x \in Seq(Cell),
         NEW r, r = Write(s, b, at, x)
  PROVE  Over(s, r, b, at, x)
<1>1. s \in StackType
  BY DEF GoodStack
<1>2. s.mem \in [AllBlocks -> Seq(Cell)]
  BY StackIs
<1>3. PICK m : m = s.mem[b]
  OBVIOUS
<1>4. m \in Seq(Cell) /\ Len(m) \in Nat /\ DOMAIN m = 1 .. Len(m) /\ \A i \in 1 .. Len(m) : m[i] \in Cell
  BY <1>2, <1>3, MemIs
<1>5. Len(x) \in Nat /\ DOMAIN x = 1 .. Len(x) /\ \A i \in 1 .. Len(x) : x[i] \in Cell
  BY SeqIs
<1>6. PICK f : f = [i \in DOMAIN m |-> IF i - at \in DOMAIN x THEN x[i - at] ELSE m[i]]
  OBVIOUS
<1>7. /\ DOMAIN f = 1 .. Len(m) /\ f = [i \in 1 .. Len(m) |-> f[i]]
      /\ \A i \in 1 .. Len(m) : f[i] = IF i - at \in 1 .. Len(x) THEN x[i - at] ELSE m[i]
  BY <1>4, <1>5, <1>6
<1>8. \A i \in 1 .. Len(m) : f[i] \in Cell
  BY <1>4, <1>5, <1>7
<1>9. f \in Seq(Cell) /\ Len(f) = Len(m)
  BY <1>4, <1>7, <1>8, FunctionIs
<1>11. r = [s EXCEPT !.mem = [s.mem EXCEPT ![b] = f]]
  BY <1>1, <1>2, <1>3, <1>6 DEF Write, StackType
<1>12. PICK g : g = [s.mem EXCEPT ![b] = f]
  OBVIOUS
<1>13. g \in [AllBlocks -> Seq(Cell)] /\ g[b] = f /\ \A d \in AllBlocks : d # b => g[d] = s.mem[d]
  BY <1>2, <1>9, <1>12
<1>14. /\ r \in StackType /\ r.mem = g /\ r.chain = s.chain /\ r.stacknxt = s.stacknxt
       /\ r.stacknleft = s.stacknleft /\ r.sstrend = s.sstrend
  BY <1>1, <1>11, <1>12, <1>13 DEF StackType
<1>15. \A d \in AllBlocks : Len(r.mem[d]) = Len(s.mem[d])
  BY <1>3, <1>9, <1>13, <1>14
<1>16. Alike(s, r)
  BY <1>14, <1>15 DEF Alike
<1>17. \A i \in 1 .. Len(s.mem[b]) :
         r.mem[b][i] = IF i - at \in 1 .. Len(x) THEN x[i - at] ELSE s.mem[b][i]
  BY <1>3, <1>7, <1>13, <1>14
<1> QED BY <1>13, <1>14, <1>16, <1>17 DEF Over

LEMMA ClearedIs ==
  ASSUME NEW s, GoodStack(s), NEW n \in Nat
  PROVE  LET r == Cleared(s, n) IN
         /\ Alike(s, r) /\ r.stacknxt = s.stacknxt /\ r.stacknleft = s.stacknleft
         /\ \A b \in AllBlocks : \A i \in 1 .. Len(s.mem[b]) :
              s.mem[b][i][1] <= n => r.mem[b][i] = s.mem[b][i]
<1>1. s \in StackType
  BY DEF GoodStack
<1>2. s.mem \in [AllBlocks -> Seq(Cell)] /\ DOMAIN s.mem = AllBlocks
  BY StackIs
<1>3. PICK r : r = Cleared(s, n)
  OBVIOUS
<1>4. PICK g : g = [b \in DOMAIN s.mem |-> [i \in DOMAIN s.mem[b] |->
                       IF s.mem[b][i][1] > n THEN Junk ELSE s.mem[b][i]]]
  OBVIOUS
<1>5. r = [s EXCEPT !.mem = g]
  BY <1>1, <1>3, <1>4 DEF Cleared, StackType
<1>6. DOMAIN g = AllBlocks /\ g = [b \in AllBlocks |-> g[b]]
  BY <1>2, <1>4
<1>7. ASSUME NEW b \in AllBlocks
      PROVE  /\ g[b] \in Seq(Cell) /\ Len(g[b]) = Len(s.mem[b])
             /\ \A i \in 1 .. Len(s.mem[b]) : s.mem[b][i][1] <= n => g[b][i] = s.mem[b][i]
  <2>1. PICK m, f : m = s.mem[b] /\ f = g[b]
    OBVIOUS
  <2>2. m \in Seq(Cell) /\ Len(m) \in Nat /\ DOMAIN m = 1 .. Len(m) /\ \A i \in 1 .. Len(m) : m[i] \in Cell
    BY <1>2, <2>1, MemIs
  <2>3. /\ DOMAIN f = 1 .. Len(m) /\ f = [i \in 1 .. Len(m) |-> f[i]]
        /\ \A i \in 1 .. Len(m) : f[i] = IF m[i][1] > n THEN Junk ELSE m[i]
    BY <1>2, <1>4, <2>1, <2>2
  <2>4. \A i \in 1 .. Len(m) : f[i] \in Cell
    BY <2>2, <2>3, CellIs
  <2>5. f \in Seq(Cell) /\ Len(f) = Len(m)
    BY <2>2, <2>3, <2>4, FunctionIs
  <2>6. \A i \in 1 .. Len(m) : m[i][1] <= n => f[i] = m[i]
    <3>1. \A i \in 1 .. Len(m) : m[i][1] \in Nat
      BY <2>2, CellIs
    <3> QED BY <2>3, <3>1
  <2> QED BY <2>1, <2>5, <2>6
<1>8. g \in [AllBlocks -> Seq(Cell)]
  BY <1>6, <1>7
<1>9. /\ r \in StackType /\ r.mem = g /\ r.chain = s.chain /\ r.stacknxt = s.stacknxt
      /\ r.stacknleft = s.stacknleft /\ r.sstrend = s.sstrend
  BY <1>1, <1>5, <1>8 DEF StackType
<1>10. Alike(s, r)
  BY <1>7, <1>9 DEF Alike
<1> QED BY <1>3, <1>7, <1>9, <1>10

LEMMA TakeIs ==
  ASSUME NEW s, GoodStack(s), NEW n \in Nat, ~Overflows(s, n)
  PROVE  LET r == Take(s, n) IN
         /\ GoodStack(r) /\ r.chain = s.chain /\ r.mem = s.mem /\ stackp(r) = stackp(s)
         /\ r.stacknxt = s.stacknxt + SHELL_ALIGN(n) /\ r.stacknleft = s.stacknleft - SHELL_ALIGN(n)
<1>1. s \in StackType
  BY DEF GoodStack
<1>2. /\ s.stacknxt \in Nat /\ s.stacknleft \in Nat /\ Aligned(s.stacknxt) /\ Aligned(s.stacknleft)
      /\ s.mem \in [AllBlocks -> Seq(Cell)] /\ s.chain \in Seq(AllBlocks) /\ s.sstrend \in Nat
  BY StackIs
<1>3. PICK a \in Nat : a = SHELL_ALIGN(n) /\ Aligned(a)
  BY ShellAlignIs
<1>4. a <= s.stacknleft
  BY <1>2, <1>3 DEF Overflows
<1>5. PICK r : r = Take(s, n)
  OBVIOUS
<1>6. r = [s EXCEPT !.stacknxt = s.stacknxt + a, !.stacknleft = s.stacknleft - a]
  BY <1>1, <1>3, <1>5 DEF Take, StackType
<1>7. s.stacknxt + a \in Nat /\ s.stacknleft - a \in Nat
  BY <1>2, <1>3, <1>4
<1>8. /\ r \in StackType /\ r.chain = s.chain /\ r.mem = s.mem /\ r.sstrend = s.sstrend
      /\ r.stacknxt = s.stacknxt + a /\ r.stacknleft = s.stacknleft - a
  BY <1>1, <1>6, <1>7 DEF StackType
<1>9. Aligned(r.stacknxt) /\ Aligned(r.stacknleft)
  BY <1>2, <1>3, <1>4, <1>8, AlignedIs
<1>10. r.stacknxt + r.stacknleft = s.stacknxt + s.stacknleft
  BY <1>2, <1>3, <1>8
<1>11. Alike(s, r)
  BY <1>8, <1>10 DEF Alike
<1> QED BY <1>3, <1>5, <1>8, <1>9, <1>11, AlikeIsGood

\* A block with as many bytes has been added.
Added(s, r, b, size) ==
  /\ b \in Blocks /\ s.mem[b] = <<>> /\ r.chain = Append(s.chain, b)
  /\ r.stacknxt = 0 /\ r.stacknleft = size /\ Len(r.mem[b]) = size
  /\ \A d \in AllBlocks : d # b => r.mem[d] = s.mem[d]

LEMMA NewBlockIs ==
  ASSUME NEW s, GoodStack(s), NEW n \in Nat, NEW b \in Free(s)
  PROVE  LET r == NewBlock(s, n, b) IN
         /\ GoodStack(r) /\ \E size \in Nat : SHELL_ALIGN(n) <= size /\ Added(s, r, b, size)
<1>1. b \in Blocks /\ b \in AllBlocks /\ s.mem[b] = <<>>
  BY DEF Free, AllBlocks
<1>2. /\ s.mem \in [AllBlocks -> Seq(Cell)] /\ s.chain \in Seq(AllBlocks)
      /\ Len(s.chain) \in Nat /\ DOMAIN s.chain = 1 .. Len(s.chain)
      /\ \A i \in 1 .. Len(s.chain) : s.chain[i] \in AllBlocks /\ s.mem[s.chain[i]] # <<>>
      /\ Distinct(s.chain)
  BY StackIs, SeqIs DEF GoodStack
<1>3. PICK size \in Nat : /\ size = Larger(SHELL_ALIGN(n), MINSIZE) /\ size > 0
                          /\ Aligned(size) /\ SHELL_ALIGN(n) <= size
  BY ShellAlignIs, SizesAligned DEF Larger
<1>4. PICK x : x = Cells(size)
  OBVIOUS
<1>5. x \in Seq(Cell) /\ Len(x) = size /\ x # <<>>
  BY <1>3, <1>4, CellsIs, EmptySeq
<1>6. PICK g : g = [s.mem EXCEPT ![b] = x]
  OBVIOUS
<1>7. g \in [AllBlocks -> Seq(Cell)] /\ g[b] = x /\ \A d \in AllBlocks : d # b => g[d] = s.mem[d]
  BY <1>1, <1>2, <1>5, <1>6
<1>8. PICK c : c = Append(s.chain, b)
  OBVIOUS
<1>9. /\ c \in Seq(AllBlocks) /\ Len(c) = Len(s.chain) + 1 /\ DOMAIN c = 1 .. Len(s.chain) + 1
      /\ c[Len(s.chain) + 1] = b /\ \A i \in 1 .. Len(s.chain) : c[i] = s.chain[i]
  BY <1>1, <1>2, <1>8, PushedIs
<1>10. PICK r : r = NewBlock(s, n, b)
  OBVIOUS
<1>11. r = [mem |-> g, chain |-> c, stacknxt |-> 0, stacknleft |-> size, sstrend |-> size]
  BY <1>3, <1>4, <1>6, <1>8, <1>10 DEF NewBlock
<1>12. /\ r \in StackType /\ r.mem = g /\ r.chain = c /\ r.stacknxt = 0 /\ r.stacknleft = size
       /\ r.sstrend = size
  BY <1>3, <1>7, <1>9, <1>11 DEF StackType
<1>13. \A i \in 1 .. Len(s.chain) : s.chain[i] # b
  BY <1>1, <1>2
<1>14. Distinct(c)
  <2>1. PICK k \in Nat : k = Len(s.chain)
    BY <1>2
  <2>2. \A i, j \in 1 .. k : s.chain[i] = s.chain[j] => i = j
    BY <1>2, <2>1 DEF Distinct
  <2>3. DOMAIN c = 1 .. k + 1 /\ c[k + 1] = b /\ \A i \in 1 .. k : c[i] = s.chain[i] /\ c[i] # b
    BY <1>9, <1>13, <2>1
  <2>4. \A i \in 1 .. k + 1 : i \in 1 .. k \/ i = k + 1
    BY <2>1
  <2> QED BY <2>2, <2>3, <2>4 DEF Distinct
<1>15. ASSUME NEW i \in DOMAIN c
       PROVE  g[c[i]] # <<>>
  <2>1. CASE i \in 1 .. Len(s.chain)
    <3>1. PICK d \in AllBlocks : d = s.chain[i] /\ d = c[i] /\ d # b /\ s.mem[d] # <<>>
      BY <1>2, <1>9, <1>13, <2>1
    <3> QED BY <3>1, <1>7
  <2>2. CASE i = Len(s.chain) + 1
    BY <2>2, <1>5, <1>7, <1>9
  <2> QED BY <2>1, <2>2, <1>2, <1>9
<1>16. stackp(r) = b /\ c # <<>>
  <2>1. c # <<>>
    BY <1>9, <1>2, EmptySeq
  <2>2. Last(c) = c[Len(c)]
    BY <1>9, <2>1, FrontIs
  <2> QED BY <2>1, <2>2, <1>9, <1>12 DEF stackp
<1>17. GoodStack(r)
  BY <1>3, <1>5, <1>7, <1>12, <1>14, <1>15, <1>16, SizesAligned DEF GoodStack
<1>18. Added(s, r, b, size)
  BY <1>1, <1>5, <1>7, <1>8, <1>12 DEF Added
<1> QED BY <1>3, <1>10, <1>17, <1>18

LEMMA NewlenIs ==
  ASSUME NEW s, GoodStack(s)
  PROVE  newlen(s) \in Nat /\ Aligned(newlen(s)) /\ newlen(s) > s.stacknleft
<1>1. PICK n : n = s.stacknleft
  OBVIOUS
<1>2. n \in Nat /\ Aligned(n)
  BY <1>1, StackIs
<1>3. PICK m \in Nat : m = 2 * n /\ Aligned(m)
  <2>1. Aligned(n + n) /\ n + n \in Nat /\ 2 * n = n + n
    BY <1>2, AlignedIs
  <2> QED BY <2>1
<1>4. newlen(s) = m + IF m < GrowMin THEN GrowMin ELSE 0
  BY <1>1, <1>3 DEF newlen
<1>5. CASE m < GrowMin
  <2>1. Aligned(m + GrowMin)
    BY <1>3, SizesAligned, AlignedIs
  <2>2. newlen(s) = m + GrowMin
    BY <1>4, <1>5
  <2> QED BY <2>1, <2>2, <1>1, <1>2, <1>3, SizesAligned
<1>6. CASE ~(m < GrowMin)
  BY <1>1, <1>2, <1>3, <1>4, <1>6, SizesAligned
<1> QED BY <1>5, <1>6

\* The innermost block has moved, and is larger.
Grown(s, r, b) ==
  /\ b \in AllBlocks /\ r.chain = Append(Front(s.chain), b)
  /\ r.stacknxt = 0 /\ r.stacknleft = newlen(s) /\ Len(r.mem[b]) = newlen(s)
  /\ \A i \in 1 .. s.stacknleft : r.mem[b][i] = s.mem[stackp(s)][i]
  /\ \A d \in AllBlocks : d # b /\ d # stackp(s) => r.mem[d] = s.mem[d]

LEMMA LargerIs ==
  ASSUME NEW x \in Seq(Cell), NEW n \in Nat, Len(x) <= n
  PROVE  LET y == x \o Cells(n - Len(x)) IN
         y \in Seq(Cell) /\ Len(y) = n /\ \A i \in 1 .. Len(x) : y[i] = x[i]
<1>1. Len(x) \in Nat
  BY SeqIs
<1>2. PICK z : z = Cells(n - Len(x))
  OBVIOUS
<1>3. z \in Seq(Cell) /\ Len(z) = n - Len(x)
  <2>1. n - Len(x) \in Nat
    BY <1>1
  <2> QED BY <2>1, <1>2, CellsIs
<1>4. /\ x \o z \in Seq(Cell) /\ Len(x \o z) = Len(x) + Len(z)
      /\ \A i \in 1 .. Len(x) + Len(z) : (x \o z)[i] = IF i <= Len(x) THEN x[i] ELSE z[i - Len(x)]
  BY <1>3, ConcatProperties
<1>5. \A i \in 1 .. Len(x) : i \in 1 .. Len(x) + Len(z) /\ i <= Len(x)
  BY <1>1, <1>3
<1>6. \A i \in 1 .. Len(x) : (x \o z)[i] = x[i]
  BY <1>4, <1>5
<1>7. Len(x \o z) = n
  BY <1>1, <1>3, <1>4
<1> QED BY <1>2, <1>4, <1>6, <1>7

LEMMA ReallocIs ==
  ASSUME NEW s, GoodStack(s), AtStart(s), NEW b \in Free(s) \cup {stackp(s)}
  PROVE  GoodStack(realloc(s, b)) /\ Grown(s, realloc(s, b), b)
<1>1. PICK old : old = stackp(s)
  OBVIOUS
<1>2. /\ old \in AllBlocks /\ b \in AllBlocks /\ (b # old => s.mem[b] = <<>>)
      /\ s.stacknxt = 0
  BY <1>1, StackIs DEF Free, AllBlocks, AtStart
<1>3. PICK k \in Nat : k = Len(s.chain) /\ k > 0
  BY StackIs
<1>4. /\ s.mem \in [AllBlocks -> Seq(Cell)] /\ s.chain \in Seq(AllBlocks) /\ s.chain # <<>>
      /\ DOMAIN s.chain = 1 .. k /\ s.chain[k] = old /\ s.stacknleft \in Nat
      /\ 0 + s.stacknleft = Len(s.mem[old])
      /\ \A i \in 1 .. k : s.chain[i] \in AllBlocks /\ s.mem[s.chain[i]] # <<>>
  BY <1>1, <1>2, <1>3, StackIs, SeqIs DEF GoodStack
<1>5. \A i, j \in 1 .. k : s.chain[i] = s.chain[j] => i = j
  BY <1>4 DEF GoodStack, Distinct
<1>6. PICK n \in Nat : n = newlen(s) /\ Aligned(n) /\ n > s.stacknleft
  BY NewlenIs
<1>7. PICK x \in Seq(Cell) : x = s.mem[old] /\ Len(x) = s.stacknleft
  BY <1>2, <1>4
<1>8. PICK y : y = x \o Cells(n - Len(x))
  OBVIOUS
<1>9. y \in Seq(Cell) /\ Len(y) = n /\ \A i \in 1 .. Len(x) : y[i] = x[i]
  <2>1. Len(x) <= n
    BY <1>4, <1>6, <1>7
  <2> QED BY <2>1, <1>8, LargerIs
<1>10. y # <<>>
  BY <1>4, <1>6, <1>9, EmptySeq
<1>11. PICK g : g = [s.mem EXCEPT ![old] = <<>>, ![b] = y]
  OBVIOUS
<1>12. /\ g \in [AllBlocks -> Seq(Cell)] /\ g[b] = y
       /\ \A d \in AllBlocks : d # b /\ d # old => g[d] = s.mem[d]
  <2>1. <<>> \in Seq(Cell)
    BY EmptySeq
  <2> QED BY <2>1, <1>2, <1>4, <1>9, <1>11
<1>13. PICK f : f = Front(s.chain)
  OBVIOUS
<1>14. f \in Seq(AllBlocks) /\ Len(f) = k - 1 /\ \A i \in 1 .. k - 1 : f[i] = s.chain[i]
  BY <1>3, <1>4, <1>13, FrontIs
<1>15. PICK c : c = Append(f, b)
  OBVIOUS
<1>16. c \in Seq(AllBlocks) /\ Len(c) = k /\ DOMAIN c = 1 .. k /\ c[k] = b /\ \A i \in 1 .. k - 1 : c[i] = s.chain[i]
  BY <1>2, <1>3, <1>14, <1>15, PushedIs
<1>17. PICK r : r = realloc(s, b)
  OBVIOUS
<1>18. r = [mem |-> g, chain |-> c, stacknxt |-> 0, stacknleft |-> n, sstrend |-> n]
  BY <1>1, <1>6, <1>7, <1>8, <1>11, <1>13, <1>15, <1>17 DEF realloc
<1>19. /\ r \in StackType /\ r.mem = g /\ r.chain = c /\ r.stacknxt = 0 /\ r.stacknleft = n
       /\ r.sstrend = n
  BY <1>6, <1>12, <1>16, <1>18 DEF StackType
<1>20. ASSUME NEW i \in 1 .. k - 1
       PROVE  c[i] \in AllBlocks /\ c[i] # b /\ c[i] # old /\ s.mem[c[i]] # <<>> /\ i \in 1 .. k /\ c[i] = s.chain[i]
  <2>1. i \in 1 .. k /\ k \in 1 .. k /\ i # k
    BY <1>3
  <2>2. c[i] = s.chain[i] /\ s.chain[i] # old
    BY <2>1, <1>4, <1>5, <1>16
  <2> QED BY <2>1, <2>2, <1>2, <1>4
<1>21. \A i \in 1 .. k : i \in 1 .. k - 1 \/ i = k
  BY <1>3
<1>22. Distinct(c)
  BY <1>5, <1>16, <1>20, <1>21 DEF Distinct
<1>23. \A i \in DOMAIN c : g[c[i]] # <<>>
  <2>1. \A i \in 1 .. k - 1 : g[c[i]] # <<>>
    BY <1>12, <1>20
  <2>2. g[c[k]] # <<>>
    BY <1>10, <1>12, <1>16
  <2> QED BY <2>1, <2>2, <1>16, <1>21
<1>24. stackp(r) = b /\ c # <<>>
  <2>1. c # <<>>
    BY <1>3, <1>16, EmptySeq
  <2>2. Last(c) = c[Len(c)]
    BY <1>16, <2>1, FrontIs
  <2> QED BY <2>1, <2>2, <1>16, <1>19 DEF stackp
<1>25. GoodStack(r)
  BY <1>6, <1>9, <1>12, <1>19, <1>22, <1>23, <1>24, SizesAligned DEF GoodStack
<1>26. Grown(s, r, b)
  BY <1>1, <1>2, <1>6, <1>7, <1>9, <1>12, <1>13, <1>15, <1>19 DEF Grown
<1> QED BY <1>17, <1>25, <1>26

Copied(x, mem, at, n) == x \in Seq(Cell) /\ Len(x) = n /\ \A i \in 1 .. n : x[i] = mem[at + i]

LEMMA ReadIs ==
  ASSUME NEW s, GoodStack(s), NEW b \in AllBlocks, NEW at \in Nat, NEW n \in Nat,
         at + n <= Len(s.mem[b]), NEW x, x = Read(s, b, at, n)
  PROVE  Copied(x, s.mem[b], at, n)
<1>1. PICK m \in Seq(Cell) : m = s.mem[b]
  BY StackIs
<1>2. PICK j \in Nat \ {0} : j = at + 1
  OBVIOUS
<1>3. at + n \in Nat /\ j <= at + n + 1 /\ at + n <= Len(m)
  BY <1>1, <1>2
<1>4. /\ SubSeq(m, j, at + n) \in Seq(Cell) /\ Len(SubSeq(m, j, at + n)) = at + n - j + 1
      /\ \A i \in 1 .. at + n - j + 1 : SubSeq(m, j, at + n)[i] = m[j + i - 1]
  BY <1>3, PartIs
<1>5. at + n - j + 1 = n /\ \A i \in 1 .. n : j + i - 1 = at + i
  BY <1>2
<1>6. Read(s, b, at, n) = SubSeq(m, j, at + n)
  BY <1>1, <1>2 DEF Read
<1> QED BY <1>1, <1>4, <1>5, <1>6 DEF Copied

Record(mem, chain, at, left, end) ==
  [mem |-> mem, chain |-> chain, stacknxt |-> at, stacknleft |-> left, sstrend |-> end]
Reset(t, at, left) == [t EXCEPT !.stacknxt = at, !.stacknleft = left]

LEMMA ResetIs ==
  ASSUME NEW mem, NEW chain, NEW end, NEW at, NEW left, NEW up, NEW less,
         NEW t, t = Record(mem, chain, at, left, end)
  PROVE  Reset(t, up, less) = Record(mem, chain, up, less, end)
<1>1. PICK u : u = [t EXCEPT !.stacknxt = up]
  OBVIOUS
<1>2. u = Record(mem, chain, up, left, end)
  BY <1>1 DEF Record
<1>3. [u EXCEPT !.stacknleft = less] = Record(mem, chain, up, less, end)
  BY <1>2 DEF Record
<1> QED BY <1>1, <1>3 DEF Reset

LEMMA MovedIs ==
  ASSUME NEW s, GoodStack(s), NEW b \in Places(s, newlen(s))
  PROVE  LET r == Moved(s, b) IN
         /\ GoodStack(r)
         /\ \E size \in Nat :
              /\ newlen(s) <= size /\ Added(s, r, b, size)
              /\ \A i \in 1 .. s.stacknleft : r.mem[b][i] = s.mem[stackp(s)][s.stacknxt + i]
<1>1. PICK n \in Nat : n = newlen(s) /\ n > s.stacknleft /\ SHELL_ALIGN(n) = n
  BY NewlenIs, ShellAlignIs
<1>2. Overflows(s, n) /\ b \in Free(s)
  <2>1. s.stacknleft \in Nat
    BY StackIs
  <2>2. Overflows(s, n)
    BY <2>1, <1>1 DEF Overflows
  <2> QED BY <2>2, <1>1 DEF Places
<1>3. PICK t : t = NewBlock(s, n, b)
  OBVIOUS
<1>4. PICK size \in Nat : n <= size /\ Added(s, t, b, size)
  BY <1>1, <1>2, <1>3, NewBlockIs
<1>5. GoodStack(t)
  BY <1>1, <1>2, <1>3, NewBlockIs
<1>6. t \in StackType /\ t.stacknxt = 0 /\ t.stacknleft = size /\ b \in AllBlocks /\ Len(t.mem[b]) = size
  BY <1>4, <1>5 DEF GoodStack, Added, AllBlocks
<1>7. PICK taken : taken = stalloc(s, n, b)
  OBVIOUS
<1>8. PICK m, c, e : t = Record(m, c, 0, size, e)
  <2>1. t = Record(t.mem, t.chain, 0, size, t.sstrend)
    BY ONLY <1>6 DEF StackType, Record
  <2> QED BY <2>1
<1>9. taken = Record(m, c, n, size - n, e)
  <2>1. taken = Take(t, n)
    BY <1>1, <1>2, <1>3, <1>7 DEF stalloc
  <2>2. PICK up, less : up = t.stacknxt + n /\ less = t.stacknleft - n
    OBVIOUS
  <2>3. up = n /\ less = size - n
    BY <2>2, <1>6
  <2>4. taken = Reset(t, up, less)
    BY <2>1, <2>2, <1>1 DEF Take, Reset
  <2>5. taken = Record(m, c, up, less, e)
    BY ONLY <2>4, <1>8, ResetIs
  <2> QED BY <2>3, <2>5
<1>10. taken.stacknxt - SHELL_ALIGN(newlen(s)) = 0 /\ [taken EXCEPT !.stacknxt = 0, !.stacknleft = @ + newlen(s)] = t
  <2>1. taken.stacknxt = n /\ taken.stacknleft = size - n
    BY <1>9 DEF Record
  <2>2. PICK less : less = taken.stacknleft + n
    OBVIOUS
  <2>3. less = size /\ n - n = 0
    BY <2>1, <2>2, <1>1, <1>4
  <2>4. Reset(taken, 0, less) = Record(m, c, 0, less, e)
    <3>1. PICK left : left = size - n
      OBVIOUS
    <3>2. taken = Record(m, c, n, left, e)
      BY <3>1, <1>9
    <3> QED BY ONLY <3>2, ResetIs
  <2> QED BY <2>1, <2>2, <2>3, <2>4, <1>1, <1>8 DEF Reset
<1>11. PICK x : x = Read(s, stackp(s), s.stacknxt, s.stacknleft)
  OBVIOUS
<1>12. /\ x \in Seq(Cell) /\ Len(x) = s.stacknleft
       /\ \A i \in 1 .. s.stacknleft : x[i] = s.mem[stackp(s)][s.stacknxt + i]
  <2>1. /\ stackp(s) \in AllBlocks /\ s.stacknxt \in Nat /\ s.stacknleft \in Nat
        /\ s.stacknxt + s.stacknleft <= Len(s.mem[stackp(s)])
    <3>1. /\ stackp(s) \in AllBlocks /\ s.stacknxt \in Nat /\ s.stacknleft \in Nat
          /\ s.stacknxt + s.stacknleft = Len(s.mem[stackp(s)])
      BY StackIs
    <3> QED BY <3>1
  <2>2. Copied(x, s.mem[stackp(s)], s.stacknxt, s.stacknleft)
    BY ONLY <2>1, <1>11, GoodStack(s), ReadIs
  <2> QED BY ONLY <2>2 DEF Copied
<1>13. PICK r : r = Moved(s, b)
  OBVIOUS
<1>14. r = Write(t, b, 0, x)
  BY <1>1, <1>7, <1>10, <1>11, <1>13 DEF Moved
<1>15. /\ Alike(t, r) /\ r.stacknxt = t.stacknxt /\ r.stacknleft = t.stacknleft
       /\ \A d \in AllBlocks : d # b => r.mem[d] = t.mem[d]
       /\ \A i \in 1 .. Len(t.mem[b]) : r.mem[b][i] = IF i - 0 \in 1 .. Len(x) THEN x[i - 0] ELSE t.mem[b][i]
  <2>1. Over(t, r, b, 0, x)
    <3>1. GoodStack(t) /\ b \in AllBlocks /\ 0 \in Nat /\ x \in Seq(Cell)
      BY <1>5, <1>6, <1>12
    <3> QED BY ONLY <3>1, <1>14, WriteIs
  <2> QED BY <2>1 DEF Over
<1>16. GoodStack(r)
  BY <1>5, <1>15, AlikeIsGood, StackIs
<1>17. Added(s, r, b, size)
  BY <1>4, <1>6, <1>15 DEF Added, Alike
<1>18. \A i \in 1 .. s.stacknleft : r.mem[b][i] = s.mem[stackp(s)][s.stacknxt + i]
  <2>1. s.stacknleft \in Nat /\ s.stacknleft <= size
    BY <1>1, <1>4, StackIs
  <2>2. ASSUME NEW i \in 1 .. s.stacknleft
        PROVE  r.mem[b][i] = x[i]
    <3>1. i \in 1 .. Len(t.mem[b]) /\ i - 0 = i /\ i \in 1 .. Len(x)
      BY <2>1, <1>6, <1>12
    <3> QED BY <3>1, <1>15
  <2> QED BY <2>2, <1>12
<1> QED BY <1>1, <1>4, <1>13, <1>16, <1>17, <1>18

(***************************************************************************)
(* What they leave alone.                                                  *)
(***************************************************************************)

\* Up to e, block b has the same characters of the first n texts.
Frame(mem, new, b, e, n) ==
  /\ Len(new[b]) = Len(mem[b])
  /\ \A i \in 1 .. Len(mem[b]) : i <= e /\ mem[b][i][1] <= n => new[b][i] = mem[b][i]

\* What comes before the free rest of s is kept, in its order and before that of r.
Leads(s, r, n) ==
  /\ GoodStack(r)
  /\ \A b \in AllBlocks, e \in Nat : Below(s, b, e) => Below(r, b, e) /\ Frame(s.mem, r.mem, b, e, n)
  /\ \A b, d \in AllBlocks, e, at \in Nat :
       Below(s, d, at) /\ Under(s.chain, b, e, d, at) => Under(r.chain, b, e, d, at)

LEMMA HoldsFrame ==
  ASSUME NEW mem \in [AllBlocks -> Seq(Cell)], NEW new, NEW b \in AllBlocks, NEW at \in Nat,
         NEW k \in Nat, NEW e \in Nat, NEW n \in Nat, NEW l \in Nat,
         Holds(mem, b, at, k, l), at + l <= e, k <= n, Frame(mem, new, b, e, n)
  PROVE  Holds(new, b, at, k, l)
<1>1. Len(new[b]) = Len(mem[b]) /\ at + l <= Len(mem[b]) /\ Len(mem[b]) \in Nat
  BY MemIs DEF Frame, Holds
<1>2. ASSUME NEW i \in 1 .. l
      PROVE  new[b][at + i] = <<k, i>>
  <2>1. PICK j : j = at + i
    OBVIOUS
  <2>2. j \in 1 .. Len(mem[b]) /\ j <= e
    BY <1>1, <2>1
  <2>3. mem[b][j] = <<k, i>>
    BY <2>1 DEF Holds
  <2>4. mem[b][j][1] <= n
    <3>1. <<k, i>>[1] = k
      BY CellIs
    <3> QED BY <3>1, <2>3
  <2>5. new[b][j] = mem[b][j]
    BY <2>2, <2>4 DEF Frame
  <2> QED BY <2>1, <2>3, <2>5
<1> QED BY <1>1, <1>2 DEF Holds

LEMMA BelowIs ==
  ASSUME NEW s, GoodStack(s), NEW b, NEW e \in Nat, Below(s, b, e)
  PROVE  /\ b \in AllBlocks
         /\ \E i \in 1 .. Len(s.chain) :
              s.chain[i] = b /\ (i < Len(s.chain) \/ (e <= s.stacknxt /\ (b = Base \/ s.stacknxt > 0)))
<1>1. PICK c : c = s.chain
  OBVIOUS
<1>2. /\ c \in Seq(AllBlocks) /\ Distinct(c) /\ Len(c) \in Nat \ {0} /\ Len(c) <= Len(c)
      /\ stackp(s) = c[Len(c)] /\ s.stacknxt \in Nat
  <2>1. Distinct(c)
    BY <1>1 DEF GoodStack
  <2> QED BY <2>1, <1>1, StackIs
<1>3. Under(c, b, e, c[Len(c)], s.stacknxt)
  BY <1>1, <1>2 DEF Below
<1>4. PICK i \in 1 .. Len(c) : c[i] = b /\ (i < Len(c) \/ (e <= s.stacknxt /\ (b = Base \/ s.stacknxt > 0)))
  BY <1>2, <1>3, UnderLast
<1>5. b \in AllBlocks
  BY <1>2, <1>4, SeqIs
<1> QED BY <1>1, <1>4, <1>5

LEMMA AboveLeads ==
  ASSUME NEW s, GoodStack(s), NEW r, GoodStack(r), NEW n \in Nat,
         r.chain = s.chain, r.stacknxt >= s.stacknxt,
         \A b \in AllBlocks :
           /\ Len(r.mem[b]) = Len(s.mem[b])
           /\ \A i \in 1 .. Len(s.mem[b]) :
                (b # stackp(s) \/ i <= s.stacknxt) /\ s.mem[b][i][1] <= n => r.mem[b][i] = s.mem[b][i]
  PROVE  Leads(s, r, n)
<1>1. stackp(r) = stackp(s) /\ s.stacknxt \in Nat /\ r.stacknxt \in Nat
  BY StackIs DEF stackp
<1>2. ASSUME NEW b \in AllBlocks, NEW e \in Nat, Below(s, b, e)
      PROVE  Below(r, b, e) /\ Frame(s.mem, r.mem, b, e, n)
  <2>1. Below(r, b, e)
    <3>1. Under(s.chain, b, e, stackp(s), s.stacknxt)
      BY <1>2 DEF Below
    <3>2. Under(s.chain, b, e, stackp(s), r.stacknxt)
      BY <3>1, <1>1, UnderLonger
    <3> QED BY <3>2, <1>1 DEF Below
  <2>2. b = stackp(s) => e <= s.stacknxt
    <3>1. PICK i \in 1 .. Len(s.chain) : s.chain[i] = b /\ (i < Len(s.chain) \/ e <= s.stacknxt)
      BY <1>2, BelowIs
    <3>2. /\ Len(s.chain) \in 1 .. Len(s.chain) /\ DOMAIN s.chain = 1 .. Len(s.chain)
          /\ stackp(s) = s.chain[Len(s.chain)]
      BY StackIs
    <3>3. s.chain[i] = s.chain[Len(s.chain)] => i = Len(s.chain)
      BY <3>2 DEF GoodStack, Distinct
    <3> QED BY <3>1, <3>2, <3>3
  <2>3. ASSUME NEW i \in 1 .. Len(s.mem[b]), i <= e, s.mem[b][i][1] <= n
        PROVE  r.mem[b][i] = s.mem[b][i]
    <3>1. i \in Nat /\ (b # stackp(s) \/ i <= s.stacknxt)
      BY <2>2, <2>3, <1>1, StackIs, MemIs
    <3> QED BY <3>1, <2>3
  <2> QED BY <2>1, <2>3 DEF Frame
<1> QED BY <1>2 DEF Leads

LEMMA PrefixLeads ==
  ASSUME NEW s, GoodStack(s), NEW r, GoodStack(r), NEW n \in Nat,
         NEW k \in Nat, Prefix(s.chain, r.chain, k), k < Len(r.chain),
         \A b \in AllBlocks, e \in Nat : Below(s, b, e) => \E i \in 1 .. k : s.chain[i] = b,
         \A i \in 1 .. k : r.mem[s.chain[i]] = s.mem[s.chain[i]]
  PROVE  Leads(s, r, n)
<1>1. PICK c, g : c = s.chain /\ g = r.chain
  OBVIOUS
<1>2. /\ c \in Seq(AllBlocks) /\ g \in Seq(AllBlocks) /\ stackp(r) = g[Len(g)] /\ Distinct(c)
      /\ Prefix(c, g, k) /\ k < Len(g)
  <2>1. Distinct(c)
    BY <1>1 DEF GoodStack
  <2>2. c \in Seq(AllBlocks) /\ g \in Seq(AllBlocks) /\ stackp(r) = g[Len(g)]
    BY <1>1, StackIs
  <2> QED BY <2>1, <2>2, <1>1
<1>3. ASSUME NEW b \in AllBlocks, NEW e \in Nat, Below(s, b, e)
      PROVE  Below(r, b, e) /\ Frame(s.mem, r.mem, b, e, n)
  <2>1. PICK i \in 1 .. k : c[i] = b
    BY <1>1, <1>3
  <2>2. Inside(g, c[i], g[Len(g)])
    BY <1>2, InsidePrefix
  <2>3. Below(r, b, e)
    BY <2>1, <2>2, <1>1, <1>2 DEF Below, Under
  <2>4. r.mem[b] = s.mem[b]
    BY <2>1, <1>1
  <2> QED BY <2>3, <2>4 DEF Frame
<1>4. ASSUME NEW b \in AllBlocks, NEW d \in AllBlocks, NEW e \in Nat, NEW at \in Nat,
             Below(s, d, at), Under(c, b, e, d, at)
      PROVE  Under(g, b, e, d, at)
  <2>1. PICK j \in 1 .. k : c[j] = d
    BY <1>1, <1>4
  <2>2. Under(c, b, e, c[j], at)
    BY <2>1, <1>4
  <2>3. Under(g, b, e, c[j], at)
    BY <2>2, <1>2, UnderPrefix
  <2> QED BY <2>1, <2>3
<1> QED BY <1>1, <1>3, <1>4 DEF Leads

LEMMA AddedLeads ==
  ASSUME NEW s, GoodStack(s), NEW r, GoodStack(r), NEW b, NEW size \in Nat, Added(s, r, b, size),
         NEW n \in Nat
  PROVE  Leads(s, r, n) /\ stackp(r) = b
<1>1. PICK k \in Nat : k = Len(s.chain)
  BY StackIs
<1>2. /\ s.chain \in Seq(AllBlocks) /\ b \in AllBlocks /\ r.chain = Append(s.chain, b)
      /\ \A i \in 1 .. k : s.chain[i] \in AllBlocks /\ s.chain[i] # b
  <2>1. s.chain \in Seq(AllBlocks) /\ DOMAIN s.chain = 1 .. k /\ \A i \in 1 .. k : s.chain[i] \in AllBlocks
    BY <1>1, StackIs, SeqIs
  <2>2. \A i \in 1 .. k : s.mem[s.chain[i]] # <<>>
    BY <2>1 DEF GoodStack
  <2> QED BY <2>1, <2>2 DEF Added, AllBlocks
<1>3. Len(r.chain) = k + 1 /\ r.chain[k + 1] = b /\ \A i \in 1 .. k : r.chain[i] = s.chain[i]
  BY <1>1, <1>2, PushedIs
<1>4. Prefix(s.chain, r.chain, k) /\ k < Len(r.chain)
  BY <1>1, <1>3 DEF Prefix
<1>5. \A d \in AllBlocks, e \in Nat : Below(s, d, e) => \E i \in 1 .. k : s.chain[i] = d
  BY <1>1, BelowIs
<1>6. \A i \in 1 .. k : r.mem[s.chain[i]] = s.mem[s.chain[i]]
  BY <1>2 DEF Added
<1>7. Leads(s, r, n)
  BY <1>4, <1>5, <1>6, PrefixLeads
<1> QED BY <1>3, <1>7, StackIs

LEMMA GrownLeads ==
  ASSUME NEW s, GoodStack(s), AtStart(s), NEW r, GoodStack(r), NEW b \in Free(s) \cup {stackp(s)},
         Grown(s, r, b), NEW n \in Nat
  PROVE  Leads(s, r, n) /\ stackp(r) = b
<1>1. PICK k \in Nat : k + 1 = Len(s.chain)
  <2>1. Len(s.chain) \in Nat /\ Len(s.chain) > 0
    BY StackIs
  <2>2. Len(s.chain) - 1 \in Nat /\ Len(s.chain) - 1 + 1 = Len(s.chain)
    BY <2>1
  <2> QED BY <2>2
<1>2. /\ s.chain \in Seq(AllBlocks) /\ s.chain # <<>> /\ b \in AllBlocks /\ stackp(s) = s.chain[k + 1]
      /\ r.chain = Append(Front(s.chain), b) /\ DOMAIN s.chain = 1 .. k + 1
      /\ \A i \in 1 .. k + 1 : s.chain[i] \in AllBlocks
  <2>1. /\ s.chain \in Seq(AllBlocks) /\ s.chain # <<>> /\ stackp(s) = s.chain[k + 1]
        /\ DOMAIN s.chain = 1 .. k + 1 /\ \A i \in 1 .. k + 1 : s.chain[i] \in AllBlocks
    BY <1>1, StackIs, SeqIs
  <2> QED BY <2>1 DEF Grown
<1>3. \A i \in 1 .. k : i \in 1 .. k + 1 /\ k + 1 \in 1 .. k + 1 /\ i # k + 1
  BY <1>1
<1>4. \A i \in 1 .. k : s.chain[i] # stackp(s) /\ s.chain[i] # b
  <2>1. \A i \in 1 .. k : s.chain[i] # stackp(s)
    BY <1>2, <1>3 DEF GoodStack, Distinct
  <2>2. \A i \in 1 .. k : s.mem[s.chain[i]] # <<>>
    BY <1>2, <1>3 DEF GoodStack
  <2> QED BY <2>1, <2>2 DEF Free
<1>5. Front(s.chain) \in Seq(AllBlocks) /\ Len(Front(s.chain)) = k /\ \A i \in 1 .. k : Front(s.chain)[i] = s.chain[i]
  <2>1. Len(s.chain) - 1 = k
    BY <1>1
  <2> QED BY <2>1, <1>2, FrontIs
<1>6. Len(r.chain) = k + 1 /\ r.chain[k + 1] = b /\ \A i \in 1 .. k : r.chain[i] = s.chain[i]
  BY <1>2, <1>5, PushedIs
<1>7. Prefix(s.chain, r.chain, k) /\ k < Len(r.chain)
  <2>1. k <= Len(s.chain) /\ k <= Len(r.chain)
    BY ONLY <1>1, <1>6, k \in Nat
  <2>2. k < Len(r.chain)
    BY ONLY <1>6, k \in Nat
  <2> QED BY <2>1, <2>2, <1>6 DEF Prefix
<1>8. ASSUME NEW d \in AllBlocks, NEW e \in Nat, Below(s, d, e)
      PROVE  \E i \in 1 .. k : s.chain[i] = d
  <2>1. PICK i \in 1 .. k + 1 : s.chain[i] = d /\ (i < k + 1 \/ d = Base \/ s.stacknxt > 0)
    BY <1>1, <1>8, BelowIs
  <2>2. s.stacknxt = 0 /\ stackp(s) # Base
    BY DEF AtStart
  <2>3. i # k + 1
    BY <2>1, <2>2, <1>1, <1>2
  <2>4. i \in 1 .. k
    BY <2>3, <1>1
  <2> QED BY <2>1, <2>4
<1>9. \A i \in 1 .. k : r.mem[s.chain[i]] = s.mem[s.chain[i]]
  BY <1>2, <1>3, <1>4 DEF Grown
<1>10. Leads(s, r, n)
  BY <1>7, <1>8, <1>9, PrefixLeads
<1> QED BY <1>6, <1>10, StackIs

LEMMA LeadsTrans ==
  ASSUME NEW s, GoodStack(s), NEW r, NEW t, NEW n \in Nat, Leads(s, r, n), Leads(r, t, n)
  PROVE  Leads(s, t, n)
<1>1. GoodStack(t)
  BY DEF Leads
<1>2. ASSUME NEW b \in AllBlocks, NEW e \in Nat, Below(s, b, e)
      PROVE  Below(t, b, e) /\ Frame(s.mem, t.mem, b, e, n)
  <2>1. Below(r, b, e) /\ Frame(s.mem, r.mem, b, e, n)
    BY <1>2 DEF Leads
  <2>2. Below(t, b, e) /\ Frame(r.mem, t.mem, b, e, n)
    BY <2>1 DEF Leads
  <2>3. Frame(s.mem, t.mem, b, e, n)
    BY <2>1, <2>2 DEF Frame
  <2> QED BY <2>2, <2>3
<1>3. ASSUME NEW b \in AllBlocks, NEW d \in AllBlocks, NEW e \in Nat, NEW at \in Nat,
             Below(s, d, at), Under(s.chain, b, e, d, at)
      PROVE  Under(t.chain, b, e, d, at)
  <2>1. Under(r.chain, b, e, d, at) /\ Below(r, d, at)
    BY <1>3 DEF Leads
  <2> QED BY <2>1 DEF Leads
<1> QED BY <1>1, <1>2, <1>3 DEF Leads

(***************************************************************************)
(* Texts and marks.                                                        *)
(***************************************************************************)

LEMMA PlaceIs ==
  ASSUME NEW T \in Seq(Place), NEW k \in DOMAIN T
  PROVE  /\ T[k].block \in AllBlocks /\ T[k].at \in Nat /\ T[k].n \in Nat /\ End(T[k]) \in Nat
         /\ T[k].at <= End(T[k]) /\ End(T[k]) = T[k].at + T[k].n
         /\ k \in Nat /\ k > 0 /\ k <= Len(T) /\ T[k] \in Place
<1>1. Len(T) \in Nat /\ DOMAIN T = 1 .. Len(T) /\ T[k] \in Place
  BY SeqIs
<1>2. T[k].block \in AllBlocks /\ T[k].at \in Nat /\ T[k].n \in Nat
  BY <1>1 DEF Place
<1> QED BY <1>1, <1>2 DEF End

LEMMA MarkIs ==
  ASSUME NEW M \in Seq(MarkType), NEW k \in DOMAIN M
  PROVE  /\ M[k].stackp \in AllBlocks /\ M[k].stacknxt \in Nat /\ M[k].stacknleft \in Nat
         /\ M[k].kept \in Nat /\ M[k].behind \in Nat /\ M[k].held \in Nat
         /\ k \in Nat /\ k > 0 /\ k <= Len(M) /\ M[k] \in MarkType
<1>1. Len(M) \in Nat /\ DOMAIN M = 1 .. Len(M) /\ M[k] \in MarkType
  BY SeqIs
<1>2. /\ M[k].stackp \in AllBlocks /\ M[k].stacknxt \in Nat /\ M[k].stacknleft \in Nat
      /\ M[k].kept \in Nat /\ M[k].behind \in Nat /\ M[k].held \in Nat
  BY <1>1 DEF MarkType
<1> QED BY <1>1, <1>2

\* Texts lie before the free rest where they begin, too.
LEMMA TextBelow ==
  ASSUME NEW s, NEW T \in Seq(Place), NEW M, Stacked(s, T, M), NEW k \in DOMAIN T, GoodStack(s)
  PROVE  Below(s, T[k].block, T[k].at) /\ Below(s, T[k].block, End(T[k]))
<1>1. T[k].at \in Nat /\ End(T[k]) \in Nat /\ T[k].at <= End(T[k]) /\ s.stacknxt \in Nat
  BY PlaceIs, StackIs
<1>2. Under(s.chain, T[k].block, End(T[k]), stackp(s), s.stacknxt)
  BY DEF Stacked, Below
<1>3. Under(s.chain, T[k].block, T[k].at, stackp(s), s.stacknxt)
  BY <1>1, <1>2, UnderLonger
<1> QED BY <1>2, <1>3 DEF Below

LEMMA LeadsOrdered ==
  ASSUME NEW s, GoodStack(s), NEW r, NEW n \in Nat, Leads(s, r, n),
         NEW T \in Seq(Place), NEW M \in Seq(MarkType), Stacked(s, T, M)
  PROVE  Ordered(r.chain, T, M)
<1> DEFINE c == s.chain
           g == r.chain
<1>1. /\ \A i \in DOMAIN T : /\ T[i].block \in AllBlocks /\ T[i].at \in Nat /\ End(T[i]) \in Nat
                             /\ Below(s, T[i].block, T[i].at)
      /\ \A i \in DOMAIN M : /\ M[i].stackp \in AllBlocks /\ M[i].stacknxt \in Nat
                             /\ Below(s, M[i].stackp, M[i].stacknxt)
  <2>1. \A i \in DOMAIN T : Below(s, T[i].block, T[i].at)
    BY TextBelow
  <2>2. \A i \in DOMAIN M : Below(s, M[i].stackp, M[i].stacknxt)
    BY DEF Stacked
  <2> QED BY <2>1, <2>2, PlaceIs, MarkIs
<1>2. \A b, d \in AllBlocks, e, at \in Nat :
        Below(s, d, at) /\ Under(s.chain, b, e, d, at) => Under(r.chain, b, e, d, at)
  BY DEF Leads
<1>3. Ordered(s.chain, T, M)
  BY DEF Stacked
<1>4. ASSUME NEW i \in DOMAIN T, NEW k \in DOMAIN T, i < k
      PROVE  Under(r.chain, T[i].block, End(T[i]), T[k].block, T[k].at)
  <2>1. Under(s.chain, T[i].block, End(T[i]), T[k].block, T[k].at)
    BY <1>3, <1>4 DEF Ordered
  <2> QED BY ONLY <2>1, <1>1, <1>2, i \in DOMAIN T, k \in DOMAIN T
<1>5. ASSUME NEW i \in DOMAIN M, NEW k \in DOMAIN T
      PROVE  /\ k <= M[i].kept => Under(r.chain, T[k].block, End(T[k]), M[i].stackp, M[i].stacknxt)
             /\ k > M[i].behind => Under(r.chain, M[i].stackp, M[i].stacknxt, T[k].block, T[k].at)
  <2>1. ASSUME k <= M[i].kept
        PROVE  Under(r.chain, T[k].block, End(T[k]), M[i].stackp, M[i].stacknxt)
    <3>1. Under(s.chain, T[k].block, End(T[k]), M[i].stackp, M[i].stacknxt)
      BY <1>3, <2>1 DEF Ordered
    <3> QED BY ONLY <3>1, <1>1, <1>2, i \in DOMAIN M, k \in DOMAIN T
  <2>2. ASSUME k > M[i].behind
        PROVE  Under(r.chain, M[i].stackp, M[i].stacknxt, T[k].block, T[k].at)
    <3>1. Under(s.chain, M[i].stackp, M[i].stacknxt, T[k].block, T[k].at)
      BY <1>3, <2>2 DEF Ordered
    <3> QED BY ONLY <3>1, <1>1, <1>2, i \in DOMAIN M, k \in DOMAIN T
  <2> QED BY <2>1, <2>2
<1>6. ASSUME NEW i \in DOMAIN M, NEW j \in DOMAIN M, i < j
      PROVE  /\ Under(r.chain, M[i].stackp, M[i].stacknxt, M[j].stackp, M[j].stacknxt)
             /\ M[i].behind <= M[j].kept
  <2>1. /\ Under(s.chain, M[i].stackp, M[i].stacknxt, M[j].stackp, M[j].stacknxt)
        /\ M[i].behind <= M[j].kept
    BY <1>3, <1>6 DEF Ordered
  <2> QED BY ONLY <2>1, <1>1, <1>2, i \in DOMAIN M, j \in DOMAIN M
<1> QED BY <1>4, <1>5, <1>6 DEF Ordered

LEMMA LeadsKeeps ==
  ASSUME NEW s, GoodStack(s), NEW r, NEW n \in Nat, Leads(s, r, n),
         NEW T \in Seq(Place), NEW M \in Seq(MarkType), Stacked(s, T, M), Len(T) <= n
  PROVE  Stacked(r, T, M)
<1>1. s.mem \in [AllBlocks -> Seq(Cell)] /\ Len(T) \in Nat
  BY StackIs, SeqIs
<1>2. ASSUME NEW k \in DOMAIN T
      PROVE  /\ Below(r, T[k].block, End(T[k])) /\ Aligned(T[k].at)
             /\ Holds(r.mem, T[k].block, T[k].at, k, T[k].n)
  <2>1. PICK b \in AllBlocks, at \in Nat, l \in Nat, e \in Nat :
          b = T[k].block /\ at = T[k].at /\ l = T[k].n /\ e = End(T[k]) /\ e = at + l
    BY PlaceIs
  <2>2. Below(s, b, e) /\ Aligned(at) /\ Holds(s.mem, b, at, k, l)
    BY <2>1, <1>2 DEF Stacked, TextsOK
  <2>3. Below(r, b, e) /\ Frame(s.mem, r.mem, b, e, n)
    BY <2>2 DEF Leads
  <2>4. k \in Nat /\ k <= n /\ at + l <= e
    BY <2>1, <1>1, PlaceIs
  <2>5. Holds(r.mem, b, at, k, l)
    BY ONLY <2>2, <2>3, <2>4, <1>1, HoldsFrame, b \in AllBlocks, at \in Nat, l \in Nat, e \in Nat, n \in Nat
  <2> QED BY <2>1, <2>2, <2>3, <2>5
<1>3. ASSUME NEW k \in DOMAIN M
      PROVE  Below(r, M[k].stackp, M[k].stacknxt) /\ MarkOK(r.mem, T, M[k])
  <2>1. PICK b \in AllBlocks, at \in Nat : b = M[k].stackp /\ at = M[k].stacknxt
    BY MarkIs
  <2>2. Below(s, b, at) /\ MarkOK(s.mem, T, M[k])
    BY <2>1, <1>3 DEF Stacked
  <2>3. Below(r, b, at) /\ Len(r.mem[b]) = Len(s.mem[b])
    BY <2>2 DEF Leads, Frame
  <2> QED BY <2>1, <2>2, <2>3 DEF MarkOK
<1>4. Ordered(r.chain, T, M)
  BY LeadsOrdered
<1> QED BY <1>2, <1>3, <1>4 DEF Stacked, TextsOK

\* A text is added where the free rest began.
LEMMA AddText ==
  ASSUME NEW s, GoodStack(s), NEW T \in Seq(Place), NEW M \in Seq(MarkType), Stacked(s, T, M),
         NEW r, NEW n \in Nat, Leads(s, r, n), Len(T) <= n, r.chain = s.chain,
         NEW l \in Nat, Below(r, stackp(s), s.stacknxt + l),
         Holds(r.mem, stackp(s), s.stacknxt, Len(T) + 1, l),
         NEW t, t = [block |-> stackp(s), at |-> s.stacknxt, n |-> l]
  PROVE  Append(T, t) \in Seq(Place) /\ Stacked(r, Append(T, t), M)
<1>1. /\ t \in Place /\ t.block = stackp(s) /\ t.at = s.stacknxt /\ t.n = l
      /\ End(t) = s.stacknxt + l /\ Aligned(s.stacknxt)
  BY StackIs DEF Place, End
<1>2. PICK k \in Nat : k = Len(T)
  BY SeqIs
<1>3. PICK U : U = Append(T, t)
  OBVIOUS
<1>4. /\ U \in Seq(Place) /\ DOMAIN U = 1 .. k + 1 /\ Len(U) = k + 1
      /\ U[k + 1] = t /\ \A i \in 1 .. k : U[i] = T[i]
  BY <1>1, <1>2, <1>3, PushedIs
<1>5. DOMAIN T = 1 .. k /\ \A i \in 1 .. k + 1 : i \in 1 .. k \/ i = k + 1
  BY <1>2, SeqIs
<1>6. Stacked(r, T, M)
  BY <1>2, LeadsKeeps
<1>7. \A i \in DOMAIN U : Below(r, U[i].block, End(U[i]))
  BY <1>1, <1>4, <1>5, <1>6 DEF Stacked
<1>8. TextsOK(r.mem, U)
  <2>1. TextsOK(r.mem, T)
    BY <1>6 DEF Stacked
  <2>2. Aligned(t.at) /\ Holds(r.mem, t.block, t.at, k + 1, t.n)
    BY <1>1, <1>2
  <2> QED BY <2>1, <2>2, <1>4, <1>5 DEF TextsOK
<1>9. \A i \in DOMAIN T : Under(r.chain, T[i].block, End(T[i]), t.block, t.at)
  <2>1. \A i \in DOMAIN T : Below(s, T[i].block, End(T[i]))
    BY DEF Stacked
  <2> QED BY <2>1, <1>1 DEF Below
<1>10. \A i \in DOMAIN M : /\ Under(r.chain, M[i].stackp, M[i].stacknxt, t.block, t.at)
                           /\ M[i].kept <= k /\ M[i].behind <= k
  <2>1. \A i \in DOMAIN M : Below(s, M[i].stackp, M[i].stacknxt) /\ MarkOK(s.mem, T, M[i])
    BY DEF Stacked
  <2>2. \A i \in DOMAIN M : M[i].kept <= M[i].behind /\ M[i].behind <= k
    BY <2>1, <1>2 DEF MarkOK
  <2>3. \A i \in DOMAIN M : M[i].kept \in Nat /\ M[i].behind \in Nat
    BY MarkIs
  <2> QED BY <2>1, <2>2, <2>3, <1>1, <1>2 DEF Below
<1>11. Ordered(r.chain, U, M)
  <2>1. Ordered(r.chain, T, M)
    BY <1>6 DEF Stacked
  <2>2. ASSUME NEW i \in DOMAIN U, NEW j \in DOMAIN U, i < j
        PROVE  Under(r.chain, U[i].block, End(U[i]), U[j].block, U[j].at)
    <3>1. i \in 1 .. k /\ U[i] = T[i]
      BY <2>2, <1>4, <1>5
    <3>2. CASE j \in 1 .. k
      <4>1. U[j] = T[j] /\ i \in DOMAIN T /\ j \in DOMAIN T
        BY <3>1, <3>2, <1>4, <1>5
      <4> QED BY <4>1, <3>1, <2>1, <2>2 DEF Ordered
    <3>3. CASE j = k + 1
      BY <3>1, <3>3, <1>4, <1>5, <1>9
    <3> QED BY <3>2, <3>3, <1>4, <1>5
  <2>3. ASSUME NEW i \in DOMAIN M, NEW j \in DOMAIN U
        PROVE  /\ j <= M[i].kept => Under(r.chain, U[j].block, End(U[j]), M[i].stackp, M[i].stacknxt)
               /\ j > M[i].behind => Under(r.chain, M[i].stackp, M[i].stacknxt, U[j].block, U[j].at)
    <3>1. CASE j \in 1 .. k
      <4>1. U[j] = T[j] /\ j \in DOMAIN T
        BY <3>1, <1>4, <1>5
      <4> QED BY <4>1, <2>1, <2>3 DEF Ordered
    <3>2. CASE j = k + 1
      <4>1. ~(j <= M[i].kept)
        <5>1. M[i].kept <= k /\ M[i].kept \in Nat
          BY <1>10, MarkIs
        <5> QED BY <5>1, <3>2
      <4> QED BY <4>1, <3>2, <1>4, <1>10
    <3> QED BY <3>1, <3>2, <1>4, <1>5
  <2>4. \A i, j \in DOMAIN M : i < j =>
          /\ Under(r.chain, M[i].stackp, M[i].stacknxt, M[j].stackp, M[j].stacknxt)
          /\ M[i].behind <= M[j].kept
    BY <2>1 DEF Ordered
  <2> QED BY <2>2, <2>3, <2>4 DEF Ordered
<1>12. ASSUME NEW i \in DOMAIN M
       PROVE  Below(r, M[i].stackp, M[i].stacknxt) /\ MarkOK(r.mem, U, M[i])
  <2>1. Below(r, M[i].stackp, M[i].stacknxt) /\ MarkOK(r.mem, T, M[i])
    BY <1>6 DEF Stacked
  <2>2. M[i].kept \in Nat /\ M[i].behind \in Nat /\ M[i].behind <= k
    BY <1>10, MarkIs
  <2>3. M[i].kept < M[i].behind => U[M[i].kept + 1] = T[M[i].kept + 1]
    <3>1. M[i].kept < M[i].behind => M[i].kept + 1 \in 1 .. k
      BY <2>2
    <3> QED BY <3>1, <1>4
  <2>4. M[i].behind <= Len(U)
    BY <2>2, <1>4
  <2> QED BY <2>1, <2>3, <2>4 DEF MarkOK
<1> QED BY <1>3, <1>4, <1>7, <1>8, <1>11, <1>12 DEF Stacked

\* A mark is added where the free rest began, before what is kept meanwhile.
LEMMA AddMark ==
  ASSUME NEW s, GoodStack(s), NEW T \in Seq(Place), NEW M \in Seq(MarkType), Stacked(s, T, M),
         NEW r, NEW U \in Seq(Place), Stacked(r, U, M), r.chain = s.chain,
         Len(T) <= Len(U), \A i \in 1 .. Len(T) : U[i] = T[i],
         Below(r, stackp(s), s.stacknxt),
         NEW m \in MarkType, m.stackp = stackp(s), m.stacknxt = s.stacknxt,
         m.kept = Len(T), m.behind = Len(U), MarkOK(r.mem, U, m)
  PROVE  Append(M, m) \in Seq(MarkType) /\ Stacked(r, U, Append(M, m))
<1>1. PICK N : N = Append(M, m)
  OBVIOUS
<1>2. PICK k \in Nat : k = Len(M)
  BY SeqIs
<1>3. /\ N \in Seq(MarkType) /\ DOMAIN N = 1 .. k + 1 /\ N[k + 1] = m
      /\ \A i \in 1 .. k : N[i] = M[i]
  BY <1>1, <1>2, PushedIs
<1>4. /\ DOMAIN M = 1 .. k /\ \A i \in 1 .. k + 1 : i \in 1 .. k \/ i = k + 1
      /\ DOMAIN T = 1 .. Len(T) /\ DOMAIN U = 1 .. Len(U) /\ Len(T) \in Nat /\ Len(U) \in Nat
  BY <1>2, SeqIs
<1>5. \A i \in DOMAIN N : Below(r, N[i].stackp, N[i].stacknxt) /\ MarkOK(r.mem, U, N[i])
  <2>1. \A i \in DOMAIN M : Below(r, M[i].stackp, M[i].stacknxt) /\ MarkOK(r.mem, U, M[i])
    BY DEF Stacked
  <2> QED BY <2>1, <1>3, <1>4
<1>6. Ordered(r.chain, U, M)
  BY DEF Stacked
<1>7. ASSUME NEW i \in DOMAIN N, NEW j \in DOMAIN U
      PROVE  /\ j <= N[i].kept => Under(r.chain, U[j].block, End(U[j]), N[i].stackp, N[i].stacknxt)
             /\ j > N[i].behind => Under(r.chain, N[i].stackp, N[i].stacknxt, U[j].block, U[j].at)
  <2>1. CASE i \in 1 .. k
    BY <2>1, <1>3, <1>4, <1>6 DEF Ordered
  <2>2. CASE i = k + 1
    <3>1. N[i] = m /\ ~(j > m.behind)
      BY <2>2, <1>3, <1>4
    <3>2. ASSUME j <= m.kept
          PROVE  Under(r.chain, U[j].block, End(U[j]), m.stackp, m.stacknxt)
      <4>1. j \in 1 .. Len(T) /\ j \in DOMAIN T
        BY <3>2, <1>4
      <4>2. U[j] = T[j] /\ Below(s, T[j].block, End(T[j]))
        BY <4>1 DEF Stacked
      <4> QED BY <4>2 DEF Below
    <3> QED BY <3>1, <3>2
  <2> QED BY <2>1, <2>2, <1>3, <1>4
<1>8. ASSUME NEW i \in DOMAIN N, NEW j \in DOMAIN N, i < j
      PROVE  /\ Under(r.chain, N[i].stackp, N[i].stacknxt, N[j].stackp, N[j].stacknxt)
             /\ N[i].behind <= N[j].kept
  <2>1. i \in DOMAIN M /\ N[i] = M[i]
    BY <1>3, <1>4, <1>8
  <2>2. CASE j \in 1 .. k
    BY <2>1, <2>2, <1>3, <1>4, <1>6, <1>8 DEF Ordered
  <2>3. CASE j = k + 1
    <3>1. Below(s, M[i].stackp, M[i].stacknxt) /\ MarkOK(s.mem, T, M[i])
      BY <2>1 DEF Stacked
    <3>2. Under(r.chain, M[i].stackp, M[i].stacknxt, m.stackp, m.stacknxt)
      BY <3>1 DEF Below
    <3>3. M[i].behind <= m.kept
      BY <3>1 DEF MarkOK
    <3> QED BY <2>1, <2>3, <3>2, <3>3, <1>3
  <2> QED BY <2>2, <2>3, <1>3, <1>4
<1>9. Ordered(r.chain, U, N)
  BY <1>6, <1>7, <1>8 DEF Ordered
<1> QED BY <1>1, <1>3, <1>5, <1>9 DEF Stacked

\* The free rest begins again behind the first p texts and q marks.
Behind(s, T, M, r, p, q) ==
  /\ Prefix(s.chain, r.chain, Len(r.chain))
  /\ \A i \in 1 .. p : Under(s.chain, T[i].block, End(T[i]), stackp(r), r.stacknxt)
  /\ \A i \in 1 .. q : Under(s.chain, M[i].stackp, M[i].stacknxt, stackp(r), r.stacknxt)
  /\ \A i \in 1 .. q : M[i].behind <= p
Remain(s, r, p) ==
  \A b \in AllBlocks : InChain(r.chain, b) =>
    /\ Len(r.mem[b]) = Len(s.mem[b])
    /\ \A i \in 1 .. Len(s.mem[b]) : s.mem[b][i][1] <= p => r.mem[b][i] = s.mem[b][i]

LEMMA BackKeeps ==
  ASSUME NEW s, GoodStack(s), NEW T \in Seq(Place), NEW M \in Seq(MarkType), Stacked(s, T, M),
         NEW r, GoodStack(r), NEW p \in 0 .. Len(T), NEW q \in 0 .. Len(M),
         Behind(s, T, M, r, p, q), Remain(s, r, p)
  PROVE  /\ SubSeq(T, 1, p) \in Seq(Place) /\ SubSeq(M, 1, q) \in Seq(MarkType)
         /\ Stacked(r, SubSeq(T, 1, p), SubSeq(M, 1, q))
<1>1. PICK c, g : c = s.chain /\ g = r.chain
  OBVIOUS
<1>2. PICK k \in Nat \ {0} : k = Len(g)
  BY <1>1, StackIs
<1>3. /\ c \in Seq(AllBlocks) /\ g \in Seq(AllBlocks) /\ Distinct(c) /\ Prefix(c, g, k)
      /\ k \in 1 .. k /\ c[k] = stackp(r) /\ DOMAIN g = 1 .. k /\ r.stacknxt \in Nat
      /\ \A i \in 1 .. k : g[i] = c[i] /\ c[i] \in AllBlocks
  <2>1. Distinct(c)
    BY <1>1 DEF GoodStack
  <2>2. c \in Seq(AllBlocks) /\ g \in Seq(AllBlocks) /\ stackp(r) = g[k] /\ r.stacknxt \in Nat
    BY <1>1, <1>2, StackIs
  <2>3. Prefix(c, g, k) /\ k \in 1 .. k /\ \A i \in 1 .. k : g[i] = c[i]
    BY <1>1, <1>2 DEF Prefix, Behind
  <2>4. DOMAIN g = 1 .. k /\ \A i \in 1 .. k : g[i] \in AllBlocks
    BY <2>2, <1>2, SeqIs
  <2> QED BY <2>1, <2>2, <2>3, <2>4
<1>4. ASSUME NEW b, NEW e \in Nat, Under(c, b, e, stackp(r), r.stacknxt)
      PROVE  Below(r, b, e) /\ b \in AllBlocks /\ \E i \in 1 .. k : c[i] = b
  <2>1. PICK at \in Nat : at = r.stacknxt /\ Under(c, b, e, c[k], at)
    BY <1>3, <1>4
  <2>2. PICK j \in 1 .. k : j = k
    BY <1>3
  <2>3. Under(c, b, e, c[j], at)
    BY <2>1, <2>2
  <2>4. Under(g, b, e, c[j], at) /\ Among(c, j, b)
    BY ONLY <2>3, <1>3, UnderPrefix, k \in Nat \ {0}, e \in Nat, at \in Nat, j \in 1 .. k
  <2> QED BY <2>1, <2>2, <2>4, <1>1, <1>3 DEF Below, Among
<1>5. ASSUME NEW b, NEW e \in Nat, NEW d, NEW at \in Nat, NEW i \in 1 .. k, c[i] = d, Under(c, b, e, d, at)
      PROVE  Under(g, b, e, d, at)
  <2>1. Under(c, b, e, c[i], at)
    BY <1>5
  <2>2. Under(g, b, e, c[i], at)
    BY ONLY <2>1, <1>3, UnderPrefix, k \in Nat \ {0}, e \in Nat, at \in Nat, i \in 1 .. k
  <2> QED BY <2>2, <1>5
<1>6. PICK U, N : U = SubSeq(T, 1, p) /\ N = SubSeq(M, 1, q)
  OBVIOUS
<1>7. /\ U \in Seq(Place) /\ Len(U) = p /\ DOMAIN U = 1 .. p /\ \A i \in 1 .. p : U[i] = T[i]
      /\ N \in Seq(MarkType) /\ DOMAIN N = 1 .. q /\ \A i \in 1 .. q : N[i] = M[i]
  BY <1>6, CutIs
<1>8. /\ p \in Nat /\ q \in Nat /\ \A i \in 1 .. p : i \in DOMAIN T /\ i <= p
      /\ \A i \in 1 .. q : i \in DOMAIN M
  BY SeqIs
<1>9. ASSUME NEW i \in 1 .. p
      PROVE  /\ Below(r, T[i].block, End(T[i])) /\ T[i].block \in AllBlocks
             /\ \E j \in 1 .. k : c[j] = T[i].block
  <2>1. End(T[i]) \in Nat
    BY <1>8, PlaceIs
  <2> QED BY <2>1, <1>1, <1>4 DEF Behind
<1>10. ASSUME NEW i \in 1 .. q
       PROVE  /\ Below(r, M[i].stackp, M[i].stacknxt) /\ M[i].stackp \in AllBlocks
              /\ \E j \in 1 .. k : c[j] = M[i].stackp
  <2>1. M[i].stacknxt \in Nat
    BY <1>8, MarkIs
  <2> QED BY <2>1, <1>1, <1>4 DEF Behind
<1>11. ASSUME NEW i \in 1 .. p
       PROVE  Aligned(T[i].at) /\ Holds(r.mem, T[i].block, T[i].at, i, T[i].n)
  <2>1. PICK b \in AllBlocks, at \in Nat, l \in Nat :
          b = T[i].block /\ at = T[i].at /\ l = T[i].n
    BY <1>8, PlaceIs
  <2>2. Aligned(at) /\ Holds(s.mem, b, at, i, l)
    BY <2>1, <1>8 DEF Stacked, TextsOK
  <2>3. InChain(r.chain, b)
    BY <2>1, <1>1, <1>3, <1>9 DEF InChain
  <2>4. Frame(s.mem, r.mem, b, at + l, p)
    BY <2>3 DEF Frame, Remain
  <2>5. s.mem \in [AllBlocks -> Seq(Cell)] /\ i \in Nat /\ i <= p /\ at + l \in Nat /\ at + l <= at + l
    BY <1>8, StackIs
  <2>6. Holds(r.mem, b, at, i, l)
    BY ONLY <2>2, <2>4, <2>5, <1>8, HoldsFrame, b \in AllBlocks, at \in Nat, l \in Nat
  <2> QED BY <2>1, <2>2, <2>6
<1>12. ASSUME NEW i \in 1 .. q
       PROVE  MarkOK(r.mem, U, M[i])
  <2>1. MarkOK(s.mem, T, M[i]) /\ M[i].behind <= p /\ M[i].kept \in Nat /\ M[i].behind \in Nat
    BY <1>8, MarkIs DEF Stacked, Behind
  <2>2. InChain(r.chain, M[i].stackp) /\ M[i].stackp \in AllBlocks
    BY <1>1, <1>3, <1>10 DEF InChain
  <2>3. Len(r.mem[M[i].stackp]) = Len(s.mem[M[i].stackp])
    BY <2>2 DEF Remain
  <2>4. M[i].kept < M[i].behind => U[M[i].kept + 1] = T[M[i].kept + 1]
    <3>1. M[i].kept < M[i].behind => M[i].kept + 1 \in 1 .. p
      BY <2>1, <1>8
    <3> QED BY <3>1, <1>7
  <2> QED BY <2>1, <2>3, <2>4, <1>7 DEF MarkOK
<1>13. Ordered(c, T, M)
  BY <1>1 DEF Stacked
<1>14. Ordered(g, U, N)
  <2>1. ASSUME NEW i \in 1 .. p, NEW j \in 1 .. p, i < j
        PROVE  Under(g, T[i].block, End(T[i]), T[j].block, T[j].at)
    <3>1. Under(c, T[i].block, End(T[i]), T[j].block, T[j].at)
      BY <2>1, <1>8, <1>13 DEF Ordered
    <3>2. End(T[i]) \in Nat /\ T[j].at \in Nat
      BY <1>8, PlaceIs
    <3> QED BY <3>1, <3>2, <1>5, <1>9
  <2>2. ASSUME NEW i \in 1 .. q, NEW j \in 1 .. p
        PROVE  /\ j <= M[i].kept => Under(g, T[j].block, End(T[j]), M[i].stackp, M[i].stacknxt)
               /\ j > M[i].behind => Under(g, M[i].stackp, M[i].stacknxt, T[j].block, T[j].at)
    <3>1. /\ j <= M[i].kept => Under(c, T[j].block, End(T[j]), M[i].stackp, M[i].stacknxt)
          /\ j > M[i].behind => Under(c, M[i].stackp, M[i].stacknxt, T[j].block, T[j].at)
      BY <1>8, <1>13 DEF Ordered
    <3>2. End(T[j]) \in Nat /\ T[j].at \in Nat /\ M[i].stacknxt \in Nat
      BY <1>8, PlaceIs, MarkIs
    <3> QED BY <3>1, <3>2, <1>5, <1>9, <1>10
  <2>3. ASSUME NEW i \in 1 .. q, NEW j \in 1 .. q, i < j
        PROVE  /\ Under(g, M[i].stackp, M[i].stacknxt, M[j].stackp, M[j].stacknxt)
               /\ M[i].behind <= M[j].kept
    <3>1. /\ Under(c, M[i].stackp, M[i].stacknxt, M[j].stackp, M[j].stacknxt)
          /\ M[i].behind <= M[j].kept
      BY <2>3, <1>8, <1>13 DEF Ordered
    <3>2. M[i].stacknxt \in Nat /\ M[j].stacknxt \in Nat
      BY <1>8, MarkIs
    <3> QED BY <3>1, <3>2, <1>5, <1>10
  <2> QED BY <2>1, <2>2, <2>3, <1>7 DEF Ordered
<1>15. Stacked(r, U, N)
  BY <1>1, <1>7, <1>9, <1>10, <1>11, <1>12, <1>14 DEF Stacked, TextsOK
<1> QED BY <1>6, <1>7, <1>15

(***************************************************************************)
(* The operations keep the invariant.                                      *)
(***************************************************************************)

LEMMA NothingWritten ==
  ASSUME NEW r, GoodStack(r), NEW T \in Seq(Place), NEW M \in Seq(MarkType), Stacked(r, T, M)
  PROVE  Fine(r, T, M, 0)
<1>1. /\ stackp(r) \in AllBlocks /\ r.stacknxt \in Nat /\ r.stacknleft \in Nat
      /\ r.stacknxt + r.stacknleft = Len(r.mem[stackp(r)])
  BY StackIs
<1>2. Holds(r.mem, stackp(r), r.stacknxt, Len(T) + 1, 0) /\ 0 <= r.stacknleft
  BY <1>1 DEF Holds
<1> QED BY <1>2 DEF Fine

\* Before stalloc takes what it is asked for, it may get a block for that.
LEMMA StallocIs ==
  ASSUME NEW s, GoodStack(s), NEW n \in Nat, NEW b \in Places(s, n), NEW N \in Nat
  PROVE  \E t : /\ GoodStack(t) /\ (t = s \/ Leads(s, t, N)) /\ ~Overflows(t, n)
                /\ stalloc(s, n, b) = Take(t, n)
<1>1. CASE Overflows(s, n)
  <2>1. b \in Free(s)
    BY <1>1 DEF Places
  <2>2. PICK t : t = NewBlock(s, n, b)
    OBVIOUS
  <2>3. PICK size \in Nat : SHELL_ALIGN(n) <= size /\ Added(s, t, b, size)
    BY <2>1, <2>2, NewBlockIs
  <2>4. GoodStack(t)
    BY <2>1, <2>2, NewBlockIs
  <2>5. Leads(s, t, N)
    BY <2>3, <2>4, AddedLeads
  <2>6. t.stacknleft = size /\ SHELL_ALIGN(n) \in Nat
    BY <2>3, ShellAlignIs DEF Added
  <2>7. ~Overflows(t, n)
    BY <2>3, <2>6 DEF Overflows
  <2>8. stalloc(s, n, b) = Take(t, n)
    BY <1>1, <2>2 DEF stalloc
  <2> QED BY <2>4, <2>5, <2>7, <2>8
<1>2. CASE ~Overflows(s, n)
  <2>1. stalloc(s, n, b) = Take(s, n)
    BY <1>2 DEF stalloc
  <2> QED BY <2>1, <1>2
<1> QED BY <1>1, <1>2

\* Nothing is under the start of a block that has been used.
LEMMA BelowHere ==
  ASSUME NEW r, GoodStack(r), NEW e \in Nat, e <= r.stacknxt, stackp(r) = Base \/ r.stacknxt > 0
  PROVE  Below(r, stackp(r), e)
<1>1. Len(r.chain) \in DOMAIN r.chain /\ r.chain[Len(r.chain)] = stackp(r)
  BY StackIs
<1>2. InChain(r.chain, stackp(r))
  BY <1>1 DEF InChain
<1> QED BY <1>2 DEF Below, Under

LEMMA StacksKept ==
  ASSUME NEW s, NEW T, NEW M, NEW l, Fine(s, T, M, l), NEW N \in Nat, Len(T) <= N,
         NEW t, GoodStack(t), t = s \/ Leads(s, t, N)
  PROVE  T \in Seq(Place) /\ M \in Seq(MarkType) /\ Stacked(t, T, M)
<1>1. GoodStack(s) /\ T \in Seq(Place) /\ M \in Seq(MarkType) /\ Stacked(s, T, M)
  BY DEF Fine
<1> QED BY <1>1, LeadsKeeps

LEMMA AllocateKeeps ==
  ASSUME NEW s, NEW T, NEW M, NEW l, Fine(s, T, M, l), NEW n \in Nat \ {0}, NEW b \in Places(s, n),
         NEW t, t = stalloc(s, n, b), NEW p, p = Allocated(t, n),
         NEW r, r = Write(Cleared(t, Len(T)), p.block, p.at, Text(Len(T) + 1, n))
  PROVE  Fine(r, Append(T, p), M, 0) /\ p.n = n
<1>1. GoodStack(s) /\ T \in Seq(Place) /\ M \in Seq(MarkType) /\ Stacked(s, T, M)
  BY DEF Fine
<1>2. PICK k \in Nat : k = Len(T) /\ k <= k
  BY <1>1, SeqIs
<1>3. n \in Nat
  OBVIOUS
<1>4. PICK m : /\ GoodStack(m) /\ (m = s \/ Leads(s, m, k)) /\ ~Overflows(m, n)
               /\ t = Take(m, n)
  BY <1>1, <1>2, <1>3, StallocIs
<1>5. Stacked(m, T, M)
  BY <1>2, <1>4, StacksKept
<1>6. PICK at \in Nat, a \in Nat, d \in AllBlocks :
        /\ at = m.stacknxt /\ a = SHELL_ALIGN(n) /\ d = stackp(m) /\ n <= a
        /\ m.mem \in [AllBlocks -> Seq(Cell)] /\ Len(m.mem[d]) \in Nat
        /\ at + m.stacknleft = Len(m.mem[d]) /\ m.stacknleft \in Nat
  BY <1>3, <1>4, StackIs, ShellAlignIs, MemIs
<1>7. /\ GoodStack(t) /\ t.chain = m.chain /\ t.mem = m.mem /\ stackp(t) = d
      /\ t.stacknxt = at + a /\ t.stacknleft = m.stacknleft - a
  BY ONLY <1>3, <1>4, <1>6, TakeIs
<1>8. p = [block |-> d, at |-> at, n |-> n] /\ p.block = d /\ p.at = at /\ p.n = n
  <2>1. t.stacknxt - SHELL_ALIGN(n) = at
    BY <1>6, <1>7
  <2> QED BY <2>1, <1>7 DEF Allocated
<1>9. PICK c : c = Cleared(t, k)
  OBVIOUS
<1>10. /\ Alike(t, c) /\ c.stacknxt = t.stacknxt /\ c.stacknleft = t.stacknleft
       /\ \A x \in AllBlocks : \A i \in 1 .. Len(t.mem[x]) :
            t.mem[x][i][1] <= k => c.mem[x][i] = t.mem[x][i]
  BY ONLY <1>7, <1>9, ClearedIs, k \in Nat
<1>11. GoodStack(c) /\ stackp(c) = d
  BY <1>7, <1>10, AlikeIsGood, StackIs
<1>12. PICK y \in Seq(Cell) : y = Text(k + 1, n) /\ Len(y) = n /\ \A i \in 1 .. n : y[i] = <<k + 1, i>>
  <2>1. PICK z \in Nat : z = k + 1
    OBVIOUS
  <2>2. PICK y : y = Text(z, n)
    OBVIOUS
  <2>3. y \in Seq(Cell) /\ Len(y) = n /\ \A i \in 1 .. n : y[i] = <<z, i>>
    BY ONLY <1>3, <2>2, TextIs, z \in Nat
  <2> QED BY <2>1, <2>2, <2>3
<1>13. r = Write(c, d, at, y)
  BY <1>2, <1>8, <1>9, <1>12
<1>14. /\ Alike(c, r) /\ r.stacknxt = c.stacknxt /\ r.stacknleft = c.stacknleft
       /\ \A x \in AllBlocks : x # d => r.mem[x] = c.mem[x]
       /\ \A i \in 1 .. Len(c.mem[d]) :
            r.mem[d][i] = IF i - at \in 1 .. Len(y) THEN y[i - at] ELSE c.mem[d][i]
  <2>1. Over(c, r, d, at, y)
    BY <1>6, <1>11, <1>12, <1>13, StackIs, WriteIs
  <2> QED BY <2>1 DEF Over
<1>15. GoodStack(r) /\ stackp(r) = d
  BY <1>11, <1>14, AlikeIsGood, StackIs
<1>16. r.chain = m.chain /\ r.stacknxt = at + a /\ r.stacknxt >= m.stacknxt
  <2>1. at + a >= at
    BY <1>6
  <2> QED BY <2>1, <1>6, <1>7, <1>10, <1>14 DEF Alike
<1>17. \A x \in AllBlocks :
         /\ Len(r.mem[x]) = Len(m.mem[x]) /\ Len(c.mem[x]) = Len(m.mem[x])
         /\ \A i \in 1 .. Len(m.mem[x]) : m.mem[x][i][1] <= k => c.mem[x][i] = m.mem[x][i]
  BY <1>7, <1>10, <1>14 DEF Alike
<1>18. ASSUME NEW x \in AllBlocks, NEW i \in 1 .. Len(m.mem[x]),
              x # stackp(m) \/ i <= m.stacknxt, m.mem[x][i][1] <= k
       PROVE  r.mem[x][i] = m.mem[x][i]
  <2>1. c.mem[x][i] = m.mem[x][i] /\ i \in 1 .. Len(c.mem[x]) /\ i \in Nat
    BY <1>17, <1>18
  <2>2. CASE x # d
    BY <2>1, <2>2, <1>14
  <2>3. CASE x = d
    <3>1. ~(i - at \in 1 .. Len(y))
      BY <2>1, <2>3, <1>6, <1>12, <1>18
    <3> QED BY <2>1, <2>3, <3>1, <1>14
  <2> QED BY <2>2, <2>3
<1>19. Leads(m, r, k)
  BY ONLY <1>4, <1>15, <1>16, <1>17, <1>18, AboveLeads, k \in Nat
<1>20. Below(r, d, at + n)
  <2>1. at + n \in Nat /\ at + n <= r.stacknxt /\ r.stacknxt > 0
    <3>1. n > 0 /\ n \in Nat
      OBVIOUS
    <3> QED BY ONLY <3>1, <1>6, <1>16
  <2> QED BY <2>1, <1>15, BelowHere
<1>21. Holds(r.mem, d, at, k + 1, n)
  <2>1. at + n <= Len(m.mem[d])
    <3>1. a <= m.stacknleft
      BY ONLY <1>4, <1>6 DEF Overflows
    <3>2. at + m.stacknleft = Len(m.mem[d]) /\ n <= a /\ a \in Nat /\ m.stacknleft \in Nat
      BY <1>6, ShellAlignIs
    <3> QED BY ONLY <3>1, <3>2, at \in Nat, n \in Nat
  <2>2. ASSUME NEW i \in 1 .. n
        PROVE  r.mem[d][at + i] = <<k + 1, i>>
    <3>1. PICK j : j = at + i
      OBVIOUS
    <3>2. j - at = i /\ j >= 1 /\ j <= at + n /\ j \in Nat
      BY ONLY <3>1, <1>3, i \in 1 .. n, at \in Nat
    <3>3. j \in 1 .. Len(c.mem[d])
      <4>1. PICK e : e = Len(m.mem[d]) /\ e \in Nat /\ e = Len(c.mem[d])
        BY <1>6, <1>17
      <4> QED BY ONLY <2>1, <3>2, <4>1, <1>3, at \in Nat
    <3>4. r.mem[d][j] = y[i]
      <4>1. r.mem[d][j] = IF j - at \in 1 .. Len(y) THEN y[j - at] ELSE c.mem[d][j]
        BY <3>3, <1>14
      <4>2. Len(y) = n
        BY <1>12
      <4> QED BY ONLY <3>2, <4>1, <4>2, i \in 1 .. n
    <3>5. y[i] = <<k + 1, i>>
      BY <1>12
    <3> QED BY <3>1, <3>4, <3>5
  <2>3. Len(r.mem[d]) = Len(m.mem[d])
    BY <1>17
  <2> QED BY <2>1, <2>2, <2>3 DEF Holds
<1>22. Append(T, p) \in Seq(Place) /\ Stacked(r, Append(T, p), M)
  <2>1. p = [block |-> stackp(m), at |-> m.stacknxt, n |-> n]
    BY <1>6, <1>8
  <2>2. Below(r, stackp(m), m.stacknxt + n) /\ Holds(r.mem, stackp(m), m.stacknxt, Len(T) + 1, n)
    BY <1>2, <1>6, <1>20, <1>21
  <2>3. Len(T) <= k
    BY <1>2
  <2> QED BY ONLY <2>1, <2>2, <2>3, <1>1, <1>3, <1>4, <1>5, <1>16, <1>19, k \in Nat, AddText
<1> QED BY <1>1, <1>8, <1>15, <1>22, NothingWritten

LEMMA ClearedLeads ==
  ASSUME NEW s, GoodStack(s), NEW n \in Nat
  PROVE  /\ Leads(s, Cleared(s, n), n) /\ GoodStack(Cleared(s, n)) /\ Cleared(s, n).chain = s.chain
         /\ Cleared(s, n).stacknxt = s.stacknxt /\ Cleared(s, n).stacknleft = s.stacknleft
<1>1. PICK r : r = Cleared(s, n)
  OBVIOUS
<1>2. /\ Alike(s, r) /\ r.stacknxt = s.stacknxt /\ r.stacknleft = s.stacknleft
      /\ \A b \in AllBlocks : \A i \in 1 .. Len(s.mem[b]) :
           s.mem[b][i][1] <= n => r.mem[b][i] = s.mem[b][i]
  BY <1>1, ClearedIs
<1>3. GoodStack(r)
  BY <1>2, AlikeIsGood, StackIs
<1>4. r.chain = s.chain /\ r.stacknxt >= s.stacknxt /\ \A b \in AllBlocks : Len(r.mem[b]) = Len(s.mem[b])
  BY <1>2, StackIs DEF Alike
<1>5. Leads(s, r, n)
  BY <1>2, <1>3, <1>4, AboveLeads
<1> QED BY <1>1, <1>2, <1>3, <1>4, <1>5

LEMMA ClearedKeeps ==
  ASSUME NEW s, NEW T, NEW M, NEW l, Fine(s, T, M, l), NEW n \in Nat, Len(T) <= n
  PROVE  Fine(Cleared(s, n), T, M, 0)
<1>1. GoodStack(s) /\ T \in Seq(Place) /\ M \in Seq(MarkType) /\ Stacked(s, T, M)
  BY DEF Fine
<1>2. PICK r : r = Cleared(s, n) /\ Leads(s, r, n) /\ GoodStack(r)
  BY <1>1, ClearedLeads
<1>3. Stacked(r, T, M)
  BY <1>1, <1>2, LeadsKeeps
<1> QED BY <1>1, <1>2, <1>3, NothingWritten

LEMMA GrowKeeps ==
  ASSUME NEW s, NEW T, NEW M, NEW l, Fine(s, T, M, l), NEW b \in GrowPlaces(s)
  PROVE  Fine(growstackblock(s, b), T, M, l)
<1>1. /\ GoodStack(s) /\ T \in Seq(Place) /\ M \in Seq(MarkType) /\ Stacked(s, T, M)
      /\ l \in Nat /\ l <= s.stacknleft /\ Holds(s.mem, stackp(s), s.stacknxt, Len(T) + 1, l)
  BY DEF Fine
<1>2. PICK k \in Nat : k = Len(T) /\ Len(T) <= k
  BY <1>1, SeqIs
<1>3. PICK r : r = growstackblock(s, b)
  OBVIOUS
<1>4. s.stacknleft \in Nat /\ s.stacknxt \in Nat /\ newlen(s) \in Nat /\ s.stacknleft < newlen(s)
  BY <1>1, StackIs, NewlenIs
<1>5. /\ GoodStack(r) /\ Leads(s, r, k) /\ stackp(r) = b /\ r.stacknxt = 0 /\ newlen(s) <= r.stacknleft
      /\ r.stacknleft = Len(r.mem[b]) /\ r.stacknleft \in Nat
      /\ \A i \in 1 .. s.stacknleft : r.mem[b][i] = s.mem[stackp(s)][s.stacknxt + i]
  <2>1. CASE AtStart(s)
    <3>1. r = realloc(s, b) /\ b \in Free(s) \cup {stackp(s)}
      BY <1>3, <2>1 DEF growstackblock, GrowPlaces
    <3>2. GoodStack(r) /\ Grown(s, r, b)
      BY <3>1, <2>1, <1>1, ReallocIs
    <3>3. Leads(s, r, k) /\ stackp(r) = b
      BY <3>1, <3>2, <2>1, <1>1, GrownLeads
    <3>4. \A i \in 1 .. s.stacknleft : s.stacknxt + i = i
      BY <2>1, <1>4 DEF AtStart
    <3> QED BY <3>2, <3>3, <3>4, <1>4 DEF Grown
  <2>2. CASE ~AtStart(s)
    <3>1. r = Moved(s, b) /\ b \in Places(s, newlen(s))
      BY <1>3, <2>2 DEF growstackblock, GrowPlaces
    <3>2. GoodStack(r)
      BY <3>1, <1>1, MovedIs
    <3>3. PICK size \in Nat :
            /\ newlen(s) <= size /\ Added(s, r, b, size)
            /\ \A i \in 1 .. s.stacknleft : r.mem[b][i] = s.mem[stackp(s)][s.stacknxt + i]
      BY <3>1, <1>1, MovedIs
    <3>4. Leads(s, r, k) /\ stackp(r) = b
      BY <3>2, <3>3, <1>1, AddedLeads
    <3> QED BY <3>2, <3>3, <3>4 DEF Added
  <2> QED BY <2>1, <2>2
<1>6. Stacked(r, T, M)
  BY <1>1, <1>2, <1>5, LeadsKeeps
<1>7. l <= r.stacknleft
  BY <1>1, <1>4, <1>5
<1>8. ASSUME NEW i \in 1 .. l
      PROVE  r.mem[b][0 + i] = <<Len(T) + 1, i>>
  <2>1. i \in 1 .. s.stacknleft /\ 0 + i = i
    BY <1>1, <1>4
  <2>2. s.mem[stackp(s)][s.stacknxt + i] = <<Len(T) + 1, i>>
    BY <1>1 DEF Holds
  <2> QED BY <2>1, <2>2, <1>5
<1>9. 0 + l <= Len(r.mem[b])
  BY <1>1, <1>5, <1>7
<1>10. Holds(r.mem, stackp(r), r.stacknxt, Len(T) + 1, l)
  BY <1>5, <1>8, <1>9 DEF Holds
<1> QED BY <1>1, <1>3, <1>5, <1>6, <1>7, <1>10 DEF Fine

\* Characters are added to the string.
LEMMA CopyKeeps ==
  ASSUME NEW s, NEW T, NEW M, NEW l, Fine(s, T, M, l), NEW w \in Nat, l + w <= s.stacknleft,
         NEW x, x = SubSeq(Text(Len(T) + 1, l + w), l + 1, l + w),
         NEW r, r = Write(s, stackp(s), s.stacknxt + l, x)
  PROVE  Fine(r, T, M, l + w)
<1>1. /\ GoodStack(s) /\ T \in Seq(Place) /\ M \in Seq(MarkType) /\ Stacked(s, T, M)
      /\ l \in Nat /\ l <= s.stacknleft /\ Holds(s.mem, stackp(s), s.stacknxt, Len(T) + 1, l)
  BY DEF Fine
<1>2. PICK k \in Nat, z \in Nat : k = Len(T) /\ Len(T) <= k /\ z = k + 1 /\ z = Len(T) + 1
  BY <1>1, SeqIs
<1>3. PICK d \in AllBlocks, nxt \in Nat, left \in Nat :
        /\ d = stackp(s) /\ nxt = s.stacknxt /\ left = s.stacknleft /\ nxt + left = Len(s.mem[d])
  BY <1>1, StackIs
<1>4. PICK n \in Nat, m \in Nat \ {0}, at \in Nat : n = l + w /\ m = l + 1 /\ at = nxt + l
  BY <1>1
<1>5. PICK y : y = Text(z, n)
  OBVIOUS
<1>6. y \in Seq(Cell) /\ Len(y) = n /\ \A i \in 1 .. n : y[i] = <<z, i>>
  BY <1>5, TextIs
<1>7. x = SubSeq(y, m, n)
  BY <1>2, <1>4, <1>5
<1>8. x \in Seq(Cell) /\ Len(x) = w /\ \A i \in 1 .. w : x[i] = <<z, l + i>>
  <2>1. m <= n + 1 /\ n <= Len(y) /\ n - m + 1 = w
    BY <1>1, <1>4, <1>6
  <2>2. /\ x \in Seq(Cell) /\ Len(x) = n - m + 1
        /\ \A i \in 1 .. n - m + 1 : x[i] = y[m + i - 1]
    BY ONLY <2>1, <1>6, <1>7, PartIs, n \in Nat, m \in Nat \ {0}
  <2>3. \A i \in 1 .. w : m + i - 1 = l + i /\ l + i \in 1 .. n
    BY <1>1, <1>4
  <2>4. \A i \in 1 .. w : y[l + i] = <<z, l + i>>
    BY <2>3, <1>6
  <2> QED BY <2>1, <2>2, <2>3, <2>4
<1>9. r = Write(s, d, at, x)
  BY <1>3, <1>4
<1>10. /\ Alike(s, r) /\ r.stacknxt = s.stacknxt /\ r.stacknleft = s.stacknleft
       /\ \A b \in AllBlocks : b # d => r.mem[b] = s.mem[b]
       /\ \A i \in 1 .. Len(s.mem[d]) : r.mem[d][i] = IF i - at \in 1 .. Len(x) THEN x[i - at] ELSE s.mem[d][i]
  <2>1. GoodStack(s) /\ x \in Seq(Cell)
    BY <1>1, <1>8
  <2>2. Over(s, r, d, at, x)
    BY ONLY <2>1, <1>9, WriteIs, d \in AllBlocks, at \in Nat
  <2> QED BY <2>2 DEF Over
<1>11. GoodStack(r) /\ stackp(r) = d
  BY <1>1, <1>3, <1>10, AlikeIsGood, StackIs
<1>12. ASSUME NEW b \in AllBlocks, NEW i \in 1 .. Len(s.mem[b]), b # stackp(s) \/ i <= s.stacknxt
       PROVE  r.mem[b][i] = s.mem[b][i]
  <2>1. CASE b # d
    BY <2>1, <1>10
  <2>2. CASE b = d
    <3>1. i <= nxt /\ i \in Int
      BY <2>2, <1>3, <1>12
    <3>2. i - at < 1
      <4>1. at = nxt + l /\ l \in Nat
        BY <1>1, <1>4
      <4> QED BY ONLY <3>1, <4>1, nxt \in Nat
    <3>3. ~(i - at \in 1 .. Len(x))
      BY <3>2
    <3> QED BY <2>2, <3>3, <1>10
  <2> QED BY <2>1, <2>2
<1>13. Leads(s, r, k)
  <2>1. /\ r.chain = s.chain /\ r.stacknxt >= s.stacknxt
        /\ \A b \in AllBlocks : Len(r.mem[b]) = Len(s.mem[b])
    BY <1>3, <1>10 DEF Alike
  <2> QED BY <2>1, <1>1, <1>11, <1>12, AboveLeads
<1>14. Stacked(r, T, M)
  BY <1>1, <1>2, <1>13, LeadsKeeps
<1>15. n <= left /\ nxt + n <= nxt + left
  <2>1. n <= left
    BY <1>3, <1>4
  <2> QED BY ONLY <2>1, n \in Nat, left \in Nat, nxt \in Nat
<1>16. ASSUME NEW i \in 1 .. n
       PROVE  r.mem[d][nxt + i] = <<z, i>>
  <2>1. PICK j : j = nxt + i
    OBVIOUS
  <2>2. j \in 1 .. Len(s.mem[d]) /\ i \in Nat
    <3>1. j \in 1 .. nxt + left /\ i \in Nat
      BY ONLY <2>1, <1>15, i \in 1 .. n, n \in Nat, left \in Nat, nxt \in Nat
    <3> QED BY <3>1, <1>3
  <2>3. CASE i <= l
    <3>1. ~(j - at \in 1 .. Len(x))
      <4>1. j = nxt + i /\ at = nxt + l /\ i <= l /\ i \in Nat /\ l \in Nat
        BY <2>1, <2>2, <2>3, <1>1, <1>4
      <4>2. j - at < 1
        BY ONLY <4>1, nxt \in Nat
      <4> QED BY <4>2
    <3>2. s.mem[d][nxt + i] = <<z, i>>
      <4>1. i \in 1 .. l
        BY <2>2, <2>3, <1>1
      <4> QED BY <4>1, <1>1, <1>2, <1>3 DEF Holds
    <3> QED BY <3>1, <3>2, <2>1, <2>2, <1>10
  <2>4. CASE i > l
    <3>1. PICK h : h = i - l
      OBVIOUS
    <3>2. h \in 1 .. w /\ j - at = h /\ l + h = i
      <4>1. n = l + w /\ at = nxt + l /\ l \in Nat
        BY <1>1, <1>4
      <4> QED BY ONLY <3>1, <2>1, <2>4, <4>1, i \in 1 .. n, w \in Nat, nxt \in Nat
    <3>3. r.mem[d][j] = x[h]
      <4>1. r.mem[d][j] = IF j - at \in 1 .. Len(x) THEN x[j - at] ELSE s.mem[d][j]
        BY <2>2, <1>10
      <4>2. Len(x) = w
        BY <1>8
      <4> QED BY ONLY <3>2, <4>1, <4>2
    <3>4. x[h] = <<z, l + h>>
      BY <3>2, <1>8
    <3> QED BY <3>2, <3>3, <3>4, <2>1
  <2> QED BY <2>2, <2>3, <2>4, <1>1
<1>17. Holds(r.mem, d, nxt, z, n)
  BY <1>3, <1>10, <1>15, <1>16 DEF Holds, Alike
<1> QED BY <1>1, <1>2, <1>3, <1>4, <1>10, <1>11, <1>14, <1>15, <1>17 DEF Fine

LEMMA Fits ==
  ASSUME NEW s, GoodStack(s), NEW n \in Nat, n <= s.stacknleft
  PROVE  ~Overflows(s, n) /\ Places(s, n) = {stackp(s)} /\ \A b : stalloc(s, n, b) = Take(s, n)
<1>1. s.stacknleft \in Nat /\ Aligned(s.stacknleft)
  BY StackIs
<1>2. SHELL_ALIGN(n) <= s.stacknleft /\ SHELL_ALIGN(n) \in Nat
  BY <1>1, ShellAlignIs
<1>3. ~Overflows(s, n)
  BY <1>1, <1>2 DEF Overflows
<1> QED BY <1>3 DEF Places, stalloc

Reaches(r, s, n) == \A l \in 0 .. n : Below(r, stackp(s), s.stacknxt + l)

\* What is taken is behind the place where the free rest began.
LEMMA TakeLeads ==
  ASSUME NEW s, GoodStack(s), NEW n \in Nat, n <= s.stacknleft, n > 0 \/ ~AtStart(s),
         NEW r, r = Take(s, n), NEW N \in Nat
  PROVE  /\ GoodStack(r) /\ Leads(s, r, N) /\ r.chain = s.chain /\ r.mem = s.mem
         /\ stackp(r) = stackp(s)
         /\ Reaches(r, s, n)
<1>1. PICK at \in Nat, a \in Nat : at = s.stacknxt /\ a = SHELL_ALIGN(n) /\ n <= a
  BY StackIs, ShellAlignIs
<1>2. /\ GoodStack(r) /\ r.chain = s.chain /\ r.mem = s.mem /\ stackp(r) = stackp(s)
      /\ r.stacknxt = at + a
  <2>1. ~Overflows(s, n)
    BY Fits
  <2> QED BY <2>1, <1>1, TakeIs
<1>3. r.stacknxt >= s.stacknxt
  BY <1>1, <1>2
<1>4. Leads(s, r, N)
  BY <1>2, <1>3, AboveLeads
<1>5. stackp(r) = Base \/ r.stacknxt > 0
  BY <1>1, <1>2 DEF AtStart
<1>6. ASSUME NEW l \in 0 .. n
      PROVE  Below(r, stackp(s), s.stacknxt + l)
  <2>1. at + l \in Nat /\ at + l <= r.stacknxt
    BY <1>1, <1>2
  <2> QED BY <2>1, <1>1, <1>2, <1>5, BelowHere
<1> QED BY <1>2, <1>4, <1>6 DEF Reaches

\* The string becomes a text.
LEMMA TextTaken ==
  ASSUME NEW s, NEW T, NEW M, NEW l, Fine(s, T, M, l), NEW n \in Nat, l <= n, n <= s.stacknleft,
         n > 0 \/ ~AtStart(s), NEW r, r = Take(s, n),
         NEW t, t = [block |-> stackp(s), at |-> s.stacknxt, n |-> l]
  PROVE  Append(T, t) \in Seq(Place) /\ Stacked(r, Append(T, t), M)
<1>1. /\ GoodStack(s) /\ T \in Seq(Place) /\ M \in Seq(MarkType) /\ Stacked(s, T, M)
      /\ l \in Nat /\ Holds(s.mem, stackp(s), s.stacknxt, Len(T) + 1, l)
  BY DEF Fine
<1>2. PICK k \in Nat : k = Len(T) /\ Len(T) <= k
  BY <1>1, SeqIs
<1>3. l \in 0 .. n
  BY <1>1
<1>4. /\ Leads(s, r, k) /\ r.chain = s.chain /\ r.mem = s.mem
      /\ Below(r, stackp(s), s.stacknxt + l)
  <2>1. Leads(s, r, k) /\ r.chain = s.chain /\ r.mem = s.mem /\ Reaches(r, s, n)
    BY <1>1, TakeLeads
  <2> QED BY <2>1, <1>3 DEF Reaches
<1>5. Holds(r.mem, stackp(s), s.stacknxt, Len(T) + 1, l)
  BY <1>1, <1>4
<1> QED BY <1>1, <1>2, <1>4, <1>5, AddText

LEMMA GrabKeeps ==
  ASSUME NEW s, NEW T, NEW M, NEW l, Fine(s, T, M, l), l > 0, NEW b \in Places(s, l),
         NEW t, t = [block |-> stackp(s), at |-> s.stacknxt, n |-> l]
  PROVE  Fine(stalloc(s, l, b), Append(T, t), M, 0)
<1>1. GoodStack(s) /\ M \in Seq(MarkType) /\ l \in Nat /\ l <= s.stacknleft /\ l <= l
  BY DEF Fine
<1>2. PICK r : r = Take(s, l)
  OBVIOUS
<1>3. r = stalloc(s, l, b) /\ GoodStack(r)
  BY <1>1, <1>2, Fits, TakeIs
<1>4. Append(T, t) \in Seq(Place) /\ Stacked(r, Append(T, t), M)
  BY <1>1, <1>2, TextTaken
<1> QED BY <1>1, <1>3, <1>4, NothingWritten

\* A mark, and the text that is held behind it, if any.
Longer(T, U) == Len(T) <= Len(U) /\ \A i \in 1 .. Len(T) : U[i] = T[i]
HeldIn(s, T, U, h) ==
  /\ h <= s.stacknleft
  /\ h > 0 => /\ Len(T) < Len(U)
              /\ U[Len(T) + 1] = [block |-> stackp(s), at |-> s.stacknxt, n |-> h]

LEMMA MarkKeeps ==
  ASSUME NEW s, NEW T, NEW M, NEW l, Fine(s, T, M, l), NEW n \in Nat, n <= s.stacknleft,
         n > 0 \/ ~AtStart(s), NEW b \in Places(s, n),
         NEW U \in Seq(Place), Stacked(Take(s, n), U, M), Longer(T, U),
         NEW h \in Nat, HeldIn(s, T, U, h), NEW m, m = Mark(s, Len(T), Len(U), h)
  PROVE  /\ Fine(Cleared(stalloc(s, n, b), Len(U)), U, Append(M, m), 0)
         /\ m.kept = Len(T) /\ m.behind = Len(U) /\ m.held = h
<1>1. GoodStack(s) /\ T \in Seq(Place) /\ M \in Seq(MarkType) /\ Stacked(s, T, M)
  BY DEF Fine
<1> USE DEF Longer, HeldIn
<1>2. PICK k \in Nat, j \in Nat : k = Len(T) /\ j = Len(U)
  BY <1>1, SeqIs
<1>3. PICK q : q = Take(s, n) /\ q = stalloc(s, n, b)
  BY <1>1, Fits
<1>4. /\ GoodStack(q) /\ q.chain = s.chain /\ q.mem = s.mem
      /\ Below(q, stackp(s), s.stacknxt)
  <2>1. /\ GoodStack(q) /\ Leads(s, q, k) /\ q.chain = s.chain /\ q.mem = s.mem
        /\ Reaches(q, s, n)
    <3>1. GoodStack(s) /\ q = Take(s, n) /\ n <= s.stacknleft /\ (n > 0 \/ ~AtStart(s))
      BY <1>1, <1>3
    <3> QED BY ONLY <3>1, TakeLeads, n \in Nat, k \in Nat
  <2>2. 0 \in 0 .. n /\ s.stacknxt + 0 = s.stacknxt
    BY <1>1, StackIs
  <2> QED BY <2>1, <2>2 DEF Reaches
<1>5. /\ stackp(s) \in AllBlocks /\ s.stacknxt \in Nat /\ s.stacknleft \in Nat
      /\ Aligned(s.stacknxt) /\ Aligned(s.stacknleft) /\ s.stacknxt + s.stacknleft = Len(s.mem[stackp(s)])
  BY <1>1, StackIs
<1>6. m = [stackp |-> stackp(s), stacknxt |-> s.stacknxt, stacknleft |-> s.stacknleft,
           kept |-> k, behind |-> j, held |-> h]
  BY <1>2 DEF Mark
<1>7. /\ m \in MarkType /\ m.stackp = stackp(s) /\ m.stacknxt = s.stacknxt
      /\ m.stacknleft = s.stacknleft /\ m.kept = k /\ m.behind = j /\ m.held = h
  BY ONLY <1>5, <1>6, k \in Nat, j \in Nat, h \in Nat DEF MarkType
<1>8. MarkOK(q.mem, U, m)
  <2>1. k <= j /\ j <= Len(U) /\ (h > 0 => k < j /\ U[k + 1] = [block |-> stackp(s), at |-> s.stacknxt, n |-> h])
    BY <1>2
  <2> QED BY <2>1, <1>4, <1>5, <1>7 DEF MarkOK
<1>9. Stacked(q, U, M) /\ m.kept = Len(T) /\ m.behind = Len(U) /\ m.held = h
  BY <1>2, <1>3, <1>7
<1>10. PICK N : N = Append(M, m)
  OBVIOUS
<1>11. N \in Seq(MarkType) /\ Stacked(q, U, N)
  BY <1>1, <1>4, <1>7, <1>8, <1>9, <1>10, AddMark
<1>12. PICK r : r = Cleared(q, j) /\ Leads(q, r, j) /\ GoodStack(r)
  BY <1>4, ClearedLeads
<1>13. Len(U) <= j
  BY <1>2
<1>14. Stacked(r, U, N)
  BY <1>4, <1>11, <1>12, <1>13, LeadsKeeps
<1>15. Fine(r, U, N, 0)
  BY <1>11, <1>12, <1>14, NothingWritten
<1> QED BY <1>2, <1>3, <1>9, <1>10, <1>12, <1>15

LEMMA StartIsFree ==
  ASSUME NEW s, GoodStack(s), AtStart(s)
  PROVE  s.stacknleft > 0
<1>1. Len(s.chain) \in DOMAIN s.chain /\ s.chain[Len(s.chain)] = stackp(s)
  BY StackIs
<1>2. s.mem[stackp(s)] # <<>>
  BY <1>1 DEF GoodStack
<1>3. s.mem[stackp(s)] \in Seq(Cell)
  BY StackIs
<1>4. Len(s.mem[stackp(s)]) > 0 /\ s.stacknxt = 0 /\ s.stacknleft \in Nat
      /\ s.stacknxt + s.stacknleft = Len(s.mem[stackp(s)])
  BY <1>2, <1>3, EmptySeq, StackIs DEF AtStart
<1> QED BY <1>4

LEMMA UnallocIs ==
  ASSUME NEW s, GoodStack(s), NEW at \in Nat, Aligned(at), at <= s.stacknxt
  PROVE  LET r == stunalloc(s, at) IN
         /\ GoodStack(r) /\ r.chain = s.chain /\ r.mem = s.mem /\ stackp(r) = stackp(s)
         /\ r.stacknxt = at
<1>1. s \in StackType
  BY DEF GoodStack
<1>2. PICK nxt \in Nat, left \in Nat : nxt = s.stacknxt /\ left = s.stacknleft /\ Aligned(nxt) /\ Aligned(left)
  BY StackIs
<1>3. PICK more : more = left + nxt - at
  OBVIOUS
<1>4. nxt - at \in Nat /\ more = left + (nxt - at) /\ at + more = nxt + left
  BY <1>2, <1>3
<1>5. Aligned(nxt - at)
  BY <1>2, AlignedIs
<1>6. more \in Nat /\ Aligned(more)
  <2>1. PICK d \in Nat : d = nxt - at /\ Aligned(d)
    BY <1>4, <1>5
  <2>2. Aligned(left + d)
    BY ONLY <1>2, <2>1, AlignedIs, left \in Nat, d \in Nat
  <2> QED BY <2>1, <2>2, <1>4
<1>7. PICK r : r = stunalloc(s, at)
  OBVIOUS
<1>8. r = [s EXCEPT !.stacknleft = more, !.stacknxt = at]
  BY <1>2, <1>3, <1>7 DEF stunalloc
<1>9. /\ r \in StackType /\ r.chain = s.chain /\ r.mem = s.mem /\ r.sstrend = s.sstrend
      /\ r.stacknxt = at /\ r.stacknleft = more
  BY <1>1, <1>6, <1>8 DEF StackType
<1>10. Alike(s, r)
  BY <1>2, <1>4, <1>9 DEF Alike
<1>11. Aligned(r.stacknxt) /\ Aligned(r.stacknleft)
  BY <1>6, <1>9
<1> QED BY <1>7, <1>9, <1>10, <1>11, AlikeIsGood

LEMMA UnallocKeeps ==
  ASSUME NEW s, NEW T, NEW M, NEW l, Fine(s, T, M, l), T # <<>>,
         M # <<>> => Last(M).behind < Len(T), Last(T).block = stackp(s)
  PROVE  Fine(Cleared(stunalloc(s, Last(T).at), Len(T) - 1), Front(T), M, 0)
<1>1. GoodStack(s) /\ T \in Seq(Place) /\ M \in Seq(MarkType) /\ Stacked(s, T, M)
  BY DEF Fine
<1>2. PICK k \in Nat, p \in Nat, q \in Nat : k = Len(T) /\ k > 0 /\ p = k - 1 /\ q = Len(M)
  <2>1. Len(T) \in Nat /\ Len(T) > 0 /\ Len(M) \in Nat
    BY <1>1, FrontIs, SeqIs
  <2>2. Len(T) - 1 \in Nat
    BY <2>1
  <2> QED BY ONLY <2>1, <2>2
<1>3. DOMAIN T = 1 .. k /\ k \in DOMAIN T /\ Last(T) = T[k] /\ DOMAIN M = 1 .. q
  <2>1. Last(T) = T[Len(T)]
    BY <1>1, FrontIs
  <2>2. DOMAIN T = 1 .. Len(T) /\ DOMAIN M = 1 .. Len(M)
    BY <1>1, SeqIs
  <2> QED BY <2>1, <2>2, <1>2
<1>4. PICK at \in Nat, b \in AllBlocks : at = T[k].at /\ b = T[k].block /\ b = stackp(s)
  BY <1>1, <1>3, PlaceIs
<1>5. Aligned(at) /\ Below(s, b, at)
  BY <1>1, <1>3, <1>4, TextBelow DEF Stacked, TextsOK
<1>6. at <= s.stacknxt
  <2>1. PICK i \in 1 .. Len(s.chain) : s.chain[i] = b /\ (i < Len(s.chain) \/ at <= s.stacknxt)
    BY <1>1, <1>5, BelowIs
  <2>2. /\ Len(s.chain) \in 1 .. Len(s.chain) /\ DOMAIN s.chain = 1 .. Len(s.chain)
        /\ b = s.chain[Len(s.chain)]
    BY <1>1, <1>4, StackIs
  <2>3. s.chain[i] = s.chain[Len(s.chain)] => i = Len(s.chain)
    BY <1>1, <2>2 DEF GoodStack, Distinct
  <2> QED BY <2>1, <2>2, <2>3
<1>7. PICK u : u = stunalloc(s, at)
  OBVIOUS
<1>8. GoodStack(u) /\ u.chain = s.chain /\ u.mem = s.mem /\ u.stacknxt = at
  BY <1>1, <1>5, <1>6, <1>7, UnallocIs
<1>9. PICK r : r = Cleared(u, p)
  OBVIOUS
<1>10. /\ Alike(u, r) /\ r.stacknxt = at
       /\ \A d \in AllBlocks : \A i \in 1 .. Len(u.mem[d]) : u.mem[d][i][1] <= p => r.mem[d][i] = u.mem[d][i]
  BY <1>8, <1>9, ClearedIs
<1>11. GoodStack(r) /\ r.chain = s.chain /\ stackp(r) = b
  <2>1. GoodStack(r) /\ r.chain = u.chain
    BY <1>8, <1>9, ClearedLeads
  <2> QED BY <2>1, <1>4, <1>8 DEF stackp
<1>12. p \in 0 .. Len(T) /\ q \in 0 .. Len(M)
  BY <1>2
<1>13. Prefix(s.chain, r.chain, Len(r.chain))
  BY <1>11, StackIs DEF Prefix
<1>14. Ordered(s.chain, T, M)
  BY <1>1 DEF Stacked
<1>15. ASSUME NEW i \in 1 .. p
       PROVE  Under(s.chain, T[i].block, End(T[i]), stackp(r), r.stacknxt)
  <2>1. i \in DOMAIN T /\ i < k
    BY <1>2, <1>3
  <2>2. Under(s.chain, T[i].block, End(T[i]), T[k].block, T[k].at)
    BY <2>1, <1>3, <1>14 DEF Ordered
  <2> QED BY <2>2, <1>4, <1>10, <1>11
<1>16. ASSUME NEW i \in 1 .. q
       PROVE  M[i].behind <= p /\ M[i].behind < k
  <2>1. q \in 1 .. q /\ M # <<>> /\ i \in Nat /\ i <= q
    BY <1>1, <1>2, EmptySeq
  <2>2. M[q].behind < k /\ Last(M) = M[q]
    BY <2>1, <1>1, <1>2, FrontIs
  <2>3. M[q].kept <= M[q].behind
    BY <2>1, <1>1, <1>3 DEF Stacked, MarkOK
  <2>4. i = q \/ M[i].behind <= M[q].kept
    BY <2>1, <1>3, <1>14 DEF Ordered
  <2>5. M[i].behind \in Nat /\ M[q].kept \in Nat /\ M[q].behind \in Nat
    BY <2>1, <1>1, <1>3, MarkIs
  <2>6. M[i].behind < k
    BY ONLY <2>2, <2>3, <2>4, <2>5, k \in Nat
  <2> QED BY ONLY <2>5, <2>6, <1>2, k \in Nat, p \in Nat
<1>17. ASSUME NEW i \in 1 .. q
       PROVE  Under(s.chain, M[i].stackp, M[i].stacknxt, stackp(r), r.stacknxt)
  <2>1. k > M[i].behind
    BY <1>1, <1>3, <1>16, MarkIs
  <2>2. Under(s.chain, M[i].stackp, M[i].stacknxt, T[k].block, T[k].at)
    BY <2>1, <1>3, <1>14 DEF Ordered
  <2> QED BY <2>2, <1>4, <1>10, <1>11
<1>18. Remain(s, r, p) /\ Behind(s, T, M, r, p, q)
  <2>1. Remain(s, r, p)
    BY ONLY <1>8, <1>10 DEF Alike, Remain
  <2> QED BY <2>1, <1>13, <1>15, <1>16, <1>17 DEF Behind
<1>19. /\ SubSeq(T, 1, p) \in Seq(Place) /\ SubSeq(M, 1, q) \in Seq(MarkType)
       /\ Stacked(r, SubSeq(T, 1, p), SubSeq(M, 1, q))
  BY ONLY <1>1, <1>11, <1>12, <1>18, BackKeeps
<1>20. SubSeq(T, 1, p) = Front(T) /\ SubSeq(M, 1, q) = M
  BY <1>1, <1>2, SubSeqFull DEF Front
<1>21. r = Cleared(stunalloc(s, Last(T).at), Len(T) - 1)
  BY <1>2, <1>3, <1>4, <1>7, <1>9
<1> QED BY <1>11, <1>19, <1>20, <1>21, NothingWritten

Indices(c, x) == {j \in 1 .. Len(c) : c[j] = x}
First(c, x) == IF Indices(c, x) # {} THEN Min(Indices(c, x)) ELSE 0

LEMMA Selected ==
  ASSUME NEW T, NEW c \in Seq(T), NEW x, NEW i \in 1 .. Len(c), c[i] = x,
         \A j \in 1 .. Len(c) : c[j] = x => j = i
  PROVE  First(c, x) = i
<1>1. PICK I : I = Indices(c, x)
  OBVIOUS
<1>2. I = {i} /\ i \in Nat
  BY <1>1, SeqIs DEF Indices
<1>3. Min(I) = i
  BY <1>2 DEF Min
<1> QED BY <1>1, <1>2, <1>3 DEF First

\* The blocks behind a mark are freed.
LEMMA PoppedIs ==
  ASSUME NEW s, GoodStack(s), NEW m \in MarkType, Below(s, m.stackp, m.stacknxt),
         Aligned(m.stacknxt), Aligned(m.stacknleft),
         m.stacknxt + m.stacknleft = Len(s.mem[m.stackp])
  PROVE  LET r == popstackmark(s, m) IN
         /\ GoodStack(r) /\ stackp(r) = m.stackp /\ r.stacknxt = m.stacknxt
         /\ r.stacknleft = m.stacknleft /\ Prefix(s.chain, r.chain, Len(r.chain))
         /\ \A b \in AllBlocks : InChain(r.chain, b) => r.mem[b] = s.mem[b]
<1>1. s \in StackType
  BY DEF GoodStack
<1>2. /\ s.mem \in [AllBlocks -> Seq(Cell)] /\ DOMAIN s.mem = AllBlocks /\ s.chain \in Seq(AllBlocks)
      /\ Len(s.chain) \in Nat /\ DOMAIN s.chain = 1 .. Len(s.chain)
      /\ \A i \in 1 .. Len(s.chain) : s.chain[i] \in AllBlocks /\ s.mem[s.chain[i]] # <<>>
  BY StackIs, SeqIs DEF GoodStack
<1>3. /\ m.stackp \in AllBlocks /\ m.stacknxt \in Nat /\ m.stacknleft \in Nat
  BY DEF MarkType
<1>4. PICK i \in 1 .. Len(s.chain) : s.chain[i] = m.stackp
  BY <1>3, BelowIs
<1>5. \A j, k \in 1 .. Len(s.chain) : s.chain[j] = s.chain[k] => j = k
  BY <1>2 DEF GoodStack, Distinct
<1>6. SelectInSeq(s.chain, LAMBDA b : b = m.stackp) = i
  <2>1. PICK c, x : c = s.chain /\ x = m.stackp
    OBVIOUS
  <2>2. /\ c \in Seq(AllBlocks) /\ i \in 1 .. Len(c) /\ c[i] = x
        /\ \A j \in 1 .. Len(c) : c[j] = x => j = i
    BY <2>1, <1>2, <1>4, <1>5
  <2>3. First(c, x) = i
    BY ONLY <2>2, Selected
  <2>4. SelectInSeq(s.chain, LAMBDA b : b = m.stackp) = First(s.chain, m.stackp)
    BY DEF SelectInSeq, First, Indices
  <2> QED BY <2>1, <2>3, <2>4
<1>7. PICK freed : freed = {s.chain[j] : j \in i + 1 .. Len(s.chain)}
  OBVIOUS
<1>8. PICK c : c = SubSeq(s.chain, 1, i)
  OBVIOUS
<1>9. /\ i \in Nat /\ i > 0 /\ i <= Len(s.chain) /\ i \in 0 .. Len(s.chain)
      /\ \A j \in 1 .. i : j \in 1 .. Len(s.chain)
  BY <1>2
<1>10. /\ c \in Seq(AllBlocks) /\ Len(c) = i /\ DOMAIN c = 1 .. i
       /\ \A j \in 1 .. i : c[j] = s.chain[j]
  BY <1>2, <1>8, <1>9, CutIs
<1>11. PICK g : g = [b \in AllBlocks |-> IF b \in freed THEN <<>> ELSE s.mem[b]]
  OBVIOUS
<1>12. g \in [AllBlocks -> Seq(Cell)]
  <2>1. <<>> \in Seq(Cell)
    BY EmptySeq
  <2>2. \A b \in AllBlocks : s.mem[b] \in Seq(Cell)
    BY <1>2
  <2> QED BY <2>1, <2>2, <1>11
<1>13. ASSUME NEW j \in 1 .. i
       PROVE  c[j] \in AllBlocks /\ c[j] \notin freed /\ g[c[j]] = s.mem[c[j]] /\ s.mem[c[j]] # <<>>
  <2>1. c[j] = s.chain[j] /\ c[j] \in AllBlocks /\ s.mem[c[j]] # <<>> /\ j \in 1 .. Len(s.chain)
    BY <1>2, <1>9, <1>10
  <2>2. \A k \in i + 1 .. Len(s.chain) : k \in 1 .. Len(s.chain) /\ k # j
    BY <1>2, <1>9
  <2>3. c[j] \notin freed
    BY <2>1, <2>2, <1>5, <1>7
  <2> QED BY <2>1, <2>3, <1>11
<1>14. PICK u, r : u = popstackmark_keepend(s, m) /\ r = popstackmark(s, m)
  OBVIOUS
<1>15. /\ u \in StackType /\ u.mem = g /\ u.chain = c /\ u.stacknxt = m.stacknxt
       /\ u.stacknleft = m.stacknleft
  <2>1. u = [s EXCEPT !.chain = SubSeq(@, 1, i),
                      !.mem = [b \in DOMAIN @ |-> IF b \in freed THEN <<>> ELSE @[b]],
                      !.stacknxt = m.stacknxt, !.stacknleft = m.stacknleft]
    BY ONLY <1>6, <1>7, <1>14 DEF popstackmark_keepend
  <2>2. u = [s EXCEPT !.chain = c, !.mem = g, !.stacknxt = m.stacknxt, !.stacknleft = m.stacknleft]
    BY ONLY <2>1, <1>1, <1>2, <1>8, <1>11 DEF StackType
  <2> QED BY ONLY <2>2, <1>1, <1>3, <1>10, <1>12 DEF StackType
<1>16. PICK end \in Nat : end = m.stacknxt + m.stacknleft
  BY <1>3
<1>17. r = [u EXCEPT !.sstrend = end]
  BY <1>14, <1>16 DEF popstackmark
<1>18. /\ r \in StackType /\ r.mem = g /\ r.chain = c /\ r.stacknxt = m.stacknxt
       /\ r.stacknleft = m.stacknleft /\ r.sstrend = end
  BY ONLY <1>15, <1>17, end \in Nat DEF StackType
<1>19. i \in 1 .. i
  BY <1>9
<1>20. stackp(r) = m.stackp /\ c # <<>>
  <2>1. c # <<>>
    BY <1>9, <1>10, EmptySeq
  <2>2. Last(c) = c[i]
    BY <2>1, <1>10, FrontIs
  <2> QED BY <2>1, <2>2, <1>4, <1>10, <1>18, <1>19 DEF stackp
<1>21. Distinct(c)
  BY <1>5, <1>9, <1>10 DEF Distinct
<1>22. r.stacknxt + r.stacknleft = Len(r.mem[stackp(r)])
  <2>1. g[c[i]] = s.mem[c[i]] /\ c[i] = m.stackp
    BY <1>4, <1>10, <1>13, <1>19
  <2> QED BY <2>1, <1>18, <1>20
<1>23. GoodStack(r)
  <2>1. \A j \in DOMAIN r.chain : r.mem[r.chain[j]] # <<>>
    BY <1>10, <1>13, <1>18
  <2>2. Aligned(r.stacknxt) /\ Aligned(r.stacknleft) /\ r.sstrend = r.stacknxt + r.stacknleft
    BY <1>16, <1>18
  <2> QED BY <2>1, <2>2, <1>18, <1>20, <1>21, <1>22 DEF GoodStack
<1>24. Prefix(s.chain, r.chain, Len(r.chain))
  BY <1>9, <1>10, <1>18 DEF Prefix
<1>25. \A b \in AllBlocks : InChain(r.chain, b) => r.mem[b] = s.mem[b]
  BY <1>10, <1>13, <1>18 DEF InChain
<1> QED BY <1>14, <1>18, <1>20, <1>23, <1>24, <1>25

LEMMA PopKeeps ==
  ASSUME NEW s, NEW T, NEW M, NEW l, Fine(s, T, M, l), NEW k \in DOMAIN M,
         NEW used, used = M[k].kept + (IF M[k].held > 0 THEN 1 ELSE 0)
  PROVE  Fine(Cleared(popstackmark(s, M[k]), used), SubSeq(T, 1, M[k].kept), SubSeq(M, 1, k - 1), M[k].held)
<1>1. GoodStack(s) /\ T \in Seq(Place) /\ M \in Seq(MarkType) /\ Stacked(s, T, M)
  BY DEF Fine
<1>2. PICK m \in MarkType, p \in Nat, h \in Nat, nxt \in Nat, b \in AllBlocks :
        /\ m = M[k] /\ p = m.kept /\ h = m.held /\ nxt = m.stacknxt /\ b = m.stackp
        /\ m.stacknleft \in Nat /\ m.behind \in Nat
  BY <1>1, MarkIs
<1>3. /\ k \in Nat /\ k > 0 /\ k <= Len(M) /\ Len(M) \in Nat /\ DOMAIN M = 1 .. Len(M)
      /\ Len(T) \in Nat /\ DOMAIN T = 1 .. Len(T)
  BY <1>1, SeqIs
<1>4. Below(s, b, nxt) /\ MarkOK(s.mem, T, m) /\ Ordered(s.chain, T, M)
  BY <1>1, <1>2 DEF Stacked
<1>5. /\ p <= m.behind /\ m.behind <= Len(T) /\ h <= m.stacknleft /\ Aligned(nxt) /\ Aligned(m.stacknleft)
      /\ nxt + m.stacknleft = Len(s.mem[b])
      /\ h > 0 => p < m.behind /\ T[p + 1] = [block |-> b, at |-> nxt, n |-> h]
  BY <1>2, <1>4 DEF MarkOK
<1>6. PICK u : u = popstackmark(s, m)
  OBVIOUS
<1>7. /\ GoodStack(u) /\ stackp(u) = b /\ u.stacknxt = nxt
      /\ u.stacknleft = m.stacknleft /\ Prefix(s.chain, u.chain, Len(u.chain))
      /\ \A d \in AllBlocks : InChain(u.chain, d) => u.mem[d] = s.mem[d]
  BY <1>1, <1>2, <1>4, <1>5, <1>6, PoppedIs
<1>8. used \in Nat /\ p <= used /\ (h > 0 => p + 1 <= used)
  <2>1. used = p + (IF h > 0 THEN 1 ELSE 0) /\ p \in Nat /\ h \in Nat
    BY <1>2
  <2> QED BY ONLY <2>1
<1>9. PICK r : r = Cleared(u, used)
  OBVIOUS
<1>10. /\ Alike(u, r) /\ \A d \in AllBlocks : \A i \in 1 .. Len(u.mem[d]) :
            u.mem[d][i][1] <= used => r.mem[d][i] = u.mem[d][i]
  BY <1>7, <1>8, <1>9, ClearedIs
<1>11. GoodStack(r) /\ r.chain = u.chain /\ stackp(r) = b /\ r.stacknxt = nxt /\ r.stacknleft = m.stacknleft
  <2>1. GoodStack(r) /\ r.chain = u.chain /\ r.stacknxt = u.stacknxt /\ r.stacknleft = u.stacknleft
    BY <1>7, <1>8, <1>9, ClearedLeads
  <2> QED BY <2>1, <1>7 DEF stackp
<1>12. p \in 0 .. Len(T) /\ k - 1 \in 0 .. Len(M)
  BY <1>2, <1>3, <1>5
<1>13. ASSUME NEW i \in 1 .. p
       PROVE  Under(s.chain, T[i].block, End(T[i]), stackp(r), r.stacknxt)
  <2>1. i \in DOMAIN T /\ i <= M[k].kept
    BY <1>2, <1>3, <1>12
  <2>2. Under(s.chain, T[i].block, End(T[i]), M[k].stackp, M[k].stacknxt)
    BY <2>1, <1>4 DEF Ordered
  <2> QED BY <2>2, <1>2, <1>11
<1>14. ASSUME NEW i \in 1 .. k - 1
       PROVE  Under(s.chain, M[i].stackp, M[i].stacknxt, stackp(r), r.stacknxt) /\ M[i].behind <= p
  <2>1. i \in DOMAIN M /\ i < k
    BY <1>3
  <2>2. /\ Under(s.chain, M[i].stackp, M[i].stacknxt, M[k].stackp, M[k].stacknxt)
        /\ M[i].behind <= M[k].kept
    BY <2>1, <1>4 DEF Ordered
  <2> QED BY <2>2, <1>2, <1>11
<1>15. ASSUME NEW d \in AllBlocks, InChain(r.chain, d), NEW j \in Nat, j <= used
       PROVE  /\ Len(r.mem[d]) = Len(s.mem[d])
              /\ \A i \in 1 .. Len(s.mem[d]) : s.mem[d][i][1] <= j => r.mem[d][i] = s.mem[d][i]
  <2>1. u.mem[d] = s.mem[d] /\ Len(r.mem[d]) = Len(s.mem[d])
    BY <1>7, <1>10, <1>11, <1>15 DEF Alike
  <2>2. \A i \in 1 .. Len(s.mem[d]) : s.mem[d][i][1] <= used => r.mem[d][i] = s.mem[d][i]
    BY <2>1, <1>10
  <2>3. \A i \in 1 .. Len(s.mem[d]) : s.mem[d][i][1] \in Nat
    <3>1. s.mem \in [AllBlocks -> Seq(Cell)]
      BY <1>1, StackIs
    <3>2. \A i \in 1 .. Len(s.mem[d]) : s.mem[d][i] \in Cell
      BY <3>1, MemIs
    <3> QED BY <3>2, CellIs
  <2>4. ASSUME NEW i \in 1 .. Len(s.mem[d]), s.mem[d][i][1] <= j
        PROVE  r.mem[d][i] = s.mem[d][i]
    <3>1. PICK x \in Nat : x = s.mem[d][i][1]
      BY <2>3
    <3>2. x <= used
      BY ONLY <3>1, <2>4, <1>8, <1>15, j \in Nat, x \in Nat
    <3> QED BY <3>1, <3>2, <2>2
  <2> QED BY <2>1, <2>4
<1>16. /\ SubSeq(T, 1, p) \in Seq(Place) /\ SubSeq(M, 1, k - 1) \in Seq(MarkType)
       /\ Stacked(r, SubSeq(T, 1, p), SubSeq(M, 1, k - 1))
  <2>1. Remain(s, r, p)
    BY <1>8, <1>15 DEF Remain
  <2>2. PICK q : q = k - 1
    OBVIOUS
  <2>3. Behind(s, T, M, r, p, q)
    BY <2>2, <1>7, <1>11, <1>13, <1>14 DEF Behind
  <2>4. p \in 0 .. Len(T) /\ q \in 0 .. Len(M) /\ GoodStack(r)
    BY <2>2, <1>11, <1>12
  <2>5. /\ SubSeq(T, 1, p) \in Seq(Place) /\ SubSeq(M, 1, q) \in Seq(MarkType)
        /\ Stacked(r, SubSeq(T, 1, p), SubSeq(M, 1, q))
    BY ONLY <2>1, <2>3, <2>4, <1>1, BackKeeps
  <2> QED BY <2>2, <2>5
<1>17. Len(SubSeq(T, 1, p)) = p
  BY <1>1, <1>12, CutIs
<1>18. Holds(r.mem, b, nxt, p + 1, h)
  <2>1. InChain(r.chain, b)
    <3>1. Len(r.chain) \in DOMAIN r.chain /\ r.chain[Len(r.chain)] = b
      BY <1>11, StackIs
    <3> QED BY <3>1 DEF InChain
  <2>2. Len(r.mem[b]) = Len(s.mem[b])
    BY <2>1, <1>8, <1>15
  <2>3. CASE h = 0
    <3>1. nxt + 0 <= Len(r.mem[b])
      BY <2>2, <1>2, <1>5
    <3> QED BY <3>1, <2>3 DEF Holds
  <2>4. CASE h > 0
    <3>1. p + 1 \in DOMAIN T
      BY <2>4, <1>2, <1>3, <1>5
    <3>2. Holds(s.mem, b, nxt, p + 1, h)
      <4>1. Holds(s.mem, T[p + 1].block, T[p + 1].at, p + 1, T[p + 1].n)
        BY <3>1, <1>1 DEF Stacked, TextsOK
      <4>2. T[p + 1].block = b /\ T[p + 1].at = nxt /\ T[p + 1].n = h
        BY <2>4, <1>5
      <4> QED BY <4>1, <4>2
    <3>3. PICK j \in Nat : j = p + 1 /\ j <= used /\ j <= j
      BY <2>4, <1>8
    <3>4. Frame(s.mem, r.mem, b, nxt + h, j)
      BY <2>1, <3>3, <1>15 DEF Frame
    <3>5. s.mem \in [AllBlocks -> Seq(Cell)] /\ nxt + h \in Nat /\ nxt + h <= nxt + h
      BY <1>1, StackIs
    <3>6. Holds(s.mem, b, nxt, j, h)
      BY <3>2, <3>3
    <3>7. Holds(r.mem, b, nxt, j, h)
      BY ONLY <3>3, <3>4, <3>5, <3>6, HoldsFrame, b \in AllBlocks, nxt \in Nat, h \in Nat, j \in Nat
    <3> QED BY <3>3, <3>7
  <2> QED BY <2>3, <2>4, <1>2
<1>19. Fine(r, SubSeq(T, 1, p), SubSeq(M, 1, k - 1), h)
  BY <1>5, <1>11, <1>16, <1>17, <1>18 DEF Fine
<1> QED BY <1>2, <1>6, <1>9, <1>19


(***************************************************************************)
(* What users find, and what Store has for it.                             *)
(***************************************************************************)

LEMMA SameIs ==
  ASSUME NEW T, NEW s \in Seq(T), NEW t \in Seq(T), Len(s) = Len(t),
         \A i \in 1 .. Len(s) : s[i] = t[i]
  PROVE  s = t
BY SeqEqual

LEMMA SamePushed ==
  ASSUME NEW T, NEW s \in Seq(T), NEW x \in T, NEW t \in Seq(T), Len(t) = Len(s) + 1,
         \A i \in 1 .. Len(s) : t[i] = s[i], t[Len(s) + 1] = x
  PROVE  t = Append(s, x)
<1> DEFINE a == Append(s, x)
<1>1. /\ a \in Seq(T) /\ Len(a) = Len(s) + 1 /\ a[Len(s) + 1] = x
      /\ \A i \in 1 .. Len(s) : a[i] = s[i]
  BY PushedIs
<1>2. Len(s) \in Nat
  BY SeqIs
<1> HIDE DEF a
<1>3. \A i \in 1 .. Len(t) : t[i] = a[i]
  BY <1>1, <1>2
<1>4. t = a
  BY <1>1, <1>3, SameIs
<1> QED BY <1>4 DEF a

LEMMA SameCut ==
  ASSUME NEW T, NEW s \in Seq(T), NEW n \in 0 .. Len(s), NEW t \in Seq(T), Len(t) = n,
         \A i \in 1 .. n : t[i] = s[i]
  PROVE  t = SubSeq(s, 1, n)
<1> DEFINE a == SubSeq(s, 1, n)
<1>1. a \in Seq(T) /\ Len(a) = n /\ \A i \in 1 .. n : a[i] = s[i]
  BY CutIs
<1> HIDE DEF a
<1>2. \A i \in 1 .. Len(t) : t[i] = a[i]
  BY <1>1
<1>3. t = a
  BY <1>1, <1>2, SameIs
<1> QED BY <1>3 DEF a

\* Where a text is, it is read.
LEMMA HoldsReads ==
  ASSUME NEW s, GoodStack(s), NEW b \in AllBlocks, NEW at \in Nat, NEW k \in Nat, NEW n \in Nat,
         Holds(s.mem, b, at, k, n)
  PROVE  Read(s, b, at, n) = Text(k, n)
<1>1. at + n <= Len(s.mem[b]) /\ \A i \in 1 .. n : s.mem[b][at + i] = <<k, i>>
  BY DEF Holds
<1>2. Copied(Read(s, b, at, n), s.mem[b], at, n)
  BY <1>1, ReadIs
<1>3. /\ Text(k, n) \in Seq(Cell) /\ Len(Text(k, n)) = n
      /\ \A i \in 1 .. n : Text(k, n)[i] = <<k, i>>
  BY TextIs
<1>4. PICK x : x = Read(s, b, at, n)
  OBVIOUS
<1>5. x \in Seq(Cell) /\ Len(x) = n /\ \A i \in 1 .. n : x[i] = Text(k, n)[i]
  BY <1>1, <1>2, <1>3, <1>4 DEF Copied
<1>6. x = Text(k, n)
  BY <1>3, <1>5, SameIs
<1> QED BY <1>4, <1>6

\* Every user finds what it wrote.
FoundText(s, T) == \A k \in DOMAIN T : Read(s, T[k].block, T[k].at, T[k].n) = Text(k, T[k].n)
FoundMark(s, M) ==
  \A k \in DOMAIN M :
    Read(s, M[k].stackp, M[k].stacknxt, M[k].held) = Text(M[k].kept + 1, M[k].held)

LEMMA TextsFound ==
  ASSUME NEW s, NEW T, NEW M, NEW l, Fine(s, T, M, l)
  PROVE  FoundText(s, T)
<1>1. GoodStack(s) /\ T \in Seq(Place) /\ TextsOK(s.mem, T)
  BY DEF Fine, Stacked
<1>2. ASSUME NEW k \in DOMAIN T
      PROVE  Read(s, T[k].block, T[k].at, T[k].n) = Text(k, T[k].n)
  <2>1. T[k].block \in AllBlocks /\ T[k].at \in Nat /\ T[k].n \in Nat /\ k \in Nat
    BY <1>1, <1>2, PlaceIs
  <2>2. Holds(s.mem, T[k].block, T[k].at, k, T[k].n)
    BY <1>1, <1>2 DEF TextsOK
  <2> QED BY <1>1, <2>1, <2>2, HoldsReads
<1> QED BY <1>2 DEF FoundText

LEMMA MarksFound ==
  ASSUME NEW s, NEW T, NEW M, NEW l, Fine(s, T, M, l)
  PROVE  FoundMark(s, M)
<1>1. GoodStack(s) /\ T \in Seq(Place) /\ M \in Seq(MarkType) /\ TextsOK(s.mem, T)
  BY DEF Fine, Stacked
<1>2. \A k \in DOMAIN M : MarkOK(s.mem, T, M[k])
  BY DEF Fine, Stacked
<1>3. s.mem \in [AllBlocks -> Seq(Cell)]
  BY <1>1, StackIs
<1>4. ASSUME NEW k \in DOMAIN M
      PROVE  Read(s, M[k].stackp, M[k].stacknxt, M[k].held) = Text(M[k].kept + 1, M[k].held)
  <2>1. PICK m : m = M[k]
    OBVIOUS
  <2>2. /\ m.stackp \in AllBlocks /\ m.stacknxt \in Nat /\ m.stacknleft \in Nat
        /\ m.kept \in Nat /\ m.behind \in Nat /\ m.held \in Nat
    BY <1>1, <2>1, <1>4, MarkIs
  <2>3. MarkOK(s.mem, T, m)
    BY <1>2, <1>4, <2>1
  <2>4. m.kept + 1 \in Nat
    BY <2>2
  <2>5. Holds(s.mem, m.stackp, m.stacknxt, m.kept + 1, m.held)
    <3>1. PICK e \in Nat : e = Len(s.mem[m.stackp])
      BY <1>3, <2>2, MemIs
    <3>2. CASE m.held = 0
      <4>1. m.stacknxt + m.stacknleft = e
        BY <2>3, <3>1 DEF MarkOK
      <4>2. m.stacknxt + m.held <= e
        BY <4>1, <2>2, <3>2
      <4>3. \A i \in 1 .. m.held : FALSE
        BY <3>2
      <4> QED BY <4>2, <4>3, <3>1 DEF Holds
    <3>3. CASE m.held > 0
      <4>1. /\ m.kept < m.behind /\ m.behind <= Len(T)
            /\ T[m.kept + 1] = [block |-> m.stackp, at |-> m.stacknxt, n |-> m.held]
        BY <2>3, <3>3 DEF MarkOK
      <4>2. Len(T) \in Nat /\ DOMAIN T = 1 .. Len(T)
        BY <1>1, SeqIs
      <4>3. m.kept + 1 \in DOMAIN T
        BY <4>1, <4>2, <2>2
      <4>4. Holds(s.mem, T[m.kept + 1].block, T[m.kept + 1].at, m.kept + 1, T[m.kept + 1].n)
        BY <1>1, <4>3 DEF TextsOK
      <4> QED BY <4>1, <4>4
    <3> QED BY <3>2, <3>3, <2>2
  <2>6. Read(s, m.stackp, m.stacknxt, m.held) = Text(m.kept + 1, m.held)
    BY <1>1, <2>2, <2>4, <2>5, HoldsReads
  <2> QED BY <2>1, <2>6
<1> QED BY <1>4 DEF FoundMark

\* What Stored, Building and Marked are, of a stack s, texts T and marks M.
Sees(s, b, at, n) == IF s.chain # <<>> THEN Read(s, b, at, n) ELSE Lost
SeenTexts(s, T) == [i \in DOMAIN T |-> Sees(s, T[i].block, T[i].at, T[i].n)]
SeenMarks(s, M) ==
  [k \in DOMAIN M |->
     [kept |-> M[k].kept, behind |-> M[k].behind,
      building |-> Sees(s, M[k].stackp, M[k].stacknxt, M[k].held)]]

\* What they are in Store.
AllTexts(T) == [i \in DOMAIN T |-> Text(i, T[i].n)]
MarkFor(m) == [kept |-> m.kept, behind |-> m.behind, building |-> Text(m.kept + 1, m.held)]
AllMarks(M) == [k \in DOMAIN M |-> MarkFor(M[k])]

LEMMA SeenIs ==
  ASSUME NEW s, NEW T, NEW M, NEW l, Fine(s, T, M, l)
  PROVE  /\ SeenTexts(s, T) = AllTexts(T) /\ SeenMarks(s, M) = AllMarks(M)
         /\ Sees(s, stackp(s), s.stacknxt, l) = Text(Len(T) + 1, l)
<1>1. GoodStack(s) /\ FoundText(s, T) /\ FoundMark(s, M) /\ s.chain # <<>>
  BY TextsFound, MarksFound DEF Fine, GoodStack
<1>2. \A b, at, n : Sees(s, b, at, n) = Read(s, b, at, n)
  BY <1>1 DEF Sees
<1>3. SeenTexts(s, T) = AllTexts(T)
  <2>1. \A i \in DOMAIN T : Sees(s, T[i].block, T[i].at, T[i].n) = Text(i, T[i].n)
    BY <1>1, <1>2 DEF FoundText
  <2> QED BY ONLY <2>1 DEF SeenTexts, AllTexts
<1>4. SeenMarks(s, M) = AllMarks(M)
  <2>1. \A k \in DOMAIN M :
          Sees(s, M[k].stackp, M[k].stacknxt, M[k].held) = Text(M[k].kept + 1, M[k].held)
    BY <1>1, <1>2 DEF FoundMark
  <2> QED BY ONLY <2>1 DEF SeenMarks, AllMarks, MarkFor
<1>5. Sees(s, stackp(s), s.stacknxt, l) = Text(Len(T) + 1, l)
  <2>1. /\ Holds(s.mem, stackp(s), s.stacknxt, Len(T) + 1, l) /\ l \in Nat
        /\ T \in Seq(Place)
    BY DEF Fine
  <2>2. stackp(s) \in AllBlocks /\ s.stacknxt \in Nat
    BY <1>1, StackIs
  <2>3. Len(T) + 1 \in Nat
    BY <2>1, SeqIs
  <2>4. Read(s, stackp(s), s.stacknxt, l) = Text(Len(T) + 1, l)
    BY <1>1, <2>1, <2>2, <2>3, HoldsReads
  <2> QED BY <1>2, <2>4
<1> QED BY <1>3, <1>4, <1>5

Written == Seq(Cell)
Noted == [kept : Nat, behind : Nat, building : Written]

LEMMA AllTextsIs ==
  ASSUME NEW T \in Seq(Place)
  PROVE  /\ AllTexts(T) \in Seq(Written) /\ Len(AllTexts(T)) = Len(T)
         /\ \A i \in 1 .. Len(T) : AllTexts(T)[i] = Text(i, T[i].n)
<1> DEFINE f == AllTexts(T)
<1>1. Len(T) \in Nat /\ DOMAIN T = 1 .. Len(T)
  BY SeqIs
<1>2. f = [i \in 1 .. Len(T) |-> Text(i, T[i].n)]
  BY <1>1 DEF AllTexts
<1>3. ASSUME NEW i \in 1 .. Len(T) PROVE f[i] \in Written
  <2>1. i \in Nat /\ T[i].n \in Nat
    BY <1>1, <1>3, PlaceIs
  <2>2. Text(i, T[i].n) \in Seq(Cell)
    BY <2>1, TextIs
  <2> QED BY <1>2, <1>3, <2>2 DEF Written
<1>4. DOMAIN f = 1 .. Len(T) /\ f = [i \in 1 .. Len(T) |-> f[i]]
  BY <1>2
<1>5. \A i \in 1 .. Len(T) : f[i] = Text(i, T[i].n)
  BY <1>2
<1> HIDE DEF f
<1>6. f \in Seq(Written) /\ Len(f) = Len(T)
  BY <1>1, <1>3, <1>4, FunctionIs
<1>7. f \in Seq(Written) /\ Len(f) = Len(T) /\ \A i \in 1 .. Len(T) : f[i] = Text(i, T[i].n)
  BY <1>5, <1>6
<1> QED BY <1>7 DEF f

LEMMA MarkForIs ==
  ASSUME NEW m \in MarkType
  PROVE  MarkFor(m) \in Noted
<1>1. m.kept \in Nat /\ m.behind \in Nat /\ m.held \in Nat /\ m.kept + 1 \in Nat
  BY DEF MarkType
<1>2. Text(m.kept + 1, m.held) \in Written
  BY <1>1, TextIs DEF Written
<1> QED BY <1>1, <1>2 DEF MarkFor, Noted

LEMMA AllMarksIs ==
  ASSUME NEW M \in Seq(MarkType)
  PROVE  /\ AllMarks(M) \in Seq(Noted) /\ Len(AllMarks(M)) = Len(M)
         /\ \A i \in 1 .. Len(M) : AllMarks(M)[i] = MarkFor(M[i])
<1> DEFINE f == AllMarks(M)
<1>1. Len(M) \in Nat /\ DOMAIN M = 1 .. Len(M) /\ \A i \in 1 .. Len(M) : M[i] \in MarkType
  BY SeqIs
<1>2. f = [i \in 1 .. Len(M) |-> MarkFor(M[i])]
  BY <1>1 DEF AllMarks
<1>3. DOMAIN f = 1 .. Len(M) /\ f = [i \in 1 .. Len(M) |-> f[i]]
  BY <1>2
<1>4. \A i \in 1 .. Len(M) : f[i] = MarkFor(M[i])
  BY <1>2
<1> HIDE DEF f
<1>5. \A i \in 1 .. Len(M) : f[i] \in Noted
  BY <1>1, <1>4, MarkForIs
<1>6. f \in Seq(Noted) /\ Len(f) = Len(M)
  BY <1>1, <1>3, <1>5, FunctionIs
<1>7. f \in Seq(Noted) /\ Len(f) = Len(M) /\ \A i \in 1 .. Len(M) : f[i] = MarkFor(M[i])
  BY <1>4, <1>6
<1> QED BY <1>7 DEF f

LEMMA TextPushed ==
  ASSUME NEW T \in Seq(Place), NEW p \in Place, NEW n, p.n = n
  PROVE  AllTexts(Append(T, p)) = Append(AllTexts(T), Text(Len(T) + 1, n))
<1>1. PICK U : U = Append(T, p)
  OBVIOUS
<1>2. PICK e : e = Len(T)
  OBVIOUS
<1>3. /\ U \in Seq(Place) /\ Len(U) = e + 1 /\ U[e + 1] = p
      /\ \A i \in 1 .. e : U[i] = T[i]
  BY <1>1, <1>2, PushedIs
<1>4. /\ AllTexts(T) \in Seq(Written) /\ Len(AllTexts(T)) = e /\ e \in Nat
      /\ \A i \in 1 .. e : AllTexts(T)[i] = Text(i, T[i].n)
  BY <1>2, AllTextsIs, SeqIs
<1>5. /\ AllTexts(U) \in Seq(Written) /\ Len(AllTexts(U)) = e + 1
      /\ \A i \in 1 .. e + 1 : AllTexts(U)[i] = Text(i, U[i].n)
  BY <1>3, AllTextsIs
<1>6. AllTexts(U)[e + 1] = Text(e + 1, n)
  BY <1>3, <1>4, <1>5
<1>7. Text(e + 1, n) \in Written
  <2>1. e + 1 \in Nat /\ n \in Nat
    BY <1>4 DEF Place
  <2> QED BY <2>1, TextIs DEF Written
<1>8. \A i \in 1 .. e : AllTexts(U)[i] = AllTexts(T)[i]
  BY <1>3, <1>4, <1>5
<1>9. AllTexts(U) = Append(AllTexts(T), Text(e + 1, n))
  BY ONLY <1>4, <1>5, <1>6, <1>7, <1>8, SamePushed
<1> QED BY <1>1, <1>2, <1>9

LEMMA TextsCut ==
  ASSUME NEW T \in Seq(Place), NEW n \in 0 .. Len(T)
  PROVE  AllTexts(SubSeq(T, 1, n)) = SubSeq(AllTexts(T), 1, n)
<1>1. PICK U : U = SubSeq(T, 1, n)
  OBVIOUS
<1>2. U \in Seq(Place) /\ Len(U) = n /\ \A i \in 1 .. n : U[i] = T[i]
  BY <1>1, CutIs
<1>3. /\ AllTexts(T) \in Seq(Written) /\ Len(AllTexts(T)) = Len(T) /\ Len(T) \in Nat
      /\ \A i \in 1 .. Len(T) : AllTexts(T)[i] = Text(i, T[i].n)
  BY AllTextsIs, SeqIs
<1>4. /\ AllTexts(U) \in Seq(Written) /\ Len(AllTexts(U)) = n
      /\ \A i \in 1 .. n : AllTexts(U)[i] = Text(i, U[i].n)
  BY <1>2, AllTextsIs
<1>5. \A i \in 1 .. n : AllTexts(U)[i] = AllTexts(T)[i]
  BY <1>2, <1>3, <1>4
<1>6. n \in 0 .. Len(AllTexts(T))
  BY <1>3
<1>7. AllTexts(U) = SubSeq(AllTexts(T), 1, n)
  BY ONLY <1>3, <1>4, <1>5, <1>6, SameCut
<1> QED BY <1>1, <1>7

LEMMA MarkPushed ==
  ASSUME NEW M \in Seq(MarkType), NEW m \in MarkType
  PROVE  AllMarks(Append(M, m)) = Append(AllMarks(M), MarkFor(m))
<1>1. PICK U : U = Append(M, m)
  OBVIOUS
<1>2. PICK e : e = Len(M)
  OBVIOUS
<1>3. /\ U \in Seq(MarkType) /\ Len(U) = e + 1 /\ U[e + 1] = m
      /\ \A i \in 1 .. e : U[i] = M[i]
  BY <1>1, <1>2, PushedIs
<1>4. /\ AllMarks(M) \in Seq(Noted) /\ Len(AllMarks(M)) = e /\ e \in Nat
      /\ \A i \in 1 .. e : AllMarks(M)[i] = MarkFor(M[i])
  BY <1>2, AllMarksIs, SeqIs
<1>5. /\ AllMarks(U) \in Seq(Noted) /\ Len(AllMarks(U)) = e + 1
      /\ \A i \in 1 .. e + 1 : AllMarks(U)[i] = MarkFor(U[i])
  BY <1>3, AllMarksIs
<1>6. AllMarks(U)[e + 1] = MarkFor(m) /\ MarkFor(m) \in Noted
  BY <1>3, <1>4, <1>5, MarkForIs
<1>7. \A i \in 1 .. e : AllMarks(U)[i] = AllMarks(M)[i]
  BY <1>3, <1>4, <1>5
<1>8. AllMarks(U) = Append(AllMarks(M), MarkFor(m))
  BY ONLY <1>4, <1>5, <1>6, <1>7, SamePushed
<1> QED BY <1>1, <1>8

LEMMA MarksCut ==
  ASSUME NEW M \in Seq(MarkType), NEW n \in 0 .. Len(M)
  PROVE  AllMarks(SubSeq(M, 1, n)) = SubSeq(AllMarks(M), 1, n)
<1>1. PICK U : U = SubSeq(M, 1, n)
  OBVIOUS
<1>2. U \in Seq(MarkType) /\ Len(U) = n /\ \A i \in 1 .. n : U[i] = M[i]
  BY <1>1, CutIs
<1>3. /\ AllMarks(M) \in Seq(Noted) /\ Len(AllMarks(M)) = Len(M) /\ Len(M) \in Nat
      /\ \A i \in 1 .. Len(M) : AllMarks(M)[i] = MarkFor(M[i])
  BY AllMarksIs, SeqIs
<1>4. /\ AllMarks(U) \in Seq(Noted) /\ Len(AllMarks(U)) = n
      /\ \A i \in 1 .. n : AllMarks(U)[i] = MarkFor(U[i])
  BY <1>2, AllMarksIs
<1>5. \A i \in 1 .. n : AllMarks(U)[i] = AllMarks(M)[i]
  BY <1>2, <1>3, <1>4
<1>6. n \in 0 .. Len(AllMarks(M))
  BY <1>3
<1>7. AllMarks(U) = SubSeq(AllMarks(M), 1, n)
  BY ONLY <1>3, <1>4, <1>5, <1>6, SameCut
<1> QED BY <1>1, <1>7

(***************************************************************************)
(* The steps of Stack, and what Store sees of them.                        *)
(***************************************************************************)

LEMMA Found ==
  ASSUME StackInv
  PROVE  Stored = AllTexts(texts) /\ Building = Text(Len(texts) + 1, length) /\ Marked = AllMarks(marks)
<1>1. /\ SeenTexts(stack, texts) = AllTexts(texts) /\ SeenMarks(stack, marks) = AllMarks(marks)
      /\ Sees(stack, stackp(stack), stack.stacknxt, length) = Text(Len(texts) + 1, length)
  BY SeenIs DEF StackInv
<1>2. Stored = SeenTexts(stack, texts) /\ Marked = SeenMarks(stack, marks)
  BY DEF Stored, Marked, Kept, Running, SeenTexts, SeenMarks, Sees
<1>3. Building = Sees(stack, stackp(stack), stack.stacknxt, length)
  BY DEF Building, Kept, Running, Sees
<1> QED BY <1>1, <1>2, <1>3

LEMMA FoundNext ==
  ASSUME StackInv'
  PROVE  /\ Stored' = AllTexts(texts') /\ Building' = Text(Len(texts') + 1, length')
         /\ Marked' = AllMarks(marks')
<1>1. /\ SeenTexts(stack', texts') = AllTexts(texts') /\ SeenMarks(stack', marks') = AllMarks(marks')
      /\ Sees(stack', stackp(stack'), stack'.stacknxt, length') = Text(Len(texts') + 1, length')
  <2>1. Fine(stack', texts', marks', length')
    BY DEF StackInv
  <2> QED BY ONLY <2>1, SeenIs
<1>2. Stored' = SeenTexts(stack', texts') /\ Marked' = SeenMarks(stack', marks')
  BY DEF Stored, Marked, Kept, Running, SeenTexts, SeenMarks, Sees
<1>3. Building' = Sees(stack', stackp(stack'), stack'.stacknxt, length')
  BY DEF Building, Kept, Running, Sees
<1> QED BY <1>1, <1>2, <1>3

LEMMA FineIs ==
  ASSUME NEW s, NEW T, NEW M, NEW l, Fine(s, T, M, l)
  PROVE  /\ GoodStack(s) /\ T \in Seq(Place) /\ M \in Seq(MarkType)
         /\ Len(T) \in Nat /\ Len(M) \in Nat /\ l \in Nat /\ l <= s.stacknleft
         /\ s.stacknxt \in Nat /\ s.stacknleft \in Nat /\ s.sstrend = s.stacknxt + s.stacknleft
<1>1. GoodStack(s) /\ T \in Seq(Place) /\ M \in Seq(MarkType) /\ l \in Nat /\ l <= s.stacknleft
  BY DEF Fine
<1>2. Len(T) \in Nat /\ Len(M) \in Nat
  BY <1>1, SeqIs
<1>3. s.stacknxt \in Nat /\ s.stacknleft \in Nat /\ s.sstrend = s.stacknxt + s.stacknleft
  BY <1>1, StackIs DEF GoodStack
<1> QED BY <1>1, <1>2, <1>3

LEMMA EmptyText ==
  ASSUME NEW k \in Nat
  PROVE  Text(k, 0) = <<>>
BY TextIs, EmptySeq

LEMMA SizesAre == \A n \in Sizes : n \in Nat \ {0} /\ n \in Nat /\ n > 0
BY StackAssumption

LEMMA InitIs ==
  ASSUME Init
  PROVE  StackInv /\ Memory!Init
<1>1. PICK s : s = stack
  OBVIOUS
<1>2. /\ s = [mem |-> [b \in AllBlocks |-> IF b = Base THEN Cells(MINSIZE) ELSE <<>>],
              chain |-> <<Base>>, stacknxt |-> 0, stacknleft |-> MINSIZE, sstrend |-> MINSIZE]
      /\ texts = <<>> /\ marks = <<>> /\ length = 0 /\ wanted = 0
  BY <1>1 DEF Init, AllBlocks
<1>3. MINSIZE \in Nat /\ MINSIZE > 0 /\ Aligned(MINSIZE) /\ Aligned(0)
  BY SizesAligned
<1>4. Cells(MINSIZE) \in Seq(Cell) /\ Len(Cells(MINSIZE)) = MINSIZE
  BY <1>3, CellsIs
<1>5. PICK c : c = <<Base>>
  OBVIOUS
<1>6. c \in Seq(AllBlocks) /\ Len(c) = 1 /\ DOMAIN c = 1 .. 1 /\ c[1] = Base /\ c # <<>>
  <2>1. Base \in AllBlocks
    BY DEF AllBlocks
  <2> QED BY <1>5, <2>1
<1>7. PICK mem : mem = [b \in AllBlocks |-> IF b = Base THEN Cells(MINSIZE) ELSE <<>>]
  OBVIOUS
<1>8. mem \in [AllBlocks -> Seq(Cell)] /\ mem[Base] = Cells(MINSIZE)
  <2>1. Base \in AllBlocks /\ <<>> \in Seq(Cell)
    BY EmptySeq DEF AllBlocks
  <2> QED BY <1>4, <1>7, <2>1
<1>9. s \in StackType
  BY <1>2, <1>3, <1>5, <1>6, <1>7, <1>8 DEF StackType
<1>10. s.chain = c /\ s.mem = mem /\ s.stacknxt = 0 /\ s.stacknleft = MINSIZE /\ s.sstrend = MINSIZE
  BY <1>2, <1>5, <1>7
<1>11. stackp(s) = Base
  BY <1>6, <1>10 DEF stackp, Last
<1>12. mem[Base] # <<>>
  BY <1>3, <1>4, <1>8, EmptySeq
<1>13. GoodStack(s)
  <2>1. Distinct(s.chain) /\ \A i \in DOMAIN s.chain : s.mem[s.chain[i]] # <<>>
    BY <1>6, <1>10, <1>12 DEF Distinct
  <2>2. s.stacknxt + s.stacknleft = Len(s.mem[stackp(s)]) /\ s.sstrend = s.stacknxt + s.stacknleft
    BY <1>3, <1>4, <1>8, <1>10, <1>11
  <2> QED BY <1>3, <1>6, <1>9, <1>10, <2>1, <2>2 DEF GoodStack
<1>14. /\ <<>> \in Seq(Place) /\ <<>> \in Seq(MarkType)
       /\ DOMAIN texts = {} /\ DOMAIN marks = {} /\ Len(texts) = 0
  BY <1>2, EmptySeq
<1>15. Stacked(s, texts, marks)
  BY <1>14 DEF Stacked, Ordered, TextsOK
<1>16. Fine(s, texts, marks, 0)
  BY <1>2, <1>13, <1>14, <1>15, NothingWritten
<1>17. StackInv
  BY <1>1, <1>2, <1>16 DEF StackInv
<1>18. /\ Stored = AllTexts(texts) /\ Building = Text(Len(texts) + 1, length)
       /\ Marked = AllMarks(marks)
  BY <1>17, Found
<1>19. Stored = <<>> /\ Marked = <<>>
  <2>1. /\ AllTexts(texts) \in Seq(Written) /\ Len(AllTexts(texts)) = 0
        /\ AllMarks(marks) \in Seq(Noted) /\ Len(AllMarks(marks)) = 0
    BY <1>2, <1>14, AllTextsIs, AllMarksIs
  <2> QED BY <1>18, <2>1, EmptySeq
<1>20. Building = <<>>
  BY <1>2, <1>14, <1>18, EmptyText
<1> QED BY <1>17, <1>19, <1>20 DEF Memory!Init

\* The invariant of the next state, part by part.
LEMMA InvNext ==
  ASSUME Fine(stack', texts', marks', length'), wanted' \in Sizes \cup {0}
  PROVE  StackInv'
BY DEF StackInv

LEMMA StoreText == \A k, n : Memory!Text(k, n) = Text(k, n)
BY DEF Memory!Text, Text

LEMMA StutterIs ==
  ASSUME StackInv, StackInv', texts' = texts, marks' = marks, length' = length
  PROVE  UNCHANGED Memory!vars
BY Found, FoundNext DEF Memory!vars

LEMMA AllocateStep ==
  ASSUME StackInv, NEW n \in Sizes, Allocate(n)
  PROVE  StackInv' /\ Memory!Allocate(n)
<1>1. PICK s, T, M, l : s = stack /\ T = texts /\ M = marks /\ l = length
  OBVIOUS
<1>2. Fine(s, T, M, l) /\ n \in Nat \ {0}
  BY <1>1, SizesAre DEF StackInv
<1>3. PICK b \in Places(s, n) :
        LET t == stalloc(s, n, b)
            p == Allocated(t, n)
        IN /\ stack' = Write(Cleared(t, Len(T)), p.block, p.at, Text(Len(T) + 1, n))
           /\ texts' = Append(T, p)
  BY <1>1 DEF Allocate, Mine
<1>4. PICK t : t = stalloc(s, n, b)
  OBVIOUS
<1>5. PICK p : p = Allocated(t, n)
  OBVIOUS
<1>6. PICK r : r = Write(Cleared(t, Len(T)), p.block, p.at, Text(Len(T) + 1, n))
  OBVIOUS
<1>7. stack' = r /\ texts' = Append(T, p)
  BY <1>3, <1>4, <1>5, <1>6
<1>8. length' = 0 /\ marks' = M /\ wanted' = wanted
  BY <1>1 DEF Allocate
<1>9. Fine(r, Append(T, p), M, 0) /\ p.n = n
  BY ONLY <1>2, <1>4, <1>5, <1>6, b \in Places(s, n), AllocateKeeps
<1>10. StackInv'
  BY <1>7, <1>8, <1>9, InvNext DEF StackInv
<1>11. T \in Seq(Place) /\ p \in Place /\ Len(T) \in Nat
  <2>1. T \in Seq(Place) /\ Len(T) \in Nat /\ Append(T, p) \in Seq(Place)
    BY <1>2, <1>9, FineIs
  <2>2. Len(T) + 1 \in DOMAIN Append(T, p) /\ Append(T, p)[Len(T) + 1] = p
    BY <2>1, AppendProperties
  <2> QED BY <2>1, <2>2, PlaceIs
<1>12. AllTexts(Append(T, p)) = Append(AllTexts(T), Text(Len(T) + 1, n))
  BY <1>9, <1>11, TextPushed
<1>13. Len(AllTexts(T)) = Len(T)
  BY <1>11, AllTextsIs
<1>14. /\ Stored = AllTexts(T) /\ Marked = AllMarks(M) /\ Stored' = AllTexts(Append(T, p))
       /\ Building' = Text(Len(Append(T, p)) + 1, 0) /\ Marked' = AllMarks(M)
  BY <1>1, <1>7, <1>8, <1>10, Found, FoundNext
<1>15. Building' = <<>>
  <2>1. Len(Append(T, p)) + 1 \in Nat
    BY <1>9, FineIs
  <2> QED BY <1>14, <2>1, EmptyText
<1> QED BY <1>10, <1>12, <1>13, <1>14, <1>15, StoreText DEF Memory!Allocate, Memory!Number

LEMMA StartStep ==
  ASSUME StackInv, STARTSTACKSTR
  PROVE  StackInv' /\ Memory!Begin
<1>1. PICK s, T, M, l : s = stack /\ T = texts /\ M = marks /\ l = length
  OBVIOUS
<1>2. Fine(s, T, M, l)
  BY <1>1 DEF StackInv
<1>3. /\ length' = 0 /\ stack' = Cleared(s, Len(T)) /\ texts' = T /\ marks' = M
      /\ wanted' = wanted
  BY <1>1 DEF STARTSTACKSTR
<1>4. T \in Seq(Place) /\ Len(T) \in Nat /\ Len(T) + 1 \in Nat /\ Len(T) <= Len(T)
  BY <1>2, FineIs
<1>5. Fine(Cleared(s, Len(T)), T, M, 0)
  BY ONLY <1>2, <1>4, ClearedKeeps
<1>6. StackInv'
  BY <1>3, <1>5, InvNext DEF StackInv
<1>7. /\ Stored = AllTexts(T) /\ Marked = AllMarks(M) /\ Stored' = AllTexts(T)
      /\ Building' = Text(Len(T) + 1, 0) /\ Marked' = AllMarks(M)
  BY <1>1, <1>3, <1>6, Found, FoundNext
<1>8. Building' = <<>>
  BY <1>4, <1>7, EmptyText
<1> QED BY <1>6, <1>7, <1>8 DEF Memory!Begin

LEMMA StputsStep ==
  ASSUME StackInv, NEW n \in Sizes, stputs(n)
  PROVE  StackInv' /\ UNCHANGED Memory!vars
<1>1. /\ wanted' = n /\ stack' = stack /\ texts' = texts /\ marks' = marks /\ length' = length
  BY DEF stputs
<1>2. StackInv'
  BY <1>1, InvNext DEF StackInv
<1> QED BY <1>1, <1>2, StutterIs

LEMMA GrowStep ==
  ASSUME StackInv, growstackstr
  PROVE  StackInv' /\ UNCHANGED Memory!vars
<1>1. PICK s, T, M, l : s = stack /\ T = texts /\ M = marks /\ l = length
  OBVIOUS
<1>2. Fine(s, T, M, l)
  BY <1>1 DEF StackInv
<1>3. PICK b \in GrowPlaces(s) : stack' = growstackblock(s, b)
  BY <1>1 DEF growstackstr
<1>4. texts' = T /\ marks' = M /\ wanted' = wanted
  BY <1>1 DEF growstackstr
<1>5. /\ l \in Nat /\ s.stacknxt \in Nat /\ s.stacknleft \in Nat
      /\ s.sstrend = s.stacknxt + s.stacknleft
  BY <1>2, FineIs
<1>6. length' = l
  <2>1. CASE wanted = 1
    <3>1. length' = s.stacknleft /\ ~(s.stacknxt + l # s.sstrend)
      BY <1>1, <2>1 DEF growstackstr, Room
    <3> QED BY <3>1, <1>5
  <2>2. CASE wanted # 1
    BY <1>1, <2>2 DEF growstackstr
  <2> QED BY <2>1, <2>2
<1>7. Fine(growstackblock(s, b), T, M, l)
  BY ONLY <1>2, b \in GrowPlaces(s), GrowKeeps
<1>8. StackInv'
  BY <1>3, <1>4, <1>6, <1>7, InvNext DEF StackInv
<1> QED BY <1>1, <1>4, <1>6, <1>8, StutterIs

LEMMA CopyStep ==
  ASSUME StackInv, Copy
  PROVE  StackInv' /\ wanted \in Sizes /\ Memory!Extend(wanted)
<1>1. PICK s, T, M, l, w : s = stack /\ T = texts /\ M = marks /\ l = length /\ w = wanted
  OBVIOUS
<1>2. Fine(s, T, M, l) /\ w \in Sizes \cup {0} /\ w # 0
  BY <1>1 DEF StackInv, Copy, Adding
<1>3. w \in Sizes /\ w \in Nat /\ w > 0
  BY <1>2, SizesAre
<1>4. /\ l \in Nat /\ s.stacknxt \in Nat /\ s.stacknleft \in Nat /\ l <= s.stacknleft
      /\ s.sstrend = s.stacknxt + s.stacknleft /\ T \in Seq(Place) /\ Len(T) \in Nat
  BY <1>2, FineIs
<1>5. l + w <= s.stacknleft
  <2>1. CASE w = 1
    <3>1. s.stacknxt + l # s.sstrend
      BY <1>1, <2>1 DEF Copy, Room
    <3> QED BY <3>1, <2>1, <1>4
  <2>2. CASE w # 1
    <3>1. s.stacknleft - l >= w
      BY <1>1, <2>2 DEF Copy, Room
    <3> QED BY <3>1, <1>3, <1>4
  <2> QED BY <2>1, <2>2
<1>6. PICK x : x = SubSeq(Text(Len(T) + 1, l + w), l + 1, l + w)
  OBVIOUS
<1>7. PICK r : r = Write(s, stackp(s), s.stacknxt + l, x)
  OBVIOUS
<1>8. stack' = r /\ length' = l + w /\ wanted' = 0 /\ texts' = T /\ marks' = M
  BY <1>1, <1>6, <1>7 DEF Copy, Mine
<1>9. Fine(r, T, M, l + w)
  BY ONLY <1>2, <1>3, <1>5, <1>6, <1>7, CopyKeeps
<1>10. StackInv'
  BY <1>8, <1>9, InvNext
<1>11. /\ Stored = AllTexts(T) /\ Marked = AllMarks(M) /\ Building = Text(Len(T) + 1, l)
       /\ Stored' = AllTexts(T) /\ Building' = Text(Len(T) + 1, l + w) /\ Marked' = AllMarks(M)
  BY <1>1, <1>8, <1>10, Found, FoundNext
<1>12. Len(AllTexts(T)) = Len(T) /\ Len(Text(Len(T) + 1, l)) = l
  <2>1. Len(AllTexts(T)) = Len(T)
    BY <1>4, AllTextsIs
  <2>2. Len(T) + 1 \in Nat
    BY <1>4
  <2>3. Len(Text(Len(T) + 1, l)) = l
    BY <1>4, <2>2, TextIs
  <2> QED BY <2>1, <2>3
<1>13. Memory!Extend(w)
  BY <1>11, <1>12, StoreText DEF Memory!Extend, Memory!Number
<1> QED BY <1>1, <1>3, <1>10, <1>13

LEMMA GrabStep ==
  ASSUME StackInv, grabstackstr
  PROVE  StackInv' /\ Memory!Keep
<1>1. PICK s, T, M, l : s = stack /\ T = texts /\ M = marks /\ l = length
  OBVIOUS
<1>2. PICK t : t = [block |-> stackp(s), at |-> s.stacknxt, n |-> l]
  OBVIOUS
<1>3. Fine(s, T, M, l) /\ l > 0
  BY <1>1 DEF StackInv, grabstackstr
<1>4. PICK b \in Places(s, l) : stack' = stalloc(s, l, b)
  BY <1>1 DEF grabstackstr
<1>5. texts' = Append(T, t) /\ marks' = M /\ length' = 0 /\ wanted' = wanted
  BY <1>1, <1>2 DEF grabstackstr
<1>6. Fine(stalloc(s, l, b), Append(T, t), M, 0)
  BY ONLY <1>2, <1>3, b \in Places(s, l), GrabKeeps
<1>7. StackInv'
  BY <1>4, <1>5, <1>6, InvNext DEF StackInv
<1>8. T \in Seq(Place) /\ t \in Place /\ t.n = l /\ Len(T) \in Nat
  <2>1. /\ GoodStack(s) /\ T \in Seq(Place) /\ Len(T) \in Nat /\ l \in Nat /\ s.stacknxt \in Nat
    BY <1>3, FineIs
  <2>2. stackp(s) \in AllBlocks
    BY <2>1, StackIs
  <2> QED BY <1>2, <2>1, <2>2 DEF Place
<1>9. AllTexts(Append(T, t)) = Append(AllTexts(T), Text(Len(T) + 1, l))
  BY <1>8, TextPushed
<1>10. /\ Stored = AllTexts(T) /\ Marked = AllMarks(M) /\ Building = Text(Len(T) + 1, l)
       /\ Stored' = AllTexts(Append(T, t)) /\ Building' = Text(Len(Append(T, t)) + 1, 0)
       /\ Marked' = AllMarks(M)
  BY <1>1, <1>5, <1>7, Found, FoundNext
<1>11. Building' = <<>>
  <2>1. Len(Append(T, t)) + 1 \in Nat
    BY <1>6, FineIs
  <2> QED BY <1>10, <2>1, EmptyText
<1> QED BY <1>7, <1>9, <1>10, <1>11 DEF Memory!Keep

\* A sequence is empty where what is seen of it is.
LEMMA EmptyAlike ==
  ASSUME NEW S, NEW s \in Seq(S), NEW T, NEW t \in Seq(T), Len(s) = Len(t)
  PROVE  s = <<>> <=> t = <<>>
BY EmptySeq

LEMMA StoreEnds == \A s : Memory!Front(s) = Front(s) /\ Memory!Last(s) = Last(s)
BY DEF Memory!Front, Memory!Last, Front, Last

LEMMA UnallocStep ==
  ASSUME StackInv, Unalloc
  PROVE  StackInv' /\ Memory!GiveBack
<1>1. PICK s, T, M, l : s = stack /\ T = texts /\ M = marks /\ l = length
  OBVIOUS
<1>2. PICK r : r = Cleared(stunalloc(s, Last(T).at), Len(T) - 1)
  OBVIOUS
<1>3. /\ Fine(s, T, M, l) /\ T # <<>> /\ (M # <<>> => Last(M).behind < Len(T))
      /\ Last(T).block = stackp(s)
  BY <1>1 DEF StackInv, Unalloc
<1>4. stack' = r /\ texts' = Front(T) /\ length' = 0 /\ marks' = M /\ wanted' = wanted
  BY <1>1, <1>2 DEF Unalloc
<1>5. Fine(r, Front(T), M, 0)
  BY ONLY <1>2, <1>3, UnallocKeeps
<1>6. StackInv'
  BY <1>4, <1>5, InvNext DEF StackInv
<1>7. T \in Seq(Place) /\ M \in Seq(MarkType) /\ Len(T) \in Nat /\ Len(M) \in Nat
  BY <1>3, FineIs
<1>8. /\ Stored = AllTexts(T) /\ Marked = AllMarks(M) /\ Stored' = AllTexts(Front(T))
      /\ Building' = Text(Len(Front(T)) + 1, 0) /\ Marked' = AllMarks(M)
  BY <1>1, <1>4, <1>6, Found, FoundNext
<1>9. /\ AllTexts(T) \in Seq(Written) /\ Len(AllTexts(T)) = Len(T)
  BY <1>7, AllTextsIs
<1>10. AllTexts(T) # <<>>
  BY <1>3, <1>7, <1>9, EmptyAlike
<1>11. AllTexts(Front(T)) = Front(AllTexts(T))
  <2>1. Len(T) - 1 \in 0 .. Len(T)
    BY <1>3, <1>7, FrontIs
  <2>2. PICK e : e = Len(T) - 1
    OBVIOUS
  <2>3. Front(T) = SubSeq(T, 1, e) /\ Front(AllTexts(T)) = SubSeq(AllTexts(T), 1, e)
    BY <1>9, <2>2 DEF Front
  <2>4. AllTexts(SubSeq(T, 1, e)) = SubSeq(AllTexts(T), 1, e)
    BY <1>7, <2>1, <2>2, TextsCut
  <2> QED BY <2>3, <2>4
<1>12. AllMarks(M) # <<>> => Last(AllMarks(M)).behind < Len(AllTexts(T))
  <2> SUFFICES ASSUME AllMarks(M) # <<>>
               PROVE  Last(AllMarks(M)).behind < Len(AllTexts(T))
    OBVIOUS
  <2>1. /\ AllMarks(M) \in Seq(Noted) /\ Len(AllMarks(M)) = Len(M)
        /\ \A i \in 1 .. Len(M) : AllMarks(M)[i] = MarkFor(M[i])
    BY <1>7, AllMarksIs
  <2>2. M # <<>>
    BY <1>7, <2>1, EmptyAlike
  <2>3. Len(M) \in 1 .. Len(M)
    BY <1>7, <2>2, FrontIs
  <2>4. Last(AllMarks(M)) = MarkFor(M[Len(M)]) /\ Last(M) = M[Len(M)]
    BY <2>1, <2>3 DEF Last
  <2>5. Last(AllMarks(M)).behind = Last(M).behind
    BY <2>4 DEF MarkFor
  <2> QED BY <1>3, <1>9, <2>2, <2>5
<1>13. Building' = <<>>
  <2>1. Len(Front(T)) + 1 \in Nat
    BY <1>5, FineIs
  <2> QED BY <1>8, <2>1, EmptyText
<1> QED BY <1>6, <1>8, <1>10, <1>11, <1>12, <1>13, StoreEnds DEF Memory!GiveBack

LEMMA SetStep ==
  ASSUME StackInv, setstackmark
  PROVE  StackInv' /\ Memory!Set
<1>1. PICK s, T, M, l : s = stack /\ T = texts /\ M = marks /\ l = length
  OBVIOUS
<1>2. PICK n : n = IF AtStart(s) THEN 1 ELSE 0
  OBVIOUS
<1>3. PICK m : m = Mark(s, Len(T), Len(T), 0)
  OBVIOUS
<1>4. Fine(s, T, M, l)
  BY <1>1 DEF StackInv
<1>5. /\ GoodStack(s) /\ T \in Seq(Place) /\ M \in Seq(MarkType) /\ Len(T) \in Nat
      /\ s.stacknleft \in Nat /\ 0 <= s.stacknleft /\ Len(T) <= Len(T)
  BY <1>4, FineIs
<1>6. Len(T) + 0 = Len(T)
  BY <1>5
<1>7. /\ marks' = Append(M, Mark(s, Len(T), Len(T), 0)) /\ length' = 0 /\ wanted' = wanted
      /\ texts' = T
      /\ \E b \in Places(s, n) : stack' = Cleared(stalloc(s, n, b), Len(T))
  BY <1>1, <1>2, <1>6 DEF setstackmark, pushstackmark
<1>8. PICK b \in Places(s, n) : stack' = Cleared(stalloc(s, n, b), Len(T))
  BY <1>7
<1>9. n \in Nat /\ n <= s.stacknleft /\ (n > 0 \/ ~AtStart(s))
  <2>1. CASE AtStart(s)
    <3>1. s.stacknleft > 0
      BY <1>5, <2>1, StartIsFree
    <3> QED BY <1>2, <1>5, <2>1, <3>1
  <2>2. CASE ~AtStart(s)
    BY <1>2, <1>5, <2>2
  <2> QED BY <2>1, <2>2
<1>10. Stacked(Take(s, n), T, M)
  <2>1. Stacked(s, T, M)
    BY <1>4 DEF Fine
  <2>2. PICK r : r = Take(s, n)
    OBVIOUS
  <2>3. PICK e : e = Len(T)
    OBVIOUS
  <2>4. e \in Nat /\ Len(T) <= e
    BY <1>5, <2>3
  <2>5. Leads(s, r, e)
    BY ONLY <1>5, <1>9, <2>2, <2>4, TakeLeads
  <2>6. Stacked(r, T, M)
    BY ONLY <1>5, <2>1, <2>4, <2>5, LeadsKeeps
  <2> QED BY <2>2, <2>6
<1>11. /\ Fine(Cleared(stalloc(s, n, b), Len(T)), T, Append(M, m), 0)
       /\ m.kept = Len(T) /\ m.behind = Len(T) /\ m.held = 0
  <2>1. Longer(T, T)
    BY <1>5 DEF Longer
  <2>2. 0 \in Nat /\ HeldIn(s, T, T, 0)
    BY <1>5 DEF HeldIn
  <2>3. n \in Nat /\ n <= s.stacknleft /\ (n > 0 \/ ~AtStart(s)) /\ T \in Seq(Place)
    BY <1>5, <1>9
  <2> QED BY ONLY <1>3, <1>4, <1>10, <2>1, <2>2, <2>3, b \in Places(s, n), MarkKeeps
<1>12. StackInv'
  BY <1>3, <1>7, <1>8, <1>11, InvNext DEF StackInv
<1>13. /\ Stored = AllTexts(T) /\ Marked = AllMarks(M) /\ Stored' = AllTexts(T)
       /\ Building' = Text(Len(T) + 1, 0) /\ Marked' = AllMarks(Append(M, m))
  BY <1>1, <1>3, <1>7, <1>12, Found, FoundNext
<1>14. Building' = <<>> /\ Text(Len(T) + 1, 0) = <<>>
  <2>1. Len(T) + 1 \in Nat
    BY <1>5
  <2> QED BY <1>13, <2>1, EmptyText
<1>15. m \in MarkType
  <2>1. Append(M, m) \in Seq(MarkType) /\ Len(M) \in Nat
    BY <1>11, <1>4, FineIs
  <2>2. Len(M) + 1 \in DOMAIN Append(M, m) /\ Append(M, m)[Len(M) + 1] = m
    BY <1>5, <2>1, AppendProperties
  <2> QED BY <2>1, <2>2, MarkIs
<1>16. AllMarks(Append(M, m)) = Append(AllMarks(M), MarkFor(m))
  BY <1>5, <1>15, MarkPushed
<1>17. MarkFor(m) = [kept |-> Len(T), behind |-> Len(T), building |-> <<>>]
  BY <1>11, <1>14 DEF MarkFor
<1>18. Len(AllTexts(T)) = Len(T)
  BY <1>5, AllTextsIs
<1> QED BY <1>12, <1>13, <1>14, <1>16, <1>17, <1>18 DEF Memory!Set

LEMMA HoldStep ==
  ASSUME EmptyMarks = FALSE, StackInv, hold
  PROVE  StackInv' /\ Memory!Hold
<1>1. PICK s, T, M, l : s = stack /\ T = texts /\ M = marks /\ l = length
  OBVIOUS
<1>2. PICK t : t = [block |-> stackp(s), at |-> s.stacknxt, n |-> l]
  OBVIOUS
<1>3. PICK U : U = Append(T, t)
  OBVIOUS
<1>4. Fine(s, T, M, l)
  BY <1>1 DEF StackInv
<1>5. /\ GoodStack(s) /\ T \in Seq(Place) /\ M \in Seq(MarkType) /\ Len(T) \in Nat
      /\ s.stacknleft \in Nat /\ l \in Nat /\ l <= s.stacknleft /\ s.stacknxt \in Nat
  BY <1>4, FineIs
<1>6. PICK n \in {l, s.stacknleft} :
        (n = 0 /\ AtStart(s) => EmptyMarks) /\ pushstackmark(n, 1, l)
  BY <1>1 DEF hold
<1>7. n \in Nat /\ l <= n /\ n <= s.stacknleft /\ (n > 0 \/ ~AtStart(s))
  BY <1>5, <1>6
<1>8. t \in Place /\ t.n = l
  <2>1. stackp(s) \in AllBlocks
    BY <1>5, StackIs
  <2> QED BY <1>2, <1>5, <2>1 DEF Place
<1>9. /\ U \in Seq(Place) /\ Len(U) = Len(T) + 1 /\ U[Len(T) + 1] = t
      /\ \A i \in 1 .. Len(T) : U[i] = T[i]
  BY <1>3, <1>5, <1>8, PushedIs
<1>10. PICK m : m = Mark(s, Len(T), Len(U), l)
  OBVIOUS
<1>11. /\ marks' = Append(M, m) /\ length' = 0 /\ wanted' = wanted
       /\ \E b \in Places(s, n) : stack' = Cleared(stalloc(s, n, b), Len(U))
  BY <1>1, <1>6, <1>9, <1>10 DEF pushstackmark
<1>12. texts' = U
  BY <1>1, <1>2, <1>3 DEF hold
<1>13. PICK b \in Places(s, n) : stack' = Cleared(stalloc(s, n, b), Len(U))
  BY <1>11
<1>14. Stacked(Take(s, n), U, M)
  <2>1. PICK r : r = Take(s, n)
    OBVIOUS
  <2>2. Append(T, t) \in Seq(Place) /\ Stacked(r, Append(T, t), M)
    BY ONLY <1>2, <1>4, <1>7, <2>1, TextTaken
  <2> QED BY <1>3, <2>1, <2>2
<1>15. /\ Fine(Cleared(stalloc(s, n, b), Len(U)), U, Append(M, m), 0)
       /\ m.kept = Len(T) /\ m.behind = Len(U) /\ m.held = l
  <2>1. Len(T) <= Len(U) /\ Len(T) < Len(U)
    BY <1>5, <1>9
  <2>2. HeldIn(s, T, U, l)
    BY <1>2, <1>5, <1>9, <2>1 DEF HeldIn
  <2>3. Longer(T, U)
    BY <1>9, <2>1 DEF Longer
  <2>4. /\ n \in Nat /\ n <= s.stacknleft /\ (n > 0 \/ ~AtStart(s))
        /\ U \in Seq(Place) /\ l \in Nat
    BY <1>5, <1>7, <1>9
  <2> QED BY ONLY <1>4, <1>10, <1>14, <2>2, <2>3, <2>4, b \in Places(s, n), MarkKeeps
<1>16. StackInv'
  BY <1>11, <1>12, <1>13, <1>15, InvNext DEF StackInv
<1>17. /\ Stored = AllTexts(T) /\ Marked = AllMarks(M) /\ Building = Text(Len(T) + 1, l)
       /\ Stored' = AllTexts(U) /\ Building' = Text(Len(U) + 1, 0)
       /\ Marked' = AllMarks(Append(M, m))
  BY <1>1, <1>11, <1>12, <1>16, Found, FoundNext
<1>18. Building' = <<>>
  <2>1. Len(U) + 1 \in Nat
    BY <1>5, <1>9
  <2> QED BY <1>17, <2>1, EmptyText
<1>19. AllTexts(U) = Append(AllTexts(T), Text(Len(T) + 1, l))
  BY <1>3, <1>5, <1>8, TextPushed
<1>20. m \in MarkType
  <2>1. Append(M, m) \in Seq(MarkType) /\ Len(M) \in Nat
    BY <1>15, <1>4, FineIs
  <2>2. Len(M) + 1 \in DOMAIN Append(M, m) /\ Append(M, m)[Len(M) + 1] = m
    BY <1>5, <2>1, AppendProperties
  <2> QED BY <2>1, <2>2, MarkIs
<1>21. AllMarks(Append(M, m)) = Append(AllMarks(M), MarkFor(m))
  BY <1>5, <1>20, MarkPushed
<1>22. MarkFor(m) = [kept |-> Len(T), behind |-> Len(T) + 1, building |-> Text(Len(T) + 1, l)]
  BY <1>9, <1>15 DEF MarkFor
<1>23. Len(AllTexts(T)) = Len(T)
  BY <1>5, AllTextsIs
<1> QED BY <1>16, <1>17, <1>18, <1>19, <1>21, <1>22, <1>23 DEF Memory!Hold

LEMMA PopStep ==
  ASSUME StackInv, NEW k \in DOMAIN marks, Pop(k)
  PROVE  StackInv' /\ k \in DOMAIN Marked /\ Memory!Pop(k)
<1>1. PICK s, T, M, l : s = stack /\ T = texts /\ M = marks /\ l = length
  OBVIOUS
<1>2. PICK used : used = M[k].kept + (IF M[k].held > 0 THEN 1 ELSE 0)
  OBVIOUS
<1>3. PICK p, h : p = M[k].kept /\ h = M[k].held
  OBVIOUS
<1>4. Fine(s, T, M, l) /\ k \in DOMAIN M
  BY <1>1 DEF StackInv
<1>5. /\ stack' = Cleared(popstackmark(s, M[k]), used) /\ texts' = SubSeq(T, 1, p)
      /\ length' = h /\ wanted' = 0 /\ marks' = SubSeq(M, 1, k - 1)
  BY <1>1, <1>2, <1>3 DEF Pop
<1>6. Fine(Cleared(popstackmark(s, M[k]), used), SubSeq(T, 1, p), SubSeq(M, 1, k - 1), h)
  <2>1. Fine(Cleared(popstackmark(s, M[k]), used), SubSeq(T, 1, M[k].kept), SubSeq(M, 1, k - 1),
             M[k].held)
    BY ONLY <1>2, <1>4, PopKeeps
  <2> QED BY <1>3, <2>1
<1>7. StackInv'
  BY <1>5, <1>6, InvNext
<1>8. T \in Seq(Place) /\ M \in Seq(MarkType) /\ Len(T) \in Nat /\ Len(M) \in Nat
  BY <1>4, FineIs
<1>9. k \in 1 .. Len(M) /\ k - 1 \in 0 .. Len(M) /\ DOMAIN M = 1 .. Len(M)
  BY <1>4, <1>8, SeqIs
<1>10. p \in 0 .. Len(T)
  <2>1. p \in Nat /\ M[k].behind \in Nat
    BY <1>3, <1>4, <1>8, MarkIs
  <2>2. p <= M[k].behind /\ M[k].behind <= Len(T)
    BY <1>3, <1>4 DEF Fine, Stacked, MarkOK
  <2> QED BY <1>8, <2>1, <2>2
<1>11. /\ Stored = AllTexts(T) /\ Marked = AllMarks(M)
       /\ Stored' = AllTexts(SubSeq(T, 1, p))
       /\ Building' = Text(Len(SubSeq(T, 1, p)) + 1, h)
       /\ Marked' = AllMarks(SubSeq(M, 1, k - 1))
  BY <1>1, <1>5, <1>7, Found, FoundNext
<1>12. AllTexts(SubSeq(T, 1, p)) = SubSeq(AllTexts(T), 1, p)
  BY <1>8, <1>10, TextsCut
<1>13. AllMarks(SubSeq(M, 1, k - 1)) = SubSeq(AllMarks(M), 1, k - 1)
  BY <1>8, <1>9, MarksCut
<1>14. Len(SubSeq(T, 1, p)) = p
  BY <1>8, <1>10, CutIs
<1>15. AllMarks(M)[k] = MarkFor(M[k]) /\ k \in DOMAIN AllMarks(M)
  <2>1. /\ AllMarks(M) \in Seq(Noted) /\ Len(AllMarks(M)) = Len(M)
        /\ \A i \in 1 .. Len(M) : AllMarks(M)[i] = MarkFor(M[i])
    BY <1>8, AllMarksIs
  <2>2. DOMAIN AllMarks(M) = 1 .. Len(M)
    BY <2>1, SeqIs
  <2> QED BY <1>9, <2>1, <2>2
<1>16. AllMarks(M)[k].kept = p /\ AllMarks(M)[k].building = Text(p + 1, h)
  BY <1>3, <1>15 DEF MarkFor
<1>17. Memory!Pop(k)
  BY <1>11, <1>12, <1>13, <1>14, <1>16 DEF Memory!Pop
<1> QED BY <1>7, <1>11, <1>15, <1>17

LEMMA NextStep ==
  ASSUME EmptyMarks = FALSE, StackInv, Next
  PROVE  StackInv' /\ (Memory!Next \/ UNCHANGED Memory!vars)
<1>1. ASSUME NEW n \in Sizes, Allocate(n) PROVE StackInv' /\ Memory!Next
  BY <1>1, AllocateStep DEF Memory!Next
<1>2. ASSUME NEW n \in Sizes, stputs(n) PROVE StackInv' /\ UNCHANGED Memory!vars
  BY <1>2, StputsStep
<1>3. CASE STARTSTACKSTR
  BY <1>3, StartStep DEF Memory!Next
<1>4. CASE growstackstr
  BY <1>4, GrowStep
<1>5. CASE Copy
  BY <1>5, CopyStep DEF Memory!Next
<1>6. CASE grabstackstr
  BY <1>6, GrabStep DEF Memory!Next
<1>7. CASE Unalloc
  BY <1>7, UnallocStep DEF Memory!Next
<1>8. CASE setstackmark
  BY <1>8, SetStep DEF Memory!Next
<1>9. CASE hold
  BY <1>9, HoldStep DEF Memory!Next
<1>10. ASSUME NEW k \in DOMAIN marks, Pop(k) PROVE StackInv' /\ Memory!Next
  BY <1>10, PopStep DEF Memory!Next
<1> QED BY <1>1, <1>2, <1>3, <1>4, <1>5, <1>6, <1>7, <1>8, <1>9, <1>10 DEF Next

LEMMA StutterStep ==
  ASSUME StackInv, UNCHANGED vars
  PROVE  StackInv' /\ UNCHANGED Memory!vars
<1>1. /\ stack' = stack /\ texts' = texts /\ marks' = marks /\ length' = length
      /\ wanted' = wanted
  BY DEF vars
<1>2. StackInv'
  BY <1>1, InvNext DEF StackInv
<1> QED BY <1>1, <1>2, StutterIs

\* The blocks, the pointers into them and the marks implement a store of texts:
\* every user finds what it wrote, for all sizes and alignments.  The code does
\* not promise it where pushstackmark(mark, 0) is called at the start of a block,
\* which growstackblock may then move although a mark points to it.
THEOREM EveryUserFindsItsText == EmptyMarks = FALSE => (Spec => Remembers)
<1> SUFFICES ASSUME EmptyMarks = FALSE PROVE Spec => Remembers
  OBVIOUS
<1>1. Init => StackInv /\ Memory!Init
  BY InitIs
<1>2. StackInv /\ [Next]_vars => StackInv' /\ [Memory!Next]_Memory!vars
  <2>1. ASSUME StackInv, Next PROVE StackInv' /\ (Memory!Next \/ UNCHANGED Memory!vars)
    BY <2>1, NextStep
  <2>2. ASSUME StackInv, UNCHANGED vars PROVE StackInv' /\ UNCHANGED Memory!vars
    BY <2>2, StutterStep
  <2> QED BY <2>1, <2>2
<1> QED BY <1>1, <1>2, PTL DEF Spec, Remembers, Memory!Spec
===============================================================================

------------------------------ MODULE RedirProofs -----------------------------
(***************************************************************************)
(* Theorems about Redir, for every number of descriptors and every nesting *)
(* of commands and subshells: the counts and depths, the aims of errors,   *)
(* and who holds each descriptor of the shell's own; that it implements    *)
(* Scopes, that commands are undone at their end, and that a subshell      *)
(* begins with its parent's descriptors.                                   *)
(***************************************************************************)
EXTENDS Redir, FiniteSetTheorems, SequenceTheorems, WellFoundedInduction, TLAPS

(* Facts about the operators.                                              *)

\* Every non-empty set of naturals has a least element.
LEMMA LowestIn ==
  ASSUME NEW S \in SUBSET Nat, S # {}
  PROVE  Lowest(S) \in S /\ \A d \in S : Lowest(S) <= d
<1> DEFINE R == {ss \in Nat \X Nat : ss[1] < ss[2]}
<1>1. IsWellFoundedOn(R, Nat)
  BY NatLessThanWellFounded, Zenon DEF OpToRel
<1> HIDE DEF R
<1>2. PICK x \in S : \A y \in S : ~(<<y, x>> \in R)
  BY <1>1, WFMin, Zenon
<1>3. \A y \in S : ~(y < x)
  BY <1>2 DEF R
<1>4. \A y \in S : x <= y
  BY <1>3
<1> QED BY <1>4 DEF Lowest

\* The user's descriptors and the shell's own are different numbers.
LEMMA Descriptors ==
  /\ User \subseteq Nat /\ Internal \subseteq Nat /\ Fds = User \cup Internal
  /\ User \cap Internal = {} /\ 0 \in User /\ -1 \notin Fds
  /\ EMPTY \notin Fds /\ CLOSED \notin Fds /\ EMPTY # CLOSED
BY RedirAssumption DEF User, Internal, Fds, EMPTY, CLOSED

\* What open, dup and F_DUPFD return was free.
LEMMA LowestFree ==
  ASSUME NEW t, NEW S \in SUBSET Nat, FreeIn(S, t) # {}
  PROVE  Lowest(FreeIn(S, t)) \in S /\ t[Lowest(FreeIn(S, t))] = "closed"
<1>1. FreeIn(S, t) \in SUBSET Nat
  BY DEF FreeIn
<1>2. Lowest(FreeIn(S, t)) \in FreeIn(S, t)
  BY <1>1, LowestIn
<1> QED BY <1>2 DEF FreeIn

\* Saving a descriptor either finds it closed or takes a free one of the shell's.
LEMMA SavefdType ==
  ASSUME fdtab \in [Fds -> Values], NEW fd \in User, CanSave(fdtab, fd)
  PROVE  \/ fdtab[fd] = "closed" /\ savefd(fdtab, fd) = CLOSED
         \/ /\ fdtab[fd] # "closed" /\ savefd(fdtab, fd) \in Internal
            /\ fdtab[savefd(fdtab, fd)] = "closed"
BY LowestFree, Descriptors DEF CanSave, savefd

\* Sequences.
LEMMA FrontType ==
  ASSUME NEW S, NEW s \in Seq(S), s # <<>>
  PROVE  /\ Front(s) \in Seq(S) /\ Len(Front(s)) = Len(s) - 1
         /\ \A k \in 1 .. Len(s) - 1 : Front(s)[k] = s[k]
         /\ Last(s) \in S /\ Last(s) = s[Len(s)] /\ Len(s) \in Nat \ {0}
         /\ DOMAIN Front(s) = 1 .. Len(s) - 1
<1>1. Len(s) \in Nat \ {0}
  OBVIOUS
<1>2. Last(s) \in S /\ Last(s) = s[Len(s)]
  BY <1>1 DEF Last
<1>3. /\ Front(s) \in Seq(S) /\ Len(Front(s)) = Len(s) - 1
      /\ \A k \in 1 .. Len(s) - 1 : Front(s)[k] = s[k]
  <2>1. PICK n \in Nat : n = Len(s) - 1
    BY <1>1
  <2>2. \A i \in 1 .. n : s[i] \in S
    BY <2>1, ElementOfSeq
  <2>3. /\ SubSeq(s, 1, n) \in Seq(S) /\ Len(SubSeq(s, 1, n)) = IF 1 <= n THEN n - 1 + 1 ELSE 0
        /\ \A i \in 1 .. n - 1 + 1 : SubSeq(s, 1, n)[i] = s[1 + i - 1]
    BY <2>2, SubSeqProperties
  <2> QED BY <2>1, <2>3 DEF Front
<1> QED BY <1>1, <1>2, <1>3, LenProperties

\* Something is put on a stack, and its last element is changed.
LEMMA Pushed ==
  ASSUME NEW S, NEW s \in Seq(S), NEW x \in S
  PROVE  /\ Append(s, x) \in Seq(S) /\ Len(Append(s, x)) = Len(s) + 1
         /\ Append(s, x) # <<>> /\ Last(Append(s, x)) = x /\ Len(s) \in Nat
         /\ DOMAIN Append(s, x) = 1 .. Len(s) + 1 /\ Append(s, x)[Len(s) + 1] = x
         /\ \A k \in 1 .. Len(s) : Append(s, x)[k] = s[k]
<1>1. Len(s) \in Nat /\ Append(s, x) \in Seq(S) /\ Len(Append(s, x)) = Len(s) + 1
  OBVIOUS
<1>2. Append(s, x)[Len(s) + 1] = x /\ \A k \in 1 .. Len(s) : Append(s, x)[k] = s[k]
  OBVIOUS
<1> QED BY <1>1, <1>2, EmptySeq, LenProperties DEF Last

LEMMA LastChanged ==
  ASSUME NEW S, NEW s \in Seq(S), s # <<>>, NEW x \in S
  PROVE  /\ [s EXCEPT ![Len(s)] = x] \in Seq(S)
         /\ Len([s EXCEPT ![Len(s)] = x]) = Len(s) /\ [s EXCEPT ![Len(s)] = x] # <<>>
         /\ Last([s EXCEPT ![Len(s)] = x]) = x /\ DOMAIN [s EXCEPT ![Len(s)] = x] = DOMAIN s
         /\ [s EXCEPT ![Len(s)] = x][Len(s)] = x
         /\ \A k \in 1 .. Len(s) - 1 : [s EXCEPT ![Len(s)] = x][k] = s[k]
<1> DEFINE r == [s EXCEPT ![Len(s)] = x]
<1>1. Len(s) \in Nat \ {0}
  OBVIOUS
<1>2. r \in Seq(S) /\ Len(r) = Len(s) /\ r # <<>> /\ DOMAIN r = DOMAIN s
  BY <1>1
<1>3. r[Len(s)] = x /\ \A k \in 1 .. Len(s) - 1 : r[k] = s[k]
  BY <1>1
<1>4. Last(r) = x
  BY <1>2, <1>3 DEF Last
<1> QED BY <1>2, <1>3, <1>4

-----------------------------------------------------------------------------
(* Types.  They rest on the shape of the C stack: where an operation looks *)
(* at the last frame, table or file, there is one.                         *)

\* What a command finds when it begins.
Found == [view : [User -> Values], execd : SUBSET User]

\* A body is being executed.
Active(k) == k < Len(ctx) \/ pc = "run"

Shape ==
  /\ parsefile # <<>> /\ parsefile[1] # -1
  /\ \A k \in 2 .. Len(parsefile) : parsefile[k] # 0
  /\ pc \in {"unwind", "leave", "drop", "child", "exit"} => ctx = <<>>
  /\ pc \in {"redir", "failed", "located", "out"} => ctx # <<>>
  /\ pc \in {"redir", "failed"} => Last(ctx).kind \in {"compound", "simple"} /\ Last(ctx).pushed
  /\ pc = "located" => Last(ctx).kind = "simple"
  /\ pc = "out" => Last(ctx).kind # "compound"
  /\ \A k \in DOMAIN ctx : ctx[k].kind = "compound" => ctx[k].pushed
  /\ \A k \in DOMAIN ctx : Active(k) => ctx[k].kind # "simple"
  /\ pc \notin {"unwind", "leave"} => Len(entry) = Len(ctx)

\* The files that are read: each eval and each dot that is being executed has
\* put one on those that were there when it began.
Width(f) == IF f.kind \in {"eval", "dot"} THEN 1 ELSE 0
Nesting ==
  /\ ctx = <<>> => Len(parsefile) = 1
  /\ ctx # <<>> =>
       /\ ctx[1].files = 1
       /\ Len(parsefile) = Last(ctx).files + (IF pc = "run" THEN Width(Last(ctx)) ELSE 0)
  /\ \A k \in DOMAIN ctx : k > 1 => ctx[k].files = ctx[k - 1].files + Width(ctx[k - 1])
  /\ \A i, k \in DOMAIN ctx : i < k => ctx[i].files + Width(ctx[i]) <= ctx[k].files

\* The number of tables that the first n commands have.
Count(c, n) == Cardinality({k \in 1 .. n : c[k].pushed})

\* Each command noted how many tables those around it had, and there are as many
\* tables as commands that have one.
Depths ==
  /\ Running => Len(redirlist) = Count(ctx, Len(ctx))
  /\ \A k \in DOMAIN ctx : ctx[k].redirs = Count(ctx, k - 1)

LEMMA CountStep ==
  ASSUME NEW c \in Seq(Frame), NEW n \in 0 .. Len(c) - 1
  PROVE  /\ Count(c, n) \in Nat /\ Count(c, n + 1) \in Nat
         /\ Count(c, n + 1) = Count(c, n) + (IF c[n + 1].pushed THEN 1 ELSE 0)
<1> DEFINE P == {k \in 1 .. n : c[k].pushed}
           Q == {k \in 1 .. n + 1 : c[k].pushed}
<1>1. IsFiniteSet(1 .. n) /\ P \in SUBSET (1 .. n)
  BY FS_Interval
<1>2. IsFiniteSet(P) /\ Cardinality(P) \in Nat
  <2> HIDE DEF P
  <2> QED BY <1>1, FS_Subset, FS_CardinalityType
<1>3. CASE c[n + 1].pushed
  <2>1. Q = P \cup {n + 1} /\ n + 1 \notin P
    BY <1>3
  <2>2. Cardinality(Q) = Cardinality(P) + 1
    <3> HIDE DEF P, Q
    <3> QED BY <2>1, <1>2, FS_AddElement
  <2> QED BY <2>2, <1>2, <1>3 DEF Count
<1>4. CASE ~c[n + 1].pushed
  <2>1. Q = P
    BY <1>4
  <2>2. Cardinality(Q) = Cardinality(P)
    BY <2>1
  <2> QED BY <2>2, <1>2, <1>4 DEF Count
<1> QED BY <1>3, <1>4

LEMMA CountSame ==
  ASSUME NEW c, NEW d, NEW n \in Nat, \A k \in 1 .. n : c[k].pushed = d[k].pushed
  PROVE  Count(c, n) = Count(d, n)
<1>1. {k \in 1 .. n : c[k].pushed} = {k \in 1 .. n : d[k].pushed}
  OBVIOUS
<1> QED BY <1>1 DEF Count

LEMMA CountZero == ASSUME NEW c PROVE Count(c, 0) = 0
<1>1. {k \in 1 .. 0 : c[k].pushed} = {}
  OBVIOUS
<1> QED BY <1>1, FS_EmptySet DEF Count


-----------------------------------------------------------------------------
(* What the operations do.                                                 *)

\* A table is popped.
LEMMA PopType ==
  ASSUME TypeOK, redirlist # <<>>, NEW drop \in BOOLEAN, Pop(drop)
  PROVE  /\ fdtab' \in [Fds -> Values] /\ redirlist' \in Seq(Table)
         /\ Len(redirlist') = Len(redirlist) - 1 /\ Len(redirlist) \in Nat \ {0}
         /\ \A k \in 1 .. Len(redirlist) - 1 : redirlist'[k] = redirlist[k]
         /\ Last(redirlist) \in Table /\ Last(redirlist) = redirlist[Len(redirlist)]
         /\ \A fd \in Internal : fdtab'[fd] =
              IF \E u \in User : Last(redirlist)[u] = fd THEN "closed" ELSE fdtab[fd]
         /\ \A fd \in User : fdtab'[fd] =
              IF ~drop /\ Last(redirlist)[fd] # EMPTY
              THEN IF Last(redirlist)[fd] = CLOSED THEN "closed"
                   ELSE fdtab[Last(redirlist)[fd]]
              ELSE fdtab[fd]
<1>1. /\ redirlist \in Seq(Table) /\ fdtab \in [Fds -> Values] /\ "closed" \in Values
  BY DEF TypeOK, Values
<1>2. /\ redirlist' = Front(redirlist) /\ fdtab' = popredir(fdtab, Last(redirlist), drop)
  BY DEF Pop
<1>3. /\ redirlist' \in Seq(Table) /\ Len(redirlist') = Len(redirlist) - 1
      /\ \A k \in 1 .. Len(redirlist) - 1 : redirlist'[k] = redirlist[k]
      /\ Last(redirlist) \in Table /\ Last(redirlist) = redirlist[Len(redirlist)]
      /\ Len(redirlist) \in Nat \ {0}
  BY <1>1, <1>2, FrontType
<1> DEFINE r == Last(redirlist)
<1>4. r \in [User -> {EMPTY, CLOSED} \cup Internal]
  BY <1>3 DEF Table
<1> HIDE DEF r
<1>5. \A fd \in Fds : popredir(fdtab, r, drop)[fd] =
         IF fd \in User /\ ~drop /\ r[fd] # EMPTY
         THEN IF r[fd] = CLOSED THEN "closed" ELSE fdtab[r[fd]]
         ELSE IF \E u \in User : r[u] = fd THEN "closed" ELSE fdtab[fd]
  BY DEF popredir
<1>6. popredir(fdtab, r, drop) \in [Fds -> Values]
  BY <1>1, <1>4, Descriptors DEF popredir
<1>7. \A fd \in User : ~\E u \in User : r[u] = fd
  BY <1>4, Descriptors
<1>8. /\ \A fd \in Internal : fdtab'[fd] =
           IF \E u \in User : r[u] = fd THEN "closed" ELSE fdtab[fd]
      /\ \A fd \in User : fdtab'[fd] =
           IF ~drop /\ r[fd] # EMPTY
           THEN IF r[fd] = CLOSED THEN "closed" ELSE fdtab[r[fd]]
           ELSE fdtab[fd]
  BY <1>2, <1>5, <1>7, Descriptors DEF r
<1> QED BY <1>2, <1>3, <1>6, <1>8 DEF r

\* A descriptor is saved in the last table, or was before.
LEMMA SaveEffect ==
  ASSUME TypeOK, redirlist # <<>>, NEW fd \in User, CanSave(fdtab, fd), Save(fd)
  PROVE  \/ /\ Last(redirlist)[fd] # EMPTY
            /\ UNCHANGED redirlist /\ Saved(TRUE, fd) = fdtab
         \/ /\ Last(redirlist)[fd] = EMPTY
            /\ \E s \in Internal \cup {CLOSED} :
                 /\ redirlist' = [redirlist EXCEPT
                      ![Len(redirlist)] = [Last(redirlist) EXCEPT ![fd] = s]]
                 /\ s = CLOSED => fdtab[fd] = "closed" /\ Saved(TRUE, fd) = fdtab
                 /\ s \in Internal =>
                      /\ fdtab[fd] # "closed" /\ fdtab[s] = "closed"
                      /\ Saved(TRUE, fd) = [fdtab EXCEPT ![s] = fdtab[fd]]
<1>1. redirlist \in Seq(Table) /\ fdtab \in [Fds -> Values]
  BY DEF TypeOK
<1>2. CASE Last(redirlist)[fd] # EMPTY
  BY <1>2 DEF Save, Saves, Saved
<1>3. CASE Last(redirlist)[fd] = EMPTY
  <2> DEFINE s == savefd(fdtab, fd)
  <2>1. redirlist' = [redirlist EXCEPT ![Len(redirlist)][fd] = s]
    BY <1>3 DEF Save, Saves
  <2>2. Saved(TRUE, fd) = IF fdtab[fd] # "closed" THEN [fdtab EXCEPT ![s] = fdtab[fd]] ELSE fdtab
    BY <1>3 DEF Saved, Saves
  <2>3. \/ fdtab[fd] = "closed" /\ s = CLOSED
        \/ fdtab[fd] # "closed" /\ s \in Internal /\ fdtab[s] = "closed"
    BY <1>1, SavefdType
  <2> HIDE DEF s
  <2>4. redirlist' = [redirlist EXCEPT ![Len(redirlist)] = [Last(redirlist) EXCEPT ![fd] = s]]
    BY <2>1, <1>1 DEF Last
  <2> QED BY <1>3, <2>2, <2>3, <2>4, Descriptors
<1> QED BY <1>2, <1>3

LEMMA SaveType ==
  ASSUME TypeOK, redirlist # <<>>, NEW fd \in User, CanSave(fdtab, fd), Save(fd)
  PROVE  /\ Saved(TRUE, fd) \in [Fds -> Values]
         /\ redirlist' \in Seq(Table) /\ Len(redirlist') = Len(redirlist)
<1>1. redirlist \in Seq(Table) /\ fdtab \in [Fds -> Values] /\ Last(redirlist) \in Table
  BY FrontType DEF TypeOK
<1>2. CASE UNCHANGED redirlist /\ Saved(TRUE, fd) = fdtab
  BY <1>1, <1>2
<1>3. ASSUME NEW s \in Internal \cup {CLOSED},
             redirlist' = [redirlist EXCEPT
               ![Len(redirlist)] = [Last(redirlist) EXCEPT ![fd] = s]],
             \/ Saved(TRUE, fd) = fdtab
             \/ s \in Internal /\ Saved(TRUE, fd) = [fdtab EXCEPT ![s] = fdtab[fd]]
      PROVE  /\ Saved(TRUE, fd) \in [Fds -> Values]
             /\ redirlist' \in Seq(Table) /\ Len(redirlist') = Len(redirlist)
  <2>1. [Last(redirlist) EXCEPT ![fd] = s] \in Table
    BY <1>1, Descriptors DEF Table
  <2>2. redirlist' \in Seq(Table) /\ Len(redirlist') = Len(redirlist)
    BY <1>1, <1>3, <2>1, LastChanged
  <2>3. Saved(TRUE, fd) \in [Fds -> Values]
    BY <1>1, <1>3, Descriptors
  <2> QED BY <2>2, <2>3
<1> QED BY <1>2, <1>3, SaveEffect, Descriptors

\* What exec changed is noted.
LEMMA EntryWidened ==
  ASSUME entry \in Seq(Found), NEW S \in SUBSET User,
         \/ entry' = entry
         \/ entry' = [k \in DOMAIN entry |-> [entry[k] EXCEPT !.execd = @ \cup S]]
  PROVE  /\ entry' \in Seq(Found) /\ Len(entry') = Len(entry)
         /\ \A k \in 1 .. Len(entry) :
              entry'[k].view = entry[k].view /\ entry[k].execd \subseteq entry'[k].execd
<1>1. CASE entry' = entry
  BY <1>1
<1>2. CASE entry' = [k \in DOMAIN entry |-> [entry[k] EXCEPT !.execd = @ \cup S]]
  <2>1. Len(entry) \in Nat /\ DOMAIN entry = 1 .. Len(entry)
    BY LenProperties
  <2>2. \A k \in 1 .. Len(entry) : entry[k] \in Found
    BY ElementOfSeq
  <2>3. \A k \in 1 .. Len(entry) :
          /\ entry'[k] \in Found
          /\ entry'[k].view = entry[k].view /\ entry[k].execd \subseteq entry'[k].execd
    BY <1>2, <2>1, <2>2 DEF Found
  <2>4. entry' \in [1 .. Len(entry) -> Found]
    BY <1>2, <2>1, <2>3
  <2>5. entry' \in Seq(Found) /\ Len(entry') = Len(entry)
    BY <2>1, <2>4, SeqDef, LenProperties
  <2> QED BY <2>3, <2>5
<1> QED BY <1>1, <1>2

\* A redirection that is made has the values of a descriptor.
LEMMA RedirectedType ==
  ASSUME NEW t \in [Fds -> Values]
  PROVE  Redirected(t) \subseteq Values
BY Descriptors DEF Redirected, Opened, Duplicated, Values

LEMMA RedirStepType ==
  ASSUME TypeOK, NEW push \in BOOLEAN, push => redirlist # <<>>, NEW fd \in User,
         RedirStep(push, fd)
  PROVE  /\ fdtab' \in [Fds -> Values]
         /\ redirlist' \in Seq(Table) /\ Len(redirlist') = Len(redirlist)
         /\ ~push => UNCHANGED redirlist
<1>1. fdtab \in [Fds -> Values] /\ redirlist \in Seq(Table)
  BY DEF TypeOK
<1>2. /\ Saved(push, fd) \in [Fds -> Values]
      /\ redirlist' \in Seq(Table) /\ Len(redirlist') = Len(redirlist)
      /\ ~push => UNCHANGED redirlist
  <2>1. CASE push
    BY <2>1, SaveType DEF RedirStep
  <2>2. CASE ~push
    BY <2>2, <1>1 DEF RedirStep, Saved
  <2> QED BY <2>1, <2>2
<1>3. fdtab' \in [Fds -> Values]
  <2>1. PICK v \in Redirected(Saved(push, fd)) : fdtab' = [Saved(push, fd) EXCEPT ![fd] = v]
    BY DEF RedirStep
  <2>2. v \in Values
    BY <2>1, <1>2, RedirectedType
  <2> QED BY <1>2, <2>1, <2>2
<1> QED BY <1>2, <1>3

LEMMA RedirFailsType ==
  ASSUME TypeOK, redirlist # <<>>, NEW fd \in User, RedirFails(TRUE, fd)
  PROVE  /\ fdtab' \in [Fds -> Values]
         /\ redirlist' \in Seq(Table) /\ Len(redirlist') = Len(redirlist)
BY SaveType DEF RedirFails, TypeOK

\* Closing descriptors.
LEMMA WithoutType ==
  ASSUME fdtab \in [Fds -> Values], NEW S
  PROVE  /\ Without(S) \in [Fds -> Values]
         /\ \A fd \in Fds : Without(S)[fd] = IF fd \in S THEN "closed" ELSE fdtab[fd]
BY DEF Without, Values

\* What is closed with a file is one of the shell's own.
LEMMA FilesClosed ==
  ASSUME TypeOK, Shape, NEW n \in Nat, n >= 1
  PROVE  Files_of(n) \subseteq {-1} \cup Internal
BY DEF TypeOK, Shape, Files_of

LEMMA CtxType ==
  ASSUME TypeOK
  PROVE  /\ ctx \in Seq(Frame) /\ Len(ctx) \in Nat /\ DOMAIN ctx = 1 .. Len(ctx)
         /\ ctx # <<>> <=> Len(ctx) > 0
         /\ Last(ctx) = ctx[Len(ctx)]
         /\ \A k \in 1 .. Len(ctx) :
              /\ ctx[k] \in Frame /\ ctx[k].kind \in Kinds /\ ctx[k].pushed \in BOOLEAN
              /\ ctx[k].files \in Nat /\ ctx[k].redirs \in Nat /\ ctx[k].exec \in BOOLEAN
<1>1. ctx \in Seq(Frame) /\ Len(ctx) \in Nat /\ DOMAIN ctx = 1 .. Len(ctx)
  BY LenProperties DEF TypeOK
<1>2. ctx # <<>> <=> Len(ctx) > 0
  BY <1>1, EmptySeq
<1>3. \A k \in 1 .. Len(ctx) : ctx[k] \in Frame
  BY <1>1, ElementOfSeq
<1> QED BY <1>1, <1>2, <1>3 DEF Last, Frame

\* The last command has a table exactly if there are more than it noted.
LEMMA OwnTable ==
  ASSUME TypeOK, Depths, Running, ctx # <<>>
  PROVE  /\ Len(redirlist) = Last(ctx).redirs + (IF Last(ctx).pushed THEN 1 ELSE 0)
         /\ Last(ctx).pushed <=> Len(redirlist) > Last(ctx).redirs
         /\ Last(ctx).pushed => redirlist # <<>>
         /\ Last(ctx).redirs = Count(ctx, Len(ctx) - 1)
<1>1. /\ ctx \in Seq(Frame) /\ Len(ctx) \in Nat \ {0} /\ Last(ctx) = ctx[Len(ctx)]
      /\ Last(ctx).redirs \in Nat /\ Last(ctx).pushed \in BOOLEAN
  BY CtxType
<1>2. PICK n \in Nat : n = Len(ctx) - 1
  BY <1>1
<1>3. Count(ctx, n + 1) = Count(ctx, n) + (IF ctx[n + 1].pushed THEN 1 ELSE 0)
  BY <1>1, <1>2, CountStep
<1>4. Last(ctx).redirs = Count(ctx, n) /\ Len(redirlist) = Count(ctx, n + 1)
  BY <1>1, <1>2 DEF Depths
<1>5. Len(redirlist) = Last(ctx).redirs + (IF Last(ctx).pushed THEN 1 ELSE 0)
  BY <1>1, <1>2, <1>3, <1>4
<1>6. redirlist # <<>> <=> Len(redirlist) # 0
  BY EmptySeq DEF TypeOK
<1> QED BY <1>1, <1>2, <1>4, <1>5, <1>6

LEMMA DepthsPushed ==
  ASSUME TypeOK, Depths, Running, ctx' \in Seq(Frame), Len(ctx') = Len(ctx) + 1,
         \A k \in 1 .. Len(ctx) : ctx'[k].pushed = ctx[k].pushed /\ ctx'[k].redirs = ctx[k].redirs,
         ctx'[Len(ctx) + 1].redirs = Len(redirlist),
         Len(redirlist') = Len(redirlist) + (IF ctx'[Len(ctx) + 1].pushed THEN 1 ELSE 0)
  PROVE  Depths'
<1>1. /\ Len(ctx) \in Nat /\ DOMAIN ctx = 1 .. Len(ctx) /\ DOMAIN ctx' = 1 .. Len(ctx) + 1
  BY CtxType, LenProperties
<1>2. \A n \in 0 .. Len(ctx) : Count(ctx', n) = Count(ctx, n)
  BY <1>1, CountSame
<1>3. Count(ctx', Len(ctx) + 1) = Count(ctx', Len(ctx)) + (IF ctx'[Len(ctx) + 1].pushed THEN 1 ELSE 0)
  BY <1>1, CountStep
<1>4. Len(redirlist') = Count(ctx', Len(ctx'))
  <2>1. Len(redirlist) = Count(ctx, Len(ctx)) /\ Count(ctx', Len(ctx)) = Count(ctx, Len(ctx))
    BY <1>1, <1>2 DEF Depths
  <2> QED BY <2>1, <1>3
<1>5. ASSUME NEW k \in 1 .. Len(ctx) + 1 PROVE ctx'[k].redirs = Count(ctx', k - 1)
  <2>1. k - 1 \in 0 .. Len(ctx)
    BY <1>1
  <2>2. Count(ctx', k - 1) = Count(ctx, k - 1)
    BY <2>1, <1>2
  <2>3. CASE k \in 1 .. Len(ctx)
    BY <2>2, <2>3, <1>1 DEF Depths
  <2>4. CASE k = Len(ctx) + 1
    <3>1. Len(redirlist) = Count(ctx, Len(ctx)) /\ k - 1 = Len(ctx)
      BY <1>1, <2>4 DEF Depths
    <3> QED BY <2>2, <2>4, <3>1
  <2> QED BY <2>3, <2>4, <1>1
<1> QED BY <1>1, <1>4, <1>5 DEF Depths, Count

LEMMA DepthsSame ==
  ASSUME TypeOK, Depths, Running, ctx' \in Seq(Frame), Len(ctx') = Len(ctx),
         \A k \in 1 .. Len(ctx) : ctx'[k].pushed = ctx[k].pushed /\ ctx'[k].redirs = ctx[k].redirs,
         Len(redirlist') = Len(redirlist)
  PROVE  Depths'
<1>1. Len(ctx) \in Nat /\ DOMAIN ctx = 1 .. Len(ctx) /\ DOMAIN ctx' = 1 .. Len(ctx)
  BY CtxType, LenProperties
<1>2. \A n \in 0 .. Len(ctx) : Count(ctx', n) = Count(ctx, n)
  BY <1>1, CountSame
<1>3. Len(redirlist') = Count(ctx', Len(ctx'))
  BY <1>1, <1>2 DEF Depths
<1>4. ASSUME NEW k \in 1 .. Len(ctx) PROVE ctx'[k].redirs = Count(ctx', k - 1)
  <2>1. k - 1 \in 0 .. Len(ctx)
    BY <1>1
  <2> QED BY <2>1, <1>1, <1>2 DEF Depths
<1> QED BY <1>1, <1>3, <1>4 DEF Depths, Count

\* The last command loses its table.
LEMMA DepthsOwn ==
  ASSUME TypeOK, Depths, Running, ctx # <<>>, ctx' \in Seq(Frame), Len(ctx') = Len(ctx),
         \A k \in 1 .. Len(ctx) - 1 : ctx'[k] = ctx[k],
         ctx'[Len(ctx)].redirs = Last(ctx).redirs, ctx'[Len(ctx)].pushed = FALSE,
         Len(redirlist') = Last(ctx).redirs
  PROVE  Depths'
<1>1. /\ Len(ctx) \in Nat \ {0} /\ DOMAIN ctx = 1 .. Len(ctx) /\ DOMAIN ctx' = 1 .. Len(ctx)
      /\ Last(ctx) = ctx[Len(ctx)] /\ Last(ctx).redirs = Count(ctx, Len(ctx) - 1)
  BY CtxType, LenProperties, OwnTable
<1> DEFINE m == Len(ctx) - 1
<1>2. m \in Nat /\ Len(ctx) = m + 1
  BY <1>1
<1>3. \A n \in 0 .. m : Count(ctx', n) = Count(ctx, n)
  BY <1>1, <1>2, CountSame
<1>4. Count(ctx', m + 1) = Count(ctx', m) /\ Count(ctx', m) \in Nat
  BY <1>1, <1>2, CountStep
<1>5. Len(redirlist') = Count(ctx', Len(ctx'))
  BY <1>1, <1>2, <1>3, <1>4
<1>6. ASSUME NEW k \in 1 .. Len(ctx) PROVE ctx'[k].redirs = Count(ctx', k - 1)
  <2>1. k - 1 \in 0 .. m /\ ctx'[k].redirs = ctx[k].redirs
    BY <1>1, <1>2
  <2> QED BY <2>1, <1>1, <1>3 DEF Depths
<1> QED BY <1>1, <1>5, <1>6 DEF Depths, Count

\* A command whose table is popped, or that had none, ends.
LEMMA DepthsPopped ==
  ASSUME TypeOK, Depths, Running, ctx # <<>>, ctx' = Front(ctx),
         Len(redirlist') = Last(ctx).redirs
  PROVE  Depths'
<1>1. /\ ctx \in Seq(Frame) /\ Len(ctx) \in Nat \ {0} /\ DOMAIN ctx = 1 .. Len(ctx)
  BY CtxType
<1>2. /\ Len(ctx') = Len(ctx) - 1 /\ DOMAIN ctx' = 1 .. Len(ctx) - 1
      /\ \A k \in 1 .. Len(ctx) - 1 : ctx'[k] = ctx[k]
  BY <1>1, FrontType
<1>3. \A n \in 0 .. Len(ctx) - 1 : Count(ctx', n) = Count(ctx, n)
  BY <1>1, <1>2, CountSame
<1>4. Len(redirlist') = Count(ctx', Len(ctx'))
  BY <1>1, <1>2, <1>3, OwnTable
<1>5. ASSUME NEW k \in 1 .. Len(ctx) - 1 PROVE ctx'[k].redirs = Count(ctx', k - 1)
  <2>1. k - 1 \in 0 .. Len(ctx) - 1
    BY <1>1
  <2> QED BY <2>1, <1>1, <1>2, <1>3 DEF Depths
<1> QED BY <1>2, <1>4, <1>5 DEF Depths, Count

\* While a command runs, no builtin around it catches an error: it would have to
\* be reading the file that was read when it began.
LEMMA NotCaught ==
  ASSUME TypeOK, Shape, Nesting, NEW e,
         \/ pc \in {"run", "located"}
         \/ pc = "failed" /\ Last(ctx).kind = "simple"
  PROVE  \A k \in DOMAIN ctx : ~Catches(k, e)
<1> SUFFICES ASSUME NEW k \in DOMAIN ctx, ctx[k].kind \in {"eval", "dot"}
             PROVE  Len(parsefile) # ctx[k].files
  BY DEF Catches
<1>1. /\ Len(ctx) \in Nat /\ k \in 1 .. Len(ctx) /\ DOMAIN ctx = 1 .. Len(ctx) /\ ctx # <<>>
      /\ \A i \in 1 .. Len(ctx) : ctx[i].files \in Nat
      /\ Last(ctx) = ctx[Len(ctx)]
  BY CtxType
<1>2. Width(ctx[k]) = 1 /\ Width(ctx[Len(ctx)]) \in {0, 1}
  BY DEF Width
<1>3. CASE k < Len(ctx)
  <2>1. ctx[k].files + 1 <= ctx[Len(ctx)].files
    BY <1>1, <1>2, <1>3 DEF Nesting
  <2>2. Len(parsefile) >= ctx[Len(ctx)].files
    BY <1>1, <1>2 DEF Nesting
  <2> QED BY <1>1, <2>1, <2>2
<1>4. CASE k = Len(ctx)
  <2>1. pc = "run"
    BY <1>1, <1>4 DEF Shape
  <2> QED BY <1>1, <1>2, <1>4, <2>1 DEF Nesting
<1> QED BY <1>1, <1>3, <1>4

\* So every exception goes to main, and files are closed on its way.
LEMMA Raised ==
  ASSUME TypeOK, Shape, Nesting, NEW e, exraise(e),
         \/ pc \in {"run", "located"}
         \/ pc = "failed" /\ Last(ctx).kind = "simple"
  PROVE  /\ ctx' = <<>> /\ UNCHANGED entry /\ pc' \in {"leave", "unwind"}
         /\ fdtab' = Without(Files_of(1)) /\ parsefile' = <<parsefile[1]>>
         /\ fdtab' \in [Fds -> Values]
<1>1. {k \in DOMAIN ctx : Catches(k, e)} = {}
  BY NotCaught
<1>2. /\ ctx' = <<>> /\ UNCHANGED entry /\ pc' \in {"leave", "unwind"}
      /\ fdtab' = Without(Files_of(1)) /\ parsefile' = <<parsefile[1]>>
  BY <1>1 DEF exraise
<1> QED BY <1>2, WithoutType DEF TypeOK

\* The last frame becomes what the command turns out to be.
LEMMA BecomeFrame ==
  ASSUME TypeOK, ctx # <<>>, NEW kind \in Kinds, NEW special \in BOOLEAN, NEW exec \in BOOLEAN,
         Become(kind, special, exec)
  PROVE  /\ ctx' \in Seq(Frame) /\ Len(ctx') = Len(ctx) /\ ctx' # <<>> /\ DOMAIN ctx' = DOMAIN ctx
         /\ Last(ctx') = [Last(ctx) EXCEPT !.kind = kind, !.special = special, !.exec = exec]
         /\ \A k \in 1 .. Len(ctx) - 1 : ctx'[k] = ctx[k]
<1>1. ctx \in Seq(Frame) /\ Last(ctx) \in Frame /\ Len(ctx) \in Nat \ {0}
  BY FrontType DEF TypeOK
<1> DEFINE f == [Last(ctx) EXCEPT !.kind = kind, !.special = special, !.exec = exec]
<1>2. f \in Frame
  BY <1>1 DEF Frame
<1>3. ctx' = [ctx EXCEPT ![Len(ctx)] = f]
  BY <1>1 DEF Become, Last
<1> HIDE DEF f
<1>4. /\ ctx' \in Seq(Frame) /\ Len(ctx') = Len(ctx) /\ ctx' # <<>>
      /\ Last(ctx') = f /\ DOMAIN ctx' = DOMAIN ctx
      /\ \A k \in 1 .. Len(ctx) - 1 : ctx'[k] = ctx[k]
  <2>1. ctx' \in Seq(Frame) /\ Len(ctx') = Len(ctx)
    BY <1>1, <1>2, <1>3, LastChanged
  <2>2. DOMAIN ctx' = DOMAIN ctx /\ ctx' # <<>>
    BY <1>1, <1>3, <2>1, LenProperties
  <2>3. ctx'[Len(ctx)] = f /\ \A k \in 1 .. Len(ctx) - 1 : ctx'[k] = ctx[k]
    BY <1>1, <1>3
  <2> QED BY <2>1, <2>2, <2>3 DEF Last
<1> QED BY <1>4 DEF f

\* A command ends.
LEMMA FrameEnds ==
  ASSUME TypeOK, Shape, Nesting, ctx # <<>>, ctx' = Front(ctx), pc' = "run",
         pc \notin {"unwind", "leave"}, entry' = Front(entry),
         UNCHANGED parsefile, Len(parsefile) = Last(ctx).files
  PROVE  ctx' \in Seq(Frame) /\ entry' \in Seq(Found) /\ Shape' /\ Nesting'
<1>1. /\ ctx \in Seq(Frame) /\ Len(ctx) \in Nat \ {0} /\ Last(ctx) = ctx[Len(ctx)]
      /\ \A k \in 1 .. Len(ctx) : ctx[k].files \in Nat
      /\ DOMAIN ctx = 1 .. Len(ctx)
  BY CtxType
<1>2. /\ ctx' \in Seq(Frame) /\ Len(ctx') = Len(ctx) - 1 /\ DOMAIN ctx' = 1 .. Len(ctx) - 1
      /\ \A k \in 1 .. Len(ctx) - 1 : ctx'[k] = ctx[k]
  BY <1>1, FrontType
<1>5. entry' \in Seq(Found) /\ Len(entry') = Len(entry) - 1 /\ Len(entry) = Len(ctx)
  <2>1. entry \in Seq(Found) /\ Len(entry) = Len(ctx)
    BY DEF TypeOK, Shape, Found
  <2>2. entry # <<>>
    BY <2>1, <1>1
  <2> QED BY <2>1, <2>2, FrontType
<1>3. Shape'
  <2>1. \A k \in DOMAIN ctx' : ctx'[k].kind = "compound" => ctx'[k].pushed
    <3> SUFFICES ASSUME NEW k \in DOMAIN ctx', ctx'[k].kind = "compound"
                 PROVE  ctx'[k].pushed
      OBVIOUS
    <3>1. k \in DOMAIN ctx /\ ctx[k].kind = "compound" /\ ctx'[k] = ctx[k]
      BY <1>1, <1>2
    <3> QED BY <3>1 DEF Shape
  <2>2. \A k \in DOMAIN ctx' : ctx'[k].kind # "simple"
    <3> SUFFICES ASSUME NEW k \in DOMAIN ctx' PROVE ctx'[k].kind # "simple"
      OBVIOUS
    <3>1. k \in DOMAIN ctx /\ k < Len(ctx) /\ ctx'[k] = ctx[k]
      BY <1>1, <1>2
    <3> QED BY <3>1 DEF Shape, Active
  <2> QED BY <2>1, <2>2, <1>2, <1>5 DEF Shape
<1>4. Nesting'
  <2>1. ctx' = <<>> <=> Len(ctx) = 1
    BY <1>1, <1>2
  <2>2. ctx' # <<>> => Last(ctx') = ctx[Len(ctx) - 1] /\ Last(ctx') = ctx'[Len(ctx) - 1]
    BY <1>1, <1>2, <2>1, FrontType DEF Last
  <2>3. \A f : Width(f)' = Width(f)
    BY DEF Width
  <2>4. Len(parsefile') = Last(ctx).files
    OBVIOUS
  <2>5. ctx' = <<>> => Len(parsefile') = 1
    BY <1>1, <2>1, <2>4 DEF Nesting
  <2>6. ASSUME ctx' # <<>>
        PROVE  ctx'[1].files = 1 /\ Len(parsefile') = Last(ctx').files + Width(Last(ctx'))
    <3>1. Len(ctx) > 1 /\ ctx'[1] = ctx[1]
      BY <1>1, <1>2, <2>1, <2>6
    <3>2. Len(parsefile') = ctx[Len(ctx) - 1].files + Width(ctx[Len(ctx) - 1])
      BY <1>1, <2>4, <3>1 DEF Nesting
    <3> QED BY <2>2, <2>6, <3>1, <3>2, <1>1 DEF Nesting
  <2>7. \A k \in DOMAIN ctx' : k > 1 => ctx'[k].files = ctx'[k - 1].files + Width(ctx'[k - 1])
    BY <1>1, <1>2 DEF Nesting
  <2>8. \A i, k \in DOMAIN ctx' : i < k => ctx'[i].files + Width(ctx'[i]) <= ctx'[k].files
    <3> SUFFICES ASSUME NEW i \in DOMAIN ctx', NEW k \in DOMAIN ctx', i < k
                 PROVE  ctx'[i].files + Width(ctx'[i]) <= ctx'[k].files
      OBVIOUS
    <3>1. i \in DOMAIN ctx /\ k \in DOMAIN ctx /\ ctx'[i] = ctx[i] /\ ctx'[k] = ctx[k]
      BY <1>1, <1>2
    <3> QED BY <3>1 DEF Nesting
  <2> QED BY <2>5, <2>6, <2>7, <2>8 DEF Nesting
<1> QED BY <1>2, <1>3, <1>4, <1>5

-----------------------------------------------------------------------------
(* The types are kept.                                                     *)

StackInv == TypeOK /\ Shape /\ Nesting /\ Depths

LEMMA StackInit == Init => StackInv
<1> SUFFICES ASSUME Init PROVE StackInv
  OBVIOUS
<1>1. PICK base \in {0} \cup (Internal \cap {NUser}), v \in [User -> Files \cup {"closed"}] :
         /\ parsefile = <<base>>
         /\ fdtab = [fd \in Fds |-> IF fd \in User THEN v[fd]
                                    ELSE IF fd = base THEN "script" ELSE "closed"]
  BY DEF Init
<1>2. fdtab \in [Fds -> Values]
  BY <1>1 DEF Values
<1>3. base \in {-1, 0} \cup Internal /\ base # -1
  BY Descriptors DEF Fds
<1>4. parsefile \in Seq({-1, 0} \cup Internal) /\ Len(parsefile) = 1 /\ parsefile[1] # -1
  BY <1>1, <1>3
<1>5. TypeOK
  BY <1>2, <1>4, RedirAssumption DEF Init, TypeOK, Points
<1>6. Shape
  BY <1>4 DEF Init, Shape
<1>7. Nesting
  BY <1>4 DEF Init, Nesting
<1>8. Depths
  BY CountZero DEF Init, Depths
<1> QED BY <1>5, <1>6, <1>7, <1>8 DEF StackInv

\* A command begins.
LEMMA StackBegin == StackInv /\ Begin => StackInv'
<1> SUFFICES ASSUME StackInv, Begin PROVE StackInv'
  OBVIOUS
<1>1. TypeOK /\ Shape /\ Nesting /\ Depths
  BY DEF StackInv
<1>2. PICK kind \in {"compound", "simple"}, redirects \in BOOLEAN :
         /\ kind = "compound" => redirects
         /\ ctx' = Append(ctx, NewFrame(kind, redirects))
         /\ IF redirects THEN pushredir /\ pc' = "redir"
            ELSE UNCHANGED redirlist /\ pc' = "located"
  BY DEF Begin
<1> DEFINE f == NewFrame(kind, redirects)
<1>3. /\ f \in Frame /\ f.kind = kind /\ f.pushed = redirects /\ f.files = Len(parsefile)
      /\ Width(f) = 0
  BY <1>1 DEF NewFrame, Frame, Kinds, TypeOK, Width
<1> HIDE DEF f
<1>4. /\ ctx \in Seq(Frame) /\ Len(ctx) \in Nat /\ DOMAIN ctx = 1 .. Len(ctx)
      /\ ctx # <<>> <=> Len(ctx) > 0 /\ Last(ctx) = ctx[Len(ctx)]
      /\ \A k \in 1 .. Len(ctx) : ctx[k].files \in Nat
  BY <1>1, CtxType
<1>5. /\ ctx' \in Seq(Frame) /\ Len(ctx') = Len(ctx) + 1 /\ ctx' # <<>> /\ Last(ctx') = f
      /\ DOMAIN ctx' = 1 .. Len(ctx) + 1 /\ ctx'[Len(ctx) + 1] = f
      /\ \A k \in 1 .. Len(ctx) : ctx'[k] = ctx[k]
  <2>1. ctx' = Append(ctx, f)
    BY <1>2 DEF f
  <2> QED BY <2>1, <1>3, <1>4, Pushed
<1>6. redirlist' \in Seq(Table)
  <2>1. Empty \in Table /\ redirlist \in Seq(Table)
    BY <1>1 DEF Empty, Table, TypeOK
  <2> QED BY <2>1, <1>2 DEF pushredir
<1>7. entry' \in Seq(Found) /\ Len(entry') = Len(entry) + 1
  <2>1. View \in [User -> Values] /\ entry \in Seq(Found)
    BY <1>1 DEF View, TypeOK, Found, Fds
  <2>2. [view |-> View, execd |-> {}] \in Found
    BY <2>1 DEF Found
  <2> QED BY <2>1, <2>2 DEF Begin
<1>8. TypeOK'
  BY <1>1, <1>2, <1>5, <1>6, <1>7 DEF TypeOK, Begin, shellVars, Points, Found
<1>9. Shape'
  <2>1. \A k \in DOMAIN ctx' : ctx'[k].kind = "compound" => ctx'[k].pushed
    BY <1>1, <1>2, <1>3, <1>4, <1>5 DEF Shape
  <2>2. \A k \in 1 .. Len(ctx) : ctx'[k].kind # "simple"
    BY <1>1, <1>4, <1>5 DEF Shape, Active, Begin
  <2>3. \A k \in DOMAIN ctx' : Active(k)' => ctx'[k].kind # "simple"
    BY <2>2, <1>2, <1>4, <1>5 DEF Active
  <2>4. pc' = "redir" => redirects
    BY <1>2
  <2>5. pc' = "located" => kind = "simple"
    BY <1>2
  <2> QED BY <2>1, <2>3, <2>4, <2>5, <1>1, <1>2, <1>3, <1>4, <1>5, <1>7 DEF Shape, Begin
<1>10. Nesting'
  <2>1. pc = "run" /\ pc' # "run" /\ UNCHANGED parsefile
    BY <1>2 DEF Begin
  <2>2. \A g : Width(g)' = Width(g)
    BY DEF Width
  <2>3. \A g : Width(g) \in {0, 1}
    BY DEF Width
  <2>4. ctx'[1].files = 1
    <3>1. CASE Len(ctx) = 0
      BY <3>1, <1>1, <1>3, <1>4, <1>5 DEF Nesting
    <3>2. CASE Len(ctx) > 0
      BY <3>2, <1>1, <1>4, <1>5 DEF Nesting
    <3> QED BY <3>1, <3>2, <1>4
  <2>5. \A k \in DOMAIN ctx' : k > 1 => ctx'[k].files = ctx'[k - 1].files + Width(ctx'[k - 1])
    <3> SUFFICES ASSUME NEW k \in DOMAIN ctx', k > 1
                 PROVE  ctx'[k].files = ctx'[k - 1].files + Width(ctx'[k - 1])
      OBVIOUS
    <3>1. CASE k = Len(ctx) + 1
      <4>1. Len(ctx) > 0 /\ ctx'[k] = f /\ ctx'[k - 1] = ctx[Len(ctx)]
        BY <1>4, <1>5, <3>1
      <4> QED BY <2>1, <1>1, <1>3, <1>4, <4>1 DEF Nesting
    <3>2. CASE k # Len(ctx) + 1
      <4>1. k \in DOMAIN ctx /\ ctx'[k] = ctx[k] /\ ctx'[k - 1] = ctx[k - 1]
        BY <1>4, <1>5, <3>2
      <4> QED BY <1>1, <4>1 DEF Nesting
    <3> QED BY <3>1, <3>2
  <2>6. ASSUME NEW i \in 1 .. Len(ctx) PROVE ctx[i].files + Width(ctx[i]) <= f.files
    <3>1. /\ f.files = Last(ctx).files + Width(Last(ctx)) /\ Last(ctx) = ctx[Len(ctx)]
          /\ ctx[i].files \in Nat /\ ctx[Len(ctx)].files \in Nat
      BY <2>1, <1>1, <1>3, <1>4 DEF Nesting
    <3>2. i < Len(ctx) => ctx[i].files + Width(ctx[i]) <= ctx[Len(ctx)].files
      BY <1>1, <1>4 DEF Nesting
    <3> QED BY <3>1, <3>2, <2>3, <1>4
  <2>7. \A i, k \in DOMAIN ctx' : i < k => ctx'[i].files + Width(ctx'[i]) <= ctx'[k].files
    BY <2>6, <1>1, <1>4, <1>5 DEF Nesting
  <2> QED BY <2>1, <2>2, <2>4, <2>5, <2>7, <1>3, <1>5 DEF Nesting
<1>11. Depths'
  <2>1. \A k \in 1 .. Len(ctx) : ctx'[k].pushed = ctx[k].pushed /\ ctx'[k].redirs = ctx[k].redirs
    BY <1>5
  <2>2. f.redirs = Len(redirlist) /\ f.pushed = redirects
    BY <1>3 DEF f, NewFrame
  <2>3. Len(redirlist') = Len(redirlist) + (IF redirects THEN 1 ELSE 0)
    <3>1. redirlist \in Seq(Table) /\ Empty \in Table
      BY <1>1 DEF TypeOK, Empty, Table
    <3> QED BY <3>1, <1>2, Pushed DEF pushredir, TypeOK
  <2>4. Running /\ f = ctx'[Len(ctx) + 1]
    BY <1>5 DEF Begin, Running
  <2>5. /\ ctx'[Len(ctx) + 1].redirs = Len(redirlist)
        /\ Len(redirlist') = Len(redirlist) + (IF ctx'[Len(ctx) + 1].pushed THEN 1 ELSE 0)
    BY <2>2, <2>3, <2>4
  <2> QED BY <1>1, <1>5, <2>1, <2>4, <2>5, DepthsPushed
<1> QED BY <1>8, <1>9, <1>10, <1>11 DEF StackInv

\* An error reaches main.
LEMMA StackRaised ==
  ASSUME StackInv, NEW e, exraise(e), UNCHANGED <<redirlist, shellVars>>,
         \/ pc \in {"run", "located"}
         \/ pc = "failed" /\ Last(ctx).kind = "simple"
  PROVE  StackInv'
<1>1. TypeOK /\ Shape /\ Nesting /\ Depths
  BY DEF StackInv
<1>2. /\ ctx' = <<>> /\ UNCHANGED entry /\ pc' \in {"leave", "unwind"}
      /\ fdtab' \in [Fds -> Values] /\ parsefile' = <<parsefile[1]>>
  BY <1>1, Raised
<1>3. /\ parsefile[1] \in {-1, 0} \cup Internal /\ parsefile[1] # -1
      /\ parsefile' \in Seq({-1, 0} \cup Internal) /\ Len(parsefile') = 1
      /\ parsefile'[1] = parsefile[1]
  <2>1. Len(parsefile) \in Nat \ {0}
    BY <1>1 DEF TypeOK, Shape
  <2>2. parsefile[1] \in {-1, 0} \cup Internal /\ parsefile[1] # -1
    BY <1>1, <2>1 DEF TypeOK, Shape
  <2> QED BY <1>2, <2>2
<1>4. TypeOK'
  BY <1>1, <1>2, <1>3 DEF TypeOK, shellVars, Points
<1>5. Shape' /\ Nesting' /\ Depths'
  BY <1>2, <1>3 DEF Shape, Nesting, Depths, Running
<1> QED BY <1>4, <1>5 DEF StackInv

\* The last command becomes something else, which may put a file on those
\* being read.
LEMMA StackBecome ==
  ASSUME StackInv, ctx # <<>>, pc \in {"located", "failed"}, Last(ctx).kind = "simple",
         NEW kind \in Kinds \ {"compound"}, NEW special \in BOOLEAN, NEW exec \in BOOLEAN,
         Become(kind, special, exec), UNCHANGED <<redirlist, shellVars, entry>>,
         fdtab' \in [Fds -> Values],
         \/ kind = "simple" /\ pc' = "out" /\ UNCHANGED parsefile
         \/ kind = "function" /\ pc' = "run" /\ UNCHANGED parsefile
         \/ /\ kind \in {"eval", "dot"} /\ pc' = "run"
            /\ \E fd \in {-1} \cup Internal : parsefile' = Append(parsefile, fd)
  PROVE  StackInv'
<1>1. TypeOK /\ Shape /\ Nesting /\ Depths
  BY DEF StackInv
<1> DEFINE f == [Last(ctx) EXCEPT !.kind = kind, !.special = special, !.exec = exec]
<1>2. /\ ctx' \in Seq(Frame) /\ Len(ctx') = Len(ctx) /\ ctx' # <<>> /\ DOMAIN ctx' = DOMAIN ctx
      /\ Last(ctx') = f /\ \A k \in 1 .. Len(ctx) - 1 : ctx'[k] = ctx[k]
  BY <1>1, BecomeFrame
<1>3. /\ Len(ctx) \in Nat \ {0} /\ DOMAIN ctx = 1 .. Len(ctx) /\ Last(ctx) = ctx[Len(ctx)]
      /\ \A k \in 1 .. Len(ctx) : ctx[k].files \in Nat /\ ctx[k] \in Frame
      /\ Last(ctx) \in Frame
  BY <1>1, CtxType
<1>4. /\ f.kind = kind /\ f.files = Last(ctx).files /\ f.pushed = Last(ctx).pushed
      /\ f.redirs = Last(ctx).redirs
      /\ f = ctx'[Len(ctx)]
  BY <1>2, <1>3 DEF Frame, Last
<1> HIDE DEF f
<1>5. /\ parsefile' \in Seq({-1, 0} \cup Internal)
      /\ Len(parsefile') = Len(parsefile) + (IF pc' = "run" THEN Width(f) ELSE 0)
      /\ parsefile' # <<>> /\ parsefile'[1] # -1
      /\ \A k \in 2 .. Len(parsefile') : parsefile'[k] # 0
  <2>1. /\ parsefile \in Seq({-1, 0} \cup Internal) /\ Len(parsefile) \in Nat \ {0}
        /\ parsefile[1] # -1 /\ \A k \in 2 .. Len(parsefile) : parsefile[k] # 0
    BY <1>1 DEF TypeOK, Shape
  <2>2. CASE UNCHANGED parsefile
    <3>1. pc' = "run" => Width(f) = 0
      BY <1>4, <2>1, <2>2 DEF Width
    <3> QED BY <2>1, <2>2, <3>1
  <2>3. ASSUME NEW fd \in {-1} \cup Internal, parsefile' = Append(parsefile, fd),
               kind \in {"eval", "dot"}, pc' = "run"
        PROVE  /\ parsefile' \in Seq({-1, 0} \cup Internal)
               /\ Len(parsefile') = Len(parsefile) + (IF pc' = "run" THEN Width(f) ELSE 0)
               /\ parsefile' # <<>> /\ parsefile'[1] # -1
               /\ \A k \in 2 .. Len(parsefile') : parsefile'[k] # 0
    <3>1. Width(f) = 1 /\ fd # 0 /\ fd \in {-1, 0} \cup Internal
      BY <1>4, <2>3, Descriptors DEF Width
    <3>2. /\ parsefile' \in Seq({-1, 0} \cup Internal) /\ Len(parsefile') = Len(parsefile) + 1
          /\ parsefile' # <<>> /\ parsefile'[Len(parsefile) + 1] = fd
          /\ \A k \in 1 .. Len(parsefile) : parsefile'[k] = parsefile[k]
      BY <2>1, <2>3, <3>1, Pushed
    <3> QED BY <2>1, <2>3, <3>1, <3>2
  <2> QED BY <2>2, <2>3
<1>6. TypeOK'
  BY <1>1, <1>2, <1>5 DEF TypeOK, shellVars, Points
<1>7. Shape'
  <2>1. \A k \in DOMAIN ctx' : ctx'[k].kind = "compound" => ctx'[k].pushed
    <3> SUFFICES ASSUME NEW k \in DOMAIN ctx', ctx'[k].kind = "compound" PROVE ctx'[k].pushed
      OBVIOUS
    <3>1. k # Len(ctx)
      BY <1>4
    <3>2. k \in DOMAIN ctx /\ ctx'[k] = ctx[k]
      BY <1>2, <1>3, <3>1
    <3> QED BY <1>1, <3>2 DEF Shape
  <2>2. \A k \in 1 .. Len(ctx) - 1 : ctx'[k].kind # "simple"
    <3> SUFFICES ASSUME NEW k \in 1 .. Len(ctx) - 1 PROVE ctx'[k].kind # "simple"
      OBVIOUS
    <3>1. k \in DOMAIN ctx /\ k < Len(ctx) /\ ctx'[k] = ctx[k]
      BY <1>2, <1>3
    <3> QED BY <1>1, <3>1 DEF Shape, Active
  <2>3. \A k \in DOMAIN ctx' : Active(k)' => ctx'[k].kind # "simple"
    BY <2>2, <1>2, <1>3, <1>4 DEF Active
  <2> QED BY <2>1, <2>3, <1>1, <1>2, <1>4, <1>5 DEF Shape
<1>8. Nesting'
  <2>1. \A g : Width(g)' = Width(g)
    BY DEF Width
  <2>2. \A k \in 1 .. Len(ctx) : ctx'[k].files = ctx[k].files
    BY <1>2, <1>3, <1>4
  <2>3. \A k \in DOMAIN ctx' : k > 1 => ctx'[k].files = ctx'[k - 1].files + Width(ctx'[k - 1])
    BY <1>1, <1>2, <1>3, <2>2 DEF Nesting
  <2>4. \A i, k \in DOMAIN ctx' : i < k => ctx'[i].files + Width(ctx'[i]) <= ctx'[k].files
    <3> SUFFICES ASSUME NEW i \in DOMAIN ctx', NEW k \in DOMAIN ctx', i < k
                 PROVE  ctx'[i].files + Width(ctx'[i]) <= ctx'[k].files
      OBVIOUS
    <3>1. /\ i \in DOMAIN ctx /\ k \in DOMAIN ctx /\ ctx'[i] = ctx[i]
          /\ ctx'[k].files = ctx[k].files
      <4>1. i \in 1 .. Len(ctx) - 1 /\ i \in DOMAIN ctx /\ k \in 1 .. Len(ctx)
        BY <1>2, <1>3
      <4> QED BY <1>2, <1>3, <2>2, <4>1
    <3>2. ctx[i].files + Width(ctx[i]) <= ctx[k].files
      BY <1>1, <3>1 DEF Nesting
    <3> QED BY <3>1, <3>2
  <2>5. Len(parsefile) = Last(ctx).files
    BY <1>1, <1>3 DEF Nesting
  <2> QED BY <1>1, <1>2, <1>3, <1>4, <1>5, <2>1, <2>2, <2>3, <2>4, <2>5 DEF Nesting
<1>9. Depths'
  <2>1. \A k \in 1 .. Len(ctx) : ctx'[k].pushed = ctx[k].pushed /\ ctx'[k].redirs = ctx[k].redirs
    BY <1>2, <1>3, <1>4
  <2> QED BY <2>1, <1>1, <1>2, <1>3, DepthsSame DEF Running
<1> QED BY <1>6, <1>7, <1>8, <1>9 DEF StackInv

\* A compound command ends and its table is popped.
LEMMA StackPopped ==
  ASSUME StackInv, ctx # <<>>, Running, redirlist # <<>>, Len(redirlist) = Last(ctx).redirs + 1,
         Last(ctx).redirs \in Nat, Len(parsefile) = Last(ctx).files,
         Pop(FALSE), ctx' = Front(ctx), entry' = Front(entry), pc' = "run",
         UNCHANGED <<parsefile, shellVars>>
  PROVE  StackInv'
<1>1. TypeOK /\ Shape /\ Nesting /\ Depths
  BY DEF StackInv
<1>2. fdtab' \in [Fds -> Values] /\ redirlist' \in Seq(Table) /\ Len(redirlist') = Len(redirlist) - 1
  BY <1>1, PopType
<1>3. ctx' \in Seq(Frame) /\ entry' \in Seq(Found) /\ Shape' /\ Nesting'
  BY <1>1, FrameEnds DEF Running
<1>4. Depths'
  BY <1>1, <1>2, DepthsPopped
<1>5. TypeOK'
  BY <1>1, <1>2, <1>3 DEF TypeOK, shellVars, Points, Found
<1> QED BY <1>3, <1>4, <1>5 DEF StackInv

\* The actions.
LEMMA StackRedirect == StackInv /\ Redirect => StackInv'
<1> SUFFICES ASSUME StackInv, Redirect PROVE StackInv'
  OBVIOUS
<1>1. TypeOK /\ Shape /\ Nesting /\ Depths
  BY DEF StackInv
<1>2. /\ pc = "redir" /\ UNCHANGED <<parsefile, shellVars, ctx, entry>>
      /\ Last(ctx).kind \in {"compound", "simple"} /\ Last(ctx).pushed /\ ctx # <<>>
  BY <1>1 DEF Redirect, Shape
<1>3. redirlist # <<>>
  BY <1>1, <1>2, OwnTable DEF Running
<1>4. /\ fdtab' \in [Fds -> Values] /\ redirlist' \in Seq(Table) /\ Len(redirlist') = Len(redirlist)
      /\ pc' \in {"redir", "failed"} \/ pc' = (IF Last(ctx).kind = "compound" THEN "run" ELSE "located")
  BY <1>1, <1>2, <1>3, RedirStepType, RedirFailsType DEF Redirect, TypeOK
<1>5. TypeOK'
  BY <1>1, <1>2, <1>4 DEF TypeOK, shellVars, Points
<1>6. ctx[Len(ctx)] = Last(ctx) /\ Len(ctx) \in Nat \ {0} /\ DOMAIN ctx = 1 .. Len(ctx)
  BY <1>1, <1>2, CtxType
<1>7. Shape'
  <2>1. \A k \in DOMAIN ctx : Active(k)' => ctx[k].kind # "simple"
    BY <1>1, <1>2, <1>4, <1>6 DEF Shape, Active
  <2> QED BY <2>1, <1>1, <1>2, <1>4, <1>6 DEF Shape
<1>8. Nesting'
  BY <1>1, <1>2, <1>4 DEF Nesting, Width
<1>9. Depths'
  BY <1>1, <1>2, <1>4, DepthsSame DEF Running, TypeOK
<1> QED BY <1>5, <1>7, <1>8, <1>9 DEF StackInv

LEMMA StackFailed == StackInv /\ Failed => StackInv'
<1> SUFFICES ASSUME StackInv, Failed PROVE StackInv'
  OBVIOUS
<1>1. TypeOK /\ Shape /\ Nesting /\ Depths
  BY DEF StackInv
<1>2. /\ pc = "failed" /\ Last(ctx).kind \in {"compound", "simple"} /\ Last(ctx).pushed
      /\ ctx # <<>> /\ UNCHANGED shellVars
  BY <1>1 DEF Failed, Shape
<1>3. redirlist # <<>> /\ Len(redirlist) = Last(ctx).redirs + 1 /\ Last(ctx).redirs \in Nat
  BY <1>1, <1>2, OwnTable, CtxType DEF Running
<1>4. CASE Last(ctx).kind = "compound"
  <2>1. /\ Pop(FALSE) /\ ctx' = Front(ctx) /\ entry' = Front(entry) /\ pc' = "run"
        /\ UNCHANGED parsefile /\ Running
    BY <1>2, <1>4 DEF Failed, Running
  <2>2. Len(parsefile) = Last(ctx).files
    BY <1>1, <1>2, CtxType DEF Nesting
  <2> QED BY <1>2, <1>3, <2>1, <2>2, StackPopped
<1>5. CASE Last(ctx).kind = "simple" /\ exraise("EXERROR") /\ UNCHANGED redirlist
  BY <1>2, <1>5, StackRaised
<1>6. CASE /\ Last(ctx).kind = "simple" /\ pc' = "out"
           /\ \E exec \in BOOLEAN : Become("simple", FALSE, exec)
           /\ UNCHANGED <<fdtab, redirlist, parsefile, entry>>
  <2>1. fdtab' \in [Fds -> Values] /\ "simple" \in Kinds \ {"compound"}
    BY <1>1, <1>6 DEF TypeOK, Kinds
  <2> QED BY <1>2, <1>6, <2>1, StackBecome
<1> QED BY <1>2, <1>4, <1>5, <1>6 DEF Failed

LEMMA StackLeaf == StackInv /\ (Leaf \/ LeafFails) => StackInv'
<1> SUFFICES ASSUME StackInv, Leaf \/ LeafFails PROVE StackInv'
  OBVIOUS
<1>1. /\ pc = "located" /\ Last(ctx).kind = "simple" /\ ctx # <<>>
      /\ "simple" \in Kinds \ {"compound"} /\ fdtab \in [Fds -> Values]
  BY DEF Leaf, LeafFails, StackInv, Shape, Kinds, TypeOK
<1>2. CASE /\ pc' = "out" /\ \E exec \in BOOLEAN : Become("simple", FALSE, exec)
           /\ UNCHANGED <<fdtab, redirlist, parsefile, shellVars, entry>>
  BY <1>1, <1>2, StackBecome
<1>3. ASSUME exraise("EXERROR"), UNCHANGED <<redirlist, shellVars>>
      PROVE  StackInv'
  BY <1>1, <1>3, StackRaised
<1> QED BY <1>2, <1>3 DEF Leaf, LeafFails

LEMMA StackEnter == StackInv /\ Enter => StackInv'
<1> SUFFICES ASSUME StackInv, Enter PROVE StackInv'
  OBVIOUS
<1>1. /\ pc = "located" /\ Last(ctx).kind = "simple" /\ ctx # <<>> /\ pc' = "run"
      /\ {"function", "eval", "dot"} \subseteq Kinds \ {"compound"}
      /\ fdtab \in [Fds -> Values] /\ "script" \in Values
      /\ UNCHANGED <<redirlist, shellVars, entry>>
  BY DEF Enter, StackInv, Shape, Kinds, TypeOK, Values
<1>2. CASE Become("function", FALSE, FALSE) /\ UNCHANGED <<fdtab, parsefile>>
  BY <1>1, <1>2, StackBecome
<1>3. ASSUME NEW special \in BOOLEAN, Become("eval", special, FALSE),
             parsefile' = Append(parsefile, -1), UNCHANGED fdtab
      PROVE  StackInv'
  BY <1>1, <1>3, StackBecome
<1>4. ASSUME NEW special \in BOOLEAN, Become("dot", special, FALSE), ForInput(fdtab) # {},
             parsefile' = Append(parsefile, Lowest(ForInput(fdtab))),
             fdtab' = [fdtab EXCEPT ![Lowest(ForInput(fdtab))] = "script"]
      PROVE  StackInv'
  <2>1. Lowest(ForInput(fdtab)) \in Internal
    BY <1>4, LowestFree, Descriptors DEF ForInput
  <2>2. fdtab' \in [Fds -> Values]
    BY <1>1, <1>4
  <2> QED BY <1>1, <1>4, <2>1, <2>2, StackBecome
<1> QED BY <1>2, <1>3, <1>4 DEF Enter

LEMMA StackEndBody == StackInv /\ EndBody => StackInv'
<1> SUFFICES ASSUME StackInv, EndBody PROVE StackInv'
  OBVIOUS
<1>1. TypeOK /\ Shape /\ Nesting /\ Depths
  BY DEF StackInv
<1>2. /\ pc = "run" /\ ctx # <<>> /\ UNCHANGED shellVars
      /\ Len(ctx) \in Nat \ {0} /\ DOMAIN ctx = 1 .. Len(ctx) /\ Last(ctx) = ctx[Len(ctx)]
      /\ Last(ctx).files \in Nat /\ Last(ctx).redirs \in Nat /\ Last(ctx).kind \in Kinds
      /\ Len(parsefile) = Last(ctx).files + Width(Last(ctx))
  BY <1>1, CtxType DEF EndBody, Nesting
<1>3. CASE Last(ctx).kind = "compound"
  <2>1. /\ Pop(FALSE) /\ ctx' = Front(ctx) /\ entry' = Front(entry) /\ pc' = "run"
        /\ UNCHANGED parsefile /\ Running
    BY <1>2, <1>3 DEF EndBody, Running
  <2>2. Last(ctx).pushed /\ Len(parsefile) = Last(ctx).files
    BY <1>1, <1>2, <1>3 DEF Shape, Width
  <2>3. redirlist # <<>> /\ Len(redirlist) = Last(ctx).redirs + 1
    BY <1>1, <1>2, <2>2, OwnTable DEF Running
  <2> QED BY <1>1, <1>2, <2>1, <2>2, <2>3, StackPopped
<1>4. CASE Last(ctx).kind # "compound"
  <2>1. pc' = "out" /\ UNCHANGED <<redirlist, ctx, entry>>
    BY <1>4 DEF EndBody
  <2>2. /\ fdtab' \in [Fds -> Values] /\ parsefile' \in Seq({-1, 0} \cup Internal)
        /\ Len(parsefile') = Last(ctx).files /\ parsefile' # <<>> /\ parsefile'[1] = parsefile[1]
        /\ \A k \in 2 .. Len(parsefile') : parsefile'[k] # 0
    <3>1. /\ parsefile \in Seq({-1, 0} \cup Internal) /\ Len(parsefile) \in Nat \ {0}
          /\ parsefile # <<>> /\ fdtab \in [Fds -> Values]
          /\ \A k \in 2 .. Len(parsefile) : parsefile[k] # 0
      BY <1>1 DEF TypeOK, Shape
    <3>2. CASE Last(ctx).kind = "function"
      <4>1. UNCHANGED <<fdtab, parsefile>> /\ Width(Last(ctx)) = 0
        BY <1>4, <3>2 DEF EndBody, Width
      <4>2. Len(parsefile') = Last(ctx).files
        BY <4>1, <1>2
      <4> QED BY <3>1, <4>1, <4>2
    <3>3. CASE Last(ctx).kind # "function"
      <4>1. Last(ctx).kind # "simple"
        BY <1>1, <1>2 DEF Shape, Active
      <4>2. Width(Last(ctx)) = 1
        BY <1>2, <1>4, <3>3, <4>1 DEF Width, Kinds
      <4>3. fdtab' = Without({Last(parsefile)}) /\ parsefile' = Front(parsefile)
        BY <1>4, <3>3 DEF EndBody
      <4>4. Last(ctx).files >= 1
        BY <1>1, <1>2 DEF Nesting, Width
      <4>5. /\ parsefile' \in Seq({-1, 0} \cup Internal) /\ Len(parsefile') = Len(parsefile) - 1
            /\ \A k \in 1 .. Len(parsefile) - 1 : parsefile'[k] = parsefile[k]
        BY <3>1, <4>3, FrontType
      <4>6. fdtab' \in [Fds -> Values]
        BY <3>1, <4>3, WithoutType
      <4>7. Len(parsefile') = Last(ctx).files
        BY <1>2, <3>1, <4>2, <4>5
      <4>8. parsefile' # <<>> /\ parsefile'[1] = parsefile[1]
        BY <1>2, <3>1, <4>4, <4>5, <4>7, EmptySeq
      <4>9. \A k \in 2 .. Len(parsefile') : parsefile'[k] # 0
        BY <3>1, <4>5
      <4> QED BY <4>5, <4>6, <4>7, <4>8, <4>9
    <3> QED BY <3>2, <3>3
  <2>3. TypeOK'
    BY <1>1, <1>2, <2>1, <2>2 DEF TypeOK, shellVars, Points
  <2>4. Shape'
    <3>1. \A k \in DOMAIN ctx : Active(k)' => Active(k)
      BY <1>2, <2>1 DEF Active
    <3> QED BY <1>1, <1>2, <1>4, <2>1, <2>2, <3>1 DEF Shape
  <2>5. Nesting'
    BY <1>1, <1>2, <2>1, <2>2 DEF Nesting, Width
  <2>6. Depths'
    BY <1>1, <1>2, <2>1, <2>3, DepthsSame DEF Running, TypeOK
  <2> QED BY <2>3, <2>4, <2>5, <2>6 DEF StackInv
<1> QED BY <1>3, <1>4

LEMMA StackOut == StackInv /\ Out => StackInv'
<1> SUFFICES ASSUME StackInv, Out PROVE StackInv'
  OBVIOUS
<1>1. TypeOK /\ Shape /\ Nesting /\ Depths
  BY DEF StackInv
<1>2. /\ pc = "out" /\ ctx # <<>> /\ UNCHANGED shellVars
      /\ ctx \in Seq(Frame) /\ Len(ctx) \in Nat \ {0} /\ DOMAIN ctx = 1 .. Len(ctx)
      /\ Last(ctx) = ctx[Len(ctx)] /\ Last(ctx) \in Frame /\ Len(parsefile) = Last(ctx).files
      /\ Last(ctx).files \in Nat /\ Last(ctx).redirs \in Nat
      /\ Last(ctx).pushed \in BOOLEAN /\ Last(ctx).exec \in BOOLEAN
      /\ parsefile \in Seq({-1, 0} \cup Internal)
      /\ Len(redirlist) = Last(ctx).redirs + (IF Last(ctx).pushed THEN 1 ELSE 0)
  <2>1. pc = "out" /\ UNCHANGED shellVars
    BY DEF Out
  <2>2. ctx # <<>>
    BY <1>1, <2>1 DEF Shape
  <2>3. Len(redirlist) = Last(ctx).redirs + (IF Last(ctx).pushed THEN 1 ELSE 0)
    BY <1>1, <2>1, <2>2, OwnTable DEF Running
  <2> QED BY <1>1, <2>1, <2>2, <2>3, CtxType DEF Nesting, TypeOK
<1>3. CASE Len(redirlist) > Last(ctx).redirs
  <2> DEFINE drop == Last(ctx).pushed /\ Last(ctx).exec
             f == [Last(ctx) EXCEPT !.pushed = FALSE]
             kept == {fd \in User : Last(redirlist)[fd] # EMPTY}
  <2>1. /\ Pop(drop) /\ ctx' = [ctx EXCEPT ![Len(ctx)].pushed = FALSE]
        /\ entry' = IF ~drop THEN entry
                    ELSE [k \in DOMAIN entry |-> [entry[k] EXCEPT !.execd = @ \cup kept]]
        /\ UNCHANGED <<parsefile, pc>>
    BY <1>3 DEF Out
  <2>2. Last(ctx).pushed /\ redirlist # <<>> /\ drop \in BOOLEAN
    BY <1>1, <1>2, <1>3, OwnTable DEF Running
  <2>3. /\ fdtab' \in [Fds -> Values] /\ redirlist' \in Seq(Table)
        /\ Len(redirlist') = Len(redirlist) - 1
    <3> HIDE DEF drop
    <3> QED BY <1>1, <2>1, <2>2, PopType
  <2>4. f \in Frame /\ ctx' = [ctx EXCEPT ![Len(ctx)] = f] /\ f.kind = Last(ctx).kind
        /\ f.pushed = FALSE /\ f.redirs = Last(ctx).redirs /\ f.files = Last(ctx).files
    BY <1>2, <2>1 DEF Frame
  <2> HIDE DEF f, drop, kept
  <2>5. /\ ctx' \in Seq(Frame) /\ Len(ctx') = Len(ctx) /\ ctx' # <<>> /\ Last(ctx') = f
        /\ ctx'[Len(ctx)] = f /\ DOMAIN ctx' = 1 .. Len(ctx)
        /\ \A k \in 1 .. Len(ctx) - 1 : ctx'[k] = ctx[k]
    <3>1. ctx' \in Seq(Frame) /\ Len(ctx') = Len(ctx)
      BY <1>2, <2>4, LastChanged
    <3>2. ctx'[Len(ctx)] = f
      BY <1>2, <2>4
    <3>3. \A k \in 1 .. Len(ctx) - 1 : ctx'[k] = ctx[k]
      <4>1. ctx' = [ctx EXCEPT ![Len(ctx)] = f]
        BY <2>4
      <4>2. ASSUME NEW k \in 1 .. Len(ctx) - 1 PROVE ctx'[k] = ctx[k]
        <5>1. Len(ctx) \in Nat
          BY <1>2
        <5>2. k \in 1 .. Len(ctx)
          BY <5>1
        <5>4. k # Len(ctx)
          BY <5>1
        <5>3. DOMAIN ctx = 1 .. Len(ctx)
          BY <1>2
        <5> QED BY <4>1, <5>2, <5>3, <5>4, Zenon
      <4> QED BY <4>2
    <3> QED BY <1>2, <3>1, <3>2, <3>3, EmptySeq, LenProperties DEF Last
  <2>6. entry' \in Seq(Found) /\ Len(entry') = Len(entry)
    <3>1. entry \in Seq(Found) /\ kept \subseteq User
      BY <1>1 DEF TypeOK, Found, kept
    <3> QED BY <2>1, <3>1, EntryWidened
  <2>7. \A k \in 1 .. Len(ctx) : /\ ctx'[k].kind = ctx[k].kind /\ ctx'[k].files = ctx[k].files
                                /\ ctx'[k].redirs = ctx[k].redirs
    BY <1>2, <2>4, <2>5
  <2>8. TypeOK'
    BY <1>1, <1>2, <2>1, <2>3, <2>5, <2>6 DEF TypeOK, shellVars, Points, Found
  <2>9. Shape'
    <3>1. \A k \in DOMAIN ctx' : ctx'[k].kind = "compound" => ctx'[k].pushed
      BY <1>1, <1>2, <2>4, <2>5 DEF Shape
    <3>2. \A k \in DOMAIN ctx' : Active(k)' => ctx'[k].kind # "simple"
      BY <1>1, <1>2, <2>1, <2>5, <2>7 DEF Shape, Active
    <3> QED BY <1>1, <1>2, <2>1, <2>4, <2>5, <2>6, <3>1, <3>2 DEF Shape
  <2>10. Nesting'
    <3>1. \A k \in 1 .. Len(ctx) : Width(ctx'[k]) = Width(ctx[k])
      BY <2>7 DEF Width
    <3>2. \A i, k \in DOMAIN ctx' : i < k => ctx'[i].files + Width(ctx'[i]) <= ctx'[k].files
      BY <1>1, <1>2, <2>5, <2>7, <3>1 DEF Nesting
    <3>3. \A k \in DOMAIN ctx' : k > 1 => ctx'[k].files = ctx'[k - 1].files + Width(ctx'[k - 1])
      BY <1>1, <1>2, <2>5, <2>7, <3>1 DEF Nesting
    <3>4. \A g : Width(g)' = Width(g)
      BY DEF Width
    <3> QED BY <1>1, <1>2, <2>1, <2>4, <2>5, <2>7, <3>2, <3>3, <3>4 DEF Nesting
  <2>11. Depths'
    <3>1. Len(redirlist') = Last(ctx).redirs
      BY <1>2, <2>2, <2>3
    <3> QED BY <1>1, <1>2, <2>4, <2>5, <3>1, DepthsOwn DEF Running
  <2> QED BY <2>8, <2>9, <2>10, <2>11 DEF StackInv
<1>4. CASE ~(Len(redirlist) > Last(ctx).redirs)
  <2>1. /\ fdtab' = Without(Files_of(Last(ctx).files)) /\ parsefile' = SubSeq(parsefile, 1, Last(ctx).files)
        /\ ctx' = Front(ctx) /\ entry' = Front(entry) /\ pc' = "run" /\ UNCHANGED redirlist
    BY <1>4 DEF Out
  <2>2. UNCHANGED parsefile
    BY <1>2, <2>1
  <2>3. Len(redirlist') = Last(ctx).redirs
    BY <1>2, <1>4, <2>1
  <2>4. fdtab' \in [Fds -> Values]
    BY <1>1, <2>1, WithoutType DEF TypeOK
  <2>5. ctx' \in Seq(Frame) /\ entry' \in Seq(Found) /\ Shape' /\ Nesting'
    BY <1>1, <1>2, <2>1, <2>2, FrameEnds
  <2>6. Depths'
    BY <1>1, <1>2, <2>1, <2>3, DepthsPopped DEF Running
  <2>7. TypeOK'
    BY <1>1, <1>2, <2>1, <2>2, <2>4, <2>5 DEF TypeOK, shellVars, Points, Found
  <2> QED BY <2>5, <2>6, <2>7 DEF StackInv
<1> QED BY <1>3, <1>4

\* Where the stack is empty only the tables and the descriptors change.
LEMMA StackEmpty ==
  ASSUME StackInv, ctx = <<>>, ctx' = <<>>, UNCHANGED <<ttyfd, parsefile, iflag, level>>,
         fdtab' \in [Fds -> Values], redirlist' \in Seq(Table), pc' \in Points,
         pc' \notin {"redir", "failed", "located", "out"},
         Running' => redirlist' = <<>>,
         \/ entry' = <<>>
         \/ UNCHANGED entry /\ (pc \in {"unwind", "leave"} => pc' \in {"unwind", "leave"})
  PROVE  StackInv'
<1>1. TypeOK /\ Shape /\ Nesting /\ Depths
  BY DEF StackInv
<1>2. TypeOK'
  <2>1. ctx' \in Seq(Frame) /\ entry' \in Seq(Found)
    BY <1>1, EmptySeq DEF TypeOK, Found
  <2>2. /\ parsefile' \in Seq({-1, 0} \cup Internal) /\ ttyfd' \in {-1} \cup Internal
        /\ iflag' \in BOOLEAN /\ level' \in 0 .. MaxLevel
    BY <1>1 DEF TypeOK
  <2> QED BY <2>1, <2>2 DEF TypeOK, Found
<1>3. Shape' /\ Nesting'
  BY <1>1 DEF Shape, Nesting
<1>4. Depths'
  BY CountZero DEF Depths
<1> QED BY <1>2, <1>3, <1>4 DEF StackInv

LEMMA StackUnwind == StackInv /\ Unwind => StackInv'
<1> SUFFICES ASSUME StackInv, Unwind PROVE StackInv'
  OBVIOUS
<1>1. /\ ctx = <<>> /\ ctx' = <<>> /\ pc \in {"unwind", "leave"} /\ TypeOK
      /\ UNCHANGED <<ttyfd, parsefile, iflag, level>>
  BY DEF Unwind, StackInv, Shape, shellVars
<1>2. CASE redirlist # <<>>
  <2>1. Pop(FALSE) /\ UNCHANGED <<entry, pc>>
    BY <1>2 DEF Unwind
  <2>2. fdtab' \in [Fds -> Values] /\ redirlist' \in Seq(Table)
    BY <1>1, <1>2, <2>1, PopType
  <2>3. ~Running' /\ pc' \in {"unwind", "leave"}
    BY <1>1, <2>1 DEF Running
  <2> QED BY <1>1, <2>1, <2>2, <2>3, StackEmpty DEF Points
<1>3. CASE redirlist = <<>>
  <2>1. pc' \in {"run", "exit"} /\ entry' = <<>> /\ UNCHANGED <<fdtab, redirlist>>
    BY <1>3 DEF Unwind
  <2>2. fdtab' \in [Fds -> Values] /\ redirlist' \in Seq(Table)
    BY <1>1, <2>1 DEF TypeOK
  <2> QED BY <1>1, <1>3, <2>1, <2>2, StackEmpty DEF Points
<1> QED BY <1>2, <1>3

LEMMA StackDrop == StackInv /\ Drop => StackInv'
<1> SUFFICES ASSUME StackInv, Drop PROVE StackInv'
  OBVIOUS
<1>1. /\ ctx = <<>> /\ ctx' = <<>> /\ pc = "drop" /\ TypeOK
      /\ UNCHANGED <<ttyfd, parsefile, iflag, level, entry>>
  BY DEF Drop, StackInv, Shape, shellVars
<1>2. CASE redirlist # <<>>
  <2>1. Pop(Dropped) /\ UNCHANGED pc /\ Dropped \in BOOLEAN
    BY <1>2 DEF Drop, Dropped
  <2>2. fdtab' \in [Fds -> Values] /\ redirlist' \in Seq(Table)
    BY <1>1, <1>2, <2>1, PopType
  <2>3. ~Running' /\ pc' = "drop"
    BY <1>1, <2>1 DEF Running
  <2> QED BY <1>1, <2>2, <2>3, StackEmpty DEF Points
<1>3. CASE redirlist = <<>>
  <2>1. pc' = "child" /\ UNCHANGED <<fdtab, redirlist>>
    BY <1>3 DEF Drop
  <2>2. fdtab' \in [Fds -> Values] /\ redirlist' \in Seq(Table)
    BY <1>1, <2>1 DEF TypeOK
  <2> QED BY <1>1, <1>3, <2>1, <2>2, StackEmpty DEF Points
<1> QED BY <1>2, <1>3

LEMMA StackChildRedirect == StackInv /\ ChildRedirect => StackInv'
<1> SUFFICES ASSUME StackInv, ChildRedirect PROVE StackInv'
  OBVIOUS
<1>1. /\ ctx = <<>> /\ ctx' = <<>> /\ pc = "child" /\ TypeOK
      /\ UNCHANGED <<ttyfd, parsefile, iflag, level, entry>>
  BY DEF ChildRedirect, StackInv, Shape, shellVars
<1>2. redirlist = <<>>
  <2>1. Len(redirlist) = 0
    BY <1>1, CountZero DEF StackInv, Depths, Running
  <2> QED BY <1>1, <2>1, EmptySeq DEF TypeOK
<1>3. /\ fdtab' \in [Fds -> Values] /\ UNCHANGED redirlist
      /\ pc' \in {"child", "run", "leave"}
  BY <1>1, RedirStepType DEF ChildRedirect, TypeOK
<1>4. redirlist' \in Seq(Table)
  BY <1>1, <1>3 DEF TypeOK
<1> QED BY <1>1, <1>2, <1>3, <1>4, StackEmpty DEF Points

LEMMA StackSubshell == StackInv /\ Subshell => StackInv'
<1> SUFFICES ASSUME StackInv, Subshell PROVE StackInv'
  OBVIOUS
<1>1. TypeOK
  BY DEF StackInv
<1>2. fdtab' \in [Fds -> Values]
  <2> DEFINE t == Without(Files_of(0) \ {0, -1})
  <2>1. t \in [Fds -> Values]
    BY <1>1, WithoutType DEF TypeOK
  <2>2. fdtab' = t \/ fdtab' = [t EXCEPT ![0] = "null"]
    BY DEF Subshell
  <2> HIDE DEF t
  <2> QED BY <2>1, <2>2 DEF Values
<1>3. TypeOK'
  <2>1. level' \in 0 .. MaxLevel
    BY <1>1, RedirAssumption DEF TypeOK, Subshell
  <2>2. parsefile' \in Seq({-1, 0} \cup Internal)
    BY DEF Subshell
  <2>3. /\ ctx' \in Seq(Frame) /\ entry' \in Seq(Found) /\ pc' \in Points
        /\ iflag' \in BOOLEAN /\ UNCHANGED <<redirlist, ttyfd>>
    BY EmptySeq DEF Subshell, Points
  <2> QED BY <1>1, <1>2, <2>1, <2>2, <2>3 DEF TypeOK, Found
<1>4. Shape' /\ Nesting'
  BY DEF Subshell, Shape, Nesting
<1>5. Depths'
  BY DEF Subshell, Depths, Running
<1> QED BY <1>3, <1>4, <1>5 DEF StackInv

LEMMA StackRaise == StackInv /\ Raise => StackInv'
BY StackRaised DEF Raise

LEMMA StackTty == StackInv /\ gettty => StackInv'
<1> SUFFICES ASSUME StackInv, gettty PROVE StackInv'
  OBVIOUS
<1>1. /\ TypeOK /\ Shape /\ Nesting /\ Depths /\ pc = "run"
      /\ UNCHANGED <<redirlist, iflag, level>>
  BY DEF StackInv, gettty
<1>2. CASE ForTty(fdtab) # {}
  <2>1. /\ ttyfd' = Lowest(ForTty(fdtab)) /\ UNCHANGED <<parsefile, ctx, entry, pc>>
        /\ fdtab' = [fdtab EXCEPT ![Lowest(ForTty(fdtab))] = "tty"]
    BY <1>2 DEF gettty
  <2>2. ttyfd' \in Internal
    <3>1. ForTty(fdtab) \in SUBSET Nat /\ ForTty(fdtab) \subseteq Internal
      BY Descriptors DEF ForTty, FreeIn
    <3> QED BY <1>2, <2>1, <3>1, LowestIn
  <2>3. fdtab' \in [Fds -> Values]
    BY <1>1, <2>1 DEF TypeOK, Values
  <2>4. TypeOK'
    BY <1>1, <2>1, <2>2, <2>3 DEF TypeOK
  <2>5. Shape' /\ Nesting'
    BY <1>1, <2>1 DEF Shape, Nesting, Active
  <2>6. Depths'
    BY <1>1, <2>1 DEF Depths, Running, Count
  <2> QED BY <2>4, <2>5, <2>6 DEF StackInv
<1>3. CASE ForTty(fdtab) = {}
  <2>1. exraise("EXERROR") /\ UNCHANGED ttyfd
    BY <1>3 DEF gettty
  <2> QED BY <1>1, <2>1, StackRaised DEF shellVars
<1> QED BY <1>2, <1>3

LEMMA StackNext == StackInv /\ [Next]_vars => StackInv'
<1>1. StackInv /\ UNCHANGED vars => StackInv'
  <2> SUFFICES ASSUME StackInv, UNCHANGED vars PROVE StackInv'
    OBVIOUS
  <2>1. TypeOK /\ Shape /\ Nesting /\ Depths
    BY DEF StackInv
  <2>2. UNCHANGED <<fdtab, redirlist, parsefile, ttyfd, iflag, level, ctx, entry, pc>>
    BY DEF vars
  <2>3. TypeOK'
    BY <2>1, <2>2 DEF TypeOK
  <2>4. Shape' /\ Nesting'
    BY <2>1, <2>2 DEF Shape, Nesting, Active
  <2>5. Depths'
    BY <2>1, <2>2 DEF Depths, Running, Count
  <2> QED BY <2>3, <2>4, <2>5 DEF StackInv
<1> QED BY <1>1, StackBegin, StackRedirect, StackFailed, StackLeaf, StackEnter, StackEndBody,
           StackOut, StackRaise, StackUnwind, StackSubshell, StackDrop, StackChildRedirect,
           StackTty DEF Next, Command

LEMMA StackAlways == Spec => []StackInv
BY StackInit, StackNext, PTL DEF Spec

\* Types, whatever the number of descriptors and the nesting.
THEOREM TypesCorrect == Spec => []TypeOK
<1>1. StackInv => TypeOK
  BY DEF StackInv
<1> QED BY <1>1, StackAlways, PTL

\* Each command finds its own table at the depth it noted.
THEOREM TablesMatchCommands == Spec => []Matched
<1>1. StackInv => Matched
  <2> SUFFICES ASSUME StackInv, Running PROVE Matched
    BY DEF Matched
  <2>1. \A n : Count(ctx, n) = Cardinality({k \in 1 .. n : ctx[k].pushed})
    BY DEF Count
  <2>2. Len(redirlist) = Count(ctx, Len(ctx)) /\ \A k \in DOMAIN ctx : ctx[k].redirs = Count(ctx, k - 1)
    BY DEF StackInv, Depths
  <2>3. Len(entry) = Len(ctx)
    BY DEF StackInv, Shape, Running
  <2> QED BY <2>1, <2>2, <2>3 DEF Matched
<1> QED BY <1>1, StackAlways, PTL

(***************************************************************************)
(* Every descriptor of the shell's own that is open has exactly one        *)
(* holder, whichever way commands end.                                     *)
(***************************************************************************)

\* The three kinds of holder, of a descriptor of the shell's own: a table, a
\* file being read, and the terminal.
InTable(fd) == \E k \in DOMAIN redirlist, u \in User : redirlist[k][u] = fd
InFiles(fd) == \E k \in DOMAIN parsefile : parsefile[k] = fd

OwnedFd(fd) ==
  /\ fdtab[fd] # "closed" <=> InTable(fd) \/ InFiles(fd) \/ ttyfd = fd
  /\ Held(fd)
  /\ ~(InTable(fd) /\ InFiles(fd))
  /\ ttyfd = fd => ~InTable(fd) /\ ~InFiles(fd)
OwnInv == \A fd \in Internal : OwnedFd(fd)

LEMMA OwnedIsInv ==
  ASSUME TypeOK
  PROVE  Owned <=> OwnInv
<1>1. \A fd : InTable(fd) <=> fd \in SavedFds
  BY DEF InTable, SavedFds
<1>2. \A fd : InFiles(fd) <=> fd \in InputFds
  BY DEF InFiles, InputFds
<1>3. ttyfd \in {-1} \cup Internal /\ -1 \notin Internal /\ SavedFds \subseteq {EMPTY, CLOSED} \cup Internal
  <2>1. \A k \in DOMAIN redirlist, u \in User : redirlist[k][u] \in {EMPTY, CLOSED} \cup Internal
    BY ElementOfSeq, LenProperties DEF TypeOK, Table
  <2>2. ttyfd \in {-1} \cup Internal /\ -1 \notin Internal
    BY Descriptors DEF TypeOK, Fds
  <2> QED BY <2>1, <2>2 DEF SavedFds
<1>4. EMPTY \notin Internal /\ CLOSED \notin Internal
  BY Descriptors
<1>5. Owned => OwnInv
  <2> SUFFICES ASSUME Owned, NEW fd \in Internal PROVE OwnedFd(fd)
    BY DEF OwnInv
  <2> QED BY <1>1, <1>2, <1>3, <1>4 DEF Owned, OwnedFd
<1>6. OwnInv => Owned
  <2> SUFFICES ASSUME OwnInv PROVE Owned
    OBVIOUS
  <2>1. \A fd \in Internal : OwnedFd(fd)
    BY DEF OwnInv
  <2>2. \A fd \in Internal : /\ fdtab[fd] # "closed" <=> fd \in SavedFds \cup InputFds \cup {ttyfd}
                             /\ Held(fd)
    BY <2>1, <1>1, <1>2 DEF OwnedFd
  <2>3. SavedFds \cap InputFds \subseteq {EMPTY, CLOSED}
    BY <2>1, <1>1, <1>2, <1>3 DEF OwnedFd
  <2>4. ttyfd # -1 => ttyfd \notin SavedFds \cup InputFds
    BY <2>1, <1>1, <1>2, <1>3 DEF OwnedFd
  <2> QED BY <2>2, <2>3, <2>4 DEF Owned
<1> QED BY <1>5, <1>6

\* What the tables hold.
LEMMA TableType ==
  ASSUME TypeOK
  PROVE  /\ redirlist \in Seq(Table) /\ Len(redirlist) \in Nat /\ DOMAIN redirlist = 1 .. Len(redirlist)
         /\ redirlist # <<>> => Last(redirlist) = redirlist[Len(redirlist)] /\ Len(redirlist) >= 1
         /\ \A k \in DOMAIN redirlist, u \in User : redirlist[k][u] \in {EMPTY, CLOSED} \cup Internal
<1>1. redirlist \in Seq(Table)
  BY DEF TypeOK
<1>2. Len(redirlist) \in Nat /\ DOMAIN redirlist = 1 .. Len(redirlist)
  BY <1>1, LenProperties
<1>3. \A k \in 1 .. Len(redirlist) : redirlist[k] \in Table
  BY <1>1, ElementOfSeq
<1>4. redirlist # <<>> => Len(redirlist) >= 1
  BY <1>1, <1>2, EmptySeq
<1> QED BY <1>1, <1>2, <1>3, <1>4 DEF Last, Table

-----------------------------------------------------------------------------
(* What operations do to the holders.                                      *)

\* A table is popped: what it holds is closed.
LEMMA OwnPop ==
  ASSUME TypeOK, OwnInv, redirlist # <<>>, NEW drop \in BOOLEAN, Pop(drop),
         UNCHANGED <<parsefile, ttyfd>>
  PROVE  OwnInv'
<1>1. /\ redirlist' \in Seq(Table) /\ Len(redirlist') = Len(redirlist) - 1
      /\ \A k \in 1 .. Len(redirlist) - 1 : redirlist'[k] = redirlist[k]
      /\ Len(redirlist) \in Nat \ {0}
      /\ \A fd \in Internal : fdtab'[fd] =
           IF \E u \in User : Last(redirlist)[u] = fd THEN "closed" ELSE fdtab[fd]
  BY PopType
<1>2. DOMAIN redirlist = 1 .. Len(redirlist) /\ Last(redirlist) = redirlist[Len(redirlist)]
  BY TableType
<1>3. DOMAIN redirlist' = 1 .. Len(redirlist) - 1
  BY <1>1, LenProperties
<1> SUFFICES ASSUME NEW fd \in Internal PROVE OwnedFd(fd)'
  BY DEF OwnInv
<1>4. OwnedFd(fd)
  BY DEF OwnInv
<1> DEFINE mine == \E u \in User : Last(redirlist)[u] = fd
<1>5. mine => InTable(fd)
  BY <1>1, <1>2 DEF InTable
<1>6. InTable(fd)' <=> InTable(fd) /\ ~mine
  <2>1. InTable(fd)' => InTable(fd)
    BY <1>1, <1>2, <1>3 DEF InTable
  <2>2. InTable(fd)' => ~mine
    <3> SUFFICES ASSUME NEW k \in DOMAIN redirlist', NEW u \in User, redirlist'[k][u] = fd,
                        NEW v \in User, Last(redirlist)[v] = fd
                 PROVE  FALSE
      BY DEF InTable
    <3>1. k \in DOMAIN redirlist /\ k # Len(redirlist) /\ redirlist[k][u] = fd
      BY <1>1, <1>2, <1>3
    <3>2. Len(redirlist) \in DOMAIN redirlist /\ redirlist[Len(redirlist)][v] = fd
      BY <1>1, <1>2
    <3> QED BY <3>1, <3>2, <1>4 DEF OwnedFd, Held
  <2>3. InTable(fd) /\ ~mine => InTable(fd)'
    <3> SUFFICES ASSUME NEW k \in DOMAIN redirlist, NEW u \in User, redirlist[k][u] = fd, ~mine
                 PROVE  InTable(fd)'
      BY DEF InTable
    <3>1. k # Len(redirlist)
      BY <1>2
    <3>2. k \in DOMAIN redirlist' /\ redirlist'[k][u] = fd
      BY <3>1, <1>1, <1>2, <1>3
    <3> QED BY <3>2 DEF InTable
  <2> QED BY <2>1, <2>2, <2>3
<1>7. InFiles(fd)' <=> InFiles(fd)
  BY DEF InFiles
<1>8. Held(fd)'
  <2>1. \A k \in DOMAIN redirlist' : k \in DOMAIN redirlist /\ redirlist'[k] = redirlist[k]
    BY <1>1, <1>2, <1>3
  <2> QED BY <2>1, <1>4 DEF OwnedFd, Held
<1>9. fdtab'[fd] = IF mine THEN "closed" ELSE fdtab[fd]
  BY <1>1
<1> HIDE DEF mine
<1> QED BY <1>4, <1>5, <1>6, <1>7, <1>8, <1>9 DEF OwnedFd

\* A table is pushed: it holds nothing.
LEMMA OwnPush ==
  ASSUME TypeOK, OwnInv, pushredir, UNCHANGED <<fdtab, parsefile, ttyfd>>
  PROVE  OwnInv'
<1>1. Empty \in Table
  BY DEF Empty, Table
<1>2. /\ redirlist' \in Seq(Table) /\ Len(redirlist') = Len(redirlist) + 1 /\ Len(redirlist) \in Nat
      /\ DOMAIN redirlist = 1 .. Len(redirlist) /\ DOMAIN redirlist' = 1 .. Len(redirlist) + 1
      /\ redirlist'[Len(redirlist) + 1] = Empty
      /\ \A k \in 1 .. Len(redirlist) : redirlist'[k] = redirlist[k]
  BY <1>1, TableType, Pushed DEF pushredir
<1>3. \A fd \in Internal, k \in DOMAIN redirlist', u \in User :
         redirlist'[k][u] = fd => k \in DOMAIN redirlist /\ redirlist'[k] = redirlist[k]
  <2> SUFFICES ASSUME NEW fd \in Internal, NEW k \in DOMAIN redirlist', NEW u \in User,
                      redirlist'[k][u] = fd
               PROVE  k \in DOMAIN redirlist /\ redirlist'[k] = redirlist[k]
    OBVIOUS
  <2>1. CASE k \in 1 .. Len(redirlist)
    BY <2>1, <1>2
  <2>2. CASE k = Len(redirlist) + 1
    BY <2>2, <1>2, Descriptors DEF Empty
  <2> QED BY <2>1, <2>2, <1>2
<1>4. \A k \in DOMAIN redirlist : k \in DOMAIN redirlist' /\ redirlist'[k] = redirlist[k]
  BY <1>2
<1> SUFFICES ASSUME NEW fd \in Internal PROVE OwnedFd(fd)'
  BY DEF OwnInv
<1>5. OwnedFd(fd)
  BY DEF OwnInv
<1>6. InTable(fd)' <=> InTable(fd)
  BY <1>3, <1>4 DEF InTable
<1>7. InFiles(fd)' <=> InFiles(fd)
  BY DEF InFiles
<1>8. Held(fd)'
  BY <1>3, <1>5 DEF OwnedFd, Held
<1> QED BY <1>5, <1>6, <1>7, <1>8 DEF OwnedFd

\* Only the user's descriptors change.
LEMMA OwnUser ==
  ASSUME OwnInv, UNCHANGED <<redirlist, parsefile, ttyfd>>,
         \A d \in Internal : fdtab'[d] = fdtab[d]
  PROVE  OwnInv'
<1> SUFFICES ASSUME NEW d \in Internal PROVE OwnedFd(d)'
  BY DEF OwnInv
<1>1. OwnedFd(d) /\ fdtab'[d] = fdtab[d]
  BY DEF OwnInv
<1>2. InTable(d)' <=> InTable(d)
  BY DEF InTable
<1>3. InFiles(d)' <=> InFiles(d)
  BY DEF InFiles
<1>4. Held(d)'
  BY <1>1 DEF OwnedFd, Held
<1> QED BY <1>1, <1>2, <1>3, <1>4 DEF OwnedFd

\* A redirection: what is saved is held by the last table.
LEMMA OwnSave ==
  ASSUME TypeOK, OwnInv, redirlist # <<>>, NEW fd \in User, CanSave(fdtab, fd), Save(fd),
         UNCHANGED <<parsefile, ttyfd>>,
         \A d \in Internal : fdtab'[d] = Saved(TRUE, fd)[d]
  PROVE  OwnInv'
<1>1. CASE UNCHANGED redirlist /\ Saved(TRUE, fd) = fdtab
  BY <1>1, OwnUser
<1>2. ASSUME NEW s \in Internal \cup {CLOSED}, Last(redirlist)[fd] = EMPTY,
             redirlist' = [redirlist EXCEPT
               ![Len(redirlist)] = [Last(redirlist) EXCEPT ![fd] = s]],
             s = CLOSED => Saved(TRUE, fd) = fdtab,
             s \in Internal => /\ fdtab[fd] # "closed" /\ fdtab[s] = "closed"
                               /\ Saved(TRUE, fd) = [fdtab EXCEPT ![s] = fdtab[fd]]
      PROVE  OwnInv'
  <2> DEFINE n == Len(redirlist)
             r == [Last(redirlist) EXCEPT ![fd] = s]
  <2>1. /\ n \in DOMAIN redirlist /\ DOMAIN redirlist' = DOMAIN redirlist
        /\ redirlist[n][fd] = EMPTY /\ DOMAIN redirlist[n] = User
        /\ redirlist'[n] = [redirlist[n] EXCEPT ![fd] = s]
        /\ \A k \in DOMAIN redirlist : k # n => redirlist'[k] = redirlist[k]
    BY <1>2, TableType DEF Table
  <2> HIDE DEF n
  <2>2. \A k \in DOMAIN redirlist, u \in User :
           redirlist'[k][u] = IF k = n /\ u = fd THEN s ELSE redirlist[k][u]
    BY <2>1
  <2> SUFFICES ASSUME NEW d \in Internal PROVE OwnedFd(d)'
    BY DEF OwnInv
  <2>3. OwnedFd(d)
    BY DEF OwnInv
  <2>4. EMPTY # d /\ CLOSED # d /\ fd # d /\ fd \in Fds /\ d \in Fds /\ fdtab \in [Fds -> Values]
    BY Descriptors DEF TypeOK
  <2>5. InFiles(d)' <=> InFiles(d)
    BY DEF InFiles
  <2>6. CASE d # s
    <3>1. fdtab'[d] = fdtab[d]
      BY <1>2, <2>4, <2>6
    <3>2. \A k \in DOMAIN redirlist, u \in User : redirlist'[k][u] = d <=> redirlist[k][u] = d
      BY <2>1, <2>2, <2>4, <2>6
    <3>3. InTable(d)' <=> InTable(d)
      BY <2>1, <3>2 DEF InTable
    <3>4. Held(d)'
      BY <2>1, <2>3, <3>2 DEF OwnedFd, Held
    <3> QED BY <2>3, <2>5, <3>1, <3>3, <3>4 DEF OwnedFd
  <2>7. CASE d = s
    <3>1. fdtab'[d] # "closed" /\ fdtab[d] = "closed"
      BY <1>2, <2>4, <2>7
    <3>2. ~InTable(d) /\ ~InFiles(d) /\ ttyfd # d
      BY <2>3, <3>1 DEF OwnedFd
    <3>3. \A k \in DOMAIN redirlist, u \in User : redirlist'[k][u] = d <=> k = n /\ u = fd
      BY <2>1, <2>2, <2>7, <3>2 DEF InTable
    <3>4. InTable(d)'
      BY <2>1, <3>3 DEF InTable
    <3>5. Held(d)'
      BY <2>1, <2>3, <3>3 DEF OwnedFd, Held
    <3> QED BY <2>5, <3>1, <3>2, <3>4, <3>5 DEF OwnedFd
  <2> QED BY <2>6, <2>7
<1> QED BY <1>1, <1>2, SaveEffect

\* Files are closed: those above the first n.
LEMMA OwnClose ==
  ASSUME TypeOK, OwnInv, UNCHANGED <<redirlist, ttyfd>>,
         NEW n \in Nat,
         \A k \in DOMAIN parsefile' : parsefile'[k] \in Internal =>
           k <= n /\ k \in DOMAIN parsefile /\ parsefile'[k] = parsefile[k],
         \A k \in DOMAIN parsefile : k <= n /\ parsefile[k] \in Internal =>
           k \in DOMAIN parsefile' /\ parsefile'[k] = parsefile[k],
         \A fd \in Internal : fdtab'[fd] = IF fd \in Files_of(n) THEN "closed" ELSE fdtab[fd]
  PROVE  OwnInv'
<1>1. Len(parsefile) \in Nat /\ DOMAIN parsefile = 1 .. Len(parsefile)
  BY LenProperties DEF TypeOK
<1> SUFFICES ASSUME NEW fd \in Internal PROVE OwnedFd(fd)'
  BY DEF OwnInv
<1>2. OwnedFd(fd)
  BY DEF OwnInv
<1>3. fd \in Files_of(n) <=> \E k \in DOMAIN parsefile : k > n /\ parsefile[k] = fd
  BY <1>1 DEF Files_of
<1>4. InFiles(fd)' <=> InFiles(fd) /\ fd \notin Files_of(n)
  <2>1. InFiles(fd)' => InFiles(fd)
    BY DEF InFiles
  <2>2. InFiles(fd)' => fd \notin Files_of(n)
    <3> SUFFICES ASSUME NEW k \in DOMAIN parsefile', parsefile'[k] = fd,
                        NEW l \in DOMAIN parsefile, l > n, parsefile[l] = fd
                 PROVE  FALSE
      BY <1>3 DEF InFiles
    <3>1. k \in DOMAIN parsefile /\ k <= n /\ parsefile[k] = fd
      OBVIOUS
    <3>2. k = l
      BY <3>1, <1>2 DEF OwnedFd, Held
    <3> QED BY <3>1, <3>2, <1>1
  <2>3. InFiles(fd) /\ fd \notin Files_of(n) => InFiles(fd)'
    BY <1>1, <1>3 DEF InFiles
  <2> QED BY <2>1, <2>2, <2>3
<1>5. fd \in Files_of(n) => InFiles(fd)
  BY <1>3 DEF InFiles
<1>6. InTable(fd)' <=> InTable(fd)
  BY DEF InTable
<1>7. Held(fd)'
  BY <1>2 DEF OwnedFd, Held
<1> QED BY <1>2, <1>4, <1>5, <1>6, <1>7 DEF OwnedFd

\* A file is opened and read from.
LEMMA OwnOpen ==
  ASSUME TypeOK, OwnInv, UNCHANGED <<redirlist, ttyfd>>,
         NEW s \in Internal, fdtab[s] = "closed", parsefile' = Append(parsefile, s),
         fdtab' = [fdtab EXCEPT ![s] = "script"]
  PROVE  OwnInv'
<1>1. /\ Len(parsefile) \in Nat /\ DOMAIN parsefile = 1 .. Len(parsefile)
      /\ DOMAIN parsefile' = 1 .. Len(parsefile) + 1 /\ parsefile'[Len(parsefile) + 1] = s
      /\ \A k \in 1 .. Len(parsefile) : parsefile'[k] = parsefile[k]
  BY LenProperties, Pushed DEF TypeOK
<1> SUFFICES ASSUME NEW fd \in Internal PROVE OwnedFd(fd)'
  BY DEF OwnInv
<1>2. OwnedFd(fd) /\ fd \in Fds /\ fdtab \in [Fds -> Values]
  BY Descriptors DEF OwnInv, TypeOK
<1>3. InTable(fd)' <=> InTable(fd)
  BY DEF InTable
<1>4. CASE fd # s
  <2>1. \A k \in DOMAIN parsefile' : parsefile'[k] = fd => k \in DOMAIN parsefile /\ parsefile[k] = fd
    BY <1>1, <1>4
  <2>2. InFiles(fd)' <=> InFiles(fd)
    BY <1>1, <2>1 DEF InFiles
  <2>3. Held(fd)' /\ fdtab'[fd] = fdtab[fd]
    BY <1>2, <1>4, <2>1 DEF OwnedFd, Held
  <2> QED BY <1>2, <1>3, <2>2, <2>3 DEF OwnedFd
<1>5. CASE fd = s
  <2>1. ~InTable(fd) /\ ~InFiles(fd) /\ ttyfd # fd /\ fdtab'[fd] # "closed"
    BY <1>2, <1>5 DEF OwnedFd
  <2>2. \A k \in DOMAIN parsefile' : parsefile'[k] = fd => k = Len(parsefile) + 1
    BY <1>1, <1>5, <2>1 DEF InFiles
  <2>3. InFiles(fd)' /\ Held(fd)'
    BY <1>1, <1>2, <1>5, <2>2 DEF InFiles, OwnedFd, Held
  <2> QED BY <1>3, <2>1, <2>3 DEF OwnedFd
<1> QED BY <1>4, <1>5

\* A string is read: it has no descriptor.
LEMMA OwnString ==
  ASSUME TypeOK, OwnInv, UNCHANGED <<fdtab, redirlist, ttyfd>>, parsefile' = Append(parsefile, -1)
  PROVE  OwnInv'
<1>1. /\ Len(parsefile) \in Nat /\ DOMAIN parsefile = 1 .. Len(parsefile)
      /\ DOMAIN parsefile' = 1 .. Len(parsefile) + 1 /\ parsefile'[Len(parsefile) + 1] = -1
      /\ \A k \in 1 .. Len(parsefile) : parsefile'[k] = parsefile[k]
  BY LenProperties, Pushed DEF TypeOK
<1>2. Files_of(Len(parsefile)) = {}
  BY <1>1 DEF Files_of
<1>3. -1 \notin Internal
  BY Descriptors
<1>4. \A k \in DOMAIN parsefile' : parsefile'[k] \in Internal =>
         k <= Len(parsefile) /\ k \in DOMAIN parsefile /\ parsefile'[k] = parsefile[k]
  BY <1>1, <1>3
<1> QED BY <1>1, <1>2, <1>4, OwnClose

\* The terminal is opened.
LEMMA OwnTty ==
  ASSUME TypeOK, OwnInv, UNCHANGED <<redirlist, parsefile>>, ttyfd = -1,
         NEW s \in Internal, fdtab[s] = "closed", ttyfd' = s,
         fdtab' = [fdtab EXCEPT ![s] = "tty"]
  PROVE  OwnInv'
<1> SUFFICES ASSUME NEW fd \in Internal PROVE OwnedFd(fd)'
  BY DEF OwnInv
<1>1. OwnedFd(fd) /\ fd \in Fds /\ fdtab \in [Fds -> Values] /\ ttyfd # fd
  BY Descriptors DEF OwnInv, TypeOK
<1>2. InTable(fd)' <=> InTable(fd)
  BY DEF InTable
<1>3. InFiles(fd)' <=> InFiles(fd)
  BY DEF InFiles
<1>4. Held(fd)'
  BY <1>1 DEF OwnedFd, Held
<1>5. CASE fd # s
  BY <1>1, <1>2, <1>3, <1>4, <1>5 DEF OwnedFd
<1>6. CASE fd = s
  BY <1>1, <1>2, <1>3, <1>4, <1>6 DEF OwnedFd
<1> QED BY <1>5, <1>6

\* An error closes every file but the first.
LEMMA OwnRaised ==
  ASSUME StackInv, OwnInv, NEW e, exraise(e), UNCHANGED <<redirlist, ttyfd>>,
         \/ pc \in {"run", "located"}
         \/ pc = "failed" /\ Last(ctx).kind = "simple"
  PROVE  OwnInv'
<1>1. TypeOK /\ Shape /\ Nesting
  BY DEF StackInv
<1>2. fdtab' = Without(Files_of(1)) /\ parsefile' = <<parsefile[1]>>
  BY <1>1, Raised
<1>3. \A fd \in Internal : fdtab'[fd] = IF fd \in Files_of(1) THEN "closed" ELSE fdtab[fd]
  BY <1>1, <1>2, WithoutType, Descriptors DEF TypeOK
<1>4. Len(parsefile) \in Nat \ {0} /\ DOMAIN parsefile = 1 .. Len(parsefile)
  BY <1>1, EmptySeq, LenProperties DEF TypeOK, Shape
<1>5. DOMAIN parsefile' = {1} /\ parsefile'[1] = parsefile[1]
  BY <1>2
<1> QED BY <1>1, <1>3, <1>4, <1>5, OwnClose

-----------------------------------------------------------------------------
(* The actions.                                                            *)

LEMMA OwnInit == Init => OwnInv
<1> SUFFICES ASSUME Init, NEW fd \in Internal PROVE OwnedFd(fd)
  BY DEF OwnInv
<1>1. PICK base \in {0} \cup (Internal \cap {NUser}), v \in [User -> Files \cup {"closed"}] :
         /\ parsefile = <<base>>
         /\ fdtab = [d \in Fds |-> IF d \in User THEN v[d]
                                   ELSE IF d = base THEN "script" ELSE "closed"]
  BY DEF Init
<1>2. fd \in Fds /\ fd \notin User /\ ttyfd # fd
  BY Descriptors DEF Init
<1>3. fdtab[fd] # "closed" <=> fd = base
  BY <1>1, <1>2
<1>4. DOMAIN parsefile = {1} /\ parsefile[1] = base
  BY <1>1
<1>5. InFiles(fd) <=> fd = base
  BY <1>4 DEF InFiles
<1>6. DOMAIN redirlist = {}
  BY DEF Init
<1>7. ~InTable(fd)
  BY <1>6 DEF InTable
<1>8. Held(fd)
  BY <1>4, <1>6 DEF Held
<1> QED BY <1>2, <1>3, <1>5, <1>7, <1>8 DEF OwnedFd

LEMMA OwnBegin == StackInv /\ OwnInv /\ Begin => OwnInv'
<1> SUFFICES ASSUME StackInv, OwnInv, Begin PROVE OwnInv'
  OBVIOUS
<1>1. /\ TypeOK /\ UNCHANGED <<fdtab, parsefile, ttyfd>>
      /\ pushredir \/ UNCHANGED redirlist
  BY DEF StackInv, Begin, shellVars
<1> QED BY <1>1, OwnPush, OwnUser

LEMMA OwnRedirect == StackInv /\ OwnInv /\ Redirect => OwnInv'
<1> SUFFICES ASSUME StackInv, OwnInv, Redirect PROVE OwnInv'
  OBVIOUS
<1>1. /\ TypeOK /\ pc = "redir" /\ UNCHANGED <<parsefile, ttyfd>> /\ ctx # <<>>
      /\ fdtab \in [Fds -> Values]
  BY DEF StackInv, Redirect, shellVars, Shape, TypeOK
<1>2. redirlist # <<>>
  BY <1>1, OwnTable DEF StackInv, Shape, Running
<1>3. ASSUME NEW fd \in User, RedirStep(TRUE, fd) PROVE OwnInv'
  <2>1. CanSave(fdtab, fd) /\ Save(fd)
    BY <1>3 DEF RedirStep
  <2>2. PICK v : fdtab' = [Saved(TRUE, fd) EXCEPT ![fd] = v]
    BY <1>3 DEF RedirStep
  <2>3. \A d \in Internal : fdtab'[d] = Saved(TRUE, fd)[d]
    BY <1>1, <1>2, <2>1, <2>2, SaveType, Descriptors
  <2> QED BY <1>1, <1>2, <2>1, <2>3, OwnSave
<1>4. ASSUME NEW fd \in User, RedirFails(TRUE, fd) PROVE OwnInv'
  <2>1. CASE UNCHANGED <<fdtab, redirlist>>
    BY <1>1, <2>1, OwnUser
  <2>2. CASE CanSave(fdtab, fd) /\ fdtab' = Saved(TRUE, fd) /\ Save(fd)
    BY <1>1, <1>2, <2>2, OwnSave
  <2> QED BY <1>4, <2>1, <2>2 DEF RedirFails
<1>5. CASE UNCHANGED <<fdtab, redirlist>>
  BY <1>1, <1>5, OwnUser
<1> QED BY <1>3, <1>4, <1>5 DEF Redirect

LEMMA OwnFailed == StackInv /\ OwnInv /\ Failed => OwnInv'
<1> SUFFICES ASSUME StackInv, OwnInv, Failed PROVE OwnInv'
  OBVIOUS
<1>1. /\ TypeOK /\ pc = "failed" /\ UNCHANGED ttyfd /\ ctx # <<>>
      /\ Last(ctx).kind \in {"compound", "simple"} /\ Last(ctx).pushed
  BY DEF StackInv, Failed, shellVars, Shape
<1>2. redirlist # <<>>
  BY <1>1, OwnTable DEF StackInv, Running
<1>3. CASE Pop(FALSE) /\ UNCHANGED parsefile
  BY <1>1, <1>2, <1>3, OwnPop
<1>4. CASE exraise("EXERROR") /\ UNCHANGED redirlist /\ Last(ctx).kind = "simple"
  BY <1>1, <1>4, OwnRaised
<1>5. CASE UNCHANGED <<fdtab, redirlist, parsefile>>
  BY <1>1, <1>5, OwnUser
<1> QED BY <1>1, <1>3, <1>4, <1>5 DEF Failed

LEMMA OwnLeaf == StackInv /\ OwnInv /\ (Leaf \/ LeafFails) => OwnInv'
<1> SUFFICES ASSUME StackInv, OwnInv, Leaf \/ LeafFails PROVE OwnInv'
  OBVIOUS
<1>1. pc = "located" /\ UNCHANGED <<redirlist, ttyfd>>
  BY DEF Leaf, LeafFails, shellVars
<1>2. CASE UNCHANGED <<fdtab, parsefile>>
  BY <1>1, <1>2, OwnUser
<1>3. CASE exraise("EXERROR")
  BY <1>1, <1>3, OwnRaised
<1> QED BY <1>2, <1>3 DEF Leaf, LeafFails

LEMMA OwnEnter == StackInv /\ OwnInv /\ Enter => OwnInv'
<1> SUFFICES ASSUME StackInv, OwnInv, Enter PROVE OwnInv'
  OBVIOUS
<1>1. TypeOK /\ UNCHANGED <<redirlist, ttyfd>>
  BY DEF Enter, shellVars, StackInv
<1>2. CASE UNCHANGED <<fdtab, parsefile>>
  BY <1>1, <1>2, OwnUser
<1>3. CASE parsefile' = Append(parsefile, -1) /\ UNCHANGED fdtab
  BY <1>1, <1>3, OwnString
<1>4. CASE /\ ForInput(fdtab) # {}
           /\ parsefile' = Append(parsefile, Lowest(ForInput(fdtab)))
           /\ fdtab' = [fdtab EXCEPT ![Lowest(ForInput(fdtab))] = "script"]
  <2>1. Lowest(ForInput(fdtab)) \in Internal /\ fdtab[Lowest(ForInput(fdtab))] = "closed"
    BY <1>4, LowestFree, Descriptors DEF ForInput
  <2> QED BY <1>1, <1>4, <2>1, OwnOpen
<1> QED BY <1>2, <1>3, <1>4 DEF Enter

LEMMA OwnEndBody == StackInv /\ OwnInv /\ EndBody => OwnInv'
<1> SUFFICES ASSUME StackInv, OwnInv, EndBody PROVE OwnInv'
  OBVIOUS
<1>1. /\ TypeOK /\ pc = "run" /\ UNCHANGED ttyfd /\ ctx # <<>> /\ Shape /\ Nesting /\ Depths
      /\ fdtab \in [Fds -> Values]
  BY DEF StackInv, EndBody, shellVars, TypeOK
<1>2. CASE Last(ctx).kind = "compound"
  <2>1. Last(ctx).pushed
    BY <1>1, <1>2, CtxType DEF Shape
  <2>2. redirlist # <<>>
    BY <1>1, <2>1, OwnTable DEF Running
  <2> QED BY <1>1, <1>2, <2>2, OwnPop DEF EndBody
<1>3. CASE UNCHANGED <<fdtab, parsefile, redirlist>>
  BY <1>1, <1>3, OwnUser
<1>4. CASE /\ fdtab' = Without({Last(parsefile)}) /\ parsefile' = Front(parsefile)
           /\ UNCHANGED redirlist
  <2>1. /\ Len(parsefile) \in Nat \ {0} /\ DOMAIN parsefile = 1 .. Len(parsefile)
        /\ Last(parsefile) = parsefile[Len(parsefile)]
        /\ DOMAIN parsefile' = 1 .. Len(parsefile) - 1
        /\ \A k \in 1 .. Len(parsefile) - 1 : parsefile'[k] = parsefile[k]
    BY <1>1, <1>4, FrontType, LenProperties DEF TypeOK, Shape
  <2> DEFINE n == Len(parsefile) - 1
  <2>2. n \in Nat /\ Len(parsefile) = n + 1
    BY <2>1
  <2> HIDE DEF n
  <2>3. Files_of(n) = {Last(parsefile)}
    BY <2>1, <2>2 DEF Files_of
  <2>4. \A fd \in Internal : fdtab'[fd] = IF fd \in Files_of(n) THEN "closed" ELSE fdtab[fd]
    BY <1>1, <1>4, <2>3, WithoutType, Descriptors
  <2>5. \A k \in DOMAIN parsefile' : k <= n /\ k \in DOMAIN parsefile /\ parsefile'[k] = parsefile[k]
    BY <2>1, <2>2
  <2>6. \A k \in DOMAIN parsefile : k <= n => k \in DOMAIN parsefile' /\ parsefile'[k] = parsefile[k]
    BY <2>1, <2>2
  <2> QED BY <1>1, <1>4, <2>2, <2>4, <2>5, <2>6, OwnClose
<1> QED BY <1>2, <1>3, <1>4 DEF EndBody

LEMMA OwnOut == StackInv /\ OwnInv /\ Out => OwnInv'
<1> SUFFICES ASSUME StackInv, OwnInv, Out PROVE OwnInv'
  OBVIOUS
<1>1. /\ TypeOK /\ Shape /\ Nesting /\ Depths /\ pc = "out" /\ UNCHANGED ttyfd /\ ctx # <<>>
      /\ Last(ctx).files = Len(parsefile) /\ parsefile \in Seq({-1, 0} \cup Internal)
      /\ Last(ctx).pushed \in BOOLEAN /\ Last(ctx).exec \in BOOLEAN
  BY CtxType DEF StackInv, Out, shellVars, Shape, Nesting, TypeOK
<1>2. CASE Len(redirlist) > Last(ctx).redirs
  <2>1. redirlist # <<>>
    BY <1>1, <1>2, OwnTable DEF Running
  <2>2. Pop(Last(ctx).pushed /\ Last(ctx).exec) /\ UNCHANGED parsefile
    BY <1>2 DEF Out
  <2>3. (Last(ctx).pushed /\ Last(ctx).exec) \in BOOLEAN
    BY <1>1
  <2> QED BY <1>1, <2>1, <2>2, <2>3, OwnPop
<1>3. CASE ~(Len(redirlist) > Last(ctx).redirs)
  <2>1. /\ fdtab' = Without(Files_of(Len(parsefile))) /\ UNCHANGED redirlist
        /\ parsefile' = SubSeq(parsefile, 1, Len(parsefile))
    BY <1>1, <1>3 DEF Out
  <2>2. UNCHANGED parsefile /\ Files_of(Len(parsefile)) = {}
    BY <1>1, <2>1 DEF Files_of
  <2>3. \A d \in Internal : fdtab'[d] = fdtab[d]
    BY <1>1, <2>1, <2>2, WithoutType, Descriptors DEF TypeOK
  <2> QED BY <1>1, <2>1, <2>2, <2>3, OwnUser
<1> QED BY <1>2, <1>3

LEMMA OwnRest ==
  StackInv /\ OwnInv /\ (Raise \/ Unwind \/ Drop \/ ChildRedirect \/ gettty) => OwnInv'
<1> SUFFICES ASSUME StackInv, OwnInv, Raise \/ Unwind \/ Drop \/ ChildRedirect \/ gettty
             PROVE  OwnInv'
  OBVIOUS
<1>1. TypeOK /\ Shape /\ Nesting /\ Depths /\ fdtab \in [Fds -> Values]
  BY DEF StackInv, TypeOK
<1>2. CASE Raise
  BY <1>2, OwnRaised DEF Raise, shellVars
<1>3. ASSUME Unwind \/ Drop PROVE OwnInv'
  <2>1. UNCHANGED <<parsefile, ttyfd>> /\ Dropped \in BOOLEAN
    BY <1>3 DEF Unwind, Drop, shellVars, Dropped
  <2>2. CASE redirlist # <<>>
    BY <1>1, <1>3, <2>1, <2>2, OwnPop DEF Unwind, Drop
  <2>3. CASE redirlist = <<>>
    BY <1>3, <2>1, <2>3, OwnUser DEF Unwind, Drop
  <2> QED BY <2>2, <2>3
<1>4. ASSUME ChildRedirect PROVE OwnInv'
  <2>1. UNCHANGED <<redirlist, parsefile, ttyfd>>
    BY <1>4 DEF ChildRedirect, RedirStep, shellVars
  <2>2. ASSUME NEW fd \in User, RedirStep(FALSE, fd) PROVE \A d \in Internal : fdtab'[d] = fdtab[d]
    <3>1. PICK v : fdtab' = [fdtab EXCEPT ![fd] = v]
      BY <2>2 DEF RedirStep, Saved
    <3> QED BY <3>1, <1>1, Descriptors
  <2>3. \A d \in Internal : fdtab'[d] = fdtab[d]
    BY <1>4, <2>2 DEF ChildRedirect
  <2> QED BY <2>1, <2>3, OwnUser
<1>5. ASSUME gettty PROVE OwnInv'
  <2>1. CASE ForTty(fdtab) # {}
    <3>1. ForTty(fdtab) \in SUBSET Nat /\ ForTty(fdtab) \subseteq FreeIn(Internal, fdtab)
      BY Descriptors DEF ForTty, FreeIn
    <3>2. Lowest(ForTty(fdtab)) \in Internal /\ fdtab[Lowest(ForTty(fdtab))] = "closed"
      BY <2>1, <3>1, LowestIn DEF FreeIn
    <3> QED BY <1>1, <1>5, <2>1, <3>2, OwnTty DEF gettty
  <2>2. CASE ForTty(fdtab) = {}
    BY <1>5, <2>2, OwnRaised DEF gettty
  <2> QED BY <2>1, <2>2
<1> QED BY <1>2, <1>3, <1>4, <1>5

LEMMA OwnSubshell == StackInv /\ OwnInv /\ Subshell => OwnInv'
<1> SUFFICES ASSUME StackInv, OwnInv, Subshell PROVE OwnInv'
  OBVIOUS
<1>1. TypeOK /\ fdtab \in [Fds -> Values] /\ UNCHANGED <<redirlist, ttyfd>> /\ parsefile' = <<0>>
  BY DEF StackInv, TypeOK, Subshell
<1> DEFINE t == Without(Files_of(0) \ {0, -1})
<1>2. fdtab' = t \/ fdtab' = [t EXCEPT ![0] = "null"]
  BY DEF Subshell
<1>3. /\ t \in [Fds -> Values]
      /\ \A fd \in Fds : t[fd] = IF fd \in Files_of(0) \ {0, -1} THEN "closed" ELSE fdtab[fd]
  BY <1>1, WithoutType
<1> HIDE DEF t
<1>4. 0 \notin Internal /\ -1 \notin Internal /\ Internal \subseteq Fds
  BY Descriptors
<1>5. \A fd \in Internal : fdtab'[fd] = IF fd \in Files_of(0) THEN "closed" ELSE fdtab[fd]
  BY <1>2, <1>3, <1>4
<1>6. \A k \in DOMAIN parsefile' : parsefile'[k] \notin Internal
  BY <1>1, <1>4
<1>7. \A k \in DOMAIN parsefile : ~(k <= 0)
  BY <1>1, LenProperties DEF TypeOK
<1> QED BY <1>1, <1>5, <1>6, <1>7, OwnClose

LEMMA OwnNext == StackInv /\ OwnInv /\ [Next]_vars => OwnInv'
<1>1. StackInv /\ OwnInv /\ UNCHANGED vars => OwnInv'
  BY OwnUser DEF vars
<1> QED BY <1>1, OwnBegin, OwnRedirect, OwnFailed, OwnLeaf, OwnEnter, OwnEndBody, OwnOut,
           OwnRest, OwnSubshell DEF Next, Command

\* No descriptor of the shell's own leaks and none has two holders, for any
\* number of descriptors, any nesting, and any mixture of errors, exec and subshells.
THEOREM EveryDescriptorIsOwned == Spec => []Owned
<1>1. Init => StackInv /\ OwnInv
  BY StackInit, OwnInit
<1>2. (StackInv /\ OwnInv) /\ [Next]_vars => (StackInv /\ OwnInv)'
  BY StackNext, OwnNext
<1>3. StackInv /\ OwnInv => Owned
  BY OwnedIsInv DEF StackInv
<1> QED BY <1>1, <1>2, <1>3, PTL DEF Spec

(* What a step does to the user's descriptors and the saved ones is one of *)
(* a few effects.                                                          *)

\* Neither the user's descriptors nor what is saved changes.
Quiet ==
  /\ UNCHANGED redirlist
  /\ \A fd \in User : fdtab'[fd] = fdtab[fd]
  /\ \A d \in Internal : InTable(d) => fdtab'[d] = fdtab[d]

\* A redirection of fd by a command that has a table.
Redirects(fd) ==
  /\ CanSave(fdtab, fd) /\ Save(fd)
  /\ \E v \in Values : fdtab' = [Saved(TRUE, fd) EXCEPT ![fd] = v]

\* The redirections of a subshell, for good.
ForGood(fd) ==
  /\ redirlist = <<>> /\ UNCHANGED redirlist
  /\ \E v \in Values : fdtab' = [fdtab EXCEPT ![fd] = v]

\* Standard input of a subshell in the background.
NoInput ==
  /\ UNCHANGED redirlist
  /\ \A fd \in User : fdtab'[fd] = IF fd = 0 THEN "null" ELSE fdtab[fd]
  /\ \A d \in Internal : InTable(d) => fdtab'[d] = fdtab[d]

\* Files that are closed are not saved descriptors.
LEMMA QuietClose ==
  ASSUME TypeOK, OwnInv, UNCHANGED redirlist, NEW S, fdtab' = Without(S),
         \A d \in S : d \notin User /\ (d \in Internal => InFiles(d))
  PROVE  Quiet
<1>1. \A fd \in Fds : fdtab'[fd] = IF fd \in S THEN "closed" ELSE fdtab[fd]
  BY WithoutType DEF TypeOK
<1>2. \A d \in Internal : InTable(d) => ~InFiles(d)
  BY DEF OwnInv, OwnedFd
<1> QED BY <1>1, <1>2, Descriptors DEF Quiet

\* Neither is a descriptor that was free.
LEMMA QuietOpen ==
  ASSUME TypeOK, OwnInv, UNCHANGED redirlist, NEW s \in Internal, fdtab[s] = "closed",
         NEW x, fdtab' = [fdtab EXCEPT ![s] = x]
  PROVE  Quiet
<1>1. fdtab \in [Fds -> Values] /\ Internal \subseteq Fds /\ User \subseteq Fds /\ s \notin User
  BY Descriptors DEF TypeOK
<1>2. ~InTable(s)
  BY DEF OwnInv, OwnedFd
<1> QED BY <1>1, <1>2 DEF Quiet

LEMMA QuietRaised ==
  ASSUME StackInv, OwnInv, NEW e, exraise(e), UNCHANGED redirlist,
         \/ pc \in {"run", "located"}
         \/ pc = "failed" /\ Last(ctx).kind = "simple"
  PROVE  Quiet
<1>1. TypeOK /\ Shape /\ Nesting
  BY DEF StackInv
<1>2. fdtab' = Without(Files_of(1))
  BY <1>1, Raised
<1>3. \A d \in Files_of(1) : d \in {-1} \cup Internal /\ InFiles(d)
  <2>1. Files_of(1) \subseteq {-1} \cup Internal
    BY <1>1, FilesClosed
  <2>2. DOMAIN parsefile = 1 .. Len(parsefile) /\ Len(parsefile) \in Nat
    BY <1>1, LenProperties DEF TypeOK
  <2> QED BY <2>1, <2>2 DEF Files_of, InFiles
<1>4. -1 \notin User /\ User \cap Internal = {}
  BY Descriptors DEF Fds
<1> QED BY <1>1, <1>2, <1>3, <1>4, QuietClose

\* What a redirection changes.
LEMMA RedirEffect ==
  ASSUME TypeOK, redirlist # <<>>, NEW fd \in User,
         RedirStep(TRUE, fd) \/ RedirFails(TRUE, fd)
  PROVE  Redirects(fd) \/ UNCHANGED <<fdtab, redirlist>>
<1>1. ASSUME RedirStep(TRUE, fd) PROVE Redirects(fd)
  <2>1. CanSave(fdtab, fd) /\ Save(fd)
    BY <1>1 DEF RedirStep
  <2>2. Saved(TRUE, fd) \in [Fds -> Values]
    BY <2>1, SaveType
  <2>3. PICK v \in Redirected(Saved(TRUE, fd)) : fdtab' = [Saved(TRUE, fd) EXCEPT ![fd] = v]
    BY <1>1 DEF RedirStep
  <2>4. v \in Values
    BY <2>2, <2>3, RedirectedType
  <2> QED BY <2>1, <2>3, <2>4 DEF Redirects
<1>2. ASSUME CanSave(fdtab, fd), fdtab' = Saved(TRUE, fd), Save(fd) PROVE Redirects(fd)
  <2>1. Saved(TRUE, fd) \in [Fds -> Values] /\ fd \in Fds
    BY <1>2, SaveType, Descriptors
  <2>2. Saved(TRUE, fd)[fd] \in Values
    BY <2>1
  <2>3. fdtab' = [Saved(TRUE, fd) EXCEPT ![fd] = Saved(TRUE, fd)[fd]]
    BY <1>2, <2>1
  <2> QED BY <1>2, <2>2, <2>3 DEF Redirects
<1> QED BY <1>1, <1>2 DEF RedirFails

\* The steps that neither open a scope nor close one, and redirect nothing.
LEMMA QuietSteps ==
  ASSUME StackInv, OwnInv,
         \/ Leaf \/ LeafFails \/ Enter \/ Raise \/ gettty
         \/ Failed /\ ~(Last(ctx).kind = "compound")
         \/ EndBody /\ ~(Last(ctx).kind = "compound")
         \/ Out /\ ~(Len(redirlist) > Last(ctx).redirs)
  PROVE  Quiet
<1>1. TypeOK /\ Shape /\ Nesting /\ Depths
  BY DEF StackInv
<1>2. CASE UNCHANGED <<fdtab, redirlist>>
  BY <1>2 DEF Quiet
<1>3. CASE Leaf \/ LeafFails
  BY <1>2, <1>3, QuietRaised DEF Leaf, LeafFails
<1>4. CASE Enter
  <2>1. CASE UNCHANGED <<fdtab, redirlist>>
    BY <2>1 DEF Quiet
  <2>2. CASE /\ ForInput(fdtab) # {} /\ UNCHANGED redirlist
             /\ fdtab' = [fdtab EXCEPT ![Lowest(ForInput(fdtab))] = "script"]
    <3>1. Lowest(ForInput(fdtab)) \in Internal /\ fdtab[Lowest(ForInput(fdtab))] = "closed"
      BY <2>2, LowestFree, Descriptors DEF ForInput
    <3> QED BY <1>1, <2>2, <3>1, QuietOpen
  <2> QED BY <1>4, <2>1, <2>2 DEF Enter
<1>5. CASE Raise
  BY <1>5, QuietRaised DEF Raise
<1>6. CASE gettty
  <2>1. CASE ForTty(fdtab) # {}
    <3>1. ForTty(fdtab) \in SUBSET Nat /\ ForTty(fdtab) \subseteq FreeIn(Internal, fdtab)
      BY Descriptors DEF ForTty, FreeIn
    <3>2. Lowest(ForTty(fdtab)) \in Internal /\ fdtab[Lowest(ForTty(fdtab))] = "closed"
      BY <2>1, <3>1, LowestIn DEF FreeIn
    <3> QED BY <1>1, <1>6, <2>1, <3>2, QuietOpen DEF gettty
  <2>2. CASE ForTty(fdtab) = {}
    BY <1>6, <2>2, QuietRaised DEF gettty
  <2> QED BY <2>1, <2>2
<1>7. CASE Failed /\ ~(Last(ctx).kind = "compound")
  <2>1. pc = "failed" /\ Last(ctx).kind = "simple"
    BY <1>1, <1>7 DEF Failed, Shape
  <2> QED BY <1>2, <1>7, <2>1, QuietRaised DEF Failed
<1>8. CASE EndBody /\ ~(Last(ctx).kind = "compound")
  <2>1. CASE UNCHANGED <<fdtab, redirlist>>
    BY <2>1 DEF Quiet
  <2>2. CASE /\ fdtab' = Without({Last(parsefile)}) /\ UNCHANGED redirlist
             /\ Last(ctx).kind \notin {"function", "compound"}
    <3>1. /\ pc = "run" /\ ctx # <<>> /\ Last(ctx).kind \in Kinds
          /\ Last(ctx) = ctx[Len(ctx)] /\ Len(ctx) \in DOMAIN ctx /\ Last(ctx).files \in Nat
          /\ \A k \in DOMAIN ctx : ctx[k].files \in Nat
      BY <1>1, <1>8, CtxType DEF EndBody
    <3>2. Last(ctx).kind \in {"eval", "dot"}
      BY <1>1, <2>2, <3>1 DEF Kinds, Shape, Active
    <3>3. Len(parsefile) = Last(ctx).files + 1 /\ Last(ctx).files >= 1
      <4>1. Width(Last(ctx)) = 1
        BY <3>2 DEF Width
      <4>2. Len(parsefile) = Last(ctx).files + 1
        BY <1>1, <3>1, <4>1 DEF Nesting
      <4>3. Last(ctx).files >= 1
        BY <1>1, <3>1, CtxType DEF Nesting, Width
      <4> QED BY <4>2, <4>3
    <3>4. Last(parsefile) \in {-1} \cup Internal /\ InFiles(Last(parsefile))
      <4>1. /\ parsefile \in Seq({-1, 0} \cup Internal) /\ DOMAIN parsefile = 1 .. Len(parsefile)
            /\ Len(parsefile) \in Nat /\ Len(parsefile) >= 2
        BY <1>1, <3>1, <3>3, LenProperties DEF TypeOK
      <4>2. Len(parsefile) \in DOMAIN parsefile /\ Len(parsefile) \in 2 .. Len(parsefile)
        BY <4>1
      <4>3. parsefile[Len(parsefile)] # 0 /\ parsefile[Len(parsefile)] \in {-1, 0} \cup Internal
        BY <1>1, <4>1, <4>2, ElementOfSeq DEF Shape
      <4> QED BY <4>2, <4>3 DEF Last, InFiles
    <3>5. -1 \notin User /\ User \cap Internal = {}
      BY Descriptors DEF Fds
    <3> QED BY <1>1, <2>2, <3>4, <3>5, QuietClose
  <2> QED BY <1>8, <2>1, <2>2 DEF EndBody
<1>9. CASE Out /\ ~(Len(redirlist) > Last(ctx).redirs)
  <2>1. fdtab' = Without(Files_of(Last(ctx).files)) /\ UNCHANGED redirlist
    BY <1>9 DEF Out
  <2>2. Last(ctx).files = Len(parsefile)
    BY <1>1, <1>9, CtxType DEF Out, Shape, Nesting
  <2>3. Files_of(Last(ctx).files) = {}
    BY <2>2, LenProperties, <1>1 DEF Files_of, TypeOK
  <2> QED BY <1>1, <2>1, <2>3, QuietClose
<1> QED BY <1>3, <1>4, <1>5, <1>6, <1>7, <1>8, <1>9

\* Where a table is popped there is one.
LEMMA PopSteps ==
  ASSUME StackInv,
         \/ Failed /\ Last(ctx).kind = "compound"
         \/ EndBody /\ Last(ctx).kind = "compound"
         \/ Out /\ Len(redirlist) > Last(ctx).redirs
         \/ Unwind /\ redirlist # <<>>
         \/ Drop /\ redirlist # <<>>
  PROVE  redirlist # <<>> /\ \E drop \in BOOLEAN : Pop(drop)
<1>1. TypeOK /\ Shape /\ Nesting /\ Depths
  BY DEF StackInv
<1>2. CASE Failed /\ Last(ctx).kind = "compound"
  <2>1. pc = "failed" /\ ctx # <<>> /\ Last(ctx).pushed /\ Pop(FALSE)
    BY <1>1, <1>2 DEF Failed, Shape
  <2> QED BY <1>1, <2>1, OwnTable DEF Running
<1>3. CASE EndBody /\ Last(ctx).kind = "compound"
  <2>1. pc = "run" /\ ctx # <<>> /\ Pop(FALSE)
    BY <1>3 DEF EndBody
  <2>2. Last(ctx) = ctx[Len(ctx)] /\ Len(ctx) \in DOMAIN ctx
    BY <1>1, <2>1, CtxType
  <2>3. Last(ctx).pushed
    BY <1>1, <1>3, <2>2 DEF Shape
  <2> QED BY <1>1, <2>1, <2>3, OwnTable DEF Running
<1>4. CASE Out /\ Len(redirlist) > Last(ctx).redirs
  <2>1. pc = "out" /\ ctx # <<>> /\ Pop(Last(ctx).pushed /\ Last(ctx).exec)
    BY <1>1, <1>4 DEF Out, Shape
  <2>2. Last(ctx).pushed \in BOOLEAN /\ Last(ctx).exec \in BOOLEAN
    BY <1>1, <2>1, CtxType
  <2> QED BY <1>1, <1>4, <2>1, <2>2, OwnTable DEF Running
<1>5. CASE (Unwind \/ Drop) /\ redirlist # <<>>
  BY <1>5 DEF Unwind, Drop, Dropped
<1> QED BY <1>2, <1>3, <1>4, <1>5

LEMMA Effects ==
  ASSUME StackInv, OwnInv, [Next]_vars
  PROVE  \/ Quiet \/ NoInput
         \/ pushredir /\ UNCHANGED fdtab
         \/ redirlist # <<>> /\ \E drop \in BOOLEAN : Pop(drop)
         \/ redirlist # <<>> /\ \E fd \in User : Redirects(fd)
         \/ \E fd \in User : ForGood(fd)
<1>1. TypeOK /\ Shape /\ Nesting /\ Depths
  BY DEF StackInv
<1>2. CASE UNCHANGED <<fdtab, redirlist>>
  BY <1>2 DEF Quiet
<1>3. CASE Begin
  BY <1>2, <1>3 DEF Begin
<1>4. CASE Redirect
  <2>1. redirlist # <<>>
    BY <1>1, <1>4, OwnTable DEF Redirect, Shape, Running
  <2> QED BY <1>1, <1>2, <1>4, <2>1, RedirEffect DEF Redirect
<1>5. CASE Failed
  BY <1>5, QuietSteps, PopSteps
<1>6. CASE EndBody
  BY <1>6, QuietSteps, PopSteps
<1>7. CASE Out
  BY <1>7, QuietSteps, PopSteps
<1>8. CASE Leaf \/ LeafFails \/ Enter \/ Raise \/ gettty
  BY <1>8, QuietSteps
<1>9. CASE Unwind \/ Drop
  <2>1. CASE redirlist # <<>>
    BY <1>9, <2>1, PopSteps
  <2>2. CASE redirlist = <<>>
    BY <1>2, <1>9, <2>2 DEF Unwind, Drop
  <2> QED BY <2>1, <2>2
<1>10. CASE ChildRedirect
  <2>1. redirlist = <<>>
    BY <1>1, <1>10, CountZero, EmptySeq DEF ChildRedirect, Shape, Depths, Running, TypeOK
  <2>2. ASSUME NEW fd \in User, RedirStep(FALSE, fd) PROVE ForGood(fd)
    <3>1. PICK v \in Redirected(fdtab) : fdtab' = [fdtab EXCEPT ![fd] = v]
      BY <2>2 DEF RedirStep, Saved
    <3>2. v \in Values
      BY <1>1, <3>1, RedirectedType DEF TypeOK
    <3> QED BY <2>1, <2>2, <3>1, <3>2 DEF RedirStep, ForGood
  <2> QED BY <1>2, <1>10, <2>2 DEF ChildRedirect
<1>11. CASE Subshell
  <2> DEFINE t == Without(Files_of(0) \ {0, -1})
  <2>1. fdtab' = t \/ fdtab' = [t EXCEPT ![0] = "null"]
    BY <1>11 DEF Subshell
  <2>2. UNCHANGED redirlist
    BY <1>11 DEF Subshell
  <2>3. /\ t \in [Fds -> Values]
        /\ \A fd \in Fds : t[fd] = IF fd \in Files_of(0) \ {0, -1} THEN "closed" ELSE fdtab[fd]
    BY <1>1, WithoutType DEF TypeOK
  <2> HIDE DEF t
  <2>4. \A d \in Files_of(0) \ {0, -1} : d \in Internal /\ InFiles(d)
    BY <1>1, ElementOfSeq, LenProperties DEF Files_of, InFiles, TypeOK
  <2>5. \A fd \in User : t[fd] = fdtab[fd]
    BY <2>3, <2>4, Descriptors
  <2>6. \A d \in Internal : InTable(d) => t[d] = fdtab[d]
    BY <2>3, <2>4, Descriptors DEF OwnInv, OwnedFd
  <2>7. 0 \in User /\ 0 \notin Internal /\ Fds = User \cup Internal
    BY Descriptors
  <2>8. CASE fdtab' = t
    BY <2>2, <2>5, <2>6, <2>8 DEF Quiet
  <2>9. CASE fdtab' = [t EXCEPT ![0] = "null"]
    BY <2>2, <2>3, <2>5, <2>6, <2>7, <2>9 DEF NoInput
  <2> QED BY <2>1, <2>8, <2>9
<1>12. CASE UNCHANGED vars
  BY <1>2, <1>12 DEF vars
<1> QED BY <1>3, <1>4, <1>5, <1>6, <1>7, <1>8, <1>9, <1>10, <1>11, <1>12 DEF Next, Command

-----------------------------------------------------------------------------
(* Saved descriptors as values.                                            *)

ValueOf(r, t, fd) == IF r[fd] = CLOSED THEN "closed" ELSE t[r[fd]]
ScopeOf(r, t) == [fd \in SavedIn(r) |-> ValueOf(r, t, fd)]
AScope == UNION {[S -> Values] : S \in SUBSET User}

LEMMA ScopeType ==
  ASSUME NEW r \in Table, NEW t \in [Fds -> Values]
  PROVE  /\ ScopeOf(r, t) \in AScope /\ DOMAIN ScopeOf(r, t) = SavedIn(r)
         /\ SavedIn(r) \subseteq User /\ \A fd \in SavedIn(r) : ValueOf(r, t, fd) \in Values
<1>1. SavedIn(r) \subseteq User
  BY DEF SavedIn
<1>2. ASSUME NEW fd \in SavedIn(r) PROVE ValueOf(r, t, fd) \in Values
  <2>1. r[fd] \in {CLOSED} \cup Internal
    BY DEF SavedIn, Table
  <2> QED BY <2>1, Descriptors DEF ValueOf, Values
<1>3. ScopeOf(r, t) \in [SavedIn(r) -> Values]
  BY <1>2 DEF ScopeOf
<1> QED BY <1>1, <1>2, <1>3 DEF AScope, ScopeOf

\* A table remembers the same as long as its descriptors are left alone.
LEMMA ScopeSame ==
  ASSUME NEW r \in Table, NEW t, NEW t2,
         \A u \in User : r[u] \in Internal => t2[r[u]] = t[r[u]]
  PROVE  /\ ScopeOf(r, t2) = ScopeOf(r, t)
         /\ \A fd \in SavedIn(r) : ValueOf(r, t2, fd) = ValueOf(r, t, fd)
<1>1. ASSUME NEW fd \in SavedIn(r) PROVE ValueOf(r, t2, fd) = ValueOf(r, t, fd)
  <2>1. fd \in User /\ r[fd] \in {CLOSED} \cup Internal
    BY DEF SavedIn, Table
  <2> QED BY <2>1 DEF ValueOf
<1> QED BY <1>1 DEF ScopeOf

LEMMA ScopesType ==
  ASSUME NEW rs \in Seq(Table), NEW t \in [Fds -> Values], NEW ss,
         ss = [k \in DOMAIN rs |-> ScopeOf(rs[k], t)]
  PROVE  /\ ss \in Seq(AScope) /\ Len(ss) = Len(rs) /\ Len(rs) \in Nat
         /\ DOMAIN ss = 1 .. Len(rs) /\ DOMAIN rs = 1 .. Len(rs)
         /\ \A k \in 1 .. Len(rs) : ss[k] = ScopeOf(rs[k], t)
<1>1. Len(rs) \in Nat /\ DOMAIN rs = 1 .. Len(rs)
  BY LenProperties
<1>2. \A k \in 1 .. Len(rs) : rs[k] \in Table /\ ScopeOf(rs[k], t) \in AScope
  BY <1>1, ElementOfSeq, ScopeType
<1>3. ss \in [1 .. Len(rs) -> AScope]
  BY <1>1, <1>2
<1>4. ss \in Seq(AScope) /\ Len(ss) = Len(rs)
  BY <1>1, <1>3, SeqDef, LenProperties
<1> QED BY <1>1, <1>3, <1>4

LEMMA SavedScopesIs == SavedScopes = [k \in DOMAIN redirlist |-> ScopeOf(redirlist[k], fdtab)]
BY DEF SavedScopes, ScopeOf, SavedValue, ValueOf

LEMMA SavedScopesType ==
  ASSUME TypeOK
  PROVE  /\ SavedScopes \in Seq(AScope) /\ Len(SavedScopes) = Len(redirlist)
         /\ Len(redirlist) \in Nat /\ DOMAIN SavedScopes = 1 .. Len(redirlist)
         /\ DOMAIN redirlist = 1 .. Len(redirlist)
         /\ \A k \in 1 .. Len(redirlist) : SavedScopes[k] = ScopeOf(redirlist[k], fdtab)
BY SavedScopesIs, ScopesType DEF TypeOK

LEMMA SavedScopesNext ==
  ASSUME TypeOK'
  PROVE  /\ SavedScopes' \in Seq(AScope) /\ Len(SavedScopes') = Len(redirlist')
         /\ Len(redirlist') \in Nat /\ DOMAIN SavedScopes' = 1 .. Len(redirlist')
         /\ DOMAIN redirlist' = 1 .. Len(redirlist')
         /\ \A k \in 1 .. Len(redirlist') : SavedScopes'[k] = ScopeOf(redirlist'[k], fdtab')
<1>1. SavedScopes' = [k \in DOMAIN redirlist' |-> ScopeOf(redirlist'[k], fdtab')]
  BY DEF SavedScopes, ScopeOf, SavedValue, ValueOf, SavedIn
<1>2. redirlist' \in Seq(Table) /\ fdtab' \in [Fds -> Values]
  BY DEF TypeOK
<1> HIDE DEF SavedScopes
<1> QED BY <1>1, <1>2, ScopesType

-----------------------------------------------------------------------------
(* The tables that an effect leaves alone remember what they did.          *)

LEMMA PopKeeps ==
  ASSUME TypeOK, OwnInv, redirlist # <<>>, NEW drop \in BOOLEAN, Pop(drop)
  PROVE  \A k \in 1 .. Len(redirlist) - 1, u \in User :
           redirlist[k][u] \in Internal => fdtab'[redirlist[k][u]] = fdtab[redirlist[k][u]]
<1> SUFFICES ASSUME NEW k \in 1 .. Len(redirlist) - 1, NEW u \in User, redirlist[k][u] \in Internal
             PROVE  fdtab'[redirlist[k][u]] = fdtab[redirlist[k][u]]
  OBVIOUS
<1>1. /\ Len(redirlist) \in Nat \ {0} /\ Last(redirlist) = redirlist[Len(redirlist)]
      /\ \A fd \in Internal : fdtab'[fd] =
           IF \E v \in User : Last(redirlist)[v] = fd THEN "closed" ELSE fdtab[fd]
  BY PopType
<1>5. DOMAIN redirlist = 1 .. Len(redirlist)
  BY TableType
<1>2. k \in DOMAIN redirlist /\ Len(redirlist) \in DOMAIN redirlist /\ k # Len(redirlist)
  <2>1. k \in 1 .. Len(redirlist) /\ k # Len(redirlist)
    BY <1>1
  <2>2. Len(redirlist) \in 1 .. Len(redirlist)
    BY <1>1
  <2> QED BY <2>1, <2>2, <1>5
<1>3. Held(redirlist[k][u])
  BY DEF OwnInv, OwnedFd
<1>4. ~\E v \in User : Last(redirlist)[v] = redirlist[k][u]
  BY <1>1, <1>2, <1>3 DEF Held
<1> QED BY <1>1, <1>4

LEMMA QuietKeeps ==
  ASSUME TypeOK, Quiet \/ NoInput
  PROVE  \A k \in DOMAIN redirlist, u \in User :
           redirlist[k][u] \in Internal => fdtab'[redirlist[k][u]] = fdtab[redirlist[k][u]]
BY DEF Quiet, NoInput, InTable

LEMMA RedirectsKeeps ==
  ASSUME TypeOK, OwnInv, redirlist # <<>>, NEW fd \in User, Redirects(fd)
  PROVE  /\ \A k \in DOMAIN redirlist, u \in User :
              redirlist[k][u] \in Internal => fdtab'[redirlist[k][u]] = fdtab[redirlist[k][u]]
         /\ \A u \in User : u # fd => fdtab'[u] = fdtab[u]
         /\ fdtab'[fd] \in Values
         /\ \/ Last(redirlist)[fd] # EMPTY /\ UNCHANGED redirlist
            \/ /\ Last(redirlist)[fd] = EMPTY
               /\ \E s \in Internal \cup {CLOSED} :
                    /\ redirlist' = [redirlist EXCEPT
                         ![Len(redirlist)] = [Last(redirlist) EXCEPT ![fd] = s]]
                    /\ s = CLOSED => fdtab[fd] = "closed"
                    /\ s \in Internal => fdtab'[s] = fdtab[fd]
<1>1. CanSave(fdtab, fd) /\ Save(fd)
  BY DEF Redirects
<1>2. PICK v \in Values : fdtab' = [Saved(TRUE, fd) EXCEPT ![fd] = v]
  BY DEF Redirects
<1>3. /\ Saved(TRUE, fd) \in [Fds -> Values] /\ fdtab \in [Fds -> Values]
      /\ User \subseteq Fds /\ Internal \subseteq Fds /\ User \cap Internal = {} /\ CLOSED \notin Internal
      /\ EMPTY # CLOSED
  BY <1>1, SaveType, Descriptors DEF TypeOK
<1>4. fdtab'[fd] = v /\ \A d \in Fds : d # fd => fdtab'[d] = Saved(TRUE, fd)[d]
  BY <1>2, <1>3
<1>5. CASE Last(redirlist)[fd] # EMPTY /\ UNCHANGED redirlist /\ Saved(TRUE, fd) = fdtab
  <2>1. \A d \in Fds : d # fd => fdtab'[d] = fdtab[d]
    BY <1>4, <1>5
  <2> QED BY <1>3, <1>4, <1>5, <2>1
<1>6. ASSUME NEW s \in Internal \cup {CLOSED}, Last(redirlist)[fd] = EMPTY,
             redirlist' = [redirlist EXCEPT
               ![Len(redirlist)] = [Last(redirlist) EXCEPT ![fd] = s]],
             s = CLOSED => fdtab[fd] = "closed" /\ Saved(TRUE, fd) = fdtab,
             s \in Internal => /\ fdtab[fd] # "closed" /\ fdtab[s] = "closed"
                               /\ Saved(TRUE, fd) = [fdtab EXCEPT ![s] = fdtab[fd]]
      PROVE  /\ \A k \in DOMAIN redirlist, u \in User :
                  redirlist[k][u] \in Internal => fdtab'[redirlist[k][u]] = fdtab[redirlist[k][u]]
             /\ \A u \in User : u # fd => fdtab'[u] = fdtab[u]
             /\ s \in Internal => fdtab'[s] = fdtab[fd]
  <2>1. \A d \in Fds : d # fd /\ d # s => fdtab'[d] = fdtab[d]
    BY <1>3, <1>4, <1>6
  <2>2. s \in Internal => ~InTable(s)
    BY <1>6 DEF OwnInv, OwnedFd
  <2>3. \A k \in DOMAIN redirlist, u \in User :
           redirlist[k][u] \in Internal => redirlist[k][u] # s /\ redirlist[k][u] # fd
    BY <1>3, <2>2 DEF InTable
  <2>4. \A u \in User : u # s
    BY <1>3, Descriptors
  <2>5. s \in Internal => fdtab'[s] = fdtab[fd]
    BY <1>3, <1>4, <1>6
  <2> QED BY <1>3, <2>1, <2>3, <2>4, <2>5
<1>7. \/ Last(redirlist)[fd] # EMPTY /\ UNCHANGED redirlist /\ Saved(TRUE, fd) = fdtab
      \/ /\ Last(redirlist)[fd] = EMPTY
         /\ \E s \in Internal \cup {CLOSED} :
              /\ redirlist' = [redirlist EXCEPT
                   ![Len(redirlist)] = [Last(redirlist) EXCEPT ![fd] = s]]
              /\ s = CLOSED => fdtab[fd] = "closed" /\ Saved(TRUE, fd) = fdtab
              /\ s \in Internal =>
                   /\ fdtab[fd] # "closed" /\ fdtab[s] = "closed"
                   /\ Saved(TRUE, fd) = [fdtab EXCEPT ![s] = fdtab[fd]]
  BY <1>1, SaveEffect
<1> QED BY <1>4, <1>5, <1>6, <1>7

-----------------------------------------------------------------------------
(* Refinement: each effect is a step of Scopes.                            *)

LEMMA RefineInit == Init => Abstract!Init
<1> SUFFICES ASSUME Init PROVE Abstract!Init
  OBVIOUS
<1>1. TypeOK /\ redirlist = <<>>
  BY StackInit DEF StackInv, Init
<1>2. View \in [User -> Values]
  BY <1>1, Descriptors DEF View, TypeOK
<1>3. SavedScopes = <<>>
  BY <1>1, SavedScopesType, EmptySeq
<1> QED BY <1>2, <1>3 DEF Abstract!Init, Abstract!User, User

\* Nothing seen at this level, or the null device for a background child.
LEMMA RefineQuiet ==
  ASSUME TypeOK, Quiet \/ NoInput
  PROVE  UNCHANGED <<View, SavedScopes>> \/ Abstract!Background
<1>1. SavedScopes' = [k \in DOMAIN redirlist |-> ScopeOf(redirlist[k], fdtab')]
  BY DEF SavedScopes, ScopeOf, SavedValue, ValueOf, SavedIn, Quiet, NoInput
<1>2. \A k \in DOMAIN redirlist : ScopeOf(redirlist[k], fdtab') = ScopeOf(redirlist[k], fdtab)
  <2> SUFFICES ASSUME NEW k \in DOMAIN redirlist
               PROVE  ScopeOf(redirlist[k], fdtab') = ScopeOf(redirlist[k], fdtab)
    OBVIOUS
  <2>1. redirlist[k] \in Table
    BY ElementOfSeq, LenProperties DEF TypeOK
  <2>2. \A u \in User : redirlist[k][u] \in Internal =>
           fdtab'[redirlist[k][u]] = fdtab[redirlist[k][u]]
    BY QuietKeeps
  <2> QED BY <2>1, <2>2, ScopeSame
<1>3. SavedScopes' = SavedScopes
  BY <1>1, <1>2, SavedScopesIs
<1>4. CASE Quiet
  <2>1. View' = View
    BY <1>4 DEF Quiet, View
  <2> QED BY <1>3, <2>1
<1>5. CASE NoInput
  <2>1. View' = [fd \in User |-> IF fd = 0 THEN "null" ELSE fdtab[fd]]
    BY <1>5 DEF NoInput, View
  <2>2. View' = [View EXCEPT ![0] = "null"]
    BY <2>1 DEF View
  <2> QED BY <1>3, <2>2 DEF Abstract!Background
<1> QED BY <1>4, <1>5

LEMMA RefineOpen ==
  ASSUME TypeOK, TypeOK', pushredir, UNCHANGED fdtab
  PROVE  Abstract!Open
<1>1. /\ SavedScopes \in Seq(AScope) /\ Len(SavedScopes) = Len(redirlist)
      /\ Len(redirlist) \in Nat /\ DOMAIN SavedScopes = 1 .. Len(redirlist)
      /\ \A k \in 1 .. Len(redirlist) : SavedScopes[k] = ScopeOf(redirlist[k], fdtab)
  BY SavedScopesType
<1>2. Empty \in Table /\ redirlist \in Seq(Table) /\ redirlist' = Append(redirlist, Empty)
  BY DEF Empty, Table, TypeOK, pushredir
<1>3. /\ Len(redirlist') = Len(redirlist) + 1 /\ redirlist'[Len(redirlist) + 1] = Empty
      /\ \A k \in 1 .. Len(redirlist) : redirlist'[k] = redirlist[k]
  BY <1>2, Pushed
<1>4. /\ SavedScopes' \in Seq(AScope) /\ Len(SavedScopes') = Len(redirlist')
      /\ \A k \in 1 .. Len(redirlist') : SavedScopes'[k] = ScopeOf(redirlist'[k], fdtab')
  BY SavedScopesNext
<1> DEFINE none == [fd \in {} |-> "closed"]
<1>5. ScopeOf(Empty, fdtab) = none /\ none \in AScope
  <2>1. SavedIn(Empty) = {}
    BY DEF SavedIn, Empty
  <2>2. ScopeOf(Empty, fdtab) = none
    BY <2>1 DEF ScopeOf
  <2>3. ScopeOf(Empty, fdtab) \in AScope
    BY <1>2, ScopeType DEF TypeOK
  <2> QED BY <2>2, <2>3
<1> HIDE DEF none
<1>6. /\ Append(SavedScopes, none) \in Seq(AScope) /\ Len(Append(SavedScopes, none)) = Len(redirlist) + 1
      /\ Append(SavedScopes, none)[Len(redirlist) + 1] = none
      /\ \A k \in 1 .. Len(redirlist) : Append(SavedScopes, none)[k] = SavedScopes[k]
  BY <1>1, <1>5, Pushed
<1>7. \A k \in 1 .. Len(redirlist) + 1 : SavedScopes'[k] = Append(SavedScopes, none)[k]
  <2>1. ASSUME NEW k \in 1 .. Len(redirlist) PROVE SavedScopes'[k] = Append(SavedScopes, none)[k]
    BY <1>1, <1>3, <1>4, <1>6
  <2>2. SavedScopes'[Len(redirlist) + 1] = none
    BY <1>1, <1>3, <1>4, <1>5
  <2> QED BY <2>1, <2>2, <1>1, <1>6
<1>8. SavedScopes' = Append(SavedScopes, none)
  BY <1>1, <1>3, <1>4, <1>6, <1>7, SeqEqual
<1>9. View' = View
  BY DEF View
<1> QED BY <1>8, <1>9 DEF Abstract!Open, none

LEMMA RefinePop ==
  ASSUME TypeOK, TypeOK', OwnInv, redirlist # <<>>, NEW drop \in BOOLEAN, Pop(drop)
  PROVE  IF drop THEN Abstract!Keep ELSE Abstract!Restore
<1>1. /\ SavedScopes \in Seq(AScope) /\ Len(SavedScopes) = Len(redirlist)
      /\ DOMAIN SavedScopes = 1 .. Len(redirlist)
      /\ \A k \in 1 .. Len(redirlist) : SavedScopes[k] = ScopeOf(redirlist[k], fdtab)
  BY SavedScopesType
<1>2. /\ Len(redirlist') = Len(redirlist) - 1 /\ Len(redirlist) \in Nat \ {0}
      /\ \A k \in 1 .. Len(redirlist) - 1 : redirlist'[k] = redirlist[k]
      /\ Last(redirlist) \in Table /\ Last(redirlist) = redirlist[Len(redirlist)]
      /\ \A fd \in User : fdtab'[fd] =
           IF ~drop /\ Last(redirlist)[fd] # EMPTY
           THEN IF Last(redirlist)[fd] = CLOSED THEN "closed" ELSE fdtab[Last(redirlist)[fd]]
           ELSE fdtab[fd]
  BY PopType
<1>3. /\ SavedScopes' \in Seq(AScope) /\ Len(SavedScopes') = Len(redirlist')
      /\ \A k \in 1 .. Len(redirlist') : SavedScopes'[k] = ScopeOf(redirlist'[k], fdtab')
  BY SavedScopesNext
<1>4. SavedScopes # <<>>
  BY <1>1, <1>2
<1>5. /\ Front(SavedScopes) \in Seq(AScope) /\ Len(Front(SavedScopes)) = Len(redirlist) - 1
      /\ \A k \in 1 .. Len(redirlist) - 1 : Front(SavedScopes)[k] = SavedScopes[k]
  BY <1>1, <1>4, FrontType
<1>6. ASSUME NEW k \in 1 .. Len(redirlist) - 1 PROVE SavedScopes'[k] = Front(SavedScopes)[k]
  <2>1. k \in 1 .. Len(redirlist) /\ k \in 1 .. Len(redirlist')
    BY <1>2
  <2>2. redirlist[k] \in Table /\ redirlist'[k] = redirlist[k]
    BY <1>2, <2>1, ElementOfSeq DEF TypeOK
  <2>3. \A u \in User : redirlist[k][u] \in Internal =>
           fdtab'[redirlist[k][u]] = fdtab[redirlist[k][u]]
    BY PopKeeps
  <2>4. ScopeOf(redirlist[k], fdtab') = ScopeOf(redirlist[k], fdtab)
    BY <2>2, <2>3, ScopeSame
  <2> QED BY <2>1, <2>2, <2>4, <1>1, <1>3, <1>5
<1>7. SavedScopes' = Front(SavedScopes)
  BY <1>2, <1>3, <1>5, <1>6, SeqEqual
<1>8. Abstract!Top = ScopeOf(Last(redirlist), fdtab) /\ Abstract!Front = Front(SavedScopes)
  BY <1>1, <1>2 DEF Abstract!Top, Abstract!Front, Front
<1>9. CASE drop
  <2>1. View' = View
    BY <1>2, <1>9 DEF View
  <2> QED BY <1>4, <1>7, <1>8, <1>9, <2>1 DEF Abstract!Keep
<1>10. CASE ~drop
  <2>1. /\ DOMAIN ScopeOf(Last(redirlist), fdtab) = SavedIn(Last(redirlist))
        /\ \A fd \in User : fd \in SavedIn(Last(redirlist)) <=> Last(redirlist)[fd] # EMPTY
        /\ \A fd \in SavedIn(Last(redirlist)) : ScopeOf(Last(redirlist), fdtab)[fd] =
             IF Last(redirlist)[fd] = CLOSED THEN "closed" ELSE fdtab[Last(redirlist)[fd]]
    BY DEF ScopeOf, SavedIn, ValueOf
  <2>2. \A fd \in User : fdtab'[fd] = IF fd \in DOMAIN Abstract!Top THEN Abstract!Top[fd] ELSE View[fd]
    BY <1>2, <1>8, <1>10, <2>1 DEF View
  <2>3. View' = [fd \in User |-> IF fd \in DOMAIN Abstract!Top THEN Abstract!Top[fd] ELSE View[fd]]
    BY <2>2 DEF View
  <2> QED BY <1>4, <1>7, <1>8, <1>10, <2>3 DEF Abstract!Restore, Abstract!User, User
<1> QED BY <1>9, <1>10

\* The first redirection of a descriptor in a scope makes the scope remember it.
LEMMA RefineRedirects ==
  ASSUME TypeOK, TypeOK', OwnInv, redirlist # <<>>, NEW fd \in User, Redirects(fd)
  PROVE  Abstract!Redirect(fd, fdtab'[fd]) /\ fdtab'[fd] \in Values
<1>1. /\ SavedScopes \in Seq(AScope) /\ Len(SavedScopes) = Len(redirlist)
      /\ DOMAIN SavedScopes = 1 .. Len(redirlist) /\ DOMAIN redirlist = 1 .. Len(redirlist)
      /\ Len(redirlist) \in Nat
      /\ \A k \in 1 .. Len(redirlist) : SavedScopes[k] = ScopeOf(redirlist[k], fdtab)
  BY SavedScopesType
<1> DEFINE n == Len(redirlist)
<1>2. /\ n \in 1 .. n /\ Last(redirlist) = redirlist[n] /\ redirlist \in Seq(Table)
      /\ \A k \in 1 .. n : redirlist[k] \in Table
  <2>1. redirlist \in Seq(Table) /\ Len(redirlist) >= 1 /\ Last(redirlist) = redirlist[n]
    BY TableType
  <2>2. \A k \in 1 .. n : redirlist[k] \in Table
    BY <2>1, <1>1, ElementOfSeq
  <2> QED BY <1>1, <2>1, <2>2
<1>3. /\ \A k \in 1 .. n, u \in User :
           redirlist[k][u] \in Internal => fdtab'[redirlist[k][u]] = fdtab[redirlist[k][u]]
      /\ \A u \in User : u # fd => fdtab'[u] = fdtab[u]
      /\ fdtab'[fd] \in Values
      /\ \/ Last(redirlist)[fd] # EMPTY /\ UNCHANGED redirlist
         \/ /\ Last(redirlist)[fd] = EMPTY
            /\ \E s \in Internal \cup {CLOSED} :
                 /\ redirlist' = [redirlist EXCEPT ![n] = [Last(redirlist) EXCEPT ![fd] = s]]
                 /\ s = CLOSED => fdtab[fd] = "closed"
                 /\ s \in Internal => fdtab'[s] = fdtab[fd]
  BY <1>1, RedirectsKeeps
<1>4. /\ SavedScopes' \in Seq(AScope) /\ Len(SavedScopes') = Len(redirlist')
      /\ \A k \in 1 .. Len(redirlist') : SavedScopes'[k] = ScopeOf(redirlist'[k], fdtab')
  BY SavedScopesNext
<1>5. Abstract!Top = ScopeOf(redirlist[n], fdtab) /\ DOMAIN Abstract!Top = SavedIn(redirlist[n])
  BY <1>1, <1>2, ScopeType DEF Abstract!Top, ScopeOf
<1>6. View' = [View EXCEPT ![fd] = fdtab'[fd]]
  BY <1>3 DEF View
<1>7. \A k \in 1 .. n : ScopeOf(redirlist[k], fdtab') = ScopeOf(redirlist[k], fdtab)
  <2> SUFFICES ASSUME NEW k \in 1 .. n
               PROVE  ScopeOf(redirlist[k], fdtab') = ScopeOf(redirlist[k], fdtab)
    OBVIOUS
  <2>1. \A u \in User : redirlist[k][u] \in Internal =>
           fdtab'[redirlist[k][u]] = fdtab[redirlist[k][u]]
    BY <1>3
  <2>2. redirlist[k] \in Table
    BY <1>2
  <2> QED BY <2>1, <2>2, ScopeSame
<1> HIDE DEF n
<1>8. SavedScopes # <<>>
  BY <1>1, <1>2 DEF n
<1>9. CASE Last(redirlist)[fd] # EMPTY /\ UNCHANGED redirlist
  <2>1. \A k \in 1 .. n : SavedScopes'[k] = SavedScopes[k]
    BY <1>1, <1>4, <1>7, <1>9 DEF n
  <2>2. SavedScopes' = SavedScopes
    BY <2>1, <1>1, <1>4, <1>9, SeqEqual DEF n
  <2>3. fd \in DOMAIN Abstract!Top
    BY <1>2, <1>5, <1>9 DEF SavedIn
  <2> QED BY <1>3, <1>6, <1>8, <2>2, <2>3 DEF Abstract!Redirect, Abstract!Remember
<1>10. ASSUME NEW s \in Internal \cup {CLOSED}, redirlist[n][fd] = EMPTY,
              redirlist' = [redirlist EXCEPT ![n] = [redirlist[n] EXCEPT ![fd] = s]],
              s = CLOSED => fdtab[fd] = "closed",
              s \in Internal => fdtab'[s] = fdtab[fd]
       PROVE  Abstract!Redirect(fd, fdtab'[fd])
  <2> DEFINE r == [redirlist[n] EXCEPT ![fd] = s]
             top == [d \in SavedIn(redirlist[n]) \cup {fd} |->
                       IF d = fd THEN View[fd] ELSE Abstract!Top[d]]
  <2>1. redirlist[n] \in [User -> {EMPTY, CLOSED} \cup Internal] /\ redirlist[n] \in Table
    BY <1>2 DEF Table
  <2>2. s # EMPTY /\ EMPTY \notin Internal /\ CLOSED \notin Internal
    BY Descriptors
  <2>3. /\ Len(redirlist') = n /\ redirlist'[n] = r
        /\ \A k \in 1 .. n : k # n => redirlist'[k] = redirlist[k]
    BY <1>2, <1>10 DEF n
  <2>4. r \in Table /\ SavedIn(r) = SavedIn(redirlist[n]) \cup {fd} /\ fd \notin SavedIn(redirlist[n])
    BY <1>10, <2>1, <2>2 DEF Table, SavedIn
  <2>5. \A d \in SavedIn(redirlist[n]) : ValueOf(r, fdtab', d) = Abstract!Top[d]
    <3> SUFFICES ASSUME NEW d \in SavedIn(redirlist[n])
                 PROVE  ValueOf(r, fdtab', d) = Abstract!Top[d]
      OBVIOUS
    <3>1. d \in User /\ d # fd /\ r[d] = redirlist[n][d]
      BY <2>1, <2>4 DEF SavedIn
    <3>2. ValueOf(r, fdtab', d) = ValueOf(redirlist[n], fdtab', d)
      BY <3>1 DEF ValueOf
    <3>3. ScopeOf(redirlist[n], fdtab')[d] = ValueOf(redirlist[n], fdtab', d)
      BY DEF ScopeOf
    <3> QED BY <3>2, <3>3, <1>2, <1>5, <1>7
  <2>6. ValueOf(r, fdtab', fd) = View[fd]
    <3>1. r[fd] = s
      BY <2>1
    <3> QED BY <3>1, <1>10, <2>2 DEF ValueOf, View
  <2>7. ScopeOf(r, fdtab') = top
    <3> HIDE DEF r
    <3> QED BY <2>4, <2>5, <2>6 DEF ScopeOf
  <2> HIDE DEF r
  <2>8. top \in AScope
    <3>1. fdtab' \in [Fds -> Values]
      BY DEF TypeOK
    <3> HIDE DEF top
    <3> QED BY <2>4, <2>7, <3>1, ScopeType
  <2> HIDE DEF top
  <2>9. SavedScopes' = [SavedScopes EXCEPT ![n] = top]
    <3>1. \A k \in 1 .. n : k # n => SavedScopes'[k] = SavedScopes[k]
      BY <2>3, <1>1, <1>4, <1>7 DEF n
    <3>2. SavedScopes'[n] = top
      BY <2>3, <2>7, <1>2, <1>4
    <3>3. /\ [SavedScopes EXCEPT ![n] = top] \in Seq(AScope)
          /\ Len([SavedScopes EXCEPT ![n] = top]) = n
          /\ [SavedScopes EXCEPT ![n] = top][n] = top
      BY <1>1, <1>8, <2>8, LastChanged DEF n
    <3>4. \A k \in 1 .. n : k # n => [SavedScopes EXCEPT ![n] = top][k] = SavedScopes[k]
      BY <1>1 DEF n
    <3>5. \A k \in 1 .. n : SavedScopes'[k] = [SavedScopes EXCEPT ![n] = top][k]
      BY <3>1, <3>2, <3>3, <3>4
    <3> QED BY <1>4, <2>3, <3>3, <3>5, SeqEqual
  <2>10. fd \notin DOMAIN Abstract!Top
    BY <1>5, <2>4
  <2>11. n = Len(SavedScopes) /\ DOMAIN Abstract!Top = SavedIn(redirlist[n])
    BY <1>1, <1>5 DEF n
  <2> QED BY <1>6, <1>8, <2>9, <2>10, <2>11 DEF Abstract!Redirect, Abstract!Remember, top
<1> QED BY <1>2, <1>3, <1>9, <1>10

LEMMA RefineForGood ==
  ASSUME TypeOK, TypeOK', NEW fd \in User, ForGood(fd)
  PROVE  Abstract!Redirect(fd, fdtab'[fd]) /\ fdtab'[fd] \in Values
<1>1. redirlist = <<>> /\ redirlist' = <<>>
  BY DEF ForGood
<1>2. SavedScopes = <<>> /\ SavedScopes' = <<>>
  <2>1. Len(redirlist) = 0 /\ Len(redirlist') = 0
    BY <1>1
  <2> QED BY <2>1, SavedScopesType, SavedScopesNext, EmptySeq
<1>3. PICK v \in Values : fdtab' = [fdtab EXCEPT ![fd] = v]
  BY DEF ForGood
<1>4. fdtab \in [Fds -> Values] /\ User \subseteq Fds
  BY Descriptors DEF TypeOK
<1>5. fdtab'[fd] = v /\ \A u \in User : u # fd => fdtab'[u] = fdtab[u]
  BY <1>3, <1>4
<1>6. View' = [View EXCEPT ![fd] = fdtab'[fd]]
  BY <1>5 DEF View
<1> QED BY <1>2, <1>5, <1>6 DEF Abstract!Redirect

LEMMA RefineNext ==
  StackInv /\ OwnInv /\ [Next]_vars /\ StackInv' => [Abstract!Next]_(Abstract!vars)
<1> SUFFICES ASSUME StackInv, OwnInv, [Next]_vars, StackInv'
             PROVE  [Abstract!Next]_(Abstract!vars)
  OBVIOUS
<1>1. TypeOK /\ TypeOK'
  BY DEF StackInv
<1>2. CASE Quiet \/ NoInput
  BY <1>1, <1>2, RefineQuiet DEF Abstract!Next, Abstract!vars
<1>3. CASE pushredir /\ UNCHANGED fdtab
  BY <1>1, <1>3, RefineOpen DEF Abstract!Next
<1>4. CASE redirlist # <<>> /\ \E drop \in BOOLEAN : Pop(drop)
  BY <1>1, <1>4, RefinePop DEF Abstract!Next
<1>5. CASE redirlist # <<>> /\ \E fd \in User : Redirects(fd)
  BY <1>1, <1>5, RefineRedirects DEF Abstract!Next, Abstract!User, User
<1>6. CASE \E fd \in User : ForGood(fd)
  BY <1>1, <1>6, RefineForGood DEF Abstract!Next, Abstract!User, User
<1> QED BY <1>2, <1>3, <1>4, <1>5, <1>6, Effects

\* Descriptors saved from 10 up implement values that are remembered: for the
\* user, redirections are scopes.
THEOREM RedirectionsAreScopes == Spec => Refines
<1>1. Init => StackInv /\ OwnInv
  BY StackInit, OwnInit
<1>2. (StackInv /\ OwnInv) /\ [Next]_vars => (StackInv /\ OwnInv)'
  BY StackNext, OwnNext
<1>3. Init => Abstract!Init
  BY RefineInit
<1>4. StackInv /\ OwnInv /\ [Next]_vars /\ StackInv' => [Abstract!Next]_(Abstract!vars)
  BY RefineNext
<1> QED BY <1>1, <1>2, <1>3, <1>4, PTL DEF Spec, Refines, Abstract!Spec

(***************************************************************************)
(* A command leaves the user's descriptors as it found them, and a         *)
(* subshell begins with those of its parent.                               *)
(***************************************************************************)

\* What descriptor fd will hold once the tables above the first d are popped.
Back(rs, t, d, fd, v) ==
  \/ (\A l \in d + 1 .. Len(rs) : rs[l][fd] = EMPTY) /\ t[fd] = v
  \/ \E l \in d + 1 .. Len(rs) :
       /\ rs[l][fd] # EMPTY
       /\ \A i \in d + 1 .. l - 1 : rs[i][fd] = EMPTY
       /\ ValueOf(rs[l], t, fd) = v

\* Every command on the stack, and the outermost one that an error left
\* behind, will find its descriptors again.
Returns ==
  /\ pc \notin {"unwind", "leave"} =>
       \A k \in DOMAIN ctx : \A fd \in User \ entry[k].execd :
         Back(redirlist, fdtab, ctx[k].redirs, fd, entry[k].view[fd])
  /\ pc \in {"unwind", "leave"} /\ entry # <<>> =>
       \A fd \in User \ entry[1].execd :
         Back(redirlist, fdtab, 0, fd, entry[1].view[fd])

\* The body of Undone.
Ends ==
  Len(entry') < Len(entry) /\ level' = level =>
    LET e == entry[Len(entry') + 1] IN
      \A fd \in User \ e.execd : fdtab'[fd] = e.view[fd]

-----------------------------------------------------------------------------
(* The effects.                                                            *)

LEMMA BackNow ==
  ASSUME NEW rs \in Seq(Table), NEW t, NEW d \in Nat, d = Len(rs), NEW fd, NEW v
  PROVE  Back(rs, t, d, fd, v) <=> t[fd] = v
<1>1. d + 1 .. Len(rs) = {}
  OBVIOUS
<1> QED BY <1>1 DEF Back

\* The tables and the descriptor are the same, as far as this one goes.
LEMMA BackSame ==
  ASSUME NEW rs \in Seq(Table), NEW t, NEW t2, NEW d \in Nat, NEW fd \in User, NEW v,
         t2[fd] = t[fd],
         \A k \in DOMAIN rs : rs[k][fd] \in Internal => t2[rs[k][fd]] = t[rs[k][fd]],
         Back(rs, t, d, fd, v)
  PROVE  Back(rs, t2, d, fd, v)
<1>1. Len(rs) \in Nat /\ DOMAIN rs = 1 .. Len(rs) /\ \A k \in DOMAIN rs : rs[k] \in Table
  BY LenProperties, ElementOfSeq
<1>2. ASSUME NEW l \in d + 1 .. Len(rs), rs[l][fd] # EMPTY
      PROVE  ValueOf(rs[l], t2, fd) = ValueOf(rs[l], t, fd)
  <2>1. l \in DOMAIN rs
    BY <1>1
  <2>2. rs[l][fd] \in {CLOSED} \cup Internal
    BY <1>1, <1>2, <2>1 DEF Table
  <2> QED BY <2>1, <2>2 DEF ValueOf
<1> QED BY <1>2 DEF Back

LEMMA BackQuiet ==
  ASSUME TypeOK, Quiet, NEW d \in Nat, NEW fd \in User, NEW v, Back(redirlist, fdtab, d, fd, v)
  PROVE  Back(redirlist', fdtab', d, fd, v)
<1>1. redirlist \in Seq(Table) /\ redirlist' = redirlist /\ fdtab'[fd] = fdtab[fd]
  BY DEF TypeOK, Quiet
<1>2. \A k \in DOMAIN redirlist : redirlist[k][fd] \in Internal =>
         fdtab'[redirlist[k][fd]] = fdtab[redirlist[k][fd]]
  BY QuietKeeps
<1> QED BY <1>1, <1>2, BackSame

LEMMA BackPush ==
  ASSUME TypeOK, pushredir, UNCHANGED fdtab, NEW d \in Nat, d <= Len(redirlist),
         NEW fd \in User, NEW v, Back(redirlist, fdtab, d, fd, v)
  PROVE  Back(redirlist', fdtab', d, fd, v)
<1>1. Empty \in Table /\ redirlist \in Seq(Table) /\ redirlist' = Append(redirlist, Empty)
  BY DEF Empty, Table, TypeOK, pushredir
<1>2. /\ Len(redirlist') = Len(redirlist) + 1 /\ redirlist'[Len(redirlist) + 1] = Empty
      /\ \A k \in 1 .. Len(redirlist) : redirlist'[k] = redirlist[k] /\ Len(redirlist) \in Nat
  BY <1>1, Pushed
<1>3. Len(redirlist) \in Nat /\ Empty[fd] = EMPTY
  BY <1>1, LenProperties DEF Empty
<1>4. CASE (\A l \in d + 1 .. Len(redirlist) : redirlist[l][fd] = EMPTY) /\ fdtab[fd] = v
  <2>1. ASSUME NEW l \in d + 1 .. Len(redirlist') PROVE redirlist'[l][fd] = EMPTY
    <3>1. CASE l = Len(redirlist) + 1
      BY <3>1, <1>2, <1>3
    <3>2. CASE l # Len(redirlist) + 1
      <4>1. l \in d + 1 .. Len(redirlist) /\ l \in 1 .. Len(redirlist)
        BY <3>2, <1>2, <1>3
      <4> QED BY <4>1, <1>2, <1>4
    <3> QED BY <3>1, <3>2
  <2> QED BY <2>1, <1>4 DEF Back
<1>5. ASSUME NEW l \in d + 1 .. Len(redirlist), redirlist[l][fd] # EMPTY,
             \A i \in d + 1 .. l - 1 : redirlist[i][fd] = EMPTY,
             ValueOf(redirlist[l], fdtab, fd) = v
      PROVE  Back(redirlist', fdtab', d, fd, v)
  <2>1. l \in d + 1 .. Len(redirlist') /\ l \in 1 .. Len(redirlist)
    BY <1>2, <1>3
  <2>2. \A i \in d + 1 .. l - 1 : redirlist'[i][fd] = EMPTY
    BY <1>2, <1>3, <1>5
  <2> QED BY <2>1, <2>2, <1>2, <1>5 DEF Back
<1> QED BY <1>4, <1>5 DEF Back

LEMMA BackRedirects ==
  ASSUME TypeOK, OwnInv, NEW c \in User, redirlist # <<>>, Redirects(c),
         NEW d \in Nat, d < Len(redirlist),
         NEW fd \in User, NEW v, Back(redirlist, fdtab, d, fd, v)
  PROVE  Back(redirlist', fdtab', d, fd, v)
<1> DEFINE n == Len(redirlist)
<1>1. /\ redirlist \in Seq(Table) /\ n \in Nat /\ DOMAIN redirlist = 1 .. n
      /\ Last(redirlist) = redirlist[n] /\ n >= 1 /\ \A k \in 1 .. n : redirlist[k] \in Table
  BY TableType, ElementOfSeq
<1>2. /\ \A k \in DOMAIN redirlist, u \in User :
           redirlist[k][u] \in Internal => fdtab'[redirlist[k][u]] = fdtab[redirlist[k][u]]
      /\ \A u \in User : u # c => fdtab'[u] = fdtab[u]
      /\ \/ redirlist[n][c] # EMPTY /\ UNCHANGED redirlist
         \/ /\ redirlist[n][c] = EMPTY
            /\ \E s \in Internal \cup {CLOSED} :
                 /\ redirlist' = [redirlist EXCEPT ![n] = [redirlist[n] EXCEPT ![c] = s]]
                 /\ s = CLOSED => fdtab[c] = "closed"
                 /\ s \in Internal => fdtab'[s] = fdtab[c]
  BY <1>1, RedirectsKeeps
<1>3. ASSUME NEW l \in 1 .. n, redirlist[l][fd] # EMPTY
      PROVE  ValueOf(redirlist[l], fdtab', fd) = ValueOf(redirlist[l], fdtab, fd)
  <2>1. redirlist[l][fd] \in {CLOSED} \cup Internal
    BY <1>1, <1>3 DEF Table
  <2> QED BY <1>1, <1>2, <2>1 DEF ValueOf
<1> HIDE DEF n
\* The tables stay as they are.
<1>4. ASSUME UNCHANGED redirlist, redirlist[n][c] # EMPTY
      PROVE  Back(redirlist', fdtab', d, fd, v)
  <2>1. CASE (\A l \in d + 1 .. n : redirlist[l][fd] = EMPTY) /\ fdtab[fd] = v
    <3>1. n \in d + 1 .. n
      BY <1>1 DEF n
    <3>2. fd # c
      BY <1>4, <2>1, <3>1
    <3> QED BY <1>2, <1>4, <2>1, <3>2 DEF Back, n
  <2>2. ASSUME NEW l \in d + 1 .. n, redirlist[l][fd] # EMPTY,
               \A i \in d + 1 .. l - 1 : redirlist[i][fd] = EMPTY,
               ValueOf(redirlist[l], fdtab, fd) = v
        PROVE  Back(redirlist', fdtab', d, fd, v)
    <3>1. l \in 1 .. n
      BY <1>1
    <3>2. ValueOf(redirlist[l], fdtab', fd) = v
      BY <1>3, <2>2, <3>1
    <3> QED BY <1>4, <2>2, <3>2 DEF Back, n
  <2> QED BY <2>1, <2>2 DEF Back, n
\* c is saved in the last one.
<1>5. ASSUME NEW s \in Internal \cup {CLOSED}, redirlist[n][c] = EMPTY,
             redirlist' = [redirlist EXCEPT ![n] = [redirlist[n] EXCEPT ![c] = s]],
             s = CLOSED => fdtab[c] = "closed",
             s \in Internal => fdtab'[s] = fdtab[c]
      PROVE  Back(redirlist', fdtab', d, fd, v)
  <2>1. /\ Len(redirlist') = n /\ n \in 1 .. n /\ n \in d + 1 .. n
        /\ redirlist[n] \in [User -> {EMPTY, CLOSED} \cup Internal]
    BY <1>1, <1>5 DEF n, Table
  <2>2. \A k \in 1 .. n : k # n => redirlist'[k] = redirlist[k]
    BY <1>1, <1>5 DEF n
  <2>3. redirlist'[n][c] = s /\ \A u \in User : u # c => redirlist'[n][u] = redirlist[n][u]
    BY <1>1, <1>5, <2>1
  <2>4. s # EMPTY /\ CLOSED \notin Internal
    BY Descriptors
  <2>5. CASE fd = c
    <3>1. \A l \in d + 1 .. n : redirlist[l][fd] # EMPTY => l # n
      BY <1>5, <2>5
    <3>2. CASE (\A l \in d + 1 .. n : redirlist[l][fd] = EMPTY) /\ fdtab[fd] = v
      <4>1. ValueOf(redirlist'[n], fdtab', fd) = v
        BY <1>5, <2>3, <2>4, <2>5, <3>2 DEF ValueOf
      <4>2. \A i \in d + 1 .. n - 1 : redirlist'[i][fd] = EMPTY
        <5> SUFFICES ASSUME NEW i \in d + 1 .. n - 1 PROVE redirlist'[i][fd] = EMPTY
          OBVIOUS
        <5>1. i \in 1 .. n /\ i # n
          BY <1>1
        <5>2. i \in d + 1 .. n
          BY <1>1
        <5> QED BY <5>1, <5>2, <2>2, <3>2
      <4> QED BY <4>1, <4>2, <2>1, <2>3, <2>4, <2>5 DEF Back
    <3>3. ASSUME NEW l \in d + 1 .. n, redirlist[l][fd] # EMPTY,
                 \A i \in d + 1 .. l - 1 : redirlist[i][fd] = EMPTY,
                 ValueOf(redirlist[l], fdtab, fd) = v
          PROVE  Back(redirlist', fdtab', d, fd, v)
      <4>1. l \in 1 .. n /\ l # n
        BY <1>1, <3>1, <3>3
      <4>2. redirlist'[l] = redirlist[l] /\ ValueOf(redirlist[l], fdtab', fd) = v
        BY <1>3, <2>2, <3>3, <4>1
      <4>3. \A i \in d + 1 .. l - 1 : redirlist'[i][fd] = EMPTY
        <5> SUFFICES ASSUME NEW i \in d + 1 .. l - 1 PROVE redirlist'[i][fd] = EMPTY
          OBVIOUS
        <5>1. i \in 1 .. n /\ i # n
          BY <1>1, <4>1
        <5> QED BY <5>1, <2>2, <3>3
      <4> QED BY <2>1, <3>3, <4>2, <4>3 DEF Back
    <3> QED BY <3>2, <3>3 DEF Back, n
  <2>6. CASE fd # c
    <3>1. \A k \in 1 .. n : redirlist'[k][fd] = redirlist[k][fd]
      BY <2>2, <2>3, <2>6
    <3>2. CASE (\A l \in d + 1 .. n : redirlist[l][fd] = EMPTY) /\ fdtab[fd] = v
      <4>1. \A l \in d + 1 .. n : redirlist'[l][fd] = EMPTY
        BY <1>1, <3>1, <3>2
      <4> QED BY <4>1, <1>2, <2>1, <2>6, <3>2 DEF Back
    <3>3. ASSUME NEW l \in d + 1 .. n, redirlist[l][fd] # EMPTY,
                 \A i \in d + 1 .. l - 1 : redirlist[i][fd] = EMPTY,
                 ValueOf(redirlist[l], fdtab, fd) = v
          PROVE  Back(redirlist', fdtab', d, fd, v)
      <4>1. l \in 1 .. n
        BY <1>1
      <4>2. ValueOf(redirlist'[l], fdtab', fd) = v /\ redirlist'[l][fd] # EMPTY
        BY <1>3, <3>1, <3>3, <4>1 DEF ValueOf
      <4>3. \A i \in d + 1 .. l - 1 : redirlist'[i][fd] = EMPTY
        <5> SUFFICES ASSUME NEW i \in d + 1 .. l - 1 PROVE redirlist'[i][fd] = EMPTY
          OBVIOUS
        <5>1. i \in 1 .. n
          BY <1>1, <4>1
        <5> QED BY <5>1, <3>1, <3>3
      <4> QED BY <2>1, <4>2, <4>3 DEF Back
    <3> QED BY <3>2, <3>3 DEF Back, n
  <2> QED BY <2>5, <2>6
<1> QED BY <1>2, <1>4, <1>5

\* The last table is popped: restored, or not among those that it would restore.
LEMMA BackPop ==
  ASSUME TypeOK, OwnInv, redirlist # <<>>, NEW drop \in BOOLEAN, Pop(drop),
         NEW d \in Nat, d < Len(redirlist), NEW fd \in User, NEW v,
         drop => Last(redirlist)[fd] = EMPTY,
         Back(redirlist, fdtab, d, fd, v)
  PROVE  Back(redirlist', fdtab', d, fd, v)
<1> DEFINE n == Len(redirlist)
<1>1. /\ redirlist \in Seq(Table) /\ n \in Nat \ {0} /\ DOMAIN redirlist = 1 .. n
      /\ Last(redirlist) = redirlist[n] /\ \A k \in 1 .. n : redirlist[k] \in Table
  BY TableType, ElementOfSeq
<1>2. /\ Len(redirlist') = n - 1 /\ \A k \in 1 .. n - 1 : redirlist'[k] = redirlist[k]
      /\ fdtab'[fd] = IF ~drop /\ redirlist[n][fd] # EMPTY
                      THEN ValueOf(redirlist[n], fdtab, fd) ELSE fdtab[fd]
  BY <1>1, PopType DEF ValueOf
<1>3. ASSUME NEW l \in 1 .. n - 1, redirlist[l][fd] # EMPTY
      PROVE  ValueOf(redirlist[l], fdtab', fd) = ValueOf(redirlist[l], fdtab, fd)
  <2>1. redirlist[l][fd] \in {CLOSED} \cup Internal
    BY <1>1, <1>3 DEF Table
  <2> QED BY <2>1, PopKeeps DEF ValueOf
<1> HIDE DEF n
<1>4. \A i \in d + 1 .. n - 1 : i \in 1 .. n - 1 /\ i \in d + 1 .. n
  BY <1>1
<1>5. CASE (\A l \in d + 1 .. n : redirlist[l][fd] = EMPTY) /\ fdtab[fd] = v
  <2>1. \A l \in d + 1 .. n - 1 : redirlist'[l][fd] = EMPTY
    BY <1>2, <1>4, <1>5
  <2>2. n \in d + 1 .. n
    BY <1>1 DEF n
  <2> QED BY <1>2, <1>5, <2>1, <2>2 DEF Back
<1>6. ASSUME NEW l \in d + 1 .. n, redirlist[l][fd] # EMPTY,
             \A i \in d + 1 .. l - 1 : redirlist[i][fd] = EMPTY,
             ValueOf(redirlist[l], fdtab, fd) = v
      PROVE  Back(redirlist', fdtab', d, fd, v)
  <2>1. CASE l = n
    <3>1. fdtab'[fd] = v
      BY <1>1, <1>2, <1>6, <2>1
    <3>2. \A i \in d + 1 .. n - 1 : redirlist'[i][fd] = EMPTY
      BY <1>2, <1>4, <1>6, <2>1
    <3> QED BY <1>2, <3>1, <3>2 DEF Back
  <2>2. CASE l # n
    <3>1. l \in 1 .. n - 1 /\ l \in d + 1 .. n - 1
      BY <1>1, <2>2
    <3>2. redirlist'[l][fd] # EMPTY /\ ValueOf(redirlist'[l], fdtab', fd) = v
      BY <1>2, <1>3, <1>6, <3>1
    <3>3. \A i \in d + 1 .. l - 1 : redirlist'[i][fd] = EMPTY
      <4> SUFFICES ASSUME NEW i \in d + 1 .. l - 1 PROVE redirlist'[i][fd] = EMPTY
        OBVIOUS
      <4>1. i \in 1 .. n - 1
        BY <1>1, <3>1
      <4> QED BY <4>1, <1>2, <1>6
    <3> QED BY <1>2, <3>1, <3>2, <3>3 DEF Back
  <2> QED BY <2>1, <2>2
<1> QED BY <1>5, <1>6 DEF Back, n

-----------------------------------------------------------------------------
(* Depths grow along the stack.                                            *)

LEMMA CountGrows ==
  ASSUME NEW c, NEW i \in Nat, NEW j \in Nat, i <= j
  PROVE  Count(c, i) <= Count(c, j) /\ Count(c, i) \in Nat /\ Count(c, j) \in Nat
<1> DEFINE P == {k \in 1 .. i : c[k].pushed}
           Q == {k \in 1 .. j : c[k].pushed}
<1>1. P \subseteq Q /\ Q \subseteq 1 .. j /\ IsFiniteSet(1 .. j)
  BY FS_Interval
<1>2. IsFiniteSet(Q)
  <2> HIDE DEF Q
  <2> QED BY <1>1, FS_Subset
<1>3. Cardinality(P) <= Cardinality(Q) /\ Cardinality(P) \in Nat /\ Cardinality(Q) \in Nat
  <2> HIDE DEF P, Q
  <2> QED BY <1>1, <1>2, FS_Subset, FS_CardinalityType
<1> QED BY <1>3 DEF Count

LEMMA DepthOrder ==
  ASSUME TypeOK, Depths, Running, ctx # <<>>
  PROVE  /\ \A k \in DOMAIN ctx : /\ ctx[k].redirs \in Nat
                                 /\ ctx[k].redirs <= Last(ctx).redirs
                                 /\ ctx[k].redirs <= Len(redirlist)
         /\ ctx[1].redirs = 0 /\ Last(ctx).redirs \in Nat /\ Len(redirlist) \in Nat
<1>1. /\ Len(ctx) \in Nat \ {0} /\ DOMAIN ctx = 1 .. Len(ctx) /\ Last(ctx) = ctx[Len(ctx)]
      /\ \A k \in 1 .. Len(ctx) : ctx[k].redirs \in Nat
  BY CtxType
<1>2. /\ Last(ctx).redirs = Count(ctx, Len(ctx) - 1) /\ Last(ctx).pushed \in BOOLEAN
      /\ Len(redirlist) = Last(ctx).redirs + (IF Last(ctx).pushed THEN 1 ELSE 0)
  BY <1>1, OwnTable, CtxType
<1>3. ASSUME NEW k \in DOMAIN ctx PROVE ctx[k].redirs <= Last(ctx).redirs
  <2>1. k - 1 \in Nat /\ Len(ctx) - 1 \in Nat /\ k - 1 <= Len(ctx) - 1
    BY <1>1
  <2>2. ctx[k].redirs = Count(ctx, k - 1)
    BY DEF Depths
  <2> QED BY <1>2, <2>1, <2>2, CountGrows
<1>4. 1 \in DOMAIN ctx /\ 1 - 1 = 0
  BY <1>1
<1>5. ctx[1].redirs = 0
  BY <1>4, CountZero DEF Depths
<1> QED BY <1>1, <1>2, <1>3, <1>5

-----------------------------------------------------------------------------
(* The ways a step treats the commands on the stack.                       *)

\* Nothing begins and nothing ends.
LEMMA StayQuiet ==
  ASSUME StackInv, StackInv', Returns, Quiet, UNCHANGED entry,
         pc \notin {"unwind", "leave"}, pc' \notin {"unwind", "leave"},
         Len(ctx') = Len(ctx), \A k \in DOMAIN ctx : ctx'[k].redirs = ctx[k].redirs
  PROVE  Returns' /\ Ends
<1>1. TypeOK /\ DOMAIN ctx = 1 .. Len(ctx) /\ DOMAIN ctx' = 1 .. Len(ctx)
      /\ \A k \in DOMAIN ctx : ctx[k].redirs \in Nat
  BY CtxType, LenProperties DEF StackInv, TypeOK
<1>2. ASSUME NEW k \in DOMAIN ctx', NEW fd \in User \ entry'[k].execd
      PROVE  Back(redirlist', fdtab', ctx'[k].redirs, fd, entry'[k].view[fd])
  <2>1. Back(redirlist, fdtab, ctx[k].redirs, fd, entry[k].view[fd])
    BY <1>1 DEF Returns
  <2> QED BY <1>1, <2>1, BackQuiet
<1>3. Ends
  <2>1. ~(Len(entry') < Len(entry))
    <3>1. Len(entry) \in Nat
      BY LenProperties DEF StackInv, TypeOK
    <3> QED BY <3>1
  <2> QED BY <2>1 DEF Ends
<1> QED BY <1>2, <1>3 DEF Returns, Back, ValueOf

\* A command becomes what it turns out to be: its depth stays.
LEMMA BecomeDepths ==
  ASSUME TypeOK, ctx # <<>>, NEW kind \in Kinds, NEW special \in BOOLEAN, NEW exec \in BOOLEAN,
         Become(kind, special, exec)
  PROVE  Len(ctx') = Len(ctx) /\ \A k \in DOMAIN ctx : ctx'[k].redirs = ctx[k].redirs
<1>1. /\ Len(ctx') = Len(ctx) /\ DOMAIN ctx' = DOMAIN ctx
      /\ Last(ctx') = [Last(ctx) EXCEPT !.kind = kind, !.special = special, !.exec = exec]
      /\ \A k \in 1 .. Len(ctx) - 1 : ctx'[k] = ctx[k]
  BY BecomeFrame
<1>2. /\ Len(ctx) \in Nat \ {0} /\ DOMAIN ctx = 1 .. Len(ctx) /\ Last(ctx) = ctx[Len(ctx)]
      /\ Last(ctx) \in Frame
  BY CtxType
<1>3. ctx'[Len(ctx)].redirs = ctx[Len(ctx)].redirs
  BY <1>1, <1>2 DEF Last, Frame
<1> QED BY <1>1, <1>2, <1>3

\* An error takes the shell back to main: only the first command is still of
\* interest.
LEMMA StayRaised ==
  ASSUME StackInv, OwnInv, Returns, NEW e, exraise(e), UNCHANGED redirlist,
         \/ pc \in {"run", "located"}
         \/ pc = "failed" /\ Last(ctx).kind = "simple"
  PROVE  Returns' /\ Ends
<1>1. TypeOK /\ Shape /\ Nesting /\ Depths /\ Quiet
  BY QuietRaised DEF StackInv
<1>2. ctx' = <<>> /\ UNCHANGED entry /\ pc' \in {"leave", "unwind"}
  BY <1>1, Raised
<1>3. Len(entry) = Len(ctx) /\ Running
  BY <1>1 DEF Shape, Running
<1>4. ASSUME entry # <<>>, NEW fd \in User \ entry[1].execd
      PROVE  Back(redirlist', fdtab', 0, fd, entry[1].view[fd])
  <2>1. ctx # <<>> /\ 1 \in DOMAIN ctx
    BY <1>1, <1>3, <1>4, CtxType, EmptySeq DEF TypeOK
  <2>2. ctx[1].redirs = 0
    BY <1>1, <1>3, <2>1, DepthOrder
  <2>3. Back(redirlist, fdtab, 0, fd, entry[1].view[fd])
    BY <1>3, <1>4, <2>1, <2>2 DEF Returns, Running
  <2> QED BY <1>1, <2>3, BackQuiet
<1>5. ~(Len(entry') < Len(entry))
  <2>1. Len(entry) \in Nat
    BY <1>1, LenProperties DEF TypeOK
  <2> QED BY <1>2, <2>1
<1> QED BY <1>2, <1>4, <1>5 DEF Returns, Ends, Back, ValueOf

\* The last command ends, its table popped or never made.
LEMMA StayEnds ==
  ASSUME StackInv, StackInv', OwnInv, Returns, ctx # <<>>, Running,
         ctx' = Front(ctx), entry' = Front(entry), pc' = "run",
         \/ Quiet /\ Len(redirlist) = Last(ctx).redirs
         \/ Pop(FALSE) /\ redirlist # <<>> /\ Len(redirlist) = Last(ctx).redirs + 1
  PROVE  Returns' /\ Ends
<1>1. TypeOK /\ TypeOK' /\ Shape /\ Depths /\ pc \notin {"unwind", "leave"} /\ Len(entry) = Len(ctx)
  BY DEF StackInv, Shape, Running
<1>2. /\ ctx \in Seq(Frame) /\ entry \in Seq(Found) /\ Len(ctx) \in Nat \ {0}
      /\ DOMAIN ctx = 1 .. Len(ctx) /\ Last(ctx) = ctx[Len(ctx)] /\ entry # <<>>
  BY <1>1, CtxType DEF TypeOK, Found
<1>3. /\ DOMAIN ctx' = 1 .. Len(ctx) - 1 /\ Len(entry') = Len(ctx) - 1
      /\ \A k \in 1 .. Len(ctx) - 1 : ctx'[k] = ctx[k] /\ entry'[k] = entry[k]
  BY <1>1, <1>2, FrontType
<1>4. /\ \A k \in DOMAIN ctx : ctx[k].redirs \in Nat /\ ctx[k].redirs <= Last(ctx).redirs
      /\ Last(ctx).redirs \in Nat
  BY <1>1, DepthOrder
<1>5. ASSUME NEW k \in DOMAIN ctx, NEW fd \in User \ entry[k].execd
      PROVE  Back(redirlist', fdtab', ctx[k].redirs, fd, entry[k].view[fd])
  <2>1. Back(redirlist, fdtab, ctx[k].redirs, fd, entry[k].view[fd])
    BY <1>1 DEF Returns
  <2>2. CASE Quiet
    BY <1>1, <1>4, <2>1, <2>2, BackQuiet
  <2>3. CASE Pop(FALSE) /\ redirlist # <<>> /\ Len(redirlist) = Last(ctx).redirs + 1
    <3>1. ctx[k].redirs < Len(redirlist) /\ ctx[k].redirs \in Nat
      BY <1>4, <2>3
    <3> QED BY <1>1, <2>1, <2>3, <3>1, BackPop
  <2> QED BY <2>2, <2>3
<1>6. Returns'
  <2>1. \A k \in DOMAIN ctx' : \A fd \in User \ entry'[k].execd :
           Back(redirlist', fdtab', ctx'[k].redirs, fd, entry'[k].view[fd])
    BY <1>2, <1>3, <1>5
  <2> QED BY <2>1 DEF Returns, Back, ValueOf
<1>7. Ends
  <2>1. Len(redirlist') = Last(ctx).redirs /\ redirlist' \in Seq(Table)
    <3>1. CASE Quiet /\ Len(redirlist) = Last(ctx).redirs
      BY <1>1, <3>1 DEF Quiet, TypeOK
    <3>2. CASE Pop(FALSE) /\ redirlist # <<>> /\ Len(redirlist) = Last(ctx).redirs + 1
      <4>1. TypeOK /\ Last(ctx).redirs \in Nat /\ FALSE \in BOOLEAN
        BY <1>1, <1>4
      <4>2. redirlist' \in Seq(Table) /\ Len(redirlist') = Len(redirlist) - 1
        BY <3>2, <4>1, PopType
      <4> QED BY <3>2, <4>1, <4>2
    <3> QED BY <3>1, <3>2, <1>1, <1>4
  <2>2. Len(entry') + 1 = Len(ctx) /\ Len(ctx) \in DOMAIN ctx
    BY <1>2, <1>3
  <2>3. ASSUME NEW fd \in User \ entry[Len(ctx)].execd
        PROVE  fdtab'[fd] = entry[Len(ctx)].view[fd]
    <3>1. Back(redirlist', fdtab', Last(ctx).redirs, fd, entry[Len(ctx)].view[fd])
      BY <1>2, <1>5, <2>2
    <3> QED BY <1>4, <2>1, <3>1, BackNow
  <2> QED BY <2>2, <2>3 DEF Ends
<1> QED BY <1>6, <1>7

\* The stack is empty, and no error is being dealt with.
LEMMA StayIdle ==
  ASSUME StackInv', ctx' = <<>>, pc' \notin {"unwind", "leave"} \/ entry' = <<>>,
         Len(entry') = Len(entry) \/ level' # level, StackInv
  PROVE  Returns' /\ Ends
<1>1. DOMAIN ctx' = {}
  OBVIOUS
<1>2. Len(entry) \in Nat
  BY LenProperties DEF StackInv, TypeOK
<1> QED BY <1>1, <1>2 DEF Returns, Ends

-----------------------------------------------------------------------------
(* The actions.                                                            *)

LEMMA ReturnsInit == Init => Returns
BY DEF Init, Returns

LEMMA ReturnsBegin == StackInv /\ StackInv' /\ OwnInv /\ Returns /\ Begin => Returns' /\ Ends
<1> SUFFICES ASSUME StackInv, StackInv', OwnInv, Returns, Begin PROVE Returns' /\ Ends
  OBVIOUS
<1>1. TypeOK /\ Shape /\ Depths /\ pc = "run" /\ Len(entry) = Len(ctx) /\ UNCHANGED fdtab
      /\ pc' \in {"redir", "located"} /\ Running
  BY DEF StackInv, Shape, Begin, Running
<1>2. PICK f : ctx' = Append(ctx, f) /\ f.redirs = Len(redirlist)
  BY DEF Begin, NewFrame
<1>3. entry' = Append(entry, [view |-> View, execd |-> {}])
  BY DEF Begin
<1>4. /\ Len(ctx) \in Nat /\ DOMAIN ctx = 1 .. Len(ctx) /\ ctx'[Len(ctx) + 1] = f
      /\ DOMAIN ctx' = 1 .. Len(ctx) + 1
      /\ \A k \in 1 .. Len(ctx) : ctx'[k] = ctx[k]
  BY <1>1, <1>2, CtxType
<1>5. /\ entry'[Len(ctx) + 1] = [view |-> View, execd |-> {}] /\ Len(entry') = Len(entry) + 1
      /\ \A k \in 1 .. Len(ctx) : entry'[k] = entry[k]
  <2>1. entry \in Seq(Found)
    BY <1>1 DEF TypeOK, Found
  <2> QED BY <1>1, <1>3, <2>1
<1>6. redirlist \in Seq(Table) /\ Len(redirlist) \in Nat
  BY <1>1, TableType
<1>7. ASSUME NEW d \in Nat, d <= Len(redirlist), NEW fd \in User, NEW v,
             Back(redirlist, fdtab, d, fd, v)
      PROVE  Back(redirlist', fdtab', d, fd, v)
  <2>1. CASE pushredir
    BY <1>1, <1>7, <2>1, BackPush
  <2>2. CASE UNCHANGED redirlist
    BY <1>1, <1>7, <2>2
  <2> QED BY <2>1, <2>2 DEF Begin
<1>8. ASSUME NEW k \in DOMAIN ctx', NEW fd \in User \ entry'[k].execd
      PROVE  Back(redirlist', fdtab', ctx'[k].redirs, fd, entry'[k].view[fd])
  <2>1. CASE k \in 1 .. Len(ctx)
    <3>1. Back(redirlist, fdtab, ctx[k].redirs, fd, entry[k].view[fd])
      BY <1>1, <1>4, <1>5, <2>1 DEF Returns
    <3>2. ctx[k].redirs \in Nat /\ ctx[k].redirs <= Len(redirlist)
      BY <1>1, <1>4, <2>1, DepthOrder
    <3> QED BY <1>4, <1>5, <1>7, <2>1, <3>1, <3>2
  <2>2. CASE k = Len(ctx) + 1
    <3>1. View[fd] = fdtab[fd]
      BY DEF View
    <3>2. Back(redirlist, fdtab, Len(redirlist), fd, fdtab[fd])
      BY <1>6, BackNow
    <3> QED BY <1>2, <1>4, <1>5, <1>6, <1>7, <2>2, <3>1, <3>2
  <2> QED BY <1>4, <2>1, <2>2
<1>9. Ends
  <2>1. Len(entry) \in Nat
    BY <1>1, <1>4
  <2> QED BY <1>5, <2>1 DEF Ends
<1> QED BY <1>1, <1>8, <1>9 DEF Returns, Back, ValueOf

LEMMA ReturnsRedirect == StackInv /\ StackInv' /\ OwnInv /\ Returns /\ Redirect => Returns' /\ Ends
<1> SUFFICES ASSUME StackInv, StackInv', OwnInv, Returns, Redirect PROVE Returns' /\ Ends
  OBVIOUS
<1>1. /\ TypeOK /\ Shape /\ Depths /\ pc = "redir" /\ UNCHANGED <<ctx, entry>> /\ Running
      /\ ctx # <<>> /\ Last(ctx).pushed /\ pc' \notin {"unwind", "leave"}
  BY DEF StackInv, Shape, Redirect, Running
<1>2. redirlist # <<>> /\ Len(redirlist) = Last(ctx).redirs + 1
  BY <1>1, OwnTable
<1>3. CASE UNCHANGED <<fdtab, redirlist>>
  <2>1. Quiet
    BY <1>3 DEF Quiet
  <2> QED BY <1>1, <2>1, StayQuiet
<1>4. ASSUME NEW c \in User, Redirects(c) PROVE Returns' /\ Ends
  <2>1. ASSUME NEW k \in DOMAIN ctx, NEW fd \in User \ entry[k].execd
        PROVE  Back(redirlist', fdtab', ctx[k].redirs, fd, entry[k].view[fd])
    <3>1. Back(redirlist, fdtab, ctx[k].redirs, fd, entry[k].view[fd])
      BY <1>1 DEF Returns
    <3>2. ctx[k].redirs \in Nat /\ ctx[k].redirs < Len(redirlist)
      BY <1>1, <1>2, DepthOrder
    <3> QED BY <1>1, <1>2, <1>4, <3>1, <3>2, BackRedirects
  <2>2. ~(Len(entry') < Len(entry))
    <3>1. Len(entry) \in Nat
      BY <1>1, LenProperties DEF TypeOK
    <3> QED BY <1>1, <3>1
  <2> QED BY <1>1, <2>1, <2>2 DEF Returns, Ends, Back, ValueOf
<1>5. \/ UNCHANGED <<fdtab, redirlist>>
      \/ \E c \in User : Redirects(c)
  BY <1>1, <1>2, RedirEffect DEF Redirect
<1> QED BY <1>3, <1>4, <1>5

LEMMA ReturnsFailed == StackInv /\ StackInv' /\ OwnInv /\ Returns /\ Failed => Returns' /\ Ends
<1> SUFFICES ASSUME StackInv, StackInv', OwnInv, Returns, Failed PROVE Returns' /\ Ends
  OBVIOUS
<1>1. /\ TypeOK /\ Shape /\ Depths /\ pc = "failed" /\ Running /\ ctx # <<>> /\ Last(ctx).pushed
      /\ Last(ctx).kind \in {"compound", "simple"}
  BY DEF StackInv, Shape, Failed, Running
<1>2. redirlist # <<>> /\ Len(redirlist) = Last(ctx).redirs + 1
  BY <1>1, OwnTable
<1>3. CASE Last(ctx).kind = "compound"
  <2>1. Pop(FALSE) /\ ctx' = Front(ctx) /\ entry' = Front(entry) /\ pc' = "run"
    BY <1>3 DEF Failed
  <2> QED BY <1>1, <1>2, <2>1, StayEnds
<1>4. CASE Last(ctx).kind = "simple" /\ exraise("EXERROR") /\ UNCHANGED redirlist
  BY <1>1, <1>4, StayRaised
<1>5. CASE /\ Last(ctx).kind = "simple" /\ pc' = "out"
           /\ \E exec \in BOOLEAN : Become("simple", FALSE, exec)
           /\ UNCHANGED <<fdtab, redirlist, parsefile, entry>>
  <2>1. Quiet
    BY <1>5 DEF Quiet
  <2> QED BY <1>1, <1>5, <2>1, BecomeDepths, StayQuiet DEF Kinds
<1> QED BY <1>1, <1>3, <1>4, <1>5 DEF Failed

LEMMA ReturnsLocated ==
  StackInv /\ StackInv' /\ OwnInv /\ Returns /\ (Leaf \/ LeafFails \/ Enter) => Returns' /\ Ends
<1> SUFFICES ASSUME StackInv, StackInv', OwnInv, Returns, Leaf \/ LeafFails \/ Enter
             PROVE  Returns' /\ Ends
  OBVIOUS
<1>1. TypeOK /\ pc = "located" /\ ctx # <<>> /\ Quiet
  BY QuietSteps DEF StackInv, Shape, Leaf, LeafFails, Enter
<1>2. ASSUME NEW kind \in Kinds, NEW special \in BOOLEAN, NEW exec \in BOOLEAN,
             Become(kind, special, exec), UNCHANGED entry, pc' \in {"run", "out"}
      PROVE  Returns' /\ Ends
  BY <1>1, <1>2, BecomeDepths, StayQuiet
<1>3. ASSUME exraise("EXERROR"), UNCHANGED redirlist PROVE Returns' /\ Ends
  BY <1>1, <1>3, StayRaised
<1>4. {"simple", "function", "eval", "dot"} \subseteq Kinds
  BY DEF Kinds
<1>5. CASE Leaf
  BY <1>2, <1>4, <1>5 DEF Leaf
<1>6. CASE LeafFails
  BY <1>2, <1>3, <1>4, <1>6 DEF LeafFails
<1>7. CASE Enter
  BY <1>2, <1>4, <1>7 DEF Enter
<1> QED BY <1>5, <1>6, <1>7

LEMMA ReturnsEndBody == StackInv /\ StackInv' /\ OwnInv /\ Returns /\ EndBody => Returns' /\ Ends
<1> SUFFICES ASSUME StackInv, StackInv', OwnInv, Returns, EndBody PROVE Returns' /\ Ends
  OBVIOUS
<1>1. TypeOK /\ Shape /\ Depths /\ pc = "run" /\ Running /\ ctx # <<>>
  BY DEF StackInv, EndBody, Running
<1>2. CASE Last(ctx).kind = "compound"
  <2>1. Pop(FALSE) /\ ctx' = Front(ctx) /\ entry' = Front(entry) /\ pc' = "run"
    BY <1>2 DEF EndBody
  <2>2. Last(ctx) = ctx[Len(ctx)] /\ Len(ctx) \in DOMAIN ctx
    BY <1>1, CtxType
  <2>3. Last(ctx).pushed
    BY <1>1, <1>2, <2>2 DEF Shape
  <2>4. redirlist # <<>> /\ Len(redirlist) = Last(ctx).redirs + 1
    BY <1>1, <2>3, OwnTable
  <2> QED BY <1>1, <2>1, <2>4, StayEnds
<1>3. CASE ~(Last(ctx).kind = "compound")
  <2>1. Quiet
    BY <1>3, QuietSteps
  <2>2. pc' = "out" /\ UNCHANGED <<ctx, entry>>
    BY <1>3 DEF EndBody
  <2> QED BY <1>1, <2>1, <2>2, StayQuiet
<1> QED BY <1>2, <1>3

LEMMA ReturnsOut == StackInv /\ StackInv' /\ OwnInv /\ Returns /\ Out => Returns' /\ Ends
<1> SUFFICES ASSUME StackInv, StackInv', OwnInv, Returns, Out PROVE Returns' /\ Ends
  OBVIOUS
<1>1. /\ TypeOK /\ Shape /\ Depths /\ pc = "out" /\ Running /\ ctx # <<>>
      /\ Len(entry) = Len(ctx) /\ entry \in Seq(Found)
  BY DEF StackInv, Out, Running, Shape, TypeOK, Found
<1>2. /\ Len(ctx) \in Nat \ {0} /\ DOMAIN ctx = 1 .. Len(ctx) /\ Last(ctx) = ctx[Len(ctx)]
      /\ Last(ctx).redirs \in Nat /\ ctx \in Seq(Frame) /\ Last(ctx) \in Frame
      /\ Last(ctx).pushed \in BOOLEAN /\ Last(ctx).exec \in BOOLEAN
  BY <1>1, CtxType
<1>3. /\ Len(redirlist) = Last(ctx).redirs + (IF Last(ctx).pushed THEN 1 ELSE 0)
  BY <1>1, OwnTable
<1>4. CASE Len(redirlist) > Last(ctx).redirs
  <2> DEFINE drop == Last(ctx).pushed /\ Last(ctx).exec
             kept == {fd \in User : Last(redirlist)[fd] # EMPTY}
  <2>1. /\ Pop(drop) /\ ctx' = [ctx EXCEPT ![Len(ctx)].pushed = FALSE]
        /\ entry' = IF ~drop THEN entry
                    ELSE [k \in DOMAIN entry |-> [entry[k] EXCEPT !.execd = @ \cup kept]]
        /\ UNCHANGED pc
    BY <1>4 DEF Out
  <2>2. redirlist # <<>> /\ drop \in BOOLEAN /\ kept \subseteq User
    BY <1>1, <1>2, <1>4, OwnTable
  <2>3. DOMAIN ctx' = 1 .. Len(ctx) /\ \A k \in 1 .. Len(ctx) : ctx'[k].redirs = ctx[k].redirs
    BY <1>2, <2>1 DEF Frame
  <2>4. Len(redirlist) = Last(ctx).redirs + 1
    BY <1>2, <1>3, <1>4
  <2>5. drop => \A k \in 1 .. Len(ctx) : \A fd \in User \ entry'[k].execd : fd \notin kept
    <3>1. DOMAIN entry = 1 .. Len(ctx) /\ \A k \in 1 .. Len(ctx) : entry[k] \in Found
      BY <1>1, <1>2, LenProperties, ElementOfSeq
    <3> HIDE DEF kept, drop
    <3> QED BY <2>1, <3>1 DEF Found
  <2>6. /\ Len(entry') = Len(entry)
        /\ \A k \in 1 .. Len(entry) :
             entry'[k].view = entry[k].view /\ entry[k].execd \subseteq entry'[k].execd
    <3> HIDE DEF kept, drop
    <3> QED BY <1>1, <2>1, <2>2, EntryWidened
  <2>7. ASSUME NEW k \in DOMAIN ctx', NEW fd \in User \ entry'[k].execd
        PROVE  Back(redirlist', fdtab', ctx'[k].redirs, fd, entry'[k].view[fd])
    <3>1. k \in DOMAIN ctx /\ k \in 1 .. Len(entry) /\ fd \notin entry[k].execd
      BY <1>1, <1>2, <2>3, <2>6
    <3>2. Back(redirlist, fdtab, ctx[k].redirs, fd, entry[k].view[fd])
      BY <1>1, <3>1 DEF Returns
    <3>3. ctx[k].redirs \in Nat /\ ctx[k].redirs < Len(redirlist)
      BY <1>1, <2>4, <3>1, DepthOrder
    <3>4. drop => Last(redirlist)[fd] = EMPTY
      BY <1>2, <2>5, <3>1
    <3>5. Back(redirlist', fdtab', ctx[k].redirs, fd, entry[k].view[fd])
      <4> HIDE DEF drop
      <4> QED BY <1>1, <2>1, <2>2, <3>2, <3>3, <3>4, BackPop
    <3> QED BY <2>3, <2>6, <3>1, <3>5, <1>2
  <2>8. Returns'
    <3>1. pc' \notin {"unwind", "leave"}
      BY <1>1, <2>1
    <3> QED BY <2>7, <3>1 DEF Returns, Back, ValueOf
  <2>9. Ends
    <3>1. ~(Len(entry') < Len(entry))
      BY <1>1, <1>2, <2>6
    <3> QED BY <3>1 DEF Ends
  <2> QED BY <2>8, <2>9
<1>5. CASE ~(Len(redirlist) > Last(ctx).redirs)
  <2>1. Quiet
    BY <1>5, QuietSteps
  <2>2. ctx' = Front(ctx) /\ entry' = Front(entry) /\ pc' = "run"
    BY <1>5 DEF Out
  <2>3. Len(redirlist) = Last(ctx).redirs
    BY <1>2, <1>3, <1>5
  <2> QED BY <1>1, <2>1, <2>2, <2>3, StayEnds
<1> QED BY <1>4, <1>5

LEMMA ReturnsUnwind == StackInv /\ StackInv' /\ OwnInv /\ Returns /\ Unwind => Returns' /\ Ends
<1> SUFFICES ASSUME StackInv, StackInv', OwnInv, Returns, Unwind PROVE Returns' /\ Ends
  OBVIOUS
<1>1. TypeOK /\ pc \in {"unwind", "leave"} /\ ctx = <<>> /\ ctx' = <<>>
      /\ Len(entry) \in Nat /\ entry \in Seq(Found)
  BY LenProperties DEF StackInv, Unwind, Shape, TypeOK, Found
<1>2. CASE redirlist # <<>>
  <2>1. Pop(FALSE) /\ UNCHANGED <<entry, pc>>
    BY <1>2 DEF Unwind
  <2>2. ASSUME entry # <<>>, NEW fd \in User \ entry[1].execd
        PROVE  Back(redirlist', fdtab', 0, fd, entry[1].view[fd])
    <3>1. Back(redirlist, fdtab, 0, fd, entry[1].view[fd])
      BY <1>1, <2>2 DEF Returns
    <3>2. 0 < Len(redirlist)
      BY <1>1, <1>2, TableType
    <3> QED BY <1>1, <1>2, <2>1, <3>1, <3>2, BackPop
  <2>3. ~(Len(entry') < Len(entry))
    BY <1>1, <2>1
  <2> QED BY <1>1, <2>1, <2>2, <2>3 DEF Returns, Ends, Back, ValueOf
<1>3. CASE redirlist = <<>>
  <2>1. pc' \in {"run", "exit"} /\ entry' = <<>> /\ UNCHANGED <<fdtab, redirlist>>
    BY <1>3 DEF Unwind
  <2>2. Returns'
    BY <1>1, <2>1 DEF Returns
  <2>3. Ends
    <3> SUFFICES ASSUME Len(entry') < Len(entry), NEW fd \in User \ entry[Len(entry') + 1].execd
                 PROVE  fdtab'[fd] = entry[Len(entry') + 1].view[fd]
      BY DEF Ends
    <3>1. Len(entry') + 1 = 1 /\ entry # <<>>
      BY <1>1, <2>1
    <3>2. Back(redirlist, fdtab, 0, fd, entry[1].view[fd])
      BY <1>1, <3>1 DEF Returns
    <3>3. Len(redirlist) = 0 /\ redirlist \in Seq(Table)
      BY <1>1, <1>3 DEF TypeOK
    <3>4. fd \in User \ entry[1].execd
      BY <3>1
    <3>5. fdtab[fd] = entry[1].view[fd]
      <4>1. 0 \in Nat /\ 0 = Len(redirlist)
        BY <3>3
      <4>2. Back(redirlist, fdtab, 0, fd, entry[1].view[fd]) <=> fdtab[fd] = entry[1].view[fd]
        <5>1. 0 + 1 .. Len(redirlist) = {}
          BY <4>1
        <5> QED BY <5>1 DEF Back
      <4> QED BY <3>2, <3>4, <4>2
    <3> QED BY <2>1, <3>1, <3>5
  <2> QED BY <2>2, <2>3
<1> QED BY <1>2, <1>3

LEMMA ReturnsRest ==
  StackInv /\ StackInv' /\ OwnInv /\ Returns /\ (Raise \/ Subshell \/ Drop \/ ChildRedirect \/ gettty)
    => Returns' /\ Ends
<1> SUFFICES ASSUME StackInv, StackInv', OwnInv, Returns,
                    Raise \/ Subshell \/ Drop \/ ChildRedirect \/ gettty
             PROVE  Returns' /\ Ends
  OBVIOUS
<1>1. TypeOK /\ Shape /\ Nesting
  BY DEF StackInv
<1>2. CASE Raise
  BY <1>2, StayRaised DEF Raise
<1>3. CASE Subshell
  <2>1. ctx' = <<>> /\ entry' = <<>> /\ level' # level
    BY <1>1, <1>3 DEF Subshell, TypeOK
  <2> QED BY <2>1, StayIdle
<1>4. CASE Drop \/ ChildRedirect
  <2>1. ctx = <<>> /\ ctx' = <<>> /\ UNCHANGED entry /\ Len(entry) = Len(ctx)
    BY <1>1, <1>4 DEF Drop, ChildRedirect, Shape
  <2>2. entry' = <<>>
    BY <1>1, <2>1, EmptySeq DEF TypeOK
  <2> QED BY <2>1, <2>2, StayIdle
<1>5. CASE gettty
  <2>1. CASE ForTty(fdtab) # {}
    <3>1. Quiet /\ pc = "run"
      BY <1>5, QuietSteps DEF gettty
    <3> QED BY <1>5, <2>1, <3>1, StayQuiet DEF gettty
  <2>2. CASE ForTty(fdtab) = {}
    BY <1>5, <2>2, StayRaised DEF gettty
  <2> QED BY <2>1, <2>2
<1> QED BY <1>2, <1>3, <1>4, <1>5

LEMMA ReturnsNext ==
  StackInv /\ StackInv' /\ OwnInv /\ Returns /\ [Next]_vars => Returns' /\ Ends
<1>1. StackInv /\ StackInv' /\ OwnInv /\ Returns /\ UNCHANGED vars => Returns' /\ Ends
  <2> SUFFICES ASSUME StackInv, Returns, UNCHANGED vars PROVE Returns' /\ Ends
    OBVIOUS
  <2>1. Len(entry) \in Nat
    BY LenProperties DEF StackInv, TypeOK
  <2> QED BY <2>1 DEF Returns, Ends, vars, Back, ValueOf
<1> QED BY <1>1, ReturnsBegin, ReturnsRedirect, ReturnsFailed, ReturnsLocated, ReturnsEndBody,
           ReturnsOut, ReturnsUnwind, ReturnsRest DEF Next, Command

-----------------------------------------------------------------------------

\* A command leaves the user's descriptors as it found them, except those that
\* an exec inside of it redirected, however it ends.
THEOREM CommandsAreUndone == Spec => Undone
<1>1. Init => StackInv /\ OwnInv /\ Returns
  BY StackInit, OwnInit, ReturnsInit
<1>2. StackInv /\ OwnInv /\ Returns /\ [Next]_vars => (StackInv /\ OwnInv /\ Returns)' /\ Ends
  BY StackNext, OwnNext, ReturnsNext
<1>3. Ends => [Len(entry') < Len(entry) /\ level' = level =>
                 LET e == entry[Len(entry') + 1] IN
                   \A fd \in User \ e.execd : fdtab'[fd] = e.view[fd]]_vars
  BY DEF Ends
<1> QED BY <1>1, <1>2, <1>3, PTL DEF Spec, Undone

\* A subshell begins with its parent's descriptors, and dropping the tables of
\* the parent does not change them.
THEOREM SubshellsSeeTheSame == Spec => ChildView
<1>1. StackInv /\ [Next]_vars =>
        [level' > level \/ pc = "drop" =>
           \A fd \in User :
             fdtab'[fd] = fdtab[fd] \/ (level' > level /\ fd = 0 /\ fdtab'[fd] = "null")]_vars
  <2> SUFFICES ASSUME StackInv, Next, level' > level \/ pc = "drop", NEW fd \in User
               PROVE  fdtab'[fd] = fdtab[fd] \/ (level' > level /\ fd = 0 /\ fdtab'[fd] = "null")
    OBVIOUS
  <2>1. TypeOK
    BY DEF StackInv
  <2>2. Subshell \/ Drop
    <3>1. level \in Nat
      BY <2>1, RedirAssumption DEF TypeOK
    <3>2. ~(level' > level) => Drop
      BY DEF Next, Command, Begin, Redirect, Failed, Leaf, LeafFails, Enter, EndBody, Out, Raise,
             Unwind, Subshell, ChildRedirect, gettty
    <3>3. level' > level => Subshell
      <4> SUFFICES ASSUME level' # level PROVE Subshell
        BY <3>1
      <4> QED BY DEF Next, Command, Begin, Redirect, Failed, Leaf, LeafFails, Enter, EndBody, Out,
                     Raise, Unwind, Drop, ChildRedirect, gettty, shellVars
    <3> QED BY <3>2, <3>3
  <2>3. CASE Drop
    <3>1. CASE redirlist # <<>>
      <4>1. Pop(TRUE)
        BY <2>3, <3>1 DEF Drop, Dropped
      <4> QED BY <2>1, <3>1, <4>1, PopType
    <3>2. CASE redirlist = <<>>
      BY <2>3, <3>2 DEF Drop
    <3> QED BY <3>1, <3>2
  <2>4. CASE Subshell
    <3> DEFINE t == Without(Files_of(0) \ {0, -1})
    <3>1. fdtab' = t \/ fdtab' = [t EXCEPT ![0] = "null"]
      BY <2>4 DEF Subshell
    <3>2. t \in [Fds -> Values] /\ \A d \in Fds : t[d] = IF d \in Files_of(0) \ {0, -1} THEN "closed" ELSE fdtab[d]
      BY <2>1, WithoutType DEF TypeOK
    <3> HIDE DEF t
    <3>3. \A d \in Files_of(0) \ {0, -1} : d \in Internal
      BY <2>1, ElementOfSeq, LenProperties DEF Files_of, TypeOK
    <3>4. t[fd] = fdtab[fd] /\ fd \in Fds
      BY <3>2, <3>3, Descriptors
    <3>5. level' > level
      BY <2>1, <2>4, RedirAssumption DEF Subshell, TypeOK
    <3> QED BY <3>1, <3>2, <3>4, <3>5
  <2> QED BY <2>2, <2>3, <2>4
<1> QED BY <1>1, StackAlways, PTL DEF Spec, ChildView

=============================================================================

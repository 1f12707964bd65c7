------------------------------ MODULE ExecProofs ------------------------------
(***************************************************************************)
(* Theorems about Exec: functions are counted, and the command table       *)
(* answers as a search made at that time would.                            *)
(***************************************************************************)
EXTENDS Exec, FiniteSetTheorems, SequenceTheorems, WellFoundedInduction, TLAPS

(***************************************************************************)
(* The search.                                                             *)
(***************************************************************************)

\* The least element of a set of naturals.
LEMMA MinNat ==
  ASSUME NEW S \in SUBSET Nat, S # {}
  PROVE  Min(S) \in S /\ \A y \in S : Min(S) <= y
<1> DEFINE R == {ss \in Nat \X Nat : ss[1] < ss[2]}
<1>1. IsWellFoundedOn(R, Nat)
  BY NatLessThanWellFounded, Zenon DEF OpToRel
<1> HIDE DEF R
<1>2. PICK x \in S : \A y \in S : ~(<<y, x>> \in R)
  BY <1>1, WFMin, Zenon
<1>3. \A y \in S : ~(y < x)
  BY <1>2 DEF R
<1>4. \A y \in S : x <= y
  BY <1>3
<1> QED BY <1>4 DEF Min

\* Sequences.
LEMMA FrontType ==
  ASSUME NEW S, NEW s \in Seq(S), s # <<>>
  PROVE  /\ Front(s) \in Seq(S) /\ Len(Front(s)) = Len(s) - 1
         /\ \A k \in 1 .. Len(s) - 1 : Front(s)[k] = s[k]
         /\ Last(s) \in S /\ Last(s) = s[Len(s)] /\ Len(s) \in Nat \ {0}
         /\ DOMAIN Front(s) = 1 .. Len(s) - 1
<1>1. Len(s) \in Nat \ {0}
  OBVIOUS
<1>2. Last(s) \in S /\ Last(s) = s[Len(s)]
  BY <1>1 DEF Last
<1>3. /\ Front(s) \in Seq(S) /\ Len(Front(s)) = Len(s) - 1
      /\ \A k \in 1 .. Len(s) - 1 : Front(s)[k] = s[k]
  <2>1. PICK n \in Nat : n = Len(s) - 1
    BY <1>1
  <2>2. \A i \in 1 .. n : s[i] \in S
    BY <2>1, ElementOfSeq
  <2>3. /\ SubSeq(s, 1, n) \in Seq(S) /\ Len(SubSeq(s, 1, n)) = IF 1 <= n THEN n - 1 + 1 ELSE 0
        /\ \A i \in 1 .. n - 1 + 1 : SubSeq(s, 1, n)[i] = s[1 + i - 1]
    BY <2>2, SubSeqProperties
  <2> QED BY <2>1, <2>3 DEF Front
<1> QED BY <1>1, <1>2, <1>3, LenProperties

\* A search finds the first place that counts, if there is one.
LEMMA SearchFirst ==
  ASSUME NEW p \in Paths, NEW n, NEW prev,
         NEW w, w = Walked(p, n) \o FPath, NEW k, k = Len(Walked(p, n))
  PROVE  /\ Walked(p, n) \in Seq(Locs \cup Here) /\ k \in Nat /\ k <= Len(p)
         /\ w \in Seq(Locs \cup Here)
         /\ Search(p, n, prev) \in Nat
         /\ Search(p, n, prev) = 0 => \A i \in DOMAIN w : ~StopsAt(w, k, n, prev, i)
         /\ Search(p, n, prev) # 0 =>
              /\ Search(p, n, prev) \in DOMAIN w
              /\ StopsAt(w, k, n, prev, Search(p, n, prev))
              /\ \A i \in DOMAIN w : i < Search(p, n, prev) => ~StopsAt(w, k, n, prev, i)
<1> DEFINE stops == {i \in DOMAIN w : StopsAt(w, k, n, prev, i)}
<1>1. p \in Seq(Locs \cup Here) /\ FPath \in Seq(Locs \cup Here)
  <2>1. Locs \subseteq Locs \cup Here
    OBVIOUS
  <2>2. Seq(Locs) \subseteq Seq(Locs \cup Here)
    BY <2>1, SeqMonotonic
  <2>3. Paths \subseteq Seq(Locs \cup Here) /\ FPath \in Seq(Locs)
    BY ExecAssumption, Zenon DEF Here
  <2> QED BY <2>2, <2>3, Zenon
<1>2. p # <<>> => Front(p) \in Seq(Locs \cup Here) /\ Len(Front(p)) = Len(p) - 1
  BY <1>1, FrontType
<1>3. Walked(p, n) \in Seq(Locs \cup Here) /\ k \in Nat /\ k <= Len(p)
  <2>1. Walked(p, n) = p \/ (p # <<>> /\ Walked(p, n) = Front(p))
    BY DEF Walked
  <2>2. Len(p) \in Nat
    BY <1>1
  <2> QED BY <1>1, <1>2, <2>1, <2>2
<1>4. w \in Seq(Locs \cup Here) /\ DOMAIN w \subseteq Nat \ {0}
  BY <1>1, <1>3
<1>5. Search(p, n, prev) = IF stops = {} THEN 0 ELSE Min(stops)
  BY DEF Search
<1>6. stops # {} => Min(stops) \in stops /\ \A y \in stops : Min(stops) <= y
  BY <1>4, MinNat
<1> HIDE DEF stops
<1>7. CASE stops = {}
  BY <1>7, <1>5, <1>4, <1>3 DEF stops
<1>8. CASE stops # {}
  <2>1. Search(p, n, prev) \in stops /\ \A y \in stops : Search(p, n, prev) <= y
    BY <1>8, <1>5, <1>6
  <2>2. Search(p, n, prev) \in DOMAIN w /\ StopsAt(w, k, n, prev, Search(p, n, prev))
        /\ Search(p, n, prev) \in Nat /\ Search(p, n, prev) # 0
    BY <2>1, <1>4 DEF stops
  <2>3. \A i \in DOMAIN w : i < Search(p, n, prev) => ~StopsAt(w, k, n, prev, i)
    BY <2>1, <2>2, <1>4 DEF stops
  <2> QED BY <2>2, <2>3, <1>3, <1>4
<1> QED BY <1>7, <1>8

(***************************************************************************)
(* What find_command does.                                                 *)
(***************************************************************************)

\* The entry that a lookup starts from, and the place its search is given.
Asked(e, nofunc, alt) == IF Passed(e, nofunc, alt) THEN NoEntry ELSE e
Hint(e) == IF e.rehash /\ e.cmdtype = "normal" THEN e.index ELSE 0
Spot(t, n, nofunc, alt, p) == Search(p, n, Hint(Asked(t[n], nofunc, alt)))
Answers(e, nofunc, alt) == Asked(e, nofunc, alt).cmdtype # "unknown" /\ ~Asked(e, nofunc, alt).rehash

\* What it gives back.
Given(t, e) == [entry |-> e, table |-> t, loaded |-> FALSE]
Entered(t, n, nofunc, alt, e) ==
  [Given(t, e) EXCEPT !.table = IF Updates(t[n], nofunc, alt) THEN [t EXCEPT ![n] = e] ELSE t]
Loaded(t, n, b) == [entry |-> addcmdentry(t, n, b)[n], table |-> addcmdentry(t, n, b), loaded |-> TRUE]

\* The ways through find_command.
Known(t, n, nofunc, alt, res) == Answers(t[n], nofunc, alt) /\ res = Given(t, Asked(t[n], nofunc, alt))
IsBuiltin(t, n, nofunc, alt, res) ==
  n \in Builtins /\ res = Entered(t, n, nofunc, alt, Entry("builtin", 0, 0, FALSE))
Nothing(t, n, nofunc, alt, p, res) ==
  n \notin Builtins /\ Spot(t, n, nofunc, alt, p) = 0 /\ res = Entered(t, n, nofunc, alt, NoEntry)
IsFile(t, n, nofunc, alt, p, res) ==
  LET i == Spot(t, n, nofunc, alt, p)
  IN /\ n \notin Builtins /\ i # 0
     /\ i = Asked(t[n], nofunc, alt).index \/ i <= Len(Walked(p, n))
     /\ res = Entered(t, n, nofunc, alt, Entry("normal", i, 0, FALSE))
IsFunction(t, n, nofunc, alt, p, load, res) ==
  /\ n \notin Builtins /\ Spot(t, n, nofunc, alt, p) # 0
  /\ ~(Spot(t, n, nofunc, alt, p) <= Len(Walked(p, n)))
  /\ \/ load # 0 /\ res = Loaded(t, n, load)
     \/ load = 0 /\ t[n].cmdtype = "function" /\ res = Given(t, t[n])
     \/ load = 0 /\ t[n].cmdtype # "function" /\ res = Given(t, [NoEntry EXCEPT !.cmdtype = "error"])

Finding(t, n, nofunc, alt, p, load, res) ==
  \/ Known(t, n, nofunc, alt, res)
  \/ /\ ~Answers(t[n], nofunc, alt)
     /\ \/ IsBuiltin(t, n, nofunc, alt, res)
        \/ Nothing(t, n, nofunc, alt, p, res)
        \/ IsFile(t, n, nofunc, alt, p, res)
        \/ IsFunction(t, n, nofunc, alt, p, load, res)

LEMMA FindCases ==
  ASSUME NEW t, NEW n, NEW nofunc, NEW alt, NEW p, NEW load
  PROVE  Finding(t, n, nofunc, alt, p, load, find_command(t, n, nofunc, alt, p, load))
<1> DEFINE res == find_command(t, n, nofunc, alt, p, load)
           cmdp == Asked(t[n], nofunc, alt)
           i == Spot(t, n, nofunc, alt, p)
<1>1. res = IF cmdp.cmdtype # "unknown" /\ ~cmdp.rehash THEN Given(t, cmdp)
            ELSE IF n \in Builtins THEN Entered(t, n, nofunc, alt, Entry("builtin", 0, 0, FALSE))
            ELSE IF i = 0 THEN Entered(t, n, nofunc, alt, NoEntry)
            ELSE IF i = cmdp.index \/ i <= Len(Walked(p, n))
                 THEN Entered(t, n, nofunc, alt, Entry("normal", i, 0, FALSE))
            ELSE IF load # 0 THEN Loaded(t, n, load)
            ELSE IF t[n].cmdtype = "function" THEN Given(t, t[n])
            ELSE Given(t, [NoEntry EXCEPT !.cmdtype = "error"])
  BY ZenonT(60) DEF find_command, Given, Entered, Loaded, Spot, Hint, Asked
<1> HIDE DEF res
<1>2. Finding(t, n, nofunc, alt, p, load, res)
  BY <1>1, Zenon DEF Finding, Known, Answers, IsBuiltin, Nothing, IsFile, IsFunction
<1> QED BY <1>2, Zenon DEF res

(***************************************************************************)
(* The table: what each kind of entry holds.                               *)
(***************************************************************************)

Rows == [cmdtype : {"unknown", "normal", "function", "builtin"},
         index : Nat, func : Bodies \cup {0}, rehash : BOOLEAN]
EntryOK(e, n) ==
  /\ e.cmdtype = "function" <=> e.func # 0
  /\ e.cmdtype = "function" => ~e.rehash
  /\ e.cmdtype = "builtin" => n \in Builtins
  /\ e.cmdtype = "normal" => n \notin Builtins /\ e.index # 0
  /\ e.cmdtype = "unknown" => e.index = 0
TableOK(t) == t \in [Names -> Rows] /\ \A n \in Names : EntryOK(t[n], n)

LEMMA NewEntries ==
  /\ NoEntry \in Rows /\ NoEntry.cmdtype = "unknown" /\ NoEntry.func = 0 /\ NoEntry.rehash = FALSE
  /\ \A n : EntryOK(NoEntry, n)
  /\ Entry("builtin", 0, 0, FALSE) \in Rows /\ Entry("builtin", 0, 0, FALSE).func = 0
  /\ \A n \in Builtins : EntryOK(Entry("builtin", 0, 0, FALSE), n)
  /\ \A i \in Nat : Entry("normal", i, 0, FALSE) \in Rows /\ Entry("normal", i, 0, FALSE).func = 0
  /\ \A n : \A i \in Nat \ {0} : n \notin Builtins => EntryOK(Entry("normal", i, 0, FALSE), n)
  /\ \A b \in Bodies : Entry("function", 0, b, FALSE) \in Rows /\ Entry("function", 0, b, FALSE).func = b
  /\ \A n : \A b \in Bodies : EntryOK(Entry("function", 0, b, FALSE), n)
  /\ 0 \notin Bodies
BY ExecAssumption DEF NoEntry, Entry, Rows, EntryOK

LEMMA Replaced ==
  ASSUME NEW t, TableOK(t), NEW n \in Names, NEW e \in Rows, EntryOK(e, n)
  PROVE  /\ TableOK([t EXCEPT ![n] = e]) /\ [t EXCEPT ![n] = e][n] = e
         /\ \A m \in Names \ {n} : [t EXCEPT ![n] = e][m] = t[m]
BY DEF TableOK

LEMMA Cleared ==
  ASSUME NEW t, TableOK(t)
  PROVE  /\ TableOK(clearcmdentry(t))
         /\ \A n \in Names : /\ clearcmdentry(t)[n].func = t[n].func
                             /\ clearcmdentry(t)[n].cmdtype \in {"unknown", "function"}
                             /\ clearcmdentry(t)[n] = NoEntry \/ clearcmdentry(t)[n] = t[n]
<1> DEFINE c == clearcmdentry(t)
<1>1. c = [n \in Names |-> IF t[n].cmdtype \in {"normal", "builtin"} THEN NoEntry ELSE t[n]]
  BY DEF clearcmdentry
<1> HIDE DEF c
<1>2. \A n \in Names : /\ t[n] \in Rows /\ EntryOK(t[n], n)
                       /\ c[n] = IF t[n].cmdtype \in {"normal", "builtin"} THEN NoEntry ELSE t[n]
  BY <1>1 DEF TableOK
<1>3. \A n \in Names : c[n] \in Rows /\ EntryOK(c[n], n)
  BY <1>2, NewEntries
<1>4. TableOK(c)
  BY <1>1, <1>3 DEF TableOK
<1>5. \A n \in Names : /\ c[n] = NoEntry \/ c[n] = t[n]
                       /\ c[n].func = t[n].func
                       /\ c[n].cmdtype \in {"unknown", "function"}
  <2> TAKE n \in Names
  <2>1. CASE t[n].cmdtype \in {"normal", "builtin"}
    BY <2>1, <1>2, NewEntries DEF EntryOK
  <2>2. CASE t[n].cmdtype \notin {"normal", "builtin"}
    BY <2>2, <1>2 DEF Rows
  <2> QED BY <2>1, <2>2
<1> QED BY <1>4, <1>5 DEF c

LEMMA EnteredTable ==
  ASSUME NEW t, TableOK(t), NEW n \in Names, NEW nofunc, NEW alt,
         NEW e \in Rows, EntryOK(e, n), e.func = 0, ~Answers(t[n], nofunc, alt),
         NEW res, res = Entered(t, n, nofunc, alt, e)
  PROVE  /\ TableOK(res.table) /\ res.entry = e /\ ~res.loaded
         /\ \A m \in Names : res.table[m].func = t[m].func
<1>1. /\ res.entry = e /\ ~res.loaded
      /\ res.table = IF Updates(t[n], nofunc, alt) THEN [t EXCEPT ![n] = e] ELSE t
  BY DEF Entered, Given
<1>2. t[n] \in Rows /\ EntryOK(t[n], n)
  BY DEF TableOK
<1>3. Updates(t[n], nofunc, alt) => t[n].func = 0
  BY <1>2 DEF Updates, Answers, Asked, EntryOK
<1>4. /\ TableOK([t EXCEPT ![n] = e]) /\ [t EXCEPT ![n] = e][n] = e
      /\ \A m \in Names \ {n} : [t EXCEPT ![n] = e][m] = t[m]
  BY Replaced
<1> QED BY <1>1, <1>3, <1>4

\* A lookup leaves a table in order, and the functions in it, unless it loads one.
LEMMA FindTable ==
  ASSUME NEW t, TableOK(t), NEW n \in Names, NEW nofunc, NEW alt,
         NEW p \in Paths, NEW load \in Bodies \cup {0},
         NEW res, Finding(t, n, nofunc, alt, p, load, res)
  PROVE  /\ TableOK(res.table) 
         /\ res.entry.cmdtype = "function" => res.entry = res.table[n] /\ res.entry.func \in Bodies
         /\ ~res.loaded => \A m \in Names : res.table[m].func = t[m].func
         /\ res.loaded => load # 0 /\ res.table = addcmdentry(t, n, load)
<1>1. t[n] \in Rows /\ EntryOK(t[n], n)
  BY DEF TableOK
<1>2. CASE Known(t, n, nofunc, alt, res)
  <2>1. res = Given(t, Asked(t[n], nofunc, alt)) /\ Asked(t[n], nofunc, alt).cmdtype # "unknown"
    BY <1>2 DEF Known, Answers
  <2>2. Asked(t[n], nofunc, alt) = t[n]
    BY <2>1, NewEntries DEF Asked
  <2>3. res.entry = t[n] /\ res.table = t /\ ~res.loaded
    BY <2>1, <2>2 DEF Given
  <2> QED BY <2>3, <1>1 DEF EntryOK, Rows
<1>3. CASE ~Answers(t[n], nofunc, alt) /\ IsBuiltin(t, n, nofunc, alt, res)
  <2>1. PICK e : e = Entry("builtin", 0, 0, FALSE)
    OBVIOUS
  <2>2. e \in Rows /\ EntryOK(e, n) /\ e.func = 0 /\ e.cmdtype # "function"
    BY <2>1, <1>3, NewEntries DEF IsBuiltin, EntryOK
  <2>3. res = Entered(t, n, nofunc, alt, e) /\ ~Answers(t[n], nofunc, alt)
    BY <2>1, <1>3 DEF IsBuiltin
  <2>4. TableOK(res.table) /\ res.entry = e /\ ~res.loaded /\ \A m \in Names : res.table[m].func = t[m].func
    BY <2>2, <2>3, EnteredTable
  <2> QED BY <2>2, <2>4
<1>4. CASE ~Answers(t[n], nofunc, alt) /\ Nothing(t, n, nofunc, alt, p, res)
  <2>1. res = Entered(t, n, nofunc, alt, NoEntry) /\ ~Answers(t[n], nofunc, alt)
    BY <1>4 DEF Nothing
  <2>3. NoEntry \in Rows /\ EntryOK(NoEntry, n) /\ NoEntry.func = 0
    BY NewEntries
  <2>2. TableOK(res.table) /\ res.entry = NoEntry /\ ~res.loaded /\ \A m \in Names : res.table[m].func = t[m].func
    BY <2>1, <2>3, EnteredTable
  <2> QED BY <2>2, NewEntries
<1>5. CASE ~Answers(t[n], nofunc, alt) /\ IsFile(t, n, nofunc, alt, p, res)
  <2>1. PICK i \in Nat \ {0} : n \notin Builtins /\ res = Entered(t, n, nofunc, alt, Entry("normal", i, 0, FALSE))
    BY <1>5, SearchFirst DEF IsFile, Spot
  <2>2. PICK e : e = Entry("normal", i, 0, FALSE)
    OBVIOUS
  <2>3. e \in Rows /\ EntryOK(e, n) /\ e.func = 0 /\ e.cmdtype # "function"
    BY <2>1, <2>2, NewEntries DEF EntryOK
  <2>4. TableOK(res.table) /\ res.entry = e /\ ~res.loaded /\ \A m \in Names : res.table[m].func = t[m].func
    <3>1. res = Entered(t, n, nofunc, alt, e) /\ ~Answers(t[n], nofunc, alt)
      BY <2>1, <2>2, <1>5, Zenon
    <3> QED BY <2>3, <3>1, EnteredTable
  <2> QED BY <2>3, <2>4
<1>6. CASE IsFunction(t, n, nofunc, alt, p, load, res)
  <2>1. CASE load # 0 /\ res = Loaded(t, n, load)
    <3>1. /\ res.entry = addcmdentry(t, n, load)[n] /\ res.table = addcmdentry(t, n, load)
          /\ res.loaded
      BY <2>1 DEF Loaded
    <3>2. TableOK(addcmdentry(t, n, load)) /\ addcmdentry(t, n, load)[n].func = load
      <4>1. PICK e : e = Entry("function", 0, load, FALSE)
        OBVIOUS
      <4>2. e \in Rows /\ EntryOK(e, n) /\ e.func = load
        BY <4>1, <2>1, NewEntries
      <4>3. addcmdentry(t, n, load) = [t EXCEPT ![n] = e]
        BY <4>1 DEF addcmdentry
      <4>4. TableOK([t EXCEPT ![n] = e])
        BY <4>2, Replaced, Zenon
      <4>5. [t EXCEPT ![n] = e][n] = e
        BY DEF TableOK
      <4> QED BY <4>2, <4>3, <4>4, <4>5
    <3> QED BY <3>1, <3>2, <2>1
  <2>2. CASE t[n].cmdtype = "function" /\ res = Given(t, t[n])
    <3>1. res.entry = t[n] /\ res.table = t /\ ~res.loaded
      BY <2>2 DEF Given
    <3> QED BY <3>1, <1>1 DEF EntryOK, Rows
  <2>3. CASE res = Given(t, [NoEntry EXCEPT !.cmdtype = "error"])
    <3>1. res.entry = [NoEntry EXCEPT !.cmdtype = "error"] /\ res.table = t /\ ~res.loaded
      BY <2>3 DEF Given
    <3>2. res.entry.cmdtype = "error"
      BY <3>1 DEF NoEntry, Entry
    <3> QED BY <3>1, <3>2
  <2> QED BY <1>6, <2>1, <2>2, <2>3 DEF IsFunction
<1> QED BY <1>2, <1>3, <1>4, <1>5, <1>6 DEF Finding

(***************************************************************************)
(* Counting bodies.                                                        *)
(***************************************************************************)

Holders(t, b) == {n \in Names : t[n].func = b}
Frames(c, b) == {i \in DOMAIN c : c[i].body = b}
Balanced(t, k, c) == \A b \in Bodies : k[b] = Cardinality(Holders(t, b)) + Cardinality(Frames(c, b)) - 1

\* No two names have the same body.
Distinct(t) == \A n, m \in Names : t[n].func # 0 /\ t[n].func = t[m].func => n = m

Calls == Seq([body : Bodies, saved : {{}} \cup {{p} : p \in Paths}])

LEMMA HoldersCounted ==
  ASSUME NEW t, Distinct(t), NEW b \in Bodies
  PROVE  /\ Cardinality(Holders(t, b)) \in {0, 1}
         /\ Cardinality(Holders(t, b)) = 0 => \A n \in Names : t[n].func # b
         /\ (\A n \in Names : t[n].func # b) => Cardinality(Holders(t, b)) = 0
         /\ (\E n \in Names : t[n].func = b) => Cardinality(Holders(t, b)) = 1
<1>1. b # 0
  BY ExecAssumption
<1>2. CASE \A n \in Names : t[n].func # b
  <2>1. Holders(t, b) = {}
    BY <1>2 DEF Holders
  <2> QED BY <2>1, <1>2, FS_EmptySet
<1>3. CASE \E n \in Names : t[n].func = b
  <2>1. PICK n \in Names : t[n].func = b
    BY <1>3
  <2>2. Holders(t, b) = {n}
    BY <1>1, <2>1 DEF Holders, Distinct
  <2>3. Cardinality(Holders(t, b)) = 1
    BY <2>2, FS_Singleton
  <2> QED BY <2>1, <2>3
<1> QED BY <1>2, <1>3

LEMMA FramesCounted ==
  ASSUME NEW c \in Calls, NEW b \in Bodies
  PROVE  /\ IsFiniteSet(Frames(c, b)) /\ Cardinality(Frames(c, b)) \in Nat
         /\ Cardinality(Frames(c, b)) <= Len(c)
         /\ (\E i \in DOMAIN c : c[i].body = b) => Cardinality(Frames(c, b)) # 0
<1>1. Len(c) \in Nat /\ DOMAIN c = 1 .. Len(c)
  BY DEF Calls
<1>2. IsFiniteSet(1 .. Len(c)) /\ Cardinality(1 .. Len(c)) = Len(c)
  <2>1. IsFiniteSet(1 .. Len(c)) /\ Cardinality(1 .. Len(c)) = IF 1 > Len(c) THEN 0 ELSE Len(c) - 1 + 1
    BY ONLY <1>1, 1 \in Int, FS_Interval
  <2> QED BY <2>1, <1>1
<1>3. Frames(c, b) \in SUBSET (1 .. Len(c))
  BY <1>1 DEF Frames
<1>4. IsFiniteSet(Frames(c, b)) /\ Cardinality(Frames(c, b)) <= Cardinality(1 .. Len(c))
  BY <1>2, <1>3, FS_Subset
<1>5. Cardinality(Frames(c, b)) \in Nat /\ (Cardinality(Frames(c, b)) = 0 <=> Frames(c, b) = {})
  BY <1>4, FS_CardinalityType, FS_EmptySet
<1> QED BY <1>2, <1>4, <1>5 DEF Frames

LEMMA FramesPushed ==
  ASSUME NEW c \in Calls, NEW x \in [body : Bodies, saved : {{}} \cup {{p} : p \in Paths}], NEW b \in Bodies
  PROVE  /\ Append(c, x) \in Calls /\ Len(Append(c, x)) = Len(c) + 1
         /\ Cardinality(Frames(Append(c, x), b)) = Cardinality(Frames(c, b)) + (IF x.body = b THEN 1 ELSE 0)
<1>1. /\ Append(c, x) \in Calls /\ Len(Append(c, x)) = Len(c) + 1 /\ Len(c) \in Nat
      /\ DOMAIN c = 1 .. Len(c) /\ DOMAIN Append(c, x) = 1 .. Len(c) + 1
      /\ Append(c, x)[Len(c) + 1] = x /\ \A i \in 1 .. Len(c) : Append(c, x)[i] = c[i]
  BY DEF Calls
<1>2. 1 .. Len(c) + 1 = (1 .. Len(c)) \cup {Len(c) + 1} /\ Len(c) + 1 \notin 1 .. Len(c)
  BY <1>1
<1>3. Frames(Append(c, x), b) = IF x.body = b THEN Frames(c, b) \cup {Len(c) + 1} ELSE Frames(c, b)
  BY <1>1, <1>2 DEF Frames
<1>4. Len(c) + 1 \notin Frames(c, b)
  BY <1>1, <1>2 DEF Frames
<1>5. Cardinality(Frames(c, b) \cup {Len(c) + 1}) = Cardinality(Frames(c, b)) + 1
  BY <1>4, FramesCounted, FS_AddElement
<1> QED BY <1>1, <1>3, <1>5, FramesCounted

LEMMA FramesPopped ==
  ASSUME NEW c \in Calls, c # <<>>, NEW b \in Bodies
  PROVE  /\ Front(c) \in Calls /\ Len(Front(c)) = Len(c) - 1
         /\ Last(c) \in [body : Bodies, saved : {{}} \cup {{p} : p \in Paths}]
         /\ Cardinality(Frames(Front(c), b)) = Cardinality(Frames(c, b)) - (IF Last(c).body = b THEN 1 ELSE 0)
<1>1. /\ Front(c) \in Calls /\ Len(Front(c)) = Len(c) - 1 /\ Len(c) \in Nat \ {0}
      /\ DOMAIN c = 1 .. Len(c) /\ DOMAIN Front(c) = 1 .. Len(c) - 1
      /\ Last(c) = c[Len(c)] /\ \A i \in 1 .. Len(c) - 1 : Front(c)[i] = c[i]
      /\ Last(c) \in [body : Bodies, saved : {{}} \cup {{p} : p \in Paths}]
  <2> DEFINE D == [body : Bodies, saved : {{}} \cup {{p} : p \in Paths}]
  <2>1. c \in Seq(D) /\ Calls = Seq(D)
    BY DEF Calls
  <2> HIDE DEF D
  <2>2. /\ Front(c) \in Seq(D) /\ Len(Front(c)) = Len(c) - 1
        /\ \A k \in 1 .. Len(c) - 1 : Front(c)[k] = c[k]
        /\ Last(c) \in D /\ Last(c) = c[Len(c)] /\ Len(c) \in Nat \ {0}
        /\ DOMAIN Front(c) = 1 .. Len(c) - 1
    BY <2>1, FrontType
  <2>3. DOMAIN c = 1 .. Len(c)
    BY <2>1
  <2> QED BY <2>1, <2>2, <2>3 DEF D
<1>2. 1 .. Len(c) = (1 .. Len(c) - 1) \cup {Len(c)} /\ Len(c) \notin 1 .. Len(c) - 1
  BY <1>1
<1>3. Frames(Front(c), b) = Frames(c, b) \ {Len(c)} /\ (Len(c) \in Frames(c, b) <=> Last(c).body = b)
  BY <1>1, <1>2 DEF Frames
<1>4. Cardinality(Frames(c, b) \ {Len(c)})
        = IF Len(c) \in Frames(c, b) THEN Cardinality(Frames(c, b)) - 1 ELSE Cardinality(Frames(c, b))
  BY FramesCounted, FS_RemoveElement
<1> QED BY <1>1, <1>3, <1>4, FramesCounted

(***************************************************************************)
(* How the counts change.                                                  *)
(***************************************************************************)

FunctionsOK(t, k, c) == TableOK(t) /\ Distinct(t) /\ c \in Calls /\ k \in [Bodies -> Int] /\ Balanced(t, k, c)

\* A table with the same functions.
LEMMA SameFunctions ==
  ASSUME NEW t, NEW u, NEW k, NEW c, FunctionsOK(t, k, c), TableOK(u), \A n \in Names : u[n].func = t[n].func
  PROVE  FunctionsOK(u, k, c)
<1>1. \A b : Holders(u, b) = Holders(t, b)
  BY DEF Holders
<1>2. Distinct(u)
  BY DEF FunctionsOK, Distinct
<1> QED BY <1>1, <1>2 DEF FunctionsOK, Balanced

\* Memory that is free is used by no name and no call.
LEMMA FreeBody ==
  ASSUME NEW t, NEW k, NEW c, FunctionsOK(t, k, c), NEW b \in Bodies, k[b] = -1
  PROVE  /\ \A n \in Names : t[n].func # b
         /\ \A i \in DOMAIN c : c[i].body # b
         /\ Cardinality(Frames(c, b)) = 0
<1>1. Cardinality(Holders(t, b)) \in Nat /\ Cardinality(Frames(c, b)) \in Nat
  BY HoldersCounted, FramesCounted DEF FunctionsOK
<1>2. Cardinality(Holders(t, b)) = 0 /\ Cardinality(Frames(c, b)) = 0
  BY <1>1 DEF FunctionsOK, Balanced
<1> QED BY <1>2, HoldersCounted, FramesCounted DEF FunctionsOK

\* A name gets another body, which was free, or none.
LEMMA NewFunction ==
  ASSUME NEW t, NEW k, NEW c, FunctionsOK(t, k, c), NEW n \in Names,
         NEW e \in Rows, EntryOK(e, n), e.func # 0 => k[e.func] = -1,
         NEW j \in [Bodies -> Int],
         \A b \in Bodies : j[b] = IF b = e.func THEN 0 ELSE IF b = t[n].func THEN k[b] - 1 ELSE k[b]
  PROVE  FunctionsOK([t EXCEPT ![n] = e], j, c)
<1> DEFINE u == [t EXCEPT ![n] = e]
<1>1. TableOK(u) /\ u[n] = e /\ (\A m \in Names \ {n} : u[m] = t[m]) /\ t[n] \in Rows
  BY Replaced DEF FunctionsOK, TableOK
<1> HIDE DEF u
<1>2. e.func # 0 => e.func \in Bodies /\ \A m \in Names : t[m].func # e.func
  BY FreeBody DEF Rows
<1>3. Distinct(u)
  BY <1>1, <1>2 DEF Distinct, FunctionsOK
<1>4. ASSUME NEW b \in Bodies
      PROVE  j[b] = Cardinality(Holders(u, b)) + Cardinality(Frames(c, b)) - 1
  <2>0. b # 0
    BY ExecAssumption
  <2>1. k[b] = Cardinality(Holders(t, b)) + Cardinality(Frames(c, b)) - 1 /\ Cardinality(Frames(c, b)) \in Nat
    BY FramesCounted DEF FunctionsOK, Balanced
  <2>2. CASE b = e.func
    <3>1. Cardinality(Frames(c, b)) = 0
      BY <2>0, <2>2, FreeBody
    <3>2. Cardinality(Holders(u, b)) = 1
      BY <1>1, <1>3, <2>2, HoldersCounted
    <3> QED BY <3>1, <3>2, <2>2
  <2>3. CASE b # e.func /\ b = t[n].func
    <3>1. Cardinality(Holders(t, b)) = 1
      BY <2>3, HoldersCounted DEF FunctionsOK
    <3>2. \A m \in Names : u[m].func # b
      BY <1>1, <2>0, <2>3 DEF FunctionsOK, Distinct
    <3>3. Cardinality(Holders(u, b)) = 0
      BY <1>3, <3>2, HoldersCounted
    <3> QED BY <2>1, <2>3, <3>1, <3>3
  <2>4. CASE b # e.func /\ b # t[n].func
    <3>1. Holders(u, b) = Holders(t, b)
      BY <1>1, <2>4 DEF Holders
    <3> QED BY <2>1, <2>4, <3>1
  <2> QED BY <2>2, <2>3, <2>4
<1>5. Balanced(u, j, c)
  BY <1>4 DEF Balanced
<1> QED BY <1>1, <1>3, <1>5 DEF FunctionsOK, u

\* A body is called, and let go.
LEMMA CallBegins ==
  ASSUME NEW t, NEW k, NEW c, FunctionsOK(t, k, c),
         NEW x \in [body : Bodies, saved : {{}} \cup {{p} : p \in Paths}],
         NEW j, j = [k EXCEPT ![x.body] = @ + 1]
  PROVE  FunctionsOK(t, j, Append(c, x))
<1>1. \A b \in Bodies : /\ Append(c, x) \in Calls
                        /\ Cardinality(Frames(Append(c, x), b)) = Cardinality(Frames(c, b)) + (IF x.body = b THEN 1 ELSE 0)
                        /\ Cardinality(Frames(c, b)) \in Nat /\ Cardinality(Holders(t, b)) \in Nat
  <2> TAKE b \in Bodies
  <2>1. c \in Calls /\ Distinct(t)
    BY DEF FunctionsOK
  <2>2. Cardinality(Holders(t, b)) \in Nat
    BY <2>1, HoldersCounted
  <2>3. Cardinality(Frames(c, b)) \in Nat
    BY <2>1, FramesCounted
  <2> QED BY <2>1, <2>2, <2>3, FramesPushed
<1>2. x.body \in Bodies
  OBVIOUS
<1>3. j \in [Bodies -> Int] /\ \A b \in Bodies : j[b] = k[b] + (IF x.body = b THEN 1 ELSE 0)
  BY DEF FunctionsOK
<1>4. Balanced(t, j, Append(c, x))
  BY <1>1, <1>3 DEF FunctionsOK, Balanced
<1> QED BY <1>1, <1>2, <1>3, <1>4 DEF FunctionsOK

LEMMA CallEnds ==
  ASSUME NEW t, NEW k, NEW c, FunctionsOK(t, k, c), c # <<>>, NEW j, j = freefunc(k, Last(c).body)
  PROVE  FunctionsOK(t, j, Front(c))
<1>1. \A b \in Bodies : /\ Front(c) \in Calls /\ Last(c) \in [body : Bodies, saved : {{}} \cup {{p} : p \in Paths}]
                        /\ Cardinality(Frames(Front(c), b)) = Cardinality(Frames(c, b)) - (IF Last(c).body = b THEN 1 ELSE 0)
                        /\ Cardinality(Frames(c, b)) \in Nat /\ Cardinality(Holders(t, b)) \in Nat
  BY FramesPopped, FramesCounted, HoldersCounted DEF FunctionsOK
<1>2. Last(c).body \in Bodies /\ Front(c) \in Calls
  <2>1. c \in Calls
    BY DEF FunctionsOK
  <2>2. Last(c) \in [body : Bodies, saved : {{}} \cup {{p} : p \in Paths}]
    BY <2>1, FrontType DEF Calls
  <2> QED BY <2>2, <1>1
<1>3. j = [k EXCEPT ![Last(c).body] = k[Last(c).body] - 1]
  BY <1>2, ExecAssumption DEF freefunc
<1>4. j \in [Bodies -> Int] /\ \A b \in Bodies : j[b] = k[b] - (IF Last(c).body = b THEN 1 ELSE 0)
  BY <1>2, <1>3 DEF FunctionsOK
<1>5. Balanced(t, j, Front(c))
  <2> SUFFICES ASSUME NEW b \in Bodies
               PROVE  j[b] = Cardinality(Holders(t, b)) + Cardinality(Frames(Front(c), b)) - 1
    BY DEF Balanced
  <2>1. k[b] = Cardinality(Holders(t, b)) + Cardinality(Frames(c, b)) - 1
    BY DEF FunctionsOK, Balanced
  <2> QED BY <2>1, <1>1, <1>4
<1> QED BY <1>2, <1>4, <1>5 DEF FunctionsOK

(***************************************************************************)
(* Functions are counted in every state.                                   *)
(***************************************************************************)

\* The inductive invariant: no two names share a body, and what else has a
\* type.
CountInv ==
  /\ FunctionsOK(cmdtable, count, calls) /\ Len(calls) <= MaxDepth
  /\ path \in Paths /\ cwd \in Cwds /\ fs \in [Locs \X Names -> Kinds]
  /\ touched \in [Names -> BOOLEAN] /\ changes \in 0 .. MaxChange

LEMMA CountInvTypes == CountInv => Counted
<1> SUFFICES ASSUME CountInv PROVE Counted
  OBVIOUS
<1>1. cmdtable \in [Names -> Rows] /\ calls \in Calls /\ count \in [Bodies -> Int]
  BY DEF CountInv, FunctionsOK, TableOK
<1>2. ASSUME NEW b \in Bodies
      PROVE  count[b] = Users(b) - 1 /\ count[b] \in -1 .. MaxDepth
  <2>1. count[b] = Cardinality(Holders(cmdtable, b)) + Cardinality(Frames(calls, b)) - 1
    BY DEF CountInv, FunctionsOK, Balanced
  <2>2. /\ Cardinality(Holders(cmdtable, b)) \in {0, 1}
        /\ Cardinality(Frames(calls, b)) \in Nat /\ Cardinality(Frames(calls, b)) <= Len(calls)
    BY <1>1, HoldersCounted, FramesCounted DEF CountInv, FunctionsOK
  <2>3. Len(calls) \in Nat /\ Len(calls) <= MaxDepth /\ MaxDepth \in Nat
    <3>1. Len(calls) \in Nat
      BY <1>1 DEF Calls
    <3> QED BY <3>1, ExecAssumption DEF CountInv
  <2>4. count[b] \in -1 .. MaxDepth
    BY <2>1, <2>2, <2>3
  <2>5. Users(b) = Cardinality(Holders(cmdtable, b)) + Cardinality(Frames(calls, b))
    BY DEF Users, Holders, Frames
  <2> QED BY <2>1, <2>2, <2>4, <2>5
<1>3. count \in [Bodies -> -1 .. MaxDepth]
  BY <1>1, <1>2
<1>4. TypeOK
  BY <1>1, <1>3 DEF TypeOK, CountInv, Rows, Calls
<1> QED BY <1>2, <1>4 DEF Counted

\* A table with the functions of the present one.
Like(t) == TableOK(t) /\ \A m \in Names : t[m].func = cmdtable[m].func

LEMMA LikeTables ==
  ASSUME CountInv
  PROVE  /\ Like(cmdtable) /\ Like(clearcmdentry(cmdtable))
         /\ \A n \in Names : cmdtable[n].cmdtype = "normal" => Like([cmdtable EXCEPT ![n] = NoEntry])
<1>1. TableOK(cmdtable)
  BY DEF CountInv, FunctionsOK
<1>2. Like(clearcmdentry(cmdtable))
  BY <1>1, Cleared DEF Like
<1>3. ASSUME NEW n \in Names, cmdtable[n].cmdtype = "normal"
      PROVE  Like([cmdtable EXCEPT ![n] = NoEntry])
  <2>1. cmdtable[n].func = 0
    BY <1>1, <1>3 DEF TableOK, EntryOK, Rows
  <2> QED BY <1>1, <2>1, NewEntries, Replaced DEF Like
<1> QED BY <1>1, <1>2, <1>3 DEF Like

\* A lookup keeps the counts right, also when it loads a function.
LEMMA LookupCounts ==
  ASSUME CountInv, NEW t, Like(t), NEW n \in Names, NEW nofunc, NEW alt, NEW p \in Paths,
         NEW load \in {0} \cup NewBody, NEW res, Finding(t, n, nofunc, alt, p, load, res)
  PROVE  /\ FunctionsOK(res.table, IF res.loaded THEN Counts(t, n, load) ELSE count, calls)
         /\ load \in Bodies \cup {0} /\ load # 0 => count[load] = -1
<1>1. load \in Bodies \cup {0} /\ (load # 0 => count[load] = -1)
  BY DEF NewBody, Free
<1>2. FunctionsOK(t, count, calls)
  BY SameFunctions DEF Like, CountInv
<1>3. /\ TableOK(res.table)
      /\ ~res.loaded => \A m \in Names : res.table[m].func = t[m].func
      /\ res.loaded => load # 0 /\ res.table = addcmdentry(t, n, load)
  BY <1>1, FindTable DEF Like
<1>4. CASE ~res.loaded
  <2>1. FunctionsOK(res.table, count, calls)
    BY <1>2, <1>3, <1>4, SameFunctions
  <2> QED BY <1>1, <1>4, <2>1
<1>5. CASE res.loaded
  <2>1. PICK e : e = Entry("function", 0, load, FALSE)
    OBVIOUS
  <2>2. load \in Bodies /\ count[load] = -1 /\ e \in Rows /\ EntryOK(e, n) /\ e.func = load
    BY <1>1, <1>3, <1>5, <2>1, NewEntries
  <2>3. res.table = [t EXCEPT ![n] = e]
    BY <1>3, <1>5, <2>1 DEF addcmdentry
  <2>4. PICK j : j = Counts(t, n, load)
    OBVIOUS
  <2>5. t[n].func \in Bodies \cup {0} /\ 0 \notin Bodies /\ count \in [Bodies -> Int]
    BY <1>2, NewEntries DEF FunctionsOK, TableOK, Rows
  <2>6. j \in [Bodies -> Int] /\ \A b \in Bodies : j[b] = IF b = load THEN 0 ELSE IF b = t[n].func THEN count[b] - 1 ELSE count[b]
    BY <2>2, <2>4, <2>5 DEF Counts, freefunc
  <2>7. FunctionsOK([t EXCEPT ![n] = e], j, calls)
    BY <1>2, <2>2, <2>6, NewFunction
  <2> QED BY <1>1, <1>5, <2>3, <2>4, <2>7
<1> QED BY <1>4, <1>5

\* The same for the entry of a lookup that is to be executed.
LEMMA EntryCounts ==
  ASSUME CountInv, NEW t, Like(t), NEW n \in Names, NEW nofunc, NEW alt, NEW p \in Paths,
         NEW load \in {0} \cup NewBody, NEW res, Finding(t, n, nofunc, alt, p, load, res)
  PROVE  /\ TableOK(res.table)
         /\ res.entry.cmdtype = "function" =>
              res.entry = res.table[n] /\ res.entry.func \in Bodies
<1>1. load \in Bodies \cup {0} /\ TableOK(t)
  BY DEF Like, NewBody, Free
<1> QED BY <1>1, FindTable

\* Executing a command.
LEMMA EvalCounts ==
  ASSUME CountInv, NEW n \in Names, NEW nofunc \in BOOLEAN, NEW stdpath \in BOOLEAN,
         NEW with \in {{}} \cup {{q} : q \in Paths}, evalcommand(n, nofunc, stdpath, with)
  PROVE  CountInv'
<1> DEFINE assigned == with # {}
           q == IF assigned THEN CHOOSE x \in with : TRUE ELSE path
           p == IF stdpath THEN DefPath ELSE q
           t == IF assigned THEN clearcmdentry(cmdtable) ELSE cmdtable
           find(load) == find_command(t, n, nofunc, assigned \/ stdpath, p, load)
<1>1. PICK load \in {0} \cup NewBody :
        LET res == find(load)
            e == res.entry
            c == IF res.loaded THEN Counts(t, n, load) ELSE count
            keeps == e.cmdtype = "function" \/ (e.cmdtype = "builtin" /\ n \in Special /\ ~nofunc)
        IN /\ e.cmdtype = "function" => Len(calls) < MaxDepth
           /\ cmdtable' = IF assigned /\ ~keeps THEN clearcmdentry(res.table) ELSE res.table
           /\ path' = IF keeps THEN q ELSE path
           /\ IF e.cmdtype = "function"
              THEN /\ count' = [c EXCEPT ![e.func] = @ + 1]
                   /\ calls' = Append(calls, [body |-> e.func, saved |-> IF assigned THEN {path} ELSE {}])
              ELSE count' = c /\ UNCHANGED calls
           /\ touched' = IF assigned THEN Untouched ELSE touched
           /\ UNCHANGED <<cwd, fs, changes>>
  BY Zenon DEF evalcommand
<1> DEFINE res == find(load)
           c == IF res.loaded THEN Counts(t, n, load) ELSE count
<1>2. q \in Paths /\ p \in Paths
  BY ExecAssumption DEF CountInv
<1>3. Like(t)
  BY LikeTables
<1>4. Finding(t, n, nofunc, assigned \/ stdpath, p, load, res)
  BY FindCases
<1> HIDE DEF t, p, q, find
<1>5. PICK r : r = res
  OBVIOUS
<1>6. PICK a : a = (assigned \/ stdpath)
  OBVIOUS
<1>7. Finding(t, n, nofunc, a, p, load, r)
  BY <1>4, <1>5, <1>6
<1>8. FunctionsOK(r.table, IF r.loaded THEN Counts(t, n, load) ELSE count, calls)
  BY <1>2, <1>3, <1>7, LookupCounts
<1>9. /\ TableOK(r.table)
      /\ r.entry.cmdtype = "function" => r.entry = r.table[n] /\ r.entry.func \in Bodies
  BY <1>2, <1>3, <1>7, EntryCounts
<1> DEFINE k == IF r.loaded THEN Counts(t, n, load) ELSE count
<1>10. FunctionsOK(r.table, k, calls)
  BY <1>8
<1>11. /\ r.entry.cmdtype = "function" => Len(calls) < MaxDepth
       /\ cmdtable' = r.table \/ cmdtable' = clearcmdentry(r.table)
       /\ path' \in {path, q}
       /\ IF r.entry.cmdtype = "function"
          THEN /\ count' = [k EXCEPT ![r.entry.func] = @ + 1]
               /\ calls' = Append(calls, [body |-> r.entry.func, saved |-> IF assigned THEN {path} ELSE {}])
          ELSE count' = k /\ UNCHANGED calls
       /\ touched' \in {Untouched, touched}
       /\ UNCHANGED <<cwd, fs, changes>>
  BY <1>1, <1>5
<1> HIDE DEF k, res, c
<1>12. FunctionsOK(r.table, count', calls') /\ Len(calls') <= MaxDepth
  <2>1. CASE r.entry.cmdtype = "function"
    <3>1. PICK x \in [body : Bodies, saved : {{}} \cup {{s} : s \in Paths}] :
            x = [body |-> r.entry.func, saved |-> IF assigned THEN {path} ELSE {}]
      <4> DEFINE s == IF assigned THEN {path} ELSE {}
      <4>1. s \in {{}} \cup {{x} : x \in Paths}
        BY DEF CountInv
      <4> HIDE DEF s
      <4>2. [body |-> r.entry.func, saved |-> s] \in [body : Bodies, saved : {{}} \cup {{x} : x \in Paths}]
        BY <1>9, <2>1, <4>1
      <4> QED BY <4>2 DEF s
    <3>2. count' = [k EXCEPT ![x.body] = @ + 1] /\ calls' = Append(calls, x) /\ Len(calls) < MaxDepth
      BY <1>11, <2>1, <3>1
    <3>3. FunctionsOK(r.table, count', calls')
      BY <1>10, <3>2, CallBegins
    <3>4. Len(calls) \in Nat /\ Len(calls') = Len(calls) + 1 /\ MaxDepth \in Nat
      <4>1. calls \in Calls /\ MaxDepth \in Nat
        BY <1>10, ExecAssumption DEF FunctionsOK
      <4> QED BY <4>1, <3>2 DEF Calls
    <3> QED BY <3>2, <3>3, <3>4
  <2>2. CASE r.entry.cmdtype # "function"
    BY <1>10, <1>11, <2>2 DEF CountInv
  <2> QED BY <2>1, <2>2
<1>13. FunctionsOK(cmdtable', count', calls')
  <2>1. TableOK(clearcmdentry(r.table)) /\ \A m \in Names : clearcmdentry(r.table)[m].func = r.table[m].func
    BY <1>9, Cleared
  <2>2. FunctionsOK(clearcmdentry(r.table), count', calls')
    BY <1>12, <2>1, SameFunctions
  <2> QED BY <1>11, <1>12, <2>2
<1> QED BY <1>2, <1>11, <1>12, <1>13 DEF CountInv, Untouched

\* A lookup that executes nothing.
LEMMA LocateCounts ==
  ASSUME CountInv, NEW t, Like(t), NEW n \in Names, Locate(t, n), touched' \in [Names -> BOOLEAN]
  PROVE  CountInv'
<1>1. PICK load \in {0} \cup NewBody :
        LET res == find_command(t, n, FALSE, FALSE, path, load)
        IN /\ cmdtable' = res.table
           /\ count' = IF res.loaded THEN Counts(t, n, load) ELSE count
  BY Zenon DEF Locate
<1>2. PICK r : r = find_command(t, n, FALSE, FALSE, path, load)
  OBVIOUS
<1>3. Finding(t, n, FALSE, FALSE, path, load, r)
  BY <1>2, FindCases
<1>4. path \in Paths
  BY DEF CountInv
<1>5. FunctionsOK(r.table, IF r.loaded THEN Counts(t, n, load) ELSE count, calls)
  BY <1>3, <1>4, LookupCounts
<1>6. cmdtable' = r.table /\ count' = IF r.loaded THEN Counts(t, n, load) ELSE count
  BY <1>1, <1>2
<1>7. FunctionsOK(cmdtable', count', calls)
  BY <1>5, <1>6
<1>8. UNCHANGED <<path, cwd, fs, calls, found, changes>>
  BY DEF Locate
<1> QED BY <1>7, <1>8 DEF CountInv

\* An entry that an interrupt left unfinished.
LEMMA InterruptedCounts ==
  ASSUME CountInv, NEW n \in Names, Interrupted(n)
  PROVE  /\ CountInv' /\ \A m \in Names : cmdtable'[m].func = cmdtable[m].func
         /\ UNCHANGED <<count, path, cwd, fs, calls, found, touched, changes>>
<1>1. PICK r : r = find_command(cmdtable, n, FALSE, FALSE, path, 0)
  OBVIOUS
<1>2. Finding(cmdtable, n, FALSE, FALSE, path, 0, r) /\ path \in Paths /\ TableOK(cmdtable)
  BY <1>1, FindCases DEF CountInv, FunctionsOK
<1>3. PICK b \in BOOLEAN : cmdtable' = [r.table EXCEPT ![n].rehash = b]
  <2>1. cmdtable[n].rehash \in BOOLEAN
    BY <1>2 DEF TableOK, Rows
  <2> QED BY <1>1, <2>1 DEF Interrupted
<1>4. /\ cmdtable[n] = NoEntry \/ cmdtable[n].rehash
      /\ r.entry.cmdtype \in {"normal", "builtin"}
      /\ UNCHANGED <<count, path, cwd, fs, calls, found, touched, changes>>
  BY <1>1 DEF Interrupted
<1>5. cmdtable[n].func = 0
  BY <1>2, <1>4, NewEntries DEF TableOK, EntryOK
<1>6. TableOK(r.table) /\ \A m \in Names : r.table[m].func = cmdtable[m].func
  <2>1. /\ TableOK(r.table)
        /\ ~r.loaded => \A m \in Names : r.table[m].func = cmdtable[m].func
        /\ r.loaded => 0 # 0
    <3>1. 0 \in Bodies \cup {0}
      OBVIOUS
    <3>2. PICK l \in Bodies \cup {0} : l = 0
      BY <3>1
    <3>5. PICK f : f = FALSE
      OBVIOUS
    <3>3. Finding(cmdtable, n, f, f, path, l, r)
      BY <1>2, <3>2, <3>5
    <3>4. /\ TableOK(r.table)
          /\ ~r.loaded => \A m \in Names : r.table[m].func = cmdtable[m].func
          /\ r.loaded => l # 0
      BY <1>2, <3>3, FindTable
    <3> QED BY <3>2, <3>4
  <2> QED BY <2>1
<1>7. PICK e : e = [r.table[n] EXCEPT !.rehash = b]
  OBVIOUS
<1>8. e \in Rows /\ EntryOK(e, n) /\ e.func = r.table[n].func
  <2>1. r.table[n] \in Rows /\ EntryOK(r.table[n], n) /\ r.table[n].func = 0
    BY <1>5, <1>6 DEF TableOK
  <2> QED BY <2>1, <1>7 DEF Rows, EntryOK
<1>9. cmdtable' = [r.table EXCEPT ![n] = e]
  BY <1>3, <1>7
<1>10. TableOK(cmdtable') /\ \A m \in Names : cmdtable'[m].func = cmdtable[m].func
  BY <1>6, <1>8, <1>9, Replaced
<1>11. FunctionsOK(cmdtable', count, calls)
  BY <1>10, SameFunctions DEF CountInv
<1> QED BY <1>4, <1>10, <1>11 DEF CountInv

\* A function is defined or removed by a command.
LEMMA DefineCounts ==
  ASSUME CountInv, NEW n \in Names, defun(n) \/ unsetfunc(n)
  PROVE  CountInv'
<1>1. FunctionsOK(cmdtable, count, calls) /\ cmdtable \in [Names -> Rows] /\ count \in [Bodies -> Int]
  BY DEF CountInv, FunctionsOK, TableOK
<1>2. cmdtable[n].func \in Bodies \cup {0} /\ 0 \notin Bodies
  BY <1>1, NewEntries DEF Rows
<1>3. CASE defun(n)
  <2>1. PICK b \in NewBody : cmdtable' = addcmdentry(cmdtable, n, b) /\ count' = Counts(cmdtable, n, b)
    BY <1>3 DEF defun
  <2>2. b \in Bodies /\ count[b] = -1
    BY DEF NewBody, Free
  <2>3. PICK e : e = Entry("function", 0, b, FALSE)
    OBVIOUS
  <2>4. e \in Rows /\ EntryOK(e, n) /\ e.func = b /\ cmdtable' = [cmdtable EXCEPT ![n] = e]
    BY <2>1, <2>2, <2>3, NewEntries DEF addcmdentry
  <2>5. /\ count' \in [Bodies -> Int]
        /\ \A d \in Bodies : count'[d] = IF d = b THEN 0 ELSE IF d = cmdtable[n].func THEN count[d] - 1 ELSE count[d]
    BY <1>1, <1>2, <2>1, <2>2 DEF Counts, freefunc
  <2>6. FunctionsOK([cmdtable EXCEPT ![n] = e], count', calls)
    BY <1>1, <2>2, <2>4, <2>5, NewFunction
  <2>7. UNCHANGED <<path, cwd, fs, calls, touched, changes>>
    BY <1>3 DEF defun
  <2> QED BY <2>4, <2>6, <2>7 DEF CountInv
<1>4. CASE unsetfunc(n)
  <2>1. /\ cmdtable' = [cmdtable EXCEPT ![n] = NoEntry] /\ count' = freefunc(count, cmdtable[n].func)
        /\ UNCHANGED <<path, cwd, fs, calls, touched, changes>>
    BY <1>4 DEF unsetfunc
  <2>2. /\ count' \in [Bodies -> Int]
        /\ \A d \in Bodies : count'[d] = IF d = NoEntry.func THEN 0 ELSE IF d = cmdtable[n].func THEN count[d] - 1 ELSE count[d]
    BY <1>1, <1>2, <2>1, NewEntries DEF freefunc
  <2>3. FunctionsOK([cmdtable EXCEPT ![n] = NoEntry], count', calls)
    <3>1. NoEntry \in Rows /\ EntryOK(NoEntry, n) /\ NoEntry.func = 0
      BY NewEntries
    <3> QED BY ONLY <1>1, <2>2, <3>1, n \in Names, NewFunction
  <2> QED BY <2>1, <2>3 DEF CountInv
<1> QED BY <1>3, <1>4

LEMMA CountInit == Init => CountInv
<1> SUFFICES ASSUME Init PROVE CountInv
  OBVIOUS
<1>1. cmdtable = [n \in Names |-> NoEntry] /\ count = [b \in Bodies |-> -1] /\ calls = <<>>
  BY DEF Init
<1>2. TableOK(cmdtable) /\ Distinct(cmdtable)
  BY <1>1, NewEntries DEF TableOK, Distinct
<1>3. calls \in Calls /\ Len(calls) = 0 /\ \A b \in Bodies : Frames(calls, b) = {}
  BY <1>1 DEF Calls, Frames
<1>4. \A b \in Bodies : Holders(cmdtable, b) = {}
  BY <1>1, NewEntries DEF Holders
<1>5. Balanced(cmdtable, count, calls)
  <2> SUFFICES ASSUME NEW b \in Bodies
               PROVE  count[b] = Cardinality(Holders(cmdtable, b)) + Cardinality(Frames(calls, b)) - 1
    BY DEF Balanced
  <2>1. Cardinality(Holders(cmdtable, b)) = 0 /\ Cardinality(Frames(calls, b)) = 0
    BY <1>3, <1>4, FS_EmptySet
  <2>2. count[b] = -1
    BY <1>1
  <2> QED BY <2>1, <2>2
<1>6. FunctionsOK(cmdtable, count, calls)
  BY <1>1, <1>2, <1>3, <1>5 DEF FunctionsOK
<1>7. changes \in 0 .. MaxChange /\ Len(calls) <= MaxDepth
  <2>1. MaxChange \in Nat /\ MaxDepth \in Nat
    BY ExecAssumption
  <2>2. changes = 0
    BY DEF Init
  <2> QED BY <1>3, <2>1, <2>2
<1> QED BY <1>6, <1>7, ExecAssumption DEF Init, CountInv, Untouched

LEMMA CountStep == CountInv /\ [Next]_vars => CountInv'
<1> SUFFICES ASSUME CountInv, [Next]_vars PROVE CountInv'
  OBVIOUS
<1> USE DEF CountInv
<1>1. ASSUME NEW n \in Names, NEW nofunc \in BOOLEAN, NEW stdpath \in BOOLEAN,
             NEW with \in {{}} \cup {{q} : q \in Paths}, evalcommand(n, nofunc, stdpath, with)
      PROVE  CountInv'
  BY <1>1, EvalCounts
<1>2. CASE Return
  <2>1. /\ calls # <<>> /\ count' = freefunc(count, Last(calls).body) /\ calls' = Front(calls)
        /\ UNCHANGED <<cwd, fs, changes>> /\ touched' \in {touched, Untouched}
        /\ path' = path \/ path' \in Last(calls).saved
        /\ cmdtable' = cmdtable \/ cmdtable' = clearcmdentry(cmdtable)
    BY <1>2 DEF Return
  <2>2. FunctionsOK(cmdtable, count', calls')
    BY <2>1, CallEnds
  <2>3. FunctionsOK(clearcmdentry(cmdtable), count', calls')
    <3>1. Like(clearcmdentry(cmdtable))
      BY LikeTables
    <3> QED BY <2>2, <3>1, SameFunctions DEF Like
  <2>4. calls \in Calls
    BY DEF FunctionsOK
  <2>5. Len(calls') = Len(calls) - 1 /\ Last(calls) \in [body : Bodies, saved : {{}} \cup {{p} : p \in Paths}]
        /\ Len(calls) \in Nat
    BY <2>1, <2>4, FrontType DEF Calls
  <2>6. path' \in Paths
    BY <2>1, <2>5
  <2>7. Len(calls') <= MaxDepth
    <3>1. Len(calls) <= MaxDepth /\ MaxDepth \in Nat
      BY ExecAssumption
    <3> QED BY ONLY <2>5, <3>1
  <2> QED BY <2>1, <2>2, <2>3, <2>6, <2>7 DEF Untouched
<1>3. CASE hashr \/ \E p \in Paths : changepath(p)
  <2>1. /\ cmdtable' = clearcmdentry(cmdtable) /\ touched' = Untouched /\ path' \in Paths
        /\ UNCHANGED <<count, cwd, fs, calls, changes>>
    BY <1>3 DEF hashr, changepath
  <2>2. FunctionsOK(clearcmdentry(cmdtable), count, calls)
    <3>1. Like(clearcmdentry(cmdtable))
      BY LikeTables
    <3> QED BY <3>1, SameFunctions DEF Like
  <2> QED BY <2>1, <2>2 DEF Untouched
<1>4. ASSUME NEW n \in Names, describe_command(n) \/ prehash(n)
      PROVE  CountInv'
  <2>1. Locate(cmdtable, n) /\ touched' \in [Names -> BOOLEAN]
    BY <1>4 DEF describe_command, prehash
  <2> QED BY <2>1, LikeTables, LocateCounts
<1>5. ASSUME NEW n \in Names, hashcmd(n)
      PROVE  CountInv'
  <2>1. PICK t : t = IF cmdtable[n].cmdtype = "normal" THEN [cmdtable EXCEPT ![n] = NoEntry] ELSE cmdtable
    OBVIOUS
  <2>2. Locate(t, n) /\ touched' \in [Names -> BOOLEAN]
    BY <1>5, <2>1 DEF hashcmd
  <2>3. Like(t)
    BY <2>1, LikeTables
  <2> QED BY <2>2, <2>3, LocateCounts
<1>6. ASSUME NEW n \in Names, Interrupted(n)
      PROVE  CountInv'
  BY <1>6, InterruptedCounts
<1>7. ASSUME NEW n \in Names, defun(n) \/ unsetfunc(n)
      PROVE  CountInv'
  BY <1>7, DefineCounts
<1>8. ASSUME NEW d \in Cwds, hashcd(d)
      PROVE  CountInv'
  <2>1. /\ cmdtable' = [n \in Names |-> IF cmdtable[n].cmdtype = "normal"
                                       THEN [cmdtable[n] EXCEPT !.rehash = TRUE] ELSE cmdtable[n]]
        /\ cwd' = d /\ UNCHANGED <<count, path, fs, calls, touched, changes>>
    BY <1>8 DEF hashcd
  <2>2. ASSUME NEW n \in Names
        PROVE  cmdtable'[n] \in Rows /\ EntryOK(cmdtable'[n], n) /\ cmdtable'[n].func = cmdtable[n].func
    <3>1. cmdtable[n] \in Rows /\ EntryOK(cmdtable[n], n)
      BY DEF FunctionsOK, TableOK
    <3> QED BY <2>1, <3>1 DEF Rows, EntryOK
  <2>3. TableOK(cmdtable')
    BY <2>1, <2>2 DEF TableOK
  <2>4. FunctionsOK(cmdtable', count, calls)
    BY <2>2, <2>3, SameFunctions
  <2> QED BY <2>1, <2>4
<1>9. ASSUME NEW c \in Changes, FilesChange(c[1], c[2], c[3])
      PROVE  CountInv'
  <2>1. c[1] \in Locs /\ c[2] \in Names /\ c[3] \in Kinds /\ MaxChange \in Nat
    BY ExecAssumption
  <2>2. /\ changes < MaxChange /\ changes' = changes + 1
        /\ fs' = [fs EXCEPT ![<<c[1], c[2]>>] = c[3]] /\ touched' = [touched EXCEPT ![c[2]] = TRUE]
        /\ UNCHANGED <<cmdtable, count, path, cwd, calls>>
    BY <1>9 DEF FilesChange
  <2>3. fs' \in [Locs \X Names -> Kinds]
    BY <2>1, <2>2
  <2>4. changes' \in 0 .. MaxChange
    BY <2>1, <2>2
  <2> QED BY <2>2, <2>3, <2>4
<1>10. CASE UNCHANGED vars
  BY <1>10 DEF vars
<1> QED BY <1>1, <1>2, <1>3, <1>4, <1>5, <1>6, <1>7, <1>8, <1>9, <1>10 DEF Next

\* The body of a function is freed when neither a name nor a call has it any
\* more, and not before: freefunc, defun, unsetfunc and evalfun count it.
THEOREM BodiesAreCounted == Spec => []Counted
<1>1. Init => CountInv
  BY CountInit
<1>2. CountInv /\ [Next]_vars => CountInv'
  BY CountStep
<1>3. CountInv => Counted
  BY CountInvTypes
<1> QED BY <1>1, <1>2, <1>3, PTL DEF Spec

(***************************************************************************)
(* Locations.  A path that ends in an empty element is walked in another   *)
(* way than PATH is documented, so that the rest is about the others.      *)
(***************************************************************************)

NoneEmpty == \A p \in Paths : p = <<>> \/ Last(p) # ""
Executable(p, j, n) == Kind(p[j], n) = "exec"
FileOf(n) == \E j \in DOMAIN FPath : Kind(FPath[j], n) \in {"plain", "exec"}

\* The first executable along a path.
First(p, n, i) ==
  /\ i \in 1 .. Len(p) /\ Executable(p, i, n)
  /\ \A j \in 1 .. Len(p) : j < i => ~Executable(p, j, n)

\* What a search has to find.
Found(p, n, i) ==
  /\ i = 0 => ~FileOf(n) /\ \A j \in 1 .. Len(p) : ~Executable(p, j, n)
  /\ i # 0 /\ i <= Len(p) => First(p, n, i)
  /\ ~(i <= Len(p)) => FileOf(n) /\ \A j \in 1 .. Len(p) : ~Executable(p, j, n)

LEMMA PathTypes ==
  /\ \A p \in Paths : p \in Seq(Locs \cup Here) /\ Len(p) \in Nat /\ DOMAIN p = 1 .. Len(p)
  /\ \A p \in Paths : \A j \in 1 .. Len(p) : p[j] \in Locs \cup Here
  /\ Len(FPath) \in Nat /\ DOMAIN FPath = 1 .. Len(FPath) /\ DefPath \in Paths
<1>1. FPath \in Seq(Locs) /\ DefPath \in Paths /\ \A p \in Paths : p \in Seq(Locs \cup Here)
  <2>1. Paths \subseteq Seq(Locs \cup Here) /\ FPath \in Seq(Locs) /\ DefPath \in Paths
    BY ExecAssumption, Zenon DEF Here
  <2> QED BY <2>1
<1> QED BY <1>1

LEMMA AllWalked ==
  ASSUME NoneEmpty, NEW p \in Paths, NEW n
  PROVE  Walked(p, n) = p
BY DEF NoneEmpty, Walked

\* A search is right if the entries it takes for granted are.
LEMMA SearchFound ==
  ASSUME NoneEmpty, NEW p \in Paths, NEW n, NEW prev \in Nat, prev <= Len(p),
         \A j \in 1 .. prev : Absolute(p[j]) => (Executable(p, j, n) <=> j = prev)
  PROVE  Found(p, n, Search(p, n, prev)) /\ Search(p, n, prev) \in Nat
<1> DEFINE w == p \o FPath
           k == Len(p)
           i == Search(p, n, prev)
<1>1. Walked(p, n) = p
  BY AllWalked
<1>2. /\ i \in Nat
      /\ i = 0 => \A j \in DOMAIN w : ~StopsAt(w, k, n, prev, j)
      /\ i # 0 => /\ i \in DOMAIN w /\ StopsAt(w, k, n, prev, i)
                  /\ \A j \in DOMAIN w : j < i => ~StopsAt(w, k, n, prev, j)
  BY <1>1, SearchFirst
<1>3. k \in Nat /\ p \in Seq(Locs \cup Here) /\ FPath \in Seq(Locs \cup Here) /\ Len(FPath) \in Nat
  <2>1. FPath \in Seq(Locs) /\ Locs \subseteq Locs \cup Here
    BY ExecAssumption
  <2> QED BY <2>1, PathTypes, SeqMonotonic
<1>4. /\ DOMAIN w = 1 .. k + Len(FPath)
      /\ \A j \in 1 .. k : w[j] = p[j]
      /\ \A j \in 1 .. Len(FPath) : w[k + j] = FPath[j]
  BY <1>3
<1> HIDE DEF w, i
<1>5. ASSUME NEW j \in 1 .. k
      PROVE  j \in DOMAIN w /\ (StopsAt(w, k, n, prev, j) <=> Executable(p, j, n))
  <2>1. w[j] = p[j] /\ j \in Nat /\ j <= k /\ j \in DOMAIN w
    BY <1>3, <1>4
  <2>2. CASE Absolute(p[j]) /\ j <= prev
    <3>1. j \in 1 .. prev
      BY <2>1, <2>2
    <3> QED BY <2>1, <2>2, <3>1 DEF StopsAt
  <2>3. CASE ~(Absolute(p[j]) /\ j <= prev)
    BY <2>1, <2>3 DEF StopsAt, Executable
  <2> QED BY <2>1, <2>2, <2>3
<1>6. ASSUME NEW j \in 1 .. Len(FPath)
      PROVE  k + j \in DOMAIN w /\ (StopsAt(w, k, n, prev, k + j) <=> Kind(FPath[j], n) \in {"plain", "exec"})
  <2>1. w[k + j] = FPath[j] /\ k + j \in Nat /\ ~(k + j <= k) /\ k + j \in DOMAIN w
    BY <1>3, <1>4
  <2>2. ~(k + j <= prev)
    BY <1>3
  <2> QED BY <2>1, <2>2 DEF StopsAt
<1>7. CASE i = 0
  <2>1. \A j \in 1 .. k : ~Executable(p, j, n)
    BY <1>2, <1>5, <1>7
  <2>2. ~FileOf(n)
    BY <1>2, <1>3, <1>6, <1>7 DEF FileOf
  <2>3. i <= k
    BY <1>3, <1>7
  <2> QED BY <1>2, <1>7, <2>1, <2>2, <2>3 DEF Found, i
<1>8. CASE i # 0 /\ i <= k
  <2>1. i \in 1 .. k
    BY <1>2, <1>3, <1>8
  <2>2. Executable(p, i, n)
    BY <1>2, <1>5, <1>8, <2>1
  <2>3. \A j \in 1 .. k : j < i => ~Executable(p, j, n)
    BY <1>2, <1>5, <1>8
  <2>4. First(p, n, i)
    BY <2>1, <2>2, <2>3 DEF First
  <2> QED BY <1>2, <1>8, <2>4 DEF Found, i
<1>9. CASE ~(i <= k)
  <2>1. i # 0 /\ i \in DOMAIN w /\ i \in Nat /\ i > k
    BY <1>2, <1>3, <1>9
  <2>2. PICK j \in 1 .. Len(FPath) : i = k + j
    <3>1. i - k \in 1 .. Len(FPath) /\ i = k + (i - k)
      BY <2>1, <1>3, <1>4
    <3> QED BY <3>1
  <2>3. FileOf(n)
    <3>1. StopsAt(w, k, n, prev, i)
      BY <1>2, <2>1
    <3>2. j \in DOMAIN FPath
      BY <1>3
    <3> QED BY <1>6, <2>2, <3>1, <3>2 DEF FileOf
  <2>4. \A m \in 1 .. k : ~Executable(p, m, n)
    <3> TAKE m \in 1 .. k
    <3>1. m < i
      BY <1>3, <2>1
    <3> QED BY <1>2, <1>5, <2>1, <3>1
  <2> QED BY <1>2, <1>9, <2>1, <2>3, <2>4 DEF Found, i
<1> QED BY <1>7, <1>8, <1>9

\* The least element of a set, given one that is.
LEMMA MinIs ==
  ASSUME NEW S \in SUBSET Nat, NEW m \in S, \A y \in S : m <= y
  PROVE  Min(S) = m
<1>1. Min(S) \in S /\ \A y \in S : Min(S) <= y
  BY MinNat
<1>2. Min(S) <= m /\ m <= Min(S) /\ Min(S) \in Nat /\ m \in Nat
  BY <1>1
<1> QED BY <1>2

\* shellexec runs the file that was found.
LEMMA RunsFirst ==
  ASSUME NEW p \in Paths, NEW n, NEW i, First(p, n, i)
  PROVE  /\ shellexec(p, n, i) = Ran(Place(p[i]))
         /\ {j \in DOMAIN p : Kind(p[j], n) = "exec"} # {}
         /\ Min({j \in DOMAIN p : Kind(p[j], n) = "exec"}) = i
<1> DEFINE tried == {j \in i .. Len(p) : Kind(p[j], n) # "none"}
           runs == {j \in tried : Kind(p[j], n) = "exec"}
           all == {j \in DOMAIN p : Kind(p[j], n) = "exec"}
<1>1. /\ Len(p) \in Nat /\ DOMAIN p = 1 .. Len(p) /\ i \in 1 .. Len(p) /\ Kind(p[i], n) = "exec"
      /\ \A j \in 1 .. Len(p) : j < i => Kind(p[j], n) # "exec"
  BY PathTypes DEF First, Executable
<1>2. runs \in SUBSET Nat /\ i \in runs /\ \A j \in runs : i <= j
  BY <1>1
<1>3. all \in SUBSET Nat /\ i \in all /\ \A j \in all : i <= j
  BY <1>1
<1>4. shellexec(p, n, i) = IF runs # {} THEN Ran(Place(p[Min(runs)]))
                           ELSE Failed(IF tried # {} THEN 126 ELSE 127)
  BY DEF shellexec
<1> HIDE DEF runs, all, tried
<1>5. Min(runs) = i /\ Min(all) = i
  BY <1>2, <1>3, MinIs
<1> QED BY <1>2, <1>3, <1>4, <1>5 DEF all

\* Whatever happens, the outcome is one that there is.
LEMMA RunsSomething ==
  ASSUME cwd \in Cwds, NEW p \in Paths, NEW n, NEW i \in Nat \ {0}
  PROVE  \/ \E l \in Locs : shellexec(p, n, i) = Ran(l)
         \/ shellexec(p, n, i) \in {Failed(126), Failed(127)}
<1> DEFINE tried == {j \in i .. Len(p) : Kind(p[j], n) # "none"}
           runs == {j \in tried : Kind(p[j], n) = "exec"}
<1>1. shellexec(p, n, i) = IF runs # {} THEN Ran(Place(p[Min(runs)]))
                           ELSE Failed(IF tried # {} THEN 126 ELSE 127)
  BY DEF shellexec
<1>2. CASE runs # {}
  <2>1. Len(p) \in Nat /\ \A j \in 1 .. Len(p) : p[j] \in Locs \cup Here
    BY PathTypes
  <2>2. runs \in SUBSET (1 .. Len(p)) /\ runs \in SUBSET Nat
    BY <2>1
  <2> HIDE DEF runs, tried
  <2>3. Min(runs) \in 1 .. Len(p)
    BY <1>2, <2>2, MinNat
  <2>4. Place(p[Min(runs)]) \in Locs
    BY <2>1, <2>3, ExecAssumption DEF Place
  <2> QED BY <1>1, <1>2, <2>4
<1>3. CASE runs = {}
  <2> HIDE DEF runs, tried
  <2> QED BY <1>1, <1>3
<1> QED BY <1>2, <1>3

(***************************************************************************)
(* The locations in the table.                                             *)
(***************************************************************************)

\* As long as no file changed, an entry is right, or after cd will be when the
\* relative elements in front of it, or itself, are looked at again.
LocatedBy(e, p, n) ==
  /\ Absolute(p[e.index]) => Executable(p, e.index, n)
  /\ \A j \in 1 .. Len(p) : j < e.index /\ Absolute(p[j]) => ~Executable(p, j, n)
  /\ ~e.rehash => First(p, n, e.index)
Located(e, p, n) ==
  e.cmdtype = "normal" => e.index \in 1 .. Len(p) /\ (~touched[n] => LocatedBy(e, p, n))
LocInv == \A n \in Names : Located(cmdtable[n], path, n)

\* A table that a lookup along p starts from.
Start(t, p, alt) ==
  \A n \in Names : t[n].cmdtype = "normal" => t[n] = cmdtable[n] /\ (alt \/ p = path)

LEMMA FirstLocates ==
  ASSUME NEW e, NEW p \in Paths, NEW n, First(p, n, e.index)
  PROVE  LocatedBy(e, p, n) /\ e.index \in 1 .. Len(p)
BY DEF First, LocatedBy

\* The search of a lookup finds what it should.
LEMMA SpotRight ==
  ASSUME NoneEmpty, CountInv, LocInv, NEW t, TableOK(t), NEW n \in Names, NEW nofunc, NEW alt,
         NEW p \in Paths, Start(t, p, alt),
         ~touched[n] \/ alt \/ Hint(t[n]) = 0
  PROVE  Found(p, n, Spot(t, n, nofunc, alt, p)) /\ Spot(t, n, nofunc, alt, p) \in Nat
<1> DEFINE prev == Hint(Asked(t[n], nofunc, alt))
<1>1. Spot(t, n, nofunc, alt, p) = Search(p, n, prev)
  BY DEF Spot
<1>2. t[n] \in Rows /\ Len(p) \in Nat
  BY PathTypes DEF TableOK
<1>3. CASE prev = 0
  <2>1. prev \in Nat /\ prev <= Len(p) /\ \A j \in 1 .. prev : Absolute(p[j]) => (Executable(p, j, n) <=> j = prev)
    BY <1>2, <1>3
  <2> HIDE DEF prev
  <2> QED BY <1>1, <2>1, SearchFound
<1>4. CASE prev # 0
  <2>1. /\ Asked(t[n], nofunc, alt) = t[n] /\ t[n].cmdtype = "normal" /\ prev = t[n].index /\ ~alt
        /\ Hint(t[n]) # 0
    BY <1>4, NewEntries DEF Hint, Asked, Passed
  <2>2. t[n] = cmdtable[n] /\ p = path /\ ~touched[n]
    BY <2>1 DEF Start
  <2>3. LocatedBy(t[n], p, n) /\ t[n].index \in 1 .. Len(p)
    BY <2>1, <2>2 DEF LocInv, Located
  <2>4. prev \in Nat /\ prev <= Len(p) /\ \A j \in 1 .. prev : Absolute(p[j]) => (Executable(p, j, n) <=> j = prev)
    <3>1. prev \in 1 .. Len(p)
      BY <2>1, <2>3
    <3> SUFFICES ASSUME NEW j \in 1 .. prev, Absolute(p[j])
                 PROVE  Executable(p, j, n) <=> j = prev
      BY <3>1, <1>2
    <3>2. j \in 1 .. Len(p)
      BY <3>1, <1>2
    <3>3. CASE j = prev
      BY <3>3, <2>1, <2>3 DEF LocatedBy
    <3>4. CASE j # prev
      <4>1. j < t[n].index
        BY <3>1, <3>4, <2>1, <1>2
      <4> QED BY <4>1, <3>2, <3>4, <2>3 DEF LocatedBy
    <3> QED BY <3>3, <3>4
  <2> HIDE DEF prev
  <2> QED BY <1>1, <2>4, SearchFound
<1> QED BY <1>3, <1>4

(***************************************************************************)
(* What a lookup answers.                                                  *)
(***************************************************************************)

\* No function and no builtin: then it is a file, or it is not.
Elsewhere(t, n, nofunc) == (nofunc \/ t[n].func = 0) /\ n \notin Builtins
NoneRuns(p, n) == \A j \in 1 .. Len(p) : ~Executable(p, j, n)

\* The right answers, as the entry e and what becomes of the functions.
RightEntry(t, n, nofunc, p, load, e) ==
  \/ ~nofunc /\ t[n].func # 0 /\ load = 0 /\ e.cmdtype = "function" /\ e.func = t[n].func
  \/ (nofunc \/ t[n].func = 0) /\ n \in Builtins /\ load = 0 /\ e.cmdtype = "builtin"
  \/ Elsewhere(t, n, nofunc) /\ load = 0 /\ e.cmdtype = "normal" /\ First(p, n, e.index)
  \/ /\ Elsewhere(t, n, nofunc) /\ NoneRuns(p, n) /\ FileOf(n)
     /\ \/ e.cmdtype = "function" /\ load # 0 /\ e.func = load
        \/ e.cmdtype = "function" /\ load = 0 /\ e.func = t[n].func
        \/ e.cmdtype = "error" /\ load = 0
  \/ Elsewhere(t, n, nofunc) /\ NoneRuns(p, n) /\ ~FileOf(n) /\ e.cmdtype = "unknown" /\ load = 0

LEMMA LookupRight ==
  ASSUME NoneEmpty, CountInv, LocInv, NEW t, Like(t), NEW n \in Names, NEW nofunc, NEW alt,
         NEW p \in Paths, Start(t, p, alt), ~touched[n] \/ alt \/ t[n].cmdtype # "normal",
         NEW load, NEW res, Finding(t, n, nofunc, alt, p, load, res), load # 0 => res.loaded
  PROVE  RightEntry(t, n, nofunc, p, load, res.entry)
<1>1. /\ t[n] \in Rows /\ EntryOK(t[n], n)
  BY DEF Like, TableOK
<1>2. PICK i : i = Spot(t, n, nofunc, alt, p)
  OBVIOUS
<1>3. Found(p, n, i) /\ i \in Nat
  <2>1. TableOK(t)
    BY DEF Like
  <2>2. ~touched[n] \/ alt \/ Hint(t[n]) = 0
    BY DEF Hint
  <2> QED BY <1>2, <2>1, <2>2, SpotRight
<1>4. Walked(p, n) = p /\ Len(p) \in Nat
  BY AllWalked, PathTypes
<1>5. CASE Known(t, n, nofunc, alt, res)
  <2>1. /\ res = Given(t, Asked(t[n], nofunc, alt)) /\ Asked(t[n], nofunc, alt).cmdtype # "unknown"
        /\ ~Asked(t[n], nofunc, alt).rehash
    BY <1>5 DEF Known, Answers
  <2>2. Asked(t[n], nofunc, alt) = t[n] /\ ~Passed(t[n], nofunc, alt)
    BY <2>1, NewEntries DEF Asked
  <2>3. res.entry = t[n] /\ ~res.loaded /\ load = 0
    BY <2>1, <2>2 DEF Given
  <2>4. CASE t[n].cmdtype = "function"
    BY <2>2, <2>3, <2>4, <1>1 DEF EntryOK, Passed, RightEntry
  <2>5. CASE t[n].cmdtype = "builtin"
    BY <2>3, <2>5, <1>1 DEF EntryOK, RightEntry
  <2>6. CASE t[n].cmdtype = "normal"
    <3>1. t[n] = cmdtable[n] /\ p = path /\ ~touched[n] /\ ~alt
      BY <2>2, <2>6 DEF Start, Passed
    <3>2. First(p, n, t[n].index)
      BY <2>1, <2>2, <2>6, <3>1 DEF LocInv, Located, LocatedBy
    <3> QED BY <2>3, <2>6, <3>2, <1>1 DEF EntryOK, RightEntry, Elsewhere
  <2> QED BY <2>1, <2>2, <2>4, <2>5, <2>6, <1>1 DEF Rows
<1>6. CASE ~Answers(t[n], nofunc, alt)
  <2>1. nofunc \/ t[n].func = 0
    <3> SUFFICES ASSUME ~nofunc, t[n].func # 0 PROVE FALSE
      OBVIOUS
    <3>1. t[n].cmdtype = "function" /\ ~t[n].rehash
      BY <1>1 DEF EntryOK
    <3>2. Asked(t[n], nofunc, alt) = t[n]
      BY <3>1 DEF Asked, Passed
    <3> QED BY <1>6, <3>1, <3>2 DEF Answers
  <2>2. CASE IsBuiltin(t, n, nofunc, alt, res)
    <3>1. n \in Builtins /\ res.entry.cmdtype = "builtin" /\ ~res.loaded
      BY <2>2 DEF IsBuiltin, Entered, Given, Entry
    <3> QED BY <2>1, <3>1 DEF RightEntry
  <2>3. CASE Nothing(t, n, nofunc, alt, p, res)
    <3>1. n \notin Builtins /\ i = 0 /\ res.entry = NoEntry /\ ~res.loaded
      BY <2>3, <1>2 DEF Nothing, Entered, Given
    <3>2. ~FileOf(n) /\ NoneRuns(p, n)
      BY <1>3, <3>1 DEF Found, NoneRuns
    <3> QED BY <2>1, <3>1, <3>2, NewEntries DEF RightEntry, Elsewhere
  <2>4. CASE IsFile(t, n, nofunc, alt, p, res)
    <3>1. /\ n \notin Builtins /\ i # 0 /\ (i = Asked(t[n], nofunc, alt).index \/ i <= Len(p))
          /\ res.entry = Entry("normal", i, 0, FALSE) /\ ~res.loaded
      BY <2>4, <1>2, <1>4 DEF IsFile, Entered, Given
    <3>2. i <= Len(p)
      <4> SUFFICES ASSUME i = Asked(t[n], nofunc, alt).index PROVE i <= Len(p)
        BY <3>1
      <4>1. Asked(t[n], nofunc, alt) = t[n] /\ ~Passed(t[n], nofunc, alt)
        BY <3>1, NewEntries DEF Asked, NoEntry, Entry
      <4>2. t[n].cmdtype # "unknown" /\ t[n].cmdtype # "builtin"
        BY <1>1, <3>1, <4>1 DEF EntryOK
      <4>3. t[n].cmdtype # "function"
        BY <1>1, <1>6, <4>1, <4>2 DEF EntryOK, Answers
      <4>4. t[n].cmdtype = "normal" /\ ~alt
        BY <1>1, <4>1, <4>2, <4>3 DEF Rows, Passed
      <4>5. t[n] = cmdtable[n] /\ p = path
        BY <4>4 DEF Start
      <4>6. t[n].index \in 1 .. Len(p)
        BY <4>4, <4>5 DEF LocInv, Located
      <4> QED BY <4>1, <4>6, <1>4
    <3>3. First(p, n, i)
      BY <1>3, <3>1, <3>2 DEF Found
    <3>4. res.entry.cmdtype = "normal" /\ res.entry.index = i
      BY <3>1 DEF Entry
    <3> QED BY <2>1, <3>1, <3>3, <3>4 DEF RightEntry, Elsewhere
  <2>5. CASE IsFunction(t, n, nofunc, alt, p, load, res)
    <3>1. n \notin Builtins /\ i # 0 /\ ~(i <= Len(p))
      BY <2>5, <1>2, <1>4 DEF IsFunction
    <3>2. FileOf(n) /\ NoneRuns(p, n)
      BY <1>3, <3>1 DEF Found, NoneRuns
    <3>3. CASE load # 0 /\ res = Loaded(t, n, load)
      <4>1. res.entry = Entry("function", 0, load, FALSE)
        <5>1. t \in [Names -> Rows]
          BY DEF Like, TableOK
        <5>2. [t EXCEPT ![n] = Entry("function", 0, load, FALSE)][n] = Entry("function", 0, load, FALSE)
          BY <5>1
        <5> QED BY <3>3, <5>2 DEF Loaded, addcmdentry
      <4>2. res.entry.cmdtype = "function" /\ res.entry.func = load
        BY <4>1 DEF Entry
      <4> QED BY <2>1, <3>1, <3>2, <3>3, <4>2 DEF RightEntry, Elsewhere
    <3>4. CASE load = 0 /\ t[n].cmdtype = "function" /\ res = Given(t, t[n])
      <4>1. res.entry = t[n]
        BY <3>4 DEF Given
      <4> QED BY <2>1, <3>1, <3>2, <3>4, <4>1 DEF RightEntry, Elsewhere
    <3>5. CASE load = 0 /\ res = Given(t, [NoEntry EXCEPT !.cmdtype = "error"])
      <4>1. res.entry.cmdtype = "error"
        BY <3>5 DEF Given, NoEntry, Entry
      <4> QED BY <2>1, <3>1, <3>2, <3>5, <4>1 DEF RightEntry, Elsewhere
    <3> QED BY <2>5, <3>3, <3>4, <3>5 DEF IsFunction
  <2> QED BY <1>6, <2>2, <2>3, <2>4, <2>5, <1>5 DEF Finding
<1> QED BY <1>5, <1>6 DEF Finding

(***************************************************************************)
(* The same in the terms of Lookup.                                        *)
(***************************************************************************)

Functions(t) == [n \in Names |-> t[n].func]
Bodied == [n \in Names |-> cmdtable[n].func]

LEMMA SameTerms ==
  /\ \A d : Table!Place(d) = Place(d)
  /\ \A p, n : Table!Executables(p, n) = {j \in DOMAIN p : Kind(p[j], n) = "exec"}
  /\ \A n : Table!FunctionFile(n) <=> FileOf(n)
  /\ \A b : Table!Function(b) = Function(b)
  /\ \A l : Table!Ran(l) = Ran(l)
  /\ \A s : Table!Failed(s) = Failed(s)
  /\ Table!Builtin = Builtin
  /\ \A S : Table!Min(S) = Min(S)
  /\ \A s : Table!Last(s) = Last(s) /\ Table!Front(s) = Front(s)
BY DEF Table!Place, Place, Table!Here, Here, Table!Executables, Table!Kind, Kind, Table!FunctionFile, FileOf,
       Table!Regular, Table!Function, Function, Table!Ran, Ran, Table!Failed, Failed, Table!Builtin, Builtin,
       Table!Min, Min, Table!Last, Last, Table!Front, Front

\* An entry that is found has what its kind has to have.
LEMMA EntryIs ==
  ASSUME NEW t, TableOK(t), NEW n \in Names, NEW nofunc, NEW alt, NEW p \in Paths,
         NEW load \in Bodies \cup {0}, NEW res, Finding(t, n, nofunc, alt, p, load, res)
  PROVE  /\ res.entry.cmdtype = "normal" => res.entry.index \in Nat \ {0}
         /\ res.entry.cmdtype = "function" => res.entry.func \in Bodies /\ res.entry.func = res.table[n].func
<1>1. t[n] \in Rows /\ EntryOK(t[n], n)
  BY DEF TableOK
<1>2. res.entry.cmdtype = "function" => res.entry.func \in Bodies /\ res.entry.func = res.table[n].func
  BY FindTable
<1>3. ASSUME res.entry.cmdtype = "normal"
      PROVE  res.entry = t[n] \/ \E i \in Nat \ {0} : res.entry = Entry("normal", i, 0, FALSE)
  <2>1. CASE Known(t, n, nofunc, alt, res)
    BY <1>3, <2>1, NewEntries DEF Known, Given, Asked
  <2>2. CASE IsBuiltin(t, n, nofunc, alt, res)
    BY <1>3, <2>2 DEF IsBuiltin, Entered, Given, Entry
  <2>3. CASE Nothing(t, n, nofunc, alt, p, res)
    BY <1>3, <2>3, NewEntries DEF Nothing, Entered, Given
  <2>4. CASE IsFile(t, n, nofunc, alt, p, res)
    <3>1. Spot(t, n, nofunc, alt, p) \in Nat
      BY SearchFirst DEF Spot
    <3> QED BY <2>4, <3>1 DEF IsFile, Entered, Given
  <2>5. CASE IsFunction(t, n, nofunc, alt, p, load, res)
    <3>1. load # 0 /\ res = Loaded(t, n, load) => res.entry = Entry("function", 0, load, FALSE)
      BY DEF Loaded, addcmdentry, TableOK
    <3>2. res = Given(t, [NoEntry EXCEPT !.cmdtype = "error"]) => res.entry.cmdtype = "error"
      BY DEF Given, NoEntry, Entry
    <3>3. res = Given(t, t[n]) => res.entry = t[n]
      BY DEF Given
    <3>4. Entry("function", 0, load, FALSE).cmdtype = "function"
      BY DEF Entry
    <3> QED BY <1>3, <2>5, <3>1, <3>2, <3>3, <3>4 DEF IsFunction
  <2> QED BY <2>1, <2>2, <2>3, <2>4, <2>5 DEF Finding
<1>4. \A i : Entry("normal", i, 0, FALSE).index = i
  BY DEF Entry
<1>5. ASSUME res.entry.cmdtype = "normal"
      PROVE  res.entry.index \in Nat \ {0}
  <2>1. CASE res.entry = t[n]
    BY <1>1, <1>5, <2>1 DEF EntryOK, Rows
  <2>2. CASE \E i \in Nat \ {0} : res.entry = Entry("normal", i, 0, FALSE)
    BY <1>4, <2>2
  <2> QED BY <1>3, <1>5, <2>1, <2>2
<1> QED BY <1>2, <1>5

\* What executing an entry comes to.
LEMMA OutcomeIs ==
  ASSUME cwd \in Cwds, NEW p \in Paths, NEW n, NEW e,
         e.cmdtype = "normal" => e.index \in Nat \ {0},
         e.cmdtype = "function" => e.func \in Bodies,
         NEW r, r = Outcome(e, p, n)
  PROVE  /\ r \in Table!Outcomes
         /\ r.type = "function" <=> e.cmdtype = "function"
         /\ e.cmdtype = "function" => r = Function(e.func) /\ r.body = e.func
         /\ r = Builtin <=> e.cmdtype = "builtin"
         /\ e.cmdtype = "normal" => r = shellexec(p, n, e.index)
         /\ e.cmdtype = "error" => r = Failed(2)
         /\ e.cmdtype = "unknown" => r = Failed(127)
<1>1. /\ \A l \in Locs : Ran(l) \in Table!Outcomes
      /\ \A b \in Bodies : Function(b) \in Table!Outcomes
      /\ {Builtin, Failed(2), Failed(126), Failed(127)} \subseteq Table!Outcomes
  BY SameTerms DEF Table!Outcomes
<1>2. /\ \A l : Ran(l).type = "ran"
      /\ \A b : Function(b).type = "function" /\ Function(b).body = b
      /\ Builtin.type = "builtin"
      /\ \A s : Failed(s).type = "failed"
  BY DEF Ran, Function, Builtin, Failed
<1>3. CASE e.cmdtype = "function"
  <2>1. r = Function(e.func)
    BY <1>3 DEF Outcome
  <2> QED BY <1>1, <1>2, <1>3, <2>1
<1>4. CASE e.cmdtype = "builtin"
  <2>1. r = Builtin
    BY <1>4 DEF Outcome
  <2> QED BY <1>1, <1>2, <1>4, <2>1
<1>5. CASE e.cmdtype = "normal"
  <2>1. r = shellexec(p, n, e.index)
    BY <1>5 DEF Outcome
  <2>2. (\E l \in Locs : r = Ran(l)) \/ r \in {Failed(126), Failed(127)}
    BY <1>5, <2>1, RunsSomething
  <2>3. r \in Table!Outcomes /\ r.type \in {"ran", "failed"}
    BY <1>1, <1>2, <2>2
  <2> QED BY <1>2, <1>5, <2>1, <2>3
<1>6. CASE e.cmdtype = "error"
  <2>1. r = Failed(2)
    BY <1>6 DEF Outcome
  <2> QED BY <1>1, <1>2, <1>6, <2>1
<1>7. CASE e.cmdtype \notin {"function", "builtin", "normal", "error"}
  <2>1. r = Failed(127)
    BY <1>7 DEF Outcome
  <2> QED BY <1>1, <1>2, <1>7, <2>1
<1> QED BY <1>3, <1>4, <1>5, <1>6, <1>7

\* The functions after a lookup.
After(n, load) ==
  /\ load = 0 => Bodied' = Bodied
  /\ load # 0 => Bodied' = [Bodied EXCEPT ![n] = load]

LEMMA FunctionsAfter ==
  ASSUME CountInv, NEW t, Like(t), NEW n \in Names, NEW nofunc, NEW alt, NEW p \in Paths,
         NEW load \in {0} \cup NewBody, NEW res, Finding(t, n, nofunc, alt, p, load, res), load # 0 => res.loaded,
         \A m \in Names : cmdtable'[m].func = res.table[m].func
  PROVE  After(n, load) /\ Bodied[n] = t[n].func
<1>1. TableOK(t) /\ (\A m \in Names : t[m].func = cmdtable[m].func) /\ load \in Bodies \cup {0}
  BY DEF Like, NewBody, Free
<1>2. /\ ~res.loaded => \A m \in Names : res.table[m].func = t[m].func
      /\ res.loaded => load # 0 /\ res.table = addcmdentry(t, n, load)
  BY <1>1, FindTable
<1>3. t \in [Names -> Rows]
  BY <1>1 DEF TableOK
<1>4. CASE load = 0
  <2>1. \A m \in Names : cmdtable'[m].func = cmdtable[m].func
    BY <1>1, <1>2, <1>4
  <2> QED BY <1>1, <1>4, <2>1 DEF Bodied, After
<1>5. CASE load # 0
  <2>1. res.table = [t EXCEPT ![n] = Entry("function", 0, load, FALSE)]
    BY <1>2, <1>5 DEF addcmdentry
  <2>2. Entry("function", 0, load, FALSE).func = load
    BY DEF Entry
  <2>3. \A m \in Names : cmdtable'[m].func = IF m = n THEN load ELSE cmdtable[m].func
    BY <1>1, <1>3, <2>1, <2>2
  <2>4. Bodied' = [m \in Names |-> cmdtable'[m].func]
    BY DEF Bodied
  <2>5. [Bodied EXCEPT ![n] = load] = [m \in Names |-> IF m = n THEN load ELSE cmdtable[m].func]
    BY DEF Bodied
  <2>6. Bodied[n] = t[n].func
    BY <1>1 DEF Bodied
  <2> QED BY <1>5, <2>3, <2>4, <2>5, <2>6 DEF After
<1> QED BY <1>4, <1>5

\* What the abstract machine calls a right answer, and any answer.
RightAnswer(n, nofunc, p, r) ==
  IF ~nofunc /\ Bodied[n] # 0 THEN r = Function(Bodied[n]) /\ Bodied' = Bodied
  ELSE IF n \in Builtins THEN r = Builtin /\ Bodied' = Bodied
  ELSE IF {j \in DOMAIN p : Kind(p[j], n) = "exec"} # {}
       THEN r = Ran(Place(p[Min({j \in DOMAIN p : Kind(p[j], n) = "exec"})])) /\ Bodied' = Bodied
  ELSE IF FileOf(n)
       THEN \/ /\ r.type = "function"
               /\ r.body \notin Table!Allocated \/ r.body = Bodied[n]
               /\ Bodied' = [Bodied EXCEPT ![n] = r.body]
            \/ r = Failed(2) /\ Bodied' = Bodied
  ELSE r = Failed(127) /\ Bodied' = Bodied
OldAnswer(n, r) ==
  \/ r.type # "function" /\ Bodied' = Bodied
  \/ r.type = "function" /\ Bodied' = [Bodied EXCEPT ![n] = r.body]

LEMMA AnswerIs ==
  ASSUME NEW n, NEW nofunc, NEW alt, NEW p, NEW r
  PROVE  /\ RightAnswer(n, nofunc, p, r) => Table!Answer(n, nofunc, alt, p, r)
         /\ touched[n] /\ ~alt /\ OldAnswer(n, r) => Table!Answer(n, nofunc, alt, p, r)
BY SameTerms, Zenon DEF Table!Right, Table!Answer, Bodied, RightAnswer, OldAnswer

LEMMA FreeIs ==
  ASSUME CountInv, NEW b \in NewBody
  PROVE  b \notin Table!Allocated
<1>1. b \in Bodies /\ count[b] = -1
  BY DEF NewBody, Free
<1>2. (\A n \in Names : cmdtable[n].func # b) /\ (\A i \in DOMAIN calls : calls[i].body # b)
  BY <1>1, FreeBody DEF CountInv
<1> QED BY <1>2 DEF Table!Allocated

\* What a lookup answers is an answer that Lookup allows.
LEMMA AnswerRight ==
  ASSUME NoneEmpty, CountInv, LocInv, NEW t, Like(t), NEW n \in Names, NEW nofunc, NEW alt,
         NEW p \in Paths, Start(t, p, alt), NEW load \in {0} \cup NewBody,
         NEW res, Finding(t, n, nofunc, alt, p, load, res), load # 0 => res.loaded,
         \A m \in Names : cmdtable'[m].func = res.table[m].func,
         NEW r, r = Outcome(res.entry, p, n)
  PROVE  r \in Table!Outcomes /\ Table!Answer(n, nofunc, alt, p, r)
<1> DEFINE e == res.entry
           runs == {j \in DOMAIN p : Kind(p[j], n) = "exec"}
<1>1. load \in Bodies \cup {0} /\ TableOK(t) /\ cwd \in Cwds /\ t[n] \in Rows /\ DOMAIN p = 1 .. Len(p)
  BY PathTypes DEF NewBody, Free, Like, TableOK, CountInv
<1>2. /\ e.cmdtype = "normal" => e.index \in Nat \ {0}
      /\ e.cmdtype = "function" => e.func \in Bodies /\ e.func = res.table[n].func
  BY <1>1, EntryIs
<1>3. /\ load = 0 => Bodied' = Bodied
      /\ load # 0 => Bodied' = [Bodied EXCEPT ![n] = load]
      /\ Bodied[n] = t[n].func
  <2>1. After(n, load) /\ Bodied[n] = t[n].func
    BY FunctionsAfter
  <2> QED BY <2>1 DEF After
<1>4. /\ r \in Table!Outcomes
      /\ r.type = "function" <=> e.cmdtype = "function"
      /\ e.cmdtype = "function" => r = Function(e.func) /\ r.body = e.func
      /\ r = Builtin <=> e.cmdtype = "builtin"
      /\ e.cmdtype = "normal" => r = shellexec(p, n, e.index)
      /\ e.cmdtype = "error" => r = Failed(2)
      /\ e.cmdtype = "unknown" => r = Failed(127)
  BY <1>1, <1>2, OutcomeIs
<1>5. Bodied = [Bodied EXCEPT ![n] = Bodied[n]]
  BY DEF Bodied
<1>6. CASE ~touched[n] \/ alt \/ t[n].cmdtype # "normal"
  <2>1. RightEntry(t, n, nofunc, p, load, e)
    BY <1>6, LookupRight
  <2>2. ASSUME ~nofunc, t[n].func # 0, load = 0, e.cmdtype = "function", e.func = t[n].func
        PROVE  RightAnswer(n, nofunc, p, r)
    BY <2>2, <1>3, <1>4 DEF RightAnswer
  <2>3. ASSUME nofunc \/ t[n].func = 0, n \in Builtins, load = 0, e.cmdtype = "builtin"
        PROVE  RightAnswer(n, nofunc, p, r)
    BY <2>3, <1>3, <1>4 DEF RightAnswer
  <2>4. ASSUME Elsewhere(t, n, nofunc), load = 0, e.cmdtype = "normal", First(p, n, e.index)
        PROVE  RightAnswer(n, nofunc, p, r)
    <3>1. /\ shellexec(p, n, e.index) = Ran(Place(p[e.index]))
          /\ runs # {} /\ Min(runs) = e.index
      BY <2>4, RunsFirst
    <3> HIDE DEF runs
    <3>2. r = Ran(Place(p[Min(runs)])) /\ Bodied' = Bodied
      BY <2>4, <3>1, <1>3, <1>4
    <3> QED BY <2>4, <3>1, <3>2, <1>3, Zenon DEF RightAnswer, Elsewhere, runs
  <2>5. ASSUME Elsewhere(t, n, nofunc), NoneRuns(p, n)
        PROVE  runs = {}
    BY <2>5, <1>1 DEF NoneRuns, Executable
  <2>6. ASSUME Elsewhere(t, n, nofunc), NoneRuns(p, n), FileOf(n),
               \/ e.cmdtype = "function" /\ load # 0 /\ e.func = load
               \/ e.cmdtype = "function" /\ load = 0 /\ e.func = t[n].func
               \/ e.cmdtype = "error" /\ load = 0
        PROVE  RightAnswer(n, nofunc, p, r)
    <3>1. runs = {}
      BY <2>5, <2>6
    <3>2. \/ /\ r.type = "function"
             /\ r.body \notin Table!Allocated \/ r.body = Bodied[n]
             /\ Bodied' = [Bodied EXCEPT ![n] = r.body]
          \/ r = Failed(2) /\ Bodied' = Bodied
      <4>1. CASE e.cmdtype = "function" /\ load # 0 /\ e.func = load
        <5>1. load \in NewBody
          BY <4>1
        <5>2. load \notin Table!Allocated
          BY <5>1, FreeIs
        <5> QED BY <4>1, <5>2, <1>3, <1>4
      <4>2. CASE e.cmdtype = "function" /\ load = 0 /\ e.func = t[n].func
        BY <4>2, <1>3, <1>4, <1>5
      <4>3. CASE e.cmdtype = "error" /\ load = 0
        BY <4>3, <1>3, <1>4
      <4> QED BY <2>6, <4>1, <4>2, <4>3
    <3> HIDE DEF runs
    <3> QED BY <2>6, <3>1, <3>2, <1>3, Zenon DEF RightAnswer, Elsewhere, runs
  <2>7. ASSUME Elsewhere(t, n, nofunc), NoneRuns(p, n), ~FileOf(n), e.cmdtype = "unknown", load = 0
        PROVE  RightAnswer(n, nofunc, p, r)
    <3>1. runs = {}
      BY <2>5, <2>7
    <3>2. r = Failed(127) /\ Bodied' = Bodied
      BY <2>7, <1>3, <1>4
    <3> HIDE DEF runs
    <3> QED BY <2>7, <3>1, <3>2, <1>3, Zenon DEF RightAnswer, Elsewhere, runs
  <2>8. RightAnswer(n, nofunc, p, r)
    BY <2>1, <2>2, <2>3, <2>4, <2>6, <2>7, Zenon DEF RightEntry
  <2> QED BY <2>8, <1>4, AnswerIs, Zenon
<1>7. CASE touched[n] /\ ~alt
  <2>1. OldAnswer(n, r)
    <3>1. CASE load = 0 /\ e.cmdtype # "function"
      BY <3>1, <1>3, <1>4 DEF OldAnswer
    <3>2. CASE e.cmdtype = "function"
      <4>1. r.body = res.table[n].func /\ Bodied'[n] = res.table[n].func
        BY <3>2, <1>2, <1>4 DEF Bodied
      <4>2. Bodied' = [Bodied EXCEPT ![n] = Bodied'[n]]
        BY <1>3, <1>5 DEF Bodied
      <4> QED BY <3>2, <4>1, <4>2, <1>4 DEF OldAnswer
    <3>3. CASE load # 0
      <4>1. res.entry.cmdtype = "function"
        <5>1. res.loaded
          BY <3>3
        <5>2. res = Loaded(t, n, load)
          <6>1. \A u : ~Given(t, u).loaded /\ ~Entered(t, n, nofunc, alt, u).loaded
            BY DEF Given, Entered
          <6>2. ~Known(t, n, nofunc, alt, res) /\ ~IsBuiltin(t, n, nofunc, alt, res)
            BY <5>1, <6>1 DEF Known, IsBuiltin
          <6>3. ~Nothing(t, n, nofunc, alt, p, res) /\ ~IsFile(t, n, nofunc, alt, p, res)
            BY <5>1, <6>1 DEF Nothing, IsFile
          <6> QED BY <3>3, <6>2, <6>3 DEF Finding, IsFunction
        <5>3. t \in [Names -> Rows]
          BY <1>1 DEF TableOK
        <5>4. res.entry = Entry("function", 0, load, FALSE)
          BY <5>2, <5>3 DEF Loaded, addcmdentry
        <5> QED BY <5>4 DEF Entry
      <4> QED BY <3>2, <4>1
    <3> QED BY <3>1, <3>2, <3>3
  <2> QED BY <1>7, <2>1, <1>4, AnswerIs, Zenon
<1> QED BY <1>6, <1>7

(***************************************************************************)
(* Locations stay right.                                                   *)
(***************************************************************************)

\* What a lookup enters.
Fresh(t, n, alt, p, u) ==
  \A m \in Names : u[m].cmdtype = "normal" =>
    \/ u[m] = t[m]
    \/ /\ m = n /\ ~alt /\ u[m].index \in 1 .. Len(p)
       /\ ~touched[n] \/ t[n].cmdtype # "normal" => First(p, n, u[m].index)

LEMMA LookupLocates ==
  ASSUME NoneEmpty, CountInv, LocInv, NEW t, Like(t), NEW n \in Names, NEW nofunc, NEW alt,
         NEW p \in Paths, Start(t, p, alt), NEW load \in {0} \cup NewBody,
         NEW res, Finding(t, n, nofunc, alt, p, load, res)
  PROVE  Fresh(t, n, alt, p, res.table)
<1>1. t \in [Names -> Rows] /\ EntryOK(t[n], n) /\ TableOK(t) /\ t[n] \in Rows
  BY DEF Like, TableOK
<1>2. CASE res.table = t
  BY <1>2 DEF Fresh
<1>3. CASE \E e : res.table = [t EXCEPT ![n] = e] /\ e.cmdtype # "normal"
  BY <1>1, <1>3 DEF Fresh
<1>4. CASE ~Answers(t[n], nofunc, alt) /\ IsFile(t, n, nofunc, alt, p, res)
  <2>1. PICK i : i = Spot(t, n, nofunc, alt, p)
    OBVIOUS
  <2>2. /\ n \notin Builtins /\ i # 0 /\ (i = Asked(t[n], nofunc, alt).index \/ i <= Len(p))
        /\ res.table = IF Updates(t[n], nofunc, alt) THEN [t EXCEPT ![n] = Entry("normal", i, 0, FALSE)] ELSE t
    BY <1>4, <2>1, AllWalked DEF IsFile, Entered, Given
  <2>3. CASE Updates(t[n], nofunc, alt)
    <3>1. ~alt /\ Asked(t[n], nofunc, alt) = t[n]
      BY <2>3 DEF Updates, Asked
    <3>2. i \in 1 .. Len(p)
      <4>1. i \in Nat /\ Len(p) \in Nat
        BY <2>1, PathTypes, SearchFirst DEF Spot
      <4>2. CASE i = t[n].index
        <5>1. t[n].cmdtype = "normal"
          BY <1>1, <1>4, <2>2, <3>1, <4>2 DEF EntryOK, Rows, Answers
        <5>2. t[n] = cmdtable[n] /\ p = path
          BY <5>1, <3>1 DEF Start
        <5> QED BY <4>2, <5>1, <5>2 DEF LocInv, Located
      <4>3. CASE i <= Len(p)
        BY <2>2, <4>1, <4>3
      <4> QED BY <2>2, <3>1, <4>2, <4>3
    <3>3. ASSUME ~touched[n] \/ t[n].cmdtype # "normal"
          PROVE  First(p, n, i)
      <4>1. ~touched[n] \/ alt \/ Hint(t[n]) = 0
        BY <3>3 DEF Hint
      <4>2. Found(p, n, i)
        BY <1>1, <2>1, <4>1, SpotRight
      <4>3. i <= Len(p)
        BY <3>2, PathTypes
      <4> QED BY <2>2, <4>2, <4>3 DEF Found
    <3>4. Entry("normal", i, 0, FALSE).index = i
      BY DEF Entry
    <3>5. \A m \in Names : /\ m = n => res.table[m].index = i
                           /\ m # n => res.table[m] = t[m]
      BY <1>1, <2>2, <2>3, <3>4
    <3> QED BY <3>1, <3>2, <3>3, <3>5 DEF Fresh
  <2>4. CASE ~Updates(t[n], nofunc, alt)
    BY <2>2, <2>4, <1>2
  <2> QED BY <2>3, <2>4
<1>5. CASE Known(t, n, nofunc, alt, res)
  BY <1>2, <1>5 DEF Known, Given
<1>6. CASE IsBuiltin(t, n, nofunc, alt, res)
  <2>1. res.table = t \/ res.table = [t EXCEPT ![n] = Entry("builtin", 0, 0, FALSE)]
    BY <1>6 DEF IsBuiltin, Entered, Given
  <2>2. Entry("builtin", 0, 0, FALSE).cmdtype # "normal"
    BY DEF Entry
  <2> QED BY <1>2, <1>3, <2>1, <2>2
<1>7. CASE Nothing(t, n, nofunc, alt, p, res)
  <2>1. res.table = t \/ res.table = [t EXCEPT ![n] = NoEntry]
    BY <1>7 DEF Nothing, Entered, Given
  <2> QED BY <1>2, <1>3, <2>1, NewEntries
<1>8. CASE IsFunction(t, n, nofunc, alt, p, load, res)
  <2>1. res.table = t \/ res.table = [t EXCEPT ![n] = Entry("function", 0, load, FALSE)]
    <3>1. \A e : Given(t, e).table = t
      BY DEF Given
    <3>2. Loaded(t, n, load).table = [t EXCEPT ![n] = Entry("function", 0, load, FALSE)]
      BY DEF Loaded, addcmdentry
    <3> QED BY <1>8, <3>1, <3>2 DEF IsFunction
  <2>2. Entry("function", 0, load, FALSE).cmdtype # "normal"
    BY DEF Entry
  <2> QED BY <1>2, <1>3, <2>1, <2>2
<1> QED BY <1>4, <1>5, <1>6, <1>7, <1>8 DEF Finding

\* Locations when directories and files are where they were.
LEMMA StillLocated ==
  ASSUME UNCHANGED <<cwd, fs>>,
         \A n \in Names : cmdtable'[n].cmdtype = "normal" =>
           cmdtable'[n].index \in 1 .. Len(path') /\ (~touched'[n] => LocatedBy(cmdtable'[n], path', n))
  PROVE  LocInv'
BY DEF LocInv, Located, LocatedBy, First, Executable, Kind, Place, Absolute, Here

\* A lookup along PATH that is entered, and an entry as it was.
LEMMA EntriesStay ==
  ASSUME NoneEmpty, CountInv, LocInv, NEW t, NEW n \in Names, NEW alt,
         Fresh(t, n, alt, path, cmdtable'), UNCHANGED <<cwd, fs, path>>,
         \A m \in Names : t[m].cmdtype = "normal" => t[m] = cmdtable[m],
         \A m \in Names : touched'[m] \/ ~touched[m] \/ (m = n /\ t[n].cmdtype # "normal")
  PROVE  LocInv'
<1> SUFFICES ASSUME NEW m \in Names, cmdtable'[m].cmdtype = "normal"
             PROVE  cmdtable'[m].index \in 1 .. Len(path') /\ (~touched'[m] => LocatedBy(cmdtable'[m], path', m))
  BY StillLocated
<1>1. CASE cmdtable'[m] = t[m]
  <2>1. cmdtable'[m] = cmdtable[m]
    BY <1>1
  <2>2. cmdtable[m].index \in 1 .. Len(path) /\ (~touched[m] => LocatedBy(cmdtable[m], path, m))
    BY <2>1 DEF LocInv, Located
  <2> QED BY <1>1, <2>1, <2>2
<1>2. CASE cmdtable'[m] # t[m]
  <2>1. /\ m = n /\ cmdtable'[m].index \in 1 .. Len(path)
        /\ ~touched[n] \/ t[n].cmdtype # "normal" => First(path, n, cmdtable'[m].index)
    BY <1>2 DEF Fresh
  <2>2. path \in Paths
    BY DEF CountInv
  <2>3. ~touched'[m] => LocatedBy(cmdtable'[m], path, m)
    BY <2>1, <2>2, FirstLocates
  <2> QED BY <2>1, <2>3
<1> QED BY <1>1, <1>2

(***************************************************************************)
(* Each step keeps the locations, and is one of Lookup's.                  *)
(***************************************************************************)

LEMMA StartTables ==
  ASSUME CountInv
  PROVE  /\ \A alt : Start(cmdtable, path, alt)
         /\ \A p, alt : Start(clearcmdentry(cmdtable), p, alt)
         /\ \A p, alt : alt => Start(cmdtable, p, alt)
         /\ \A n \in Names : clearcmdentry(cmdtable)[n].cmdtype # "normal"
<1>1. TableOK(cmdtable)
  BY DEF CountInv, FunctionsOK
<1>2. \A n \in Names : clearcmdentry(cmdtable)[n].cmdtype # "normal"
  BY <1>1, Cleared
<1> QED BY <1>2 DEF Start

\* Nothing is located any more.
LEMMA NoneLocated ==
  ASSUME \A n \in Names : cmdtable'[n].cmdtype # "normal"
  PROVE  LocInv'
BY DEF LocInv, Located

\* A command is executed.
LEMMA EvalStep ==
  ASSUME NoneEmpty, CountInv, LocInv, NEW n \in Names, NEW nofunc \in BOOLEAN, NEW stdpath \in BOOLEAN,
         NEW with \in {{}} \cup {{q} : q \in Paths}, evalcommand(n, nofunc, stdpath, with)
  PROVE  LocInv' /\ Table!Evaluate(n, nofunc, stdpath, with)
<1> DEFINE assigned == with # {}
           q == IF assigned THEN CHOOSE x \in with : TRUE ELSE path
           p == IF stdpath THEN DefPath ELSE q
           t == IF assigned THEN clearcmdentry(cmdtable) ELSE cmdtable
           find(load) == find_command(t, n, nofunc, assigned \/ stdpath, p, load)
<1>1. PICK load \in {0} \cup NewBody :
        LET res == find(load)
            e == res.entry
            keeps == e.cmdtype = "function" \/ (e.cmdtype = "builtin" /\ n \in Special /\ ~nofunc)
        IN /\ load # 0 => res.loaded
           /\ found' = Outcome(e, p, n)
           /\ cmdtable' = IF assigned /\ ~keeps THEN clearcmdentry(res.table) ELSE res.table
           /\ path' = IF keeps THEN q ELSE path
           /\ calls' = IF e.cmdtype = "function"
                       THEN Append(calls, [body |-> e.func, saved |-> IF assigned THEN {path} ELSE {}])
                       ELSE calls
           /\ touched' = IF assigned THEN Untouched ELSE touched
           /\ UNCHANGED <<cwd, fs>>
  BY Zenon DEF evalcommand
<1>2. q \in Paths /\ p \in Paths
  BY ExecAssumption DEF CountInv
<1>3. Like(t)
  BY LikeTables
<1>4. PICK a : a = (assigned \/ stdpath)
  OBVIOUS
<1>5. PICK res : res = find(load)
  OBVIOUS
<1>6. Finding(t, n, nofunc, a, p, load, res)
  BY <1>4, <1>5, FindCases
<1>7. Start(t, p, a)
  BY <1>4, StartTables
<1> DEFINE keeps == res.entry.cmdtype = "function" \/ (res.entry.cmdtype = "builtin" /\ n \in Special /\ ~nofunc)
<1>8. /\ load # 0 => res.loaded
      /\ found' = Outcome(res.entry, p, n)
      /\ cmdtable' = IF assigned /\ ~keeps THEN clearcmdentry(res.table) ELSE res.table
      /\ path' = IF keeps THEN q ELSE path
      /\ calls' = IF res.entry.cmdtype = "function"
                  THEN Append(calls, [body |-> res.entry.func, saved |-> IF assigned THEN {path} ELSE {}])
                  ELSE calls
      /\ touched' = IF assigned THEN Untouched ELSE touched
      /\ UNCHANGED <<cwd, fs>>
  BY <1>1, <1>5
<1>9. load \in Bodies \cup {0} /\ TableOK(t) /\ cwd \in Cwds
  BY <1>3 DEF Like, NewBody, Free, CountInv
<1> HIDE DEF t, p, find
<1>10. TableOK(res.table)
  BY <1>2, <1>6, <1>9, FindTable
<1>11. \A m \in Names : cmdtable'[m].func = res.table[m].func
  BY <1>8, <1>10, Cleared
<1>12. found' \in Table!Outcomes /\ Table!Answer(n, nofunc, a, p, found')
  <2>1. PICK r : r = Outcome(res.entry, p, n)
    OBVIOUS
  <2>2. load # 0 => res.loaded
    BY <1>8
  <2>3. r \in Table!Outcomes /\ Table!Answer(n, nofunc, a, p, r)
    BY <2>2, <1>2, <1>3, <1>6, <1>7, <1>11, <2>1, AnswerRight
  <2>4. found' = r
    BY <2>1, <1>8
  <2> QED BY <2>3, <2>4, Zenon DEF Table!Answer, Table!Right
<1>13. /\ found'.type = "function" <=> res.entry.cmdtype = "function"
       /\ res.entry.cmdtype = "function" => found'.body = res.entry.func
       /\ found' = Builtin <=> res.entry.cmdtype = "builtin"
  <2>1. /\ res.entry.cmdtype = "normal" => res.entry.index \in Nat \ {0}
        /\ res.entry.cmdtype = "function" => res.entry.func \in Bodies
    BY <1>2, <1>6, <1>9, EntryIs
  <2> QED BY <1>2, <1>8, <1>9, <2>1, OutcomeIs
<1>14. LocInv'
  <2>1. Fresh(t, n, a, p, res.table)
    BY <1>2, <1>3, <1>6, <1>7, LookupLocates
  <2>2. CASE assigned
    <3>1. \A m \in Names : t[m].cmdtype # "normal"
      BY <2>2, StartTables DEF t
    <3>2. \A m \in Names : res.table[m].cmdtype # "normal"
      BY <2>1, <2>2, <3>1, <1>4 DEF Fresh
    <3>3. \A m \in Names : clearcmdentry(res.table)[m].cmdtype # "normal"
      BY <1>10, Cleared
    <3> QED BY <1>8, <3>2, <3>3, NoneLocated
  <2>3. CASE ~assigned
    <3>1. t = cmdtable /\ q = path /\ path' = path /\ touched' = touched /\ cmdtable' = res.table
      BY <2>3, <1>8 DEF t
    <3>2. Fresh(t, n, a, path, cmdtable')
      <4>1. CASE a
        BY <2>1, <3>1, <4>1 DEF Fresh
      <4>2. CASE ~a
        <5>1. p = path
          BY <4>2, <1>4, <3>1 DEF p
        <5> QED BY <2>1, <3>1, <5>1
      <4> QED BY <4>1, <4>2
    <3>3. touched \in [Names -> BOOLEAN]
      BY DEF CountInv
    <3>4. \A m \in Names : touched'[m] \/ ~touched[m]
      BY <3>1
    <3> QED BY <1>8, <3>1, <3>2, <3>4, EntriesStay
  <2> QED BY <2>2, <2>3
<1>15. Table!Evaluate(n, nofunc, stdpath, with)
  <2>1. Table!Builtin = Builtin
    BY SameTerms
  <2>2. path' = IF found'.type = "function" \/ (found' = Table!Builtin /\ n \in Special /\ ~nofunc)
                THEN q ELSE path
    BY <1>8, <1>13, <2>1
  <2>3. calls' = IF found'.type = "function"
                 THEN Append(calls, [body |-> found'.body, saved |-> IF assigned THEN {path} ELSE {}])
                 ELSE calls
    BY <1>8, <1>13
  <2>4. touched' = IF assigned THEN [m \in Names |-> FALSE] ELSE touched
    BY <1>8 DEF Untouched
  <2>5. Table!Answer(n, nofunc, assigned \/ stdpath, p, found')
    BY <1>4, <1>12
  <2> QED BY <1>8, <1>12, <2>2, <2>3, <2>4, <2>5, Zenon DEF Table!Evaluate, p
<1> QED BY <1>14, <1>15

\* A command is located: from the table, or past the entry for a file.
LEMMA LocateStep ==
  ASSUME NoneEmpty, CountInv, LocInv, NEW t, Like(t), NEW n \in Names, Locate(t, n),
         \A m \in Names : t[m].cmdtype = "normal" => t[m] = cmdtable[m],
         NEW b \in BOOLEAN, touched' = [touched EXCEPT ![n] = b /\ touched[n]],
         b \/ t[n].cmdtype # "normal"
  PROVE  LocInv' /\ Table!Locate(n)
<1>1. PICK alt : alt = FALSE
  OBVIOUS
<1>2. PICK load \in {0} \cup NewBody :
        LET res == find_command(t, n, FALSE, FALSE, path, load)
        IN (load # 0 => res.loaded) /\ cmdtable' = res.table
  BY DEF Locate
<1>3. PICK res : res = find_command(t, n, alt, alt, path, load)
  OBVIOUS
<1>4. Finding(t, n, alt, alt, path, load, res)
  BY <1>3, FindCases
<1>5. (load # 0 => res.loaded) /\ cmdtable' = res.table /\ UNCHANGED <<path, cwd, fs, calls, found>>
  BY <1>1, <1>2, <1>3 DEF Locate
<1>6. path \in Paths /\ touched \in [Names -> BOOLEAN]
  BY DEF CountInv
<1>7. Start(t, path, alt)
  BY DEF Start
<1>8. Fresh(t, n, alt, path, res.table)
  BY <1>4, <1>6, <1>7, LookupLocates
<1>9. LocInv'
  <2>1. \A m \in Names : touched'[m] \/ ~touched[m] \/ (m = n /\ t[n].cmdtype # "normal")
    BY <1>6
  <2>2. Fresh(t, n, alt, path, cmdtable')
    BY <1>5, <1>8
  <2> QED BY <1>5, <2>1, <2>2, EntriesStay
<1>10. PICK r : r = Outcome(res.entry, path, n)
  OBVIOUS
<1>11. r \in Table!Outcomes /\ Table!Answer(n, alt, alt, path, r)
  <2>1. \A m \in Names : cmdtable'[m].func = res.table[m].func
    BY <1>5
  <2>2. load # 0 => res.loaded
    BY <1>5
  <2> QED BY <1>4, <1>6, <1>7, <1>10, <2>1, <2>2, AnswerRight
<1>12. Table!Locate(n)
  <2>1. \E x \in BOOLEAN : touched' = [touched EXCEPT ![n] = x /\ touched[n]]
    OBVIOUS
  <2>2. \E x \in Table!Outcomes : Table!Answer(n, FALSE, FALSE, path, x)
    BY <1>1, <1>11
  <2> QED BY <1>5, <2>1, <2>2 DEF Table!Locate
<1> QED BY <1>9, <1>12

LEMMA LocateSteps ==
  ASSUME NoneEmpty, CountInv, LocInv, NEW n \in Names, describe_command(n) \/ prehash(n) \/ hashcmd(n)
  PROVE  LocInv' /\ Table!Locate(n)
<1>1. touched \in [Names -> BOOLEAN] /\ cmdtable \in [Names -> Rows]
  BY DEF CountInv, FunctionsOK, TableOK
<1>2. CASE describe_command(n) \/ prehash(n)
  <2>1. Locate(cmdtable, n) /\ touched' = touched /\ Like(cmdtable)
    BY <1>2, LikeTables DEF describe_command, prehash
  <2>2. touched' = [touched EXCEPT ![n] = TRUE /\ touched[n]]
    BY <1>1, <2>1
  <2> QED BY <2>1, <2>2, LocateStep
<1>3. CASE hashcmd(n)
  <2>1. PICK t : t = IF cmdtable[n].cmdtype = "normal" THEN [cmdtable EXCEPT ![n] = NoEntry] ELSE cmdtable
    OBVIOUS
  <2>2. Locate(t, n) /\ touched' = [touched EXCEPT ![n] = FALSE] /\ Like(t)
    BY <1>3, <2>1, LikeTables DEF hashcmd
  <2>3. touched' = [touched EXCEPT ![n] = FALSE /\ touched[n]]
    BY <2>2
  <2>4. \A m \in Names : t[m].cmdtype = "normal" => t[m] = cmdtable[m]
    BY <1>1, <2>1, NewEntries
  <2>5. t[n].cmdtype # "normal"
    BY <1>1, <2>1, NewEntries
  <2> QED BY <2>2, <2>3, <2>4, <2>5, LocateStep
<1> QED BY <1>2, <1>3

\* Locations are forgotten.
LEMMA ForgetSteps ==
  ASSUME CountInv, LocInv
  PROVE  /\ Return => LocInv' /\ Table!Return
         /\ hashr => LocInv' /\ Table!Forget(path)
         /\ \A p \in Paths : changepath(p) => LocInv' /\ Table!Forget(p)
<1>1. TableOK(cmdtable)
  BY DEF CountInv, FunctionsOK
<1>2. ASSUME cmdtable' = clearcmdentry(cmdtable)
      PROVE  LocInv' /\ Bodied' = Bodied
  <2>1. LocInv'
    BY <1>2, StartTables, NoneLocated
  <2>2. \A n \in Names : cmdtable'[n].func = cmdtable[n].func
    BY <1>1, <1>2, Cleared
  <2> QED BY <2>1, <2>2 DEF Bodied
<1>3. ASSUME Return
      PROVE  LocInv' /\ Table!Return
  <2>1. /\ calls # <<>> /\ calls' = Front(calls) /\ UNCHANGED <<cwd, fs, found>>
        /\ IF Last(calls).saved = {} THEN UNCHANGED <<path, cmdtable>>
           ELSE path' \in Last(calls).saved /\ cmdtable' = clearcmdentry(cmdtable)
        /\ touched' = IF Last(calls).saved = {} THEN touched ELSE Untouched
    BY <1>3 DEF Return
  <2>2. Last(calls) \in [body : Bodies, saved : {{}} \cup {{p} : p \in Paths}]
    <3>1. calls \in Calls
      BY DEF CountInv, FunctionsOK
    <3> QED BY <2>1, <3>1, FrontType DEF Calls
  <2>3. path' = IF Last(calls).saved = {} THEN path ELSE CHOOSE x \in Last(calls).saved : TRUE
    <3>1. Last(calls).saved \in {{}} \cup {{p} : p \in Paths}
      BY <2>2
    <3>2. Last(calls).saved = {} \/ \E s \in Paths : Last(calls).saved = {s}
      BY <3>1
    <3> QED BY <2>1, <3>2
  <2>4. LocInv' /\ Bodied' = Bodied
    <3>1. CASE Last(calls).saved = {}
      <4>1. UNCHANGED <<path, cmdtable, cwd, fs, touched>>
        BY <2>1, <3>1
      <4>2. \A n \in Names : cmdtable'[n].cmdtype = "normal" =>
              cmdtable'[n].index \in 1 .. Len(path') /\ (~touched'[n] => LocatedBy(cmdtable'[n], path', n))
        BY <4>1 DEF LocInv, Located
      <4>3. LocInv'
        BY <4>1, <4>2, StillLocated
      <4> QED BY <4>1, <4>3 DEF Bodied
    <3>2. CASE Last(calls).saved # {}
      BY <2>1, <3>2, <1>2
    <3> QED BY <3>1, <3>2
  <2>5. Table!Return
    <3>1. Table!Last(calls) = Last(calls) /\ Table!Front(calls) = Front(calls)
      BY SameTerms
    <3> QED BY <2>1, <2>3, <2>4, <3>1 DEF Table!Return, Bodied, Untouched
  <2> QED BY <2>4, <2>5
<1>4. ASSUME NEW p, path' = p, cmdtable' = clearcmdentry(cmdtable), touched' = Untouched,
             UNCHANGED <<cwd, fs, calls, found>>
      PROVE  LocInv' /\ Table!Forget(p)
  BY <1>2, <1>4 DEF Table!Forget, Bodied, Untouched
<1>5. ASSUME hashr
      PROVE  LocInv' /\ Table!Forget(path)
  BY <1>4, <1>5 DEF hashr
<1>6. ASSUME NEW p \in Paths, changepath(p)
      PROVE  LocInv' /\ Table!Forget(p)
  BY <1>4, <1>6 DEF changepath
<1> QED BY <1>3, <1>5, <1>6

\* The directory changes: absolute directories are where they were, and others
\* are looked at again.
LEMMA CdStep ==
  ASSUME CountInv, LocInv, NEW d \in Cwds, hashcd(d)
  PROVE  LocInv' /\ Table!Cd(d)
<1>1. cmdtable \in [Names -> Rows]
  BY DEF CountInv, FunctionsOK, TableOK
<1>2. /\ cwd' = d /\ UNCHANGED <<path, fs, calls, found, touched>>
      /\ cmdtable' = [n \in Names |-> IF cmdtable[n].cmdtype = "normal"
                                      THEN [cmdtable[n] EXCEPT !.rehash = TRUE] ELSE cmdtable[n]]
  BY DEF hashcd
<1>3. \A n \in Names : /\ cmdtable'[n].func = cmdtable[n].func
                       /\ cmdtable'[n].cmdtype = cmdtable[n].cmdtype
                       /\ cmdtable'[n].index = cmdtable[n].index
                       /\ cmdtable[n].cmdtype = "normal" => cmdtable'[n].rehash
  BY <1>1, <1>2 DEF Rows
<1>4. \A p, j, n : Absolute(p[j]) => (Executable(p, j, n)' <=> Executable(p, j, n))
  BY <1>2 DEF Absolute, Executable, Kind, Place
<1>5. LocInv'
  <2> SUFFICES ASSUME NEW n \in Names, cmdtable[n].cmdtype = "normal"
               PROVE  Located(cmdtable[n], path, n)'
    BY <1>3 DEF LocInv, Located
  <2>1. cmdtable[n].index \in 1 .. Len(path) /\ (~touched[n] => LocatedBy(cmdtable[n], path, n))
    BY DEF LocInv, Located
  <2>2. ~touched'[n] =>
          /\ Absolute(path'[cmdtable'[n].index]) => fs'[path'[cmdtable'[n].index], n] = "exec"
          /\ \A j \in 1 .. Len(path') : j < cmdtable'[n].index /\ Absolute(path'[j]) => fs'[path'[j], n] # "exec"
    BY <1>2, <1>3, <2>1 DEF LocatedBy, Absolute, Executable, Kind, Place
  <2> QED BY <1>2, <1>3, <2>1, <2>2 DEF Located, LocatedBy, Absolute, Executable, Kind, Place
<1>6. Table!Cd(d)
  BY <1>2, <1>3 DEF Table!Cd
<1> QED BY <1>5, <1>6

\* Functions come and go.
LEMMA FunctionSteps ==
  ASSUME CountInv, LocInv, NEW n \in Names
  PROVE  /\ defun(n) => LocInv' /\ \E b \in Bodies : Table!Define(n, b)
         /\ unsetfunc(n) => LocInv' /\ Table!Undefine(n)
<1>1. cmdtable \in [Names -> Rows]
  BY DEF CountInv, FunctionsOK, TableOK
<1>2. ASSUME NEW e, e.cmdtype # "normal", cmdtable' = [cmdtable EXCEPT ![n] = e],
             UNCHANGED <<path, cwd, fs, calls, found, touched>>
      PROVE  LocInv' /\ Bodied' = [Bodied EXCEPT ![n] = e.func]
  <2>1. \A m \in Names : cmdtable'[m].cmdtype = "normal" => cmdtable'[m] = cmdtable[m]
    BY <1>1, <1>2
  <2>2. LocInv'
    <3>1. \A m \in Names : cmdtable'[m].cmdtype = "normal" =>
            cmdtable'[m].index \in 1 .. Len(path') /\ (~touched'[m] => LocatedBy(cmdtable'[m], path', m))
      BY <1>2, <2>1 DEF LocInv, Located
    <3> QED BY <1>2, <3>1, StillLocated
  <2> QED BY <1>1, <1>2, <2>2 DEF Bodied
<1>3. ASSUME defun(n)
      PROVE  LocInv' /\ \E b \in Bodies : Table!Define(n, b)
  <2>1. PICK b \in NewBody : cmdtable' = addcmdentry(cmdtable, n, b)
    BY <1>3 DEF defun
  <2>2. UNCHANGED <<path, cwd, fs, calls, found, touched>>
    BY <1>3 DEF defun
  <2>3. PICK e : e = Entry("function", 0, b, FALSE)
    OBVIOUS
  <2>4. e.cmdtype # "normal" /\ e.func = b /\ cmdtable' = [cmdtable EXCEPT ![n] = e]
    BY <2>1, <2>3 DEF Entry, addcmdentry
  <2>5. LocInv' /\ Bodied' = [Bodied EXCEPT ![n] = b]
    BY <1>2, <2>2, <2>4
  <2>6. b \in Bodies /\ b \notin Table!Allocated
    BY FreeIs DEF NewBody, Free
  <2> QED BY <2>2, <2>5, <2>6 DEF Table!Define, Bodied
<1>4. ASSUME unsetfunc(n)
      PROVE  LocInv' /\ Table!Undefine(n)
  <2>1. cmdtable' = [cmdtable EXCEPT ![n] = NoEntry] /\ UNCHANGED <<path, cwd, fs, calls, found, touched>>
    BY <1>4 DEF unsetfunc
  <2>2. LocInv' /\ Bodied' = [Bodied EXCEPT ![n] = 0]
    BY <1>2, <2>1, NewEntries
  <2> QED BY <2>1, <2>2 DEF Table!Undefine, Bodied
<1> QED BY <1>3, <1>4

\* Others change a file: of the locations only its name's may be wrong.
LEMMA FileStep ==
  ASSUME CountInv, LocInv, NEW l \in Locs, NEW x \in Names, NEW k, FilesChange(l, x, k)
  PROVE  LocInv' /\ Table!FilesChange(l, x, k)
<1>1. /\ fs' = [fs EXCEPT ![<<l, x>>] = k] /\ touched' = [touched EXCEPT ![x] = TRUE]
      /\ UNCHANGED <<cmdtable, path, cwd, calls, found>>
  BY DEF FilesChange
<1>2. fs \in [Locs \X Names -> Kinds] /\ touched \in [Names -> BOOLEAN] /\ path \in Paths /\ cwd \in Locs
  BY ExecAssumption DEF CountInv
<1>3. ASSUME NEW n \in Names, n # x, NEW j \in 1 .. Len(path)
      PROVE  Executable(path, j, n)' <=> Executable(path, j, n)
  <2>1. Place(path[j]) \in Locs
    BY <1>2, PathTypes DEF Place
  <2>2. fs'[<<Place(path[j]), n>>] = fs[<<Place(path[j]), n>>]
    BY <1>1, <1>2, <1>3, <2>1
  <2>3. path'[j] = path[j] /\ cwd' = cwd
    BY <1>1
  <2> QED BY <2>2, <2>3 DEF Executable, Kind, Place
<1>4. LocInv'
  <2> SUFFICES ASSUME NEW n \in Names, cmdtable[n].cmdtype = "normal"
               PROVE  Located(cmdtable[n], path, n)'
    BY <1>1 DEF LocInv, Located
  <2>1. cmdtable[n].index \in 1 .. Len(path) /\ (~touched[n] => LocatedBy(cmdtable[n], path, n))
    BY DEF LocInv, Located
  <2>2. CASE n = x
    <3>1. touched'[n] = TRUE
      BY <1>1, <1>2, <2>2
    <3> QED BY <1>1, <2>1, <3>1 DEF Located
  <2>3. CASE n # x
    <3>1. touched'[n] = touched[n]
      BY <1>1, <1>2, <2>3
    <3>2. \A j \in 1 .. Len(path) : Executable(path, j, n)' <=> Executable(path, j, n)
      BY <1>3, <2>3
    <3>3. LocatedBy(cmdtable[n], path, n) => LocatedBy(cmdtable[n], path, n)'
      <4> HIDE DEF Executable
      <4> QED BY <1>1, <2>1, <3>2 DEF LocatedBy, First, Absolute
    <3> QED BY <1>1, <2>1, <3>1, <3>3 DEF Located
  <2> QED BY <2>2, <2>3
<1>5. Table!FilesChange(l, x, k)
  BY <1>1 DEF Table!FilesChange
<1> QED BY <1>4, <1>5

\* A lookup that an interrupt ends has the location it leaves from a search.
LEMMA InterruptStep ==
  ASSUME NoneEmpty, CountInv, LocInv, NEW n \in Names, Interrupted(n)
  PROVE  LocInv' /\ UNCHANGED Table!vars
<1>1. /\ \A m \in Names : cmdtable'[m].func = cmdtable[m].func
      /\ UNCHANGED <<count, path, cwd, fs, calls, found, touched, changes>>
  BY InterruptedCounts
<1>2. PICK f : f = FALSE
  OBVIOUS
<1>3. PICK load \in {0} \cup NewBody : load = 0
  OBVIOUS
<1>4. PICK res : res = find_command(cmdtable, n, f, f, path, load)
  OBVIOUS
<1>5. cmdtable[n] = NoEntry \/ cmdtable[n].rehash
  BY DEF Interrupted
<1>6. PICK r : /\ cmdtable' = [res.table EXCEPT ![n].rehash = r]
               /\ cmdtable[n] # NoEntry => r = cmdtable[n].rehash
  BY <1>2, <1>3, <1>4 DEF Interrupted
<1>7. Finding(cmdtable, n, f, f, path, load, res)
  BY <1>4, FindCases
<1>8. Like(cmdtable) /\ path \in Paths /\ Start(cmdtable, path, f) /\ TableOK(cmdtable)
  BY LikeTables, StartTables DEF CountInv, Like
<1>9. Fresh(cmdtable, n, f, path, res.table)
  BY <1>7, <1>8, LookupLocates
<1>10. TableOK(res.table)
  <2>1. load \in Bodies \cup {0}
    BY <1>3
  <2> QED BY <2>1, <1>7, <1>8, FindTable
<1>11. /\ \A m \in Names \ {n} : cmdtable'[m] = res.table[m]
       /\ cmdtable'[n] = [res.table[n] EXCEPT !.rehash = r] /\ res.table[n] \in Rows
  BY <1>6, <1>10 DEF TableOK
<1>12. LocInv'
  <2> SUFFICES ASSUME NEW m \in Names, cmdtable'[m].cmdtype = "normal"
               PROVE  cmdtable'[m].index \in 1 .. Len(path') /\ (~touched'[m] => LocatedBy(cmdtable'[m], path', m))
    BY <1>1, StillLocated
  <2>1. cmdtable[m].cmdtype = "normal" =>
          cmdtable[m].index \in 1 .. Len(path) /\ (~touched[m] => LocatedBy(cmdtable[m], path, m))
    BY DEF LocInv, Located
  <2>2. CASE m # n
    <3>1. cmdtable'[m] = res.table[m] /\ res.table[m] = cmdtable[m]
      BY <2>2, <1>9, <1>11 DEF Fresh
    <3> QED BY <1>1, <2>1, <3>1
  <2>3. CASE m = n
    <3>1. cmdtable'[n].index = res.table[n].index /\ res.table[n].cmdtype = "normal"
      BY <2>3, <1>11 DEF Rows
    <3>2. CASE res.table[n] = cmdtable[n]
      <4>1. cmdtable[n].rehash /\ cmdtable[n] \in Rows /\ cmdtable[n] # NoEntry
        BY <1>5, <1>8, <3>1, <3>2, NewEntries DEF TableOK
      <4>2. cmdtable'[n].rehash = cmdtable[n].rehash
        <5>1. r = cmdtable[n].rehash
          BY <1>6, <4>1
        <5>2. \A v : [res.table[n] EXCEPT !.rehash = v].rehash = v
          BY <1>11 DEF Rows
        <5> QED BY <5>1, <5>2, <1>11, Zenon
      <4>3. ~touched[n] => LocatedBy(cmdtable'[n], path, n)
        BY <2>1, <2>3, <3>1, <3>2, <4>1, <4>2 DEF LocatedBy
      <4> QED BY <1>1, <2>1, <2>3, <3>1, <3>2, <4>3
    <3>3. CASE res.table[n] # cmdtable[n]
      <4>1. /\ res.table[n].index \in 1 .. Len(path)
            /\ ~touched[n] => First(path, n, cmdtable'[n].index)
        BY <1>9, <3>1, <3>3 DEF Fresh
      <4>2. ~touched[n] => LocatedBy(cmdtable'[n], path, n)
        BY <1>8, <4>1, FirstLocates
      <4> QED BY <1>1, <2>3, <3>1, <4>1, <4>2
    <3> QED BY <3>2, <3>3
  <2> QED BY <2>2, <2>3
<1>13. UNCHANGED Table!vars
  BY <1>1 DEF Table!vars
<1> QED BY <1>12, <1>13

\* Every step is a step of Lookup, and keeps the locations right.
LEMMA LookupStep ==
  NoneEmpty /\ CountInv /\ LocInv /\ [Next]_vars => LocInv' /\ [Table!Next]_Table!vars
<1> SUFFICES ASSUME NoneEmpty, CountInv, LocInv, [Next]_vars
             PROVE  LocInv' /\ [Table!Next]_Table!vars
  OBVIOUS
<1>1. ASSUME NEW n \in Names, NEW nofunc \in BOOLEAN, NEW stdpath \in BOOLEAN,
             NEW with \in {{}} \cup {{q} : q \in Paths}, evalcommand(n, nofunc, stdpath, with)
      PROVE  LocInv' /\ Table!Next
  <2>1. LocInv' /\ Table!Evaluate(n, nofunc, stdpath, with)
    BY <1>1, EvalStep
  <2> QED BY <2>1, Zenon DEF Table!Next
<1>2. CASE Return
  <2>1. LocInv' /\ Table!Return
    BY <1>2, ForgetSteps
  <2> QED BY <2>1, Zenon DEF Table!Next
<1>3. CASE hashr
  <2>1. LocInv' /\ Table!Forget(path) /\ path \in Paths
    BY <1>3, ForgetSteps DEF CountInv
  <2> QED BY <2>1, Zenon DEF Table!Next
<1>4. ASSUME NEW p \in Paths, changepath(p)
      PROVE  LocInv' /\ Table!Next
  <2>1. LocInv' /\ Table!Forget(p)
    BY <1>4, ForgetSteps
  <2> QED BY <2>1, Zenon DEF Table!Next
<1>5. ASSUME NEW n \in Names, describe_command(n) \/ prehash(n) \/ hashcmd(n)
      PROVE  LocInv' /\ Table!Next
  <2>1. LocInv' /\ Table!Locate(n)
    BY <1>5, LocateSteps
  <2> QED BY <2>1, Zenon DEF Table!Next
<1>6. ASSUME NEW n \in Names, Interrupted(n)
      PROVE  LocInv' /\ UNCHANGED Table!vars
  BY <1>6, InterruptStep
<1>7. ASSUME NEW n \in Names, defun(n)
      PROVE  LocInv' /\ Table!Next
  <2>1. LocInv' /\ \E b \in Bodies : Table!Define(n, b)
    BY <1>7, FunctionSteps
  <2> QED BY <2>1, Zenon DEF Table!Next
<1>8. ASSUME NEW n \in Names, unsetfunc(n)
      PROVE  LocInv' /\ Table!Next
  <2>1. LocInv' /\ Table!Undefine(n)
    BY <1>8, FunctionSteps
  <2> QED BY <2>1, Zenon DEF Table!Next
<1>9. ASSUME NEW d \in Cwds, hashcd(d)
      PROVE  LocInv' /\ Table!Next
  <2>1. LocInv' /\ Table!Cd(d)
    BY <1>9, CdStep
  <2> QED BY <2>1, Zenon DEF Table!Next
<1>10. ASSUME NEW c \in Changes, FilesChange(c[1], c[2], c[3])
       PROVE  LocInv' /\ Table!Next
  <2>1. c[1] \in Locs /\ c[2] \in Names /\ c[3] \in Kinds
    BY ExecAssumption
  <2>2. LocInv' /\ Table!FilesChange(c[1], c[2], c[3])
    BY <1>10, <2>1, FileStep
  <2> QED BY <2>1, <2>2, Zenon DEF Table!Next
<1>11. CASE UNCHANGED vars
  <2>1. UNCHANGED <<cmdtable, path, cwd, fs, calls, found, touched>>
    BY <1>11 DEF vars
  <2>2. UNCHANGED Table!vars
    BY <2>1 DEF Table!vars
  <2>3. LocInv'
    <3>1. \A n \in Names : cmdtable'[n].cmdtype = "normal" =>
            cmdtable'[n].index \in 1 .. Len(path') /\ (~touched'[n] => LocatedBy(cmdtable'[n], path', n))
      BY <2>1 DEF LocInv, Located
    <3> QED BY <2>1, <3>1, StillLocated
  <2> QED BY <2>2, <2>3
<1> QED BY <1>1, <1>2, <1>3, <1>4, <1>5, <1>6, <1>7, <1>8, <1>9, <1>10, <1>11, Zenon DEF Next

\* The table of locations changes nothing of what the shell finds: every
\* lookup of find_command answers as Lookup does, which has no table, and
\* cd, hash and a change of PATH keep it so.
THEOREM LocationsAreRight == NoneEmpty => (Spec => Finds)
<1> SUFFICES ASSUME NoneEmpty PROVE Spec => Finds
  OBVIOUS
<1>1. Init => CountInv /\ LocInv /\ Table!Init
  <2> SUFFICES ASSUME Init PROVE CountInv /\ LocInv /\ Table!Init
    OBVIOUS
  <2>1. CountInv
    BY CountInit
  <2>2. \A n \in Names : cmdtable[n] = NoEntry
    BY DEF Init
  <2>3. LocInv
    BY <2>2, NewEntries DEF LocInv, Located
  <2>4. \A n \in Names : cmdtable[n].func = 0
    BY <2>2, NewEntries
  <2>5. Table!Init
    BY <2>1, <2>4, SameTerms DEF Table!Init, Init, Untouched, CountInv
  <2> QED BY <2>1, <2>3, <2>5
<1>2. CountInv /\ LocInv /\ [Next]_vars => CountInv' /\ LocInv' /\ [Table!Next]_Table!vars
  BY CountStep, LookupStep
<1> QED BY <1>1, <1>2, PTL DEF Spec, Finds, Table!Spec

=============================================================================

---------------------------------- MODULE Fields ----------------------------------
(***************************************************************************)
(* Field splitting: the regions of expand.c that are to be searched for    *)
(* the characters of IFS, ifsbreakup, which cuts a text into fields, and   *)
(* the builtin read, which uses them; and what the fields of a text are.   *)
(*                                                                         *)
(* A text is a sequence of cells: a character, NUL between two positional  *)
(* parameters, or QM, the mark of a quote, which disappears at the end.    *)
(* A region is the cells after the first beg up to end.                    *)
(*                                                                         *)
(* Definitions with a suffix, such as Scanned_absorb, are faulty variants  *)
(* of the definition that follows them.                                    *)
(***************************************************************************)
EXTENDS Integers, Sequences
LOCAL INSTANCE SequencesExt

NUL == "NUL"
QM == "QM"
White == {" ", NUL}        \* defifs: what of IFS is white space

----------------------------------------------------------------------------
(* The list of regions; the last one is ifslastp.                          *)

Region(b, e, nulonly) == [beg |-> b, end |-> e, nulonly |-> nulonly]
recordregion(R, b, e, nulonly) ==
  LET k == Len(R)
  IN IF R # <<>> /\ R[k].end = b /\ R[k].nulonly = nulonly
     THEN [R EXCEPT ![k].end = e] ELSE Append(R, Region(b, e, nulonly))
Shrunk(r, off) == IF r.end > off THEN [r EXCEPT !.end = off] ELSE r
removerecordregions_first(R, off) ==
  IF R = <<>> THEN R ELSE IF R[1].end > off THEN (IF R[1].beg > off THEN <<>> ELSE <<Shrunk(R[1], off)>>) ELSE R
removerecordregions(R, off) ==
  LET kept == {k \in DOMAIN R : \A j \in 2 .. k : R[j].beg < off}
      n == CHOOSE k \in kept : \A j \in kept : j <= k
  IN IF R = <<>> THEN R
     ELSE IF R[1].end > off THEN (IF R[1].beg > off THEN <<>> ELSE <<Shrunk(R[1], off)>>)
     ELSE [SubSeq(R, 1, n) EXCEPT ![n] = Shrunk(@, off)]

----------------------------------------------------------------------------
(* ifsbreakup.  m is where the field begins (start), where the text is to  *)
(* be cut in the end (r), whether IFS white space was the last delimiter   *)
(* (ifsspc), how many fields are left to find (max, -1 for all) and the    *)
(* fields found.                                                           *)

\* One more argument: trailing white space is cut off, with one delimiter if it
\* is all that is left.
Rest(m, p, isifs, isdefifs) ==
  IF isdefifs THEN (IF m.r = 0 THEN [m EXCEPT !.r = p] ELSE m)
  ELSE [m EXCEPT !.r = IF isifs /\ m.ifsspc THEN @ ELSE 0, !.ifsspc = FALSE]
Found(m, p, text, spc) ==
  IF m.start = p /\ spc THEN [m EXCEPT !.start = p + 1, !.ifsspc = FALSE]
  ELSE IF m.max = 1 THEN [m EXCEPT !.max = 0, !.r = p, !.ifsspc = spc]
  ELSE [m EXCEPT !.fields = Append(@, SubSeq(text, m.start, p - 1)), !.start = p + 1, !.ifsspc = spc,
                 !.max = IF @ > 0 THEN @ - 1 ELSE @]
Scanned_absorb(m, p, text, ifs, nulonly) ==
  LET isifs == text[p] = NUL \/ (~nulonly /\ text[p] \in ifs)
      isdefifs == isifs /\ text[p] \in White
  IN IF m.max = 0 THEN Rest(m, p, isifs, isdefifs)
     ELSE IF m.ifsspc /\ isdefifs THEN [m EXCEPT !.start = p + 1]
     ELSE IF isifs THEN Found(IF m.ifsspc THEN [m EXCEPT !.start = p] ELSE m, p, text, ~nulonly /\ isdefifs)
     ELSE IF m.ifsspc THEN [m EXCEPT !.start = p, !.ifsspc = FALSE]
     ELSE m
Scanned(m, p, text, ifs, nulonly) ==
  LET isifs == text[p] = NUL \/ (~nulonly /\ text[p] \in ifs)
      isdefifs == isifs /\ text[p] \in White
  IN IF m.max = 0 THEN Rest(m, p, isifs, isdefifs)
     ELSE IF m.ifsspc THEN [m EXCEPT !.start = IF isifs THEN p + 1 ELSE p, !.ifsspc = isdefifs]
     ELSE IF isifs THEN Found(m, p, text, ~nulonly /\ isdefifs)
     ELSE m
RECURSIVE Scan(_, _, _, _, _)
Scan(m, text, ifs, R, p) ==
  IF R = <<>> THEN m
  ELSE LET next == Scanned(m, p, text, ifs, R[1].nulonly)
       IN IF p > R[1].end
          THEN Scan([m EXCEPT !.ifsspc = IF Len(R) > 1 THEN FALSE ELSE @], text, ifs, Tail(R),
                    IF Len(R) > 1 THEN R[2].beg + 1 ELSE 0)
          ELSE Scan(next, text, ifs, R, p + 1)
ifsbreakup(text, R, ifs, max) ==
  LET m == Scan([start |-> 1, r |-> 0, ifsspc |-> FALSE, max |-> max, fields |-> <<>>], text, ifs, R,
                IF R = <<>> THEN 0 ELSE R[1].beg + 1)
      to == IF m.r # 0 THEN m.r - 1 ELSE Len(text)
      rest == SubSeq(text, m.start, to)
  IN IF R # <<>> /\ R[Len(R)].nulonly THEN Append(m.fields, SubSeq(text, m.start, Len(text)))
     ELSE IF rest = <<>> THEN m.fields ELSE Append(m.fields, rest)

\* The text of a field: rmescapes.
rmescapes(text) == SelectSeq(text, LAMBDA c : c # QM)
Texts(fields) == [k \in DOMAIN fields |-> rmescapes(fields[k])]

----------------------------------------------------------------------------
(* The builtin read: a line of the input, in which \ quotes, split for n   *)
(* variables.  m.start is startloc, m.esc whether \ was the last character.*)

Quoting(m) == [m EXCEPT !.R = recordregion(@, m.start, Len(m.text), FALSE)]
RECURSIVE Line(_, _, _)
Line(m, s, rflag) ==
  IF s = <<>> THEN [m EXCEPT !.status = 1]
  ELSE LET c == s[1]
           put == [Quoting(m) EXCEPT !.text = Append(@, c), !.start = Len(m.text) + 1, !.esc = FALSE]
       IN CASE m.esc /\ c = "\n" -> Line([Quoting(m) EXCEPT !.start = Len(m.text), !.esc = FALSE], Tail(s), rflag)
            [] m.esc /\ c # "\n" -> Line(put, Tail(s), rflag)
            [] ~m.esc /\ c = "\\" /\ ~rflag -> Line([m EXCEPT !.esc = TRUE], Tail(s), rflag)
            [] ~m.esc /\ c = "\n" -> m
            [] OTHER -> Line([m EXCEPT !.text = Append(@, c)], Tail(s), rflag)
readcmd(s, rflag, ifs, n) ==
  LET m == Line([text |-> <<>>, R |-> <<>>, start |-> 0, esc |-> FALSE, status |-> 0], s, rflag)
      fields == ifsbreakup(m.text, recordregion(m.R, m.start, Len(m.text), FALSE), ifs, n)
  IN [vars |-> [k \in 1 .. n |-> IF k <= Len(fields) THEN fields[k] ELSE <<>>], status |-> m.status]

----------------------------------------------------------------------------
(* What the fields are.  A cell is [c, split]: split tells whether c is to *)
(* be searched for IFS, "nul" that only NUL is.                            *)

Kind(cell, ifs) ==
  IF cell.c = NUL THEN (IF cell.split = "nul" THEN "delimiter" ELSE "white")
  ELSE IF cell.split # "all" \/ cell.c \notin ifs THEN "text"
  ELSE IF cell.c \in White THEN "white" ELSE "delimiter"
\* A field is the text between delimiters, or nothing between a delimiter and
\* the one before or the beginning: white space ends a field, but makes none.
Places(cells, ifs) ==
  LET n == Len(cells)
      Is(k, i) == Kind(cells[i], ifs) = k
      runs == {f \in (1 .. n) \X (1 .. n) :
                 /\ f[1] <= f[2] /\ \A i \in f[1] .. f[2] : Is("text", i)
                 /\ (f[1] = 1 \/ ~Is("text", f[1] - 1)) /\ (f[2] = n \/ ~Is("text", f[2] + 1))}
      empty == {<<i, i - 1>> : i \in {j \in 1 .. n :
                  /\ Is("delimiter", j)
                  /\ \E h \in 0 .. j - 1 : (h = 0 \/ Is("delimiter", h)) /\ \A g \in h + 1 .. j - 1 : Is("white", g)}}
  IN SetToSortSeq(runs \cup empty, LAMBDA f, g : f[1] < g[1])
Chars(cells) == [i \in DOMAIN cells |-> cells[i].c]
Split(cells, ifs) ==
  LET at == Places(cells, ifs)
  IN [k \in DOMAIN at |-> rmescapes(Chars(SubSeq(cells, at[k][1], at[k][2])))]

RECURSIVE Read(_, _)
\* The cells of a line: a quoted character is not split, a quoted newline is
\* nothing; and whether the line had an end.
Read(s, rflag) ==
  LET quoted == ~rflag /\ s[1] = "\\" /\ Len(s) > 1
      r == Read(SubSeq(s, IF quoted THEN 3 ELSE 2, Len(s)), rflag)
  IN IF s = <<>> THEN [cells |-> <<>>, status |-> 1]
     ELSE IF s[1] = "\n" THEN [cells |-> <<>>, status |-> 0]
     ELSE IF s = <<"\\">> /\ ~rflag THEN [cells |-> <<>>, status |-> 1]
     ELSE IF quoted /\ s[2] = "\n" THEN r
     ELSE [r EXCEPT !.cells = <<[c |-> IF quoted THEN s[2] ELSE s[1], split |-> IF quoted THEN "none" ELSE "all"]>> \o @]
\* The variables: the last one takes the fields that are left, with what is
\* between and after them but white space at the end.
Variables(s, rflag, ifs, n) ==
  LET l == Read(s, rflag)
      at == Places(l.cells, ifs)
      ends == {i \in DOMAIN l.cells : Kind(l.cells[i], ifs) # "white"}
      last == CHOOSE i \in ends : \A j \in ends : j <= i
  IN [vars |-> [k \in 1 .. n |->
                  IF k > Len(at) THEN <<>>
                  ELSE Chars(SubSeq(l.cells, at[k][1], IF k = n /\ Len(at) > n THEN last ELSE at[k][2]))],
      status |-> l.status]

\* read splits a line into the variables it is given, the last of which takes
\* what is left, when no quoted character follows a character of IFS: where one
\* does, ReadAll tells what is lost.
Quoted(s, ifs) == \E i \in 1 .. Len(s) - 1 : s[i] \in ifs /\ s[i + 1] = "\\"
Reads(s, rflag, ifs, n) ==
  (rflag \/ ~Quoted(s, ifs)) => readcmd(s, rflag, ifs, n) = Variables(s, rflag, ifs, n)
\* ... and in every case.
ReadAll(s, rflag, ifs, n) == readcmd(s, rflag, ifs, n) = Variables(s, rflag, ifs, n)
===============================================================================

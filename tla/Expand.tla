---------------------------------- MODULE Expand ----------------------------------
(***************************************************************************)
(* The expansion of a word by expand.c: parameters, their modifiers and    *)
(* quotes, into a text with the regions that are split, and its fields;    *)
(* and what the fields of a word are.  Tildes, commands, arithmetic and    *)
(* path names are not expanded here.                                       *)
(*                                                                         *)
(* A word is a sequence of parts, records whose k is "text" (of characters *)
(* s that are not quoted), "quoted" (a quoted word w) or "param": the      *)
(* parameter name with the modifier op, which colon makes one for null     *)
(* values too, and its word w.                                             *)
(*                                                                         *)
(* Definitions with a suffix, such as evalvar_regions, are faulty variants *)
(* of the definition that follows them.                                    *)
(***************************************************************************)
EXTENDS Fields

CONSTANT NULL      \* no value

LOCAL INSTANCE SequencesExt
P == INSTANCE Pattern

\* The environment: the variables, the positional parameters and IFS.
IFSChars(env) == IF env.ifs = NULL THEN {" "} ELSE {env.ifs[i] : i \in DOMAIN env.ifs}
Separator(env) == IF env.ifs = NULL THEN <<" ">> ELSE SubSeq(env.ifs, 1, IF env.ifs = <<>> THEN 0 ELSE 1)
RECURSIVE Join(_, _)
Join(list, sep) == IF Len(list) = 1 THEN list[1] ELSE list[1] \o sep \o Join(Tail(list), sep)
Value(env, name, sep) ==
  IF name \in {"@", "*"} THEN (IF env.params = <<>> THEN NULL ELSE Join(env.params, sep)) ELSE env.vars[name]
Digit(n) == <<"0", "1", "2", "3", "4", "5", "6", "7", "8", "9">>[n + 1]
Way(op) == [left |-> op \in {"#", "##"}, right |-> op \in {"%", "%%"}, max |-> op \in {"##", "%%"}]
Trims == {"#", "##", "%", "%%"}

----------------------------------------------------------------------------
(* expand.c.  e is the text so far, its regions and the environment; f the *)
(* flags: EXP_FULL, EXP_CASE, EXP_QUOTED, and whether text is split as in  *)
(* the word of a modifier (breakall).                                      *)

Len_(e) == Len(e.text)
Put(e, s) == [e EXCEPT !.text = @ \o s]
Record(e, from, nulonly) == [e EXCEPT !.R = recordregion(@, from, Len_(e), nulonly)]

\* The value of a parameter, as varvalue puts it into the text.
varvalue(env, name, f) ==
  Value(env, name, IF f.full /\ (name = "@" \/ ~f.quoted) THEN <<NUL>> ELSE Separator(env))

RECURSIVE argstr(_, _, _), evalvar(_, _, _)
\* The text of a pattern quotes what is quoted.
Escape(s) == IF s = <<>> THEN s ELSE FlattenSeq([i \in DOMAIN s |-> <<P!ESC, s[i]>>])
Literal(e, s, f) ==
  LET r == Put(e, IF f.case /\ f.quoted THEN Escape(s) ELSE s)
  IN IF f.breakall /\ ~f.quoted /\ s # <<>> THEN Record(r, Len_(e), FALSE) ELSE r
\* A modifier's word; breakall where it is not quoted.
Word(e, part, f) == argstr(e, part.w, [f EXCEPT !.breakall = ~f.quoted])

\* The hack for "$@" with no parameters: the quotes are nothing.
dolatstrhack(e, w, f) ==
  /\ Len(w) = 1 /\ w[1].k = "param" /\ w[1].name = "@" /\ w[1].op \notin {"-", "length"}
  /\ e.env.params = <<>> /\ f.full
argstr(e, w, f) ==
  IF w = <<>> THEN e
  ELSE LET part == w[1]
           mark == IF f.full THEN <<QM>> ELSE <<>>
           in == argstr(Put(e, mark), part.w, [f EXCEPT !.quoted = TRUE])
           next == CASE part.k = "text" -> Literal(e, part.s, f)
                     [] part.k = "quoted" -> IF dolatstrhack(e, part.w, f) THEN evalvar(e, part.w[1], [f EXCEPT !.quoted = TRUE])
                                             ELSE Put(in, mark)
                     [] part.k = "param" -> evalvar(e, part, f)
       IN argstr(next, Tail(w), f)

\* VSTRIMLEFT to VSTRIMRIGHTMAX: the word is a pattern, behind the value.
subevalvar(e, part, startloc, f) ==
  LET w == argstr(e, part.w, [full |-> FALSE, case |-> TRUE, quoted |-> FALSE, breakall |-> FALSE])
      value == SubSeq(e.text, startloc + 1, Len_(e))
      loc == P!pmatch(SubSeq(w.text, Len_(e) + 1, Len(w.text)), value, Way(part.op))
      rest == IF loc = 0 THEN value ELSE IF Way(part.op).left THEN SubSeq(value, loc, Len(value)) ELSE SubSeq(value, 1, loc - 1)
  IN [w EXCEPT !.text = SubSeq(e.text, 1, startloc) \o rest]

\* VSASSIGN: the word is expanded for its text only.
Assigned(e, part) ==
  LET w == argstr(e, part.w, [full |-> FALSE, case |-> FALSE, quoted |-> FALSE, breakall |-> FALSE])
  IN [w EXCEPT !.text = e.text, !.env.vars[part.name] = SubSeq(w.text, Len_(e) + 1, Len(w.text))]

evalvar_regions(e, part, f) ==
  LET startloc == Len_(e)
      easy == ~f.quoted \/ (part.name = "@" /\ e.env.params # <<>>)
      value == varvalue(e.env, part.name, f)
      unset == value = NULL \/ (part.colon /\ value = <<>>)
      with == Put(e, IF value = NULL THEN <<>> ELSE value)
      record(r) == IF easy THEN Record(r, startloc, f.quoted) ELSE r
  IN CASE part.op = "+" -> IF ~unset THEN Word(e, part, f) ELSE record(e)
       [] part.op = "-" -> IF unset THEN Word(with, part, f) ELSE record(with)
       [] part.op = "=" -> IF ~unset THEN record(with)
                           ELSE evalvar(Assigned(e, part), [part EXCEPT !.colon = FALSE], f)
       [] part.op = "length" -> record(Put(e, <<Digit(IF value = NULL THEN 0 ELSE Len(value))>>))
       [] part.op = "" -> record(with)
       [] part.op \in Trims -> record(subevalvar(with, part, startloc, f))
evalvar(e, part, f) ==
  LET startloc == Len_(e)
      easy == ~f.quoted \/ (part.name = "@" /\ e.env.params # <<>>)
      value == varvalue(e.env, part.name, f)
      unset == value = NULL \/ (part.colon /\ value = <<>>)
      with == Put(e, IF value = NULL THEN <<>> ELSE value)
      record(r) == IF easy THEN Record(r, startloc, f.quoted) ELSE r
      Removed(r) == [r EXCEPT !.R = removerecordregions(@, startloc)]
  IN CASE part.op = "+" -> IF ~unset THEN Word(e, part, f) ELSE record(e)
       [] part.op = "-" -> IF unset THEN Word(with, part, f) ELSE record(with)
       [] part.op = "=" -> IF ~unset THEN record(with)
                           ELSE evalvar(Removed(Assigned(e, part)), [part EXCEPT !.colon = FALSE], f)
       [] part.op = "length" -> record(Put(e, <<Digit(IF value = NULL THEN 0 ELSE Len(value))>>))
       [] part.op = "" -> record(with)
       [] part.op \in Trims -> record(Removed(subevalvar(with, part, startloc, f)))

Expanded(w, env, full) ==
  argstr([text |-> <<>>, R |-> <<>>, env |-> env], w, [full |-> full, case |-> FALSE, quoted |-> FALSE, breakall |-> FALSE])
\* expandarg: with EXP_FULL the fields, else one text.
expandarg(w, env, full) ==
  LET e == Expanded(w, env, full)
  IN [list |-> IF full THEN Texts(ifsbreakup(e.text, e.R, IFSChars(e.env), -1)) ELSE <<e.text>>, vars |-> e.env.vars]

----------------------------------------------------------------------------
(* What a word is: cells, for Fields to split, and the environment after   *)
(* it.                                                                     *)

RECURSIVE Cells(_, _, _, _), Param(_, _, _, _)
Cell(s, split) == [i \in DOMAIN s |-> [c |-> s[i], split |-> split]]
Result(cells, env) == [cells |-> cells, env |-> env]
\* The cells of a word, quoted or not; split is that of its own text.
Cells(w, env, quoted, split) ==
  IF w = <<>> THEN Result(<<>>, env)
  ELSE LET part == w[1]
           in == Cells(part.w, env, TRUE, "none")
           r == CASE part.k = "text" -> Result(Cell(part.s, split), env)
                  [] part.k = "quoted" ->
                       IF env.params = <<>> /\ Len(part.w) = 1 /\ part.w[1].k = "param" /\ part.w[1].name = "@" THEN Result(<<>>, env)
                       ELSE Result(Cell(<<QM>>, "none") \o in.cells \o Cell(<<QM>>, "none"), in.env)
                  [] part.k = "param" -> Param(part, env, quoted, split)
           rest == Cells(Tail(w), r.env, quoted, split)
       IN Result(r.cells \o rest.cells, rest.env)
\* The characters of a word that is not split.
Plain(w, env) ==
  LET flat == Cells(w, [env EXCEPT !.params = IF @ = <<>> THEN @ ELSE <<Join(@, Separator(env))>>], TRUE, "none")
  IN [s |-> SelectSeq([i \in DOMAIN flat.cells |-> flat.cells[i].c], LAMBDA c : c # QM),
      env |-> [flat.env EXCEPT !.params = env.params]]
\* A pattern of text and quoted text.
PatternOf(w) == FlattenSeq([k \in DOMAIN w |-> IF w[k].k = "text" THEN w[k].s ELSE Escape(w[k].w[1].s)])
Trimmed(value, w, way) ==
  LET elements == P!Elements(P!Units(PatternOf(w)))
      n == Len(value)
      places == {i \in 0 .. n : P!Matches(elements, IF way.left THEN SubSeq(value, 1, i) ELSE SubSeq(value, i + 1, n))}
      Least == CHOOSE i \in places : \A j \in places : i <= j
      Greatest == CHOOSE i \in places : \A j \in places : j <= i
  IN IF places = {} THEN value
     ELSE IF way.left THEN SubSeq(value, (IF way.max THEN Greatest ELSE Least) + 1, n)
     ELSE SubSeq(value, 1, IF way.max THEN Least ELSE Greatest)
Param(part, env, quoted, split) ==
  LET value == Value(env, part.name, IF part.name = "@" \/ ~quoted THEN <<NUL>> ELSE Separator(env))
      unset == value = NULL \/ (part.colon /\ value = <<>>)
      Is(s, to) == Result(Cell(s, IF ~quoted THEN "all" ELSE IF part.name = "@" THEN "nul" ELSE "none"), to)
      word == Cells(part.w, env, quoted, IF quoted THEN "none" ELSE "all")
  IN CASE part.op = "+" -> IF unset THEN Result(<<>>, env) ELSE word
       [] part.op = "-" -> IF unset THEN word ELSE Is(value, env)
       [] part.op = "=" -> IF ~unset THEN Is(value, env)
                           ELSE LET p == Plain(part.w, env) IN Is(p.s, [p.env EXCEPT !.vars[part.name] = p.s])
       [] part.op = "length" -> Is(<<Digit(IF value = NULL THEN 0 ELSE Len(value))>>, env)
       [] part.op = "" -> Is(IF value = NULL THEN <<>> ELSE value, env)
       [] part.op \in Trims -> Is(IF value = NULL THEN <<>> ELSE Trimmed(value, part.w, Way(part.op)), env)

\* A word becomes the fields that it is: what quotes hold is kept together and
\* is never nothing, "$@" is a field for each parameter, unquoted expansions and
\* the unquoted words of their modifiers are split, and nothing else is; and the
\* variables are what the modifiers make them.
Expands(w, env) ==
  LET is == Cells(w, env, FALSE, "none")
      e == expandarg(w, env, TRUE)
  IN e.list = Split(is.cells, IFSChars(is.env)) /\ e.vars = is.env.vars
===============================================================================

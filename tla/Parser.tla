--------------------------------- MODULE Parser ---------------------------------
(***************************************************************************)
(* The parser of parser.c from its tokens on: which words are keywords,    *)
(* the recursive descent with one token of pushback, and the here          *)
(* documents that are read at the next newline, wherever that newline is   *)
(* read.  To compare it with: the grammar of commands, written without     *)
(* tokens pushed back, modes or here documents.                            *)
(*                                                                         *)
(* A text is a sequence of tokens.  A name in quotes stands for any quoted *)
(* word, x=1 for an assignment, eval for the special built-ins; the text   *)
(* of here document number n is the item Doc(n), behind the newline.  No   *)
(* aliases are defined (Input models them).                                *)
(*                                                                         *)
(* Definitions with a suffix, such as Newline_skipped, are faulty variants *)
(* of the definition that follows them.                                    *)
(***************************************************************************)
EXTENDS Integers, FiniteSets, Sequences, TLC

Keywords == {"!", "case", "do", "done", "elif", "else", "esac", "fi", "for", "if", "in", "then", "until", "while", "{", "}"}
Operators == {"nl", ";", "&", "&&", "||", "|", "(", ")", ";;", ";&"}
Redirections == {">", ">&", "<<"}
tokendlist == {"EOF", ")", ";;", ";&", "do", "done", "elif", "else", "esac", "fi", "then", "}"}
isassignment(w) == w = "x=1"
goodname(w) == w \in {"a", "b", "f", "x", "eval"} \cup (Keywords \ {"!", "{", "}"})
Special(w) == w = "eval"

NULL == [k |-> "NULL"]
NEOF == [k |-> "EOF"]
Doc(n) == "doc" \o ToString(n)

----------------------------------------------------------------------------
(* Tokens.  The state s: the text and where xxreadtoken is in it, the      *)
(* static variables tokpushback, lasttoken, checkkwd (the keywords to look *)
(* for, and "nl" for CHKNL), wordtext and heredoclist, the here documents  *)
(* met and their texts, and the node that the last function returned.      *)
(* After an error, as after the longjmp of synerror, no more is read.      *)

Fail(s) == [s EXCEPT !.error = TRUE, !.i = Len(s.text) + 1, !.tokpushback = FALSE, !.lasttoken = "EOF", !.res = NULL]
Push(s) == [s EXCEPT !.tokpushback = TRUE]
Ret(s, n) == [s EXCEPT !.res = n]
With(s, kwd) == [s EXCEPT !.checkkwd = kwd]
CHKKWD == Keywords
CHKNL == {"nl"}

xxreadtoken(s) ==
  IF s.tokpushback THEN [s EXCEPT !.tokpushback = FALSE]
  ELSE IF s.i > Len(s.text) THEN [s EXCEPT !.lasttoken = "EOF"]
  ELSE LET t == s.text[s.i]
       IN IF t \in Operators \cup Redirections THEN [s EXCEPT !.i = @ + 1, !.lasttoken = t]
          ELSE [s EXCEPT !.i = @ + 1, !.lasttoken = "WORD", !.wordtext = t]

\* Each document on the list takes what is next in the text.
RECURSIVE parseheredoc(_)
parseheredoc(s) ==
  IF s.heredoclist = <<>> THEN s
  ELSE LET doc == IF s.i > Len(s.text) THEN "" ELSE s.text[s.i]
       IN parseheredoc([s EXCEPT !.heredoclist = Tail(@), !.i = @ + 1, !.docs = @ @@ (Head(s.heredoclist) :> doc)])

\* CHKNL: a newline that is skipped ends the line like any other.
Newline_skipped(s) == s
Newline(s) == parseheredoc(s)
RECURSIVE Read(_, _)
Read(s, kwd) ==
  LET t == xxreadtoken(s)
  IN IF t.lasttoken = "nl" /\ "nl" \in kwd THEN Read(Newline(t), kwd)
     ELSE IF t.lasttoken = "WORD" /\ t.wordtext \in kwd THEN [t EXCEPT !.lasttoken = t.wordtext]
     ELSE t
readtoken(s) == [Read(s, s.checkkwd) EXCEPT !.checkkwd = {}]
Expect(s, t) == LET a == readtoken(s) IN IF a.lasttoken = t THEN a ELSE Fail(a)

----------------------------------------------------------------------------
(* Words and redirections.                                                 *)

fixredir(w) == CASE w = "1" -> [dupfd |-> "1", vname |-> ""] [] w = "-" -> [dupfd |-> "-1", vname |-> ""]
                 [] OTHER -> [dupfd |-> "", vname |-> w]
\* The name behind a redirection; a here document joins the list.
parsefname(s) ==
  LET op == s.lasttoken
      a == Expect(s, "WORD")
      n == a.heres + 1
  IN IF a.error THEN a
     ELSE IF op = "<<" THEN Ret([a EXCEPT !.heres = n, !.heredoclist = Append(@, n)], [k |-> op, doc |-> n])
     ELSE Ret(a, [k |-> op, to |-> IF op = ">&" THEN fixredir(a.wordtext) ELSE [fname |-> a.wordtext]])

\* The redirections behind a compound command.
RECURSIVE Redirected(_, _)
Redirected(s, redirs) ==
  LET a == readtoken(s)
  IN IF a.lasttoken \notin Redirections THEN Ret(Push(a), redirs)
     ELSE LET b == parsefname(a) IN IF b.error THEN b ELSE Redirected(b, Append(redirs, b.res))

\* The words of for, up to the first token that is not one.
RECURSIVE Words(_, _)
Words(s, words) ==
  LET a == readtoken(s) IN IF a.lasttoken = "WORD" THEN Words(a, Append(words, a.wordtext)) ELSE Ret(a, words)

----------------------------------------------------------------------------
(* Commands.                                                               *)

RECURSIVE list(_, _, _), andor(_), pipeline(_), command(_), simplecmd(_, _, _), Cases(_, _), If(_)

\* What & makes of a command.
Background(n) ==
  CASE n.k = "pipe" -> [n EXCEPT !.backgnd = TRUE]
    [] n.k = "redir" -> [n EXCEPT !.k = "backgnd"]
    [] OTHER -> [k |-> "backgnd", n |-> n, redirect |-> <<>>]
Joined(n1, n2) == IF n1 = NULL THEN n2 ELSE [k |-> "semi", ch1 |-> n1, ch2 |-> n2]

\* nlflag is odd when a newline ends the list, and 2 when it may be empty or
\* is not any more.
list(s, nlflag, n1) ==
  LET top == nlflag % 2 = 1
      a == readtoken(With(s, CHKKWD \cup (IF top THEN {} ELSE CHKNL)))
      b == andor(Push(a))
      c == readtoken(b)
      n == Joined(n1, IF c.lasttoken = "&" THEN Background(b.res) ELSE b.res)
      more == IF nlflag < 2 THEN nlflag + 2 ELSE nlflag
  IN IF a.lasttoken = "nl" THEN Ret(parseheredoc(a), n1)
     ELSE IF a.lasttoken = "EOF"
     THEN Push(IF top THEN Ret(parseheredoc(a), IF n1 = NULL THEN NEOF ELSE n1) ELSE Ret(a, n1))
     ELSE IF nlflag = 2 /\ a.lasttoken \in tokendlist THEN Push(Ret(a, n1))
     ELSE IF b.error THEN b
     ELSE IF c.lasttoken \in {"nl", "EOF"} THEN list(Push(c), more, n)
     ELSE IF c.lasttoken \in {"&", ";"} THEN list(c, more, n)
     ELSE IF top THEN Fail(c) ELSE Push(Ret(c, n))

\* The loop of andor, behind the command n and the operator op.
RECURSIVE AndOrs(_, _, _)
AndOrs(s, op, n) ==
  LET a == pipeline(s)
      b == readtoken(a)
      m == IF op = "" THEN a.res ELSE [k |-> op, ch1 |-> n, ch2 |-> a.res]
  IN IF a.error THEN a
     ELSE IF b.lasttoken \in {"&&", "||"} THEN AndOrs(With(b, CHKNL \cup CHKKWD), b.lasttoken, m)
     ELSE Push(Ret(b, m))
andor(s) == AndOrs(s, "", NULL)

\* The loop of pipeline, behind the commands cmds.
RECURSIVE Pipes(_, _)
Pipes(s, cmds) ==
  LET a == command(s)
      b == readtoken(a)
      all == Append(cmds, a.res)
  IN IF a.error THEN a
     ELSE IF b.lasttoken = "|" THEN Pipes(With(b, CHKNL \cup CHKKWD), all)
     ELSE Push(Ret(b, IF Len(all) = 1 THEN all[1] ELSE [k |-> "pipe", cmdlist |-> all, backgnd |-> FALSE]))
pipeline(s) ==
  LET a == readtoken(s)
      b == IF a.lasttoken = "!" THEN Pipes(With(a, CHKKWD), <<>>) ELSE Pipes(Push(a), <<>>)
  IN IF a.lasttoken = "!" /\ ~b.error THEN Ret(b, [k |-> "not", com |-> b.res]) ELSE b

\* if and elif, from the list behind them to before fi.
If(s) ==
  LET test == list(s, 0, NULL)
      ifpart == list(Expect(test, "then"), 0, NULL)
      a == readtoken(ifpart)
      b == CASE a.lasttoken = "elif" -> If(a) [] a.lasttoken = "else" -> list(a, 0, NULL) [] OTHER -> Push(Ret(a, NULL))
  IN Ret(b, [k |-> "if", test |-> test.res, ifpart |-> ifpart.res, elsepart |-> b.res])

\* while and until, for: from behind the keyword to before done.
Loop(s, k) ==
  LET test == list(s, 0, NULL)
      body == list(Expect(test, "do"), 0, NULL)
  IN Ret(body, [k |-> k, ch1 |-> test.res, ch2 |-> body.res])
For(s) ==
  LET name == Expect(s, "WORD")
      a == readtoken(With(name, CHKNL \cup {"in", "do"}))
      w == Words(a, <<>>)
      args == IF a.lasttoken # "in" THEN (IF a.lasttoken = ";" THEN a ELSE Push(a))
              ELSE IF w.lasttoken = "nl" THEN parseheredoc(w)
              ELSE IF w.lasttoken = ";" THEN w ELSE Fail(w)
      body == list(Expect(With(args, CHKNL \cup {"in", "do"}), "do"), 0, NULL)
  IN IF name.error \/ ~goodname(name.wordtext) THEN Fail(name)
     ELSE Ret(body, [k |-> "for", var |-> name.wordtext, args |-> IF a.lasttoken = "in" THEN w.res ELSE <<"$@">>, body |-> body.res])

\* The patterns of one item, the first of which has just been read.
RECURSIVE Patterns(_, _)
Patterns(s, pats) ==
  LET a == readtoken(s)
      all == Append(pats, s.wordtext)
      b == readtoken(a)
  IN IF s.lasttoken \in Operators \cup Redirections \cup {"EOF"} THEN Fail(s)
     ELSE IF a.lasttoken = "|" THEN Patterns(b, all)
     ELSE IF a.lasttoken = ")" THEN Ret(a, all) ELSE Fail(a)
Cases(s, cases) ==
  LET a == readtoken(s)
      pats == Patterns(IF a.lasttoken = "(" THEN readtoken(a) ELSE a, <<>>)
      body == list(pats, 2, NULL)
      b == readtoken(With(body, CHKNL \cup CHKKWD))
      all == Append(cases, [pattern |-> pats.res, body |-> body.res, through |-> b.lasttoken = ";&"])
  IN IF a.lasttoken = "esac" THEN Ret(a, cases)
     ELSE IF pats.error THEN pats
     ELSE CASE b.lasttoken \in {";;", ";&"} -> Cases(With(b, CHKNL \cup {"esac"}), all)
            [] b.lasttoken = "esac" -> Ret(b, all)
            [] OTHER -> Fail(b)
Case(s) ==
  LET w == Expect(s, "WORD")
      in == Expect(With(w, CHKNL \cup {"in"}), "in")
      b == Cases(With(in, CHKNL \cup CHKKWD), <<>>)
  IN Ret(b, [k |-> "case", expr |-> w.wordtext, cases |-> b.res])

\* A compound command with its last word, without its redirections.
Compound(s, t) ==
  CASE t = "if" -> Expect(If(s), "fi")
    [] t \in {"while", "until"} -> Expect(Loop(s, t), "done")
    [] t = "for" -> Expect(For(s), "done")
    [] t = "case" -> Case(s)
    [] t = "(" -> LET b == list(s, 0, NULL) IN Expect(Ret(b, [k |-> "subshell", n |-> b.res, redirect |-> <<>>]), ")")
    [] t = "{" -> Expect(list(s, 0, NULL), "}")
    [] OTHER -> Fail(s)
command(s) ==
  LET a == readtoken(s)
      n1 == Compound(a, a.lasttoken)
      r == Redirected(With(n1, CHKKWD), <<>>)
  IN IF a.lasttoken \in {"WORD"} \cup Redirections
     THEN simplecmd(Push(a), [k |-> "cmd", args |-> <<>>, assign |-> <<>>, redirect |-> <<>>], "")
     ELSE IF n1.error THEN n1 ELSE IF r.error THEN r
     ELSE Ret(r, IF r.res = <<>> THEN n1.res
                 ELSE IF n1.res.k = "subshell" /\ n1.res.redirect = <<>> THEN [n1.res EXCEPT !.redirect = r.res]
                 ELSE [k |-> "redir", n |-> n1.res, redirect |-> r.res])

\* The loop of simplecmd; first is the only word, once there is one.
simplecmd(s, n, first) ==
  LET a == readtoken(s)
      w == a.wordtext
      b == parsefname(a)
      close == readtoken(a)
      body == command(With(close, CHKNL \cup CHKKWD))
  IN IF a.lasttoken = "WORD" THEN
       IF n.args = <<>> /\ isassignment(w) THEN simplecmd(a, [n EXCEPT !.assign = Append(@, w)], first)
       ELSE simplecmd(a, [n EXCEPT !.args = Append(@, w)], w)
     ELSE IF a.lasttoken \in Redirections THEN
       IF b.error THEN b ELSE simplecmd(b, [n EXCEPT !.redirect = Append(@, b.res)], first)
     ELSE IF a.lasttoken = "(" /\ Len(n.args) = 1 /\ n.assign = <<>> /\ n.redirect = <<>> THEN
       IF close.lasttoken # ")" \/ ~goodname(first) \/ Special(first) THEN Fail(close)
       ELSE Ret(body, [k |-> "defun", text |-> first, body |-> body.res])
     ELSE Push(Ret(a, n))

parsecmd(text) ==
  list([text |-> text, i |-> 1, tokpushback |-> FALSE, lasttoken |-> "EOF", checkkwd |-> {}, wordtext |-> "",
        heredoclist |-> <<>>, heres |-> 0, docs |-> <<>>, res |-> NULL, error |-> FALSE], 1, NULL)

----------------------------------------------------------------------------
(* The grammar.  Each operator gives the pairs of a node and the place     *)
(* behind its text, for a text without documents that starts at i.  Words  *)
(* and redirections belong to the command they follow.  A keyword is one   *)
(* where the grammar has it and is a word anywhere else but in front of a  *)
(* simple command.                                                         *)

At(s, i) == IF i <= Len(s) THEN s[i] ELSE "EOF"
Word(t) == t \notin Operators \cup Redirections \cup {"EOF"}
RECURSIVE Linebreak(_, _)
Linebreak(s, i) == IF At(s, i) = "nl" THEN Linebreak(s, i + 1) ELSE i

Redir(s, i) ==
  [k |-> s[i]] @@ IF s[i] = "<<" THEN [doc |-> Cardinality({j \in 1 .. i : s[j] = "<<"})]
                  ELSE [to |-> IF s[i] = ">" THEN [fname |-> s[i + 1]] ELSE fixredir(s[i + 1])]
RECURSIVE Run(_, _, _)
Run(s, i, words) ==      \* words and redirections, as far as they go
  IF words /\ Word(At(s, i)) THEN <<i>> \o Run(s, i + 1, words)
  ELSE IF At(s, i) \in Redirections /\ Word(At(s, i + 1)) THEN <<i>> \o Run(s, i + 2, words)
  ELSE <<>>
Behind(s, i, run) == IF run = <<>> THEN i ELSE LET l == run[Len(run)] IN IF Word(s[l]) THEN l + 1 ELSE l + 2
Redirs(s, run) == LET r == SelectSeq(run, LAMBDA j : ~Word(s[j])) IN [j \in DOMAIN r |-> Redir(s, r[j])]
Simple(s, i) ==
  LET run == Run(s, i, TRUE)
      words == LET w == SelectSeq(run, LAMBDA j : Word(s[j])) IN [j \in DOMAIN w |-> s[w[j]]]
      n == CHOOSE n \in 0 .. Len(words) : /\ \A j \in 1 .. n : isassignment(words[j])
                                         /\ n < Len(words) => ~isassignment(words[n + 1])
  IN IF run = <<>> \/ At(s, i) \in Keywords THEN {}
     ELSE {<<[k |-> "cmd", assign |-> SubSeq(words, 1, n), args |-> SubSeq(words, n + 1, Len(words)), redirect |-> Redirs(s, run)],
             Behind(s, i, run)>>}

RECURSIVE Body(_, _, _), AndOr(_, _, _, _), Pipe(_, _, _), Command(_, _), Items(_, _, _), Else(_, _)

\* & applies to all of the command before it; it does nothing to a pipeline
\* that is asynchronous already.
Async(n) ==
  IF n.k = "pipe" THEN [n EXCEPT !.backgnd = TRUE]
  ELSE [k |-> "backgnd", n |-> IF n.k = "redir" THEN n.n ELSE n, redirect |-> IF n.k = "redir" THEN n.redirect ELSE <<>>]
Sequence(n1, sep, n2) == LET n == IF sep = "&" THEN Async(n2) ELSE n2 IN IF n1 = NULL THEN n ELSE [k |-> "semi", ch1 |-> n1, ch2 |-> n]

\* A compound list: commands, each but the last with a separator behind it.
Body(s, i, n1) ==
  UNION {LET sep == At(s, a[2])
             n == Sequence(n1, sep, a[1])
             j == Linebreak(s, IF sep \in {";", "&"} THEN a[2] + 1 ELSE a[2])
         IN {<<n, j>>} \cup (IF sep \in {";", "&", "nl"} THEN Body(s, j, n) ELSE {})
         : a \in AndOr(s, Linebreak(s, i), "", NULL)}
AndOr(s, i, op, n) ==
  UNION {LET p == IF At(s, i) = "!" THEN [k |-> "not", com |-> a[1]] ELSE a[1]
             m == IF op = "" THEN p ELSE [k |-> op, ch1 |-> n, ch2 |-> p]
         IN IF At(s, a[2]) \in {"&&", "||"} THEN AndOr(s, Linebreak(s, a[2] + 1), At(s, a[2]), m) ELSE {<<m, a[2]>>}
         : a \in Pipe(s, IF At(s, i) = "!" THEN i + 1 ELSE i, <<>>)}
Pipe(s, i, cmds) ==
  UNION {LET all == Append(cmds, a[1])
         IN IF At(s, a[2]) = "|" THEN Pipe(s, Linebreak(s, a[2] + 1), all)
            ELSE {<<IF Len(all) = 1 THEN all[1] ELSE [k |-> "pipe", cmdlist |-> all, backgnd |-> FALSE], a[2]>>}
         : a \in Command(s, i)}

\* The pairs of S that the token t follows, and the nodes of S with what is
\* behind them: More gives the pairs that continue one, Node the whole.
Then(s, S, t) == {<<a[1], a[2] + 1>> : a \in {b \in S : At(s, b[2]) = t}}
Both(S, More(_), Node(_, _)) == UNION {{<<Node(a[1], b[1]), b[2]>> : b \in More(a[2])} : a \in S}
List(s, i) == Body(s, i, NULL)

IfTail(s, i) ==
  LET part(j) == Both(List(s, j), LAMBDA k : Else(s, k), LAMBDA m, n : <<m, n>>)
  IN Both(Then(s, List(s, i), "then"), part, LAMBDA m, n : [k |-> "if", test |-> m, ifpart |-> n[1], elsepart |-> n[2]])
Else(s, i) ==
  CASE At(s, i) = "fi" -> {<<NULL, i + 1>>} [] At(s, i) = "else" -> Then(s, List(s, i + 1), "fi")
    [] At(s, i) = "elif" -> IfTail(s, i + 1) [] OTHER -> {}
DoGroup(s, i) == IF At(s, i) = "do" THEN Then(s, List(s, i + 1), "done") ELSE {}
ForTail(s, i) ==
  LET j == Linebreak(s, i + 1)
      e == CHOOSE e \in j + 1 .. Len(s) + 1 : ~Word(At(s, e)) /\ \A p \in j + 1 .. e - 1 : Word(s[p])
      node(args, b) == [k |-> "for", var |-> s[i], args |-> args, body |-> b]
  IN IF ~Word(At(s, i)) \/ ~goodname(At(s, i)) THEN {}
     ELSE IF At(s, j) # "in"
     THEN {<<node(<<"$@">>, b[1]), b[2]>> : b \in DoGroup(s, IF At(s, j) = ";" THEN Linebreak(s, j + 1) ELSE j)}
     ELSE IF At(s, e) \notin {";", "nl"} THEN {}
     ELSE {<<node(SubSeq(s, j + 1, e - 1), b[1]), b[2]>> : b \in DoGroup(s, Linebreak(s, e + 1))}

Items(s, i, cases) ==
  LET p == IF At(s, i) = "(" THEN i + 1 ELSE i
      ends == {e \in p + 1 .. Len(s) : /\ s[e] = ")" /\ (e - p) % 2 = 1
                                       /\ \A q \in p .. e - 1 : IF (q - p) % 2 = 0 THEN Word(s[q]) ELSE s[q] = "|"}
      all(e, b) == Append(cases, [pattern |-> [q \in 1 .. (e - p + 1) \div 2 |-> s[p + 2 * (q - 1)]],
                                  body |-> b[1], through |-> At(s, b[2]) = ";&"])
  IN IF At(s, i) = "esac" THEN {<<cases, i + 1>>}
     ELSE UNION {UNION {CASE At(s, b[2]) \in {";;", ";&"} -> Items(s, Linebreak(s, b[2] + 1), all(e, b))
                          [] At(s, b[2]) = "esac" -> {<<all(e, b), b[2] + 1>>}
                          [] OTHER -> {}
                        : b \in {<<NULL, Linebreak(s, e + 1)>>} \cup List(s, e + 1)} : e \in ends}
CaseTail(s, i) ==
  LET j == Linebreak(s, i + 1)
  IN IF ~Word(At(s, i)) \/ At(s, j) # "in" THEN {}
     ELSE {<<[k |-> "case", expr |-> s[i], cases |-> c[1]], c[2]>> : c \in Items(s, Linebreak(s, j + 1), <<>>)}

CompoundCommand(s, i) ==
  CASE At(s, i) = "if" -> IfTail(s, i + 1)
    [] At(s, i) \in {"while", "until"} ->
         Both(List(s, i + 1), LAMBDA j : DoGroup(s, j), LAMBDA m, n : [k |-> s[i], ch1 |-> m, ch2 |-> n])
    [] At(s, i) = "for" -> ForTail(s, i + 1)
    [] At(s, i) = "case" -> CaseTail(s, i + 1)
    [] At(s, i) = "(" -> {<<[k |-> "subshell", n |-> a[1], redirect |-> <<>>], a[2]>> : a \in Then(s, List(s, i + 1), ")")}
    [] At(s, i) = "{" -> Then(s, List(s, i + 1), "}")
    [] OTHER -> {}
\* Redirections behind a subshell are its own, behind any other a node.
Wrapped(n, r) ==
  IF r = <<>> THEN n
  ELSE IF n.k = "subshell" /\ n.redirect = <<>> THEN [n EXCEPT !.redirect = r] ELSE [k |-> "redir", n |-> n, redirect |-> r]
Command(s, i) ==
  Simple(s, i)
  \cup (IF Word(At(s, i)) /\ goodname(s[i]) /\ s[i] \notin Keywords /\ ~Special(s[i]) /\ At(s, i + 1) = "(" /\ At(s, i + 2) = ")"
        THEN {<<[k |-> "defun", text |-> s[i], body |-> b[1]], b[2]>> : b \in Command(s, Linebreak(s, i + 3))} ELSE {})
  \cup {LET run == Run(s, a[2], FALSE) IN <<Wrapped(a[1], Redirs(s, run)), Behind(s, a[2], run)>>
         : a \in {b \in CompoundCommand(s, i) :
                   LET run == Run(s, b[2], FALSE) IN run # <<>> => ~Word(At(s, Behind(s, b[2], run)))}}

\* A line of commands, and what a whole text is.
RECURSIVE Line(_, _, _)
Line(s, i, n1) ==
  UNION {LET sep == At(s, a[2])
             n == Sequence(n1, sep, a[1])
         IN CASE sep \in {"nl", "EOF"} \/ (sep \in {";", "&"} /\ At(s, a[2] + 1) \in {"nl", "EOF"}) -> {n}
              [] sep \in {";", "&"} -> Line(s, a[2] + 1, n)
              [] OTHER -> {}
         : a \in AndOr(s, i, "", NULL)}
Derived(s) == CASE At(s, 1) = "nl" -> {NULL} [] At(s, 1) = "EOF" -> {NEOF} [] OTHER -> Line(s, 1, NULL)

\* The text with the documents where they belong.
RECURSIVE Layout(_, _, _, _)
Layout(s, i, from, to) ==
  IF i > Len(s) THEN <<>>
  ELSE LET docs == [n \in 1 .. to - from |-> Doc(from + n)]
           more == IF s[i] = "<<" THEN to + 1 ELSE to
       IN IF s[i] = "nl" THEN <<"nl">> \o docs \o Layout(s, i + 1, to, to) ELSE <<s[i]>> \o Layout(s, i + 1, from, more)

\* The parser accepts a text exactly if the grammar has one tree for it, and
\* gives that tree; and each here document in it has its own text, wherever
\* in a command the line with its operator ends.
Parses(s) ==
  LET p == parsecmd(Layout(s, 1, 0, 0))
      operator(n) == CHOOSE i \in DOMAIN s : s[i] = "<<" /\ Cardinality({j \in 1 .. i : s[j] = "<<"}) = n
      ends(n) == \E i \in operator(n) .. Len(s) : s[i] = "nl"
  IN /\ Derived(s) = IF p.error THEN {} ELSE {p.res}
     /\ ~p.error => p.heredoclist = <<>> /\ \A n \in 1 .. p.heres : p.docs[n] = IF ends(n) THEN Doc(n) ELSE ""
=============================================================================

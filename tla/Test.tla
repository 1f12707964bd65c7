---------------------------------- MODULE Test ----------------------------------
(***************************************************************************)
(* The builtin test of bltin/test.c: a parser that evaluates while it      *)
(* reads, and decides by the words around it whether a word is an operator *)
(* or an operand.  A word is a string; of the operators of each kind there *)
(* is a representative.                                                    *)
(*                                                                         *)
(* Definitions with a suffix, such as testcmd_paren, are faulty variants   *)
(* of the definition that follows them.                                    *)
(***************************************************************************)
EXTENDS Integers, Sequences

UNOP == {"-n", "-z", "-e"}
BINOP == {"=", "!=", "-gt"}
Operator == UNOP \cup BINOP \cup {"!", "-a", "-o", "(", ")"}

Exists == {"a"}                                  \* the files there are
Numbers == [w \in {"1", "2"} |-> IF w = "1" THEN 1 ELSE 2]

\* What an expression can be.  An error ends the command; "unknown" is what is
\* decided by memory behind the arguments.
Truth(p) == IF p THEN "true" ELSE "false"
Error == "error"
Unknown == "unknown"
Both(v, w, r) == IF Error \in {v, w} THEN Error ELSE IF Unknown \in {v, w} THEN Unknown ELSE r
And(v, w) == Both(v, w, Truth(v = "true" /\ w = "true"))
Or(v, w) == Both(v, w, Truth(v = "true" \/ w = "true"))
Not(v) == Both(v, v, Truth(v = "false"))

----------------------------------------------------------------------------
(* The lexer: what the word at i is.  The word after the last is NULL and  *)
(* there is none behind it.                                                *)

isoperand(a, i) == IF i + 1 > Len(a) THEN TRUE ELSE i + 2 <= Len(a) /\ a[i + 1] \in BINOP
t_lex_plain(a, i) ==
  IF i > Len(a) + 1 THEN "beyond" ELSE IF i = Len(a) + 1 THEN "EOI"
  ELSE IF a[i] \in Operator THEN a[i] ELSE "OPERAND"
t_lex(a, i) ==
  IF i > Len(a) + 1 THEN "beyond" ELSE IF i = Len(a) + 1 THEN "EOI"
  ELSE IF /\ a[i] \in Operator
          /\ ~(a[i] \in UNOP /\ isoperand(a, i))
          /\ ~(a[i] = "(" /\ i = Len(a))
       THEN a[i] ELSE "OPERAND"

getn(w) == IF w \in DOMAIN Numbers THEN Numbers[w] ELSE 0
Unary(op, w) == CASE op = "-z" -> Truth(w = "") [] op = "-n" -> Truth(w # "") [] op = "-e" -> Truth(w \in Exists)
Compare(op, v, w) ==
  CASE op = "=" -> Truth(v = w) [] op = "!=" -> Truth(v # w)
    [] op = "-gt" -> IF {v, w} \subseteq DOMAIN Numbers THEN Truth(getn(v) > getn(w)) ELSE Error

----------------------------------------------------------------------------
(* The parser: each function starts at word w, which is n to the lexer,    *)
(* and returns where it stopped and what the expression is.                *)

RECURSIVE oexpr(_, _, _), aexpr(_, _, _), nexpr(_, _, _), testcmd(_, _)

At(w, v) == [w |-> w, v |-> v]
primary(a, w, n) ==
  LET in == oexpr(a, w + 1, t_lex(a, w + 1))
  IN CASE n = "EOI" -> At(w, "false")
       [] n = "(" -> IF t_lex(a, w + 1) = ")" THEN At(w + 1, "false")
                     ELSE At(in.w + 1, IF in.v = Error \/ t_lex(a, in.w + 1) = ")" THEN in.v
                                       ELSE IF t_lex(a, in.w + 1) = "beyond" THEN Unknown ELSE Error)
       [] n \in UNOP -> At(w + 1, IF w + 1 > Len(a) THEN Error ELSE Unary(n, a[w + 1]))
       [] OTHER -> IF t_lex(a, w + 1) \in BINOP
                   THEN At(w + 2, IF w + 2 > Len(a) THEN Error ELSE Compare(a[w + 1], a[w], a[w + 2]))
                   ELSE At(w, Truth(a[w] # ""))
nexpr(a, w, n) ==
  LET next == t_lex(a, w + 1)
      r == nexpr(a, IF next # "EOI" THEN w + 1 ELSE w, next)
  IN IF n # "!" THEN primary(a, w, n) ELSE At(r.w, Not(r.v))
\* Both operands of -a and of -o are evaluated.
aexpr(a, w, n) ==
  LET l == nexpr(a, w, n)
      next == t_lex(a, l.w + 1)
      r == aexpr(a, l.w + 2, t_lex(a, l.w + 2))
  IN IF l.v \in {Error, Unknown} THEN l ELSE IF next = "beyond" THEN At(l.w, Unknown)
     ELSE IF next # "-a" THEN l ELSE At(r.w, And(l.v, r.v))
oexpr(a, w, n) ==
  LET l == aexpr(a, w, n)
      next == t_lex(a, l.w + 1)
      r == oexpr(a, l.w + 2, t_lex(a, l.w + 2))
  IN IF l.v \in {Error, Unknown} THEN l ELSE IF next = "beyond" THEN At(l.w, Unknown)
     ELSE IF next # "-o" THEN l ELSE At(r.w, Or(l.v, r.v))

\* The words that are left are an error, the last one excepted.
Evaluated(a, n) == LET r == oexpr(a, 1, n) IN IF r.v # Unknown /\ r.w + 1 <= Len(a) THEN Error ELSE r.v

testcmd_paren(a, res) ==
  LET n == Len(a)
      value == CASE n = 0 -> "false"
                 [] n \in 3 .. 4 /\ a[1] = "(" /\ a[n] = ")" -> LET b == SubSeq(a, 2, n - 1) IN Evaluated(b, t_lex(b, 1))
                 [] n = 3 /\ a[2] \in BINOP -> Evaluated(a, "OPERAND")
                 [] OTHER -> Evaluated(a, t_lex(a, 1))
  IN IF n \in 3 .. 4 /\ a[1] = "!" /\ ~(n = 3 /\ a[2] \in BINOP) THEN testcmd(Tail(a), ~res)
     ELSE IF res THEN value ELSE Not(value)
\* The value of the command: res is whether it is that of its expression, and
\* not the contrary.
testcmd(a, res) ==
  LET n == Len(a)
      value == CASE n = 0 -> "false"
                 [] n = 3 /\ a[2] \in BINOP -> Evaluated(a, "OPERAND")
                 [] n \in 3 .. 4 /\ a[1] = "(" /\ a[n] = ")" -> LET b == SubSeq(a, 2, n - 1) IN Evaluated(b, t_lex(b, 1))
                 [] OTHER -> Evaluated(a, t_lex(a, 1))
  IN IF n \in 3 .. 4 /\ a[1] = "!" /\ ~(n = 3 /\ a[2] \in BINOP) THEN testcmd(Tail(a), ~res)
     ELSE IF res THEN value ELSE Not(value)

----------------------------------------------------------------------------
(* What test is to say of up to four words: POSIX decides by how many they *)
(* are, and leaves open what it does not decide here.                      *)

RECURSIVE Decided(_)
Decided(a) ==
  LET n == Len(a)
  IN CASE n = 0 -> "false"
       [] n = 1 -> Truth(a[1] # "")
       [] n = 2 -> IF a[1] = "!" THEN Truth(a[2] = "") ELSE IF a[1] \in UNOP THEN Unary(a[1], a[2]) ELSE "open"
       [] n = 3 -> IF a[2] \in BINOP THEN Compare(a[2], a[1], a[3])
                   ELSE IF a[2] \in {"-a", "-o"} THEN "open"
                   ELSE IF a[1] = "!" THEN (IF Decided(Tail(a)) = "open" THEN "open" ELSE Not(Decided(Tail(a))))
                   ELSE IF a[1] = "(" /\ a[3] = ")" THEN Decided(<<a[2]>>) ELSE "open"
       [] n = 4 -> IF a[1] = "!" THEN (IF Decided(Tail(a)) = "open" THEN "open" ELSE Not(Decided(Tail(a))))
                   ELSE IF a[1] = "(" /\ a[4] = ")" THEN Decided(<<a[2], a[3]>>) ELSE "open"
       [] OTHER -> "open"

(* Expressions as trees, by the grammar at the top of test.c.              *)
RECURSIVE Words(_, _), Value(_)
Level(e) == CASE e.k = "or" -> 3 [] e.k = "and" -> 2 [] e.k = "not" -> 1 [] OTHER -> 0
Words(e, n) ==
  LET t == CASE e.k = "or" -> Words(e.a, 2) \o <<"-o">> \o Words(e.b, 3)
             [] e.k = "and" -> Words(e.a, 1) \o <<"-a">> \o Words(e.b, 2)
             [] e.k = "not" -> <<"!">> \o Words(e.a, 1)
             [] e.k = "words" -> e.words
  IN IF Level(e) > n THEN <<"(">> \o t \o <<")">> ELSE t
Value(e) ==
  CASE e.k = "or" -> Or(Value(e.a), Value(e.b)) [] e.k = "and" -> And(Value(e.a), Value(e.b))
    [] e.k = "not" -> Not(Value(e.a)) [] e.k = "words" -> Decided(e.words)

\* Up to four words are what POSIX decides, whatever operators they look like.
Right(a) == Decided(a) # "open" => testcmd(a, TRUE) = Decided(a)
\* More than four words are what the grammar says.
Grammatical(e) == LET a == Words(e, 3) IN Len(a) > 4 => testcmd(a, TRUE) = Value(e)
===============================================================================

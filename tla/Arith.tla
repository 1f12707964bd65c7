--------------------------------- MODULE Arith ---------------------------------
(***************************************************************************)
(* Arithmetic expansion: the scanner of arith_yylex.c, the parser of       *)
(* arith_yacc.c that computes while it parses, and, to compare them with,  *)
(* expressions as trees with the value that C gives them.                  *)
(*                                                                         *)
(* Definitions with a suffix, such as yylex_shift, are faulty variants of  *)
(* the definition that follows them.                                       *)
(***************************************************************************)
EXTENDS Integers, Sequences, TLC

CONSTANTS
  Width,    \* INTMAX_WIDTH
  Garbage   \* what a name is as a number, where its value is not needed

Wrap(i) == ((i + 2 ^ (Width - 1)) % (2 ^ Width)) - 2 ^ (Width - 1)

Number(c) == CHOOSE i \in 0 .. 9 : ToString(i) = c

----------------------------------------------------------------------------
(* Tokens.  A number or a name is one character; operators are up to three.*)

Single == {"(", ")", "~", "?", ":"}
Repeats == {">", "<"}         \* doubled they are an operator that = may follow
Pairs == {"|", "&"}           \* doubled they are an operator without =
Others == {"=", "!", "*", "/", "%", "+", "-", "^"}
OpChars == Single \cup Repeats \cup Pairs \cup Others

\* yylex of an operator: how many characters it takes of s, from i.
yylex_shift(s, i) ==
  LET next(k) == IF i + k <= Len(s) THEN s[i + k] ELSE "end"
      checkeq(k) == IF next(k) = "=" THEN k + 1 ELSE k
  IN CASE s[i] \in Single -> 1
       [] s[i] \in Repeats -> IF next(1) = s[i] THEN 2 ELSE checkeq(1)
       [] s[i] \in Pairs -> IF next(1) = s[i] THEN 2 ELSE checkeq(1)
       [] OTHER -> checkeq(1)
yylex(s, i) ==
  LET next(k) == IF i + k <= Len(s) THEN s[i + k] ELSE "end"
      checkeq(k) == IF next(k) = "=" THEN k + 1 ELSE k
  IN CASE s[i] \in Single -> 1
       [] s[i] \in Repeats -> IF next(1) = s[i] THEN checkeq(2) ELSE checkeq(1)
       [] s[i] \in Pairs -> IF next(1) = s[i] THEN 2 ELSE checkeq(1)
       [] OTHER -> checkeq(1)

Binary == {"*", "/", "%", "+", "-", "<<", ">>", "<", "<=", ">", ">=", "==", "!=", "&", "^", "|"}
Assigns == {"=", "*=", "/=", "%=", "+=", "-=", "<<=", ">>=", "&=", "^=", "|="}
Operators == Single \cup Binary \cup Assigns \cup {"!", "&&", "||"}
Prec(op) ==
  CASE op \in {"*", "/", "%"} -> 0 [] op \in {"+", "-"} -> 1 [] op \in {"<<", ">>"} -> 2
    [] op \in {"<", "<=", ">", ">="} -> 3 [] op \in {"==", "!="} -> 4
    [] op = "&" -> 5 [] op = "^" -> 6 [] op = "|" -> 7
Compound(op) ==
  CASE op = "*=" -> "*" [] op = "/=" -> "/" [] op = "%=" -> "%" [] op = "+=" -> "+" [] op = "-=" -> "-"
    [] op = "<<=" -> "<<" [] op = ">>=" -> ">>" [] op = "&=" -> "&" [] op = "^=" -> "^" [] op = "|=" -> "|"

\* The text of an operator, for the scanner.
Chars(op) ==
  CASE op \in OpChars -> <<op>> [] op = ">>" -> <<">", ">">> [] op = "<<" -> <<"<", "<">> [] op = "<=" -> <<"<", "=">>
    [] op = ">=" -> <<">", "=">> [] op = "==" -> <<"=", "=">> [] op = "!=" -> <<"!", "=">> [] op = "&&" -> <<"&", "&">>
    [] op = "||" -> <<"|", "|">> [] op = ">>=" -> <<">", ">", "=">> [] op = "<<=" -> <<"<", "<", "=">>
    [] OTHER -> <<Compound(op), "=">>

----------------------------------------------------------------------------
(* do_binop, on intmax_t and uintmax_t: Unsigned is the conversion.        *)

Unsigned(a) == a % (2 ^ Width)
Abs(a) == IF a < 0 THEN -a ELSE a
Quotient(a, b) == IF (a < 0) = (b < 0) THEN Abs(a) \div Abs(b) ELSE -(Abs(a) \div Abs(b))
Bit(a, i) == (Unsigned(a) \div (2 ^ i)) % 2
Bitwise(f(_, _), a, b) ==
  LET sum[i \in 0 .. Width] == IF i = 0 THEN 0 ELSE sum[i - 1] + f(Bit(a, i - 1), Bit(b, i - 1)) * 2 ^ (i - 1)
  IN Wrap(sum[Width])
Xor(p, q) == (p + q) % 2
Bool(p) == IF p THEN 1 ELSE 0

Error == 2 ^ Width

\* The least number divided by -1 is itself; by zero is an error.
Divided_trap(op, a, b) ==
  IF b = 0 THEN Error ELSE IF op = "/" THEN Quotient(a, b) ELSE a - b * Quotient(a, b)
Divided(op, a, b) ==
  IF b = 0 THEN Error
  ELSE IF b = -1 THEN (IF op = "/" THEN Wrap(-a) ELSE 0)
  ELSE IF op = "/" THEN Quotient(a, b) ELSE a - b * Quotient(a, b)
do_binop(op, a, b) ==
  LET neg == IF a < 0 THEN -1 ELSE 0
  IN CASE op \in {"/", "%"} -> Divided(op, a, b)
       [] op = "*" -> Wrap(a * b) [] op = "+" -> Wrap(a + b) [] op = "-" -> Wrap(a - b)
       [] op = "<<" -> IF Unsigned(b) >= Width THEN 0 ELSE Wrap(a * 2 ^ b)
       [] op = ">>" -> IF Unsigned(b) >= Width THEN neg
                       ELSE Bitwise(Xor, Unsigned(Bitwise(Xor, a, neg)) \div (2 ^ b), neg)
       [] op = "<" -> Bool(a < b) [] op = "<=" -> Bool(a <= b) [] op = ">" -> Bool(a > b) [] op = ">=" -> Bool(a >= b)
       [] op = "==" -> Bool(a = b) [] op = "!=" -> Bool(a # b)
       [] op = "&" -> Bitwise(LAMBDA p, q : p * q, a, b) [] op = "^" -> Bitwise(Xor, a, b)
       [] op = "|" -> Bitwise(LAMBDA p, q : p + q - p * q, a, b)

----------------------------------------------------------------------------
(* The parser.  Its state s is the text and where the scanner is, the last *)
(* token and yylval, last_token, the variables, the result of the function *)
(* that returned, and whether there was an error: after it, as after a     *)
(* longjmp, nothing is read and nothing is assigned.                       *)

Names == {"x", "y"}
Fail(s) == [s EXCEPT !.error = TRUE, !.i = Len(s.text) + 1, !.tok = "EOF", !.last = "EOF", !.res = 0]
Token(s, n) ==
  IF s.text[s.i] \in Names THEN "VAR" ELSE IF s.text[s.i] \in OpChars
  THEN CHOOSE op \in Operators : Chars(op) = SubSeq(s.text, s.i, s.i + n - 1) ELSE "NUM"
Lex(s) ==
  IF s.i > Len(s.text) THEN [s EXCEPT !.tok = "EOF"]
  ELSE LET n == IF s.text[s.i] \in OpChars THEN yylex(s.text, s.i) ELSE 1
           t == Token(s, n)
       IN [s EXCEPT !.i = @ + n, !.tok = t, !.yylval = CASE t = "NUM" -> Number(s.text[s.i]) [] t = "VAR" -> s.text[s.i] [] OTHER -> @]
Computed(s, op, a, b) ==
  LET v == do_binop(op, a, b) IN IF v = Error THEN Fail(s) ELSE [s EXCEPT !.res = v]

RECURSIVE primary(_, _, _, _, _), binop2(_, _, _, _, _), and(_, _, _, _, _), or(_, _, _, _, _),
          cond(_, _, _, _, _), assignment(_, _, _)

\* Functions that were called with the first token of their operand, its
\* yylval and the token after it, which is s.tok.
Call(f(_, _, _, _, _), s, noeval) == LET l == Lex(s) IN f(s.tok, s.yylval, l.tok, l, noeval)

primary(token, val, op, s, noeval) ==
  CASE token = "(" ->
         LET r == assignment(op, s, noeval)
             l == Lex(r)
         IN IF r.last # ")" THEN Fail(r) ELSE [l EXCEPT !.last = l.tok]
    [] token = "NUM" -> [s EXCEPT !.last = op, !.res = val]
    [] token = "VAR" -> [s EXCEPT !.last = op, !.res = IF noeval THEN Garbage ELSE s.env[val]]
    [] token = "+" -> Call(primary, s, noeval)
    [] token = "-" -> LET r == Call(primary, s, noeval) IN [r EXCEPT !.res = Wrap(-@)]
    [] token = "!" -> LET r == Call(primary, s, noeval) IN [r EXCEPT !.res = Bool(@ = 0)]
    [] token = "~" -> LET r == Call(primary, s, noeval) IN [r EXCEPT !.res = -1 - @]
    [] OTHER -> Fail(s)

\* The operators after a, op the first of them, that bind closer than prec.
binop2(a, op, prec, s, noeval) ==
  LET b == Call(primary, Lex(s), noeval)
      c == IF b.last \in Binary /\ Prec(b.last) < Prec(op) THEN binop2(b.res, b.last, Prec(op), b, noeval) ELSE b
      d == IF noeval THEN c ELSE Computed(c, op, a, c.res)
  IN IF d.last \notin Binary \/ Prec(d.last) >= prec THEN d ELSE binop2(d.res, d.last, prec, d, noeval)

binop(token, val, op, s, noeval) ==
  LET a == primary(token, val, op, s, noeval)
  IN IF a.last \in Binary THEN binop2(a.res, a.last, 8, a, noeval) ELSE a

and_evals(token, val, op, s, noeval) ==
  LET a == binop(token, val, op, s, noeval)
      b == Call(and, Lex(a), noeval)
  IN IF a.last # "&&" THEN a ELSE [b EXCEPT !.res = Bool(a.res # 0 /\ b.res # 0)]
and(token, val, op, s, noeval) ==
  LET a == binop(token, val, op, s, noeval)
      b == Call(and, Lex(a), noeval \/ a.res = 0)
  IN IF a.last # "&&" THEN a ELSE [b EXCEPT !.res = Bool(a.res # 0 /\ b.res # 0)]

or(token, val, op, s, noeval) ==
  LET a == and(token, val, op, s, noeval)
      b == Call(or, Lex(a), noeval \/ a.res # 0)
  IN IF a.last # "||" THEN a ELSE [b EXCEPT !.res = Bool(a.res # 0 \/ b.res # 0)]

cond(token, val, op, s, noeval) ==
  LET a == or(token, val, op, s, noeval)
      l == Lex(a)
      b == assignment(l.tok, l, noeval \/ a.res = 0)
      c == Call(cond, Lex(b), noeval \/ a.res # 0)
  IN IF a.last # "?" THEN a
     ELSE IF b.last # ":" THEN Fail(b)
     ELSE [c EXCEPT !.res = IF a.res # 0 THEN b.res ELSE c.res]

\* Assignments associate to the right; the old value is read last.
assignment(var, s, noeval) ==
  LET op == Lex(s)
      l == Lex(op)
      r == assignment(l.tok, l, noeval)
      v == IF op.tok = "=" THEN r ELSE Computed(r, Compound(op.tok), r.env[s.yylval], r.res)
  IN IF var # "VAR" \/ op.tok \notin Assigns THEN cond(var, s.yylval, op.tok, op, noeval)
     ELSE IF noeval THEN r
     ELSE IF v.error THEN v ELSE [v EXCEPT !.env[s.yylval] = v.res]

arith(text, env) ==
  LET l == Lex([text |-> text, i |-> 1, tok |-> "EOF", yylval |-> 0, last |-> "EOF", env |-> env, res |-> 0, error |-> FALSE])
      r == assignment(l.tok, l, FALSE)
  IN IF r.last # "EOF" THEN Fail(r) ELSE r

----------------------------------------------------------------------------
(* Expressions as trees: e.k is their operator; values as C defines them.  *)

\* Levels of binding, tightest first, as the manual of C lists them.
Level(e) ==
  CASE e.k \in {"num", "var"} -> 0 [] e.k = "unary" -> 1 [] e.k = "binary" -> 2 + Prec(e.op)
    [] e.k = "&&" -> 10 [] e.k = "||" -> 11 [] e.k = "?" -> 12 [] e.k = "assign" -> 13

RECURSIVE Text(_, _)
\* The text of e where an operator of level n may stand, with the parentheses
\* that are needed and no others.
Text(e, n) ==
  LET t == CASE e.k \in {"num", "var"} -> <<e.v>>
             [] e.k = "unary" -> <<e.op>> \o Text(e.a, 1)
             [] e.k = "binary" -> Text(e.a, Level(e)) \o Chars(e.op) \o Text(e.b, Level(e) - 1)
             [] e.k \in {"&&", "||"} -> Text(e.a, Level(e) - 1) \o Chars(e.k) \o Text(e.b, Level(e))
             [] e.k = "?" -> Text(e.a, 11) \o <<"?">> \o Text(e.b, 13) \o <<":">> \o Text(e.c, 12)
             [] e.k = "assign" -> <<e.v>> \o Chars(e.op) \o Text(e.a, 13)
  IN IF Level(e) > n THEN <<"(">> \o t \o <<")">> ELSE t

\* a op b, of the integers that the operands are.
Exact(op, a, b) ==
  CASE op = "/" -> CHOOSE q \in -(2 ^ Width) .. 2 ^ Width : Abs(a - q * b) < Abs(b) /\ (a - q * b) * a >= 0
    [] op = "%" -> CHOOSE r \in -(2 ^ Width) .. 2 ^ Width :
                     Abs(r) < Abs(b) /\ r * a >= 0 /\ \E q \in -(2 ^ Width) .. 2 ^ Width : a = q * b + r
    [] op = "<<" -> IF b \in 0 .. Width - 1 THEN a * 2 ^ b ELSE 0
    [] op = ">>" -> IF b \in 0 .. Width - 1 THEN a \div (2 ^ b) ELSE IF a < 0 THEN -1 ELSE 0
    [] OTHER -> do_binop(op, a, b)

RECURSIVE Value(_, _)
\* The value of e and the variables after it, or Error.
Value(e, env) ==
  LET a == Value(e.a, env)
      b == Value(e.b, a.env)
      is(v, r) == [v |-> v, env |-> r.env]
      Apply(op, v, w, r) ==
        IF op \in {"/", "%"} /\ w = 0 THEN [v |-> Error, env |-> r.env] ELSE is(Wrap(Exact(op, v, w)), r)
  IN CASE e.k = "num" -> [v |-> Number(e.v), env |-> env]
       [] e.k = "var" -> [v |-> env[e.v], env |-> env]
       [] OTHER ->
            IF a.v = Error THEN a
            ELSE CASE e.k = "unary" -> is(CASE e.op = "-" -> Wrap(-a.v) [] e.op = "+" -> a.v
                                            [] e.op = "!" -> Bool(a.v = 0) [] e.op = "~" -> Wrap(-1 - a.v), a)
                   [] e.k = "binary" -> IF b.v = Error THEN b ELSE Apply(e.op, a.v, b.v, b)
                   [] e.k = "&&" -> IF a.v = 0 THEN is(0, a) ELSE IF b.v = Error THEN b ELSE is(Bool(b.v # 0), b)
                   [] e.k = "||" -> IF a.v # 0 THEN is(1, a) ELSE IF b.v = Error THEN b ELSE is(Bool(b.v # 0), b)
                   [] e.k = "?" -> IF a.v # 0 THEN b ELSE Value(e.c, a.env)
                   [] e.k = "assign" ->
                        LET v == IF e.op = "=" THEN a ELSE Apply(Compound(e.op), a.env[e.v], a.v, a)
                        IN IF v.v = Error THEN v ELSE [v EXCEPT !.env[e.v] = v.v]

\* The parser finds the value of an expression in its text, and assigns what
\* the expression does: operands that are not needed assign nothing.
Computes(e, env) ==
  LET r == arith(Text(e, 13), env)
      v == Value(e, env)
  IN IF v.v = Error THEN r.error ELSE ~r.error /\ r.res = v.v /\ r.env = v.env

\* The scanner takes the longest operator that the text begins with.
Longest(s) ==
  LET n == yylex(s, 1)
      fits == {k \in 1 .. Len(s) : \E op \in Operators : Chars(op) = SubSeq(s, 1, k)}
  IN n \in fits /\ \A k \in fits : k <= n
===============================================================================

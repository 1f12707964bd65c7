------------------------------- MODULE MCAlgorithms -------------------------------
(***************************************************************************)
(* The parts of the shell that are functions of their input: each is put   *)
(* to its reference on the inputs of a bounded set.  A behavior takes one  *)
(* of the seeds of a part and then one input that has that seed; what must *)
(* hold is a property of that step.  One part is Eval, which runs lines.   *)
(***************************************************************************)
EXTENDS Integers, Sequences, FiniteSets

VARIABLES
  input,      \* <<part, seed>>, then <<part, seed, values>>
  shell, said \* of Eval, whose inputs are lines

NULL == <<"NULL">>
Ar == INSTANCE Arith WITH Width <- 4, Garbage <- 5
Te == INSTANCE Test
Di == INSTANCE Cd
Op == INSTANCE Options
Ex == INSTANCE Expand
Pa == INSTANCE Parser
Pr == INSTANCE MCPrograms WITH Fuel <- 9, Ticks <- 3
Ev == INSTANCE Eval WITH Fuel <- 9, Ticks <- 3, Programs <- Pr!Programs, Lines <- Pr!Lines

Upto(S, m, n) == UNION {[1 .. k -> S] : k \in m .. n}
Seed(part, S) == \E s \in S : input = <<part, s>>
At(part) == Len(input) = 2 /\ input[1] = part
Given(value) == input' = Append(input, value)
Input(part) == Len(input') = 3 /\ input'[1] = part

----------------------------------------------------------------------------
(* Arithmetic: numbers of four bits, expressions of up to three operators, *)
(* and all texts of three operator characters.                             *)

Of(k, S, T) == {[k |-> k, a |-> a, b |-> b] : a \in S, b \in T}
Bin(ops, S, T) == {[k |-> "binary", op |-> o, a |-> a, b |-> b] : o \in ops, a \in S, b \in T}
Un(ops, S) == {[k |-> "unary", op |-> o, a |-> a] : o \in ops, a \in S}
Cond(S, T, U) == {[k |-> "?", a |-> a, b |-> b, c |-> c] : a \in S, b \in T, c \in U}
Set(ops, S) == {[k |-> "assign", op |-> o, v |-> "x", a |-> a] : o \in ops, a \in S}
Num(d) == [k |-> "num", v |-> d]
X == [k |-> "var", v |-> "x"]
Y == [k |-> "var", v |-> "y"]
Atoms == {X, Y, Num("0"), Num("3")}
One == Un({"-", "!", "~", "+"}, Atoms) \cup Bin(Ar!Binary, {X}, Atoms) \cup Of("&&", Atoms, {Y}) \cup Of("||", Atoms, {Y})
  \cup Cond({X}, {Y}, Atoms) \cup Set(Ar!Assigns, {Y, Num("3")})
Few == Un({"-", "!"}, {X}) \cup Bin({"*", "-", "<<", "<", "!=", "&", "^", "|"}, {X}, {Y}) \cup Of("&&", {X}, {Y}) \cup Of("||", {X}, {Y})
  \cup Cond({X}, {Y}, {Num("3")}) \cup Set({"=", "-="}, {Y})
Two == Un({"-", "!", "~"}, One) \cup Bin(Ar!Binary, Few, {X}) \cup Bin(Ar!Binary, {Y}, Few)
  \cup Of("&&", Few, {X}) \cup Of("||", Few, {X}) \cup Of("&&", {Y}, Few) \cup Of("||", {Y}, Few)
  \cup Cond(Few, {X}, {Y}) \cup Cond({X}, Few, {Y}) \cup Cond({X}, {Y}, Few) \cup Set({"=", "/="}, Few)
Three == Bin({"-", "<<"}, {X}, Two) \cup Bin({"<"}, Two, {Y}) \cup Of("&&", {X}, Two) \cup Of("||", Two, {Y}) \cup Cond({X}, Two, {Y})
Variables == {[x |-> x, y |-> y] : x \in {-8, 3}, y \in {-1, 0, 2}}

Expressions == At("arith") /\ \E e \in One \cup Two \cup Three : Given(e)
Scanned == At("scan") /\ \E s \in Upto(Ar!OpChars, 0, 2) : Given(<<input[2]>> \o s)

\* $((...)) computes what C computes, with intmax_t that wraps, assignments made
\* as they are evaluated and the operand that is not chosen without effect; its
\* scanner takes the longest operator.
ArithmeticIsC ==
  [][(/\ Input("arith") => Ar!Computes(input'[3], input'[2])
      /\ Input("scan") => Ar!Longest(input'[3]))]_input

----------------------------------------------------------------------------
(* test: up to four words, and expressions of up to two levels.            *)

TestWords == {"", "a", "1", "2", "-n", "-e", "=", "-gt", "!", "-a", "(", ")"}
Is(w) == [k |-> "words", words |-> w]
Prim == {Is(w) : w \in {<<"">>, <<"a">>, <<"-n", "a">>, <<"-z", "b">>, <<"a", "=", "b">>, <<"1", "-gt", "2">>, <<"a", "-gt", "1">>}}
Not(S) == {[k |-> "not", a |-> a] : a \in S}
Simple == Prim \cup Not(Prim) \cup Of("or", Prim, Prim) \cup Of("and", Prim, Prim)

Words == At("test") /\ \E s \in Upto(TestWords, 0, 3) : Given(<<input[2]>> \o s)
Conditions == At("condition") /\ \E e \in Of(input[2], Simple, Simple) \cup Not(Simple) : Given(e)

----------------------------------------------------------------------------
(* cd: a tree with the directories /a and /a/a, a link /l to the second,   *)
(* and in it a link l to the root and a file; the same with /a/a removed   *)
(* and with /a renamed.                                                    *)

Tree(a, entries) ==
  [up |-> [root |-> "root", A |-> "root", B |-> "A"],
   link |-> [toB |-> <<"a", "/", "a">>, toRoot |-> <<"/">>],
   entry |-> [e \in DOMAIN entries \cup {<<"root", <<a>>>>, <<"root", <<"l">>>>} |->
                IF e = <<"root", <<a>>>> THEN "A" ELSE IF e = <<"root", <<"l">>>> THEN "toB" ELSE entries[e]]]
InA == [e \in {<<"A", <<"a">>>>} |-> "B"]
InB == [e \in {<<"A", <<"l">>>>, <<"B", <<"l">>>>} |-> IF e[1] = "A" THEN "toRoot" ELSE "file"]
All == [e \in DOMAIN InA \cup DOMAIN InB |-> IF e \in DOMAIN InA THEN InA[e] ELSE InB[e]]
FileSystems == {Tree("a", All), Tree("a", InB), Tree("b", All)}
Chars(s) == IF s = "" THEN <<>> ELSE CASE s = "/" -> <<"/">> [] s = "//" -> <<"/", "/">> [] s = "/a" -> <<"/", "a">>
  [] s = "//a" -> <<"/", "/", "a">> [] s = "/l" -> <<"/", "l">> [] s = "/a/a" -> <<"/", "a", "/", "a">> [] s = "/l/a" -> <<"/", "l", "/", "a">>
Pwds == {Chars(s) : s \in {"", "/", "//", "/a", "//a", "/l", "/a/a"}}
Shells == [cwd : {"root", "A", "B"}, pwd : Pwds, old : {Chars("/l")}, cdpath : {<<>>, <<Chars("/a"), <<>>>>, <<<<>>, Chars("/")>>}]
Paths == Upto({"/", ".", "a", "l"}, 1, 4)

Directories == At("cd") /\ \E sh \in Shells, path \in Paths \cup {<<"-">>}, physical \in BOOLEAN :
  /\ sh.cwd = input[2].cwd
  /\ Given([sh |-> sh, path |-> path, physical |-> physical])

\* cd goes where its operand and CDPATH say, by names or by what the links lead
\* to, and PWD and OLDPWD are true afterwards; or it fails and changes nothing;
\* also when the directory was renamed since.
CdIsRight ==
  [][(Input("cd") =>
        LET i == input'[3]
            fs == input'[2].fs
        IN /\ ~i.physical => Di!Goes(fs, i.sh, i.path)
           /\ Di!Chosen(fs, i.sh, i.path, i.physical))]_input

----------------------------------------------------------------------------
(* getopts and nextopt: up to three words of up to three characters, with  *)
(* and without a function that has a loop of its own.                      *)

OptWords == Upto({"-", "a", "b", "x"}, 1, 3)
Inner == {[n |-> 0, args |-> <<>>], [n |-> 1, args |-> <<<<"-", "a", "a">>>>],
          [n |-> 3, args |-> <<<<"-", "b">>, <<"a">>, <<"-", "x", "b">>>>]}
OptStrings == {<<"a", "b", ":">>, <<":", "a", "b", ":">>, <<":", "b">>, <<>>}

Arguments == At("options") /\ \E args \in [1 .. 1 -> OptWords] \cup [1 .. 2 -> OptWords], inner \in Inner :
  Given([args |-> args, inner |-> inner])
LongArguments == At("options") /\ \E v \in {w \in OptWords : Len(w) <= 2}, w \in {w \in OptWords : Len(w) <= 2}, u \in OptWords :
  Given([args |-> <<u, v, w>>, inner |-> [n |-> 0, args |-> <<>>]])

\* Words are read for what they are: test decides up to four of them by how many
\* they are, as POSIX has it, even if operands look like operators, and more by
\* the grammar in test.c; getopts finds all options and their arguments, also
\* when a function with a local OPTIND runs a loop of its own between two calls;
\* and nextopt finds the same.
ArgumentsAreRead ==
  [][(/\ Input("test") => Te!Right(input'[3])
      /\ Input("condition") => Te!Grammatical(input'[3])
      /\ Input("options") =>
           Op!Parses(input'[2], input'[3].args, input'[3].inner) /\ Op!Agrees(input'[2], input'[3].args))]_input

----------------------------------------------------------------------------
(* Patterns: up to three characters of all kinds, longer ones of * and ?,  *)
(* and longer brackets.                                                    *)

ESC == Ex!P!ESC
PatChars == {"a", "b", "*", "?", "[", "]", "-", "!", "\\", ESC}
Patterns == At("pattern") /\
  \/ \E pat \in {p \in {<<input[2]>> \o q : q \in Upto(PatChars, 0, 2)} :
                   p[Len(p)] # ESC /\ \A i \in 1 .. Len(p) - 1 : p[i] = ESC => p[i + 1] # ESC},
        str \in {<<>>, <<"a">>, <<"b", "a">>, <<"a", "-">>, <<"!">>, <<"]">>, <<"[", "a">>, <<"*">>, <<"\\", "a">>} :
       Given([pat |-> pat, str |-> str])
  \/ /\ input[2] \in {"a", "b", "*", "?"}
     /\ \E pat \in Upto({"a", "b", "*", "?"}, 3, 4), str \in Upto({"a", "b"}, 2, 4) :
          Given([pat |-> <<input[2]>> \o pat, str |-> str])
  \/ /\ input[2] = "["
     /\ \E pat \in Upto({"a", "c", "-", "]", "!", "\\"}, 3, 4), str \in [1 .. 1 -> {"b", "-", "]"}] :
          Given([pat |-> <<"[">> \o pat, str |-> str])

----------------------------------------------------------------------------
(* Expansion: words of two parts, or of a modifier and one more, and lines *)
(* for read.                                                               *)

Text(s) == [k |-> "text", s |-> s]
Quote(w) == [k |-> "quoted", w |-> w]
Param(name, op, colon, w) == [k |-> "param", name |-> name, op |-> op, colon |-> colon, w |-> w]
V(name) == Param(name, "", FALSE, <<>>)
Basic == {Text(<<"b">>), Text(<<" ">>), Quote(<<>>), Quote(<<Text(<<"a", " ", "b">>)>>), Quote(<<Text(<<"a">>), V("@")>>)}
  \cup {V(n) : n \in {"x", "y", "@", "*"}} \cup {Quote(<<V(n)>>) : n \in {"x", "@", "*"}}
Parts(wds, pats) ==
  {Param("x", op, c, w) : op \in {"-", "+", "="}, c \in BOOLEAN, w \in wds}
  \cup {Param("x", op, FALSE, w) : op \in Ex!Trims, w \in pats} \cup {Param("x", "length", FALSE, <<>>)}
Pats == {<<>>, <<Text(<<"*">>)>>, <<Text(<<"a", "*">>)>>, <<Text(<<":", "*">>)>>, <<Quote(<<Text(<<"*">>)>>)>>, <<Text(<<"b">>), Quote(<<Text(<<":">>)>>)>>}
Mods == Parts({<<Text(<<"a", ":", "b">>)>>, <<Quote(<<Text(<<"a", " ">>)>>), V("y")>>, <<Quote(<<V("y")>>), Quote(<<Text(<<"a", " ", "b">>)>>)>>,
               <<V("@")>>, <<Quote(<<V("@")>>)>>, <<V("y"), Text(<<":">>)>>}, Pats)
QuotedMods == {Quote(<<p>>) : p \in Parts({<<Text(<<"a", ":", "b">>)>>, <<Quote(<<Text(<<"a", " ">>)>>), V("y")>>, <<V("@")>>}, Pats)}
Few2 == {Text(<<"a">>), V("y"), Quote(<<V("@")>>)}
ExpWords == {<<v, w>> : v \in Basic, w \in Basic} \cup {<<m>> : m \in Mods \cup QuotedMods}
  \cup {<<m, v>> : m \in Mods, v \in Few2} \cup {<<v, m>> : v \in Few2, m \in Mods}
Envs == [vars : [x : {NULL, <<>>, <<" ", ":">>, <<" ", "b">>, <<"a", ":", "b">>, <<"a", " ">>}, y : {<<":">>, <<"a", " ", "b">>, <<>>}],
         params : {<<>>, <<<<>>>>, <<<<"a", " ">>, <<"b">>>>, <<<<"b">>, <<>>, <<":">>>>}, ifs : {NULL, <<>>, <<":">>, <<":", " ">>}]
Expansions == At("expand") /\ \E w \in ExpWords : Given(w)
Lines == At("read") /\ \E s \in Upto({"a", " ", ":", "\\", "\n"}, 1, 4), n \in 1 .. 3, rflag \in BOOLEAN, ifs \in SUBSET {" ", ":"} :
  Given([s |-> <<input[2]>> \o s, n |-> n, rflag |-> rflag, ifs |-> ifs])

\* A word becomes the fields that POSIX makes of it, whatever its quotes and
\* modifiers; a pattern matches what it means, for case and for the shortest and
\* the longest prefix and suffix; and read cuts a line into its variables.
ExpansionIsRight ==
  [][(/\ Input("expand") => Ex!Expands(input'[3], input'[2])
      /\ Input("pattern") => \A way \in Ex!P!Ways : Ex!P!Finds(input'[3].pat, input'[3].str, way)
      /\ Input("read") => Ex!Reads(input'[3].s, input'[3].rflag, input'[3].ifs, input'[3].n))]_input

\* "the remaining pieces (along with the characters in IFS that separated them)
\* are assigned to the last variable" (gwsh.1, read), quoted or not.
ReadKeepsAll ==
  [][(Input("read") => Ex!ReadAll(input'[3].s, input'[3].rflag, input'[3].ifs, input'[3].n))]_input

----------------------------------------------------------------------------
(* The parser: all texts of three tokens, and programs with one token put  *)
(* in anywhere and at most one taken out.                                  *)

Tokens == {"a", "x=1", "'if'", "eval", "!", "case", "do", "done", "elif", "else", "esac", "fi", "for", "if", "in", "then", "while", "{", "}",
  "nl", ";", "&", "&&", "|", "(", ")", ";;", ">", ">&", "<<"}
Programs == {
  <<"if", "a", ";", "then", "b", ";", "elif", "a", ";", "then", "b", "nl", "else", "a", ";", "fi">>,
  <<"while", "{", "a", "<<", "a", "&", "}", "do", "nl", "b", "nl", "done", ">", "f">>,
  <<"for", "x", "in", "a", "do", ";", "do", "f", "(", ")", "nl", "{", "a", "nl", "}", ";", "done", "&">>,
  <<"case", "a", "in", "a", "|", "b", ")", "b", ";;", "(", "esac", ")", "nl", ";&", "nl", "if", ")", "a", ";", "esac">>,
  <<"{", "a", "|", "b", "&", "}", "&", "(", "a", "&&", "b", ")", ">", "f", "&">>,
  <<"!", "a", "|", "nl", "b", "||", "nl", "x=1", "a", "&&", "!", "(", "a", ")">>,
  <<"a", "<<", "a", "&&", "nl", "if", "b", "<<", "a", "<<", "b", ";", "nl", "then", "a", "nl", "fi", "nl">>,
  <<"x=1", ">", "f", "a", "x=1", ">&", "1", "<<", "x", "nl">>,
  <<"for", "x", "in", "nl", "do", "a", "<<", "b", "nl", "done">>,
  <<"case", "a", "nl", "in", "nl", "esac", ">", "f", "<<", "a", "nl">>}
Without(s, q) == IF q = 0 THEN s ELSE SubSeq(s, 1, q - 1) \o SubSeq(s, q + 1, Len(s))
Edited == At("edit") /\ \E p \in 0 .. Len(input[2]), t \in Tokens, q \in 0 .. Len(input[2]) + 1 :
  Given(Without(SubSeq(input[2], 1, p) \o <<t>> \o SubSeq(input[2], p + 1, Len(input[2])), q))
Texts == At("text") /\ \E s \in Upto(Tokens, 0, 2) : Given(<<input[2]>> \o s)

\* The parser accepts what the grammar has, gives its tree and each here
\* document its own text, whatever is pushed back on the way.
ParserIsRight == [][(Input("edit") \/ Input("text") => Pa!Parses(input'[3]))]_input

----------------------------------------------------------------------------
(* Evaluation: one of the programs, and a second line.                     *)

Evaluation == At("program") /\ Ev!cmdloop /\ UNCHANGED input

\* With evalskip, skipcount and flags, eval.c runs the commands that the program
\* says, and no others, with its status; the shell stays for the next line
\* exactly when it should, and nothing is then left of the line that could make
\* the next one skip commands, or count loops or functions that it is not in.
EvaluationIsRight == At("program") => Ev!Evaluates /\ Ev!Clean

----------------------------------------------------------------------------

Seeds ==
  \/ Seed("arith", Variables) \/ Seed("scan", Ar!OpChars) \/ Seed("test", TestWords) \/ Seed("condition", {"and", "or"})
  \/ Seed("cd", [fs : FileSystems, cwd : {"root", "A", "B"}]) \/ Seed("options", OptStrings) \/ Seed("pattern", PatChars)
  \/ Seed("expand", Envs) \/ Seed("read", {"a", " ", ":", "\\", "\n"}) \/ Seed("edit", Programs) \/ Seed("text", Tokens)
Init ==
  \/ Seeds /\ shell = <<>> /\ said = <<>>
  \/ Seed("program", {"lines"}) /\ Ev!Init
Inputs ==
  \/ Expressions \/ Scanned \/ Words \/ Conditions \/ Directories \/ Arguments \/ LongArguments \/ Patterns
  \/ Expansions \/ Lines \/ Edited \/ Texts
Next == Evaluation \/ (Inputs /\ UNCHANGED <<shell, said>>)
Spec == Init /\ [][Next]_<<input, shell, said>>
===================================================================================

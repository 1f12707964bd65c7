--------------------------------- MODULE Input ---------------------------------
(***************************************************************************)
(* Reading commands: input.c, alias.c and the tokens of parser.c.          *)
(*                                                                         *)
(* A file is read in pieces, a line at a time is handed on.  The text of   *)
(* an alias is read in front of the rest of the line, and commands run     *)
(* between its lines: they may redefine or remove the alias that is being  *)
(* read, open further texts, or fail and leave them.                       *)
(*                                                                         *)
(* Definitions with a suffix, such as setalias_frees, are faulty variants  *)
(* of the definition that follows them.                                    *)
(***************************************************************************)
EXTENDS Integers, SequencesExt

CONSTANTS
  Names,    \* alias names, which are single letters
  Values,   \* the texts aliases are given
  Scripts,  \* what the file of commands may contain, "0" for a NUL
  Strings,  \* what eval and dot are given
  Cells,    \* bound: alias texts in memory at a time
  Chunk,    \* the most a read returns
  MaxCmd,   \* bound: commands that alias, unalias, eval or fail
  MaxFile   \* bound: texts open at a time

ASSUME InputAssumption ==
  /\ Cells \subseteq Nat \ {0} /\ Chunk \in Nat \ {0} /\ MaxCmd \in Nat /\ MaxFile \in Nat \ {0}
  /\ Names \cap {"z", " ", ";", "\\", "\n", "0", "EOF", "", "long", ";;"} = {}
  /\ Values \subseteq Seq(Names \cup {"z", " ", ";", "\\", "\n"})
  /\ Scripts \cup Strings \subseteq Seq(Names \cup {"z", " ", ";", "\\", "\n", "0"})

VARIABLES
  files,      \* the parsefiles, innermost last
  heap,       \* the texts of aliases, all "free" in memory that is free
  aliases,    \* atab: for each name its text and flags, text 0 when not in it
  aliasdone,  \* aliases whose text was read to the end, but are still in use
  phase,      \* where the parser is
  word,       \* the token being read: nothing, a letter, "long", or an operator
  kwd,        \* readtoken's kwd: at the start of a command, where an alias may be
  checkkwd,   \* whether popstring said so meanwhile
  tree,       \* whether parsecmd has read some command
  popped,     \* a string was popped within this call of pgetc
  read,       \* history: the last characters returned and not put back
  cmds        \* how many of MaxCmd were run

memory == <<heap, aliases, aliasdone>>
parser == <<phase, word, kwd, checkkwd, tree, cmds>>
vars == <<files, memory, parser, popped, read>>

----------------------------------------------------------------------------
(* Files and strings.  A position in a text is struct parsefilepush: what  *)
(* to read next, how much is left of it, and what was returned.  The text  *)
(* is an alias's, or with cell 0 the file's own buffer or string.          *)

At(cell, n) == [cell |-> cell, next |-> IF cell = 0 THEN 1 ELSE 2, left |-> n, lastc |-> <<"\n", "\n">>, unget |-> 0]
String(s) == [fd |-> FALSE, kernel |-> <<>>, buf |-> s, lleft |-> 0, nonul |-> FALSE, p |-> At(0, Len(s)), push |-> <<>>]
Script(s) == [String(<<>>) EXCEPT !.fd = TRUE, !.kernel = s]

File == Last(files)
SetFile(f) == [files EXCEPT ![Len(files)] = f]
Text(f, p) == IF p.cell = 0 THEN f.buf ELSE heap[p.cell]
NoNul(s) ==
  LET kept[i \in 0 .. Len(s)] ==
        IF i = 0 THEN <<>> ELSE IF s[i] = "0" THEN kept[i - 1] ELSE Append(kept[i - 1], s[i])
  IN kept[Len(s)]
Line(s) ==
  LET ends == {i \in DOMAIN s : s[i] = "\n"}
  IN SubSeq(s, 1, IF ends = {} THEN Len(s) ELSE Min(ends))

(* preadbuffer makes a line ready, or all there is, of the bytes of the    *)
(* buffer that were not looked at yet, or if there are none of what read   *)
(* returns.  Nothing but NULs: it reads again.                             *)
Ready(f, s, kernel) ==
  LET line == NoNul(Line(s))
      after == SubSeq(s, Len(Line(s)) + 1, Len(s))
  IN [f EXCEPT !.kernel = kernel, !.buf = line \o after, !.lleft = Len(after), !.nonul = FALSE,
               !.p.next = 1, !.p.left = Len(line)]
Refilled_rest(f, n) == Ready(f, SubSeq(f.kernel, 1, n), SubSeq(f.kernel, n + 1, Len(f.kernel)))
Refilled(f, n) ==
  IF f.lleft > 0 THEN Ready(f, SubSeq(f.buf, f.p.next, f.p.next + f.lleft - 1), f.kernel)
  ELSE Ready(f, SubSeq(f.kernel, 1, n), SubSeq(f.kernel, n + 1, Len(f.kernel)))

\* A file whose first line has a NUL is not a script.
Binary(f, n) == f.nonul /\ \E i \in DOMAIN Line(SubSeq(f.kernel, 1, n)) : f.kernel[i] = "0"

----------------------------------------------------------------------------
(* alias.c *)

None == [cell |-> 0, inuse |-> FALSE, dead |-> FALSE]
Defined == {n \in Names : aliases[n].cell # 0}
Freed(cs) == [c \in Cells |-> IF c \in cs THEN [i \in DOMAIN heap[c] |-> "free"] ELSE heap[c]]
FreeCells == {c \in Cells : heap[c][1] = "free"}

\* The text that is being read is left to popstring.
setalias_frees(n, v) ==
  LET new == Min(FreeCells)
      old == {aliases[n].cell}
  IN /\ FreeCells # {}
     /\ heap' = [Freed(old) EXCEPT ![new] = <<"=">> \o v]
     /\ aliases' = [aliases EXCEPT ![n].cell = new, ![n].dead = FALSE]
     /\ UNCHANGED aliasdone
setalias(n, v) ==
  LET new == Min(FreeCells)
      old == IF aliases[n].inuse THEN {} ELSE {aliases[n].cell}
  IN /\ FreeCells # {}
     /\ heap' = [Freed(old) EXCEPT ![new] = <<"=">> \o v]
     /\ aliases' = [aliases EXCEPT ![n].cell = new, ![n].dead = FALSE]
     /\ UNCHANGED aliasdone

\* unalias and unalias -a: aliases in use are removed once they no longer are.
freealias(ns) ==
  /\ heap' = Freed({aliases[n].cell : n \in {k \in ns : ~aliases[k].inuse}})
  /\ aliases' = [n \in Names |-> IF n \notin ns THEN aliases[n]
                                 ELSE IF aliases[n].inuse THEN [aliases[n] EXCEPT !.dead = TRUE]
                                 ELSE None]
  /\ UNCHANGED aliasdone

endaliasuse_dead ==
  /\ aliases' = [n \in Names |-> IF n \in aliasdone THEN [aliases[n] EXCEPT !.inuse = FALSE] ELSE aliases[n]]
  /\ aliasdone' = {}
  /\ UNCHANGED heap
endaliasuse ==
  LET dead == {n \in aliasdone : aliases[n].dead}
  IN /\ heap' = Freed({aliases[n].cell : n \in dead})
     /\ aliases' = [n \in Names |-> IF n \in dead THEN None
                                    ELSE IF n \in aliasdone THEN [aliases[n] EXCEPT !.inuse = FALSE]
                                    ELSE aliases[n]]
     /\ aliasdone' = {}

----------------------------------------------------------------------------
(* Strings pushed in front of the text, and taken away at their end. *)

pushstring(n) ==
  LET f == File
      cell == aliases[n].cell
  IN /\ files' = SetFile([f EXCEPT !.push = Append(@, [ap |-> n, string |-> cell, p |-> f.p]),
                                   !.p = [At(cell, Len(heap[cell]) - 1) EXCEPT !.lastc = f.p.lastc]])
     /\ aliases' = [aliases EXCEPT ![n].inuse = TRUE]
     /\ UNCHANGED <<heap, aliasdone>>

\* What popstring does with the aliases of some pushed strings.
Done_early(pushed) ==
  /\ heap' = Freed({sp.string : sp \in {sp \in pushed : sp.string # aliases[sp.ap].cell}})
  /\ aliases' = [n \in Names |-> IF \E sp \in pushed : sp.ap = n THEN [aliases[n] EXCEPT !.inuse = FALSE]
                                 ELSE aliases[n]]
  /\ aliasdone' = aliasdone \cup {sp.ap : sp \in pushed}
Done(pushed) ==
  /\ heap' = Freed({sp.string : sp \in {sp \in pushed : sp.string # aliases[sp.ap].cell}})
  /\ aliasdone' = aliasdone \cup {sp.ap : sp \in pushed}
  /\ UNCHANGED aliases

Wanting == phase \in {"start", "start\\", "semi", "semi\\", "word", "word\\", "escape", "skip"}
Exhausted == File.p.unget = 0 /\ File.p.left = 0

\* pgetc reaches the end of a string, and will call itself.
popstring ==
  /\ Wanting /\ Exhausted /\ File.push # <<>>
  /\ LET f == File
         sp == Last(f.push)
     IN /\ Done({sp})
        /\ files' = SetFile([f EXCEPT !.push = Front(@), !.p = sp.p])
        /\ checkkwd' = (checkkwd \/ f.p.lastc[1] = " ")
  /\ popped' = TRUE
  /\ UNCHANGED <<phase, word, kwd, tree, cmds, read>>

\* preadbuffer finds no string to pop: the buffer is filled.
preadbuffer ==
  LET f == File
  IN /\ Wanting /\ Exhausted /\ f.push = <<>> /\ f.fd
     /\ f.lleft > 0 \/ f.kernel # <<>>
     /\ \E n \in 1 .. (IF f.lleft > 0 THEN 1 ELSE Min({Chunk, Len(f.kernel)})) :
          \/ /\ ~Binary(f, n) /\ files' = SetFile(Refilled(f, n)) /\ UNCHANGED phase
          \/ /\ Binary(f, n) /\ phase' = "end" /\ UNCHANGED files
     /\ UNCHANGED <<memory, word, kwd, checkkwd, tree, cmds, popped, read>>

----------------------------------------------------------------------------
(* pgetc and pungetc. *)

\* Whoever called itself after popstring stores the character once more.
Stored(p, c) == [p EXCEPT !.lastc = <<c, IF popped THEN c ELSE p.lastc[1]>>]
Recent(s) == IF Len(s) > 2 THEN SubSeq(s, Len(s) - 1, Len(s)) ELSE s

\* What pgetc returns, and what it makes of the innermost file.
Got ==
  LET f == File
      p == f.p
  IN CASE p.unget > 0 ->
            [c |-> p.lastc[p.unget],
             f |-> [f EXCEPT !.p = [IF popped THEN Stored(p, p.lastc[p.unget]) ELSE p EXCEPT !.unget = @ - 1]]]
       [] p.unget = 0 /\ p.left > 0 ->
            LET c == Text(f, p)[p.next]
            IN [c |-> c, f |-> [f EXCEPT !.p = [Stored(p, c) EXCEPT !.next = @ + 1, !.left = @ - 1]]]
       [] OTHER -> [c |-> "EOF", f |-> [f EXCEPT !.p = Stored(p, "EOF")]]

AtEnd == Exhausted /\ File.push = <<>> /\ (File.fd => File.lleft = 0 /\ File.kernel = <<>>)
Pgetc(c) ==
  /\ Wanting /\ (~Exhausted \/ AtEnd)
  /\ c = Got.c /\ files' = SetFile(Got.f)
  /\ popped' = FALSE /\ read' = Recent(Append(read, c))

pungetc ==
  /\ files' = SetFile([File EXCEPT !.p.unget = @ + 1])
  /\ read' = Front(read)
  /\ UNCHANGED <<memory, popped>>

----------------------------------------------------------------------------
(* Tokens: xxreadtoken, readtoken1 and pgetc_eatbnl, which removes a       *)
(* backslash with its newline.  A phase with a backslash has seen one.     *)

Letters == Names \cup {"z"}
Delimiters == {" ", ";", "\n", "EOF"}
Backslash == [start |-> "start\\", semi |-> "semi\\", word |-> "word\\"]

start ==
  /\ phase = "start"
  /\ \/ Pgetc(" ") /\ endaliasuse /\ UNCHANGED <<phase, word>>
     \/ /\ \E c \in {"\n", "EOF"} : Pgetc(c) /\ word' = c
        /\ phase' = "token" /\ UNCHANGED memory
     \/ Pgetc(";") /\ phase' = "semi" /\ word' = ";" /\ UNCHANGED memory
     \/ \E c \in Letters : Pgetc(c) /\ phase' = "word" /\ word' = c /\ UNCHANGED memory
  /\ UNCHANGED <<kwd, checkkwd, tree, cmds>>

backslash ==
  /\ phase \in DOMAIN Backslash
  /\ Pgetc("\\") /\ phase' = Backslash[phase]
  /\ UNCHANGED <<memory, word, kwd, checkkwd, tree, cmds>>

pgetc_eatbnl ==
  /\ \E ph \in DOMAIN Backslash :
       /\ phase = Backslash[ph]
       /\ \E c \in Letters \cup Delimiters \cup {"\\"} :
            Pgetc(c) /\ phase' = IF c = "\n" THEN ph ELSE IF ph = "semi" THEN "unread two" ELSE "unread quoted"
  /\ UNCHANGED <<memory, word, kwd, checkkwd, tree, cmds>>

semi ==
  /\ phase = "semi"
  /\ \/ Pgetc(";") /\ phase' = "token" /\ word' = ";;"
     \/ \E c \in Letters \cup (Delimiters \ {";"}) : Pgetc(c) /\ phase' = "unread" /\ UNCHANGED word
  /\ UNCHANGED <<memory, kwd, checkkwd, tree, cmds>>

inword ==
  /\ \/ /\ phase = "word"
        /\ \/ \E c \in Letters : Pgetc(c) /\ word' = "long" /\ UNCHANGED phase
           \/ \E c \in Delimiters : Pgetc(c) /\ phase' = "unread" /\ UNCHANGED word
     \/ /\ phase = "escape" /\ word' = "long"
        /\ \E c \in Letters \cup Delimiters \cup {"\\"} :
             Pgetc(c) /\ phase' = IF c = "EOF" THEN "unread end" ELSE "word"
  /\ UNCHANGED <<memory, kwd, checkkwd, tree, cmds>>

Unread ==
  [ph \in {"unread", "unread two", "unread quoted", "unread end"} |->
     CASE ph = "unread" -> "token" [] ph = "unread two" -> "unread"
       [] ph = "unread quoted" -> "escape" [] ph = "unread end" -> "word"]
unread ==
  /\ phase \in DOMAIN Unread
  /\ pungetc /\ phase' = Unread[phase]
  /\ UNCHANGED <<word, kwd, checkkwd, tree, cmds>>

----------------------------------------------------------------------------
(* readtoken, and what parsecmd makes of the tokens. *)

lookupalias == (checkkwd \/ kwd) /\ word \in Defined /\ ~aliases[word].inuse

\* An alias without text leaves nothing of its name.
expand ==
  /\ phase = "token" /\ lookupalias
  /\ \/ Len(heap[aliases[word].cell]) > 1 /\ pushstring(word)
     \/ Len(heap[aliases[word].cell]) = 1 /\ UNCHANGED <<files, memory>>
  /\ phase' = "start" /\ word' = ""
  /\ UNCHANGED <<kwd, checkkwd, tree, cmds, popped, read>>

token ==
  /\ phase = "token" /\ ~lookupalias
  /\ endaliasuse /\ checkkwd' = FALSE /\ word' = ""
  /\ \/ word \in Letters \cup {"long"} /\ phase' = "start" /\ kwd' = FALSE /\ tree' = TRUE
     \/ word = ";" /\ ~kwd /\ phase' = "start" /\ kwd' = TRUE /\ tree' = tree
     \/ word \in {";", ";;"} /\ (kwd \/ word = ";;") /\ phase' = "skip" /\ UNCHANGED <<kwd, tree>>
     \/ /\ word \in {"\n", "EOF"} /\ kwd' = TRUE /\ tree' = FALSE
        /\ phase' = IF tree THEN "exec" ELSE IF word = "\n" THEN "start"
                    ELSE IF Len(files) > 1 THEN "return" ELSE "end"
  /\ UNCHANGED <<files, cmds, popped, read>>

\* A syntax error skips the line, wherever it ends.
skipline ==
  /\ phase = "skip"
  /\ \E c \in Letters \cup Delimiters \cup {"\\"} :
       Pgetc(c) /\ phase' = IF c \in {"\n", "EOF"} THEN "error" ELSE "skip"
  /\ UNCHANGED <<memory, word, kwd, checkkwd, tree, cmds>>

----------------------------------------------------------------------------
(* Commands run between the lines that are read, and files and strings     *)
(* that they open are read to their ends.                                  *)

Goon == phase' = "start" /\ UNCHANGED <<word, kwd, checkkwd, tree, popped>>
Pushed(fs) == UNION {{f.push[i] : i \in DOMAIN f.push} : f \in {fs[i] : i \in DOMAIN fs}}

\* popfile, unwindfiles and popallfiles: files are left, and their strings.
popfiles(keep) ==
  /\ files' = SubSeq(files, 1, keep)
  /\ Done(Pushed(SubSeq(files, keep + 1, Len(files))))
  /\ read' = IF keep < Len(files) THEN <<>> ELSE read

evalstring ==
  /\ phase = "return"
  /\ popfiles(Len(files) - 1) /\ Goon /\ UNCHANGED cmds

\* The interactive shell goes on after an error, with what it had read.
error ==
  /\ phase = "error"
  /\ popfiles(1)
  /\ phase' = "start" /\ kwd' = TRUE /\ tree' = FALSE /\ checkkwd' = FALSE
  /\ UNCHANGED <<word, popped, cmds>>

exec ==
  /\ phase = "exec"
  /\ \/ Goon /\ UNCHANGED <<files, memory, read, cmds>>
     \/ /\ cmds < MaxCmd /\ cmds' = cmds + 1
        /\ \/ /\ \/ \E n \in Names, v \in Values : setalias(n, v)
                 \/ \E n \in Defined : freealias({n})
                 \/ freealias(Defined)
              /\ Goon /\ UNCHANGED <<files, read>>
           \/ /\ Len(files) < MaxFile
              /\ \E s \in Strings : \E f \in {String(NoNul(s)), Script(s)} : files' = Append(files, f)
              /\ read' = <<>>
              /\ Goon /\ UNCHANGED memory
           \/ /\ phase' = "error"
              /\ UNCHANGED <<files, memory, read, word, kwd, checkkwd, tree, popped>>

Init ==
  /\ \E s \in Scripts : files = <<[Script(s) EXCEPT !.nonul = TRUE]>>
  /\ heap = [c \in Cells |-> <<"free">>]
  /\ aliases = [n \in Names |-> None]
  /\ aliasdone = {}
  /\ phase = "start" /\ word = "" /\ kwd = TRUE /\ checkkwd = FALSE /\ tree = FALSE
  /\ popped = FALSE /\ read = <<>> /\ cmds = 0

Next ==
  \/ popstring \/ preadbuffer
  \/ start \/ backslash \/ pgetc_eatbnl \/ semi \/ inword \/ unread
  \/ expand \/ token \/ skipline \/ evalstring \/ error \/ exec

\* Files end, so read returns and the shell goes on reading.
Spec == Init /\ [][Next]_vars /\ WF_vars(Next)

----------------------------------------------------------------------------
(* Properties *)

\* setalias, unalias and endaliasuse free neither a text that is still being
\* read nor an alias that a pushed string or aliasdone refers to.
Alive ==
  /\ \A sp \in Pushed(files) : heap[sp.string][1] # "free" /\ aliases[sp.ap].cell # 0
  /\ \A n \in aliasdone : aliases[n].cell # 0
  /\ \A n \in Defined : heap[aliases[n].cell][1] # "free"

\* An alias is in use as long as its text is being read or was left since the
\* last endaliasuse, and never longer: else it would not be expanded again,
\* and once removed it would stay.
Usable ==
  \A n \in Names :
    /\ aliases[n].inuse <=> n \in aliasdone \cup {sp.ap : sp \in Pushed(files)}
    /\ aliases[n].dead => aliases[n].inuse

\* What remains to be read of a text: characters put back, the rest of each
\* string, the rest of the buffer, and what was not read yet.
Back(c) == IF c = "EOF" THEN <<>> ELSE <<c>>
Left(text, p) ==
  (IF p.unget > 1 THEN Back(p.lastc[2]) ELSE <<>>) \o (IF p.unget > 0 THEN Back(p.lastc[1]) ELSE <<>>)
    \o SubSeq(text, p.next, p.next + p.left - 1)
InFront(parts, rest) ==
  LET all[i \in 0 .. Len(parts)] == IF i = 0 THEN rest ELSE parts[i] \o all[i - 1]
  IN all[Len(parts)]
Levels(f) == Append([i \in DOMAIN f.push |-> f.push[i].p], f.p)
Unseen(f) ==
  LET base == Levels(f)[1].next + Levels(f)[1].left
  IN SubSeq(f.buf, base, base + f.lleft - 1) \o f.kernel
Pending(f) ==
  InFront([i \in DOMAIN Levels(f) |-> Left(Text(f, Levels(f)[i]), Levels(f)[i])], NoNul(Unseen(f)))

\* Through refills, aliases, push back, errors and files that are left, every
\* character of a text is read once and in its order, with the text of an
\* alias in place of its name, and characters put back are read again.
Remaining == [i \in DOMAIN files |-> Pending(files[i])]
Contents == {NoNul(s) : s \in Values \cup Scripts \cup Strings}
S == INSTANCE Source WITH rest <- Remaining, Texts <- Contents
Reads == S!Spec

\* Aliases that name each other or themselves end: the script is read to its
\* end.
Ends == <>(phase = "end")
===============================================================================

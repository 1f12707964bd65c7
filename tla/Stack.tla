--------------------------------- MODULE Stack ---------------------------------
(***************************************************************************)
(* The memory stack, memalloc.c: blocks from malloc in a chain, the free   *)
(* rest of the innermost one, where a string is built that may have to     *)
(* move as it grows, and marks that its users set and return to.           *)
(*                                                                         *)
(* Memory is cells with what was last written there.  The users keep       *)
(* pointers: to what they allocated, to the string they build, and marks.  *)
(*                                                                         *)
(* Definitions with a suffix, such as setstackmark_bare, are faulty        *)
(* variants of the definition that follows them.                           *)
(***************************************************************************)
EXTENDS Integers, SequencesExt

CONSTANTS
  Blocks,      \* bound: blocks malloc can hand out at a time
  MINSIZE,     \* the least size of a block
  Align,       \* SHELL_ALIGN rounds up to multiples of it
  GrowMin,     \* what growstackblock adds to less than that (128)
  Sizes,       \* what is asked for at a time
  EmptyMarks,  \* whether pushstackmark(mark, 0) happens at the start of a block
  MaxTexts,    \* bound: allocations at a time
  MaxMarks,    \* bound: marks at a time
  MaxLength    \* bound: the length of a string

ASSUME StackAssumption ==
  /\ 0 \notin Blocks /\ Blocks \subseteq Nat
  /\ Align \in Nat \ {0} /\ MINSIZE \in Nat \ {0} /\ GrowMin \in Nat \ {0}
  /\ MINSIZE % Align = 0 /\ GrowMin % Align = 0
  /\ Sizes \subseteq Nat \ {0} /\ EmptyMarks \in BOOLEAN
  /\ MaxTexts \in Nat /\ MaxMarks \in Nat /\ MaxLength \in Nat

VARIABLES
  stack,  \* blocks in their chain, innermost (stackp) last, stacknxt in it,
          \* stacknleft, sstrend, and the cells of all blocks
  texts,  \* what users have allocated: block, offset, length
  marks,  \* stackmarks, with what their users remember besides
  length, \* of the string that is being built, at stacknxt
  wanted  \* characters that are about to be added to it

vars == <<stack, texts, marks, length, wanted>>

Base == 0
Junk == <<0, 0>>
Lost == <<Junk>>  \* read where there is no memory: no text has it
Cells(n) == [i \in 1 .. n |-> Junk]
Larger(m, n) == IF m > n THEN m ELSE n
SHELL_ALIGN(n) == ((n + Align - 1) \div Align) * Align

stackp(s) == Last(s.chain)
AtStart(s) == s.stacknxt = 0 /\ stackp(s) # Base
Free(s) == {b \in Blocks : s.mem[b] = <<>>}

\* What is read and written at an offset of a block.
Read(s, b, at, n) == IF at + n <= Len(s.mem[b]) THEN SubSeq(s.mem[b], at + 1, at + n) ELSE Lost
Write(s, b, at, cells) ==
  [s EXCEPT !.mem[b] = [i \in DOMAIN @ |-> IF i - at \in DOMAIN cells THEN cells[i - at] ELSE @[i]]]

----------------------------------------------------------------------------
(* memalloc.c.  b is the block that malloc or realloc returns.             *)

\* A block for n bytes is needed.
Overflows(s, n) == SHELL_ALIGN(n) > s.stacknleft
NewBlock(s, n, b) ==
  LET size == Larger(SHELL_ALIGN(n), MINSIZE)
  IN [mem |-> [s.mem EXCEPT ![b] = Cells(size)], chain |-> Append(s.chain, b),
      stacknxt |-> 0, stacknleft |-> size, sstrend |-> size]
Take(s, n) == [s EXCEPT !.stacknxt = @ + SHELL_ALIGN(n), !.stacknleft = @ - SHELL_ALIGN(n)]
stalloc(s, n, b) == Take(IF Overflows(s, n) THEN NewBlock(s, n, b) ELSE s, n)

\* Where malloc can put what stalloc needs.
Places(s, n) == IF Overflows(s, n) THEN Free(s) ELSE {stackp(s)}

stunalloc(s, at) == [s EXCEPT !.stacknleft = @ + s.stacknxt - at, !.stacknxt = at]

\* A stackmark; its user remembers how many texts there are before it, how many
\* with what is held, and how long that is.
Mark(s, kept, behind, held) ==
  [stackp |-> stackp(s), stacknxt |-> s.stacknxt, stacknleft |-> s.stacknleft,
   kept |-> kept, behind |-> behind, held |-> held]

\* Blocks are freed up to the mark's, which has to be among them.
popstackmark_keepend(s, mark) ==
  LET kept == SelectInSeq(s.chain, LAMBDA b : b = mark.stackp)
      freed == {s.chain[i] : i \in kept + 1 .. Len(s.chain)}
  IN [s EXCEPT !.chain = SubSeq(@, 1, kept),
               !.mem = [b \in DOMAIN @ |-> IF b \in freed THEN <<>> ELSE @[b]],
               !.stacknxt = mark.stacknxt, !.stacknleft = mark.stacknleft]
popstackmark(s, mark) ==
  [popstackmark_keepend(s, mark) EXCEPT !.sstrend = mark.stacknxt + mark.stacknleft]

\* A block that holds nothing but the string is made larger, and may move.
\* Elsewhere the string is copied to a new one.
newlen(s) == 2 * s.stacknleft + (IF 2 * s.stacknleft < GrowMin THEN GrowMin ELSE 0)
realloc(s, b) ==
  LET old == stackp(s)
      larger == s.mem[old] \o Cells(newlen(s) - Len(s.mem[old]))
  IN [mem |-> [s.mem EXCEPT ![old] = <<>>, ![b] = larger],
      chain |-> Append(Front(s.chain), b),
      stacknxt |-> 0, stacknleft |-> newlen(s), sstrend |-> newlen(s)]
Moved(s, b) ==
  LET taken == stalloc(s, newlen(s), b)
      to == taken.stacknxt - SHELL_ALIGN(newlen(s))
  IN Write([taken EXCEPT !.stacknxt = to, !.stacknleft = @ + newlen(s)], b, to,
           Read(s, stackp(s), s.stacknxt, s.stacknleft))
growstackblock(s, b) == IF AtStart(s) THEN realloc(s, b) ELSE Moved(s, b)

\* Where realloc or malloc can put it.
GrowPlaces(s) == IF AtStart(s) THEN Free(s) \cup {stackp(s)} ELSE Places(s, newlen(s))

----------------------------------------------------------------------------
(* Its users: memalloc.h, and the functions that allocate, build strings   *)
(* and set marks.  An exception pops an earlier mark; if it is an interrupt*)
(* that was held until an INTON of the functions above, they have finished.*)

\* Memory that nobody uses any more, behind the first n texts, may hold anything.
Cleared(s, n) ==
  [s EXCEPT !.mem =
     [b \in DOMAIN @ |-> [i \in DOMAIN @[b] |-> IF @[b][i][1] > n THEN Junk ELSE @[b][i]]]]

\* The k-th text, n characters of it: all characters can be told apart.
Text(k, n) == [i \in 1 .. n |-> <<k, i>>]
Mine == Len(texts) + 1
\* Without a chain popstackmark has followed a null pointer.
Running == stack.chain # <<>>
Idle == Running /\ wanted = 0
Adding == Running /\ wanted # 0
Bounded == Len(texts) < MaxTexts
Allocated(s, n) == [block |-> stackp(s), at |-> s.stacknxt - SHELL_ALIGN(n), n |-> n]

\* Something is allocated and written.
Allocate(n) ==
  /\ Idle /\ Bounded
  /\ \E b \in Places(stack, n) :
       LET s == stalloc(stack, n, b)
           p == Allocated(s, n)
       IN /\ stack' = Write(Cleared(s, Len(texts)), p.block, p.at, Text(Mine, n))
          /\ texts' = Append(texts, p)
  /\ length' = 0 /\ UNCHANGED <<marks, wanted>>

STARTSTACKSTR ==
  /\ Idle
  /\ length' = 0 /\ stack' = Cleared(stack, Len(texts)) /\ UNCHANGED <<texts, marks, wanted>>

\* STPUTC, or stnputs with makestrspace.  It grows the block as often as it
\* takes.  STPUTC compares with sstrend, and growstackstr takes the string to
\* have filled the block.
Room(n) ==
  IF n = 1 THEN stack.stacknxt + length # stack.sstrend ELSE stack.stacknleft - length >= n
stputs(n) ==
  /\ Idle /\ length + n <= MaxLength
  /\ wanted' = n /\ UNCHANGED <<stack, texts, marks, length>>
growstackstr ==
  /\ Adding /\ ~Room(wanted)
  /\ \E b \in GrowPlaces(stack) : stack' = growstackblock(stack, b)
  /\ length' = IF wanted = 1 THEN stack.stacknleft ELSE length
  /\ UNCHANGED <<texts, marks, wanted>>
Copy ==
  /\ Adding /\ Room(wanted)
  /\ stack' = Write(stack, stackp(stack), stack.stacknxt + length,
                    SubSeq(Text(Mine, length + wanted), length + 1, length + wanted))
  /\ length' = length + wanted /\ wanted' = 0 /\ UNCHANGED <<texts, marks>>

\* The string, with its terminator, is allocated; its user takes it to be where
\* it was built.
grabstackstr ==
  /\ Idle /\ Bounded /\ length > 0
  /\ \E b \in Places(stack, length) : stack' = stalloc(stack, length, b)
  /\ texts' = Append(texts, [block |-> stackp(stack), at |-> stack.stacknxt, n |-> length])
  /\ length' = 0 /\ UNCHANGED <<marks, wanted>>

\* stunalloc and ungrabstackstr: what was allocated last is given back.  Whoever
\* does it has popped its marks, so that it is in the block in use.
Unalloc ==
  /\ Idle /\ texts # <<>> /\ (marks # <<>> => Last(marks).behind < Len(texts))
  /\ Last(texts).block = stackp(stack)
  /\ stack' = Cleared(stunalloc(stack, Last(texts).at), Len(texts) - 1)
  /\ texts' = Front(texts) /\ length' = 0 /\ UNCHANGED <<marks, wanted>>

\* grabbed is what pushstackmark allocates behind the mark; its user may hold
\* (holds = 1) a text of held characters there.
pushstackmark(grabbed, holds, held) ==
  LET behind == Len(texts) + holds IN
  /\ Idle /\ Len(marks) < MaxMarks
  /\ marks' = Append(marks, Mark(stack, Len(texts), behind, held))
  /\ \E b \in Places(stack, grabbed) : stack' = Cleared(stalloc(stack, grabbed, b), behind)
  /\ length' = 0 /\ UNCHANGED wanted

setstackmark_bare == pushstackmark(0, 0, 0) /\ UNCHANGED texts
setstackmark == pushstackmark(IF AtStart(stack) THEN 1 ELSE 0, 0, 0) /\ UNCHANGED texts

\* The string so far (expbackq), or all that is left (setprompt), is kept while
\* others use the stack.
hold ==
  /\ Bounded
  /\ \E grabbed \in {length, stack.stacknleft} :
       /\ grabbed = 0 /\ AtStart(stack) => EmptyMarks
       /\ pushstackmark(grabbed, 1, length)
  /\ texts' = Append(texts, [block |-> stackp(stack), at |-> stack.stacknxt, n |-> length])

\* A function returns, or an exception leaves it for a handler that pops an
\* earlier mark.
Pop(k) ==
  /\ Running
  /\ LET used == marks[k].kept + (IF marks[k].held > 0 THEN 1 ELSE 0)
     IN stack' = Cleared(popstackmark(stack, marks[k]), used)
  /\ texts' = SubSeq(texts, 1, marks[k].kept)
  /\ length' = marks[k].held /\ wanted' = 0
  /\ marks' = SubSeq(marks, 1, k - 1)

Init ==
  /\ stack = [mem |-> [b \in Blocks \cup {Base} |-> IF b = Base THEN Cells(MINSIZE) ELSE <<>>],
              chain |-> <<Base>>, stacknxt |-> 0, stacknleft |-> MINSIZE, sstrend |-> MINSIZE]
  /\ texts = <<>> /\ marks = <<>> /\ length = 0 /\ wanted = 0

Next ==
  \/ \E n \in Sizes : Allocate(n) \/ stputs(n)
  \/ STARTSTACKSTR \/ growstackstr \/ Copy \/ grabstackstr
  \/ Unalloc \/ setstackmark \/ hold
  \/ \E k \in DOMAIN marks : Pop(k)
Spec == Init /\ [][Next]_vars
----------------------------------------------------------------------------
(* Properties. *)

\* What is found where a user wrote n characters.
Kept(b, at, n) == IF Running THEN Read(stack, b, at, n) ELSE Lost
Stored == [i \in DOMAIN texts |-> Kept(texts[i].block, texts[i].at, texts[i].n)]
Building == Kept(stackp(stack), stack.stacknxt, length)
Marked ==
  [k \in DOMAIN marks |->
     [kept |-> marks[k].kept, behind |-> marks[k].behind,
      building |-> Kept(marks[k].stackp, marks[k].stacknxt, marks[k].held)]]
Memory == INSTANCE Store WITH texts <- Stored, building <- Building, marks <- Marked

\* Whatever grows, moves and is popped, every user finds the text it wrote: what
\* it allocated, what it is building, and, after a mark is popped, what it was
\* building when it set the mark.  growstackblock gives memory back to malloc, so
\* no pointer of a mark or an allocation may be into the block that it moves.
Remembers == Memory!Spec
===============================================================================

----------------------------- MODULE TrapProofs -----------------------------
(***************************************************************************)
(* Theorems about Trap, for every set of signals and every nesting of      *)
(* subshells and dotraps.                                                  *)
(***************************************************************************)
EXTENDS Trap, FiniteSetTheorems, SequenceTheorems, WellFoundedInduction, TLAPS

(* Facts about the operators.                                              *)

\* Every non-empty set of naturals has a least element.
LEMMA LeastNat ==
  ASSUME NEW S \in SUBSET Nat, S # {}
  PROVE  \E s \in S : \A r \in S : s <= r
<1> DEFINE R == {ss \in Nat \X Nat : ss[1] < ss[2]}
<1>1. IsWellFoundedOn(R, Nat)
  BY NatLessThanWellFounded, Zenon DEF OpToRel
<1> HIDE DEF R
<1>2. PICK x \in S : \A y \in S : ~(<<y, x>> \in R)
  BY <1>1, WFMin, Zenon
<1>3. \A y \in S : ~(y < x)
  BY <1>2 DEF R
<1> QED BY <1>3

\* dotrap's loop finds the lowest flagged signal.
LEMMA LowestFlagged ==
  ASSUME TypeOK, Flagged # {}
  PROVE  /\ Lowest(Flagged) \in Signals
         /\ Lowest(Flagged) \in gotsig
         /\ Lowest(Flagged) >= Top.i
         /\ \A r \in Flagged : Lowest(Flagged) <= r
<1>0. \A s \in Signals : s \in Nat
  BY TrapAssumption DEF Signals
<1>1. Flagged \in SUBSET Nat
  BY <1>0 DEF TypeOK, Flagged
<1>2. \E s \in Flagged : \A r \in Flagged : s <= r
  BY <1>1, LeastNat
<1>3. Lowest(Flagged) \in Flagged /\ \A r \in Flagged : Lowest(Flagged) <= r
  BY <1>2, Zenon DEF Lowest
<1> QED BY <1>3 DEF Flagged, TypeOK

\* setsignal stores a mode for every signal.
LEMMA SetsignalType ==
  ASSUME NEW S, NEW t, NEW cnt, NEW i, NEW m, NEW sub,
         NEW sm \in [Signals -> Modes]
  PROVE  setsignal(S, t, cnt, i, m, sub, sm) \in [Signals -> Modes]
BY DEF setsignal, Wanted, Modes

\* ignoresig stores a mode for every signal of S.
LEMMA IgnoresigType ==
  ASSUME NEW S, NEW sm \in [Signals -> Modes]
  PROVE  ignoresig(S, sm) \in [Signals -> Modes]
BY DEF ignoresig, Modes

\* A sequence without its last element.
LEMMA FrontProperties ==
  ASSUME NEW S, NEW q \in Seq(S), q # <<>>
  PROVE  /\ Len(q) \in Nat \ {0}
         /\ SubSeq(q, 1, Len(q) - 1) \in Seq(S)
         /\ Len(SubSeq(q, 1, Len(q) - 1)) = Len(q) - 1
         /\ \A k \in 1 .. Len(q) - 1 : SubSeq(q, 1, Len(q) - 1)[k] = q[k]
<1>1. Len(q) \in Nat \ {0}
  BY EmptySeq
<1>2. SubSeq(q, 1, Len(q) - 1) \in Seq(S)
  BY SMT
<1>3. \A k \in 1 .. Len(q) - 1 : q[k] \in S
  BY <1>1, ElementOfSeq
<1> DEFINE n == Len(q) - 1
           r == SubSeq(q, 1, n)
<1>4. n \in Nat /\ 1 \in Int
  BY <1>1
<1>5. /\ Len(r) = IF 1 <= n THEN n - 1 + 1 ELSE 0
      /\ \A k \in 1 .. n - 1 + 1 : r[k] = q[1 + k - 1]
  BY <1>3, <1>4, SubSeqProperties
<1> HIDE DEF n, r
<1>6. n - 1 + 1 = n /\ \A k \in 1 .. n : 1 + k - 1 = k
  BY <1>4
<1>7. Len(r) = n /\ \A k \in 1 .. n : r[k] = q[k]
  BY <1>4, <1>5, <1>6
<1> QED BY <1>1, <1>2, <1>7 DEF n, r

\* The frames of stack.
LEMMA TopFrame ==
  ASSUME TypeOK, stack # <<>>
  PROVE  /\ Len(stack) \in Nat \ {0}
         /\ Top \in Frames
         /\ Top.saved \in Status \cup {-1} /\ Top.entry \in Status
         /\ Pop \in Seq(Frames)
         /\ Len(Pop) = Len(stack) - 1
         /\ \A k \in 1 .. Len(Pop) : Pop[k] = stack[k]
<1>1. stack \in Seq(Frames)
  BY DEF TypeOK
<1>2. Top \in Frames
  BY <1>1, FrontProperties, ElementOfSeq DEF Top
<1> QED BY <1>1, <1>2, FrontProperties DEF Frames, Pop

\* A frame that is pushed is the last one, and the others stay.
LEMMA PushFrame ==
  ASSUME TypeOK, NEW f \in Frames
  PROVE  /\ Append(stack, f) \in Seq(Frames)
         /\ Append(stack, f) # <<>>
         /\ Len(Append(stack, f)) = Len(stack) + 1
         /\ Append(stack, f)[Len(stack) + 1] = f
         /\ \A k \in 1 .. Len(stack) : Append(stack, f)[k] = stack[k]
BY AppendProperties DEF TypeOK
-----------------------------------------------------------------------------
(* The frames of stack: each keeps the savestatus that was in force below   *)
(* it, and an EXIT action starts with the status the shell exits with.      *)

Chain(q, sv) ==
  /\ q # <<>> => sv = q[Len(q)].entry
  /\ \A k \in 1 .. Len(q) - 1 : q[k + 1].saved = q[k].entry
  /\ \A k \in 1 .. Len(q) :
       /\ q[k].at = "exit" => q[k].saved \in Status
       /\ q[k].at = "EXIT" => q[k].saved = q[k].entry

\* Without an activation there is nothing to agree with.
LEMMA ChainEmpty == \A sv : Chain(<<>>, sv)
BY SMT DEF Chain

\* dotrap or exitshell starts an activation.
LEMMA ChainPush ==
  ASSUME NEW q \in Seq(Frames), NEW sv, Chain(q, sv), NEW f \in Frames,
         f.saved = sv,
         f.at = "exit" => sv \in Status, f.at = "EXIT" => f.entry = sv
  PROVE  /\ Append(q, f) \in Seq(Frames)
         /\ Append(q, f) # <<>>
         /\ Chain(Append(q, f), f.entry)
<1> DEFINE r == Append(q, f)
<1>1. /\ r \in Seq(Frames) /\ r # <<>> /\ Len(r) = Len(q) + 1
      /\ r[Len(q) + 1] = f
      /\ \A k \in 1 .. Len(q) : r[k] = q[k]
  BY AppendProperties
<1>2. Len(q) \in Nat /\ (q = <<>> <=> Len(q) = 0)
  BY EmptySeq
<1> HIDE DEF r
<1>3. ASSUME NEW k \in 1 .. Len(q)
      PROVE  r[k + 1].saved = r[k].entry
  <2>1. CASE k = Len(q)
    BY <1>1, <1>2, <2>1 DEF Chain
  <2>2. CASE k # Len(q)
    <3>1. k \in 1 .. Len(q) - 1 /\ k + 1 \in 1 .. Len(q)
      BY <1>2, <2>2
    <3> QED BY <1>1, <3>1 DEF Chain
  <2> QED BY <2>1, <2>2
<1>4. ASSUME NEW k \in 1 .. Len(q) + 1
      PROVE  /\ r[k].at = "exit" => r[k].saved \in Status
             /\ r[k].at = "EXIT" => r[k].saved = r[k].entry
  <2>1. CASE k = Len(q) + 1
    BY <1>1, <2>1
  <2>2. CASE k # Len(q) + 1
    <3>1. k \in 1 .. Len(q)
      BY <1>2, <2>2
    <3> QED BY <1>1, <3>1 DEF Chain
  <2> QED BY <2>1, <2>2
<1>5. Chain(r, f.entry)
  <2>1. r # <<>> => f.entry = r[Len(r)].entry
    BY <1>1
  <2>2. Len(r) - 1 = Len(q)
    BY <1>1, <1>2
  <2> QED BY <1>1, <1>3, <1>4, <2>1, <2>2 DEF Chain
<1> QED BY <1>1, <1>5 DEF r

\* An activation ends.
LEMMA ChainPop ==
  ASSUME NEW q \in Seq(Frames), NEW sv, Chain(q, sv), q # <<>>
  PROVE  Chain(SubSeq(q, 1, Len(q) - 1), q[Len(q)].saved)
<1> DEFINE r == SubSeq(q, 1, Len(q) - 1)
<1>1. /\ Len(q) \in Nat \ {0} /\ r \in Seq(Frames)
      /\ Len(r) = Len(q) - 1
      /\ \A k \in 1 .. Len(q) - 1 : r[k] = q[k]
  BY FrontProperties
<1> HIDE DEF r
<1>2. r # <<>> => q[Len(q)].saved = r[Len(r)].entry
  <2>1. SUFFICES ASSUME r # <<>>
                 PROVE  q[Len(q)].saved = r[Len(r)].entry
    OBVIOUS
  <2>2. Len(r) # 0
    BY <1>1, <2>1, EmptySeq
  <2>3. Len(r) \in 1 .. Len(q) - 1 /\ Len(r) + 1 = Len(q)
    BY <1>1, <2>2
  <2> QED BY <1>1, <2>3 DEF Chain
<1>3. ASSUME NEW k \in 1 .. Len(r) - 1
      PROVE  r[k + 1].saved = r[k].entry
  <2>1. k \in 1 .. Len(q) - 1 /\ k + 1 \in 1 .. Len(q) - 1
    BY <1>1
  <2> QED BY <1>1, <2>1 DEF Chain
<1>4. ASSUME NEW k \in 1 .. Len(r)
      PROVE  /\ r[k].at = "exit" => r[k].saved \in Status
             /\ r[k].at = "EXIT" => r[k].saved = r[k].entry
  <2>1. k \in 1 .. Len(q) - 1 /\ k \in 1 .. Len(q)
    BY <1>1
  <2> QED BY <1>1, <2>1 DEF Chain
<1> QED BY <1>2, <1>3, <1>4 DEF Chain, r

\* The loop of dotrap advances.
LEMMA ChainAdvance ==
  ASSUME NEW q \in Seq(Frames), NEW sv, Chain(q, sv), q # <<>>,
         NEW f \in Frames, f.at = q[Len(q)].at,
         f.saved = q[Len(q)].saved, f.entry = q[Len(q)].entry
  PROVE  /\ [q EXCEPT ![Len(q)] = f] \in Seq(Frames)
         /\ [q EXCEPT ![Len(q)] = f] # <<>>
         /\ Chain([q EXCEPT ![Len(q)] = f], sv)
<1> DEFINE r == [q EXCEPT ![Len(q)] = f]
<1>1. Len(q) \in Nat \ {0}
  BY FrontProperties
<1>2. /\ r \in Seq(Frames) /\ Len(r) = Len(q)
      /\ \A k \in 1 .. Len(q) : r[k] = IF k = Len(q) THEN f ELSE q[k]
  BY <1>1, ExceptSeq
<1> HIDE DEF r
<1>3. r # <<>>
  BY <1>1, <1>2, EmptySeq
<1>4. \A k \in 1 .. Len(q) : /\ r[k].at = q[k].at /\ r[k].saved = q[k].saved
                             /\ r[k].entry = q[k].entry
  BY <1>2
<1>5. Chain(r, sv)
  <2>1. sv = r[Len(r)].entry
    BY <1>1, <1>2, <1>4 DEF Chain
  <2>2. ASSUME NEW k \in 1 .. Len(q) - 1
        PROVE  r[k + 1].saved = r[k].entry
    <3>1. k \in 1 .. Len(q) /\ k + 1 \in 1 .. Len(q)
      BY <1>1
    <3> QED BY <1>4, <3>1 DEF Chain
  <2> QED BY <1>2, <1>4, <2>1, <2>2 DEF Chain
<1> QED BY <1>2, <1>3, <1>5 DEF r
-----------------------------------------------------------------------------
(* Type correctness and the statuses dotrap saves.  TypeOK alone is not     *)
(* inductive: dotrap stores savestatus, which may be -1, in exitstatus, and *)
(* only the chain of activations says that it is a status then.             *)

PcInv ==
  /\ pc = "loop" => /\ stack # <<>>
                    /\ exitstatus = savestatus \/ evalskip = "funcr"
  /\ pc \in {"exit", "exittrap"} => savestatus \in Status

TInv == TypeOK /\ Chain(stack, savestatus) /\ PcInv

\* An exception leaves no activation behind.
LEMMA RaiseType ==
  ASSUME TypeOK, NEW st \in Status, Raise(st)
  PROVE  /\ exitstatus' \in Status /\ savestatus' \in Status \cup {-1}
         /\ evalskip' \in Skips /\ handler' \in {"main", "loc"}
         /\ intoff' \in BOOLEAN /\ stack' = <<>> /\ pc' \in Points
         /\ PcInv'
BY DEF TypeOK, Raise, ExitWith, Points, Skips, PcInv

\* An exception that reaches main leaves a state of its type, without
\* activations.
LEMMA ExitWithType ==
  ASSUME TypeOK, NEW st \in Status, ExitWith(st)
  PROVE  /\ exitstatus' \in Status /\ savestatus' \in Status \cup {-1}
         /\ evalskip' \in Skips /\ handler' \in {"main", "loc"}
         /\ stack' = <<>> /\ pc' \in Points
         /\ PcInv'
BY DEF TypeOK, ExitWith, Points, Skips, PcInv

\* onint, which raises EXINT, keeps types and the chain of saved statuses.
LEMMA OnintType ==
  ASSUME TInv, onint
  PROVE  /\ exitstatus' \in Status /\ savestatus' \in Status \cup {-1}
         /\ evalskip' \in Skips /\ handler' \in {"main", "loc"}
         /\ intoff' \in BOOLEAN /\ intpending' \in BOOLEAN
         /\ stack' \in Seq(Frames) /\ targ' \in Texts /\ pc' \in Points
         /\ Chain(stack', savestatus') /\ PcInv'
<1>1. CASE iflag
  <2>1. Raise(1) /\ intpending' = FALSE /\ targ' = "null"
    BY <1>1 DEF onint
  <2>2. 1 \in Status
    BY DEF Status
  <2>3. <<>> \in Seq(Frames) /\ "null" \in Texts
    BY DEF Texts
  <2> QED BY <2>1, <2>2, <2>3, RaiseType, ChainEmpty DEF TInv
<1>2. CASE ~iflag
  BY <1>2 DEF onint, TInv, TypeOK, Points, Texts, PcInv
<1> QED BY <1>1, <1>2

\* So does the end of an action, where dotrap restores savestatus.
LEMMA FinishType ==
  ASSUME TInv, NEW st \in Status, NEW skip \in Skips, Finish(st, skip)
  PROVE  /\ exitstatus' \in Status /\ savestatus' \in Status \cup {-1}
         /\ evalskip' \in Skips /\ handler' \in {"main", "loc"}
         /\ intoff' \in BOOLEAN /\ intpending' \in BOOLEAN
         /\ stack' \in Seq(Frames) /\ targ' \in Texts /\ pc' \in Points
         /\ Chain(stack', savestatus') /\ PcInv'
<1>1. CASE intpending
  BY <1>1, OnintType DEF Finish
<1>2. CASE ~intpending
  BY <1>2 DEF Finish, TInv, TypeOK, Points, Texts, PcInv
<1> QED BY <1>1, <1>2

\* A call of dotrap, from any place but exitshell's EXIT action, keeps the
\* invariant: it returns at once or starts an activation.
LEMMA DotrapEnterType ==
  ASSUME TInv, NEW at \in Places \ {"EXIT"}, NEW cont \in Points \ {"loop", "exit"},
         cont = "exittrap" \/ at = "exit" => savestatus \in Status,
         DotrapEnter(at, cont)
  PROVE  TInv'
<1>1. CASE pending_sig = 0
  BY <1>1 DEF DotrapEnter, TInv, TypeOK, PcInv, trapVars, modeVars, excVars
<1>2. CASE pending_sig # 0
  <2> DEFINE f == [at |-> at, i |-> 1, saved |-> savestatus,
                   entry |-> exitstatus]
  <2>1. f \in Frames
    BY DEF TInv, TypeOK, Frames
  <2>2. stack' = Append(stack, f)
    BY <1>2 DEF DotrapEnter
  <2>3. f.at = at /\ f.saved = savestatus /\ f.entry = exitstatus
    OBVIOUS
  <2> HIDE DEF f
  <2>4. stack' \in Seq(Frames) /\ stack' # <<>> /\ Chain(stack', exitstatus)
    BY <2>1, <2>2, <2>3, ChainPush DEF TInv, TypeOK
  <2>5. 0 \in 0 .. (NSIG - 1)
    BY TrapAssumption
  <2> QED
    BY <1>2, <2>4, <2>5 DEF DotrapEnter, TInv, TypeOK, PcInv, trapVars, modeVars,
       excVars, Points
<1> QED BY <1>1, <1>2

\* Clearing traps keeps the table a table.
LEMMA ClearedType ==
  ASSUME TypeOK
  PROVE  /\ ClearedTrap \in [Conditions -> Texts]
         /\ ClearedCnt \in Int
         /\ \A i, m : \A sm \in [Signals -> Modes] :
              /\ ClearedModes(i, m, sm) \in [Signals -> Modes]
              /\ optschanged(trap, trapcnt, i, m, sm) \in [Signals -> Modes]
<1>1. ClearedTrap \in [Conditions -> Texts]
  BY DEF TypeOK, ClearedTrap, Texts
<1>2. ClearedCnt \in Int
  BY DEF ClearedCnt
<1>3. ASSUME NEW i, NEW m, NEW sm \in [Signals -> Modes]
      PROVE  /\ ClearedModes(i, m, sm) \in [Signals -> Modes]
             /\ optschanged(trap, trapcnt, i, m, sm) \in [Signals -> Modes]
  BY SetsignalType DEF ClearedModes, optschanged
<1> QED BY <1>1, <1>2, <1>3

\* The invariant holds when the shell starts: there is no activation, and
\* exitstatus is a status.
THEOREM InitTInv == Init => TInv
<1> SUFFICES ASSUME Init PROVE TInv
  OBVIOUS
<1>1. 0 \in 0 .. (NSIG - 1) /\ gotsig \subseteq Signals
  BY TrapAssumption DEF Init
<1>2. trap \in [Conditions -> Texts] /\ targ \in Texts
  BY DEF Init, Texts
<1>3. sigmode \in [Signals -> Modes]
  BY DEF Init, Modes
<1>4. stack \in Seq(Frames)
  BY DEF Init
<1>5. /\ trapcnt \in Int /\ pending_sig = 0 /\ level \in Nat
      /\ evalskip \in Skips /\ exitstatus \in Status
      /\ handler \in {"main", "loc"} /\ pc \in Points
  BY DEF Init, Skips, Status, Points
<1>9. savestatus \in Status \cup {-1}
  BY Zenon DEF Init
<1>8. /\ iflag \in BOOLEAN /\ mflag \in BOOLEAN
      /\ intoff \in BOOLEAN /\ intpending \in BOOLEAN
  BY TrapAssumption, Zenon DEF Init
<1>6. Chain(stack, savestatus)
  BY ChainEmpty DEF Init
<1>7. PcInv
  BY DEF Init, PcInv
<1> QED BY <1>1, <1>2, <1>3, <1>4, <1>5, <1>6, <1>7, <1>8, <1>9
        DEF TInv, TypeOK

\* The steps of dotrap keep the invariant: what it pops restores the
\* savestatus that it saved.
LEMMA DotrapType == TInv /\ Dotrap => TInv'
<1> SUFFICES ASSUME TInv, Dotrap PROVE TInv'
  OBVIOUS
<1>1. CASE DotrapRun
  <2>1. stack # <<>>
    BY <1>1 DEF DotrapRun, TInv, PcInv
  <2> DEFINE s == Lowest(Flagged)
             f == [at |-> Top.at, i |-> s + 1,
                   saved |-> Top.saved, entry |-> Top.entry]
  <2>2. s \in Signals /\ s \in Nat
    BY <1>1, LowestFlagged, TrapAssumption DEF DotrapRun, Signals, TInv
  <2>3. Top \in Frames
    BY <2>1, TopFrame DEF TInv
  <2>4. f \in Frames
    BY <2>2, <2>3 DEF Frames
  <2>5. stack' = [stack EXCEPT ![Len(stack)] = f]
    BY <1>1 DEF DotrapRun
  <2>6. f.at = Top.at /\ f.saved = Top.saved /\ f.entry = Top.entry
    OBVIOUS
  <2> HIDE DEF s, f
  <2>7. stack' \in Seq(Frames) /\ stack' # <<>> /\ Chain(stack', savestatus)
    BY <2>1, <2>4, <2>5, <2>6, ChainAdvance DEF TInv, TypeOK, Top
  <2>8. savestatus \in Status
    BY <2>1, <2>3 DEF TInv, Chain, Frames, Top
  <2>9. gotsig' \subseteq Signals
    BY <1>1 DEF DotrapRun, TInv, TypeOK
  <2>10. /\ pc' \in {"crashed", "loop", "eval"}
         /\ exitstatus' \in {exitstatus, savestatus}
         /\ pc' = "loop" => exitstatus' = savestatus
    BY <1>1 DEF DotrapRun
  <2>11. UNCHANGED <<trapVars, pending_sig, evalskip, savestatus, modeVars,
                     excVars, targ>>
    BY <1>1 DEF DotrapRun
  <2> HIDE <1>1
  <2> QED
    BY <2>7, <2>8, <2>9, <2>10, <2>11
    DEF TInv, TypeOK, PcInv, Points, trapVars, modeVars, excVars
<1>2. CASE DotrapReturn
  <2>1. stack # <<>>
    BY <1>2 DEF DotrapReturn, TInv, PcInv
  <2>2. /\ Top \in Frames /\ Pop \in Seq(Frames)
        /\ Top.saved \in Status \cup {-1}
    BY <2>1, TopFrame DEF TInv
  <2>3. stack' = Pop /\ savestatus' = Top.saved
    BY <1>2 DEF DotrapReturn
  <2>4. Chain(stack', savestatus')
    BY <2>1, <2>3, ChainPop DEF TInv, TypeOK, Top, Pop
  <2>5. pending_sig' \in 0 .. (NSIG - 1)
    BY <1>2, LowestFlagged, TrapAssumption
    DEF DotrapReturn, TInv, TypeOK, Signals
  <2>6. /\ pc' \in {"body", "next", "exittrap"}
        /\ pc' = "exittrap" => Top.at \notin {"entry", "tail"}
    BY <1>2 DEF DotrapReturn
  <2>7. pc' = "exittrap" => savestatus' \in Status
    <3>1. SUFFICES ASSUME pc' = "exittrap" PROVE Top.saved \in Status
      BY <2>3
    <3>2. Top.at \in {"exit", "EXIT"}
      BY <2>2, <2>6, <3>1 DEF Frames, Places
    <3>3. Len(stack) \in 1 .. Len(stack)
      BY <2>1, TopFrame DEF TInv
    <3> QED BY <2>2, <3>2, <3>3 DEF TInv, Chain, Top, Frames
  <2>8. UNCHANGED <<trapVars, gotsig, evalskip, exitstatus, modeVars, excVars,
                    targ>>
    BY <1>2 DEF DotrapReturn
  <2> HIDE <1>2
  <2> QED
    BY <2>2, <2>3, <2>4, <2>5, <2>6, <2>7, <2>8
    DEF TInv, TypeOK, PcInv, Points, trapVars, modeVars, excVars
<1>3. CASE ActionEnds
  <2>1. stack # <<>>
    BY <1>3 DEF ActionEnds
  <2>2. /\ Len(stack) \in 1 .. Len(stack)
        /\ Top \in Frames /\ Pop \in Seq(Frames) /\ Top.entry \in Status
    BY <2>1, TopFrame DEF TInv
  <2>3. savestatus = Top.entry
    BY <2>1 DEF TInv, Chain, Top
  <2>4. UNCHANGED <<trapVars, sigVars, evalskip, savestatus, modeVars, excVars,
                    targ>>
    BY <1>3 DEF ActionEnds
  <2>5. CASE Top.at = "EXIT"
    <3>1. pc' = "out" /\ stack' = Pop /\ exitstatus' = exitstatus
      BY <1>3, <2>5 DEF ActionEnds
    <3>2. Chain(stack', savestatus')
      <4>1. Top.saved = savestatus
        BY <2>2, <2>3, <2>5 DEF TInv, Chain, Top
      <4> QED BY <2>1, <2>4, <3>1, <4>1, ChainPop DEF TInv, TypeOK, Top, Pop
    <3> QED
      BY <2>2, <2>4, <3>1, <3>2
      DEF TInv, TypeOK, PcInv, Points, trapVars, sigVars, modeVars, excVars
  <2>6. CASE Top.at # "EXIT"
    <3>1. /\ pc' = "loop" /\ stack' = stack
          /\ exitstatus' = IF evalskip = "funcr" THEN exitstatus
                           ELSE savestatus
      BY <1>3, <2>6 DEF ActionEnds
    <3> QED
      BY <2>1, <2>2, <2>3, <2>4, <3>1
      DEF TInv, TypeOK, PcInv, Points, trapVars, sigVars, modeVars, excVars
  <2> QED BY <2>5, <2>6
<1> QED BY <1>1, <1>2, <1>3 DEF Dotrap

\* The two calls of dotrap in evaltree keep the invariant.
LEMMA EvaltreeType == TInv /\ Evaltree => TInv'
<1> SUFFICES ASSUME TInv, Evaltree PROVE TInv'
  OBVIOUS
<1>1. CASE EvalEntry
  BY <1>1, DotrapEnterType DEF EvalEntry, Places, Points
<1>2. CASE EvalTail
  BY <1>2, DotrapEnterType DEF EvalTail, Places, Points
<1>3. CASE NextCommand
  BY <1>3 DEF NextCommand, TInv, TypeOK, PcInv, Points, trapVars, sigVars,
     modeVars, excVars
<1>4. CASE SkipEnds
  BY <1>4 DEF SkipEnds, TInv, TypeOK, PcInv, Skips, trapVars, sigVars,
     modeVars, excVars
<1> QED BY <1>1, <1>2, <1>3, <1>4 DEF Evaltree

\* A command that only ends keeps TInv.
LEMMA FinishStep ==
  ASSUME TInv, NEW st \in Status, NEW skip \in Skips, Finish(st, skip),
         UNCHANGED <<trapVars, sigVars, modeVars>>
  PROVE  TInv'
<1>1. UNCHANGED <<trap, trapcnt, sigmode, gotsig, pending_sig, iflag, mflag,
                  level>>
  BY DEF trapVars, sigVars, modeVars
<1> QED BY <1>1, FinishType DEF TInv, TypeOK

\* So does one that raises an exception or exits.
LEMMA ExitStep ==
  ASSUME TInv, NEW st \in Status,
         Raise(st) \/ (ExitWith(st) /\ intoff' \in BOOLEAN),
         UNCHANGED <<trapVars, sigVars, modeVars, intpending, targ>>
  PROVE  TInv'
<1>1. UNCHANGED <<trap, trapcnt, sigmode, gotsig, pending_sig, iflag, mflag,
                  level, intpending, targ>>
  BY DEF trapVars, sigVars, modeVars
<1>2. <<>> \in Seq(Frames)
  OBVIOUS
<1>3. TypeOK
  BY DEF TInv
<1>4. /\ exitstatus' \in Status /\ savestatus' \in Status \cup {-1}
      /\ evalskip' \in Skips /\ handler' \in {"main", "loc"}
      /\ intoff' \in BOOLEAN /\ stack' = <<>> /\ pc' \in Points
      /\ PcInv'
  BY <1>3, RaiseType, ExitWithType
<1> QED BY <1>1, <1>2, <1>3, <1>4, ChainEmpty DEF TInv, TypeOK

\* Commands (trap, exit, return, set, forks, errors and others) keep it.
LEMMA CommandsType == TInv /\ Commands => TInv'
<1> SUFFICES ASSUME TInv, Commands PROVE TInv'
  OBVIOUS
<1>a. 0 \in Status /\ 1 \in Status /\ exitstatus \in Status
  BY DEF Status, TInv, TypeOK
<1>b. /\ evalskip \in Skips /\ "funcnr" \in Skips /\ "break" \in Skips
      /\ "funcr" \in Skips /\ "none" \in Skips
  BY DEF Skips, TInv, TypeOK
<1>1. CASE Command
  BY <1>1, <1>b, FinishStep DEF Command
<1>2. CASE Skip
  BY <1>2, <1>a, <1>b, FinishStep DEF Skip
<1>3. CASE TrapCommand
  BY <1>3, ClearedType DEF TrapCommand, TInv, TypeOK, PcInv, Points, sigVars,
     modeVars, excVars
<1>4. CASE TrapReturn
  BY <1>4, <1>b, FinishStep DEF TrapReturn
<1>5. CASE SetMonitor
  <2>1. /\ mflag' \in BOOLEAN /\ Finish(0, evalskip)
        /\ sigmode' = optschanged(trap, trapcnt, iflag, mflag', sigmode)
        /\ UNCHANGED <<trap, trapcnt, gotsig, pending_sig, iflag, level>>
    BY <1>5 DEF SetMonitor, sigVars
  <2>2. sigmode' \in [Signals -> Modes]
    BY <2>1, ClearedType DEF TInv, TypeOK
  <2> QED BY <2>1, <2>2, <1>a, <1>b, FinishType DEF TInv, TypeOK
<1>6. ASSUME NEW c \in Conditions, TrapOperand(c)
      PROVE  TInv'
  <2>1. /\ trap' = [trap EXCEPT ![c] = targ]
        /\ trapcnt' = trapcnt + (IF targ \in Action THEN 1 ELSE 0)
                              - (IF trap[c] \in Action THEN 1 ELSE 0)
        /\ sigmode' = setsignal({c} \ {EXIT}, trap', trapcnt', iflag, mflag,
                                FALSE, sigmode)
        /\ UNCHANGED <<gotsig, pending_sig, evalskip, exitstatus, savestatus,
                       iflag, mflag, level, handler, intoff, intpending,
                       stack, targ, pc>>
    BY <1>6 DEF TrapOperand, sigVars, modeVars, excVars
  <2>2. trap' \in [Conditions -> Texts] /\ trapcnt' \in Int
    BY <2>1 DEF TInv, TypeOK
  <2>3. sigmode' \in [Signals -> Modes]
    <3>1. sigmode \in [Signals -> Modes]
      BY DEF TInv, TypeOK
    <3>2. setsignal({c} \ {EXIT}, trap', trapcnt', iflag, mflag, FALSE, sigmode)
            \in [Signals -> Modes]
      BY ONLY <3>1, SetsignalType
    <3> QED BY <2>1, <3>2
  <2> QED BY <2>1, <2>2, <2>3 DEF TInv, TypeOK, PcInv
<1>7. ASSUME NEW mode \in ForkModes, forkchild(mode)
      PROVE  TInv'
  <2>1. /\ level' = level + 1
        /\ iflag' = FALSE /\ mflag' = FALSE
        /\ trap' = ClearedTrap /\ trapcnt' = ClearedCnt
        /\ evalskip' = "none" /\ savestatus' = -1
        /\ handler' = "main" /\ stack' = <<>>
        /\ UNCHANGED <<gotsig, pending_sig, exitstatus, targ>>
    BY <1>7 DEF forkchild, sigVars
  <2>2. /\ intoff' \in BOOLEAN /\ intpending' \in BOOLEAN
        /\ pc' \in {"dead", "eval"}
    BY <1>7 DEF forkchild, TInv, TypeOK
  <2>3. sigmode' \in [Signals -> Modes]
    <3> DEFINE jobctl == mode # "FORK_NOJOB" /\ mflag
               sm1 == IF jobctl
                      THEN setsignal(OfKind({"stop"}), trap, trapcnt, iflag,
                                     mflag, TRUE, sigmode)
                      ELSE IF mode = "FORK_BG"
                      THEN ignoresig(OfKind({"int", "quit"}), sigmode)
                      ELSE sigmode
               sm2 == IF iflag
                      THEN setsignal(OfKind({"int", "quit", "term"}), trap,
                                     trapcnt, iflag, mflag, TRUE, sm1)
                      ELSE sm1
               sm3 == optschanged(trap, trapcnt, FALSE, FALSE, sm2)
    <3>1. sigmode' = ClearedModes(FALSE, FALSE, sm3)
      BY <1>7 DEF forkchild
    <3>2. sm1 \in [Signals -> Modes]
      BY SetsignalType, IgnoresigType DEF TInv, TypeOK
    <3> HIDE DEF sm1
    <3>3. sm2 \in [Signals -> Modes]
      BY <3>2, SetsignalType
    <3> HIDE DEF sm2
    <3>4. sm3 \in [Signals -> Modes]
      BY <3>3, ClearedType DEF TInv
    <3> HIDE DEF sm3
    <3> QED BY <3>1, <3>4, ClearedType DEF TInv
  <2>4. stack' \in Seq(Frames) /\ Chain(stack', savestatus')
    BY <2>1, ChainEmpty
  <2>5. trap' \in [Conditions -> Texts] /\ trapcnt' \in Int
    BY <2>1, ClearedType DEF TInv
  <2>6. /\ savestatus' \in Status \cup {-1}
        /\ iflag' \in BOOLEAN /\ mflag' \in BOOLEAN
    BY <2>1, Zenon
  <2> HIDE <1>7
  <2> QED BY <2>1, <2>2, <2>3, <2>4, <2>5, <2>6
          DEF TInv, TypeOK, PcInv, Points, Skips
<1>8. CASE SubshellInPlace
  <2>1. /\ level' = level + 1
        /\ iflag' = FALSE /\ mflag' = FALSE
        /\ trap' = ClearedTrap /\ trapcnt' = ClearedCnt
        /\ evalskip' = "none" /\ savestatus' = -1
        /\ stack = <<>> /\ pc' = "eval"
        /\ UNCHANGED <<gotsig, pending_sig, exitstatus, handler, intoff,
                       intpending, stack, targ>>
    BY <1>8 DEF SubshellInPlace, sigVars, excVars
  <2>2. sigmode' \in [Signals -> Modes]
    BY <1>8, ClearedType DEF SubshellInPlace, TInv, TypeOK
  <2>3. trap' \in [Conditions -> Texts] /\ trapcnt' \in Int
    BY <2>1, ClearedType DEF TInv
  <2>4. /\ savestatus' \in Status \cup {-1}
        /\ iflag' \in BOOLEAN /\ mflag' \in BOOLEAN
    BY <2>1, Zenon
  <2> QED BY <2>1, <2>2, <2>3, <2>4, ChainEmpty
          DEF TInv, TypeOK, PcInv, Points, Skips
<1>9. CASE Exit
  <2>1. \E st \in Status : ExitWith(st)
    <3>1. (IF savestatus >= 0 THEN savestatus ELSE exitstatus) \in Status
      BY <1>a DEF TInv, TypeOK, Status
    <3> QED BY <1>9, <3>1, Zenon DEF Exit
  <2>2. intoff' \in BOOLEAN /\ UNCHANGED <<trapVars, sigVars, modeVars,
                                          intpending, targ>>
    BY <1>9 DEF Exit
  <2> QED BY <2>1, <2>2, ExitStep
<1>10. CASE Error
  <2>1. Raise(1) /\ UNCHANGED <<trapVars, sigVars, modeVars, intpending, targ>>
    BY <1>10 DEF Error
  <2>2. \E st \in Status : Raise(st)
    BY <1>a, <2>1
  <2> HIDE <1>10
  <2> QED BY <2>1, <2>2, ExitStep
<1> QED BY <1>1, <1>2, <1>3, <1>4, <1>5, <1>6, <1>7, <1>8, <1>9, <1>10
        DEF Commands

\* exitshell keeps it: exitstatus is a status wherever it is taken from.
LEMMA ExitshellType == TInv /\ Exitshell => TInv'
<1> SUFFICES ASSUME TInv, Exitshell PROVE TInv'
  OBVIOUS
<1>1. CASE LastCommand
  <2>1. exitstatus \in Status /\ intoff' \in BOOLEAN
    BY <1>1 DEF LastCommand, TInv, TypeOK
  <2> QED BY <1>1, <2>1, ExitStep DEF LastCommand
<1>2. CASE ExitPending
  <2>1. CASE have_traps
    BY <1>2, <2>1, DotrapEnterType DEF ExitPending, Places, Points, TInv, PcInv
  <2>2. CASE ~have_traps
    BY <1>2, <2>2 DEF ExitPending, TInv, TypeOK, PcInv, Points, trapVars,
       sigVars, modeVars, excVars
  <2> QED BY <2>1, <2>2
<1>3. CASE ExitTrap
  <2>1. CASE trap[EXIT] \in Action
    <3> DEFINE f == [at |-> "EXIT", i |-> NSIG,
                     saved |-> savestatus, entry |-> savestatus]
    <3>1. savestatus \in Status
      BY <1>3 DEF ExitTrap, TInv, PcInv
    <3>2. f \in Frames
      BY <3>1, TrapAssumption DEF Frames, Places
    <3>3. f.at = "EXIT" /\ f.saved = savestatus /\ f.entry = savestatus
      OBVIOUS
    <3>4. stack' = Append(stack, f) /\ pc' = "eval"
      BY <1>3, <2>1 DEF ExitTrap
    <3> HIDE DEF f
    <3>5. stack' \in Seq(Frames) /\ Chain(stack', savestatus)
      BY <3>2, <3>3, <3>4, ChainPush DEF TInv, TypeOK
    <3> QED
      BY <1>3, <3>4, <3>5 DEF ExitTrap, TInv, TypeOK, PcInv, Points, Skips,
         trapVars, sigVars, modeVars, excVars
  <2>2. CASE trap[EXIT] \notin Action
    BY <1>3, <2>2 DEF ExitTrap, TInv, TypeOK, PcInv, Points, Skips, trapVars,
       sigVars, modeVars, excVars
  <2> QED BY <2>1, <2>2
<1>4. CASE ExitOut
  BY <1>4 DEF ExitOut, TInv, TypeOK, PcInv, Points, trapVars, sigVars,
     modeVars, excVars
<1> QED BY <1>1, <1>2, <1>3, <1>4 DEF Exitshell

\* A signal, at any point, keeps it.
LEMMA SignalType == TInv /\ Signal => TInv'
<1> SUFFICES ASSUME TInv, NEW s \in Signals, onsig(s) \/ Interrupt(s)
             PROVE  TInv'
  BY DEF Signal
<1>1. CASE onsig(s)
  <2>1. s \in 0 .. (NSIG - 1)
    BY TrapAssumption DEF Signals
  <2> QED
    BY <1>1, <2>1 DEF onsig, TInv, TypeOK, PcInv, trapVars, modeVars, excVars
<1>2. CASE Interrupt(s)
  <2>1. UNCHANGED <<trap, trapcnt, sigmode, gotsig, pending_sig, iflag, mflag,
                    level>>
    BY <1>2 DEF Interrupt, trapVars, sigVars, modeVars
  <2>2. CASE intoff
    BY <1>2, <2>1, <2>2 DEF Interrupt, TInv, TypeOK, PcInv
  <2>3. CASE ~intoff
    BY <1>2, <2>1, <2>3, OnintType DEF Interrupt, TInv, TypeOK
  <2> QED BY <2>2, <2>3
<1> QED BY <1>1, <1>2

\* The types, the chain of saved statuses and what the program point says of
\* the stack hold at all times: an exit or a return without operand in an action
\* finds the status of the command that was interrupted.
THEOREM TInvInvariant == Spec => []TInv
<1>1. Init => TInv
  BY InitTInv
<1>2. TInv /\ [Next]_vars => TInv'
  <2> SUFFICES ASSUME TInv, [Next]_vars PROVE TInv'
    OBVIOUS
  <2>1. CASE Next
    BY <2>1, EvaltreeType, DotrapType, CommandsType, ExitshellType, SignalType
    DEF Next, Shell
  <2>2. CASE UNCHANGED vars
    BY <2>2 DEF vars, TInv, TypeOK, PcInv
  <2> QED BY <2>1, <2>2
<1> QED BY <1>1, <1>2, PTL DEF Spec

\* Every variable of Trap keeps its type.
THEOREM TypeCorrect == Spec => []TypeOK
<1>1. TInv => TypeOK
  BY DEF TInv
<1> QED BY <1>1, TInvInvariant, PTL

\* dotrap keeps the status of the command it interrupted, through any
\* nesting of activations.
THEOREM StatusKept == Spec => []StatusInv
<1>1. TInv => StatusInv
  BY DEF TInv, Chain, PcInv, StatusInv, Top
<1> QED BY <1>1, TInvInvariant, PTL
-----------------------------------------------------------------------------
(* The counter of traps.                                                    *)

\* trapcmd has discarded the actions of a parent when it comes to its
\* operands.
CInv == CountInv /\ (pc = "operands" => trapcnt >= 0)

\* The traps that have an action are finitely many.
LEMMA NonEmptyFinite ==
  ASSUME NEW t
  PROVE  IsFiniteSet(NonEmpty(t)) /\ Cardinality(NonEmpty(t)) \in Nat
<1>1. IsFiniteSet(Conditions)
  BY TrapAssumption, FS_Interval DEF Conditions
<1>2. NonEmpty(t) \subseteq Conditions
  BY DEF NonEmpty
<1> QED BY <1>1, <1>2, FS_Subset, FS_CardinalityType

\* Storing one action changes the number of non-empty actions as trapcmd
\* counts it.
LEMMA StoreCounts ==
  ASSUME NEW t \in [Conditions -> Texts], NEW c \in Conditions,
         NEW a \in Texts
  PROVE  Cardinality(NonEmpty([t EXCEPT ![c] = a]))
           = Cardinality(NonEmpty(t)) + (IF a \in Action THEN 1 ELSE 0)
                                      - (IF t[c] \in Action THEN 1 ELSE 0)
<1> DEFINE u == [t EXCEPT ![c] = a]
<1>1. u[c] = a /\ \A d \in Conditions : d # c => u[d] = t[d]
  OBVIOUS
<1>2. IsFiniteSet(NonEmpty(t)) /\ Cardinality(NonEmpty(t)) \in Nat
  BY NonEmptyFinite
<1> HIDE DEF u
<1>3. CASE a \in Action
  <2>1. NonEmpty(u) = NonEmpty(t) \cup {c}
    BY <1>1, <1>3 DEF NonEmpty
  <2>2. Cardinality(NonEmpty(u)) = IF c \in NonEmpty(t)
                                   THEN Cardinality(NonEmpty(t))
                                   ELSE Cardinality(NonEmpty(t)) + 1
    BY <1>2, <2>1, FS_AddElement
  <2>3. c \in NonEmpty(t) <=> t[c] \in Action
    BY DEF NonEmpty
  <2> QED BY <1>2, <1>3, <2>2, <2>3 DEF u
<1>4. CASE a \notin Action
  <2>1. NonEmpty(u) = NonEmpty(t) \ {c}
    BY <1>1, <1>4 DEF NonEmpty
  <2>2. Cardinality(NonEmpty(u)) = IF c \in NonEmpty(t)
                                   THEN Cardinality(NonEmpty(t)) - 1
                                   ELSE Cardinality(NonEmpty(t))
    BY <1>2, <2>1, FS_RemoveElement
  <2>3. c \in NonEmpty(t) <=> t[c] \in Action
    BY DEF NonEmpty
  <2> QED BY <1>2, <1>4, <2>2, <2>3 DEF u
<1> QED BY <1>3, <1>4

\* clear_traps forgets the actions or marks them as the parent's.
LEMMA ClearedCounts ==
  ASSUME TypeOK, CountInv
  PROVE  \/ ClearedCnt = 0 /\ NonEmpty(ClearedTrap) = {}
         \/ /\ ClearedCnt = -1 /\ ClearedTrap = trap /\ NonEmpty(trap) # {}
            /\ trapcnt > 0
<1>1. CASE trapcnt <= 0
  <2>1. ClearedCnt = 0
    BY <1>1 DEF ClearedCnt
  <2>2. \A c \in Conditions : ClearedTrap[c] \notin Action
    BY <1>1, TrapAssumption DEF ClearedTrap
  <2> QED BY <2>1, <2>2 DEF NonEmpty
<1>2. CASE ~(trapcnt <= 0)
  <2>1. trapcnt = Cardinality(NonEmpty(trap)) /\ trapcnt > 0
    BY <1>2 DEF CountInv, TypeOK
  <2>2. NonEmpty(trap) # {}
    BY <2>1, FS_EmptySet
  <2>3. ClearedCnt = -1 /\ ClearedTrap = trap
    BY <1>2 DEF ClearedCnt, ClearedTrap
  <2> QED BY <2>1, <2>2, <2>3
<1> QED BY <1>1, <1>2

\* clear_traps leaves a count that agrees with the traps that are left.
LEMMA ClearedCountInv ==
  ASSUME TypeOK, CountInv, trap' = ClearedTrap, trapcnt' = ClearedCnt
  PROVE  CountInv'
<1>1. Cardinality({}) = 0
  BY FS_EmptySet
<1>2. NonEmpty(trap)' = NonEmpty(ClearedTrap)
  BY DEF NonEmpty
<1> QED BY <1>1, <1>2, ClearedCounts DEF CountInv

\* Ending a command or the shell leaves the operands of trapcmd.
LEMMA LeavesOperands ==
  ASSUME TInv
  PROVE  /\ \A st, skip : Finish(st, skip) => pc' # "operands"
         /\ \A st : ExitWith(st) \/ Raise(st) => pc' # "operands"
         /\ onint => pc' # "operands"
<1>1. \A st : ExitWith(st) \/ Raise(st) => pc' # "operands"
  BY DEF ExitWith, Raise
<1>2. onint => pc' # "operands"
  BY <1>1 DEF onint
<1> QED BY <1>1, <1>2 DEF Finish

\* Every step keeps the count of traps in agreement with the actions, given
\* the invariant: setting, removing and clearing traps each adjust it once.
THEOREM CInvStep == TInv /\ CInv /\ [Next]_vars => CInv'
<1> SUFFICES ASSUME TInv, CInv, [Next]_vars PROVE CInv'
  OBVIOUS
<1>a. TypeOK /\ CountInv
  BY DEF TInv, CInv
<1>b. ASSUME UNCHANGED <<trap, trapcnt>> PROVE CountInv'
  BY <1>a, <1>b DEF CountInv, NonEmpty
<1>c. ASSUME UNCHANGED <<trap, trapcnt>>, pc' # "operands" \/ pc' = pc
      PROVE  CInv'
  BY <1>b, <1>c DEF CInv
<1>1. CASE Evaltree
  BY <1>1, <1>c DEF Evaltree, EvalEntry, EvalTail, NextCommand, SkipEnds,
     DotrapEnter, trapVars
<1>2. CASE Dotrap
  BY <1>2, <1>c DEF Dotrap, DotrapRun, DotrapReturn, ActionEnds, trapVars
<1>3. CASE Commands
  <2>1. CASE Command \/ Skip \/ TrapReturn \/ SetMonitor \/ Exit \/ Error
    <3>1. UNCHANGED <<trap, trapcnt>>
      BY <2>1 DEF Command, Skip, TrapReturn, SetMonitor, Exit, Error, trapVars
    <3>2. pc' # "operands"
      BY <2>1, LeavesOperands DEF Command, Skip, TrapReturn, SetMonitor, Exit,
         Error
    <3> QED BY <1>c, <3>1, <3>2
  <2>2. CASE TrapCommand
    <3>1. CASE trapcnt < 0
      <4>1. trap' = ClearedTrap /\ trapcnt' = ClearedCnt
        BY <2>2, <3>1 DEF TrapCommand
      <4>2. ClearedCnt = 0
        BY <1>a, <3>1 DEF ClearedCnt, TypeOK
      <4> QED BY <1>a, <4>1, <4>2, ClearedCountInv DEF CInv
    <3>2. CASE ~(trapcnt < 0)
      <4>1. UNCHANGED <<trap, trapcnt>>
        BY <2>2, <3>2 DEF TrapCommand
      <4>2. trapcnt >= 0
        BY <1>a, <3>2 DEF TypeOK
      <4> QED BY <1>b, <4>1, <4>2 DEF CInv
    <3> QED BY <3>1, <3>2
  <2>3. ASSUME NEW c \in Conditions, TrapOperand(c)
        PROVE  CInv'
    <3>1. /\ trap' = [trap EXCEPT ![c] = targ]
          /\ trapcnt' = trapcnt + (IF targ \in Action THEN 1 ELSE 0)
                                - (IF trap[c] \in Action THEN 1 ELSE 0)
          /\ pc = "operands"
      BY <2>3 DEF TrapOperand
    <3>2. trapcnt >= 0 /\ trapcnt = Cardinality(NonEmpty(trap))
      BY <3>1, <1>a DEF CInv, CountInv, TypeOK
    <3>3. trapcnt' = Cardinality(NonEmpty(trap'))
      BY <3>1, <3>2, <1>a, StoreCounts DEF TypeOK
    <3>4. trapcnt' >= 0
      BY <3>3, NonEmptyFinite
    <3>5. NonEmpty(trap)' = NonEmpty(trap')
      BY DEF NonEmpty
    <3> QED BY <3>3, <3>4, <3>5 DEF CInv, CountInv
  <2>4. ASSUME NEW mode \in ForkModes, forkchild(mode)
        PROVE  CInv'
    <3>1. trap' = ClearedTrap /\ trapcnt' = ClearedCnt /\ pc' # "operands"
      BY <2>4 DEF forkchild
    <3> QED BY <1>a, <3>1, ClearedCountInv DEF CInv
  <2>5. CASE SubshellInPlace
    <3>1. trap' = ClearedTrap /\ trapcnt' = ClearedCnt /\ pc' # "operands"
      BY <2>5 DEF SubshellInPlace
    <3> QED BY <1>a, <3>1, ClearedCountInv DEF CInv
  <2> QED BY <1>3, <2>1, <2>2, <2>3, <2>4, <2>5 DEF Commands
<1>4. CASE Exitshell
  <2>1. UNCHANGED <<trap, trapcnt>>
    BY <1>4 DEF Exitshell, LastCommand, ExitPending, ExitTrap, ExitOut,
       DotrapEnter, trapVars
  <2>2. pc' # "operands"
    BY <1>4, LeavesOperands DEF Exitshell, LastCommand, ExitPending, ExitTrap,
       ExitOut, DotrapEnter
  <2> QED BY <1>c, <2>1, <2>2
<1>5. ASSUME NEW s \in Signals, onsig(s) \/ Interrupt(s)
      PROVE  CInv'
  <2>1. UNCHANGED <<trap, trapcnt>>
    BY <1>5 DEF onsig, Interrupt, trapVars
  <2>2. pc' # "operands" \/ pc' = pc
    BY <1>5, LeavesOperands DEF onsig, Interrupt
  <2> QED BY <1>c, <2>1, <2>2
<1>6. CASE UNCHANGED vars
  BY <1>6, <1>c DEF vars
<1> QED BY <1>1, <1>2, <1>3, <1>4, <1>5, <1>6 DEF Next, Shell, Signal

\* have_traps tells the truth: whatever traps are set and cleared, in
\* whatever nesting of subshells, the counter is the number of non-empty
\* actions, or negative while a subshell remembers those of its parent.
THEOREM CountCorrect == Spec => []CountInv
<1>1. Init => CInv
  <2> SUFFICES ASSUME Init PROVE CInv
    OBVIOUS
  <2>1. NonEmpty(trap) = {}
    BY TrapAssumption DEF Init, NonEmpty
  <2>2. trapcnt = 0 /\ pc # "operands"
    BY DEF Init
  <2> QED BY <2>1, <2>2, FS_EmptySet DEF CInv, CountInv
<1>2. CInv => CountInv
  BY DEF CInv
<1> QED BY <1>1, <1>2, CInvStep, TInvInvariant, PTL DEF Spec

(***************************************************************************)
(* What Trap does with signals: interrupts that are held, dispositions,    *)
(* and flagged signals.                                                    *)
(***************************************************************************)

(* Held interrupts.  HeldInv is not inductive: an error in an interactive  *)
(* shell turns interrupts on, and that none is held then is because they   *)
(* were on, as only what ends the shell leaves them off.                   *)

HInv ==
  /\ intpending => intoff
  /\ intoff => handler = "loc" \/ ~iflag

\* Exceptions keep it, whether or not an interrupt is taken with them.
LEMMA RaiseHeld ==
  ASSUME TypeOK, HInv, NEW st, Raise(st), UNCHANGED iflag,
         intpending' = intpending \/ intpending' = FALSE
  PROVE  HInv'
<1>1. CASE handler = "main" /\ iflag
  <2>1. ~intoff /\ ~intpending
    BY <1>1, Zenon DEF HInv
  <2>2. intoff' = FALSE
    BY <1>1, Zenon DEF Raise
  <2>3. ~intpending'
    BY <2>1, Zenon
  <2> QED BY <2>2, <2>3, Zenon DEF HInv
<1>2. CASE ~(handler = "main" /\ iflag)
  <2>1. ExitWith(st) /\ intoff' = TRUE
    BY <1>2, Zenon DEF Raise
  <2>2. handler' = "loc"
    BY <2>1 DEF ExitWith, TypeOK
  <2> QED BY <2>1, <2>2, Zenon DEF HInv
<1> QED BY <1>1, <1>2

\* An interrupt that is taken is no longer held.
LEMMA OnintHeld ==
  ASSUME TypeOK, HInv, onint, UNCHANGED iflag
  PROVE  HInv'
<1>1. intpending' = FALSE
  BY DEF onint
<1>2. CASE iflag
  BY <1>1, <1>2, RaiseHeld, Zenon DEF onint
<1>3. CASE ~iflag
  <2>1. UNCHANGED <<intoff, handler, iflag>>
    BY <1>3 DEF onint
  <2> QED BY <1>1, <2>1 DEF HInv
<1> QED BY <1>2, <1>3

\* The end of a command delivers what is held.
LEMMA FinishHeld ==
  ASSUME TypeOK, HInv, NEW st, NEW skip, Finish(st, skip), UNCHANGED iflag
  PROVE  HInv'
<1>1. CASE intpending
  BY <1>1, OnintHeld, Zenon DEF Finish
<1>2. CASE ~intpending
  <2>1. intoff' = FALSE /\ intpending' = intpending
    BY <1>2, Zenon DEF Finish
  <2> QED BY <1>2, <2>1, Zenon DEF HInv
<1> QED BY <1>1, <1>2

\* What exits installs its handler and leaves interrupts off.
LEMMA ExitHeld ==
  ASSUME TypeOK, HInv, NEW st, ExitWith(st), UNCHANGED <<iflag, intpending>>,
         intoff' = TRUE \/ intoff' = intoff
  PROVE  HInv'
<1>1. handler' = "loc"
  BY DEF ExitWith, TypeOK
<1>2. intpending' => intoff'
  BY Zenon DEF HInv
<1> QED BY <1>1, <1>2, Zenon DEF HInv

\* Interrupts are never held with interrupts on.
THEOREM HInvStep == TInv /\ HInv /\ [Next]_vars => HInv'
<1> SUFFICES ASSUME TInv, HInv, [Next]_vars PROVE HInv'
  OBVIOUS
<1>a. TypeOK
  BY DEF TInv
<1>b. ASSUME UNCHANGED <<intpending, intoff, handler, iflag>> PROVE HInv'
  BY <1>b, Zenon DEF HInv
<1>1. CASE Evaltree
  BY <1>1, <1>b DEF Evaltree, EvalEntry, EvalTail, NextCommand, SkipEnds,
     DotrapEnter, excVars, modeVars
<1>2. CASE Dotrap
  BY <1>2, <1>b DEF Dotrap, DotrapRun, DotrapReturn, ActionEnds, excVars, modeVars
<1>3. CASE Commands
  <2>1. CASE Command \/ Skip \/ TrapReturn \/ SetMonitor
    <3>1. UNCHANGED iflag
      BY <2>1 DEF Command, Skip, TrapReturn, SetMonitor, modeVars
    <3>2. \E st, skip : Finish(st, skip)
      BY <2>1, Zenon DEF Command, Skip, TrapReturn, SetMonitor
    <3> QED BY <1>a, <3>1, <3>2, FinishHeld
  <2>2. CASE TrapCommand
    BY <2>2, <1>b DEF TrapCommand, excVars, modeVars
  <2>3. ASSUME NEW c \in Conditions, TrapOperand(c) PROVE HInv'
    BY <2>3, <1>b DEF TrapOperand, excVars, modeVars
  <2>4. ASSUME NEW mode \in ForkModes, forkchild(mode) PROVE HInv'
    <3>1. iflag' = FALSE
      BY <2>4 DEF forkchild
    <3>2. intpending' => intoff'
      BY <2>4, Zenon DEF forkchild, HInv
    <3> QED BY <3>1, <3>2, Zenon DEF HInv
  <2>5. CASE SubshellInPlace
    <3>1. iflag' = FALSE /\ UNCHANGED <<intoff, intpending>>
      BY <2>5 DEF SubshellInPlace, excVars
    <3> QED BY <3>1, Zenon DEF HInv
  <2>6. CASE Exit
    <3>1. \E st : ExitWith(st)
      BY <2>6, Zenon DEF Exit
    <3>2. intoff' = TRUE /\ UNCHANGED <<iflag, intpending>>
      BY <2>6 DEF Exit, modeVars
    <3> QED BY <1>a, <3>1, <3>2, ExitHeld
  <2>7. CASE Error
    BY <2>7, <1>a, RaiseHeld DEF Error, modeVars
  <2> QED BY <1>3, <2>1, <2>2, <2>3, <2>4, <2>5, <2>6, <2>7 DEF Commands
<1>4. CASE Exitshell
  <2>1. CASE LastCommand
    <3>1. ExitWith(exitstatus) /\ UNCHANGED <<iflag, intpending>>
      BY <2>1 DEF LastCommand, modeVars
    <3>2. intoff' = TRUE \/ intoff' = intoff
      BY <2>1 DEF LastCommand
    <3> QED BY <1>a, <3>1, <3>2, ExitHeld
  <2>2. CASE ExitPending \/ ExitTrap \/ ExitOut
    BY <2>2, <1>b DEF ExitPending, ExitTrap, ExitOut, DotrapEnter, excVars, modeVars
  <2> QED BY <1>4, <2>1, <2>2 DEF Exitshell
<1>5. ASSUME NEW s \in Signals, onsig(s) \/ Interrupt(s)
      PROVE  HInv'
  <2>1. CASE onsig(s)
    BY <2>1, <1>b DEF onsig, excVars, modeVars
  <2>2. CASE Interrupt(s)
    <3>1. UNCHANGED iflag
      BY <2>2 DEF Interrupt, modeVars
    <3>2. CASE intoff
      <4>1. UNCHANGED <<handler, intoff>>
        BY <2>2, <3>2 DEF Interrupt
      <4> QED BY <3>1, <3>2, <4>1, Zenon DEF HInv
    <3>3. CASE ~intoff
      BY <2>2, <3>1, <3>3, <1>a, OnintHeld DEF Interrupt
    <3> QED BY <3>2, <3>3
  <2> QED BY <1>5, <2>1, <2>2
<1>6. CASE UNCHANGED vars
  BY <1>6, <1>b DEF vars
<1> QED BY <1>1, <1>2, <1>3, <1>4, <1>5, <1>6 DEF Next, Shell, Signal

\* An interrupt that arrives while interrupts are off is delivered when they
\* are turned on: whatever turns them on, none is held afterwards.
THEOREM HeldCorrect == Spec => []HeldInv
<1>1. Init => HInv
  BY DEF Init, HInv
<1>2. HInv => HeldInv
  BY Zenon DEF HInv, HeldInv
<1> QED BY <1>1, <1>2, HInvStep, TInvInvariant, PTL DEF Spec
-----------------------------------------------------------------------------
(* Dispositions.  That a signal was ignored on entry excuses its mode only  *)
(* as long as setsignal never stored one.                                   *)

Sound(s) ==
  \/ s \in EntryIgnored /\ sigmode[s] = "unknown"
  \/ sigmode[s] = Called(s)
  \/ sigmode[s] = "unknown" /\ Called(s) = "S_DFL"
  \/ /\ sigmode[s] = "S_IGN" /\ Called(s) = "S_DFL"
     /\ level > 0 /\ Kind[s] \in {"int", "quit"} /\ trap[s] = "null"
MInv == \A s \in Signals : Sound(s)

\* Signals are conditions, and conditions other than EXIT are signals.
LEMMA SignalConditions ==
  Signals = Conditions \ {EXIT} /\ Signals \subseteq Nat \ {0}
BY TrapAssumption DEF Signals, Conditions, EXIT

\* setsignal leaves alone what is not in its set, or was ignored on entry.
LEMMA SetsignalMode ==
  ASSUME NEW S, NEW t, NEW cnt, NEW i, NEW m, NEW sub, NEW sm, NEW s \in Signals
  PROVE  setsignal(S, t, cnt, i, m, sub, sm)[s]
           = IF s \in S /\ ~(sm[s] = "unknown" /\ s \in EntryIgnored)
             THEN Wanted(t, cnt, i, m, s, sub) ELSE sm[s]
BY DEF setsignal, HardIgnored

\* Storing the action of one condition leaves what is called for of the other
\* signals: the count changes sign with the last action only.
LEMMA StoreCalls ==
  ASSUME TypeOK, CInv, pc = "operands", NEW c \in Conditions, TrapOperand(c), CInv',
         NEW s \in Signals, s # c
  PROVE  Called(s)' = Called(s) /\ trap[s]' = trap[s]
<1>1. trap' = [trap EXCEPT ![c] = targ] /\ UNCHANGED <<iflag, mflag, pc>>
  BY DEF TrapOperand, modeVars
<1>2. s \in Conditions
  BY SignalConditions
<1>3. trap'[s] = trap[s]
  BY <1>1, <1>2 DEF TypeOK
<1>4. /\ trapcnt \in Nat /\ trapcnt = Cardinality(NonEmpty(trap))
      /\ trapcnt' \in Nat /\ trapcnt' = Cardinality(NonEmpty(trap'))
  <2>1. trapcnt' \in Int
    BY DEF TypeOK, TrapOperand
  <2>2. NonEmpty(trap)' = NonEmpty(trap')
    BY DEF NonEmpty
  <2> QED BY <1>1, <2>1, <2>2 DEF CInv, CountInv, TypeOK
<1>5. CASE trap[s] \in {"null", "empty"}
  BY <1>1, <1>3, <1>5 DEF Called, Wanted
<1>6. CASE trap[s] \notin {"null", "empty"}
  <2>1. s \in NonEmpty(trap) /\ s \in NonEmpty(trap')
    BY <1>2, <1>3, <1>6 DEF NonEmpty, TypeOK, Texts
  <2>2. trapcnt > 0 /\ trapcnt' > 0
    BY <1>4, <2>1, NonEmptyFinite, FS_EmptySet
  <2> QED BY <1>1, <1>3, <2>2 DEF Called, Wanted
<1> QED BY <1>3, <1>5, <1>6

\* What clear_traps changes, signal by signal.
LEMMA ClearedAction ==
  ASSUME TypeOK, CountInv, NEW s \in Signals
  PROVE  /\ ClearedTrap[s] = IF trap[s] \in Action /\ trapcnt <= 0 THEN "null" ELSE trap[s]
         /\ ClearedCnt \in Int /\ ClearedCnt <= 0
<1>1. s \in Conditions
  BY SignalConditions
<1> QED BY <1>1 DEF ClearedTrap, ClearedCnt, TypeOK

\* The modes of a child, where sm is what forkchild has made of them when it
\* comes to reset.  Only ignoresig and the default actions of a new process
\* came before.
LEMMA ChildMode ==
  ASSUME TypeOK, CountInv, NEW s \in Signals, Sound(s), NEW sm \in [Signals -> Modes],
         trap' = ClearedTrap, trapcnt' = ClearedCnt, iflag' = FALSE, mflag' = FALSE,
         level' = level + 1,
         sigmode' = ClearedModes(FALSE, FALSE, optschanged(trap, trapcnt, FALSE, FALSE, sm)),
         \/ sm[s] = sigmode[s]
         \/ sm[s] = "S_IGN" /\ Kind[s] \in {"int", "quit"}
         \/ sm[s] = Wanted(trap, trapcnt, iflag, mflag, s, TRUE)
  PROVE  /\ Sound(s)'
         /\ trap[s] \in Action /\ Kind[s] # "chld" => sigmode'[s] # "S_CATCH"
         /\ trap[s] = "empty" /\ Kind[s] # "chld" =>
              sigmode'[s] = "S_IGN" \/ (sigmode'[s] = "unknown" /\ s \in EntryIgnored)
<1> DEFINE K == Kind[s]
           t == trap[s]
           Set(m, w) == IF m = "unknown" /\ s \in EntryIgnored THEN m ELSE w
           Default == IF K = "chld" THEN "S_CATCH" ELSE IF t = "empty" THEN "S_IGN" ELSE "S_DFL"
           Now == IF K = "chld" THEN "S_CATCH" ELSE IF t = "empty" THEN "S_IGN"
                  ELSE IF t # "null" /\ trapcnt > 0 THEN "S_CATCH" ELSE "S_DFL"
           om == optschanged(trap, trapcnt, FALSE, FALSE, sm)
<1>1. /\ trapcnt \in Int /\ s \in Conditions /\ t \in Texts /\ sigmode[s] \in Modes
      /\ sm[s] \in Modes /\ K \in Kinds /\ level \in Nat
  BY SignalConditions, TrapAssumption DEF TypeOK
<1>2. Wanted(trap, trapcnt, FALSE, FALSE, s, FALSE) = Now
  BY DEF Wanted
<1>3. Wanted(trap, -1, FALSE, FALSE, s, FALSE) = Default
  BY DEF Wanted
<1>4. Wanted(trap, trapcnt, iflag, mflag, s, TRUE) = Now
  BY DEF Wanted
<1>5. /\ Called(s) # Now => /\ Now = "S_DFL"
                            /\ (iflag /\ K \in {"int", "quit", "term"}) \/ (mflag /\ K = "stop")
      /\ Called(s) = "S_DFL" => Now = "S_DFL"
  BY DEF Called, Wanted
<1>6. om[s] = IF (iflag /\ K \in {"int", "quit", "term"}) \/ (mflag /\ K = "stop")
              THEN Set(sm[s], Now) ELSE sm[s]
  <2> DEFINE S == OfKind((IF FALSE # iflag THEN {"int", "quit", "term"} ELSE {})
                           \cup (IF FALSE # mflag THEN {"stop"} ELSE {}))
  <2>1. om = setsignal(S, trap, trapcnt, FALSE, FALSE, FALSE, sm)
    BY DEF optschanged
  <2>2. s \in S <=> (iflag /\ K \in {"int", "quit", "term"}) \/ (mflag /\ K = "stop")
    <3>1. iflag \in BOOLEAN /\ mflag \in BOOLEAN
      BY DEF TypeOK
    <3>2. CASE iflag = TRUE /\ mflag = TRUE
      BY <3>2 DEF OfKind
    <3>3. CASE iflag = TRUE /\ mflag = FALSE
      BY <3>3 DEF OfKind
    <3>4. CASE iflag = FALSE /\ mflag = TRUE
      BY <3>4 DEF OfKind
    <3>5. CASE iflag = FALSE /\ mflag = FALSE
      BY <3>5 DEF OfKind
    <3> QED BY <3>1, <3>2, <3>3, <3>4, <3>5
  <2> HIDE DEF S
  <2> QED BY <1>2, <2>1, <2>2 DEF setsignal, HardIgnored
<1> HIDE DEF om
<1>7. sigmode'[s] = IF trapcnt > 0 /\ t \in Action THEN Set(om[s], Default) ELSE om[s]
  <2>1. CASE trapcnt <= 0
    <3>1. sigmode' = om
      BY <2>1, Zenon DEF ClearedModes, om
    <3>2. ~(trapcnt > 0)
      BY <1>1, <2>1
    <3> QED BY <3>1, <3>2, Zenon
  <2>2. CASE ~(trapcnt <= 0)
    <3>1. sigmode' = setsignal(NonEmpty(trap) \ {EXIT}, trap, -1, FALSE, FALSE, FALSE, om)
      BY <2>2 DEF ClearedModes, om
    <3>2. s \in NonEmpty(trap) \ {EXIT} <=> t \in Action
      BY <1>1, SignalConditions DEF NonEmpty
    <3>3. sigmode'[s] = IF t \in Action /\ ~(om[s] = "unknown" /\ s \in EntryIgnored)
                       THEN Wanted(trap, -1, FALSE, FALSE, s, FALSE) ELSE om[s]
      BY <3>1, <3>2, Zenon DEF setsignal, HardIgnored
    <3>4. trapcnt > 0
      BY <1>1, <2>2
    <3> QED BY <1>3, <3>3, <3>4, Zenon
  <2> QED BY <2>1, <2>2
<1>8. Called(s)' = Default
  <2>1. trap'[s] = IF t \in Action /\ trapcnt <= 0 THEN "null" ELSE t
    BY ClearedAction
  <2>2. trapcnt' \in Int /\ trapcnt' <= 0
    BY ClearedAction
  <2>3. trap'[s] = "empty" <=> t = "empty"
    BY <2>1, TrapAssumption
  <2> QED BY <2>2, <2>3 DEF Called, Wanted
<1>9. trap'[s] = "null" <=> t = "null" \/ (t \in Action /\ trapcnt <= 0)
  BY <1>1, ClearedAction, TrapAssumption
<1>10. /\ t = "empty" => t \notin Action
       /\ t = "null" => t \notin Action
       /\ t \in Action \/ t = "empty" \/ t = "null"
  BY <1>1, TrapAssumption DEF Texts
<1>11. level' > 0
  BY <1>1
<1>12. CASE K = "chld"
  BY <1>1, <1>4, <1>5, <1>6, <1>7, <1>8, <1>12 DEF Sound
<1>13. CASE K # "chld" /\ t = "empty"
  BY <1>1, <1>4, <1>5, <1>6, <1>7, <1>8, <1>10, <1>13 DEF Sound
<1>14. CASE K # "chld" /\ t \in Action /\ trapcnt > 0
  BY <1>1, <1>4, <1>5, <1>6, <1>7, <1>8, <1>10, <1>14 DEF Sound
<1>15. CASE K # "chld" /\ (t = "null" \/ (t \in Action /\ trapcnt <= 0))
  BY <1>1, <1>4, <1>5, <1>6, <1>7, <1>8, <1>9, <1>10, <1>11, <1>15 DEF Sound, Modes, Kinds
<1>16. \/ K = "chld" \/ (K # "chld" /\ t = "empty")
       \/ (K # "chld" /\ t \in Action /\ trapcnt > 0)
       \/ (K # "chld" /\ (t = "null" \/ (t \in Action /\ trapcnt <= 0)))
  BY <1>1, <1>10
<1> QED BY <1>12, <1>13, <1>14, <1>15, <1>16

\* Both ways to become a subshell do that.
LEMMA Forks ==
  ASSUME TypeOK, CountInv, MInv, NEW s \in Signals,
         (\E mode \in ForkModes : forkchild(mode)) \/ SubshellInPlace
  PROVE  /\ Sound(s)'
         /\ trap[s] \in Action /\ Kind[s] # "chld" => sigmode'[s] # "S_CATCH"
         /\ trap[s] = "empty" /\ Kind[s] # "chld" =>
              sigmode'[s] = "S_IGN" \/ (sigmode'[s] = "unknown" /\ s \in EntryIgnored)
<1>1. Sound(s) /\ sigmode \in [Signals -> Modes]
  BY DEF MInv, TypeOK
<1>2. ASSUME NEW mode \in ForkModes, forkchild(mode)
      PROVE  /\ trap' = ClearedTrap /\ trapcnt' = ClearedCnt /\ iflag' = FALSE /\ mflag' = FALSE
             /\ level' = level + 1
             /\ \E sm \in [Signals -> Modes] :
                  /\ sigmode' = ClearedModes(FALSE, FALSE, optschanged(trap, trapcnt, FALSE, FALSE, sm))
                  /\ \/ sm[s] = sigmode[s]
                     \/ sm[s] = "S_IGN" /\ Kind[s] \in {"int", "quit"}
                     \/ sm[s] = Wanted(trap, trapcnt, iflag, mflag, s, TRUE)
  <2> DEFINE jobctl == mode # "FORK_NOJOB" /\ mflag
             sm1 == IF jobctl
                    THEN setsignal(OfKind({"stop"}), trap, trapcnt, iflag, mflag, TRUE, sigmode)
                    ELSE IF mode = "FORK_BG" THEN ignoresig(OfKind({"int", "quit"}), sigmode) ELSE sigmode
             sm2 == IF iflag
                    THEN setsignal(OfKind({"int", "quit", "term"}), trap, trapcnt, iflag, mflag, TRUE, sm1)
                    ELSE sm1
  <2>1. /\ trap' = ClearedTrap /\ trapcnt' = ClearedCnt /\ iflag' = FALSE /\ mflag' = FALSE
        /\ level' = level + 1
        /\ sigmode' = ClearedModes(FALSE, FALSE, optschanged(trap, trapcnt, FALSE, FALSE, sm2))
    BY <1>2 DEF forkchild
  <2> HIDE <1>2
  <2>2. /\ sm1 \in [Signals -> Modes]
        /\ \/ sm1[s] = sigmode[s]
           \/ sm1[s] = "S_IGN" /\ Kind[s] \in {"int", "quit"}
           \/ sm1[s] = Wanted(trap, trapcnt, iflag, mflag, s, TRUE)
    <3>1. CASE jobctl
      <4>1. sm1 = setsignal(OfKind({"stop"}), trap, trapcnt, iflag, mflag, TRUE, sigmode)
        BY <3>1
      <4> HIDE DEF sm1
      <4>2. sm1 \in [Signals -> Modes]
        BY <1>1, <4>1, SetsignalType
      <4>3. sm1[s] = sigmode[s] \/ sm1[s] = Wanted(trap, trapcnt, iflag, mflag, s, TRUE)
        BY <4>1, Zenon DEF setsignal
      <4> QED BY <4>2, <4>3
    <3>2. CASE ~jobctl /\ mode = "FORK_BG"
      <4>1. sm1 = ignoresig(OfKind({"int", "quit"}), sigmode)
        BY <3>2
      <4> HIDE DEF sm1
      <4>2. sm1 \in [Signals -> Modes]
        BY <1>1, <4>1, IgnoresigType
      <4>3. sm1[s] = sigmode[s] \/ (sm1[s] = "S_IGN" /\ Kind[s] \in {"int", "quit"})
        BY <4>1 DEF ignoresig, OfKind
      <4> QED BY <4>2, <4>3
    <3>3. CASE ~jobctl /\ mode # "FORK_BG"
      BY <1>1, <3>3
    <3> QED BY <3>1, <3>2, <3>3
  <2> HIDE DEF sm1
  <2>3. /\ sm2 \in [Signals -> Modes]
        /\ sm2[s] = sm1[s] \/ sm2[s] = Wanted(trap, trapcnt, iflag, mflag, s, TRUE)
    <3>1. CASE iflag
      <4>1. sm2 = setsignal(OfKind({"int", "quit", "term"}), trap, trapcnt, iflag, mflag, TRUE, sm1)
        BY <3>1
      <4> HIDE DEF sm2
      <4>2. sm2 \in [Signals -> Modes]
        BY <2>2, <4>1, SetsignalType
      <4>3. sm2[s] = sm1[s] \/ sm2[s] = Wanted(trap, trapcnt, iflag, mflag, s, TRUE)
        BY <4>1, Zenon DEF setsignal
      <4> QED BY <4>2, <4>3
    <3>2. CASE ~iflag
      BY <2>2, <3>2
    <3> QED BY <3>1, <3>2
  <2> HIDE DEF sm2
  <2>4. \/ sm2[s] = sigmode[s]
        \/ sm2[s] = "S_IGN" /\ Kind[s] \in {"int", "quit"}
        \/ sm2[s] = Wanted(trap, trapcnt, iflag, mflag, s, TRUE)
    BY <2>2, <2>3, Zenon
  <2> QED BY <2>1, <2>3, <2>4, Zenon
<1>3. ASSUME NEW mode \in ForkModes, forkchild(mode)
      PROVE  /\ Sound(s)'
             /\ trap[s] \in Action /\ Kind[s] # "chld" => sigmode'[s] # "S_CATCH"
             /\ trap[s] = "empty" /\ Kind[s] # "chld" =>
                  sigmode'[s] = "S_IGN" \/ (sigmode'[s] = "unknown" /\ s \in EntryIgnored)
  BY <1>1, <1>2, <1>3, ChildMode
<1>4. CASE SubshellInPlace
  <2>1. /\ trap' = ClearedTrap /\ trapcnt' = ClearedCnt /\ iflag' = FALSE /\ mflag' = FALSE
        /\ level' = level + 1
        /\ sigmode' = ClearedModes(FALSE, FALSE, optschanged(trap, trapcnt, FALSE, FALSE, sigmode))
    BY <1>4 DEF SubshellInPlace
  <2> HIDE <1>4
  <2> QED BY <1>1, <2>1, ChildMode
<1> QED BY <1>3, <1>4

\* Every step keeps the dispositions sound: the ones that change traps or
\* options ask for what these call for, signal by signal.
THEOREM MInvStep == TInv /\ TInv' /\ CInv /\ CInv' /\ MInv /\ [Next]_vars => MInv'
<1> SUFFICES ASSUME TInv, TInv', CInv, CInv', MInv, [Next]_vars, NEW s \in Signals
             PROVE  Sound(s)'
  BY DEF MInv
<1>a. TypeOK /\ TypeOK' /\ CountInv /\ Sound(s)
  BY DEF TInv, CInv, MInv
<1>b. ASSUME UNCHANGED <<trapVars, modeVars>> PROVE Sound(s)'
  BY <1>a, <1>b DEF Sound, Called, Wanted, trapVars, modeVars
<1>1. CASE Evaltree \/ Dotrap \/ Exitshell
  BY <1>1, <1>b DEF Evaltree, EvalEntry, EvalTail, NextCommand, SkipEnds, DotrapEnter,
     Dotrap, DotrapRun, DotrapReturn, ActionEnds,
     Exitshell, LastCommand, ExitPending, ExitTrap, ExitOut
<1>2. CASE Command \/ Skip \/ TrapReturn \/ Exit \/ Error
  BY <1>2, <1>b DEF Command, Skip, TrapReturn, Exit, Error
<1>3. CASE TrapCommand
  <2>1. CASE trapcnt < 0
    <3>1. /\ trap' = ClearedTrap /\ trapcnt' = ClearedCnt
          /\ UNCHANGED <<sigmode, iflag, mflag, level>>
      BY <1>3, <2>1 DEF TrapCommand, modeVars
    <3>2. trapcnt \in Int
      BY <1>a DEF TypeOK
    <3>3. trap'[s] = IF trap[s] \in Action THEN "null" ELSE trap[s]
      BY <1>a, <2>1, <3>1, <3>2, ClearedAction
    <3>4. ~(trapcnt > 0) /\ ~(trapcnt' > 0)
      BY <1>a, <2>1, <3>1, <3>2, ClearedAction
    <3>5. /\ trap'[s] = "empty" <=> trap[s] = "empty"
          /\ trap[s] = "null" => trap'[s] = "null"
      BY <3>3, TrapAssumption
    <3>6. Called(s)' = Called(s)
      BY <3>1, <3>4, <3>5 DEF Called, Wanted
    <3> QED BY <1>a, <3>1, <3>5, <3>6 DEF Sound
  <2>2. CASE ~(trapcnt < 0)
    BY <1>3, <2>2, <1>b DEF TrapCommand, trapVars
  <2> QED BY <2>1, <2>2
<1>4. ASSUME NEW c \in Conditions, TrapOperand(c) PROVE Sound(s)'
  <2>1. /\ pc = "operands"
        /\ sigmode' = setsignal({c} \ {EXIT}, trap', trapcnt', iflag, mflag, FALSE, sigmode)
        /\ UNCHANGED <<iflag, mflag, level>>
    BY <1>4 DEF TrapOperand, modeVars
  <2>2. CASE s = c
    <3>1. s \in {c} \ {EXIT}
      BY <2>2, SignalConditions
    <3>2. \/ sigmode[s] = "unknown" /\ s \in EntryIgnored /\ sigmode'[s] = sigmode[s]
          \/ sigmode'[s] = Wanted(trap', trapcnt', iflag, mflag, s, FALSE)
      BY <2>1, <3>1, Zenon DEF setsignal, HardIgnored
    <3>3. Called(s)' = Wanted(trap', trapcnt', iflag, mflag, s, FALSE)
      BY <2>1 DEF Called, Wanted
    <3> QED BY <3>2, <3>3, Zenon DEF Sound
  <2>3. CASE s # c
    <3>1. Called(s)' = Called(s) /\ trap[s]' = trap[s]
      BY <1>4, <1>a, <2>1, <2>3, StoreCalls
    <3>2. sigmode'[s] = sigmode[s]
      BY <2>1, <2>3, Zenon DEF setsignal
    <3> QED BY <1>a, <2>1, <3>1, <3>2 DEF Sound
  <2> QED BY <2>2, <2>3
<1>5. CASE SetMonitor
  <2>1. /\ mflag' = ~mflag /\ UNCHANGED <<trap, trapcnt, iflag, level>>
        /\ sigmode' = optschanged(trap, trapcnt, iflag, mflag', sigmode)
    BY <1>5 DEF SetMonitor
  <2> HIDE <1>5
  <2>2. sigmode' = setsignal(OfKind({"stop"}), trap, trapcnt, iflag, mflag', FALSE, sigmode)
    <3>1. mflag' # mflag
      BY <1>a, <2>1, Zenon DEF TypeOK
    <3>2. {} \cup {"stop"} = {"stop"}
      OBVIOUS
    <3> QED BY <2>1, <3>1, <3>2, Zenon DEF optschanged
  <2>3. CASE Kind[s] = "stop"
    <3>1. s \in OfKind({"stop"})
      BY <2>3 DEF OfKind
    <3>2. \/ sigmode[s] = "unknown" /\ s \in EntryIgnored /\ sigmode'[s] = sigmode[s]
          \/ sigmode'[s] = Wanted(trap, trapcnt, iflag, mflag', s, FALSE)
      BY <2>2, <3>1, Zenon DEF setsignal, HardIgnored
    <3>3. Called(s)' = Wanted(trap, trapcnt, iflag, mflag', s, FALSE)
      BY <2>1 DEF Called, Wanted
    <3> QED BY <3>2, <3>3, Zenon DEF Sound
  <2>4. CASE Kind[s] # "stop"
    <3>1. sigmode'[s] = sigmode[s]
      BY <2>2, <2>4 DEF setsignal, OfKind
    <3>2. Called(s)' = Called(s)
      BY <2>1, <2>4 DEF Called, Wanted
    <3> QED BY <1>a, <2>1, <3>1, <3>2 DEF Sound
  <2> QED BY <2>3, <2>4
<1>6. CASE (\E mode \in ForkModes : forkchild(mode)) \/ SubshellInPlace
  <2>1. MInv
    OBVIOUS
  <2> QED BY <1>6, <1>a, <2>1, Forks
<1>7. CASE Signal
  BY <1>7, <1>b DEF Signal, onsig, Interrupt
<1>8. CASE UNCHANGED vars
  BY <1>8, <1>b DEF vars, trapVars, modeVars
<1> QED BY <1>1, <1>2, <1>3, <1>4, <1>5, <1>6, <1>7, <1>8 DEF Next, Shell, Commands

\* The invariants that hold together.
AInv == TInv /\ CInv /\ MInv

\* Types, the count of the actions and the dispositions, which rest on each
\* other, are right in every state.
THEOREM AInvInvariant == Spec => []AInv
<1>1. Init => CInv /\ MInv
  <2> SUFFICES ASSUME Init PROVE CInv /\ MInv
    OBVIOUS
  <2>1. NonEmpty(trap) = {} /\ trapcnt = 0 /\ pc # "operands"
    BY TrapAssumption DEF Init, NonEmpty
  <2>2. CInv
    BY <2>1, FS_EmptySet DEF CInv, CountInv
  <2>3. ASSUME NEW s \in Signals PROVE Sound(s)
    <3>1. s \in Conditions
      BY SignalConditions
    <3>2. trap[s] = "null"
      BY <3>1 DEF Init
    <3> QED BY <3>2 DEF Init, Sound, Called, Wanted
  <2> QED BY <2>2, <2>3 DEF MInv
<1>2. AInv /\ TInv' /\ [Next]_vars => AInv'
  BY CInvStep, MInvStep DEF AInv
<1>3. TInv /\ CInv /\ MInv => AInv
  BY DEF AInv
<1> QED BY <1>1, <1>2, <1>3, TInvInvariant, PTL DEF Spec

\* Whatever the order of trap, set and forks, the kernel is asked for what the
\* traps and options call for.
THEOREM SigmodeCorrect == Spec => []SigmodeInv
<1>1. AInv => SigmodeInv
  BY DEF AInv, MInv, Sound, SigmodeInv
<1> QED BY <1>1, AInvInvariant, PTL

\* A subshell has the default action for what its parent traps, and ignores what
\* its parent ignores, however it comes to be.
THEOREM SubshellsReset == Spec => SubshellResets
<1>1. AInv /\ [Next]_vars =>
        [level' > level =>
           \A s \in Signals :
             /\ trap[s] \in Action /\ Kind[s] # "chld" => (Disposition(s) # "onsig")'
             /\ trap[s] = "empty" /\ Kind[s] # "chld" => (Disposition(s) = "SIG_IGN")']_vars
  <2> SUFFICES ASSUME AInv, [Next]_vars, level' > level, NEW s \in Signals
               PROVE  /\ trap[s] \in Action /\ Kind[s] # "chld" => (Disposition(s) # "onsig")'
                      /\ trap[s] = "empty" /\ Kind[s] # "chld" => (Disposition(s) = "SIG_IGN")'
    OBVIOUS
  <2>1. TypeOK /\ CountInv /\ MInv /\ level \in Nat
    BY DEF AInv, TInv, CInv, TypeOK
  <2>2. level' # level
    BY <2>1
  <2>3. (\E mode \in ForkModes : forkchild(mode)) \/ SubshellInPlace
    <3>1. ~(Evaltree \/ Dotrap \/ Exitshell)
      BY <2>2 DEF Evaltree, EvalEntry, EvalTail, NextCommand, SkipEnds, DotrapEnter, Dotrap, DotrapRun,
         DotrapReturn, ActionEnds, Exitshell, LastCommand, ExitPending, ExitTrap, ExitOut, modeVars
    <3>2. ~(Command \/ Skip \/ TrapReturn \/ Exit \/ Error \/ TrapCommand \/ SetMonitor)
      BY <2>2 DEF Command, Skip, TrapReturn, Exit, Error, TrapCommand, SetMonitor, modeVars
    <3>3. ~(\E c \in Conditions : TrapOperand(c))
      BY <2>2 DEF TrapOperand, modeVars
    <3>4. ~Signal /\ ~UNCHANGED vars
      BY <2>2 DEF Signal, onsig, Interrupt, modeVars, vars
    <3> QED BY <3>1, <3>2, <3>3, <3>4 DEF Next, Shell, Commands
  <2>4. /\ trap[s] \in Action /\ Kind[s] # "chld" => sigmode'[s] # "S_CATCH"
        /\ trap[s] = "empty" /\ Kind[s] # "chld" =>
             sigmode'[s] = "S_IGN" \/ (sigmode'[s] = "unknown" /\ s \in EntryIgnored)
    BY <2>1, <2>3, Forks
  <2> QED BY <2>4 DEF Disposition, HardIgnored
<1> QED BY <1>1, AInvInvariant, PTL DEF Spec, SubshellResets
-----------------------------------------------------------------------------
(* Signals ignored on entry, and flagged signals: what holds of the shell    *)
(* itself, which is at level 0 and never returns to it.                      *)

\* Only forks change the level, and they raise it.
LEMMA LevelStep ==
  ASSUME TypeOK, [Next]_vars, level' = 0
  PROVE  /\ level = 0
         /\ ~((\E mode \in ForkModes : forkchild(mode)) \/ SubshellInPlace)
         /\ UNCHANGED iflag
<1>1. level \in Nat
  BY DEF TypeOK
<1>2. ~((\E mode \in ForkModes : forkchild(mode)) \/ SubshellInPlace)
  <2>1. \A mode : forkchild(mode) => level' = level + 1
    BY Zenon DEF forkchild
  <2>2. SubshellInPlace => level' = level + 1
    BY Zenon DEF SubshellInPlace
  <2> QED BY <1>1, <2>1, <2>2
<1>3. CASE Evaltree \/ Dotrap \/ Exitshell
  BY <1>2, <1>3 DEF Evaltree, EvalEntry, EvalTail, NextCommand, SkipEnds, DotrapEnter, Dotrap, DotrapRun,
     DotrapReturn, ActionEnds, Exitshell, LastCommand, ExitPending, ExitTrap, ExitOut, modeVars
<1>4. CASE Command \/ Skip \/ TrapReturn \/ Exit \/ Error \/ TrapCommand \/ SetMonitor
  BY <1>2, <1>4 DEF Command, Skip, TrapReturn, Exit, Error, TrapCommand, SetMonitor, modeVars
<1>5. CASE \E c \in Conditions : TrapOperand(c)
  BY <1>2, <1>5 DEF TrapOperand, modeVars
<1>6. CASE Signal \/ UNCHANGED vars
  BY <1>2, <1>6 DEF Signal, onsig, Interrupt, modeVars, vars
<1> QED BY <1>2, <1>3, <1>4, <1>5, <1>6 DEF Next, Shell, Commands

\* setsignal never learns of such a signal: it stays as it was found.
Kept == level = 0 => \A s \in EntryIgnored : Kind[s] # "chld" => sigmode[s] = "unknown"

\* setsignal leaves alone what it finds ignored; only forkchild's ignoresig
\* does not ask.
THEOREM KeptStep == TypeOK /\ Kept /\ [Next]_vars => Kept'
<1> SUFFICES ASSUME TypeOK, Kept, [Next]_vars, level' = 0,
                    NEW s \in EntryIgnored, Kind[s] # "chld"
             PROVE  sigmode'[s] = "unknown"
  BY DEF Kept
<1>1. s \in Signals /\ sigmode[s] = "unknown"
  BY LevelStep, TrapAssumption DEF Kept
<1>2. CASE UNCHANGED sigmode
  BY <1>1, <1>2
<1>3. ASSUME NEW S, NEW t, NEW cnt, NEW i, NEW m, sigmode' = setsignal(S, t, cnt, i, m, FALSE, sigmode)
      PROVE  sigmode'[s] = "unknown"
  BY <1>1, <1>3, Zenon DEF setsignal, HardIgnored
<1>4. CASE Evaltree \/ Dotrap \/ Exitshell
  BY <1>2, <1>4 DEF Evaltree, EvalEntry, EvalTail, NextCommand, SkipEnds, DotrapEnter, Dotrap, DotrapRun,
     DotrapReturn, ActionEnds, Exitshell, LastCommand, ExitPending, ExitTrap, ExitOut, trapVars
<1>5. CASE Command \/ Skip \/ TrapReturn \/ Exit \/ Error \/ TrapCommand
  BY <1>2, <1>5 DEF Command, Skip, TrapReturn, Exit, Error, TrapCommand, trapVars
<1>6. CASE SetMonitor
  <2>1. \E S, i, m : sigmode' = setsignal(S, trap, trapcnt, i, m, FALSE, sigmode)
    BY <1>6, Zenon DEF SetMonitor, optschanged
  <2> QED BY <1>3, <2>1, Zenon
<1>7. ASSUME NEW c \in Conditions, TrapOperand(c) PROVE sigmode'[s] = "unknown"
  <2>1. sigmode' = setsignal({c} \ {EXIT}, trap', trapcnt', iflag, mflag, FALSE, sigmode)
    BY <1>7 DEF TrapOperand
  <2> QED BY <1>3, <2>1, Zenon
<1>8. CASE Signal \/ UNCHANGED vars
  BY <1>2, <1>8 DEF Signal, onsig, Interrupt, trapVars, vars
<1> QED BY <1>4, <1>5, <1>6, <1>7, <1>8, LevelStep DEF Next, Shell, Commands

\* trap has no effect on a signal that was ignored on entry, except SIGCHLD.
THEOREM EntryKept == Spec => []EntryIgnoredKept
<1>1. Init => Kept
  BY TrapAssumption DEF Init, Kept
<1>2. Kept => EntryIgnoredKept
  BY DEF Kept, EntryIgnoredKept, Disposition, HardIgnored
<1> QED BY <1>1, <1>2, KeptStep, TypeCorrect, PTL DEF Spec

\* Only exitshell, behind its own handler, runs what leaves to the end of the
\* shell.
Leaving == {"exit", "exittrap", "out"}
Exits(q) == \E k \in 1 .. Len(q) : q[k].at \in {"exit", "EXIT"}
LInv == level = 0 /\ handler = "main" => pc \notin Leaving /\ ~Exits(stack)

\* What can happen in a shell at level 0 with main's handler, that keeps it:
\* the stack grows, shrinks, advances or is abandoned.
LEMMA ExceptionStep ==
  ASSUME TypeOK, handler = "main", handler' = "main"
  PROVE  /\ \A st : ~ExitWith(st)
         /\ \A st : Raise(st) => iflag /\ pc' = "eval" /\ stack' = <<>>
         /\ onint => (iflag /\ pc' = "eval" /\ stack' = <<>>) \/ (~iflag /\ pc' = "dead" /\ stack' = stack)
<1>1. \A st : ~ExitWith(st)
  BY DEF ExitWith
<1>2. \A st : Raise(st) => iflag /\ pc' = "eval" /\ stack' = <<>>
  BY <1>1 DEF Raise
<1> QED BY <1>1, <1>2 DEF onint

\* The end of a command, and an interrupt that its INTON delivers, leave the
\* stack alone or abandon it.
LEMMA FinishStays ==
  ASSUME TypeOK, handler = "main", handler' = "main", NEW st, NEW skip, Finish(st, skip)
  PROVE  \/ pc' = "tail" /\ stack' = stack
         \/ iflag /\ pc' = "eval" /\ stack' = <<>>
         \/ ~iflag /\ pc' = "dead" /\ stack' = stack
BY ExceptionStep DEF Finish

\* No step that keeps main's handler starts to leave.
LEMMA LInvStep == TInv /\ LInv /\ [Next]_vars => LInv'
<1> SUFFICES ASSUME TInv, LInv, [Next]_vars, level' = 0, handler' = "main"
             PROVE  pc' \notin Leaving /\ ~Exits(stack')
  BY DEF LInv, Leaving, Exits
<1>a. TypeOK /\ level = 0
  BY LevelStep DEF TInv
<1>b. \A k \in 1 .. Len(stack) : stack[k] \in Frames
  BY <1>a, ElementOfSeq DEF TypeOK
<1>c. Len(stack) \in Nat /\ Len(<<>>) = 0
  BY <1>a DEF TypeOK
<1>d. ~Exits(<<>>)
  BY <1>c DEF Exits
<1>1. CASE handler = "main"
  <2>a. pc \notin Leaving /\ ~Exits(stack)
    BY <1>a, <1>1 DEF LInv
  <2>1. ASSUME NEW at \in {"entry", "tail"}, NEW cont \in Points \ Leaving, DotrapEnter(at, cont)
        PROVE  pc' \notin Leaving /\ ~Exits(stack')
    <3>1. CASE pending_sig = 0
      BY <2>a, <2>1, <3>1 DEF DotrapEnter, Exits
    <3>2. CASE pending_sig # 0
      <4> DEFINE f == [at |-> at, i |-> 1, saved |-> savestatus, entry |-> exitstatus]
      <4>1. f \in Frames /\ f.at \notin {"exit", "EXIT"}
        BY <1>a DEF TypeOK, Frames, Places
      <4>2. stack' = Append(stack, f) /\ pc' = "loop"
        BY <2>1, <3>2 DEF DotrapEnter
      <4> HIDE DEF f
      <4>3. /\ Len(stack') = Len(stack) + 1 /\ stack'[Len(stack) + 1] = f
            /\ \A k \in 1 .. Len(stack) : stack'[k] = stack[k]
        BY <1>a, <4>1, <4>2, PushFrame
      <4> QED BY <1>c, <2>a, <4>1, <4>2, <4>3 DEF Exits, Leaving
    <3> QED BY <3>1, <3>2
  <2>2. CASE EvalEntry
    BY <2>1, <2>2 DEF EvalEntry, Points, Leaving
  <2>3. CASE EvalTail
    BY <2>1, <2>3 DEF EvalTail, Points, Leaving
  <2>4. CASE NextCommand \/ SkipEnds
    BY <2>a, <2>4 DEF NextCommand, SkipEnds, Exits, Leaving
  <2>5. CASE DotrapRun
    <3> DEFINE f == [at |-> Top.at, i |-> Lowest(Flagged) + 1, saved |-> Top.saved, entry |-> Top.entry]
    <3>1. stack # <<>>
      BY <2>5 DEF DotrapRun, TInv, PcInv
    <3>2. Top \in Frames /\ Len(stack) \in Nat \ {0} /\ stack \in Seq(Frames)
      BY <1>a, <3>1, TopFrame DEF TypeOK
    <3>3. f \in Frames /\ f.at = Top.at
      <4>1. Lowest(Flagged) \in Nat
        BY <1>a, <2>5, LowestFlagged, SignalConditions DEF DotrapRun
      <4> QED BY <3>2, <4>1 DEF Frames
    <3>4. stack' = [stack EXCEPT ![Len(stack)] = f] /\ pc' \in {"crashed", "loop", "eval"}
      BY <2>5 DEF DotrapRun
    <3> HIDE DEF f
    <3>5. /\ Len(stack') = Len(stack)
          /\ \A k \in 1 .. Len(stack) : stack'[k] = IF k = Len(stack) THEN f ELSE stack[k]
      BY <3>2, <3>3, <3>4, ExceptSeq
    <3> QED BY <2>a, <3>2, <3>3, <3>4, <3>5 DEF Exits, Leaving, Top
  <2>6. ASSUME pc = "loop" \/ pc = "next", stack # <<>>, stack' = Pop
        PROVE  /\ Top.at \in {"entry", "tail"}
               /\ ~Exits(stack')
    <3>1. /\ Len(stack) \in Nat \ {0} /\ Len(Pop) = Len(stack) - 1
          /\ \A k \in 1 .. Len(Pop) : Pop[k] = stack[k]
      BY <1>a, <2>6, TopFrame
    <3>2. Top.at \in Places
      BY <1>b, <3>1 DEF Top, Frames
    <3> QED BY <2>a, <2>6, <3>1, <3>2 DEF Exits, Top, Places
  <2>7. CASE DotrapReturn
    <3>1. pc = "loop" /\ stack # <<>> /\ stack' = Pop
      BY <2>7 DEF DotrapReturn, TInv, PcInv
    <3> QED BY <2>6, <2>7, <3>1 DEF DotrapReturn, Leaving
  <2>8. CASE ActionEnds
    <3>1. stack # <<>> /\ pc = "next"
      BY <2>8 DEF ActionEnds
    <3>2. Len(stack) \in 1 .. Len(stack)
      BY <1>a, <3>1, TopFrame
    <3>3. Top.at # "EXIT"
      BY <2>a, <3>2 DEF Exits, Top
    <3> QED BY <2>a, <2>8, <3>3 DEF ActionEnds, Exits, Leaving
  <2>9. ASSUME \E st, skip : Finish(st, skip) PROVE pc' \notin Leaving /\ ~Exits(stack')
    BY <1>1, <1>a, <1>d, <2>a, <2>9, FinishStays DEF Leaving, Exits
  <2>10. CASE Command \/ Skip \/ TrapReturn \/ SetMonitor
    <3>1. \E st, skip : Finish(st, skip)
      BY <2>10, Zenon DEF Command, Skip, TrapReturn, SetMonitor
    <3> QED BY <2>9, <3>1
  <2>11. CASE TrapCommand
    BY <2>a, <2>11 DEF TrapCommand, Exits, Leaving
  <2>12. CASE \E c \in Conditions : TrapOperand(c)
    BY <2>a, <2>12 DEF TrapOperand, Exits, Leaving
  <2>13. CASE Exit \/ Error \/ LastCommand
    <3>1. (\E st : ExitWith(st)) \/ \E st : Raise(st)
      BY <2>13, Zenon DEF Exit, Error, LastCommand
    <3> QED BY <1>1, <1>a, <1>d, <3>1, ExceptionStep DEF Leaving
  <2>14. CASE ExitPending \/ ExitTrap \/ ExitOut
    BY <2>a, <2>14 DEF ExitPending, ExitTrap, ExitOut, Leaving
  <2>15. ASSUME NEW s \in Signals, onsig(s) \/ Interrupt(s)
         PROVE  pc' \notin Leaving /\ ~Exits(stack')
    <3>1. CASE UNCHANGED <<pc, stack>>
      BY <2>a, <3>1 DEF Exits
    <3>2. CASE onint
      BY <1>1, <1>a, <1>d, <2>a, <3>2, ExceptionStep DEF Leaving, Exits
    <3>3. UNCHANGED <<pc, stack>> \/ onint
      BY <2>15 DEF onsig, Interrupt
    <3> QED BY <3>1, <3>2, <3>3
  <2>16. CASE UNCHANGED vars
    BY <2>a, <2>16 DEF vars, Exits
  <2> QED
    BY <1>a, <2>2, <2>3, <2>4, <2>5, <2>7, <2>8, <2>10, <2>11, <2>12, <2>13, <2>14, <2>15, <2>16, LevelStep
    DEF Next, Shell, Evaltree, Dotrap, Commands, Exitshell, Signal
<1>2. CASE handler # "main"
  <2>1. UNCHANGED handler \/ handler' = "loc"
    <3>1. CASE Evaltree \/ Dotrap \/ ExitPending \/ ExitTrap \/ ExitOut
      BY <3>1 DEF Evaltree, EvalEntry, EvalTail, NextCommand, SkipEnds, DotrapEnter, Dotrap, DotrapRun,
         DotrapReturn, ActionEnds, ExitPending, ExitTrap, ExitOut, excVars
    <3>2. /\ \A st : ExitWith(st) \/ Raise(st) => UNCHANGED handler
          /\ onint => UNCHANGED handler
          /\ \A st, skip : Finish(st, skip) => UNCHANGED handler
      BY <1>2 DEF ExitWith, Raise, onint, Finish
    <3>3. CASE Command \/ Skip \/ TrapReturn \/ SetMonitor \/ Exit \/ Error \/ LastCommand
      BY <3>2, <3>3, Zenon DEF Command, Skip, TrapReturn, SetMonitor, Exit, Error, LastCommand
    <3>4. CASE TrapCommand \/ \E c \in Conditions : TrapOperand(c)
      BY <3>4 DEF TrapCommand, TrapOperand, excVars
    <3>5. CASE Signal \/ UNCHANGED vars
      BY <3>2, <3>5 DEF Signal, onsig, Interrupt, excVars, vars
    <3> QED BY <1>a, <3>1, <3>3, <3>4, <3>5, LevelStep DEF Next, Shell, Commands, Exitshell
  <2> QED BY <1>2, <2>1
<1> QED BY <1>1, <1>2

\* What PendingInv says of one signal.
Awaited(s) == pending_sig # 0 \/ \E k \in 1 .. Len(stack) : stack[k].i <= s

\* dotrap's bookkeeping loses no flag: a new activation looks at all signals,
\* one that advances has taken the lowest, and one that ends early passes on
\* what it has not come to.
LEMMA DotrapAwaits ==
  ASSUME TInv, DotrapRun \/ DotrapReturn, NEW s \in gotsig', Awaited(s)
  PROVE  Awaited(s)'
<1>a. TypeOK /\ stack # <<>> /\ s \in gotsig /\ s \in Nat \ {0}
  BY SignalConditions DEF TInv, TypeOK, PcInv, DotrapRun, DotrapReturn
<1>b. /\ Len(stack) \in Nat \ {0} /\ stack \in Seq(Frames) /\ Top \in Frames /\ Top.i \in Nat
      /\ Len(Pop) = Len(stack) - 1 /\ \A k \in 1 .. Len(Pop) : Pop[k] = stack[k]
  BY <1>a, TopFrame DEF TypeOK, Frames
<1>c. Top.i <= s <=> s \in Flagged
  BY <1>a, <1>b DEF Flagged
<1>1. CASE DotrapRun
  <2> DEFINE f == [at |-> Top.at, i |-> Lowest(Flagged) + 1, saved |-> Top.saved, entry |-> Top.entry]
  <2>1. /\ Lowest(Flagged) \in Nat /\ \A r \in Flagged : Lowest(Flagged) <= r
        /\ s # Lowest(Flagged)
    BY <1>1, <1>a, LowestFlagged, SignalConditions DEF DotrapRun
  <2>2. f \in Frames /\ f.i = Lowest(Flagged) + 1
    BY <1>b, <2>1 DEF Frames
  <2>3. stack' = [stack EXCEPT ![Len(stack)] = f] /\ pending_sig' = pending_sig
    BY <1>1 DEF DotrapRun
  <2> HIDE DEF f
  <2>4. /\ Len(stack') = Len(stack)
        /\ \A k \in 1 .. Len(stack) : stack'[k] = IF k = Len(stack) THEN f ELSE stack[k]
    BY <1>b, <2>2, <2>3, ExceptSeq
  <2>5. CASE pending_sig # 0
    BY <2>3, <2>5 DEF Awaited
  <2>6. CASE Top.i <= s
    <3>1. f.i <= s
      BY <1>a, <1>c, <2>1, <2>2, <2>6
    <3> QED BY <1>b, <2>4, <3>1 DEF Awaited
  <2>7. ASSUME NEW k \in 1 .. Len(stack), k # Len(stack), stack[k].i <= s
        PROVE  Awaited(s)'
    BY <2>4, <2>7 DEF Awaited
  <2> QED BY <2>5, <2>6, <2>7 DEF Awaited, Top
<1>2. CASE DotrapReturn
  <2>1. stack' = Pop /\ pending_sig' = IF Flagged = {} THEN pending_sig ELSE Lowest(Flagged)
    BY <1>2 DEF DotrapReturn
  <2>2. CASE Flagged # {}
    <3>1. pending_sig' # 0
      BY <1>a, <2>1, <2>2, LowestFlagged, SignalConditions
    <3> QED BY <3>1 DEF Awaited
  <2>3. CASE Flagged = {} /\ pending_sig # 0
    BY <2>1, <2>3 DEF Awaited
  <2>4. CASE Flagged = {} /\ pending_sig = 0
    <3>1. PICK k \in 1 .. Len(stack) : stack[k].i <= s
      BY <2>4 DEF Awaited
    <3>2. k # Len(stack)
      BY <1>c, <2>4, <3>1 DEF Top
    <3>3. k \in 1 .. Len(Pop) /\ Pop[k].i <= s
      BY <1>b, <3>1, <3>2
    <3> QED BY <2>1, <3>3 DEF Awaited
  <2> QED BY <2>2, <2>3, <2>4
<1> QED BY <1>1, <1>2

\* A call of dotrap starts an activation that looks at every signal.
LEMMA EnterAwaits ==
  ASSUME TInv, NEW at \in Places, NEW cont, DotrapEnter(at, cont), NEW s \in gotsig, Awaited(s)
  PROVE  Awaited(s)'
<1>1. CASE pending_sig = 0
  BY <1>1 DEF DotrapEnter, Awaited
<1>2. CASE pending_sig # 0
  <2> DEFINE f == [at |-> at, i |-> 1, saved |-> savestatus, entry |-> exitstatus]
  <2>1. TypeOK /\ s \in Nat \ {0} /\ Len(stack) \in Nat
    BY SignalConditions DEF TInv, TypeOK
  <2>2. f \in Frames /\ f.i = 1
    BY DEF TInv, TypeOK, Frames
  <2>3. stack' = Append(stack, f)
    BY <1>2 DEF DotrapEnter
  <2> HIDE DEF f
  <2>4. Len(stack') = Len(stack) + 1 /\ stack'[Len(stack) + 1] = f
    BY <2>1, <2>2, <2>3, PushFrame
  <2>5. Len(stack) + 1 \in 1 .. Len(stack') /\ stack'[Len(stack) + 1].i <= s
    BY <2>1, <2>2, <2>4
  <2> QED BY <2>5 DEF Awaited
<1> QED BY <1>1, <1>2

\* Every step of a shell that is not interactive keeps its flagged signals
\* awaited, or leaves main's handler.
LEMMA PendingStep == TInv /\ LInv /\ PendingInv /\ [Next]_vars => PendingInv'
<1> SUFFICES ASSUME TInv, LInv, PendingInv, [Next]_vars, level' = 0, ~iflag', handler' = "main", Alive',
                    NEW s \in gotsig'
             PROVE  Awaited(s)'
  BY DEF PendingInv, Awaited
<1>c. TypeOK
  BY DEF TInv
<1>d. /\ level = 0 /\ UNCHANGED iflag
      /\ ~((\E mode \in ForkModes : forkchild(mode)) \/ SubshellInPlace)
  BY <1>c, LevelStep
<1>a. TypeOK /\ level = 0 /\ ~iflag
  BY <1>c, <1>d, Zenon
<1>b. UNCHANGED <<gotsig, pending_sig, stack>> /\ Awaited(s) => Awaited(s)'
  BY DEF Awaited
<1>1. CASE UNCHANGED vars
  BY <1>1, <1>a, <1>b, Zenon DEF vars, PendingInv, Awaited, Alive
<1>2. CASE Next /\ handler = "main"
  <2>0. Alive
    BY <1>2 DEF Alive, Next, Shell, Signal, Evaltree, EvalEntry, EvalTail, NextCommand, SkipEnds, Dotrap, DotrapRun,
       DotrapReturn, ActionEnds, Commands, Command, Skip, TrapReturn, Exit, Error, TrapCommand, SetMonitor,
       TrapOperand, forkchild, SubshellInPlace, Exitshell, LastCommand, ExitPending, ExitTrap, ExitOut, onsig, Interrupt
  <2>1. \A r \in gotsig : Awaited(r)
    BY <1>2, <1>a, <2>0 DEF PendingInv, Awaited
  <2>2. pc \notin Leaving /\ ~Exits(stack)
    BY <1>2, <1>a DEF LInv
  <2>3. CASE EvalEntry \/ EvalTail
    <3>1. \E at \in Places : \E cont : DotrapEnter(at, cont)
      BY <2>3, Zenon DEF EvalEntry, EvalTail, Places
    <3>2. gotsig' = gotsig
      BY <2>3 DEF EvalEntry, EvalTail, DotrapEnter
    <3> QED BY <2>1, <3>1, <3>2, EnterAwaits
  <2>4. CASE DotrapRun \/ DotrapReturn
    <3>1. s \in gotsig
      BY <2>4 DEF DotrapRun, DotrapReturn
    <3> QED BY <2>1, <2>4, <3>1, DotrapAwaits
  <2>5. CASE NextCommand \/ SkipEnds \/ TrapCommand \/ \E c \in Conditions : TrapOperand(c)
    BY <1>b, <2>1, <2>5 DEF NextCommand, SkipEnds, TrapCommand, TrapOperand, sigVars
  <2>6. CASE ActionEnds
    <3>1. stack # <<>>
      BY <2>6 DEF ActionEnds
    <3>2. Len(stack) \in 1 .. Len(stack)
      BY <1>a, <3>1, TopFrame
    <3>3. Top.at # "EXIT"
      BY <2>2, <3>2 DEF Exits, Top
    <3> QED BY <1>b, <2>1, <2>6, <3>3 DEF ActionEnds, sigVars
  <2>7. CASE Command \/ Skip \/ TrapReturn \/ SetMonitor
    <3>1. \E st, skip : Finish(st, skip)
      BY <2>7, Zenon DEF Command, Skip, TrapReturn, SetMonitor
    <3>2. stack' = stack
      BY <1>2, <1>a, <3>1, FinishStays DEF Alive
    <3>3. UNCHANGED <<gotsig, pending_sig>>
      BY <2>7 DEF Command, Skip, TrapReturn, SetMonitor, sigVars
    <3> QED BY <1>b, <2>1, <3>2, <3>3
  <2>8. ~(Exit \/ Error \/ LastCommand)
    <3>1. ~(\E st : ExitWith(st)) /\ ~(\E st : Raise(st))
      BY <1>2, <1>a, ExceptionStep
    <3> QED BY <3>1, Zenon DEF Exit, Error, LastCommand
  <2>9. ~(ExitPending \/ ExitTrap \/ ExitOut)
    BY <2>2 DEF ExitPending, ExitTrap, ExitOut, Leaving
  <2>10. ASSUME NEW r \in Signals, onsig(r) PROVE Awaited(s)'
    <3>1. pending_sig' # 0
      BY <2>10, SignalConditions DEF onsig
    <3> QED BY <3>1 DEF Awaited
  <2>11. ASSUME NEW r \in Signals, Interrupt(r) PROVE Awaited(s)'
    <3>1. ~onint
      BY <1>2, <1>a, ExceptionStep DEF Alive
    <3> QED BY <1>b, <2>1, <2>11, <3>1 DEF Interrupt, sigVars
  <2> QED
    BY <1>2, <1>d, <2>3, <2>4, <2>5, <2>6, <2>7, <2>8, <2>9, <2>10, <2>11, Zenon
    DEF Next, Shell, Evaltree, Dotrap, Commands, Exitshell, Signal
<1>3. CASE Next /\ handler # "main"
  \* Only a fork installs main's handler again.
  <2>1. /\ \A st : ExitWith(st) \/ Raise(st) => UNCHANGED handler
        /\ onint => UNCHANGED handler
        /\ \A st, skip : Finish(st, skip) => UNCHANGED handler
    BY <1>3 DEF ExitWith, Raise, onint, Finish
  <2>2. CASE Evaltree \/ Dotrap \/ ExitPending \/ ExitTrap \/ ExitOut
    BY <1>3, <2>2 DEF Evaltree, EvalEntry, EvalTail, NextCommand, SkipEnds, DotrapEnter, Dotrap, DotrapRun,
       DotrapReturn, ActionEnds, ExitPending, ExitTrap, ExitOut, excVars
  <2>3. CASE Command \/ Skip \/ TrapReturn \/ SetMonitor \/ Exit \/ Error \/ LastCommand
    <3>1. UNCHANGED handler
      BY <2>1, <2>3, Zenon DEF Command, Skip, TrapReturn, SetMonitor, Exit, Error, LastCommand
    <3> QED BY <1>3, <3>1
  <2>4. CASE TrapCommand \/ \E c \in Conditions : TrapOperand(c)
    BY <1>3, <2>4 DEF TrapCommand, TrapOperand, excVars
  <2>5. CASE Signal
    BY <1>3, <2>1, <2>5 DEF Signal, onsig, Interrupt, excVars
  <2> QED BY <1>3, <1>d, <2>2, <2>3, <2>4, <2>5, Zenon DEF Next, Shell, Commands, Exitshell
<1> QED BY <1>1, <1>2, <1>3

\* No flagged signal is forgotten by a shell that is not interactive, in any
\* nesting of actions, until it exits.
THEOREM NoneForgotten == Spec => []PendingInv
<1>1. Init => LInv /\ PendingInv
  BY SMT DEF Init, LInv, PendingInv, Leaving, Exits
<1>2. TInv /\ (LInv /\ PendingInv) /\ [Next]_vars => (LInv /\ PendingInv)'
  BY LInvStep, PendingStep
<1> QED BY <1>1, <1>2, TInvInvariant, PTL DEF Spec

=============================================================================

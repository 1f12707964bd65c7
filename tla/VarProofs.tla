------------------------------- MODULE VarProofs -------------------------------
(***************************************************************************)
(* Theorems about Var: every text has one owner, a variable that a scope   *)
(* saved stays, the functions of variables are told of every change, and   *)
(* Var implements Env, for any number of names, texts, scopes and entries. *)
(***************************************************************************)
EXTENDS Var, FiniteSetTheorems, SequenceTheorems, WellFoundedInduction, TLAPS

(***************************************************************************)
(* Who holds a text: a variable, at the level Top, or an entry of a scope, *)
(* at the depth of its scope.  An entry of a variable that the scope       *)
(* created holds none.                                                     *)
(***************************************************************************)

Top == MaxDepth + 1
Cur(tab, n) ==
  [name |-> n, level |-> Top, flags |-> tab[n].flags, text |-> tab[n].text, local |-> tab[n].local]
Old(k, l) == [name |-> l.vp, level |-> k, flags |-> l.flags, text |-> l.text, local |-> l.local]
Entries(st) == UNION {{<<k, st[k].lv[i]>> : i \in DOMAIN st[k].lv} : k \in DOMAIN st}
Holders(tab, E) ==
  {Cur(tab, n) : n \in DOMAIN tab} \cup {Old(e[1], e[2]) : e \in {f \in E : f[2].vp \in Names}}

Fresh(x) == x.level # Top /\ x.flags = {"unset"}
Owns(x) == ~Fresh(x) /\ "textfixed" \notin x.flags

\* Of one name there is the variable and at most one entry of each scope;
\* local is the scope below.
Chain(H) ==
  /\ \A x, y \in H : x.name = y.name /\ x.level = y.level => x = y
  /\ \A x \in H : \E y \in H : y.name = x.name /\ y.level = Top
  /\ \A x \in H :
       /\ x.local < x.level
       /\ x.local # 0 => \E y \in H : y.name = x.name /\ y.level = x.local
       /\ \A y \in H : y.name = x.name /\ y.level < x.level => y.level <= x.local

\* What the flags say; those of the variables in un are about to be removed.
Marked(x) == "unset" \in x.flags => x.flags \cap {"export", "readonly", "strfixed"} # {}
Flagged(H, un) ==
  \A x \in H :
    IF Fresh(x) THEN x.local = 0 /\ x.name \notin Special
    ELSE /\ x.name \notin un => Marked(x)
         /\ x.local # 0 \/ x.name \in Special => "strfixed" \in x.flags

\* Every text has one owner, at the level of each holder or below it.
Lives(H, h, x) ==
  /\ h[x.text] # "free"
  /\ "unset" \in x.flags => h[x.text] = ""
  /\ "textfixed" \notin x.flags => x.text # "static"
  /\ "textfixed" \in x.flags =>
       /\ x.local = 0 => x.text = "static"
       /\ \A y \in H : y.name = x.name /\ y.level = x.local => ~Fresh(y) /\ y.text = x.text
  /\ x.text # "static" =>
       \E y \in H : Owns(y) /\ y.name = x.name /\ y.text = x.text /\ y.level <= x.level
Owned(H, h) ==
  /\ \A x \in H : ~Fresh(x) => Lives(H, h, x)
  /\ \A x, y \in H : Owns(x) /\ Owns(y) /\ x.text = y.text => x = y
  /\ \A c \in Heap : h[c] # "free" => \E x \in H : Owns(x) /\ x.text = c

Holder == [name : Names, level : 1 .. Top, flags : SUBSET Flags, text : Cells, local : 0 .. MaxDepth]
Valid(H, h, nm, un) ==
  /\ H \subseteq Holder
  /\ \A x \in H : x.level # Top \/ x.text # "static" => x.name \in nm
  /\ h \in [Cells -> Texts \cup {"free"}] /\ h["static"] = ""
  /\ Chain(H) /\ Flagged(H, un) /\ Owned(H, h)

\* The states that the functions of var.c work on, with entries E.
ValueIn(tab, h, n) == IF "unset" \in tab[n].flags THEN "" ELSE h[tab[n].text]
TabOK(tab, nm) ==
  /\ DOMAIN tab \subseteq nm \cup Special /\ Special \subseteq DOMAIN tab /\ nm \subseteq Names
  /\ \A n \in DOMAIN tab : tab[n] \in Var
ToldOK(tab, h, t) ==
  /\ t \in [Special -> Texts] /\ \A n \in Special : t[n] = ValueIn(tab, h, n)
Sane(tab, h, t, E, nm, un) ==
  TabOK(tab, nm) /\ ToldOK(tab, h, t) /\ Valid(Holders(tab, E), h, nm, un)

\* The stack: a name has one entry in a scope.
EntryOK(l, nm) == l \in Saved /\ l.vp \in nm \cup {"-"}
ListOK(lv, nm) ==
  /\ lv \in Seq(Saved) /\ \A i \in DOMAIN lv : EntryOK(lv[i], nm)
  /\ \A i, j \in DOMAIN lv : lv[i].vp = lv[j].vp /\ lv[i].vp \in Names => i = j
StackOK(st, nm) ==
  /\ st \in Seq([kind : Kinds, lv : Seq(Saved)]) /\ Len(st) <= MaxDepth
  /\ \A k \in DOMAIN st : ListOK(st[k].lv, nm)

VarInv ==
  /\ TypeOK /\ IsFiniteSet(names) /\ Cardinality(names) = MaxNames
  /\ pc # "crash" =>
       /\ StackOK(localvar_stack, names)
       /\ Sane(vartab, heap, told, Entries(localvar_stack), names, {})

(***************************************************************************)
(* How holders may change.                                                 *)
(***************************************************************************)

LEMMA TopIs ==
  /\ MaxDepth \in Nat /\ Top \in 1 .. Top /\ Top <= Top /\ \A k \in 1 .. Top : Top <= k => k = Top
  /\ 0 \in 0 .. MaxDepth /\ 0 < Top /\ 0 # Top /\ Top \notin 0 .. MaxDepth /\ ~(Top < Top)
  /\ \A k \in 1 .. MaxDepth : k \in 0 .. MaxDepth /\ k \in 1 .. Top /\ k # 0
  /\ \A k \in 1 .. Top : k <= k /\ k <= Top /\ ~(k < k) /\ ~(Top < k)
  /\ \A k \in 1 .. Top : (k # Top => k < Top) /\ (k < Top => k # Top /\ k \in 1 .. MaxDepth)
  /\ \A k \in 0 .. MaxDepth : k < Top /\ k # Top /\ (k # 0 => k \in 1 .. Top /\ k \in 1 .. MaxDepth)
<1>1. MaxDepth \in Nat
  BY VarAssumption
<1> QED BY <1>1 DEF Top

\* The text of a holder that owns it is held at its level and above, in the
\* chain of its name.
LEMMA OwnerBelow ==
  ASSUME NEW H, NEW h, Owned(H, h), NEW t \in H, Owns(t), NEW y \in H, ~Fresh(y), y.text = t.text
  PROVE  y.name = t.name /\ t.level <= y.level
<1>1. t.text # "static"
  BY DEF Owned, Lives, Owns
<1>2. PICK z \in H : Owns(z) /\ z.name = y.name /\ z.text = y.text /\ z.level <= y.level
  BY <1>1 DEF Owned, Lives
<1>3. z = t
  BY <1>2 DEF Owned, Lives
<1> QED BY <1>2, <1>3

LEMMA TopOwner ==
  ASSUME NEW H, NEW h, H \subseteq Holder, Chain(H), Owned(H, h), NEW t \in H, t.level = Top, Owns(t),
         NEW y \in H, ~Fresh(y), y.text = t.text
  PROVE  y = t
<1>1. y.name = t.name /\ t.level <= y.level
  BY OwnerBelow
<1>2. y.level \in 1 .. Top
  BY DEF Holder
<1>3. y.level = Top
  BY <1>1, <1>2, TopIs
<1> QED BY <1>1, <1>3 DEF Chain

\* A variable changes its flags and its text, not its place.
LEMMA ChainSame ==
  ASSUME NEW H, Chain(H), NEW t \in H, NEW x, x.name = t.name, x.level = t.level, x.local = t.local
  PROVE  Chain((H \ {t}) \cup {x})
<1> DEFINE G == (H \ {t}) \cup {x}
<1>1. \A y \in G : \E z \in H : /\ z.name = y.name /\ z.level = y.level /\ z.local = y.local
                               /\ y = x <=> z = t
  BY DEF Chain
<1>2. \A z \in H : \E y \in G : z.name = y.name /\ z.level = y.level
  OBVIOUS
<1>3. \A y, z \in G : y.name = z.name /\ y.level = z.level => y = z
  BY DEF Chain
<1>4. ASSUME NEW y \in G
      PROVE  \E z \in G : z.name = y.name /\ z.level = Top
  <2>1. PICK w \in H : w.name = y.name
    BY <1>1
  <2>2. PICK z \in H : z.name = w.name /\ z.level = Top
    BY DEF Chain
  <2> QED BY <1>2, <2>1, <2>2
<1>5. ASSUME NEW y \in G
      PROVE  /\ y.local < y.level
             /\ y.local # 0 => \E z \in G : z.name = y.name /\ z.level = y.local
             /\ \A z \in G : z.name = y.name /\ z.level < y.level => z.level <= y.local
  <2>1. PICK w \in H : w.name = y.name /\ w.level = y.level /\ w.local = y.local
    BY <1>1
  <2>2. w.local < w.level
    BY DEF Chain
  <2>3. w.local # 0 => \E z \in H : z.name = w.name /\ z.level = w.local
    BY DEF Chain
  <2>4. \A z \in H : z.name = w.name /\ z.level < w.level => z.level <= w.local
    BY DEF Chain
  <2>5. y.local # 0 => \E z \in G : z.name = y.name /\ z.level = y.local
    BY <1>2, <2>1, <2>3
  <2>6. \A z \in G : z.name = y.name /\ z.level < y.level => z.level <= y.local
    BY <1>1, <2>1, <2>4
  <2> QED BY <2>1, <2>2, <2>5, <2>6
<1> QED BY <1>3, <1>4, <1>5 DEF Chain

\* The texts of the holders of R stay as they are.
Keeps(R, h, k) == \A y \in R : ~Fresh(y) => k[y.text] = h[y.text]
FreedOf(h, x) == IF "textfixed" \in x.flags THEN h ELSE [h EXCEPT ![x.text] = "free"]

\* A variable gets a new text, its old one is freed if it owned it.
Write(h, c, v) == [h EXCEPT ![c] = v]
LEMMA Rewritten ==
  ASSUME NEW nm, NEW un, NEW H, NEW h, Valid(H, h, nm, un),
         NEW t \in H, t.level = Top, t.name \in nm,
         NEW g, g = FreedOf(h, t), NEW c \in Heap, g[c] = "free", NEW v \in Texts,
         NEW f \in SUBSET Flags, "textfixed" \notin f, "strfixed" \in t.flags => "strfixed" \in f,
         "unset" \in f => v = "",
         NEW x \in Holder, x.name = t.name, x.level = Top, x.local = t.local, x.flags = f, x.text = c,
         t.name \notin un => Marked(x), NEW k, k = Write(g, c, v)
  PROVE  Valid((H \ {t}) \cup {x}, k, nm, un) /\ Keeps(H \ {t}, h, k)
<1> DEFINE G == (H \ {t}) \cup {x}
<1>1. /\ H \subseteq Holder /\ Chain(H) /\ Flagged(H, un) /\ Owned(H, h)
      /\ \A y \in H : y.level # Top \/ y.text # "static" => y.name \in nm
      /\ h \in [Cells -> Texts \cup {"free"}] /\ h["static"] = ""
  BY DEF Valid
<1>2. x \in Holder /\ x.name = t.name /\ x.level = Top /\ x.local = t.local /\ x.flags = f /\ x.text = c
  BY <1>1 DEF Holder, Cells
<1>3. c # "static" /\ c \in Cells
  BY VarAssumption DEF Cells
<1>4. ~Fresh(t) /\ ~Fresh(x) /\ Owns(x)
  BY <1>2 DEF Fresh, Owns
<1>5. \A d \in Cells : g[d] = IF d = t.text /\ "textfixed" \notin t.flags THEN "free" ELSE h[d]
  BY <1>1 DEF FreedOf
<1>6. g \in [Cells -> Texts \cup {"free"}] /\ k \in [Cells -> Texts \cup {"free"}]
  BY <1>1 DEF FreedOf, Write
<1>7. "textfixed" \notin t.flags => t.text # "static"
  BY <1>1, <1>4 DEF Owned, Lives
<1>8. k["static"] = "" /\ k[c] = v /\ \A d \in Cells : d # c => k[d] = g[d]
  BY <1>1, <1>3, <1>5, <1>6, <1>7 DEF Cells, Write
<1>9. ASSUME NEW y \in H \ {t}, ~Fresh(y)
      PROVE  y.text # c /\ k[y.text] = h[y.text] /\ (Owns(t) => y.text # t.text)
  <2>1. Owns(t) => y.text # t.text
    BY <1>1, <1>9, TopOwner
  <2>2. y.text \in Cells
    BY <1>1 DEF Holder
  <2>3. g[y.text] = h[y.text]
    BY <1>4, <1>5, <2>1, <2>2 DEF Owns
  <2>4. h[y.text] # "free"
    BY <1>1, <1>9 DEF Owned, Lives
  <2> QED BY <1>8, <2>1, <2>2, <2>3, <2>4
<1>10. Chain(G)
  BY <1>1, <1>2, ChainSame
<1>11. Flagged(G, un)
  BY <1>1, <1>2, <1>4 DEF Flagged
<1>12. Owned(G, k)
  <2>1. v # "free"
    BY VarAssumption DEF Texts
  <2>2. ASSUME NEW y \in G, ~Fresh(y)
        PROVE  Lives(G, k, y)
    <3>1. CASE y = x
      <4>1. x.level <= x.level
        BY <1>2, TopIs
      <4> QED BY <1>2, <1>3, <1>4, <1>8, <2>1, <3>1, <4>1 DEF Lives
    <3>2. CASE y \in H \ {t}
      <4>1. /\ h[y.text] # "free"
            /\ "unset" \in y.flags => h[y.text] = ""
            /\ "textfixed" \notin y.flags => y.text # "static"
            /\ "textfixed" \in y.flags => (y.local = 0 => y.text = "static")
        BY <1>1, <2>2, <3>2 DEF Owned, Lives
      <4>2. k[y.text] = h[y.text]
        BY <1>9, <2>2, <3>2
      <4>3. ASSUME "textfixed" \in y.flags, NEW z \in G, z.name = y.name, z.level = y.local
            PROVE  ~Fresh(z) /\ z.text = y.text
        <5>1. y.local < y.level /\ y.level \in 1 .. Top /\ y.local \in 0 .. MaxDepth
          BY <1>1, <3>2 DEF Chain, Holder
        <5>2. z # x
          BY <1>2, <4>3, <5>1, TopIs
        <5>3. z \in H
          BY <4>3, <5>2
        <5>4. Lives(H, h, y)
          BY <1>1, <2>2, <3>2 DEF Owned
        <5> QED BY ONLY <4>3, <5>3, <5>4 DEF Lives
      <4>4. ASSUME y.text # "static"
            PROVE  \E z \in G : Owns(z) /\ z.name = y.name /\ z.text = y.text /\ z.level <= y.level
        <5>1. PICK z \in H : Owns(z) /\ z.name = y.name /\ z.text = y.text /\ z.level <= y.level
          BY <1>1, <2>2, <3>2, <4>4 DEF Owned, Lives
        <5>2. z # t
          BY <1>9, <2>2, <3>2, <5>1
        <5> QED BY <5>1, <5>2
      <4> QED BY <4>1, <4>2, <4>3, <4>4 DEF Lives
    <3> QED BY <3>1, <3>2
  <2>3. ASSUME NEW y \in G, NEW z \in G, Owns(y), Owns(z), y.text = z.text
        PROVE  y = z
    <3>1. ~Fresh(y) /\ ~Fresh(z)
      BY <2>3 DEF Owns
    <3>2. CASE y = x \/ z = x
      BY <1>2, <1>9, <2>3, <3>1, <3>2
    <3>3. CASE y # x /\ z # x
      BY <1>1, <2>3, <3>3 DEF Owned, Lives
    <3> QED BY <3>2, <3>3
  <2>4. ASSUME NEW d \in Heap, k[d] # "free"
        PROVE  \E y \in G : Owns(y) /\ y.text = d
    <3>1. CASE d = c
      BY <1>2, <1>4, <3>1
    <3>2. CASE d # c
      <4>1. d \in Cells /\ h[d] # "free" /\ ~(d = t.text /\ "textfixed" \notin t.flags)
        <5>1. d \in Cells
          BY DEF Cells
        <5>2. g[d] # "free"
          BY <1>8, <2>4, <3>2, <5>1
        <5> QED BY ONLY <1>5, <5>1, <5>2
      <4>2. PICK y \in H : Owns(y) /\ y.text = d
        BY <1>1, <4>1 DEF Owned, Lives
      <4>3. y # t
        BY <4>1, <4>2 DEF Owns
      <4> QED BY <4>2, <4>3
    <3> QED BY <3>1, <3>2
  <2> HIDE DEF G
  <2> QED BY <2>2, <2>3, <2>4 DEF Owned, Lives
<1>13. G \subseteq Holder /\ \A y \in G : y.level # Top \/ y.text # "static" => y.name \in nm
  BY <1>1, <1>2
<1> HIDE DEF G
<1>14. Valid(G, k, nm, un)
  BY <1>6, <1>8, <1>10, <1>11, <1>12, <1>13 DEF Valid
<1>15. Keeps(H \ {t}, h, k)
  BY <1>9 DEF Keeps
<1> QED BY <1>14, <1>15 DEF G

\* A variable that was not known.
LEMMA Added ==
  ASSUME NEW nm, NEW un, NEW H, NEW h, Valid(H, h, nm, un),
         NEW n \in nm, \A y \in H : y.name # n, n \notin Special,
         NEW c \in Heap, h[c] = "free", NEW v \in Texts,
         NEW x \in Holder, x.name = n, x.level = Top, x.local = 0, x.text = c,
         "textfixed" \notin x.flags, "unset" \in x.flags => v = "", Marked(x),
         NEW k, k = Write(h, c, v)
  PROVE  Valid(H \cup {x}, k, nm, un) /\ Keeps(H, h, k)
<1> DEFINE G == H \cup {x}
<1>1. /\ H \subseteq Holder /\ Chain(H) /\ Flagged(H, un) /\ Owned(H, h)
      /\ \A y \in H : y.level # Top \/ y.text # "static" => y.name \in nm
      /\ h \in [Cells -> Texts \cup {"free"}] /\ h["static"] = ""
  BY DEF Valid
<1>2. c # "static" /\ c \in Cells /\ v # "free"
  BY VarAssumption DEF Cells, Texts
<1>3. ~Fresh(x) /\ Owns(x)
  BY DEF Fresh, Owns
<1>4. k \in [Cells -> Texts \cup {"free"}] /\ k["static"] = "" /\ k[c] = v /\ \A d \in Cells : d # c => k[d] = h[d]
  BY <1>1, <1>2 DEF Cells, Write
<1>5. ASSUME NEW y \in H, ~Fresh(y)
      PROVE  y.text # c /\ k[y.text] = h[y.text]
  <2>1. y.text \in Cells /\ h[y.text] # "free"
    BY <1>1, <1>5 DEF Holder, Owned, Lives
  <2> QED BY <1>4, <2>1
<1>6. Chain(G)
  <2>1. \A y, z \in G : y.name = z.name /\ y.level = z.level => y = z
    BY <1>1 DEF Chain
  <2>2. \A y \in G : \E z \in G : z.name = y.name /\ z.level = Top
    BY <1>1 DEF Chain
  <2>3. \A y \in G : /\ y.local < y.level
                     /\ y.local # 0 => \E z \in G : z.name = y.name /\ z.level = y.local
                     /\ \A z \in G : z.name = y.name /\ z.level < y.level => z.level <= y.local
    <3>1. 0 < Top /\ ~(Top < Top)
      BY TopIs
    <3>2. \A y \in H : /\ y.local < y.level
                       /\ y.local # 0 => \E z \in H : z.name = y.name /\ z.level = y.local
                       /\ \A z \in H : z.name = y.name /\ z.level < y.level => z.level <= y.local
      BY <1>1 DEF Chain
    <3> QED BY <3>1, <3>2
  <2> HIDE DEF G
  <2> QED BY <2>1, <2>2, <2>3 DEF Chain
<1>7. Flagged(G, un)
  BY <1>1, <1>3 DEF Flagged
<1>8. Owned(G, k)
  <2>1. ASSUME NEW y \in G, ~Fresh(y)
        PROVE  Lives(G, k, y)
    <3>1. CASE y = x
      <4>1. x.level <= x.level
        BY TopIs
      <4> QED BY <1>2, <1>3, <1>4, <3>1, <4>1 DEF Lives
    <3>2. CASE y \in H
      <4>1. k[y.text] = h[y.text]
        BY <1>5, <2>1, <3>2
      <4>2. y.name # x.name
        BY <3>2
      <4> QED BY <1>1, <2>1, <3>2, <4>1, <4>2 DEF Owned, Lives
    <3> QED BY <3>1, <3>2
  <2>2. ASSUME NEW y \in G, NEW z \in G, Owns(y), Owns(z), y.text = z.text
        PROVE  y = z
    <3>1. ~Fresh(y) /\ ~Fresh(z)
      BY <2>2 DEF Owns
    <3> QED BY <1>1, <1>5, <2>2, <3>1 DEF Owned, Lives
  <2>3. ASSUME NEW d \in Heap, k[d] # "free"
        PROVE  \E y \in G : Owns(y) /\ y.text = d
    <3>1. CASE d = c
      BY <1>3, <3>1
    <3>2. CASE d # c
      <4>1. d \in Cells /\ h[d] # "free"
        BY <1>4, <2>3, <3>2 DEF Cells
      <4> QED BY <1>1, <4>1 DEF Owned, Lives
    <3> QED BY <3>1, <3>2
  <2> HIDE DEF G
  <2> QED BY <2>1, <2>2, <2>3 DEF Owned, Lives
<1>9. G \subseteq Holder /\ \A y \in G : y.level # Top \/ y.text # "static" => y.name \in nm
  BY <1>1
<1> HIDE DEF G
<1>10. Valid(G, k, nm, un)
  BY <1>1, <1>4, <1>6, <1>7, <1>8, <1>9 DEF Valid
<1>11. Keeps(H, h, k)
  BY <1>5 DEF Keeps
<1> QED BY <1>10, <1>11 DEF G

\* What is freed with the text of a variable is nobody else's: k holds the
\* texts that are left.
FreesOnly(H, h, t, k) ==
  /\ k \in [Cells -> Texts \cup {"free"}] /\ k["static"] = ""
  /\ \A y \in H : ~Fresh(y) /\ y # t =>
       k[y.text] = h[y.text] /\ h[y.text] # "free" /\ (Owns(t) => y.text # t.text)
  /\ \A d \in Heap : k[d] # "free" => h[d] # "free" /\ ~(Owns(t) /\ d = t.text)
LEMMA FreedIs ==
  ASSUME NEW H, NEW h, H \subseteq Holder, Chain(H), Owned(H, h), h \in [Cells -> Texts \cup {"free"}],
         h["static"] = "", NEW t \in H, t.level = Top
  PROVE  FreesOnly(H, h, t, FreedOf(h, t))
<1>1. ~Fresh(t)
  BY DEF Fresh
<1>2. \A d \in Cells : FreedOf(h, t)[d] = IF Owns(t) /\ d = t.text THEN "free" ELSE h[d]
  BY <1>1 DEF FreedOf, Owns
<1>3. Owns(t) => t.text # "static"
  BY <1>1 DEF Owned, Lives, Owns
<1>4. "static" \in Cells /\ FreedOf(h, t)["static"] = ""
  BY <1>2, <1>3 DEF Cells
<1>5. ASSUME NEW y \in H, ~Fresh(y), y # t
      PROVE  FreedOf(h, t)[y.text] = h[y.text] /\ h[y.text] # "free" /\ (Owns(t) => y.text # t.text)
  <2>1. Owns(t) => y.text # t.text
    BY <1>5, TopOwner
  <2>2. y.text \in Cells /\ h[y.text] # "free"
    BY <1>5 DEF Holder, Owned, Lives
  <2> QED BY <1>2, <2>1, <2>2
<1>6. FreedOf(h, t) \in [Cells -> Texts \cup {"free"}]
  BY DEF FreedOf
<1>7. \A d \in Heap : FreedOf(h, t)[d] # "free" => h[d] # "free" /\ ~(Owns(t) /\ d = t.text)
  BY <1>2 DEF Cells
<1> QED BY <1>4, <1>5, <1>6, <1>7 DEF FreesOnly

\* A variable that no scope refers to is removed.
LEMMA Removed ==
  ASSUME NEW nm, NEW un, NEW H, NEW h, Valid(H, h, nm, un),
         NEW t \in H, t.level = Top, "strfixed" \notin t.flags, un \subseteq {t.name}
  PROVE  /\ Valid(H \ {t}, FreedOf(h, t), nm, {}) /\ Keeps(H \ {t}, h, FreedOf(h, t))
         /\ t.name \notin Special
         /\ \A y \in H : y.name = t.name => y = t
<1> DEFINE G == H \ {t}
           k == FreedOf(h, t)
<1>1. /\ H \subseteq Holder /\ Chain(H) /\ Flagged(H, un) /\ Owned(H, h)
      /\ \A y \in H : y.level # Top \/ y.text # "static" => y.name \in nm
      /\ h \in [Cells -> Texts \cup {"free"}] /\ h["static"] = ""
  BY DEF Valid
<1>2. t.local = 0 /\ t.name \notin Special
  BY <1>1 DEF Flagged, Fresh
<1>3. ASSUME NEW y \in H, y.name = t.name
      PROVE  y = t
  <2>1. y.level \in 1 .. Top /\ (y.level < Top => y.level <= 0)
    BY <1>1, <1>2, <1>3 DEF Chain, Holder
  <2>2. y.level = Top
    BY <2>1, TopIs
  <2>3. \A z, w \in H : z.name = w.name /\ z.level = w.level => z = w
    BY <1>1 DEF Chain
  <2> QED BY ONLY <1>3, <2>2, <2>3, t.level = Top, t \in H
<1>4. /\ k \in [Cells -> Texts \cup {"free"}] /\ k["static"] = ""
      /\ \A y \in H : ~Fresh(y) /\ y # t => k[y.text] = h[y.text] /\ h[y.text] # "free" /\ (Owns(t) => y.text # t.text)
      /\ \A d \in Heap : k[d] # "free" => h[d] # "free" /\ ~(Owns(t) /\ d = t.text)
  <2>1. FreesOnly(H, h, t, FreedOf(h, t))
    BY <1>1, FreedIs
  <2> QED BY <2>1 DEF FreesOnly
<1>5. Chain(G)
  <2>1. \A y, z \in G : y.name = z.name /\ y.level = z.level => y = z
    BY <1>1 DEF Chain
  <2>2. \A y \in G : \E z \in G : z.name = y.name /\ z.level = Top
    <3> SUFFICES ASSUME NEW y \in G PROVE \E z \in G : z.name = y.name /\ z.level = Top
      OBVIOUS
    <3>1. PICK z \in H : z.name = y.name /\ z.level = Top
      BY <1>1 DEF Chain
    <3> QED BY <1>3, <3>1
  <2>3. ASSUME NEW y \in G
        PROVE  /\ y.local < y.level
               /\ y.local # 0 => \E z \in G : z.name = y.name /\ z.level = y.local
               /\ \A z \in G : z.name = y.name /\ z.level < y.level => z.level <= y.local
    <3>1. /\ y.local < y.level
          /\ y.local # 0 => \E z \in H : z.name = y.name /\ z.level = y.local
          /\ \A z \in H : z.name = y.name /\ z.level < y.level => z.level <= y.local
      BY <1>1 DEF Chain
    <3>2. y \in H /\ y # t
      OBVIOUS
    <3> QED BY <1>3, <3>1, <3>2
  <2> QED BY <2>1, <2>2, <2>3 DEF Chain
<1>6. Flagged(G, {})
  BY <1>1, <1>3 DEF Flagged
<1> HIDE DEF k
<1>7. Owned(G, k)
  <2>1. ASSUME NEW y \in G, ~Fresh(y)
        PROVE  Lives(G, k, y)
    <3>1. k[y.text] = h[y.text] /\ y.name # t.name
      BY <1>3, <1>4, <2>1
    <3> QED BY <1>1, <2>1, <3>1 DEF Owned, Lives
  <2>2. \A y, z \in G : Owns(y) /\ Owns(z) /\ y.text = z.text => y = z
    BY <1>1 DEF Owned, Lives
  <2>3. \A d \in Heap : k[d] # "free" => \E y \in G : Owns(y) /\ y.text = d
    <3> SUFFICES ASSUME NEW d \in Heap, k[d] # "free" PROVE \E y \in G : Owns(y) /\ y.text = d
      OBVIOUS
    <3>1. h[d] # "free" /\ ~(Owns(t) /\ d = t.text)
      BY <1>4
    <3>2. PICK y \in H : Owns(y) /\ y.text = d
      BY <1>1, <3>1 DEF Owned
    <3> QED BY <3>1, <3>2
  <2> HIDE DEF G
  <2> QED BY <2>1, <2>2, <2>3 DEF Owned, Lives
<1>8. G \subseteq Holder /\ \A y \in G : y.level # Top \/ y.text # "static" => y.name \in nm
  BY <1>1
<1> HIDE DEF G
<1>9. Valid(G, k, nm, {})
  BY <1>4, <1>5, <1>6, <1>7, <1>8 DEF Valid
<1>10. Keeps(G, h, k)
  BY <1>4 DEF Keeps, G
<1> QED BY <1>2, <1>3, <1>9, <1>10 DEF G, k

\* The variable t and the innermost entry e that saved it.
Innermost(H, t, e) ==
  t \in H /\ t.level = Top /\ e \in H /\ e.name = t.name /\ e.level = t.local
LEMMA InnermostIs ==
  ASSUME NEW H, H \subseteq Holder, Chain(H), NEW t, NEW e, Innermost(H, t, e)
  PROVE  /\ e # t /\ e.level \in 1 .. MaxDepth /\ e.level < Top /\ e.local < e.level
         /\ \A y \in H : y.name = t.name => y = t \/ y = e \/ y.level < e.level
         /\ \A y \in H : y.name = t.name /\ y.level < e.level => y.level <= e.local
<1>1. t \in H /\ t.level = Top /\ e \in H /\ e.name = t.name /\ e.level = t.local
  BY DEF Innermost
<1>2. e.level \in 1 .. Top /\ t.local < t.level /\ e.local < e.level
  BY <1>1 DEF Chain, Holder
<1>3. e.level < Top /\ e.level \in 1 .. MaxDepth
  BY <1>1, <1>2, TopIs
<1>4. ASSUME NEW y \in H, y.name = t.name, y # t, y # e
      PROVE  y.level < e.level
  <2>1. y.level # Top /\ y.level # e.level
    BY <1>1, <1>4 DEF Chain
  <2>2. y.level \in 1 .. Top
    BY <1>4 DEF Holder
  <2>3. y.level < Top
    BY <2>1, <2>2, TopIs
  <2>4. y.level <= e.level
    BY <1>1, <1>4, <2>3 DEF Chain
  <2> QED BY <1>2, <2>1, <2>2, <2>4
<1>5. \A y \in H : y.name = t.name /\ y.level < e.level => y.level <= e.local
  BY <1>1 DEF Chain
<1> QED BY <1>1, <1>2, <1>3, <1>4, <1>5

\* The entry goes, and the variable takes its place in the chain.
LEMMA ChainMerged ==
  ASSUME NEW H, H \subseteq Holder, Chain(H), NEW t, NEW e, Innermost(H, t, e),
         NEW x, x.name = t.name, x.level = Top, x.local = e.local
  PROVE  Chain((H \ {t, e}) \cup {x})
<1> DEFINE R == H \ {t, e}
           G == R \cup {x}
<1>1. t \in H /\ t.level = Top /\ e \in H /\ e.name = t.name /\ e.level = t.local
  BY DEF Innermost
<1>2. /\ e # t /\ e.level \in 1 .. MaxDepth /\ e.level < Top /\ e.local < e.level
      /\ \A y \in R : y.name = t.name => y.level < e.level
      /\ \A y \in H : y.name = t.name /\ y.level < e.level => y.level <= e.local
  BY InnermostIs
<1>3. \A y \in H : y.local \in 0 .. MaxDepth /\ y.level \in 1 .. Top
  BY DEF Holder
<1>4. \A y \in R : y.name = t.name => y.level # Top
  BY <1>1 DEF Chain
<1>5. \A y, z \in G : y.name = z.name /\ y.level = z.level => y = z
  BY <1>4 DEF Chain
<1>6. ASSUME NEW y \in G
      PROVE  \E z \in G : z.name = y.name /\ z.level = Top
  <2>1. CASE y.name = t.name
    BY <2>1
  <2>2. CASE y.name # t.name
    <3>1. y \in H
      BY <2>2
    <3>2. PICK z \in H : z.name = y.name /\ z.level = Top
      BY <3>1 DEF Chain
    <3>3. z \in R
      BY <1>1, <2>2, <3>2
    <3> QED BY <3>2, <3>3
  <2> QED BY <2>1, <2>2
<1>7. ASSUME NEW y \in R
      PROVE  /\ y.local < y.level
             /\ y.local # 0 => \E z \in G : z.name = y.name /\ z.level = y.local
             /\ \A z \in G : z.name = y.name /\ z.level < y.level => z.level <= y.local
  <2>1. y.local < y.level
    BY DEF Chain
  <2>2. ASSUME y.local # 0
        PROVE  \E z \in G : z.name = y.name /\ z.level = y.local
    <3>1. PICK z \in H : z.name = y.name /\ z.level = y.local
      BY <2>2 DEF Chain
    <3>2. z # t
      BY <1>1, <1>3, <3>1, TopIs
    <3>3. z # e
      <4>1. CASE y.name = t.name
        BY <1>2, <1>3, <2>1, <3>1, <4>1
      <4>2. CASE y.name # t.name
        BY <1>1, <3>1, <4>2
      <4> QED BY <4>1, <4>2
    <3> QED BY <3>1, <3>2, <3>3
  <2>3. ASSUME NEW z \in G, z.name = y.name, z.level < y.level
        PROVE  z.level <= y.local
    <3>1. CASE z = x
      <4>1. ~(Top < y.level)
        BY <1>3, TopIs
      <4> QED BY <2>3, <3>1, <4>1
    <3>2. CASE z \in R
      BY <2>3, <3>2 DEF Chain
    <3> QED BY <3>1, <3>2
  <2> QED BY <2>1, <2>2, <2>3
<1>8. /\ x.local < x.level
      /\ x.local # 0 => \E z \in G : z.name = x.name /\ z.level = x.local
      /\ \A z \in G : z.name = x.name /\ z.level < x.level => z.level <= x.local
  <2>1. x.local < x.level
    BY <1>1, <1>3, TopIs
  <2>2. ASSUME x.local # 0
        PROVE  \E z \in G : z.name = x.name /\ z.level = x.local
    <3>1. PICK z \in H : z.name = e.name /\ z.level = e.local
      BY <1>1, <2>2 DEF Chain
    <3>2. z # t /\ z # e
      BY <1>1, <1>2, <1>3, <3>1, TopIs
    <3> QED BY <1>1, <3>1, <3>2
  <2>3. ASSUME NEW z \in G, z.name = x.name, z.level < x.level
        PROVE  z.level <= x.local
    <3>1. z # x
      BY <2>3, TopIs
    <3>2. z \in R /\ z.level < e.level
      BY <1>2, <2>3, <3>1
    <3> QED BY <1>2, <2>3, <3>2
  <2> QED BY <2>1, <2>2, <2>3
<1> HIDE DEF G
<1>9. \A y \in G : /\ y.local < y.level
                   /\ y.local # 0 => \E z \in G : z.name = y.name /\ z.level = y.local
                   /\ \A z \in G : z.name = y.name /\ z.level < y.level => z.level <= y.local
  BY <1>7, <1>8 DEF G
<1>10. Chain(G)
  BY <1>5, <1>6, <1>9 DEF Chain
<1> QED BY <1>10 DEF G

\* What the variable and the entry own is nobody else's.
Apart(R, t, e, w) ==
  /\ Owns(t) => w.text # t.text
  /\ Owns(e) => w.text # e.text
  /\ w.text # "static" =>
       \E y \in R : Owns(y) /\ y.name = w.name /\ y.text = w.text /\ y.level <= w.level
LEMMA RestIs ==
  ASSUME NEW H, NEW h, H \subseteq Holder, Chain(H), Owned(H, h), NEW t, NEW e, Innermost(H, t, e),
         NEW w \in H, w # t, w # e, ~Fresh(w)
  PROVE  Apart(H \ {t, e}, t, e, w)
<1>1. t \in H /\ t.level = Top /\ e \in H /\ e.name = t.name /\ e.level = t.local
  BY DEF Innermost
<1>2. Owns(t) => w.text # t.text
  BY <1>1, TopOwner
<1>3. ASSUME Owns(e), w.text = e.text
      PROVE  FALSE
  <2>1. w.name = e.name /\ e.level <= w.level
    BY <1>1, <1>3, OwnerBelow
  <2>2. w.level < e.level
    BY <1>1, <2>1, InnermostIs
  <2>3. w.level \in 1 .. Top /\ e.level \in 1 .. Top
    BY <1>1 DEF Holder
  <2> QED BY <2>1, <2>2, <2>3
<1>4. ASSUME w.text # "static"
      PROVE  \E y \in H \ {t, e} : Owns(y) /\ y.name = w.name /\ y.text = w.text /\ y.level <= w.level
  <2>1. PICK y \in H : Owns(y) /\ y.name = w.name /\ y.text = w.text /\ y.level <= w.level
    BY <1>4 DEF Owned, Lives
  <2>2. y # t /\ y # e
    BY <1>2, <1>3, <2>1
  <2> QED BY <2>1, <2>2
<1> QED BY <1>2, <1>3, <1>4 DEF Apart

\* A variable x in the place of the variable and its innermost entry: k holds
\* the texts, and x owns what is left of theirs.
Merges(H, h, t, e, x, k) ==
  /\ x \in Holder /\ x.name = t.name /\ x.level = Top /\ x.local = e.local
  /\ x.local # 0 \/ x.name \in Special => "strfixed" \in x.flags
  /\ k \in [Cells -> Texts \cup {"free"}] /\ k["static"] = ""
  /\ k[x.text] # "free" /\ ("unset" \in x.flags => k[x.text] = "")
  /\ IF "textfixed" \in x.flags
     THEN ~Fresh(e) /\ x.text = e.text /\ "textfixed" \in e.flags
     ELSE x.text # "static" /\ ((Owns(t) /\ x.text = t.text) \/ (Owns(e) /\ x.text = e.text))
  /\ \A c \in Cells :
       IF (Owns(t) /\ c = t.text) \/ (Owns(e) /\ c = e.text)
       THEN k[c] # "free" => "textfixed" \notin x.flags /\ c = x.text
       ELSE k[c] = h[c]

LEMMA Merged ==
  ASSUME NEW nm, NEW un, NEW H, NEW h, Valid(H, h, nm, {}), NEW t, NEW e, Innermost(H, t, e),
         NEW x, NEW k, Merges(H, h, t, e, x, k), x.name \notin un => Marked(x)
  PROVE  Valid((H \ {t, e}) \cup {x}, k, nm, un) /\ Keeps(H \ {t, e}, h, k)
<1> DEFINE R == H \ {t, e}
           G == R \cup {x}
<1>1. /\ H \subseteq Holder /\ Chain(H) /\ Flagged(H, {}) /\ Owned(H, h)
      /\ \A y \in H : y.level # Top \/ y.text # "static" => y.name \in nm
      /\ h \in [Cells -> Texts \cup {"free"}] /\ h["static"] = ""
  BY DEF Valid
<1>2. t \in H /\ t.level = Top /\ e \in H /\ e.name = t.name /\ e.level = t.local
  BY DEF Innermost
<1>3. e.level < Top /\ e.level # Top /\ e.local < e.level
  BY <1>1, InnermostIs, TopIs
<1>4. /\ x \in Holder /\ x.name = t.name /\ x.level = Top /\ x.local = e.local
      /\ x.local # 0 \/ x.name \in Special => "strfixed" \in x.flags
      /\ k \in [Cells -> Texts \cup {"free"}] /\ k["static"] = ""
      /\ k[x.text] # "free" /\ ("unset" \in x.flags => k[x.text] = "")
  BY DEF Merges
<1>5. "textfixed" \in x.flags => ~Fresh(e) /\ x.text = e.text /\ "textfixed" \in e.flags
  BY DEF Merges
<1>6. "textfixed" \notin x.flags =>
        x.text # "static" /\ ((Owns(t) /\ x.text = t.text) \/ (Owns(e) /\ x.text = e.text))
  BY DEF Merges
<1>7. ASSUME NEW c \in Cells, (Owns(t) /\ c = t.text) \/ (Owns(e) /\ c = e.text), k[c] # "free"
      PROVE  Owns(x) /\ c = x.text
  BY <1>4, <1>7 DEF Merges, Owns, Fresh
<1>8. \A c \in Cells : ~(Owns(t) /\ c = t.text) /\ ~(Owns(e) /\ c = e.text) => k[c] = h[c]
  BY DEF Merges
<1>9. ASSUME NEW w \in R, ~Fresh(w)
      PROVE  /\ k[w.text] = h[w.text]
             /\ Owns(t) => w.text # t.text
             /\ Owns(e) => w.text # e.text
             /\ w.text # "static" =>
                  \E y \in R : Owns(y) /\ y.name = w.name /\ y.text = w.text /\ y.level <= w.level
  <2>1. /\ Owns(t) => w.text # t.text
        /\ Owns(e) => w.text # e.text
        /\ w.text # "static" =>
             \E y \in R : Owns(y) /\ y.name = w.name /\ y.text = w.text /\ y.level <= w.level
    <3>1. w \in H /\ w # t /\ w # e
      OBVIOUS
    <3>2. Apart(R, t, e, w)
      BY <1>1, <1>9, <3>1, RestIs
    <3> HIDE DEF R
    <3> QED BY <3>2 DEF Apart
  <2>2. w.text \in Cells
    BY <1>1 DEF Holder
  <2> QED BY <1>8, <2>1, <2>2
<1>10. ~Fresh(x)
  BY <1>4 DEF Fresh
<1>11. Chain(G)
  BY <1>1, <1>4, ChainMerged
<1>12. Flagged(G, un)
  BY <1>1, <1>4, <1>10 DEF Flagged
<1>13. Owned(G, k)
  <2>1. ASSUME NEW y \in R, ~Fresh(y)
        PROVE  Lives(G, k, y)
    <3>1. /\ h[y.text] # "free"
          /\ "unset" \in y.flags => h[y.text] = ""
          /\ "textfixed" \notin y.flags => y.text # "static"
          /\ "textfixed" \in y.flags => (y.local = 0 => y.text = "static")
      BY <1>1, <2>1 DEF Owned, Lives
    <3>2. ASSUME "textfixed" \in y.flags, NEW z \in G, z.name = y.name, z.level = y.local
          PROVE  ~Fresh(z) /\ z.text = y.text
      <4>1. y.local \in 0 .. MaxDepth
        BY <1>1 DEF Holder
      <4>2. z # x
        BY <1>4, <3>2, <4>1, TopIs
      <4>3. z \in H
        BY <3>2, <4>2
      <4>4. Lives(H, h, y)
        BY <1>1, <2>1 DEF Owned
      <4> QED BY ONLY <3>2, <4>3, <4>4 DEF Lives
    <3>3. y.text # "static" =>
            \E z \in G : Owns(z) /\ z.name = y.name /\ z.text = y.text /\ z.level <= y.level
      BY <1>9, <2>1
    <3> QED BY <1>9, <2>1, <3>1, <3>2, <3>3 DEF Lives
  <2>2. /\ "textfixed" \notin x.flags => x.text # "static"
        /\ "textfixed" \in x.flags =>
             /\ x.local = 0 => x.text = "static"
             /\ \A z \in G : z.name = x.name /\ z.level = x.local => ~Fresh(z) /\ z.text = x.text
        /\ x.text # "static" =>
             \E z \in G : Owns(z) /\ z.name = x.name /\ z.text = x.text /\ z.level <= x.level
    <3>1. CASE "textfixed" \notin x.flags
      <4>1. Owns(x) /\ x.level <= x.level
        BY <1>4, <1>10, <3>1, TopIs DEF Owns
      <4> QED BY <1>6, <3>1, <4>1
    <3>2. CASE "textfixed" \in x.flags
      <4>1. ~Fresh(e) /\ x.text = e.text /\ "textfixed" \in e.flags
        BY <1>5, <3>2
      <4>2. x.local = 0 => x.text = "static"
        <5>1. Lives(H, h, e)
          BY <1>1, <1>2, <4>1 DEF Owned
        <5> QED BY <1>4, <4>1, <5>1 DEF Lives
      <4>3. ASSUME NEW z \in G, z.name = x.name, z.level = x.local
            PROVE  ~Fresh(z) /\ z.text = x.text
        <5>1. x.local \in 0 .. MaxDepth
          BY <1>4 DEF Holder
        <5>2. z # x
          BY <1>4, <4>3, <5>1, TopIs
        <5>3. \A y \in H : y.name = e.name /\ y.level = e.local => ~Fresh(y) /\ y.text = e.text
          BY <1>1, <1>2, <4>1 DEF Owned, Lives
        <5> QED BY <1>2, <1>4, <4>1, <4>3, <5>2, <5>3
      <4>4. ASSUME x.text # "static"
            PROVE  \E z \in G : Owns(z) /\ z.name = x.name /\ z.text = x.text /\ z.level <= x.level
        <5>1. PICK z \in H : Owns(z) /\ z.name = e.name /\ z.text = e.text /\ z.level <= e.level
          BY <1>1, <1>2, <4>1, <4>4 DEF Owned, Lives
        <5>2. z # e
          BY <4>1, <5>1 DEF Owns
        <5>3. z.level \in 1 .. Top /\ e.level \in 1 .. Top
          BY <1>1, <1>2 DEF Holder
        <5>4. z # t
          BY <1>2, <1>3, <5>1, <5>3
        <5>5. z.level <= Top
          BY <5>3, TopIs
        <5> QED BY <1>2, <1>4, <4>1, <5>1, <5>2, <5>4, <5>5
      <4> QED BY <3>2, <4>2, <4>3, <4>4
    <3> QED BY <3>1, <3>2
  <2>3. ASSUME NEW y \in R, Owns(y), Owns(x), y.text = x.text
        PROVE  FALSE
    BY <1>6, <1>9, <2>3 DEF Owns
  <2>4. \A y, z \in R : Owns(y) /\ Owns(z) /\ y.text = z.text => y = z
    BY <1>1 DEF Owned, Lives
  <2>5. \A y, z \in G : Owns(y) /\ Owns(z) /\ y.text = z.text => y = z
    BY <2>3, <2>4
  <2>6. ASSUME NEW c \in Heap, k[c] # "free"
        PROVE  \E y \in G : Owns(y) /\ y.text = c
    <3>1. c \in Cells
      BY DEF Cells
    <3>2. CASE (Owns(t) /\ c = t.text) \/ (Owns(e) /\ c = e.text)
      <4>1. Owns(x) /\ c = x.text
        BY <1>7, <2>6, <3>1, <3>2
      <4> QED BY <4>1
    <3>3. CASE ~((Owns(t) /\ c = t.text) \/ (Owns(e) /\ c = e.text))
      <4>1. ~(Owns(t) /\ c = t.text) /\ ~(Owns(e) /\ c = e.text)
        BY <3>3
      <4>2. PICK y \in H : Owns(y) /\ y.text = c
        BY <1>1, <1>8, <2>6, <3>1, <4>1 DEF Owned, Lives
      <4>3. y # t /\ y # e
        BY <4>1, <4>2
      <4>4. y \in G
        BY <4>3
      <4> QED BY <4>2, <4>4
    <3> QED BY ONLY <3>2, <3>3
  <2>7. Lives(G, k, x)
    BY <1>4, <2>2 DEF Lives
  <2>8. \A y \in G : ~Fresh(y) => Lives(G, k, y)
    BY <2>1, <2>7
  <2> HIDE DEF G
  <2> QED BY <2>5, <2>6, <2>8 DEF Owned, Lives
<1>14. G \subseteq Holder /\ \A y \in G : y.level # Top \/ y.text # "static" => y.name \in nm
  BY <1>1, <1>2, <1>3, <1>4
<1> HIDE DEF G
<1>15. Valid(G, k, nm, un)
  BY <1>4, <1>11, <1>12, <1>13, <1>14 DEF Valid
<1>16. Keeps(R, h, k)
  BY <1>9 DEF Keeps
<1> QED BY <1>15, <1>16 DEF G

\* The variable gets back what the entry saved; its own text is freed.
Restores(H, h, k, t, e, x, nm) ==
  /\ Valid((H \ {t, e}) \cup {x}, k, nm, {}) /\ Keeps(H \ {t, e}, h, k)
  /\ k[e.text] = h[e.text] /\ ("unset" \in e.flags => h[e.text] = "")
LEMMA Restored ==
  ASSUME NEW nm, NEW H, NEW h, Valid(H, h, nm, {}), NEW t, NEW e, Innermost(H, t, e), ~Fresh(e),
         NEW x, x \in Holder, x.name = t.name, x.level = Top, x.local = e.local,
         x.flags = e.flags, x.text = e.text, NEW k, k = FreedOf(h, t)
  PROVE  Restores(H, h, k, t, e, x, nm)
<1>1. /\ H \subseteq Holder /\ Chain(H) /\ Flagged(H, {}) /\ Owned(H, h)
      /\ h \in [Cells -> Texts \cup {"free"}] /\ h["static"] = ""
  BY DEF Valid
<1>2. t \in H /\ t.level = Top /\ e \in H /\ e.name = t.name /\ e.level = t.local
  BY DEF Innermost
<1>3. e # t
  BY <1>1, InnermostIs
<1>4. FreesOnly(H, h, t, k)
  BY <1>1, <1>2, FreedIs
<1>5. /\ h[e.text] # "free"
      /\ "unset" \in e.flags => h[e.text] = ""
      /\ "textfixed" \notin e.flags => e.text # "static"
  BY <1>1, <1>2 DEF Owned, Lives
<1>6. Marked(e) /\ (e.local # 0 \/ e.name \in Special => "strfixed" \in e.flags)
  BY <1>1, <1>2 DEF Flagged
<1>7. k[e.text] = h[e.text]
  BY <1>2, <1>3, <1>4 DEF FreesOnly
<1>8. ~Fresh(t)
  BY <1>2 DEF Fresh
<1>9. \A c \in Cells : k[c] = IF Owns(t) /\ c = t.text THEN "free" ELSE h[c]
  BY <1>1, <1>8 DEF FreedOf, Owns
<1>10. k \in [Cells -> Texts \cup {"free"}] /\ k["static"] = ""
  BY <1>4 DEF FreesOnly
<1>11. Merges(H, h, t, e, x, k)
  BY <1>2, <1>5, <1>6, <1>7, <1>9, <1>10 DEF Merges, Owns
<1>12. Marked(x)
  BY <1>6 DEF Marked
<1>13. Valid((H \ {t, e}) \cup {x}, k, nm, {}) /\ Keeps(H \ {t, e}, h, k)
  BY <1>11, <1>12, Merged
<1> QED BY <1>5, <1>7, <1>13 DEF Restores

\* The variable keeps its text, and gets the place of the entry; the text that
\* the entry saved is freed.
Released(h, t, e) == IF ~Fresh(e) /\ e.text # t.text THEN FreedOf(h, e) ELSE h
LiftedTo(H, h, t, e, x, k, nm, un) ==
  /\ Valid((H \ {t, e}) \cup {x}, k, nm, un)
  /\ Keeps(H \ {t, e}, h, k) /\ k[t.text] = h[t.text]
  /\ Fresh(e) => t.name \notin Special
LEMMA Lifted ==
  ASSUME NEW nm, NEW un, NEW H, NEW h, Valid(H, h, nm, {}), NEW t, NEW e, Innermost(H, t, e),
         NEW x, x \in Holder, x.name = t.name, x.level = Top, x.local = e.local, x.text = t.text,
         "unset" \in x.flags <=> "unset" \in t.flags,
         "strfixed" \in x.flags <=> "strfixed" \in e.flags,
         "textfixed" \in x.flags <=> ~Fresh(e) /\ e.text = t.text /\ "textfixed" \in e.flags,
         x.name \notin un => Marked(x),
         NEW k, k = Released(h, t, e)
  PROVE  LiftedTo(H, h, t, e, x, k, nm, un)
<1>1. /\ H \subseteq Holder /\ Chain(H) /\ Flagged(H, {}) /\ Owned(H, h)
      /\ h \in [Cells -> Texts \cup {"free"}] /\ h["static"] = ""
  BY DEF Valid
<1>2. t \in H /\ t.level = Top /\ e \in H /\ e.name = t.name /\ e.level = t.local
  BY DEF Innermost
<1>3. e # t /\ e.level \in 1 .. MaxDepth
  BY <1>1, InnermostIs
<1>4. ~Fresh(t) /\ t.local # 0
  BY <1>2, <1>3 DEF Fresh
<1>5. /\ h[t.text] # "free"
      /\ "unset" \in t.flags => h[t.text] = ""
      /\ "textfixed" \notin t.flags => t.text # "static"
      /\ "textfixed" \in t.flags => ~Fresh(e) /\ e.text = t.text
  BY <1>1, <1>2, <1>4 DEF Owned, Lives
<1>6. ~Fresh(e) => /\ "textfixed" \notin e.flags => e.text # "static"
                   /\ e.local # 0 \/ e.name \in Special => "strfixed" \in e.flags
  BY <1>1, <1>2 DEF Owned, Lives, Flagged
<1>7. Fresh(e) => e.local = 0 /\ e.name \notin Special
  BY <1>1, <1>2 DEF Flagged
<1>8. \A c \in Cells : k[c] = IF Owns(e) /\ e.text # t.text /\ c = e.text THEN "free" ELSE h[c]
  BY <1>1 DEF Released, FreedOf, Owns
<1>9. k \in [Cells -> Texts \cup {"free"}]
  BY <1>1 DEF Released, FreedOf
<1>10. "static" \in Cells /\ t.text \in Cells
  BY <1>1, <1>2 DEF Holder, Cells
<1>11. Owns(e) => e.text # "static"
  BY <1>6 DEF Owns
<1>12. k["static"] = "" /\ k[t.text] = h[t.text]
  BY <1>1, <1>8, <1>10, <1>11
<1>13. x.local # 0 \/ x.name \in Special => "strfixed" \in x.flags
  BY <1>2, <1>6, <1>7
<1>14. IF "textfixed" \in x.flags
       THEN ~Fresh(e) /\ x.text = e.text /\ "textfixed" \in e.flags
       ELSE x.text # "static" /\ ((Owns(t) /\ x.text = t.text) \/ (Owns(e) /\ x.text = e.text))
  <2>1. CASE "textfixed" \in x.flags
    BY <2>1
  <2>2. CASE "textfixed" \notin x.flags /\ "textfixed" \notin t.flags
    BY <1>4, <1>5, <2>2 DEF Owns
  <2>3. CASE "textfixed" \notin x.flags /\ "textfixed" \in t.flags
    <3>1. ~Fresh(e) /\ e.text = t.text /\ "textfixed" \notin e.flags
      BY <1>5, <2>3
    <3> QED BY <1>6, <2>3, <3>1 DEF Owns
  <2> QED BY <2>1, <2>2, <2>3
<1>15. ASSUME NEW c \in Cells
       PROVE  IF (Owns(t) /\ c = t.text) \/ (Owns(e) /\ c = e.text)
              THEN k[c] # "free" => "textfixed" \notin x.flags /\ c = x.text
              ELSE k[c] = h[c]
  <2>1. CASE Owns(e) /\ c = e.text
    <3>1. "textfixed" \notin e.flags
      BY <2>1 DEF Owns
    <3> QED BY <1>8, <2>1, <3>1
  <2>2. CASE Owns(t) /\ c = t.text
    <3>1. ~(~Fresh(e) /\ e.text = t.text)
      BY <1>1, <1>2, <1>3, <2>2, TopOwner
    <3> QED BY <2>2, <3>1
  <2>3. CASE ~(Owns(e) /\ c = e.text) /\ ~(Owns(t) /\ c = t.text)
    BY <1>8, <2>3
  <2> QED BY <2>1, <2>2, <2>3
<1>16. k[x.text] # "free" /\ ("unset" \in x.flags => k[x.text] = "")
  BY <1>5, <1>12
<1>17. Merges(H, h, t, e, x, k)
  BY <1>9, <1>12, <1>13, <1>14, <1>15, <1>16 DEF Merges
<1>18. Valid((H \ {t, e}) \cup {x}, k, nm, un) /\ Keeps(H \ {t, e}, h, k)
  BY <1>17, Merged
<1> QED BY <1>2, <1>7, <1>12, <1>18 DEF LiftedTo

\* Holders that differ in other marks.
Alike(y, z) ==
  /\ z.name = y.name /\ z.level = y.level /\ z.local = y.local /\ z.text = y.text
  /\ Fresh(y) <=> Fresh(z)
  /\ "unset" \in y.flags <=> "unset" \in z.flags
  /\ "textfixed" \in y.flags <=> "textfixed" \in z.flags

\* A variable is marked.
LEMMA Reflagged ==
  ASSUME NEW nm, NEW H, NEW h, Valid(H, h, nm, {}), NEW t \in H, t.level = Top,
         NEW x, x \in Holder, x.name = t.name, x.level = Top, x.local = t.local, x.text = t.text,
         "unset" \in x.flags <=> "unset" \in t.flags,
         "strfixed" \in x.flags <=> "strfixed" \in t.flags,
         "textfixed" \in x.flags <=> "textfixed" \in t.flags, Marked(x)
  PROVE  Valid((H \ {t}) \cup {x}, h, nm, {})
<1> DEFINE G == (H \ {t}) \cup {x}
<1>1. /\ H \subseteq Holder /\ Chain(H) /\ Flagged(H, {}) /\ Owned(H, h)
      /\ \A y \in H : y.level # Top \/ y.text # "static" => y.name \in nm
      /\ h \in [Cells -> Texts \cup {"free"}] /\ h["static"] = ""
  BY DEF Valid
<1>2. Chain(G)
  BY <1>1, ChainSame
<1>3. ~Fresh(t) /\ ~Fresh(x) /\ (Owns(x) <=> Owns(t))
  BY DEF Fresh, Owns
<1>4. Flagged(G, {})
  BY <1>1, <1>3 DEF Flagged
<1>5. Owned(G, h)
  <2>1. Alike(x, t) /\ Alike(t, x) /\ \A y \in H : Alike(y, y)
    BY <1>3 DEF Alike
  <2>2. (\A y \in G : \E z \in H : Alike(y, z)) /\ (\A z \in H : \E y \in G : Alike(z, y))
    BY <2>1
  <2>3. ASSUME NEW y \in G, ~Fresh(y)
        PROVE  Lives(G, h, y)
    <3>1. PICK w \in H : Alike(y, w)
      BY <2>2
    <3>5. /\ w.name = y.name /\ w.level = y.level /\ w.local = y.local /\ w.text = y.text /\ ~Fresh(w)
          /\ "unset" \in y.flags <=> "unset" \in w.flags
          /\ "textfixed" \in y.flags <=> "textfixed" \in w.flags
      BY <2>3, <3>1 DEF Alike
    <3>2. /\ h[w.text] # "free"
          /\ "unset" \in w.flags => h[w.text] = ""
          /\ "textfixed" \notin w.flags => w.text # "static"
          /\ "textfixed" \in w.flags => (w.local = 0 => w.text = "static")
      BY <1>1, <3>5 DEF Owned, Lives
    <3>3. ASSUME "textfixed" \in y.flags, NEW z \in G, z.name = y.name, z.level = y.local
          PROVE  ~Fresh(z) /\ z.text = y.text
      <4>1. PICK v \in H : Alike(z, v)
        BY <2>2
      <4>2. v.name = w.name /\ v.level = w.local
        BY <3>5, <3>3, <4>1 DEF Alike
      <4>3. ~Fresh(v) /\ v.text = w.text
        <5>1. "textfixed" \in w.flags
          BY <3>5, <3>3
        <5>2. \A u \in H : u.name = w.name /\ u.level = w.local => ~Fresh(u) /\ u.text = w.text
          BY <1>1, <3>5, <5>1 DEF Owned, Lives
        <5> QED BY <4>2, <5>2
      <4> QED BY <3>5, <4>1, <4>3 DEF Alike
    <3>4. ASSUME y.text # "static"
          PROVE  \E z \in G : Owns(z) /\ z.name = y.name /\ z.text = y.text /\ z.level <= y.level
      <4>1. PICK v \in H : Owns(v) /\ v.name = w.name /\ v.text = w.text /\ v.level <= w.level
        BY <1>1, <3>5, <3>4 DEF Owned, Lives
      <4>2. PICK z \in G : Alike(v, z)
        BY <2>2
      <4>3. Owns(z) /\ z.name = v.name /\ z.text = v.text /\ z.level = v.level
        BY <4>1, <4>2 DEF Alike, Owns
      <4> QED BY <3>5, <4>1, <4>3
    <3> QED BY <3>5, <3>2, <3>3, <3>4 DEF Lives
  <2>4. ASSUME NEW y \in G, NEW z \in G, Owns(y), Owns(z), y.text = z.text
        PROVE  y = z
    <3>1. \A v, w \in H : Owns(v) /\ Owns(w) /\ v.text = w.text => v = w
      BY <1>1 DEF Owned, Lives
    <3> QED BY <1>3, <2>4, <3>1
  <2>5. ASSUME NEW c \in Heap, h[c] # "free"
        PROVE  \E y \in G : Owns(y) /\ y.text = c
    <3>1. PICK z \in H : Owns(z) /\ z.text = c
      BY <1>1, <2>5 DEF Owned, Lives
    <3>2. PICK y \in G : Alike(z, y)
      BY <2>2
    <3> QED BY <3>1, <3>2 DEF Alike, Owns
  <2> HIDE DEF G
  <2> QED BY <2>3, <2>4, <2>5 DEF Owned, Lives
<1>6. G \subseteq Holder /\ \A y \in G : y.level # Top \/ y.text # "static" => y.name \in nm
  BY <1>1
<1> HIDE DEF G
<1>7. Valid(G, h, nm, {})
  BY <1>1, <1>2, <1>4, <1>5, <1>6 DEF Valid
<1> QED BY <1>7 DEF G

\* A scope at the depth D saves the variable t in the entry e; x is the
\* variable from then on.
Saves(H, t, e, x, D) ==
  /\ t \in H /\ t.level = Top /\ t.local < D /\ D \in 1 .. MaxDepth
  /\ e \in Holder /\ e.name = t.name /\ e.level = D /\ e.local = t.local
  /\ x \in Holder /\ x.name = t.name /\ x.level = Top /\ x.local = D /\ x.text = t.text
Lower(R, t, D) ==
  /\ D < Top /\ D <= Top /\ D # Top /\ D # 0 /\ D <= D /\ ~(Top < D)
  /\ t.local \in 0 .. MaxDepth /\ t.local # D
  /\ \A y \in R : y.name = t.name =>
       y.level <= t.local /\ y.level < D /\ y.level # D /\ y.level # Top /\ y.local # D
LEMMA SavesIs ==
  ASSUME NEW H, H \subseteq Holder, Chain(H), NEW t, NEW e, NEW x, NEW D, Saves(H, t, e, x, D)
  PROVE  Lower(H \ {t}, t, D)
<1>1. t \in H /\ t.level = Top /\ t.local < D /\ D \in 1 .. MaxDepth
  BY DEF Saves
<1>2. D < Top /\ D <= Top /\ D # Top /\ D # 0 /\ D <= D /\ ~(Top < D)
  BY <1>1, TopIs
<1>3. ASSUME NEW y \in H \ {t}, y.name = t.name
      PROVE  y.level <= t.local /\ y.level < D /\ y.level # D /\ y.level # Top /\ y.local # D
  <2>1. y.level \in 1 .. Top /\ y.level # Top /\ y.local \in 0 .. MaxDepth /\ y.local < y.level
    BY <1>1, <1>3 DEF Chain, Holder
  <2>2. y.level < Top
    BY <2>1, TopIs
  <2>3. y.level <= t.local
    BY <1>1, <1>3, <2>2 DEF Chain
  <2>4. t.local \in 0 .. MaxDepth
    BY <1>1 DEF Holder
  <2> QED BY <1>1, <2>1, <2>3, <2>4
<1>4. t.local \in 0 .. MaxDepth
  BY <1>1 DEF Holder
<1>5. t.local # D
  BY <1>1, <1>4
<1> QED BY <1>2, <1>3, <1>4, <1>5 DEF Lower

LEMMA ChainPushed ==
  ASSUME NEW H, H \subseteq Holder, Chain(H), NEW t, NEW e, NEW x, NEW D, Saves(H, t, e, x, D)
  PROVE  Chain((H \ {t}) \cup {x, e})
<1> DEFINE R == H \ {t}
           G == R \cup {x, e}
<1>1. /\ t \in H /\ t.level = Top /\ t.local < D /\ D \in 1 .. MaxDepth
      /\ e \in Holder /\ e.name = t.name /\ e.level = D /\ e.local = t.local
      /\ x \in Holder /\ x.name = t.name /\ x.level = Top /\ x.local = D
  BY DEF Saves
<1>2. /\ D < Top /\ D # Top /\ D # 0 /\ D <= D /\ ~(Top < D)
      /\ \A y \in R : y.name = t.name => y.level <= t.local /\ y.level < D /\ y.level # D /\ y.level # Top
  BY SavesIs DEF Lower
<1>3. \A y \in H : y.local \in 0 .. MaxDepth /\ y.level \in 1 .. Top
  BY DEF Holder
<1>4. \A y, z \in G : y.name = z.name /\ y.level = z.level => y = z
  BY <1>1, <1>2 DEF Chain
<1>5. ASSUME NEW y \in G
      PROVE  \E z \in G : z.name = y.name /\ z.level = Top
  <2>1. CASE y.name = t.name
    BY <1>1, <2>1
  <2>2. CASE y.name # t.name
    <3>1. y \in H
      BY <1>1, <2>2
    <3>2. PICK z \in H : z.name = y.name /\ z.level = Top
      BY <3>1 DEF Chain
    <3> QED BY <2>2, <3>2
  <2> QED BY <2>1, <2>2
<1>6. ASSUME NEW y \in R
      PROVE  /\ y.local < y.level
             /\ y.local # 0 => \E z \in G : z.name = y.name /\ z.level = y.local
             /\ \A z \in G : z.name = y.name /\ z.level < y.level => z.level <= y.local
  <2>1. y.local < y.level
    BY DEF Chain
  <2>2. ASSUME y.local # 0
        PROVE  \E z \in G : z.name = y.name /\ z.level = y.local
    <3>1. PICK z \in H : z.name = y.name /\ z.level = y.local
      BY <2>2 DEF Chain
    <3>2. z # t
      BY <1>1, <1>3, <3>1, TopIs
    <3> QED BY <3>1, <3>2
  <2>3. ASSUME NEW z \in G, z.name = y.name, z.level < y.level
        PROVE  z.level <= y.local
    <3>1. z # x
      <4>1. ~(Top < y.level)
        BY <1>3, TopIs
      <4> QED BY <1>1, <2>3, <4>1
    <3>2. z # e
      <4>1. z = e => y.level < D /\ D < y.level
        BY <1>1, <1>2, <2>3
      <4> QED BY <1>1, <1>3, <4>1
    <3> QED BY <2>3, <3>1, <3>2 DEF Chain
  <2> QED BY <2>1, <2>2, <2>3
<1>7. /\ x.local < x.level
      /\ x.local # 0 => \E z \in G : z.name = x.name /\ z.level = x.local
      /\ \A z \in G : z.name = x.name /\ z.level < x.level => z.level <= x.local
  <2>1. \A z \in G : z.name = x.name /\ z.level < x.level => z.level <= x.local
    <3>1. ASSUME NEW z \in R, z.name = x.name
          PROVE  z.level <= x.local
      <4>1. z.level < D /\ z.level \in 1 .. Top
        BY <1>1, <1>2, <1>3, <3>1
      <4> QED BY <1>1, <4>1
    <3> QED BY <1>1, <1>2, <3>1, TopIs
  <2> QED BY <1>1, <1>2, <2>1
<1>8. /\ e.local < e.level
      /\ e.local # 0 => \E z \in G : z.name = e.name /\ z.level = e.local
      /\ \A z \in G : z.name = e.name /\ z.level < e.level => z.level <= e.local
  <2>1. ASSUME e.local # 0
        PROVE  \E z \in G : z.name = e.name /\ z.level = e.local
    <3>1. PICK z \in H : z.name = t.name /\ z.level = t.local
      BY <1>1, <2>1 DEF Chain
    <3>2. z # t
      BY <1>1, <1>3, <3>1, TopIs
    <3> QED BY <1>1, <3>1, <3>2
  <2>2. ASSUME NEW z \in G, z.name = e.name, z.level < e.level
        PROVE  z.level <= e.local
    <3>1. z # x
      BY <1>1, <1>2, <2>2
    <3>2. z # e
      BY <1>1, <2>2
    <3> QED BY <1>1, <1>2, <2>2, <3>1, <3>2
  <2> QED BY <1>1, <2>1, <2>2
<1> HIDE DEF G
<1>9. \A y \in G : /\ y.local < y.level
                   /\ y.local # 0 => \E z \in G : z.name = y.name /\ z.level = y.local
                   /\ \A z \in G : z.name = y.name /\ z.level < y.level => z.level <= y.local
  BY <1>6, <1>7, <1>8 DEF G
<1>10. Chain(G)
  BY <1>4, <1>5, <1>9 DEF Chain
<1> QED BY <1>10 DEF G

\* A variable is saved as it is: the variable does not own its text from then
\* on, the entry does if the variable did.
LEMMA Attached ==
  ASSUME NEW nm, NEW H, NEW h, Valid(H, h, nm, {}),
         NEW t, NEW e, NEW x, NEW D, Saves(H, t, e, x, D), t.name \in nm,
         e.flags = t.flags, e.text = t.text, x.flags = t.flags \cup {"strfixed", "textfixed"}
  PROVE  Valid((H \ {t}) \cup {x, e}, h, nm, {})
<1> DEFINE R == H \ {t}
           G == R \cup {x, e}
<1>1. /\ H \subseteq Holder /\ Chain(H) /\ Flagged(H, {}) /\ Owned(H, h)
      /\ \A y \in H : y.level # Top \/ y.text # "static" => y.name \in nm
      /\ h \in [Cells -> Texts \cup {"free"}] /\ h["static"] = ""
  BY DEF Valid
<1>2. /\ t \in H /\ t.level = Top /\ t.local < D /\ D \in 1 .. MaxDepth
      /\ e \in Holder /\ e.name = t.name /\ e.level = D /\ e.local = t.local
      /\ x \in Holder /\ x.name = t.name /\ x.level = Top /\ x.local = D /\ x.text = t.text
  BY DEF Saves
<1>3. /\ D < Top /\ D # Top /\ D # 0 /\ D <= D /\ ~(Top < D) /\ D <= Top
      /\ t.local \in 0 .. MaxDepth /\ t.local # D
      /\ \A y \in R : y.name = t.name =>
           y.level <= t.local /\ y.level < D /\ y.level # D /\ y.level # Top /\ y.local # D
  <2>1. Lower(R, t, D)
    BY <1>1, SavesIs
  <2> QED BY <2>1 DEF Lower
<1>4. Chain(G)
  BY <1>1, ChainPushed
<1>5. ~Fresh(t) /\ ~Fresh(x)
  BY <1>2 DEF Fresh
<1>6. Marked(t) /\ (t.local # 0 \/ t.name \in Special => "strfixed" \in t.flags)
  BY <1>1, <1>2, <1>5 DEF Flagged
<1>7. ~Fresh(e)
  BY <1>6 DEF Marked, Fresh
<1>8. Marked(x) /\ Marked(e) /\ "strfixed" \in x.flags /\ "textfixed" \in x.flags
  BY <1>6 DEF Marked
<1>9. Flagged(G, {})
  BY <1>1, <1>2, <1>5, <1>6, <1>7, <1>8 DEF Flagged
<1>10. (Owns(e) <=> Owns(t)) /\ ~Owns(x)
  BY <1>5, <1>7, <1>8 DEF Owns
<1>11. /\ h[t.text] # "free"
       /\ "unset" \in t.flags => h[t.text] = ""
       /\ "textfixed" \notin t.flags => t.text # "static"
       /\ "textfixed" \in t.flags => (t.local = 0 => t.text = "static")
       /\ "textfixed" \in t.flags => \A z \in H : z.name = t.name /\ z.level = t.local => ~Fresh(z) /\ z.text = t.text
       /\ t.text # "static" => \E z \in H : Owns(z) /\ z.name = t.name /\ z.text = t.text /\ z.level <= t.level
  BY <1>1, <1>2, <1>5 DEF Owned, Lives
<1>12. t.text # "static" => \E z \in G : Owns(z) /\ z.name = t.name /\ z.text = t.text /\ z.level <= D
  <2> SUFFICES ASSUME t.text # "static"
               PROVE  \E z \in G : Owns(z) /\ z.name = t.name /\ z.text = t.text /\ z.level <= D
    OBVIOUS
  <2>1. PICK z \in H : Owns(z) /\ z.name = t.name /\ z.text = t.text /\ z.level <= t.level
    BY <1>11
  <2>2. CASE z = t
    BY <1>2, <1>3, <1>10, <2>1, <2>2
  <2>3. CASE z # t
    <3>1. z.level < D /\ z.level \in 1 .. Top
      BY <1>1, <1>3, <2>1, <2>3 DEF Holder
    <3>2. z.level <= D
      BY <1>2, <3>1
    <3> QED BY <2>1, <2>3, <3>2
  <2> QED BY <2>2, <2>3
<1>13. Owned(G, h)
  <2>1. ASSUME NEW y \in R, ~Fresh(y)
        PROVE  Lives(G, h, y)
    <3>1. /\ h[y.text] # "free"
          /\ "unset" \in y.flags => h[y.text] = ""
          /\ "textfixed" \notin y.flags => y.text # "static"
          /\ "textfixed" \in y.flags => (y.local = 0 => y.text = "static")
          /\ "textfixed" \in y.flags => \A z \in H : z.name = y.name /\ z.level = y.local => ~Fresh(z) /\ z.text = y.text
          /\ y.text # "static" => \E z \in H : Owns(z) /\ z.name = y.name /\ z.text = y.text /\ z.level <= y.level
      BY <1>1, <2>1 DEF Owned, Lives
    <3>2. ASSUME "textfixed" \in y.flags, NEW z \in G, z.name = y.name, z.level = y.local
          PROVE  ~Fresh(z) /\ z.text = y.text
      <4>1. y.local \in 0 .. MaxDepth
        BY <1>1 DEF Holder
      <4>2. z # x /\ z # e
        BY <1>2, <1>3, <3>2, <4>1, TopIs
      <4> QED BY <3>1, <3>2, <4>2
    <3>3. ASSUME y.text # "static"
          PROVE  \E z \in G : Owns(z) /\ z.name = y.name /\ z.text = y.text /\ z.level <= y.level
      <4>1. PICK z \in H : Owns(z) /\ z.name = y.name /\ z.text = y.text /\ z.level <= y.level
        BY <3>1, <3>3
      <4>2. z # t
        BY <1>1, <1>2, <2>1, <4>1, TopOwner
      <4> QED BY <4>1, <4>2
    <3> QED BY <3>1, <3>2, <3>3 DEF Lives
  <2>2. Lives(G, h, x)
    <3>1. ASSUME NEW z \in G, z.name = x.name, z.level = x.local
          PROVE  ~Fresh(z) /\ z.text = x.text
      <4>1. z = e
        BY <1>2, <1>3, <3>1
      <4> QED BY <1>2, <1>7, <4>1
    <3>2. ASSUME x.text # "static"
          PROVE  \E z \in G : Owns(z) /\ z.name = x.name /\ z.text = x.text /\ z.level <= x.level
      <4>1. PICK z \in G : Owns(z) /\ z.name = t.name /\ z.text = t.text /\ z.level <= D
        BY <1>2, <1>12, <3>2
      <4>2. z.level \in 1 .. Top
        BY <1>1, <1>2 DEF Holder
      <4>3. z.level <= Top
        BY <4>2, TopIs
      <4> QED BY <1>2, <4>1, <4>3
    <3> QED BY <1>2, <1>3, <1>8, <1>11, <3>1, <3>2 DEF Lives
  <2>3. Lives(G, h, e)
    <3>1. ASSUME "textfixed" \in e.flags, NEW z \in G, z.name = e.name, z.level = e.local
          PROVE  ~Fresh(z) /\ z.text = e.text
      <4>1. z # x /\ z # e
        BY <1>2, <1>3, <3>1, TopIs
      <4> QED BY <1>2, <1>11, <3>1, <4>1
    <3> QED BY <1>2, <1>11, <1>12, <3>1 DEF Lives
  <2>4. ASSUME NEW y \in R, Owns(y), Owns(e), y.text = e.text
        PROVE  FALSE
    <3>1. y = t
      BY <1>1, <1>2, <1>10, <2>4, TopOwner DEF Owns
    <3> QED BY <3>1
  <2>5. \A y, z \in R : Owns(y) /\ Owns(z) /\ y.text = z.text => y = z
    BY <1>1 DEF Owned, Lives
  <2>6. \A y, z \in G : Owns(y) /\ Owns(z) /\ y.text = z.text => y = z
    BY <1>10, <2>4, <2>5
  <2>7. ASSUME NEW c \in Heap, h[c] # "free"
        PROVE  \E y \in G : Owns(y) /\ y.text = c
    <3>1. PICK y \in H : Owns(y) /\ y.text = c
      BY <1>1, <2>7 DEF Owned, Lives
    <3> QED BY <1>2, <1>10, <3>1
  <2>8. \A y \in G : ~Fresh(y) => Lives(G, h, y)
    BY <2>1, <2>2, <2>3
  <2> HIDE DEF G
  <2> QED BY <2>6, <2>7, <2>8 DEF Owned, Lives
<1>14. G \subseteq Holder /\ \A y \in G : y.level # Top \/ y.text # "static" => y.name \in nm
  BY <1>1, <1>2
<1> HIDE DEF G
<1>15. Valid(G, h, nm, {})
  BY <1>1, <1>4, <1>9, <1>13, <1>14 DEF Valid
<1> QED BY <1>15 DEF G

\* A variable that the scope has created is saved in an entry without a text.
LEMMA Created ==
  ASSUME NEW nm, NEW H, NEW h, Valid(H, h, nm, {}),
         NEW t, NEW e, NEW x, NEW D, Saves(H, t, e, x, D), t.name \in nm, t.name \notin Special,
         t.local = 0, "strfixed" \in t.flags, "textfixed" \notin t.flags,
         e.flags = {"unset"}, x.flags = t.flags
  PROVE  Valid((H \ {t}) \cup {x, e}, h, nm, {})
<1> DEFINE R == H \ {t}
           G == R \cup {x, e}
<1>1. /\ H \subseteq Holder /\ Chain(H) /\ Flagged(H, {}) /\ Owned(H, h)
      /\ \A y \in H : y.level # Top \/ y.text # "static" => y.name \in nm
      /\ h \in [Cells -> Texts \cup {"free"}] /\ h["static"] = ""
  BY DEF Valid
<1>2. /\ t \in H /\ t.level = Top /\ t.local < D /\ D \in 1 .. MaxDepth
      /\ e \in Holder /\ e.name = t.name /\ e.level = D /\ e.local = t.local
      /\ x \in Holder /\ x.name = t.name /\ x.level = Top /\ x.local = D /\ x.text = t.text
  BY DEF Saves
<1>3. /\ D # Top /\ D # 0 /\ ~(Top < D)
      /\ \A y \in R : y.name = t.name => y.level <= 0
  <2>1. Lower(R, t, D)
    BY <1>1, SavesIs
  <2> QED BY <2>1 DEF Lower
<1>4. ASSUME NEW y \in R, y.name = t.name
      PROVE  FALSE
  <2>1. y.level \in 1 .. Top /\ y.level <= 0
    BY <1>1, <1>3, <1>4 DEF Holder
  <2> QED BY <2>1
<1>5. Chain(G)
  BY <1>1, ChainPushed
<1>6. ~Fresh(t) /\ ~Fresh(x) /\ Fresh(e) /\ Owns(t) /\ Owns(x) /\ ~Owns(e)
  BY <1>2, <1>3 DEF Fresh, Owns
<1>7. Marked(x)
  BY DEF Marked
<1>8. Flagged(G, {})
  BY <1>1, <1>2, <1>6, <1>7 DEF Flagged
<1>9. /\ h[t.text] # "free" /\ t.text # "static"
      /\ "unset" \in t.flags => h[t.text] = ""
  BY <1>1, <1>2, <1>6 DEF Owned, Lives
<1>10. Owned(G, h)
  <2>1. ASSUME NEW y \in R, ~Fresh(y)
        PROVE  Lives(G, h, y)
    <3>1. /\ h[y.text] # "free"
          /\ "unset" \in y.flags => h[y.text] = ""
          /\ "textfixed" \notin y.flags => y.text # "static"
          /\ "textfixed" \in y.flags => (y.local = 0 => y.text = "static")
          /\ "textfixed" \in y.flags => \A z \in H : z.name = y.name /\ z.level = y.local => ~Fresh(z) /\ z.text = y.text
          /\ y.text # "static" => \E z \in H : Owns(z) /\ z.name = y.name /\ z.text = y.text /\ z.level <= y.level
      BY <1>1, <2>1 DEF Owned, Lives
    <3>2. y.name # t.name
      BY <1>4, <2>1
    <3> QED BY <1>2, <3>1, <3>2 DEF Lives
  <2>2. x.level <= x.level
    BY <1>2, TopIs
  <2>3. \A y, z \in H : Owns(y) /\ Owns(z) /\ y.text = z.text => y = z
    BY <1>1 DEF Owned, Lives
  <2>4. \A y, z \in G : Owns(y) /\ Owns(z) /\ y.text = z.text => y = z
    BY <1>2, <1>6, <2>3
  <2>5. ASSUME NEW c \in Heap, h[c] # "free"
        PROVE  \E y \in G : Owns(y) /\ y.text = c
    <3>1. PICK y \in H : Owns(y) /\ y.text = c
      BY <1>1, <2>5 DEF Owned, Lives
    <3> QED BY <1>2, <1>6, <3>1
  <2>6. Lives(G, h, x)
    BY <1>2, <1>6, <1>9, <2>2 DEF Lives, Owns
  <2>7. \A y \in G : ~Fresh(y) => Lives(G, h, y)
    BY <1>6, <2>1, <2>6
  <2> HIDE DEF G
  <2> QED BY <2>4, <2>5, <2>7 DEF Owned, Lives
<1>11. G \subseteq Holder /\ \A y \in G : y.level # Top \/ y.text # "static" => y.name \in nm
  BY <1>1, <1>2
<1> HIDE DEF G
<1>12. Valid(G, h, nm, {})
  BY <1>1, <1>5, <1>8, <1>10, <1>11 DEF Valid
<1> QED BY <1>12 DEF G

(***************************************************************************)
(* The functions of var.c.                                                 *)
(***************************************************************************)

\* The entries fit the stack, and the texts are for the names of the script.
Levels(E) == \A e \in E : e[1] \in 1 .. MaxDepth
Room(E, nm) ==
  /\ Levels(E) /\ IsFiniteSet(nm) /\ Cardinality(nm) = MaxNames

\* There is a text to allocate when a variable does not own one: every text
\* in use is for a name and a level of its own.
Elsewhere(H, g, nm, n) ==
  \A c \in Heap : g[c] # "free" =>
    \E x \in H : Owns(x) /\ x.text = c /\ x.name \in nm /\ ~(x.name = n /\ x.level = Top)
LEMMA FreeCell ==
  ASSUME NEW E, NEW nm, Room(E, nm), NEW H, H \subseteq Holder, Chain(H), NEW n \in nm, NEW g,
         Elsewhere(H, g, nm, n)
  PROVE  \E c \in Heap : g[c] = "free"
<1> SUFFICES ASSUME \A c \in Heap : g[c] # "free"
             PROVE  FALSE
  OBVIOUS
<1> DEFINE Places == nm \X (1 .. Top)
           P == Places \ {<<n, Top>>}
           Is(x, c) == Owns(x) /\ x.text = c /\ x.name \in nm /\ ~(x.name = n /\ x.level = Top)
           owner(c) == CHOOSE x \in H : Is(x, c)
           F == [c \in Heap |-> <<owner(c).name, owner(c).level>>]
<1>1. \A c \in Heap : owner(c) \in H /\ Is(owner(c), c)
  <2>1. \A c \in Heap : \E x \in H : Is(x, c)
    BY DEF Elsewhere
  <2> HIDE DEF Is
  <2> QED BY <2>1
<1>2. \A x \in H : x.level \in 1 .. Top
  BY DEF Holder
<1>3. F \in [Heap -> P]
  <2> SUFFICES ASSUME NEW c \in Heap
               PROVE  <<owner(c).name, owner(c).level>> \in P
    OBVIOUS
  <2> HIDE DEF owner
  <2> QED BY <1>1, <1>2
<1>4. ASSUME NEW c \in Heap, NEW d \in Heap, F[c] = F[d]
      PROVE  c = d
  <2>1. owner(c).name = owner(d).name /\ owner(c).level = owner(d).level
    <3> HIDE DEF owner
    <3> QED BY <1>4
  <2> HIDE DEF owner
  <2>2. owner(c) = owner(d)
    BY <1>1, <2>1 DEF Chain
  <2> QED BY <1>1, <2>2
<1> HIDE DEF F
<1>5. F \in Injection(Heap, P)
  BY <1>3, <1>4 DEF Injection, IsInjective
<1>6. MaxDepth \in Nat /\ MaxNames \in Nat /\ Top \in Nat /\ Top \in 1 .. Top
  <2>1. MaxDepth \in Nat /\ MaxNames \in Nat
    BY VarAssumption
  <2>2. Top \in Nat
    BY <2>1 DEF Top
  <2> QED BY <2>1, <2>2, TopIs
<1>7. IsFiniteSet(1 .. Top) /\ Cardinality(1 .. Top) = Top
  <2>1. 1 \in Int /\ Top \in Int /\ ~(1 > Top) /\ Top - 1 + 1 = Top
    BY <1>6 DEF Top
  <2> QED BY <2>1, FS_Interval
<1>8. IsFiniteSet(Places) /\ Cardinality(Places) = MaxNames * Top
  <2>1. IsFiniteSet(nm) /\ Cardinality(nm) = MaxNames
    BY DEF Room
  <2>2. IsFiniteSet(Places) /\ Cardinality(Places) = Cardinality(nm) * Cardinality(1 .. Top)
    BY <1>7, <2>1, FS_Product, Zenon
  <2> QED BY <1>7, <2>1, <2>2
<1>9. <<n, Top>> \in Places
  BY <1>6
<1> HIDE DEF Places
<1>10. IsFiniteSet(P) /\ Cardinality(P) = MaxNames * Top - 1
  BY <1>8, <1>9, FS_RemoveElement
<1> HIDE DEF P
<1>11. Cardinality(Heap) <= MaxNames * Top - 1
  BY <1>5, <1>10, FS_Injection
<1>12. Cardinality(Heap) >= MaxNames * Top /\ Cardinality(Heap) \in Nat
  BY VarAssumption, FS_CardinalityType DEF Top
<1>13. MaxNames * Top \in Int
  BY <1>6
<1> QED BY <1>11, <1>12, <1>13

\* The variable n is all that changes.
Changes(tab, r, n) == DOMAIN r = DOMAIN tab \cup {n} /\ \A m \in DOMAIN tab \ {n} : r[m] = tab[m]
LEMMA HoldersChanged ==
  ASSUME NEW E, Levels(E), NEW tab, NEW r, NEW n \in DOMAIN tab, Changes(tab, r, n)
  PROVE  Holders(r, E) = (Holders(tab, E) \ {Cur(tab, n)}) \cup {Cur(r, n)}
<1>1. \A m \in DOMAIN tab \ {n} : Cur(r, m) = Cur(tab, m) /\ Cur(r, m) # Cur(tab, n)
  BY DEF Changes, Cur
<1>2. \A e \in E : Old(e[1], e[2]) # Cur(tab, n)
  <2> TAKE e \in E
  <2>1. e[1] # Top
    BY TopIs DEF Levels
  <2>2. Old(e[1], e[2]).level = e[1] /\ Cur(tab, n).level = Top
    BY DEF Old, Cur
  <2> QED BY <2>1, <2>2
<1>3. DOMAIN r = DOMAIN tab \cup {n}
  BY DEF Changes
<1> QED BY <1>1, <1>2, <1>3 DEF Holders

LEMMA HoldersAdded ==
  ASSUME NEW E, NEW tab, NEW r, NEW n, n \notin DOMAIN tab, Changes(tab, r, n)
  PROVE  Holders(r, E) = Holders(tab, E) \cup {Cur(r, n)}
<1>1. \A m \in DOMAIN tab : Cur(r, m) = Cur(tab, m)
  BY DEF Changes, Cur
<1>2. DOMAIN r = DOMAIN tab \cup {n}
  BY DEF Changes
<1> QED BY <1>1, <1>2 DEF Holders

LEMMA HoldersForgotten ==
  ASSUME NEW E, Levels(E), NEW tab, NEW n \in DOMAIN tab,
         NEW r, r = [m \in DOMAIN tab \ {n} |-> tab[m]]
  PROVE  Holders(r, E) = Holders(tab, E) \ {Cur(tab, n)}
<1>1. \A m \in DOMAIN tab \ {n} : Cur(r, m) = Cur(tab, m) /\ Cur(r, m) # Cur(tab, n)
  BY DEF Cur
<1>2. \A e \in E : Old(e[1], e[2]) # Cur(tab, n)
  <2> TAKE e \in E
  <2>1. e[1] # Top
    BY TopIs DEF Levels
  <2>2. Old(e[1], e[2]).level = e[1] /\ Cur(tab, n).level = Top
    BY DEF Old, Cur
  <2> QED BY <2>1, <2>2
<1>3. DOMAIN r = DOMAIN tab \ {n}
  OBVIOUS
<1> QED BY <1>1, <1>2, <1>3 DEF Holders

\* What is seen of the variables, and of what was saved, with the texts h.
Shown(h, flags, text) ==
  [val |-> IF "unset" \in flags THEN "unset" ELSE h[text],
   export |-> "export" \in flags, readonly |-> "readonly" \in flags]
ViewOf(tab, h) ==
  [n \in Names |-> IF n \in DOMAIN tab THEN Shown(h, tab[n].flags, tab[n].text) ELSE Absent]
Shows(h, l) == IF SavesText(l) THEN Shown(h, l.flags, l.text) ELSE Absent

\* Nothing that is seen changes but of one variable.
Besides(tab, r, n) ==
  DOMAIN r \ {n} = DOMAIN tab \ {n} /\ \A m \in DOMAIN tab \ {n} : r[m] = tab[m]
Only(E, tab, h, r, k, n) ==
  /\ \A e \in E : Shows(k, e[2]) = Shows(h, e[2])
  /\ \A m \in Names \ {n} : ViewOf(r, k)[m] = ViewOf(tab, h)[m]
LEMMA OnlyIs ==
  ASSUME NEW E, Levels(E), NEW tab, NEW h, NEW r, NEW k, NEW n, Besides(tab, r, n),
         NEW R, Keeps(R, h, k), Holders(tab, E) \ {Cur(tab, n)} \subseteq R
  PROVE  Only(E, tab, h, r, k, n)
<1>1. ASSUME NEW e \in E, SavesText(e[2])
      PROVE  k[e[2].text] = h[e[2].text]
  <2>1. PICK y : y = Old(e[1], e[2])
    OBVIOUS
  <2>2. y.level = e[1] /\ y.flags = e[2].flags /\ y.text = e[2].text
    BY <2>1 DEF Old
  <2>3. y.level # Top
    BY <2>2, TopIs DEF Levels
  <2>4. y \in Holders(tab, E)
    BY <1>1, <2>1 DEF Holders, SavesText
  <2>5. y # Cur(tab, n)
    BY <2>3 DEF Cur
  <2>6. ~Fresh(y)
    BY <1>1, <2>2 DEF SavesText, Fresh
  <2> QED BY <2>2, <2>4, <2>5, <2>6 DEF Keeps
<1>2. ASSUME NEW m \in DOMAIN tab \ {n}
      PROVE  k[tab[m].text] = h[tab[m].text]
  <2>1. PICK y : y = Cur(tab, m)
    OBVIOUS
  <2>2. y.name = m /\ y.level = Top /\ y.text = tab[m].text
    BY <2>1 DEF Cur
  <2>3. Cur(tab, n).name = n
    BY DEF Cur
  <2>4. y \in Holders(tab, E) /\ y # Cur(tab, n) /\ ~Fresh(y)
    BY <2>1, <2>2, <2>3 DEF Holders, Fresh
  <2> QED BY <2>2, <2>4 DEF Keeps
<1>3. \A e \in E : Shows(k, e[2]) = Shows(h, e[2])
  BY <1>1 DEF Shows, Shown
<1>4. ASSUME NEW m \in Names \ {n}
      PROVE  ViewOf(r, k)[m] = ViewOf(tab, h)[m]
  <2>1. CASE m \in DOMAIN tab
    <3>1. m \in DOMAIN r /\ r[m] = tab[m] /\ k[tab[m].text] = h[tab[m].text]
      BY <1>2, <2>1 DEF Besides
    <3> QED BY <2>1, <3>1 DEF ViewOf, Shown
  <2>2. CASE m \notin DOMAIN tab
    <3>1. m \notin DOMAIN r
      BY <2>2 DEF Besides
    <3> QED BY <2>2, <3>1 DEF ViewOf
  <2> QED BY <2>1, <2>2
<1> QED BY <1>3, <1>4 DEF Only

\* What the functions of the other variables were told stays right.
Others(tab, n, R) == \A m \in DOMAIN tab \ {n} : Cur(tab, m) \in R
Same(f, g, n) == \A m \in Special \ {n} : f[m] = g[m]
LEMMA ToldKept ==
  ASSUME NEW tab, NEW h, NEW t, ToldOK(tab, h, t), Special \subseteq DOMAIN tab,
         NEW r, NEW n, Same(r, tab, n), NEW R, NEW k, Others(tab, n, R), Keeps(R, h, k),
         NEW u, u \in [Special -> Texts], Same(u, t, n),
         n \in Special => u[n] = ValueIn(r, k, n)
  PROVE  ToldOK(r, k, u)
<1> SUFFICES ASSUME NEW m \in Special \ {n}
             PROVE  u[m] = ValueIn(r, k, m)
  BY DEF ToldOK
<1>1. r[m] = tab[m] /\ u[m] = t[m] /\ Cur(tab, m) \in R
  BY DEF Same, Others
<1>2. Cur(tab, m).text = tab[m].text /\ ~Fresh(Cur(tab, m))
  BY DEF Cur, Fresh
<1>3. k[tab[m].text] = h[tab[m].text]
  BY <1>1, <1>2 DEF Keeps
<1> QED BY <1>1, <1>3 DEF ToldOK, ValueIn

\* The variable n among the holders.
LEMMA CurIs ==
  ASSUME NEW tab, NEW h, NEW t, NEW E, NEW nm, NEW un, Sane(tab, h, t, E, nm, un), Room(E, nm)
  PROVE  /\ Levels(E)
         /\ Holders(tab, E) \subseteq Holder /\ Chain(Holders(tab, E))
         /\ Owned(Holders(tab, E), h) /\ Flagged(Holders(tab, E), un)
         /\ h \in [Cells -> Texts \cup {"free"}] /\ h["static"] = ""
         /\ \A y \in Holders(tab, E) : y.level # Top \/ y.text # "static" => y.name \in nm
         /\ \A y \in Holders(tab, E) :
              y.level = Top => y.name \in DOMAIN tab /\ y = Cur(tab, y.name)
         /\ \A y \in Holders(tab, E) : y.name \in DOMAIN tab
         /\ \A n \in DOMAIN tab : Cur(tab, n) \in Holders(tab, E)
         /\ TabOK(tab, nm) /\ ToldOK(tab, h, t)
<1> DEFINE H == Holders(tab, E)
<1>1. /\ TabOK(tab, nm) /\ ToldOK(tab, h, t) /\ Valid(H, h, nm, un)
  BY DEF Sane
<1>2. /\ H \subseteq Holder /\ Chain(H) /\ Owned(H, h) /\ Flagged(H, un)
      /\ h \in [Cells -> Texts \cup {"free"}] /\ h["static"] = ""
      /\ \A y \in H : y.level # Top \/ y.text # "static" => y.name \in nm
  BY <1>1 DEF Valid
<1>3. Levels(E)
  BY DEF Room
<1>4. \A n \in DOMAIN tab : Cur(tab, n) \in H
  BY DEF Holders
<1>5. ASSUME NEW y \in H, y.level = Top
      PROVE  y.name \in DOMAIN tab /\ y = Cur(tab, y.name)
  <2>1. CASE \E n \in DOMAIN tab : y = Cur(tab, n)
    BY <2>1 DEF Cur
  <2>2. CASE \E e \in E : y = Old(e[1], e[2])
    <3>1. PICK e \in E : y = Old(e[1], e[2])
      BY <2>2
    <3>2. y.level = e[1]
      BY <3>1 DEF Old
    <3> QED BY <1>3, <1>5, <3>2, TopIs DEF Levels
  <2> QED BY <2>1, <2>2 DEF Holders
<1>6. ASSUME NEW y \in H
      PROVE  y.name \in DOMAIN tab
  <2>1. PICK z \in H : z.name = y.name /\ z.level = Top
    BY <1>2 DEF Chain
  <2> QED BY <1>5, <2>1
<1> HIDE DEF H
<1>7. QED
  BY <1>1, <1>2, <1>3, <1>4, <1>5, <1>6 DEF H

Given(tab, n, v) == [m \in DOMAIN tab \cup {n} |-> IF m = n THEN v ELSE tab[m]]
ToldOf(t, n, value) == IF n \in Special THEN [t EXCEPT ![n] = value] ELSE t

\* The variable n, which is known, loses the text that it owns; another one can
\* be allocated.
LEMMA CellForOld ==
  ASSUME NEW tab, NEW h, NEW t, NEW E, NEW nm, Sane(tab, h, t, E, nm, {}), Room(E, nm),
         NEW n \in nm, n \in DOMAIN tab
  PROVE  \E c \in Heap : FreedOf(h, Cur(tab, n))[c] = "free"
<1>1. PICK H : H = Holders(tab, E)
  OBVIOUS
<1>2. PICK v : v = Cur(tab, n)
  OBVIOUS
<1>3. PICK g : g = FreedOf(h, v)
  OBVIOUS
<1>4. /\ H \subseteq Holder /\ Chain(H) /\ Owned(H, h) /\ v \in H
      /\ h \in [Cells -> Texts \cup {"free"}] /\ h["static"] = ""
      /\ \A y \in H : y.level # Top \/ y.text # "static" => y.name \in nm
  BY <1>1, <1>2, CurIs
<1>5. v.level = Top /\ v.name = n
  BY <1>2 DEF Cur
<1>6. FreesOnly(H, h, v, g)
  BY <1>3, <1>4, <1>5, FreedIs
<1>7. ASSUME NEW d \in Heap, g[d] # "free"
      PROVE  \E y \in H : Owns(y) /\ y.text = d /\ y.name \in nm /\ ~(y.name = n /\ y.level = Top)
  <2>1. h[d] # "free" /\ ~(Owns(v) /\ d = v.text)
    BY <1>6, <1>7 DEF FreesOnly
  <2>2. PICK y \in H : Owns(y) /\ y.text = d
    BY <1>4, <2>1 DEF Owned
  <2>3. d # "static"
    BY VarAssumption
  <2>4. y.name = n /\ y.level = Top => y = v
    BY <1>4, <1>5 DEF Chain
  <2> QED BY <1>4, <2>1, <2>2, <2>3, <2>4
<1>8. Elsewhere(H, g, nm, n)
  BY <1>7 DEF Elsewhere
<1>9. \E c \in Heap : g[c] = "free"
  <2>1. H \subseteq Holder /\ Chain(H)
    BY <1>4
  <2> QED BY ONLY <1>8, <2>1, Room(E, nm), n \in nm, FreeCell
<1> QED BY <1>2, <1>3, <1>9

\* It gets the text.
LEMMA PutOld ==
  ASSUME NEW tab, NEW h, NEW t, NEW E, NEW nm, Sane(tab, h, t, E, nm, {}), Room(E, nm),
         NEW n \in nm, n \in DOMAIN tab, NEW value \in Texts, NEW f \in SUBSET Flags, "textfixed" \notin f,
         "strfixed" \in Cur(tab, n).flags => "strfixed" \in f,
         "unset" \in f => value = "" /\ f \cap {"export", "readonly", "strfixed"} # {},
         NEW g, g = FreedOf(h, Cur(tab, n)), NEW c \in Heap, g[c] = "free",
         NEW w \in Var, w.flags = f, w.text = c, w.local = Cur(tab, n).local, NEW r, r = Given(tab, n, w)
  PROVE  Sane(r, Write(g, c, value), ToldOf(t, n, value), E, nm, {}) /\ Only(E, tab, h, r, Write(g, c, value), n)
<1>1. PICK H : H = Holders(tab, E)
  OBVIOUS
<1>2. PICK v : v = Cur(tab, n)
  OBVIOUS
<1>3. PICK x : x = [v EXCEPT !.flags = f, !.text = c]
  OBVIOUS
<1>4. PICK k : k = Write(g, c, value)
  OBVIOUS
<1>5. PICK u : u = ToldOf(t, n, value)
  OBVIOUS
<1>6. /\ Levels(E)
      /\ H \subseteq Holder /\ Chain(H) /\ Owned(H, h) /\ v \in H
      /\ h \in [Cells -> Texts \cup {"free"}] /\ h["static"] = ""
      /\ \A m \in DOMAIN tab : Cur(tab, m) \in H
      /\ TabOK(tab, nm) /\ ToldOK(tab, h, t)
  BY <1>1, <1>2, CurIs
<1>7. v.level = Top /\ v.name = n
  BY <1>2 DEF Cur
<1>8. Valid(H, h, nm, {})
  BY <1>1 DEF Sane
<1>9. Marked(x)
  BY <1>2, <1>3 DEF Marked, Cur
<1>10. Valid((H \ {v}) \cup {x}, k, nm, {}) /\ Keeps(H \ {v}, h, k)
  <2>1. g = FreedOf(h, v) /\ ("strfixed" \in v.flags => "strfixed" \in f) /\ v.name \in nm
    BY <1>2, <1>7
  <2>2. ("unset" \in f => value = "") /\ (v.name \notin {} => Marked(x))
    BY <1>9
  <2>3. x \in Holder /\ x.name = v.name /\ x.level = Top /\ x.local = v.local /\ x.flags = f /\ x.text = c
    BY <1>3, <1>6, <1>7 DEF Holder, Cells
  <2>4. v \in H /\ v.level = Top
    BY <1>6, <1>7
  <2>5. k = Write(g, c, value)
    BY <1>4
  <2> QED BY ONLY <1>8, <2>1, <2>2, <2>3, <2>4, <2>5, Rewritten, c \in Heap, g[c] = "free",
                  value \in Texts, f \in SUBSET Flags, "textfixed" \notin f
<1>11. r[n] = w /\ Changes(tab, r, n) /\ DOMAIN r = DOMAIN tab
  BY <1>2 DEF Given, Changes
<1>17. w.local = v.local
  BY <1>2
<1>12. x = Cur(r, n)
  BY ONLY <1>2, <1>3, <1>11, <1>17, w.flags = f, w.text = c DEF Cur
<1>13. Holders(r, E) = (H \ {v}) \cup {x}
  <2>1. Holders(r, E) = (Holders(tab, E) \ {Cur(tab, n)}) \cup {Cur(r, n)}
    <3>1. Levels(E) /\ Changes(tab, r, n)
      BY <1>6, <1>11
    <3> QED BY ONLY <3>1, n \in DOMAIN tab, HoldersChanged
  <2> QED BY ONLY <1>1, <1>2, <1>12, <2>1
<1>14. TabOK(r, nm)
  <2>1. \A m \in DOMAIN tab \ {n} : r[m] = tab[m]
    BY <1>11 DEF Changes
  <2> QED BY <1>6, <1>11, <2>1 DEF TabOK
<1>15. ToldOK(r, k, u)
  <2>1. Others(tab, n, H \ {v})
    BY <1>2, <1>6 DEF Cur, Others
  <2>2. c \in Cells /\ g \in [Cells -> Texts \cup {"free"}]
    BY <1>6 DEF Cells, FreedOf
  <2>3. k[c] = value
    BY <1>4, <2>2 DEF Write
  <2>4. u \in [Special -> Texts] /\ Same(u, t, n) /\ (n \in Special => u[n] = value)
    BY <1>5, <1>6 DEF ToldOK, ToldOf, Same
  <2>5. n \in Special => u[n] = ValueIn(r, k, n)
    BY <1>11, <2>3, <2>4 DEF ValueIn
  <2>6. Special \subseteq DOMAIN tab /\ Same(r, tab, n)
    BY <1>6, <1>11 DEF TabOK, Changes, Same
  <2> QED BY ONLY <1>6, <1>10, <2>1, <2>4, <2>5, <2>6, ToldKept
<1>16. Sane(r, k, u, E, nm, {})
  BY <1>10, <1>13, <1>14, <1>15 DEF Sane
<1>18. Only(E, tab, h, r, k, n)
  <2>1. Besides(tab, r, n) /\ Levels(E) /\ Keeps(H \ {v}, h, k)
    BY <1>6, <1>10, <1>11 DEF Changes, Besides
  <2>2. Holders(tab, E) \ {Cur(tab, n)} \subseteq H \ {v}
    BY <1>1, <1>2
  <2> QED BY ONLY <2>1, <2>2, OnlyIs
<1> QED BY <1>4, <1>5, <1>16, <1>18

\* A variable that is not known gets a text.
LEMMA CellForNew ==
  ASSUME NEW tab, NEW h, NEW t, NEW E, NEW nm, Sane(tab, h, t, E, nm, {}), Room(E, nm),
         NEW n \in nm, n \notin DOMAIN tab
  PROVE  \E c \in Heap : h[c] = "free"
<1>1. PICK H : H = Holders(tab, E)
  OBVIOUS
<1>2. /\ H \subseteq Holder /\ Chain(H) /\ Owned(H, h)
      /\ \A y \in H : y.level # Top \/ y.text # "static" => y.name \in nm
      /\ \A y \in H : y.name \in DOMAIN tab
  BY <1>1, CurIs
<1>3. ASSUME NEW d \in Heap, h[d] # "free"
      PROVE  \E y \in H : Owns(y) /\ y.text = d /\ y.name \in nm /\ ~(y.name = n /\ y.level = Top)
  <2>1. PICK y \in H : Owns(y) /\ y.text = d
    BY <1>2, <1>3 DEF Owned
  <2>2. d # "static"
    BY VarAssumption
  <2> QED BY <1>2, <2>1, <2>2
<1>4. Elsewhere(H, h, nm, n)
  BY <1>3 DEF Elsewhere
<1> QED BY <1>2, <1>4, FreeCell

LEMMA PutNew ==
  ASSUME NEW tab, NEW h, NEW t, NEW E, NEW nm, Sane(tab, h, t, E, nm, {}), Room(E, nm),
         NEW n \in nm, n \notin DOMAIN tab, NEW value \in Texts, NEW c \in Heap, h[c] = "free",
         NEW w \in Var, "textfixed" \notin w.flags, w.text = c, w.local = 0,
         "unset" \in w.flags => value = "" /\ w.flags \cap {"export", "readonly", "strfixed"} # {},
         NEW r, r = Given(tab, n, w)
  PROVE  /\ Sane(r, Write(h, c, value), t, E, nm, {}) /\ n \notin Special
         /\ Only(E, tab, h, r, Write(h, c, value), n)
<1>1. PICK H : H = Holders(tab, E)
  OBVIOUS
<1>2. PICK k : k = Write(h, c, value)
  OBVIOUS
<1>3. PICK x : x = Cur(r, n)
  OBVIOUS
<1>4. /\ Levels(E) /\ h \in [Cells -> Texts \cup {"free"}]
      /\ \A m \in DOMAIN tab : Cur(tab, m) \in H
      /\ \A y \in H : y.name \in DOMAIN tab
      /\ TabOK(tab, nm) /\ ToldOK(tab, h, t)
  BY <1>1, CurIs
<1>5. n \notin Special /\ nm \subseteq Names /\ \A y \in H : y.name # n
  BY <1>4 DEF TabOK
<1>6. Valid(H, h, nm, {})
  BY <1>1 DEF Sane
<1>7. r[n] = w /\ Changes(tab, r, n) /\ DOMAIN r = DOMAIN tab \cup {n}
  BY DEF Given, Changes
<1>8. x.name = n /\ x.level = Top /\ x.flags = w.flags /\ x.text = c /\ x.local = 0
  BY ONLY <1>3, <1>7, w.text = c, w.local = 0 DEF Cur
<1>9. x \in Holder
  <2>1. x = [name |-> n, level |-> Top, flags |-> w.flags, text |-> c, local |-> 0]
    BY ONLY <1>3, <1>7, w.text = c, w.local = 0 DEF Cur
  <2>2. Top \in 1 .. Top /\ 0 \in 0 .. MaxDepth
    BY TopIs
  <2>3. n \in Names /\ w.flags \in SUBSET Flags /\ c \in Cells
    BY <1>5 DEF Var, Cells
  <2> QED BY <2>1, <2>2, <2>3 DEF Holder
<1>10. Marked(x) /\ "textfixed" \notin x.flags /\ ("unset" \in x.flags => value = "")
  BY <1>8 DEF Marked
<1>11. Valid(H \cup {x}, k, nm, {}) /\ Keeps(H, h, k)
  BY ONLY <1>2, <1>5, <1>6, <1>8, <1>9, <1>10, n \in nm, c \in Heap, h[c] = "free", value \in Texts, Added
<1>12. Holders(r, E) = H \cup {x}
  BY ONLY <1>1, <1>3, <1>7, n \notin DOMAIN tab, HoldersAdded
<1>13. TabOK(r, nm)
  <2>1. \A m \in DOMAIN tab \ {n} : r[m] = tab[m]
    BY <1>7 DEF Changes
  <2> QED BY <1>4, <1>7, <2>1 DEF TabOK
<1>14. ToldOK(r, k, t)
  <2>1. Others(tab, n, H)
    BY <1>4 DEF Others
  <2>2. t \in [Special -> Texts] /\ Same(t, t, n)
    BY <1>4 DEF ToldOK, Same
  <2>3. Special \subseteq DOMAIN tab /\ Same(r, tab, n)
    BY <1>4, <1>7 DEF TabOK, Changes, Same
  <2> QED BY ONLY <1>4, <1>5, <1>11, <2>1, <2>2, <2>3, ToldKept
<1>15. Sane(r, k, t, E, nm, {})
  BY <1>11, <1>12, <1>13, <1>14 DEF Sane
<1>16. Only(E, tab, h, r, k, n)
  <2>1. Besides(tab, r, n) /\ Levels(E) /\ Keeps(H, h, k)
    BY <1>4, <1>7, <1>11 DEF Changes, Besides
  <2>2. Holders(tab, E) \ {Cur(tab, n)} \subseteq H
    BY <1>1
  <2> QED BY ONLY <2>1, <2>2, OnlyIs
<1> QED BY <1>2, <1>5, <1>15, <1>16

\* A variable is removed.
Without(tab, n) == [m \in DOMAIN tab \ {n} |-> tab[m]]
LEMMA Forgotten ==
  ASSUME NEW tab, NEW h, NEW t, NEW E, NEW nm, NEW un, Sane(tab, h, t, E, nm, un), Room(E, nm),
         NEW n, n \in DOMAIN tab, un \subseteq {n}, "strfixed" \notin Cur(tab, n).flags
  PROVE  /\ Sane(Without(tab, n), FreedOf(h, Cur(tab, n)), t, E, nm, {}) /\ n \notin Special
         /\ Only(E, tab, h, Without(tab, n), FreedOf(h, Cur(tab, n)), n)
<1>1. PICK H : H = Holders(tab, E)
  OBVIOUS
<1>2. PICK v : v = Cur(tab, n)
  OBVIOUS
<1>3. PICK k : k = FreedOf(h, v)
  OBVIOUS
<1>4. PICK r : r = Without(tab, n)
  OBVIOUS
<1>5. /\ Levels(E) /\ v \in H
      /\ \A m \in DOMAIN tab : Cur(tab, m) \in H
      /\ TabOK(tab, nm) /\ ToldOK(tab, h, t)
  BY <1>1, <1>2, CurIs
<1>6. v.level = Top /\ v.name = n
  BY <1>2 DEF Cur
<1>7. Valid(H, h, nm, un)
  BY <1>1 DEF Sane
<1>8. Valid(H \ {v}, k, nm, {}) /\ Keeps(H \ {v}, h, k) /\ n \notin Special
  <2>1. "strfixed" \notin v.flags /\ un \subseteq {v.name}
    BY <1>2, <1>6
  <2> QED BY ONLY <1>3, <1>5, <1>6, <1>7, <2>1, Removed
<1>9. DOMAIN r = DOMAIN tab \ {n} /\ \A m \in DOMAIN tab \ {n} : r[m] = tab[m]
  BY <1>4 DEF Without
<1>10. Holders(r, E) = H \ {v}
  <2>1. r = [m \in DOMAIN tab \ {n} |-> tab[m]]
    BY <1>4 DEF Without
  <2> QED BY ONLY <1>1, <1>2, <1>5, <2>1, n \in DOMAIN tab, HoldersForgotten
<1>11. TabOK(r, nm)
  BY <1>5, <1>8, <1>9 DEF TabOK
<1>12. ToldOK(r, k, t)
  <2>1. Others(tab, n, H \ {v})
    BY <1>2, <1>5 DEF Cur, Others
  <2>2. t \in [Special -> Texts] /\ Same(t, t, n)
    BY <1>5 DEF ToldOK, Same
  <2>3. Special \subseteq DOMAIN tab /\ Same(r, tab, n)
    BY <1>5, <1>9 DEF TabOK, Same
  <2> QED BY ONLY <1>5, <1>8, <2>1, <2>2, <2>3, ToldKept
<1>13. Sane(r, k, t, E, nm, {})
  BY <1>8, <1>10, <1>11, <1>12 DEF Sane
<1>14. Only(E, tab, h, r, k, n)
  <2>1. Besides(tab, r, n) /\ Levels(E) /\ Keeps(H \ {v}, h, k)
    BY <1>5, <1>8, <1>9 DEF Besides
  <2>2. Holders(tab, E) \ {Cur(tab, n)} \subseteq H \ {v}
    BY <1>1, <1>2
  <2> QED BY ONLY <2>1, <2>2, OnlyIs
<1> QED BY <1>2, <1>3, <1>4, <1>8, <1>13, <1>14

\* What changes of a variable, other than its text, when it is known.
LEMMA FlagsGiven ==
  ASSUME NEW tab, NEW h, NEW t, NEW E, NEW nm, Sane(tab, h, t, E, nm, {}), Room(E, nm),
         NEW n, n \in DOMAIN tab, NEW v, v = Cur(tab, n), NEW w \in Var,
         w.text = v.text, w.local = v.local, Marked(w),
         "unset" \in w.flags <=> "unset" \in v.flags,
         "strfixed" \in w.flags <=> "strfixed" \in v.flags,
         "textfixed" \in w.flags <=> "textfixed" \in v.flags
  PROVE  Sane(Given(tab, n, w), h, t, E, nm, {})
<1>1. PICK H : H = Holders(tab, E)
  OBVIOUS
<1>2. PICK r : r = Given(tab, n, w)
  OBVIOUS
<1>3. PICK x : x = Cur(r, n)
  OBVIOUS
<1>4. /\ Levels(E) /\ H \subseteq Holder /\ v \in H
      /\ \A m \in DOMAIN tab : Cur(tab, m) \in H
      /\ TabOK(tab, nm) /\ ToldOK(tab, h, t)
  BY <1>1, CurIs
<1>5. v.level = Top /\ v.name = n /\ v.text = tab[n].text /\ v.flags = tab[n].flags
  BY DEF Cur
<1>6. Valid(H, h, nm, {})
  BY <1>1 DEF Sane
<1>7. r[n] = w /\ Changes(tab, r, n) /\ DOMAIN r = DOMAIN tab
  BY <1>2 DEF Given, Changes
<1>8. x = [name |-> n, level |-> Top, flags |-> w.flags, text |-> v.text, local |-> v.local]
  BY ONLY <1>3, <1>7, w.text = v.text, w.local = v.local DEF Cur
<1>9. x.name = n /\ x.level = Top /\ x.flags = w.flags /\ x.text = v.text /\ x.local = v.local
  BY ONLY <1>8
<1>10. x \in Holder
  <2>1. n \in Names /\ v.level \in 1 .. Top /\ v.text \in Cells /\ v.local \in 0 .. MaxDepth
    BY <1>4, <1>5 DEF Holder
  <2>2. w.flags \in SUBSET Flags
    BY DEF Var
  <2> QED BY <1>5, <1>8, <2>1, <2>2 DEF Holder
<1>11. /\ "unset" \in x.flags <=> "unset" \in v.flags
       /\ "strfixed" \in x.flags <=> "strfixed" \in v.flags
       /\ "textfixed" \in x.flags <=> "textfixed" \in v.flags
       /\ Marked(x) /\ x.name = v.name /\ x.local = v.local
  BY <1>5, <1>9 DEF Marked
<1>12. Valid((H \ {v}) \cup {x}, h, nm, {})
  BY ONLY <1>4, <1>5, <1>6, <1>9, <1>10, <1>11, Reflagged
<1>13. Holders(r, E) = (H \ {v}) \cup {x}
  <2>1. Levels(E)
    BY <1>4
  <2> QED BY ONLY <1>1, <1>3, <1>7, <2>1, v = Cur(tab, n), n \in DOMAIN tab, HoldersChanged
<1>14. TabOK(r, nm)
  <2>1. \A m \in DOMAIN tab \ {n} : r[m] = tab[m]
    BY <1>7 DEF Changes
  <2> QED BY <1>4, <1>7, <2>1 DEF TabOK
<1>15. ToldOK(r, h, t)
  <2>1. \A m \in DOMAIN tab \ {n} : r[m] = tab[m]
    BY <1>7 DEF Changes
  <2>2. Special \subseteq DOMAIN tab
    BY <1>4 DEF TabOK
  <2>3. \A m \in Special : r[m].text = tab[m].text /\ ("unset" \in r[m].flags <=> "unset" \in tab[m].flags)
    BY <1>5, <1>7, <2>1, <2>2
  <2>4. \A m \in Special : ValueIn(r, h, m) = ValueIn(tab, h, m)
    BY <2>3 DEF ValueIn
  <2> QED BY <1>4, <2>4 DEF ToldOK
<1>16. Sane(r, h, t, E, nm, {})
  BY <1>12, <1>13, <1>14, <1>15 DEF Sane
<1> QED BY <1>2, <1>16

\* A scope at the depth D saves a variable in the entry l.
LEMMA HoldersLinked ==
  ASSUME NEW E, NEW tab, NEW D, NEW l
  PROVE  /\ l.vp \in Names => Holders(tab, E \cup {<<D, l>>}) = Holders(tab, E) \cup {Old(D, l)}
         /\ l.vp \notin Names => Holders(tab, E \cup {<<D, l>>}) = Holders(tab, E)
<1>1. PICK e : e = <<D, l>>
  OBVIOUS
<1>2. e[1] = D /\ e[2] = l
  BY <1>1
<1>3. l.vp \in Names => Holders(tab, E \cup {e}) = Holders(tab, E) \cup {Old(D, l)}
  BY <1>2 DEF Holders
<1>4. l.vp \notin Names => Holders(tab, E \cup {e}) = Holders(tab, E)
  BY <1>2 DEF Holders
<1> QED BY <1>1, <1>3, <1>4

LEMMA SavedIn ==
  ASSUME NEW tab, NEW h, NEW t, NEW E, NEW nm, Sane(tab, h, t, E, nm, {}), Room(E, nm),
         NEW n \in nm, n \in DOMAIN tab, NEW v, v = Cur(tab, n),
         NEW D \in 1 .. MaxDepth, v.local < D, NEW l \in Saved, l.vp = n, l.local = v.local,
         NEW w \in Var, w.text = v.text, w.local = D, "unset" \in w.flags <=> "unset" \in v.flags,
         \/ /\ l.flags = v.flags /\ l.text = v.text
            /\ w.flags = v.flags \cup {"strfixed", "textfixed"}
         \/ /\ l.flags = {"unset"} /\ w.flags = v.flags /\ v.local = 0 /\ n \notin Special
            /\ "strfixed" \in v.flags /\ "textfixed" \notin v.flags
  PROVE  Sane(Given(tab, n, w), h, t, E \cup {<<D, l>>}, nm, {}) /\ Room(E \cup {<<D, l>>}, nm)
<1>1. PICK H : H = Holders(tab, E)
  OBVIOUS
<1>2. PICK r : r = Given(tab, n, w)
  OBVIOUS
<1>3. PICK x : x = Cur(r, n)
  OBVIOUS
<1>4. PICK e : e = Old(D, l)
  OBVIOUS
<1>5. /\ Levels(E) /\ H \subseteq Holder /\ v \in H
      /\ TabOK(tab, nm) /\ ToldOK(tab, h, t)
  BY <1>1, CurIs
<1>6. v.level = Top /\ v.name = n /\ v.text = tab[n].text /\ v.flags = tab[n].flags
  BY DEF Cur
<1>7. Valid(H, h, nm, {})
  BY <1>1 DEF Sane
<1>8. r[n] = w /\ Changes(tab, r, n) /\ DOMAIN r = DOMAIN tab
  BY <1>2 DEF Given, Changes
<1>9. x = [name |-> n, level |-> Top, flags |-> w.flags, text |-> v.text, local |-> D]
  BY ONLY <1>3, <1>8, w.text = v.text, w.local = D DEF Cur
<1>10. x.name = n /\ x.level = Top /\ x.flags = w.flags /\ x.text = v.text /\ x.local = D
  BY ONLY <1>9
<1>11. e = [name |-> n, level |-> D, flags |-> l.flags, text |-> l.text, local |-> v.local]
  BY ONLY <1>4, l.vp = n, l.local = v.local DEF Old
<1>12. e.name = n /\ e.level = D /\ e.flags = l.flags /\ e.text = l.text /\ e.local = v.local
  BY ONLY <1>11
<1>13. n \in Names /\ v.level \in 1 .. Top /\ v.text \in Cells /\ v.local \in 0 .. MaxDepth
  BY <1>5, <1>6 DEF Holder
<1>14. D \in 1 .. Top /\ D \in 0 .. MaxDepth
  BY TopIs
<1>15. x \in Holder
  <2>1. w.flags \in SUBSET Flags
    BY DEF Var
  <2> QED BY <1>6, <1>9, <1>13, <1>14, <2>1 DEF Holder
<1>16. e \in Holder
  <2>1. l.flags \in SUBSET Flags /\ l.text \in Cells
    BY DEF Saved
  <2> QED BY <1>11, <1>13, <1>14, <2>1 DEF Holder
<1>17. Saves(H, v, e, x, D)
  BY <1>5, <1>6, <1>10, <1>12, <1>15, <1>16 DEF Saves
<1>18. Valid((H \ {v}) \cup {x, e}, h, nm, {})
  <2>1. CASE /\ l.flags = v.flags /\ l.text = v.text
             /\ w.flags = v.flags \cup {"strfixed", "textfixed"}
    <3>1. v.name \in nm /\ e.flags = v.flags /\ e.text = v.text /\ x.flags = v.flags \cup {"strfixed", "textfixed"}
      BY <1>6, <1>10, <1>12, <2>1
    <3> QED BY ONLY <1>7, <1>17, <3>1, Attached
  <2>2. CASE /\ l.flags = {"unset"} /\ w.flags = v.flags /\ v.local = 0 /\ n \notin Special
             /\ "strfixed" \in v.flags /\ "textfixed" \notin v.flags
    <3>1. /\ v.name \in nm /\ v.name \notin Special /\ v.local = 0
          /\ "strfixed" \in v.flags /\ "textfixed" \notin v.flags
          /\ e.flags = {"unset"} /\ x.flags = v.flags
      BY <1>6, <1>10, <1>12, <2>2
    <3> QED BY ONLY <1>7, <1>17, <3>1, Created
  <2> QED BY <2>1, <2>2
<1>19. Holders(r, E) = (H \ {v}) \cup {x}
  <2>1. Levels(E)
    BY <1>5
  <2> QED BY ONLY <1>1, <1>3, <1>8, <2>1, v = Cur(tab, n), n \in DOMAIN tab, HoldersChanged
<1>20. Holders(r, E \cup {<<D, l>>}) = (H \ {v}) \cup {x, e}
  <2>1. l.vp \in Names
    BY <1>13
  <2>2. Holders(r, E \cup {<<D, l>>}) = Holders(r, E) \cup {e}
    BY ONLY <1>4, <2>1, HoldersLinked
  <2> QED BY <1>19, <2>2
<1>21. TabOK(r, nm)
  <2>1. \A m \in DOMAIN tab \ {n} : r[m] = tab[m]
    BY <1>8 DEF Changes
  <2> QED BY <1>5, <1>8, <2>1 DEF TabOK
<1>22. ToldOK(r, h, t)
  <2>1. \A m \in DOMAIN tab \ {n} : r[m] = tab[m]
    BY <1>8 DEF Changes
  <2>2. Special \subseteq DOMAIN tab
    BY <1>5 DEF TabOK
  <2>3. \A m \in Special : r[m].text = tab[m].text /\ ("unset" \in r[m].flags <=> "unset" \in tab[m].flags)
    BY <1>6, <1>8, <2>1, <2>2
  <2>4. \A m \in Special : ValueIn(r, h, m) = ValueIn(tab, h, m)
    BY <2>3 DEF ValueIn
  <2> QED BY <1>5, <2>4 DEF ToldOK
<1>23. Sane(r, h, t, E \cup {<<D, l>>}, nm, {})
  BY <1>18, <1>20, <1>21, <1>22 DEF Sane
<1>24. Room(E \cup {<<D, l>>}, nm)
  BY DEF Room, Levels
<1> QED BY <1>2, <1>23, <1>24

\* The entry l of the uppermost scope, at the depth D, is undone; E are the
\* entries that are left.
Popping(tab, E, D, l, nm) ==
  /\ D \in 1 .. MaxDepth /\ (\A e \in E : e[1] \in 1 .. D)
  /\ l \in Saved /\ l.vp \in Names /\ Old(D, l) \notin Holders(tab, E)
Pops(tab, h, t, E, D, n, nm, H, v, e) ==
  /\ n \in DOMAIN tab /\ n \in nm /\ Innermost(H, v, e) /\ v.local = D /\ v.name = n
  /\ Room(E, nm) /\ Holders(tab, E) = H \ {e} /\ Levels(E)
  /\ TabOK(tab, nm) /\ ToldOK(tab, h, t) /\ Valid(H, h, nm, {}) /\ H \subseteq Holder
  /\ Others(tab, n, H \ {v, e})
LEMMA PoppingIs ==
  ASSUME NEW tab, NEW h, NEW t, NEW E, NEW D, NEW l, NEW nm, Sane(tab, h, t, E \cup {<<D, l>>}, nm, {}),
         Room(E \cup {<<D, l>>}, nm), Popping(tab, E, D, l, nm),
         NEW H, H = Holders(tab, E \cup {<<D, l>>}), NEW v, v = Cur(tab, l.vp), NEW e, e = Old(D, l)
  PROVE  Pops(tab, h, t, E, D, l.vp, nm, H, v, e)
<1>1. /\ H \subseteq Holder /\ Chain(H)
      /\ \A y \in H : y.level # Top \/ y.text # "static" => y.name \in nm
      /\ \A y \in H : y.name \in DOMAIN tab
      /\ \A m \in DOMAIN tab : Cur(tab, m) \in H
      /\ TabOK(tab, nm) /\ ToldOK(tab, h, t)
  BY CurIs
<1>2. D \in 1 .. MaxDepth /\ (\A f \in E : f[1] \in 1 .. D) /\ l \in Saved /\ l.vp \in Names /\ e \notin Holders(tab, E)
  BY DEF Popping
<1>3. H = Holders(tab, E) \cup {e}
  BY ONLY <1>2, H = Holders(tab, E \cup {<<D, l>>}), e = Old(D, l), HoldersLinked
<1>4. e \in H /\ e.name = l.vp /\ e.level = D
  BY <1>3 DEF Old
<1>5. D # Top /\ D < Top /\ D # 0
  BY <1>2, TopIs
<1>6. l.vp \in DOMAIN tab /\ l.vp \in nm
  BY <1>1, <1>4, <1>5
<1>7. v \in H /\ v.level = Top /\ v.name = l.vp
  BY <1>1, <1>6 DEF Cur
<1>8. D <= v.local
  <2>1. e.level < v.level /\ e.name = v.name
    BY <1>4, <1>5, <1>7
  <2>2. e.level <= v.local
    BY ONLY <1>1, <1>4, <1>7, <2>1 DEF Chain
  <2> QED BY <1>4, <2>2
<1>9. v.local \in 0 .. MaxDepth
  BY <1>1, <1>7 DEF Holder
<1>10. v.local # 0
  BY <1>2, <1>8, <1>9
<1>11. PICK y \in H : y.name = v.name /\ y.level = v.local
  BY <1>1, <1>7, <1>10 DEF Chain
<1>12. y.level # Top
  BY <1>9, <1>11, TopIs
<1>13. y.level \in 1 .. D
  <2>1. CASE y = e
    BY <1>2, <1>4, <2>1
  <2>2. CASE y \in Holders(tab, E)
    <3>1. \A m \in DOMAIN tab : y # Cur(tab, m)
      BY <1>12 DEF Cur
    <3>2. PICK f \in E : y = Old(f[1], f[2])
      BY <2>2, <3>1 DEF Holders
    <3>3. y.level = f[1]
      BY <3>2 DEF Old
    <3> QED BY <1>2, <3>3
  <2> QED BY <1>3, <2>1, <2>2
<1>14. v.local = D
  BY <1>2, <1>8, <1>9, <1>11, <1>13
<1>15. Innermost(H, v, e)
  BY <1>4, <1>7, <1>14 DEF Innermost
<1>16. Levels(E)
  <2> SUFFICES ASSUME NEW f \in E
               PROVE  f[1] \in 1 .. MaxDepth
    BY DEF Levels
  <2>1. f[1] \in 1 .. D
    BY <1>2
  <2>2. MaxDepth \in Nat
    BY TopIs
  <2> QED BY <1>2, <2>1, <2>2
<1>17. Room(E, nm)
  BY <1>16 DEF Room
<1>18. Holders(tab, E) = H \ {e}
  BY <1>2, <1>3
<1>19. Others(tab, l.vp, H \ {v, e})
  <2>1. \A m \in DOMAIN tab : Cur(tab, m).name = m /\ Cur(tab, m).level = Top
    BY DEF Cur
  <2> QED BY <1>1, <1>4, <1>5, <1>7, <2>1 DEF Others
<1>20. Valid(H, h, nm, {})
  BY DEF Sane
<1> QED BY <1>1, <1>6, <1>7, <1>14, <1>15, <1>16, <1>17, <1>18, <1>19, <1>20 DEF Pops

LEMMA Undone ==
  ASSUME NEW tab, NEW h, NEW t, NEW E, NEW D, NEW l, NEW nm, Sane(tab, h, t, E \cup {<<D, l>>}, nm, {}),
         Room(E \cup {<<D, l>>}, nm), Popping(tab, E, D, l, nm), l.flags # {"unset"},
         NEW v, v = Cur(tab, l.vp),
         NEW w \in Var, w.flags = l.flags, w.text = l.text, w.local = l.local
  PROVE  /\ Sane(Given(tab, l.vp, w), FreedOf(h, v), ToldOf(t, l.vp, h[l.text]), E, nm, {})
         /\ Room(E, nm) /\ Only(E, tab, h, Given(tab, l.vp, w), FreedOf(h, v), l.vp)
         /\ FreedOf(h, v)[l.text] = h[l.text]
<1>1. PICK n : n = l.vp
  OBVIOUS
<1>2. PICK H : H = Holders(tab, E \cup {<<D, l>>})
  OBVIOUS
<1>3. PICK e : e = Old(D, l)
  OBVIOUS
<1>4. PICK r : r = Given(tab, n, w)
  OBVIOUS
<1>5. PICK x : x = Cur(r, n)
  OBVIOUS
<1>6. PICK k : k = FreedOf(h, v)
  OBVIOUS
<1>7. PICK u : u = ToldOf(t, n, h[l.text])
  OBVIOUS
<1>8. /\ n \in DOMAIN tab /\ n \in nm /\ Innermost(H, v, e) /\ v.local = D /\ v.name = n
      /\ Room(E, nm) /\ Holders(tab, E) = H \ {e} /\ Levels(E)
      /\ TabOK(tab, nm) /\ ToldOK(tab, h, t) /\ Valid(H, h, nm, {}) /\ H \subseteq Holder
      /\ Others(tab, n, H \ {v, e})
  <2>1. Pops(tab, h, t, E, D, n, nm, H, v, e)
    BY <1>1, <1>2, <1>3, PoppingIs
  <2> QED BY <2>1 DEF Pops
<1>9. r[n] = w /\ Changes(tab, r, n) /\ DOMAIN r = DOMAIN tab
  BY <1>4, <1>8 DEF Given, Changes
<1>10. x = [name |-> n, level |-> Top, flags |-> l.flags, text |-> l.text, local |-> l.local]
  BY ONLY <1>5, <1>9, w.flags = l.flags, w.text = l.text, w.local = l.local DEF Cur
<1>11. e = [name |-> n, level |-> D, flags |-> l.flags, text |-> l.text, local |-> l.local]
  BY ONLY <1>1, <1>3 DEF Old
<1>12. /\ x.name = v.name /\ x.level = Top /\ x.flags = l.flags /\ x.text = l.text /\ x.local = l.local
       /\ e.level = D /\ e.flags = l.flags /\ e.text = l.text /\ e.local = l.local
  BY ONLY <1>8, <1>10, <1>11
<1>13. D # Top
  BY TopIs DEF Popping
<1>14. ~Fresh(e)
  BY <1>12 DEF Fresh
<1>15. l \in Saved
  BY DEF Popping
<1>16. x \in Holder
  <2>1. l.flags \in SUBSET Flags /\ l.text \in Cells /\ l.local \in 0 .. MaxDepth
    BY <1>15 DEF Saved
  <2>2. n \in Names /\ Top \in 1 .. Top
    BY <1>8, TopIs DEF TabOK
  <2> QED BY <1>10, <2>1, <2>2 DEF Holder
<1>17. x.local = e.local /\ x.flags = e.flags /\ x.text = e.text
  BY <1>12
<1>18. /\ Valid((H \ {v, e}) \cup {x}, k, nm, {}) /\ Keeps(H \ {v, e}, h, k)
       /\ k[e.text] = h[e.text] /\ ("unset" \in e.flags => h[e.text] = "")
  <2>1. Valid(H, h, nm, {}) /\ Innermost(H, v, e)
    BY <1>8
  <2>2. x.name = v.name /\ x.level = Top
    BY <1>12
  <2>3. x.local = e.local /\ x.flags = e.flags /\ x.text = e.text
    BY <1>17
  <2>4. Restores(H, h, k, v, e, x, nm)
    BY ONLY <1>6, <1>14, <1>16, <2>1, <2>2, <2>3, Restored
  <2> QED BY <2>4 DEF Restores
<1>19. Holders(r, E) = (H \ {v, e}) \cup {x}
  <2>1. Holders(r, E) = (Holders(tab, E) \ {v}) \cup {x}
    BY ONLY <1>1, <1>5, <1>8, <1>9, v = Cur(tab, l.vp), HoldersChanged
  <2>2. Holders(tab, E) \ {v} = H \ {v, e}
    BY <1>8
  <2> QED BY <2>1, <2>2
<1>20. TabOK(r, nm)
  <2>1. \A m \in DOMAIN tab \ {n} : r[m] = tab[m]
    BY <1>9 DEF Changes
  <2> QED BY <1>8, <1>9, <2>1 DEF TabOK
<1>21. ToldOK(r, k, u)
  <2>1. h[l.text] \in Texts \cup {"free"} /\ h[e.text] # "free"
    <3>1. h \in [Cells -> Texts \cup {"free"}] /\ Owned(H, h) /\ e \in H
      BY <1>8 DEF Valid, Innermost
    <3>2. l.text \in Cells
      BY <1>15 DEF Saved
    <3>3. h[e.text] # "free"
      BY ONLY <1>14, <3>1 DEF Owned, Lives
    <3> QED BY <3>1, <3>2, <3>3
  <2>2. h[l.text] \in Texts
    BY <1>12, <2>1
  <2>3. u \in [Special -> Texts] /\ Same(u, t, n) /\ (n \in Special => u[n] = h[l.text])
    BY <1>7, <1>8, <2>2 DEF ToldOK, ToldOf, Same
  <2>4. n \in Special => u[n] = ValueIn(r, k, n)
    BY <1>9, <1>12, <1>18, <2>3 DEF ValueIn
  <2>5. Special \subseteq DOMAIN tab /\ Same(r, tab, n)
    BY <1>8, <1>9 DEF TabOK, Changes, Same
  <2> QED BY ONLY <1>8, <1>18, <2>3, <2>4, <2>5, ToldKept
<1>22. Sane(r, k, u, E, nm, {})
  BY <1>18, <1>19, <1>20, <1>21 DEF Sane
<1>23. Only(E, tab, h, r, k, n)
  <2>1. Besides(tab, r, n) /\ Levels(E) /\ Keeps(H \ {v, e}, h, k)
    BY <1>8, <1>9, <1>18 DEF Changes, Besides
  <2>2. Holders(tab, E) \ {Cur(tab, n)} \subseteq H \ {v, e}
    BY <1>1, <1>8
  <2> QED BY ONLY <2>1, <2>2, OnlyIs
<1> QED BY <1>1, <1>4, <1>6, <1>7, <1>8, <1>12, <1>18, <1>22, <1>23

\* What an entry did to its variable is taken back: the variable gets the
\* scope that the entry names, and flags.
Lifts(l, v, w) ==
  /\ w \in Var /\ w.text = v.text /\ w.local = l.local
  /\ "unset" \in w.flags <=> "unset" \in v.flags
  /\ "strfixed" \in w.flags <=> "strfixed" \in l.flags
  /\ "textfixed" \in w.flags <=> l.flags # {"unset"} /\ l.text = v.text /\ "textfixed" \in l.flags
TextKept(h, l, v) == IF l.flags # {"unset"} /\ l.text # v.text THEN FreedOf(h, l) ELSE h
SaneKept(r, tab, k, t, E, l, nm, un) ==
  /\ Sane(r, k, t, E, nm, un) /\ Room(E, nm)
  /\ l.vp \in DOMAIN tab /\ l.vp \in nm /\ (l.flags = {"unset"} => l.vp \notin Special)
OnlyKept(r, tab, k, h, E, n) == Only(E, tab, h, r, k, n) /\ k[tab[n].text] = h[tab[n].text]
LEMMA KeptIn ==
  ASSUME NEW tab, NEW h, NEW t, NEW E, NEW D, NEW l, NEW nm, Sane(tab, h, t, E \cup {<<D, l>>}, nm, {}),
         Room(E \cup {<<D, l>>}, nm), Popping(tab, E, D, l, nm), NEW v, v = Cur(tab, l.vp),
         NEW w, Lifts(l, v, w), NEW un, l.vp \notin un => Marked(w), NEW k, k = TextKept(h, l, v)
  PROVE  SaneKept(Given(tab, l.vp, w), tab, k, t, E, l, nm, un) /\ OnlyKept(Given(tab, l.vp, w), tab, k, h, E, l.vp)
<1>0. /\ w \in Var /\ w.text = v.text /\ w.local = l.local
      /\ "unset" \in w.flags <=> "unset" \in v.flags
      /\ "strfixed" \in w.flags <=> "strfixed" \in l.flags
      /\ "textfixed" \in w.flags <=> l.flags # {"unset"} /\ l.text = v.text /\ "textfixed" \in l.flags
  BY DEF Lifts
<1>1. PICK n : n = l.vp
  OBVIOUS
<1>2. PICK H : H = Holders(tab, E \cup {<<D, l>>})
  OBVIOUS
<1>3. PICK e : e = Old(D, l)
  OBVIOUS
<1>4. PICK r : r = Given(tab, n, w)
  OBVIOUS
<1>5. PICK x : x = Cur(r, n)
  OBVIOUS
<1>8. /\ n \in DOMAIN tab /\ n \in nm /\ Innermost(H, v, e) /\ v.local = D /\ v.name = n
      /\ Room(E, nm) /\ Holders(tab, E) = H \ {e} /\ Levels(E)
      /\ TabOK(tab, nm) /\ ToldOK(tab, h, t) /\ Valid(H, h, nm, {}) /\ H \subseteq Holder
      /\ Others(tab, n, H \ {v, e})
  <2>1. Pops(tab, h, t, E, D, n, nm, H, v, e)
    BY <1>1, <1>2, <1>3, PoppingIs
  <2> QED BY <2>1 DEF Pops
<1>9. r[n] = w /\ Changes(tab, r, n) /\ DOMAIN r = DOMAIN tab
  BY <1>4, <1>8 DEF Given, Changes
<1>10. x = [name |-> n, level |-> Top, flags |-> w.flags, text |-> v.text, local |-> l.local]
  BY ONLY <1>0, <1>5, <1>9 DEF Cur
<1>11. e = [name |-> n, level |-> D, flags |-> l.flags, text |-> l.text, local |-> l.local]
  BY ONLY <1>1, <1>3 DEF Old
<1>12. /\ x.name = v.name /\ x.level = Top /\ x.flags = w.flags /\ x.text = v.text /\ x.local = l.local
       /\ e.level = D /\ e.flags = l.flags /\ e.text = l.text /\ e.local = l.local
  BY ONLY <1>8, <1>10, <1>11
<1>13. Fresh(e) <=> l.flags = {"unset"}
  <2>1. D # Top
    BY TopIs DEF Popping
  <2> QED BY <1>12, <2>1 DEF Fresh
<1>14. k = Released(h, v, e)
  <2>1. FreedOf(h, e) = FreedOf(h, l)
    BY <1>12 DEF FreedOf
  <2> QED BY <1>12, <1>13, <2>1 DEF Released, TextKept
<1>15. v \in Holder
  BY <1>8 DEF Innermost
<1>16. x \in Holder
  <2>1. w.flags \in SUBSET Flags /\ v.text \in Cells /\ l.local \in 0 .. MaxDepth
    BY <1>0, <1>15 DEF Saved, Var, Popping, Holder
  <2>2. n \in Names /\ Top \in 1 .. Top
    BY <1>8, TopIs DEF TabOK
  <2> QED BY <1>10, <2>1, <2>2 DEF Holder
<1>17. /\ x.local = e.local
       /\ "unset" \in x.flags <=> "unset" \in v.flags
       /\ "strfixed" \in x.flags <=> "strfixed" \in e.flags
       /\ "textfixed" \in x.flags <=> ~Fresh(e) /\ e.text = v.text /\ "textfixed" \in e.flags
       /\ x.name \notin un => Marked(x)
  BY <1>0, <1>1, <1>8, <1>12, <1>13 DEF Marked
<1>18. /\ Valid((H \ {v, e}) \cup {x}, k, nm, un)
       /\ Keeps(H \ {v, e}, h, k) /\ k[v.text] = h[v.text]
       /\ Fresh(e) => v.name \notin Special
  <2>1. Valid(H, h, nm, {}) /\ Innermost(H, v, e)
    BY <1>8
  <2>2. x.name = v.name /\ x.level = Top /\ x.text = v.text
    BY <1>12
  <2>3. LiftedTo(H, h, v, e, x, k, nm, un)
    BY ONLY <1>14, <1>16, <1>17, <2>1, <2>2, Lifted
  <2> QED BY <2>3 DEF LiftedTo
<1>19. Holders(r, E) = (H \ {v, e}) \cup {x}
  <2>1. Holders(r, E) = (Holders(tab, E) \ {v}) \cup {x}
    BY ONLY <1>1, <1>5, <1>8, <1>9, v = Cur(tab, l.vp), HoldersChanged
  <2>2. Holders(tab, E) \ {v} = H \ {v, e}
    BY <1>8
  <2> QED BY <2>1, <2>2
<1>20. TabOK(r, nm)
  <2>1. \A m \in DOMAIN tab \ {n} : r[m] = tab[m]
    BY <1>9 DEF Changes
  <2> QED BY <1>0, <1>8, <1>9, <2>1 DEF TabOK
<1>21. ToldOK(r, k, t)
  <2>1. t \in [Special -> Texts] /\ Same(t, t, n)
    BY <1>8 DEF ToldOK, Same
  <2>2. Special \subseteq DOMAIN tab /\ Same(r, tab, n)
    BY <1>8, <1>9 DEF TabOK, Changes, Same
  <2>3. v.text = tab[n].text /\ v.flags = tab[n].flags
    BY <1>1 DEF Cur
  <2>4. n \in Special => t[n] = ValueIn(r, k, n)
    BY <1>0, <1>8, <1>9, <1>18, <2>3 DEF ValueIn, ToldOK
  <2> QED BY ONLY <1>8, <1>18, <2>1, <2>2, <2>4, ToldKept
<1>22. Sane(r, k, t, E, nm, un)
  BY <1>18, <1>19, <1>20, <1>21 DEF Sane
<1>23. Only(E, tab, h, r, k, n)
  <2>1. Besides(tab, r, n) /\ Levels(E) /\ Keeps(H \ {v, e}, h, k)
    BY <1>8, <1>9, <1>18 DEF Changes, Besides
  <2>2. Holders(tab, E) \ {Cur(tab, n)} \subseteq H \ {v, e}
    BY <1>1, <1>8
  <2> QED BY ONLY <2>1, <2>2, OnlyIs
<1>24. OnlyKept(r, tab, k, h, E, n)
  <2>1. v.text = tab[n].text
    BY <1>1 DEF Cur
  <2> QED BY <1>18, <1>23, <2>1 DEF OnlyKept
<1> QED BY <1>1, <1>4, <1>8, <1>12, <1>13, <1>18, <1>22, <1>24 DEF SaneKept

(***************************************************************************)
(* The states that the functions pass to each other.                       *)
(***************************************************************************)

Made(tab, h, stack, opts, t, err) ==
  [tab |-> tab, heap |-> h, stack |-> stack, opts |-> opts, told |-> t, err |-> err]
IsState(s) == s = Made(s.tab, s.heap, s.stack, s.opts, s.told, s.err)
Like(r, s) == r.stack = s.stack /\ r.opts = s.opts /\ r.err = s.err
Differs(r, s, tab, h, t) == IsState(r) /\ Like(r, s) /\ r.tab = tab /\ r.heap = h /\ r.told = t

LEMMA MadeIs ==
  ASSUME NEW tab, NEW h, NEW stack, NEW opts, NEW t, NEW err, NEW s, s = Made(tab, h, stack, opts, t, err)
  PROVE  /\ IsState(s) /\ s.tab = tab /\ s.heap = h /\ s.stack = stack /\ s.opts = opts
         /\ s.told = t /\ s.err = err
<1>1. s.tab = tab /\ s.heap = h /\ s.stack = stack /\ s.opts = opts /\ s.told = t /\ s.err = err
  BY DEF Made
<1> QED BY <1>1 DEF IsState

LEMMA TextsDiffer ==
  ASSUME NEW s, IsState(s), NEW n, NEW value, NEW v
  PROVE  /\ Differs(Tell(s, n, value), s, s.tab, s.heap, ToldOf(s.told, n, value))
         /\ Differs(FreeText(s, v), s, s.tab, FreedOf(s.heap, v), s.told)
         /\ Differs(Forget(s, n), s, Without(s.tab, n), s.heap, s.told)
<1>1. \A r : Differs(r, s, r.tab, r.heap, r.told) <=> r = Made(r.tab, r.heap, s.stack, s.opts, r.told, s.err)
  BY DEF Differs, Like, IsState, Made
<1>2. Tell(s, n, value) = Made(s.tab, s.heap, s.stack, s.opts, ToldOf(s.told, n, value), s.err)
  BY DEF Tell, ToldOf, IsState, Made
<1>3. FreeText(s, v) = Made(s.tab, FreedOf(s.heap, v), s.stack, s.opts, s.told, s.err)
  BY DEF FreeText, ckfree, FreedOf, IsState, Made
<1>4. Forget(s, n) = Made(Without(s.tab, n), s.heap, s.stack, s.opts, s.told, s.err)
  BY DEF Forget, Without, IsState, Made
<1> QED BY <1>2, <1>3, <1>4, MadeIs DEF Differs, Like

LEMMA PutDiffers ==
  ASSUME NEW s, IsState(s), NEW n, NEW value, NEW flags, NEW local,
         NEW w, w = [flags |-> flags, text |-> NewCell(s), local |-> local]
  PROVE  Differs(Put(s, n, value, flags, local), s, Given(s.tab, n, w), Write(s.heap, NewCell(s), value), s.told)
<1>1. PICK c : c = NewCell(s)
  OBVIOUS
<1>2. PICK r : r = Given(s.tab, n, w)
  OBVIOUS
<1>3. Put(s, n, value, flags, local) = [s EXCEPT !.heap = [s.heap EXCEPT ![c] = value], !.tab = r]
  BY <1>1, <1>2 DEF Put, Given, IsState, Made
<1>4. Put(s, n, value, flags, local) = Made(r, Write(s.heap, c, value), s.stack, s.opts, s.told, s.err)
  BY <1>3 DEF IsState, Made, Write
<1> QED BY <1>1, <1>2, <1>4, MadeIs DEF Differs, Like

\* The flags, or the scope, of a variable.
LEMMA FlagsDiffer ==
  ASSUME NEW s, IsState(s), NEW n \in DOMAIN s.tab, s.tab[n] \in Var, NEW f, NEW k,
         NEW w, w = [flags |-> f, text |-> s.tab[n].text, local |-> k]
  PROVE  /\ Differs([s EXCEPT !.tab[n].flags = f, !.tab[n].local = k], s, Given(s.tab, n, w), s.heap, s.told)
         /\ k = s.tab[n].local =>
              Differs([s EXCEPT !.tab[n].flags = f], s, Given(s.tab, n, w), s.heap, s.told)
         /\ f = s.tab[n].flags =>
              Differs([s EXCEPT !.tab[n].local = k], s, Given(s.tab, n, w), s.heap, s.told)
<1>1. PICK v : v = s.tab[n]
  OBVIOUS
<1>2. v = [flags |-> v.flags, text |-> v.text, local |-> v.local]
  BY <1>1 DEF Var
<1>3. [v EXCEPT !.flags = f, !.local = k] = w
  <2>1. PICK u : u = [v EXCEPT !.flags = f]
    OBVIOUS
  <2>2. u = [flags |-> f, text |-> v.text, local |-> v.local]
    BY <1>2, <2>1
  <2>3. [u EXCEPT !.local = k] = w
    BY <1>1, <2>2
  <2> QED BY <2>1, <2>3
<1>4. k = v.local => [v EXCEPT !.flags = f] = w
  BY <1>1, <1>2
<1>5. f = v.flags => [v EXCEPT !.local = k] = w
  BY <1>1, <1>2
<1>6. \A r : [s.tab EXCEPT ![n] = r] = Given(s.tab, n, r)
  BY DEF Given
<1>7. [[s.tab EXCEPT ![n].flags = f] EXCEPT ![n].local = k] = Given(s.tab, n, w)
  <2>1. [[s.tab EXCEPT ![n].flags = f] EXCEPT ![n].local = k] = [s.tab EXCEPT ![n] = [v EXCEPT !.flags = f, !.local = k]]
    BY <1>1
  <2> QED BY <1>3, <1>6, <2>1
<1>8. k = v.local => [s.tab EXCEPT ![n].flags = f] = Given(s.tab, n, w)
  BY <1>1, <1>4, <1>6
<1>9. f = v.flags => [s.tab EXCEPT ![n].local = k] = Given(s.tab, n, w)
  BY <1>1, <1>5, <1>6
<1>10. \A r : [s EXCEPT !.tab = r] = Made(r, s.heap, s.stack, s.opts, s.told, s.err)
  BY DEF IsState, Made
<1>11. \A r, u : u = Made(r, s.heap, s.stack, s.opts, s.told, s.err) => Differs(u, s, r, s.heap, s.told)
  BY MadeIs DEF Differs, Like
<1>12. [s EXCEPT !.tab[n].flags = f, !.tab[n].local = k] = [s EXCEPT !.tab = Given(s.tab, n, w)]
  BY <1>7 DEF IsState, Made
<1> QED BY <1>1, <1>8, <1>9, <1>10, <1>11, <1>12

Works(s, E, nm, un) ==
  /\ IsState(s) /\ s.opts \in BOOLEAN /\ Room(E, nm)
  /\ Sane(s.tab, s.heap, s.told, E, nm, un)
Calls(r, s) == r.stack = s.stack /\ r.opts = s.opts /\ r.err \in {s.err, "error"}

LEMMA ErrorIs ==
  ASSUME NEW s, NEW E, NEW nm, NEW un, Works(s, E, nm, un)
  PROVE  Works(Error(s), E, nm, un) /\ Calls(Error(s), s) /\ Error(s).err = "error"
<1>1. Error(s) = Made(s.tab, s.heap, s.stack, s.opts, s.told, "error")
  BY DEF Error, Works, IsState, Made
<1> QED BY <1>1, MadeIs DEF Works, Calls

\* What is seen in a state, and what may become of a variable in a step.
View(s) == ViewOf(s.tab, s.heap)
Touches(r, s, E, n) == Only(E, s.tab, s.heap, r.tab, r.heap, n)
Worth(f, value) ==
  [val |-> IF "unset" \in f THEN "unset" ELSE value,
   export |-> "export" \in f, readonly |-> "readonly" \in f]
Viewed == [val : Texts \cup {"unset"}, export : BOOLEAN, readonly : BOOLEAN]
MaySet(a, b) ==
  \E v \in Texts \cup {"unset"}, e, r \in BOOLEAN :
    /\ a.readonly => v = a.val
    /\ b = [val |-> v, export |-> a.export \/ e, readonly |-> a.readonly \/ r]
MayClear(a, b) == ~a.readonly /\ b = Absent
Gets(r, s, E, nm, n, b) ==
  Works(r, E, nm, {}) /\ Like(r, s) /\ Touches(r, s, E, n) /\ View(r)[n] = b
LEMMA WorthIs ==
  ASSUME NEW f, NEW value, NEW v, v = IF "unset" \in f THEN "unset" ELSE value,
         NEW e \in BOOLEAN, e <=> "export" \in f, NEW m \in BOOLEAN, m <=> "readonly" \in f
  PROVE  Worth(f, value) = [val |-> v, export |-> e, readonly |-> m]
<1>1. e = ("export" \in f) /\ m = ("readonly" \in f)
  BY Zenon
<1> QED BY <1>1, Zenon DEF Worth
LEMMA MaySetTo ==
  ASSUME NEW a \in Viewed, ~a.readonly, NEW f, NEW value \in Texts, a.export => "export" \in f
  PROVE  MaySet(a, Worth(f, value))
<1>1. PICK e, m \in BOOLEAN : (e <=> "export" \in f) /\ (m <=> "readonly" \in f)
  <2>1. ("export" \in f) \in BOOLEAN /\ ("readonly" \in f) \in BOOLEAN
    OBVIOUS
  <2> QED BY <2>1, Zenon
<1>2. PICK v : v = IF "unset" \in f THEN "unset" ELSE value
  OBVIOUS
<1>3. Worth(f, value) = [val |-> v, export |-> e, readonly |-> m]
  BY <1>1, <1>2, WorthIs
<1>4. a.export \in BOOLEAN /\ a.readonly \in BOOLEAN
  BY DEF Viewed
<1>5. (a.export \/ e) = e /\ (a.readonly \/ m) = m
  BY <1>1, <1>4
<1>6. v \in Texts \cup {"unset"}
  BY <1>2
<1> QED BY <1>3, <1>5, <1>6, Zenon DEF MaySet
LEMMA WorthAbsent ==
  ASSUME NEW f, "unset" \in f, "export" \notin f, "readonly" \notin f, NEW value
  PROVE  Worth(f, value) = Absent
<1>1. Worth(f, value) = [val |-> "unset", export |-> FALSE, readonly |-> FALSE]
  BY WorthIs, FALSE \in BOOLEAN
<1> QED BY <1>1 DEF Absent
LEMMA ViewIs ==
  ASSUME NEW s, NEW E, NEW nm, NEW un, Works(s, E, nm, un)
  PROVE  /\ View(s) \in [Names -> Viewed] /\ DOMAIN s.tab \subseteq Names
         /\ \A n \in DOMAIN s.tab : View(s)[n] = Worth(s.tab[n].flags, s.heap[s.tab[n].text])
         /\ \A n \in Names \ DOMAIN s.tab : View(s)[n] = Absent
<1>1. PICK tab, h, t : tab = s.tab /\ h = s.heap /\ t = s.told
  OBVIOUS
<1>2. Sane(tab, h, t, E, nm, un) /\ Room(E, nm)
  BY <1>1 DEF Works
<1>3. PICK H : H = Holders(tab, E)
  OBVIOUS
<1>4. /\ TabOK(tab, nm) /\ Owned(H, h) /\ h \in [Cells -> Texts \cup {"free"}]
      /\ \A n \in DOMAIN tab : Cur(tab, n) \in H
  BY ONLY <1>2, <1>3, CurIs
<1>5. DOMAIN tab \subseteq Names /\ \A n \in DOMAIN tab : tab[n] \in Var
  BY <1>4 DEF TabOK, Names
<1>6. ASSUME NEW n \in DOMAIN tab
      PROVE  Worth(tab[n].flags, h[tab[n].text]) \in Viewed
  <2>1. PICK x : x = Cur(tab, n)
    OBVIOUS
  <2>2. x \in H /\ ~Fresh(x) /\ x.text = tab[n].text
    BY <1>4, <2>1 DEF Cur, Fresh
  <2>3. h[tab[n].text] # "free"
    BY <1>4, <2>2 DEF Owned, Lives
  <2>4. h[tab[n].text] \in Texts
    BY <1>4, <1>5, <2>3 DEF Var
  <2> QED BY <2>4 DEF Worth, Viewed
<1>7. Absent \in Viewed
  BY DEF Absent, Viewed
<1>8. View(s) = [n \in Names |-> IF n \in DOMAIN tab THEN Worth(tab[n].flags, h[tab[n].text]) ELSE Absent]
  BY <1>1 DEF View, ViewOf, Shown, Worth
<1> QED BY <1>1, <1>5, <1>6, <1>7, <1>8

LEMMA MaySetSame ==
  ASSUME NEW a \in Viewed
  PROVE  MaySet(a, a)
<1>1. a = [val |-> a.val, export |-> a.export \/ FALSE, readonly |-> a.readonly \/ FALSE]
  BY DEF Viewed
<1>2. a.val \in Texts \cup {"unset"} /\ FALSE \in BOOLEAN
  BY DEF Viewed
<1> QED BY <1>1, <1>2 DEF MaySet

LEMMA TouchesSame ==
  ASSUME NEW s, NEW r, r.tab = s.tab, r.heap = s.heap, NEW E, NEW n
  PROVE  Touches(r, s, E, n) /\ View(r) = View(s)
BY DEF Touches, Only, View

LEMMA TouchesBoth ==
  ASSUME NEW s, NEW q, NEW r, NEW E, NEW n, Touches(q, s, E, n), Touches(r, q, E, n)
  PROVE  Touches(r, s, E, n)
BY DEF Touches, Only

LEMMA WorthSame ==
  ASSUME NEW f, NEW g, NEW value, "unset" \in f <=> "unset" \in g,
         "export" \in f <=> "export" \in g, "readonly" \in f <=> "readonly" \in g
  PROVE  Worth(f, value) = Worth(g, value)
<1>1. ("export" \in f) \in BOOLEAN /\ ("readonly" \in f) \in BOOLEAN
  OBVIOUS
<1>2. PICK e, m \in BOOLEAN : (e <=> "export" \in f) /\ (m <=> "readonly" \in f)
  BY <1>1, Zenon
<1>3. PICK v : v = IF "unset" \in f THEN "unset" ELSE value
  OBVIOUS
<1>4. Worth(f, value) = [val |-> v, export |-> e, readonly |-> m]
  BY <1>2, <1>3, WorthIs
<1>5. v = (IF "unset" \in g THEN "unset" ELSE value) /\ (e <=> "export" \in g) /\ (m <=> "readonly" \in g)
  BY <1>2, <1>3
<1>6. Worth(g, value) = [val |-> v, export |-> e, readonly |-> m]
  BY <1>2, <1>5, WorthIs
<1> QED BY <1>4, <1>6

\* An entry shows what it saved.
LEMMA ShowsIs ==
  ASSUME NEW h, NEW l, l.vp \in Names
  PROVE  Shows(h, l) = Worth(l.flags, h[l.text])
<1>1. CASE l.flags = {"unset"}
  BY <1>1, WorthAbsent DEF Shows, SavesText
<1>2. CASE l.flags # {"unset"}
  BY <1>2, Zenon DEF Shows, SavesText, Shown, Worth
<1> QED BY <1>1, <1>2

\* A variable keeps its text: when it also keeps its marks, nothing is seen.
LEMMA GivenTouches ==
  ASSUME NEW s, NEW r, NEW n, n \in DOMAIN s.tab, NEW w, r.tab = Given(s.tab, n, w), r.heap = s.heap, NEW E
  PROVE  Touches(r, s, E, n)
<1>1. DOMAIN r.tab = DOMAIN s.tab /\ \A m \in DOMAIN s.tab \ {n} : r.tab[m] = s.tab[m]
  BY DEF Given
<1>2. \A m \in Names \ {n} : ViewOf(r.tab, r.heap)[m] = ViewOf(s.tab, s.heap)[m]
  BY <1>1 DEF ViewOf
<1> QED BY <1>2 DEF Touches, Only
LEMMA GivenSame ==
  ASSUME NEW s, NEW r, NEW n, n \in DOMAIN s.tab, NEW w, r.tab = Given(s.tab, n, w), r.heap = s.heap,
         w.text = s.tab[n].text, "unset" \in w.flags <=> "unset" \in s.tab[n].flags,
         "export" \in w.flags <=> "export" \in s.tab[n].flags,
         "readonly" \in w.flags <=> "readonly" \in s.tab[n].flags
  PROVE  View(r) = View(s)
<1>1. DOMAIN r.tab = DOMAIN s.tab /\ r.tab[n] = w /\ \A m \in DOMAIN s.tab \ {n} : r.tab[m] = s.tab[m]
  BY DEF Given
<1>2. \A t, h : ViewOf(t, h) = [m \in Names |-> IF m \in DOMAIN t THEN Worth(t[m].flags, h[t[m].text]) ELSE Absent]
  BY DEF ViewOf, Shown, Worth
<1>3. Worth(w.flags, s.heap[w.text]) = Worth(s.tab[n].flags, s.heap[s.tab[n].text])
  BY WorthSame
<1>4. \A m \in DOMAIN s.tab : Worth(r.tab[m].flags, s.heap[r.tab[m].text]) = Worth(s.tab[m].flags, s.heap[s.tab[m].text])
  BY <1>1, <1>3
<1> QED BY <1>1, <1>2, <1>4 DEF View

LEMMA CurText ==
  ASSUME NEW tab, NEW n, NEW h
  PROVE  FreedOf(h, tab[n]) = FreedOf(h, Cur(tab, n))
BY DEF FreedOf, Cur

\* A known variable is removed.
LEMMA RemovedIs ==
  ASSUME NEW s, NEW E, NEW nm, NEW un, Works(s, E, nm, un), NEW n, n \in DOMAIN s.tab,
         un \subseteq {n}, "strfixed" \notin s.tab[n].flags, NEW value,
         NEW r, r = Forget(FreeText(Tell(s, n, value), s.tab[n]), n)
  PROVE  Gets(r, s, E, nm, n, Absent)
<1>1. PICK a : a = Tell(s, n, value)
  OBVIOUS
<1>2. PICK b : b = FreeText(a, s.tab[n])
  OBVIOUS
<1>3. IsState(s) /\ Room(E, nm) /\ Sane(s.tab, s.heap, s.told, E, nm, un) /\ s.opts \in BOOLEAN
  BY DEF Works
<1>4. Differs(a, s, s.tab, s.heap, ToldOf(s.told, n, value))
  BY <1>1, <1>3, TextsDiffer
<1>5. Differs(b, a, a.tab, FreedOf(a.heap, s.tab[n]), a.told)
  BY <1>2, <1>4, TextsDiffer DEF Differs
<1>6. Differs(r, b, Without(b.tab, n), b.heap, b.told)
  BY <1>1, <1>2, <1>5, TextsDiffer DEF Differs
<1>7. "strfixed" \notin Cur(s.tab, n).flags
  BY DEF Cur
<1>8. /\ Sane(Without(s.tab, n), FreedOf(s.heap, Cur(s.tab, n)), s.told, E, nm, {}) /\ n \notin Special
      /\ Only(E, s.tab, s.heap, Without(s.tab, n), FreedOf(s.heap, Cur(s.tab, n)), n)
  BY ONLY <1>3, <1>7, n \in DOMAIN s.tab, un \subseteq {n}, Forgotten
<1>9. r.tab = Without(s.tab, n) /\ r.heap = FreedOf(s.heap, Cur(s.tab, n)) /\ r.told = s.told
  BY <1>4, <1>5, <1>6, <1>8, CurText DEF Differs, ToldOf
<1>10. Works(r, E, nm, {}) /\ Like(r, s)
  BY <1>3, <1>4, <1>5, <1>6, <1>8, <1>9 DEF Works, Like, Differs
<1>11. n \in Names /\ n \notin DOMAIN r.tab
  BY <1>3, <1>9, ViewIs DEF Without
<1>12. View(r)[n] = Absent
  BY <1>10, <1>11, ViewIs
<1> QED BY <1>8, <1>9, <1>10, <1>12 DEF Touches, Gets

\* A known variable gets another text.
LEMMA ReplacedIs ==
  ASSUME NEW s, NEW E, NEW nm, Works(s, E, nm, {}), NEW n \in nm, n \in DOMAIN s.tab,
         NEW value \in Texts, NEW f \in SUBSET Flags, "textfixed" \notin f,
         "strfixed" \in s.tab[n].flags => "strfixed" \in f,
         "unset" \in f => value = "" /\ f \cap {"export", "readonly", "strfixed"} # {},
         NEW r, r = Put(FreeText(Tell(s, n, value), s.tab[n]), n, value, f, s.tab[n].local)
  PROVE  Gets(r, s, E, nm, n, Worth(f, value))
<1>1. PICK a : a = Tell(s, n, value)
  OBVIOUS
<1>2. PICK b : b = FreeText(a, s.tab[n])
  OBVIOUS
<1>3. IsState(s) /\ Room(E, nm) /\ Sane(s.tab, s.heap, s.told, E, nm, {}) /\ s.opts \in BOOLEAN
  BY DEF Works
<1>4. Differs(a, s, s.tab, s.heap, ToldOf(s.told, n, value))
  BY <1>1, <1>3, TextsDiffer
<1>5. Differs(b, a, a.tab, FreedOf(a.heap, s.tab[n]), a.told)
  <2>1. IsState(a)
    BY <1>4 DEF Differs
  <2>2. Differs(FreeText(a, s.tab[n]), a, a.tab, FreedOf(a.heap, s.tab[n]), a.told)
    BY ONLY <2>1, TextsDiffer
  <2> QED BY ONLY <1>2, <2>2
<1>6. PICK g : g = FreedOf(s.heap, Cur(s.tab, n))
  OBVIOUS
<1>7. b.heap = g /\ b.tab = s.tab /\ b.told = ToldOf(s.told, n, value)
  BY <1>4, <1>5, <1>6, CurText DEF Differs
<1>8. \E c \in Heap : g[c] = "free"
  BY ONLY <1>3, <1>6, n \in DOMAIN s.tab, n \in nm, CellForOld
<1>9. PICK c : c = NewCell(b)
  OBVIOUS
<1>10. c \in Heap /\ g[c] = "free"
  BY <1>7, <1>8, <1>9 DEF NewCell
<1>11. PICK w : w = [flags |-> f, text |-> c, local |-> s.tab[n].local]
  OBVIOUS
<1>12. Differs(r, b, Given(b.tab, n, w), Write(b.heap, c, value), b.told)
  <2>1. IsState(b) /\ r = Put(b, n, value, f, s.tab[n].local)
    BY <1>1, <1>2, <1>5 DEF Differs
  <2> QED BY <1>9, <1>11, <2>1, PutDiffers
<1>13. s.tab[n] \in Var
  BY <1>3 DEF Sane, TabOK
<1>14. w \in Var /\ w.flags = f /\ w.text = c
  BY <1>10, <1>11, <1>13 DEF Var, Cells
<1>15. w.local = Cur(s.tab, n).local
  BY <1>11 DEF Cur
<1>16. "strfixed" \in Cur(s.tab, n).flags => "strfixed" \in f
  BY DEF Cur
<1>17. PICK q : q = Given(s.tab, n, w)
  OBVIOUS
<1>18. /\ Sane(q, Write(g, c, value), ToldOf(s.told, n, value), E, nm, {})
       /\ Only(E, s.tab, s.heap, q, Write(g, c, value), n)
  <2>1. PICK tab, h, t : tab = s.tab /\ h = s.heap /\ t = s.told
    OBVIOUS
  <2>2. /\ Sane(tab, h, t, E, nm, {}) /\ Room(E, nm) /\ n \in DOMAIN tab
        /\ "strfixed" \in Cur(tab, n).flags => "strfixed" \in f
        /\ g = FreedOf(h, Cur(tab, n)) /\ w.local = Cur(tab, n).local /\ q = Given(tab, n, w)
    BY ONLY <1>3, <1>6, <1>15, <1>16, <1>17, <2>1, n \in DOMAIN s.tab
  <2>3. Sane(q, Write(g, c, value), ToldOf(t, n, value), E, nm, {}) /\ Only(E, tab, h, q, Write(g, c, value), n)
    BY ONLY <1>10, <1>14, <2>2, n \in nm, value \in Texts, f \in SUBSET Flags, "textfixed" \notin f,
       "unset" \in f => value = "" /\ f \cap {"export", "readonly", "strfixed"} # {}, PutOld
  <2> QED BY ONLY <2>1, <2>3
<1>19. r.tab = q /\ r.heap = Write(g, c, value) /\ r.told = ToldOf(s.told, n, value)
  BY <1>7, <1>12, <1>17 DEF Differs
<1>20. Works(r, E, nm, {}) /\ Like(r, s)
  BY <1>3, <1>4, <1>5, <1>12, <1>18, <1>19 DEF Works, Like, Differs
<1>21. n \in DOMAIN q /\ q[n] = w
  BY <1>17 DEF Given
<1>22. r.heap[c] = value
  <2>1. g \in [Cells -> Texts \cup {"free"}] /\ c \in Cells
    BY <1>3, <1>6, <1>10 DEF Sane, Valid, FreedOf, Cells
  <2> QED BY <1>19, <2>1 DEF Write
<1>23. View(r)[n] = Worth(f, value)
  <2>1. n \in DOMAIN r.tab /\ r.tab[n].flags = f /\ r.heap[r.tab[n].text] = value
    BY <1>14, <1>19, <1>20, <1>21, <1>22
  <2>2. Works(r, E, nm, {})
    BY <1>20
  <2>3. View(r)[n] = Worth(r.tab[n].flags, r.heap[r.tab[n].text])
    BY ONLY <2>1, <2>2, ViewIs
  <2> QED BY ONLY <2>1, <2>3
<1> QED BY <1>18, <1>19, <1>20, <1>23 DEF Touches, Gets

\* A variable that is not known gets a text.
NewVar(tab, n, f) ==
  /\ n \in DOMAIN tab /\ n \notin Special /\ tab[n].flags = f /\ tab[n].local = 0
LEMMA AddedIs ==
  ASSUME NEW s, NEW E, NEW nm, Works(s, E, nm, {}), NEW n \in nm, n \notin DOMAIN s.tab,
         NEW value \in Texts, NEW f \in SUBSET Flags, "textfixed" \notin f,
         "unset" \in f => value = "" /\ f \cap {"export", "readonly", "strfixed"} # {},
         NEW r, r = Put(s, n, value, f, 0)
  PROVE  Gets(r, s, E, nm, n, Worth(f, value)) /\ NewVar(r.tab, n, f)
<1>3. IsState(s) /\ Room(E, nm) /\ Sane(s.tab, s.heap, s.told, E, nm, {}) /\ s.opts \in BOOLEAN
  BY DEF Works
<1>8. \E c \in Heap : s.heap[c] = "free"
  BY ONLY <1>3, n \notin DOMAIN s.tab, n \in nm, CellForNew
<1>9. PICK c : c = NewCell(s)
  OBVIOUS
<1>10. c \in Heap /\ s.heap[c] = "free"
  BY <1>8, <1>9 DEF NewCell
<1>11. PICK w : w = [flags |-> f, text |-> c, local |-> 0]
  OBVIOUS
<1>12. Differs(r, s, Given(s.tab, n, w), Write(s.heap, c, value), s.told)
  BY <1>3, <1>9, <1>11, PutDiffers
<1>14. w \in Var /\ w.flags = f /\ w.text = c /\ w.local = 0
  BY <1>10, <1>11, TopIs DEF Var, Cells
<1>15. "unset" \in w.flags => value = "" /\ w.flags \cap {"export", "readonly", "strfixed"} # {}
  BY <1>14
<1>16. "textfixed" \notin w.flags
  BY <1>14
<1>17. PICK q : q = Given(s.tab, n, w)
  OBVIOUS
<1>18. /\ Sane(q, Write(s.heap, c, value), s.told, E, nm, {}) /\ n \notin Special
       /\ Only(E, s.tab, s.heap, q, Write(s.heap, c, value), n)
  <2>1. w \in Var /\ w.text = c /\ w.local = 0
    BY <1>14
  <2>2. PICK tab, h, t : tab = s.tab /\ h = s.heap /\ t = s.told
    OBVIOUS
  <2>3. Sane(tab, h, t, E, nm, {}) /\ n \notin DOMAIN tab /\ c \in Heap /\ h[c] = "free" /\ q = Given(tab, n, w)
    BY <1>3, <1>10, <1>17, <2>2
  <2>4. Sane(q, Write(h, c, value), t, E, nm, {}) /\ n \notin Special /\ Only(E, tab, h, q, Write(h, c, value), n)
    BY ONLY <1>3, <1>15, <1>16, <2>1, <2>3, n \in nm, value \in Texts, PutNew
  <2> QED BY <2>2, <2>4
<1>19. r.tab = q /\ r.heap = Write(s.heap, c, value) /\ r.told = s.told
  BY <1>12, <1>17 DEF Differs
<1>20. n \in DOMAIN q /\ q[n] = w
  BY <1>17 DEF Given
<1>21. Works(r, E, nm, {}) /\ Like(r, s) /\ NewVar(r.tab, n, f)
  BY <1>3, <1>12, <1>14, <1>18, <1>19, <1>20 DEF Works, Like, Differs, NewVar
<1>22. r.heap[c] = value
  <2>1. s.heap \in [Cells -> Texts \cup {"free"}] /\ c \in Cells
    BY <1>3, <1>10 DEF Sane, Valid, Cells
  <2> QED BY <1>19, <2>1 DEF Write
<1>23. View(r)[n] = Worth(f, value)
  <2>1. n \in DOMAIN r.tab /\ r.tab[n].flags = f /\ r.heap[r.tab[n].text] = value
    BY <1>14, <1>19, <1>20, <1>21, <1>22
  <2>2. Works(r, E, nm, {})
    BY <1>21
  <2>3. View(r)[n] = Worth(r.tab[n].flags, r.heap[r.tab[n].text])
    BY ONLY <2>1, <2>2, ViewIs
  <2> QED BY ONLY <2>1, <2>3
<1> QED BY <1>18, <1>19, <1>21, <1>23 DEF Touches, Gets

LEMMA WithIs ==
  ASSUME NEW s, NEW f \in SUBSET Flags, "textfixed" \notin f
  PROVE  /\ With(s, f) \in SUBSET Flags /\ "textfixed" \notin With(s, f) /\ f \subseteq With(s, f)
         /\ "unset" \in f => With(s, f) = f
         /\ "unset" \in With(s, f) => "unset" \in f
         /\ "strfixed" \in With(s, f) <=> "strfixed" \in f
BY DEF With, Flags

\* setvareq and setvar keep the invariant, whatever they are called for.
EmptyIfUnset(f, value) == "unset" \in f => value = ""
Assigned(r, s, E, nm, n, f) ==
  /\ Works(r, E, nm, {}) /\ Calls(r, s)
  /\ n \notin DOMAIN s.tab /\ "strfixed" \in f => r.err = s.err /\ NewVar(r.tab, n, With(s, f))
  /\ Touches(r, s, E, n) /\ (MaySet(View(s)[n], View(r)[n]) \/ MayClear(View(s)[n], View(r)[n]))
  /\ n \notin DOMAIN s.tab \/ "unset" \notin f => MaySet(View(s)[n], View(r)[n])
LEMMA SetvareqIs ==
  ASSUME NEW s, NEW E, NEW nm, Works(s, E, nm, {}), NEW n \in nm, NEW value \in Texts,
         NEW f \in SUBSET Flags, "textfixed" \notin f, EmptyIfUnset(f, value),
         NEW r, r = setvareq(s, n, value, f)
  PROVE  Assigned(r, s, E, nm, n, f)
<1>1. IsState(s) /\ Sane(s.tab, s.heap, s.told, E, nm, {})
  BY DEF Works
<1>6. n \in Names /\ View(s)[n] \in Viewed
  <2>1. nm \subseteq Names
    BY <1>1 DEF Sane, TabOK
  <2> QED BY <2>1, ViewIs
<1>2. CASE n \in DOMAIN s.tab /\ "readonly" \in s.tab[n].flags
  <2>1. r = Error(s)
    BY <1>2 DEF setvareq
  <2>2. r.tab = s.tab /\ r.heap = s.heap
    BY <2>1 DEF Error
  <2>3. Touches(r, s, E, n) /\ MaySet(View(s)[n], View(r)[n])
    BY ONLY <1>6, <2>2, TouchesSame, MaySetSame
  <2> QED BY <1>2, <2>1, <2>3, ErrorIs DEF Assigned
<1>3. CASE n \in DOMAIN s.tab /\ "readonly" \notin s.tab[n].flags
  <2>1. r = Replaced(s, n, value, f)
    BY <1>3 DEF setvareq
  <2>2. PICK old : old = s.tab[n]
    OBVIOUS
  <2>3. PICK new : new = With(s, f) \cup (old.flags \ {"textfixed", "unset"})
    OBVIOUS
  <2>4. old.flags \in SUBSET Flags
    BY <1>1, <1>3, <2>2 DEF Sane, TabOK, Var
  <2>5. /\ new \in SUBSET Flags /\ "textfixed" \notin new /\ ("unset" \in new => "unset" \in f) /\ f \subseteq new
        /\ "strfixed" \in old.flags => "strfixed" \in new
    BY <2>3, <2>4, WithIs
  <2>8. /\ ~View(s)[n].readonly
        /\ View(s)[n].export => "export" \in old.flags
    <3>1. View(s)[n] = Worth(old.flags, s.heap[old.text])
      BY <1>3, <2>2, ViewIs
    <3>2. PICK b : b = Worth(old.flags, s.heap[old.text])
      OBVIOUS
    <3>3. (b.readonly = ("readonly" \in old.flags)) /\ (b.export = ("export" \in old.flags))
      BY <3>2, Zenon DEF Worth
    <3> QED BY <1>3, <2>2, <3>1, <3>2, <3>3
  <2>6. CASE f \cap Marks = {"unset"} /\ "strfixed" \notin new
    <3>1. r = Forget(FreeText(Tell(s, n, value), s.tab[n]), n)
      BY <2>1, <2>2, <2>3, <2>6 DEF Replaced
    <3>2. "strfixed" \notin s.tab[n].flags
      BY <2>2, <2>5, <2>6
    <3>3. Gets(r, s, E, nm, n, Absent)
      <4>1. {} \subseteq {n}
        OBVIOUS
      <4> QED BY ONLY <1>3, <3>1, <3>2, <4>1, Works(s, E, nm, {}), RemovedIs
    <3>4. "unset" \in f
      BY <2>6
    <3> QED BY <1>3, <2>8, <3>3, <3>4 DEF Like, Calls, Assigned, Gets, MayClear
  <2>7. CASE ~(f \cap Marks = {"unset"} /\ "strfixed" \notin new)
    <3>1. PICK g : g = IF f \cap Marks = {"unset"} THEN new \ {"export", "readonly"} ELSE new
      OBVIOUS
    <3>2. r = Put(FreeText(Tell(s, n, value), s.tab[n]), n, value, g, s.tab[n].local)
      BY <2>1, <2>2, <2>3, <2>7, <3>1 DEF Replaced
    <3>3. g \in SUBSET Flags /\ "textfixed" \notin g /\ ("unset" \in g => "unset" \in f)
      BY <2>5, <3>1
    <3>4. "strfixed" \in s.tab[n].flags => "strfixed" \in g
      BY <2>2, <2>5, <3>1
    <3>5. "unset" \in g => value = "" /\ g \cap {"export", "readonly", "strfixed"} # {}
      <4> SUFFICES ASSUME "unset" \in g
                   PROVE  value = "" /\ g \cap {"export", "readonly", "strfixed"} # {}
        OBVIOUS
      <4>1. value = ""
        BY <3>3 DEF EmptyIfUnset
      <4>2. CASE f \cap Marks = {"unset"}
        BY <2>7, <3>1, <4>1, <4>2
      <4>3. CASE f \cap Marks # {"unset"}
        <5>1. "export" \in f \/ "readonly" \in f
          BY <3>3, <4>3 DEF Marks
        <5> QED BY <2>5, <3>1, <4>1, <4>3, <5>1
      <4> QED BY <4>2, <4>3
    <3>6. Gets(r, s, E, nm, n, Worth(g, value))
      BY ONLY <1>3, <3>2, <3>3, <3>4, <3>5, Works(s, E, nm, {}), n \in nm, value \in Texts, ReplacedIs
    <3>7. CASE f \cap Marks = {"unset"}
      <4>1. "unset" \in f
        BY <3>7
      <4>2. "unset" \in g /\ "export" \notin g /\ "readonly" \notin g
        BY <2>5, <3>1, <3>7, <4>1
      <4>3. Worth(g, value) = Absent
        BY <4>2, WorthAbsent
      <4> QED BY <1>3, <2>8, <3>6, <4>1, <4>3 DEF Like, Calls, Assigned, Gets, MayClear
    <3>8. CASE f \cap Marks # {"unset"}
      <4>1. g = new /\ ("export" \in old.flags => "export" \in g)
        BY <2>3, <3>1, <3>8
      <4>2. PICK a : a = View(s)[n]
        OBVIOUS
      <4>3. a \in Viewed /\ ~a.readonly /\ (a.export => "export" \in g)
        BY <1>6, <2>8, <4>1, <4>2
      <4>4. MaySet(a, Worth(g, value))
        BY ONLY <4>3, value \in Texts, MaySetTo
      <4> QED BY <1>3, <3>6, <4>2, <4>4 DEF Like, Calls, Assigned, Gets
    <3> QED BY <3>7, <3>8
  <2> QED BY <2>6, <2>7
<1>4. CASE n \notin DOMAIN s.tab /\ f \cap (Marks \cup {"strfixed"}) = {"unset"}
  <2>1. r = s
    BY <1>4 DEF setvareq
  <2>2. Touches(r, s, E, n) /\ MaySet(View(s)[n], View(r)[n])
    BY ONLY <1>6, <2>1, TouchesSame, MaySetSame
  <2> QED BY <1>4, <2>1, <2>2 DEF Calls, Assigned
<1>5. CASE n \notin DOMAIN s.tab /\ f \cap (Marks \cup {"strfixed"}) # {"unset"}
  <2>1. PICK g : g = With(s, f)
    OBVIOUS
  <2>2. r = Put(s, n, value, g, 0)
    BY <1>5, <2>1 DEF setvareq
  <2>3. g \in SUBSET Flags /\ "textfixed" \notin g /\ ("unset" \in g => "unset" \in f) /\ f \subseteq g
    BY <2>1, WithIs
  <2>4. "unset" \in g => value = "" /\ g \cap {"export", "readonly", "strfixed"} # {}
    BY <1>5, <2>3 DEF EmptyIfUnset, Marks
  <2>5. Gets(r, s, E, nm, n, Worth(g, value)) /\ NewVar(r.tab, n, g)
    BY ONLY <1>5, <2>2, <2>3, <2>4, Works(s, E, nm, {}), n \in nm, value \in Texts, AddedIs
  <2>6. MaySet(View(s)[n], View(r)[n])
    <3>1. View(s)[n] = Absent
      BY <1>5, <1>6, ViewIs
    <3>2. Absent \in Viewed /\ ~Absent.readonly /\ ~Absent.export
      BY DEF Absent, Viewed
    <3>3. MaySet(Absent, Worth(g, value))
      BY ONLY <3>2, value \in Texts, MaySetTo
    <3> QED BY <2>5, <3>1, <3>3 DEF Gets
  <2> QED BY <2>1, <2>5, <2>6 DEF Like, Calls, Assigned, Gets
<1> QED BY <1>2, <1>3, <1>4, <1>5

LEMMA SetvarIs ==
  ASSUME NEW s, NEW E, NEW nm, Works(s, E, nm, {}), NEW n \in nm, n \notin Bad, NEW value \in Texts,
         NEW f \in SUBSET Flags, "textfixed" \notin f, EmptyIfUnset(f, value),
         NEW r, r = setvar(s, n, value, f)
  PROVE  Assigned(r, s, E, nm, n, f)
<1>1. r = setvareq(s, n, value, f)
  BY DEF setvar
<1> QED BY ONLY <1>1, Works(s, E, nm, {}), n \in nm, value \in Texts, f \in SUBSET Flags, "textfixed" \notin f,
           EmptyIfUnset(f, value), SetvareqIs

\* A variable that is about to be removed, is: unsetvar finds no flag that keeps it.
LEMMA UnsetvarIs ==
  ASSUME NEW s, NEW E, NEW nm, NEW n, n \in DOMAIN s.tab, n \notin Bad, Works(s, E, nm, {n}),
         s.tab[n].flags \cap {"readonly", "strfixed"} = {},
         NEW r, r = unsetvar(s, n)
  PROVE  Gets(r, s, E, nm, n, Absent)
<1>1. r = Replaced(s, n, "", {"unset"})
  BY DEF unsetvar, setvar, setvareq
<1>2. With(s, {"unset"}) = {"unset"}
  BY DEF With
<1>3. {"unset"} \cap Marks = {"unset"}
  BY DEF Marks
<1>4. "strfixed" \notin With(s, {"unset"}) \cup (s.tab[n].flags \ {"textfixed", "unset"})
  BY <1>2
<1>5. r = Forget(FreeText(Tell(s, n, ""), s.tab[n]), n)
  BY <1>1, <1>3, <1>4 DEF Replaced
<1>6. "strfixed" \notin s.tab[n].flags /\ {n} \subseteq {n}
  OBVIOUS
<1> QED BY ONLY <1>5, <1>6, n \in DOMAIN s.tab, Works(s, E, nm, {n}), RemovedIs

(***************************************************************************)
(* The stack.                                                              *)
(***************************************************************************)

Whole(s, nm) == StackOK(s.stack, nm) /\ Works(s, Entries(s.stack), nm, {})

LEMMA EntryIn ==
  ASSUME NEW st, NEW k \in DOMAIN st, NEW i \in DOMAIN st[k].lv
  PROVE  <<k, st[k].lv[i]>> \in Entries(st)
BY DEF Entries

LEMMA StackIs ==
  ASSUME NEW st, NEW nm, StackOK(st, nm)
  PROVE  /\ Len(st) \in 0 .. MaxDepth /\ DOMAIN st = 1 .. Len(st)
         /\ \A e \in Entries(st) : e[1] \in 1 .. Len(st) /\ e[2] \in Saved /\ e[2].vp \in nm \cup {"-"}
         /\ \A k \in DOMAIN st : \A i \in DOMAIN st[k].lv : <<k, st[k].lv[i]>> \in Entries(st)
<1>1. st \in Seq([kind : Kinds, lv : Seq(Saved)]) /\ Len(st) <= MaxDepth
  BY DEF StackOK
<1>2. Len(st) \in 0 .. MaxDepth /\ DOMAIN st = 1 .. Len(st)
  BY <1>1, TopIs
<1>3. ASSUME NEW e \in Entries(st)
      PROVE  e[1] \in 1 .. Len(st) /\ e[2] \in Saved /\ e[2].vp \in nm \cup {"-"}
  <2>1. PICK k \in DOMAIN st : \E i \in DOMAIN st[k].lv : e = <<k, st[k].lv[i]>>
    BY <1>3 DEF Entries
  <2>2. PICK i \in DOMAIN st[k].lv : e = <<k, st[k].lv[i]>>
    BY <2>1
  <2>3. EntryOK(st[k].lv[i], nm)
    BY DEF StackOK, ListOK
  <2> QED BY <1>2, <2>2, <2>3 DEF EntryOK
<1>4. \A k \in DOMAIN st : \A i \in DOMAIN st[k].lv : <<k, st[k].lv[i]>> \in Entries(st)
  BY DEF Entries
<1> QED BY <1>2, <1>3, <1>4

\* A variable knows the innermost scope that saved it.
LEMMA LocalIs ==
  ASSUME NEW s, NEW nm, Whole(s, nm)
  PROVE  /\ \A n \in DOMAIN s.tab :
              /\ s.tab[n].local \in 0 .. Len(s.stack)
              /\ s.tab[n].local # 0 => \E e \in Entries(s.stack) : e[1] = s.tab[n].local /\ e[2].vp = n
         /\ \A e \in Entries(s.stack) : e[2].vp \in Names =>
              /\ e[2].vp \in DOMAIN s.tab /\ e[1] <= s.tab[e[2].vp].local
              /\ "strfixed" \in s.tab[e[2].vp].flags
<1>1. PICK E : E = Entries(s.stack)
  OBVIOUS
<1>2. PICK H : H = Holders(s.tab, E)
  OBVIOUS
<1>3. Sane(s.tab, s.heap, s.told, E, nm, {}) /\ Room(E, nm)
  BY <1>1 DEF Whole, Works
<1>4. /\ H \subseteq Holder /\ Chain(H) /\ Flagged(H, {})
      /\ \A y \in H : y.level = Top => y.name \in DOMAIN s.tab /\ y = Cur(s.tab, y.name)
      /\ \A y \in H : y.name \in DOMAIN s.tab
      /\ \A n \in DOMAIN s.tab : Cur(s.tab, n) \in H
  BY ONLY <1>2, <1>3, CurIs
<1>5. \A e \in E : e[1] \in 1 .. Len(s.stack)
  BY <1>1, StackIs DEF Whole
<1>6. Len(s.stack) \in 0 .. MaxDepth
  BY StackIs DEF Whole
<1>7. ASSUME NEW n \in DOMAIN s.tab
      PROVE  /\ s.tab[n].local \in 0 .. Len(s.stack)
             /\ s.tab[n].local # 0 => \E e \in E : e[1] = s.tab[n].local /\ e[2].vp = n
  <2>1. PICK v : v = Cur(s.tab, n)
    OBVIOUS
  <2>2. v \in H /\ v.local = s.tab[n].local /\ v.name = n /\ v.level = Top
    BY <1>4, <2>1 DEF Cur
  <2>3. v.local \in 0 .. MaxDepth
    BY <1>4, <2>2 DEF Holder
  <2>4. CASE v.local = 0
    BY <1>6, <2>2, <2>4
  <2>5. CASE v.local # 0
    <3>1. PICK y \in H : y.name = v.name /\ y.level = v.local
      BY <1>4, <2>2, <2>5 DEF Chain
    <3>2. \A m \in DOMAIN s.tab : y # Cur(s.tab, m)
      BY <2>3, <3>1, TopIs DEF Cur
    <3>3. PICK e \in E : y = Old(e[1], e[2])
      BY <1>2, <3>2 DEF Holders
    <3>4. y.level = e[1] /\ y.name = e[2].vp
      BY <3>3 DEF Old
    <3> QED BY <1>5, <2>2, <3>1, <3>4
  <2> QED BY <2>4, <2>5
<1>8. ASSUME NEW e \in E, e[2].vp \in Names
      PROVE  /\ e[2].vp \in DOMAIN s.tab /\ e[1] <= s.tab[e[2].vp].local
             /\ "strfixed" \in s.tab[e[2].vp].flags
  <2>1. PICK y : y = Old(e[1], e[2])
    OBVIOUS
  <2>2. y \in H /\ y.name = e[2].vp /\ y.level = e[1]
    BY <1>2, <1>8, <2>1 DEF Holders, Old
  <2>3. PICK v : v = Cur(s.tab, e[2].vp)
    OBVIOUS
  <2>4. v \in H /\ v.name = y.name /\ v.level = Top /\ v.local = s.tab[e[2].vp].local /\ v.flags = s.tab[e[2].vp].flags
    BY <1>4, <2>2, <2>3 DEF Cur
  <2>5. y.level \in 1 .. MaxDepth
    BY <1>5, <1>6, <2>2, TopIs
  <2>6. y.level < v.level
    BY <2>4, <2>5, TopIs
  <2>7. y.level <= v.local
    BY ONLY <1>4, <2>2, <2>4, <2>6 DEF Chain
  <2>8. v.local \in 0 .. MaxDepth
    BY <1>4, <2>4 DEF Holder
  <2>9. v.local # 0
    BY <2>5, <2>7, <2>8
  <2>10. ~Fresh(v)
    BY <2>4 DEF Fresh
  <2>11. "strfixed" \in v.flags
    BY <1>4, <2>4, <2>9, <2>10 DEF Flagged
  <2> QED BY <1>4, <2>2, <2>4, <2>7, <2>11
<1> QED BY <1>1, <1>7, <1>8

\* An entry is linked to the uppermost scope.
Unsaved(st, n) == n \in Names => \A i \in DOMAIN st[Len(st)].lv : st[Len(st)].lv[i].vp # n
Topped(st, q, l) ==
  /\ Len(q) = Len(st) /\ q[Len(st)].lv = <<l>> \o st[Len(st)].lv
  /\ \A k \in DOMAIN st \ {Len(st)} : q[k] = st[k]
Linked(r, s, l, nm) ==
  /\ Topped(s.stack, r.stack, l)
  /\ IsState(r) /\ StackOK(r.stack, nm) /\ Entries(r.stack) = Entries(s.stack) \cup {<<Len(s.stack), l>>}
  /\ Len(r.stack) = Len(s.stack) /\ r.tab = s.tab /\ r.heap = s.heap /\ r.told = s.told
  /\ r.opts = s.opts /\ r.err = s.err
LEMMA LinkIs ==
  ASSUME NEW s, IsState(s), NEW nm, StackOK(s.stack, nm), s.stack # <<>>, NEW l, EntryOK(l, nm),
         Unsaved(s.stack, l.vp), NEW r, r = Link(s, l)
  PROVE  Linked(r, s, l, nm)
<1>1. PICK st : st = s.stack
  OBVIOUS
<1>2. PICK D : D = Len(st)
  OBVIOUS
<1>3. st \in Seq([kind : Kinds, lv : Seq(Saved)]) /\ DOMAIN st = 1 .. D /\ D \in 1 .. MaxDepth
  <2>1. st \in Seq([kind : Kinds, lv : Seq(Saved)]) /\ st # <<>>
    BY <1>1 DEF StackOK
  <2>2. Len(st) \in 0 .. MaxDepth
    BY <1>1, StackIs
  <2> QED BY <1>2, <2>1, <2>2
<1>4. PICK lv : lv = st[D].lv
  OBVIOUS
<1>5. st[D] \in [kind : Kinds, lv : Seq(Saved)]
  <2>1. D \in DOMAIN st
    BY <1>3, TopIs
  <2>2. \A S : st \in Seq(S) /\ D \in 1 .. Len(st) => st[D] \in S
    BY ElementOfSeq
  <2> QED BY <1>2, <1>3, <2>1, <2>2
<1>6. lv \in Seq(Saved) /\ ListOK(lv, nm)
  BY <1>1, <1>3, <1>4, <1>5 DEF StackOK
<1>7. l \in Saved
  BY DEF EntryOK
<1>8. PICK lw : lw = <<l>> \o lv
  OBVIOUS
<1>9. /\ lw \in Seq(Saved) /\ Len(lw) = Len(lv) + 1 /\ lw[1] = l
      /\ \A i \in 2 .. Len(lw) : lw[i] = lv[i - 1]
  BY <1>6, <1>7, <1>8
<1>10. DOMAIN lw = 1 .. Len(lw) /\ DOMAIN lv = 1 .. Len(lv) /\ Len(lv) \in Nat
  BY <1>6, <1>9
<1>11. PICK q : q = [st EXCEPT ![D].lv = lw]
  OBVIOUS
<1>12. [st[D] EXCEPT !.lv = lw] \in [kind : Kinds, lv : Seq(Saved)] /\ [st[D] EXCEPT !.lv = lw].lv = lw
  BY <1>5, <1>9
<1>13. /\ q \in Seq([kind : Kinds, lv : Seq(Saved)]) /\ Len(q) = D /\ q[D].lv = lw
       /\ \A k \in DOMAIN st \ {D} : q[k] = st[k]
  BY <1>2, <1>3, <1>11, <1>12
<1>14. r = Made(s.tab, s.heap, q, s.opts, s.told, s.err)
  BY <1>1, <1>2, <1>4, <1>8, <1>11 DEF Link, IsState, Made
<1>15. IsState(r) /\ r.stack = q /\ r.tab = s.tab /\ r.heap = s.heap /\ r.told = s.told /\ r.opts = s.opts /\ r.err = s.err
  BY <1>14, MadeIs
<1>16. ListOK(lw, nm)
  <2>1. \A i \in DOMAIN lw : EntryOK(lw[i], nm)
    <3> SUFFICES ASSUME NEW i \in DOMAIN lw PROVE EntryOK(lw[i], nm)
      OBVIOUS
    <3>1. CASE i = 1
      BY <1>9, <3>1
    <3>2. CASE i # 1
      <4>1. i \in 2 .. Len(lw) /\ i - 1 \in DOMAIN lv
        BY <1>9, <1>10, <3>2
      <4> QED BY <1>6, <1>9, <4>1 DEF ListOK
    <3> QED BY <3>1, <3>2
  <2>2. \A i, j \in DOMAIN lw : lw[i].vp = lw[j].vp /\ lw[i].vp \in Names => i = j
    <3> SUFFICES ASSUME NEW i \in DOMAIN lw, NEW j \in DOMAIN lw, lw[i].vp = lw[j].vp, lw[i].vp \in Names
                 PROVE  i = j
      OBVIOUS
    <3>1. \A k \in DOMAIN lw \ {1} : k \in 2 .. Len(lw) /\ k - 1 \in DOMAIN lv /\ lw[k] = lv[k - 1]
      BY <1>9, <1>10
    <3>2. l.vp \in Names => \A k \in DOMAIN lv : lv[k].vp # l.vp
      BY <1>1, <1>2, <1>4 DEF Unsaved
    <3>3. i = 1 <=> j = 1
      BY <1>9, <3>1, <3>2
    <3>4. CASE i # 1 /\ j # 1
      <4>1. i - 1 = j - 1
        BY <1>6, <3>1, <3>4 DEF ListOK
      <4> QED BY <1>10, <4>1
    <3> QED BY <3>3, <3>4
  <2> QED BY <1>9, <2>1, <2>2 DEF ListOK
<1>17. StackOK(q, nm)
  <2>1. DOMAIN q = DOMAIN st
    BY <1>3, <1>13
  <2>2. \A k \in DOMAIN q : ListOK(q[k].lv, nm)
    BY <1>1, <1>13, <1>16, <2>1 DEF StackOK
  <2> QED BY <1>3, <1>13, <2>2, TopIs DEF StackOK
<1>18. Entries(q) = Entries(st) \cup {<<D, l>>}
  <2>1. DOMAIN q = DOMAIN st /\ D \in DOMAIN st
    BY <1>3, <1>13
  <2>2. ASSUME NEW e \in Entries(q)
        PROVE  e \in Entries(st) \cup {<<D, l>>}
    <3>1. PICK k \in DOMAIN q : \E i \in DOMAIN q[k].lv : e = <<k, q[k].lv[i]>>
      BY DEF Entries
    <3>2. PICK i \in DOMAIN q[k].lv : e = <<k, q[k].lv[i]>>
      BY <3>1
    <3>3. CASE k # D
      BY <1>13, <2>1, <3>2, <3>3, EntryIn
    <3>4. CASE k = D /\ i = 1
      BY <1>9, <1>13, <3>2, <3>4
    <3>5. CASE k = D /\ i # 1
      <4>1. i \in DOMAIN lw /\ e = <<D, lw[i]>>
        BY <1>13, <3>2, <3>5
      <4>2. i - 1 \in DOMAIN lv /\ lw[i] = lv[i - 1]
        BY <1>9, <1>10, <3>5, <4>1
      <4>3. e = <<D, st[D].lv[i - 1]>> /\ i - 1 \in DOMAIN st[D].lv
        BY <1>4, <4>1, <4>2
      <4> QED BY <2>1, <4>3, EntryIn
    <3> QED BY <3>3, <3>4, <3>5
  <2>3. ASSUME NEW e \in Entries(st)
        PROVE  e \in Entries(q)
    <3>1. PICK k \in DOMAIN st : \E i \in DOMAIN st[k].lv : e = <<k, st[k].lv[i]>>
      BY DEF Entries
    <3>2. PICK i \in DOMAIN st[k].lv : e = <<k, st[k].lv[i]>>
      BY <3>1
    <3>3. CASE k # D
      BY <1>13, <2>1, <3>2, <3>3, EntryIn
    <3>4. CASE k = D
      <4>1. i \in DOMAIN lv /\ e = <<D, lv[i]>>
        BY <1>4, <3>2, <3>4
      <4>2. i + 1 \in DOMAIN lw /\ lw[i + 1] = lv[i]
        BY <1>9, <1>10, <4>1
      <4>3. e = <<D, q[D].lv[i + 1]>> /\ i + 1 \in DOMAIN q[D].lv
        BY <1>13, <4>1, <4>2
      <4> QED BY <2>1, <4>3, EntryIn
    <3> QED BY <3>3, <3>4
  <2>4. <<D, l>> \in Entries(q)
    <3>1. 1 \in DOMAIN q[D].lv /\ <<D, l>> = <<D, q[D].lv[1]>>
      BY <1>9, <1>10, <1>13
    <3> QED BY <2>1, <3>1, EntryIn
  <2> QED BY <2>2, <2>3, <2>4
<1>19. Topped(st, q, l)
  BY <1>2, <1>4, <1>8, <1>13 DEF Topped
<1> QED BY <1>1, <1>2, <1>13, <1>15, <1>17, <1>18, <1>19 DEF Linked

\* The uppermost scope saves a variable that knows no entry of this scope.
TopSaves(r, s, n, l) ==
  /\ Topped(s.stack, r.stack, l) /\ Entries(r.stack) = Entries(s.stack) \cup {<<Len(s.stack), l>>}
  /\ Unsaved(s.stack, n) /\ r.heap = s.heap /\ View(r) = View(s) /\ r.opts = s.opts
LEMMA SavesWhole ==
  ASSUME NEW s, NEW nm, Whole(s, nm), s.stack # <<>>, NEW n \in nm, n \in DOMAIN s.tab,
         NEW v, v = s.tab[n], v.local # Len(s.stack), NEW l \in Saved, l.vp = n, l.local = v.local,
         NEW w \in Var, w.text = v.text, w.local = Len(s.stack), "unset" \in w.flags <=> "unset" \in v.flags,
         \/ /\ l.flags = v.flags /\ l.text = v.text
            /\ w.flags = v.flags \cup {"strfixed", "textfixed"}
         \/ /\ l.flags = {"unset"} /\ w.flags = v.flags /\ v.local = 0 /\ n \notin Special
            /\ "strfixed" \in v.flags /\ "textfixed" \notin v.flags,
         NEW t, Differs(t, s, Given(s.tab, n, w), s.heap, s.told), NEW r, r = Link(t, l)
  PROVE  Whole(r, nm) /\ r.err = s.err /\ TopSaves(r, s, n, l)
<1>1. PICK D : D = Len(s.stack)
  OBVIOUS
<1>2. PICK E : E = Entries(s.stack)
  OBVIOUS
<1>3. Sane(s.tab, s.heap, s.told, E, nm, {}) /\ Room(E, nm) /\ StackOK(s.stack, nm) /\ IsState(s) /\ s.opts \in BOOLEAN
  BY <1>2 DEF Whole, Works
<1>4. D \in 1 .. MaxDepth /\ DOMAIN s.stack = 1 .. D
  <2>1. Len(s.stack) \in 0 .. MaxDepth /\ DOMAIN s.stack = 1 .. Len(s.stack)
    BY <1>3, StackIs
  <2>2. s.stack \in Seq([kind : Kinds, lv : Seq(Saved)])
    BY <1>3 DEF StackOK
  <2>3. Len(s.stack) # 0
    BY <2>2
  <2> QED BY <1>1, <2>1, <2>3
<1>5. v.local < D
  <2>1. v.local \in 0 .. D
    BY <1>1, LocalIs
  <2> QED BY <1>1, <1>4, <2>1
<1>6. PICK x : x = Cur(s.tab, n)
  OBVIOUS
<1>7. x.flags = v.flags /\ x.text = v.text /\ x.local = v.local
  BY <1>6 DEF Cur
<1>8. \/ /\ l.flags = x.flags /\ l.text = x.text
         /\ w.flags = x.flags \cup {"strfixed", "textfixed"}
      \/ /\ l.flags = {"unset"} /\ w.flags = x.flags /\ x.local = 0 /\ n \notin Special
         /\ "strfixed" \in x.flags /\ "textfixed" \notin x.flags
  BY <1>7
<1>9. /\ x.local < D /\ l.local = x.local /\ w.text = x.text /\ w.local = D
      /\ "unset" \in w.flags <=> "unset" \in x.flags
  BY <1>1, <1>5, <1>7
<1>10. PICK tab, h, u : tab = s.tab /\ h = s.heap /\ u = s.told
  OBVIOUS
<1>11. Sane(tab, h, u, E, nm, {}) /\ n \in DOMAIN tab /\ x = Cur(tab, n)
  BY <1>3, <1>6, <1>10
<1>12. Sane(Given(tab, n, w), h, u, E \cup {<<D, l>>}, nm, {}) /\ Room(E \cup {<<D, l>>}, nm)
  BY ONLY <1>3, <1>4, <1>8, <1>9, <1>11, n \in nm, l \in Saved, l.vp = n, w \in Var, SavedIn
<1>13. t.stack = s.stack /\ IsState(t)
  BY DEF Differs, Like
<1>14. EntryOK(l, nm)
  BY DEF EntryOK
<1>15. Unsaved(s.stack, n)
  <2> SUFFICES ASSUME n \in Names, NEW i \in DOMAIN s.stack[D].lv, s.stack[D].lv[i].vp = n
               PROVE  FALSE
    BY <1>1 DEF Unsaved
  <2>1. PICK e : e = <<D, s.stack[D].lv[i]>>
    OBVIOUS
  <2>2. e \in E /\ e[1] = D /\ e[2].vp = n
    BY <1>2, <1>4, <2>1, EntryIn
  <2>3. D <= s.tab[n].local
    BY <1>2, <2>2, LocalIs
  <2> QED BY <1>5, <2>3, <1>4, LocalIs
<1>16. /\ Topped(t.stack, r.stack, l)
       /\ IsState(r) /\ StackOK(r.stack, nm) /\ Entries(r.stack) = Entries(t.stack) \cup {<<Len(t.stack), l>>}
       /\ r.tab = t.tab /\ r.heap = t.heap /\ r.told = t.told
       /\ r.opts = t.opts /\ r.err = t.err
  <2>1. StackOK(t.stack, nm) /\ t.stack # <<>> /\ Unsaved(t.stack, l.vp)
    BY <1>3, <1>13, <1>15
  <2>2. Linked(r, t, l, nm)
    BY ONLY <1>13, <1>14, <2>1, r = Link(t, l), LinkIs
  <2> QED BY <2>2 DEF Linked
<1>17. Entries(r.stack) = E \cup {<<D, l>>}
  BY <1>1, <1>2, <1>13, <1>16
<1>18. r.tab = Given(tab, n, w) /\ r.heap = h /\ r.told = u /\ r.opts = s.opts /\ r.err = s.err
  BY <1>10, <1>16 DEF Differs, Like
<1>19. View(r) = View(s)
  <2>1. "export" \in w.flags <=> "export" \in v.flags
    OBVIOUS
  <2>2. "readonly" \in w.flags <=> "readonly" \in v.flags
    OBVIOUS
  <2>3. /\ w.text = s.tab[n].text /\ ("unset" \in w.flags <=> "unset" \in s.tab[n].flags)
        /\ "export" \in w.flags <=> "export" \in s.tab[n].flags
        /\ "readonly" \in w.flags <=> "readonly" \in s.tab[n].flags
    BY <2>1, <2>2
  <2>4. r.tab = Given(s.tab, n, w) /\ r.heap = s.heap
    BY <1>10, <1>18
  <2> QED BY ONLY <2>3, <2>4, n \in DOMAIN s.tab, GivenSame
<1>20. TopSaves(r, s, n, l)
  BY <1>1, <1>2, <1>10, <1>13, <1>15, <1>16, <1>17, <1>18, <1>19 DEF TopSaves
<1> QED BY <1>3, <1>12, <1>16, <1>17, <1>18, <1>20 DEF Whole, Works

The(values) == CHOOSE v \in values : TRUE
Assigns(values) == values = {} \/ The(values) \in Texts
\* mklocal: the variable n is saved in the uppermost scope, unless it is, and
\* may be set.
Local(r, s, n) ==
  /\ Touches(r, s, Entries(s.stack), n) /\ MaySet(View(s)[n], View(r)[n]) /\ r.opts = s.opts
  /\ \/ r.stack = s.stack /\ (s.stack # <<>> => ~Unsaved(s.stack, n))
     \/ s.stack # <<>> /\ Unsaved(s.stack, n)
        /\ \E l : l.vp = n /\ Topped(s.stack, r.stack, l) /\ Shows(r.heap, l) = View(s)[n]
LEMMA CreateIs ==
  ASSUME NEW s, NEW nm, Whole(s, nm), s.err = "none", s.stack # <<>>, NEW n \in nm, n \notin Bad,
         n \notin DOMAIN s.tab, NEW values, Assigns(values), NEW r, r = Create(s, n, values)
  PROVE  Whole(r, nm) /\ r.err = "none" /\ Local(r, s, n)
<1>1. PICK t : t = IF values = {} THEN setvar(s, n, "", {"strfixed", "unset"})
                   ELSE setvareq(s, n, The(values), {"strfixed"})
  OBVIOUS
<1>2. PICK f : f = IF values = {} THEN {"strfixed", "unset"} ELSE {"strfixed"}
  OBVIOUS
<1>3. f \in SUBSET Flags /\ "textfixed" \notin f /\ "strfixed" \in f
  BY <1>2 DEF Flags
<1>4. Works(s, Entries(s.stack), nm, {})
  BY DEF Whole
<1>5. /\ Works(t, Entries(s.stack), nm, {}) /\ Calls(t, s)
      /\ t.err = s.err /\ NewVar(t.tab, n, With(s, f))
      /\ Touches(t, s, Entries(s.stack), n) /\ MaySet(View(s)[n], View(t)[n])
  <2>1. CASE values = {}
    <3>1. EmptyIfUnset(f, "") /\ "" \in Texts /\ t = setvar(s, n, "", f)
      BY <1>1, <1>2, <2>1 DEF EmptyIfUnset, Texts
    <3>2. Assigned(t, s, Entries(s.stack), nm, n, f)
      BY ONLY <1>3, <1>4, <3>1, n \in nm, n \notin Bad, SetvarIs
    <3> QED BY <1>3, <3>2 DEF Assigned
  <2>2. CASE values # {}
    <3>1. EmptyIfUnset(f, The(values)) /\ The(values) \in Texts /\ t = setvareq(s, n, The(values), f)
      BY <1>1, <1>2, <2>2 DEF EmptyIfUnset, Assigns
    <3>2. Assigned(t, s, Entries(s.stack), nm, n, f)
      BY ONLY <1>3, <1>4, <3>1, n \in nm, SetvareqIs
    <3> QED BY <1>3, <3>2 DEF Assigned
  <2> QED BY <2>1, <2>2
<1>6. t.stack = s.stack /\ Whole(t, nm) /\ t.stack # <<>> /\ IsState(t)
  BY <1>5 DEF Calls, Whole, Works
<1>7. PICK v : v = t.tab[n]
  OBVIOUS
<1>8. n \in DOMAIN t.tab /\ n \notin Special /\ v.flags = With(s, f) /\ v.local = 0
  BY <1>5, <1>7 DEF NewVar
<1>9. "strfixed" \in v.flags /\ "textfixed" \notin v.flags
  BY <1>3, <1>8, WithIs
<1>10. Len(t.stack) \in 1 .. MaxDepth
  <2>1. t.stack \in Seq([kind : Kinds, lv : Seq(Saved)])
    BY <1>6 DEF Whole, StackOK
  <2>2. Len(t.stack) \in 0 .. MaxDepth /\ Len(t.stack) # 0
    BY <1>6, <2>1, StackIs DEF Whole
  <2> QED BY <2>2
<1>11. t.tab[n] \in Var /\ DOMAIN t.tab \subseteq Names
  BY <1>6, <1>8 DEF Whole, Works, Sane, TabOK, Names
<1>12. PICK w : w = [flags |-> v.flags, text |-> v.text, local |-> Len(t.stack)]
  OBVIOUS
<1>13. w \in Var
  BY <1>7, <1>10, <1>11, <1>12, TopIs DEF Var
<1>14. Differs([t EXCEPT !.tab[n].local = Len(t.stack)], t, Given(t.tab, n, w), t.heap, t.told)
  <2>1. w = [flags |-> t.tab[n].flags, text |-> t.tab[n].text, local |-> Len(t.stack)]
    BY <1>7, <1>12
  <2> QED BY ONLY <1>6, <1>8, <1>11, <2>1, FlagsDiffer
<1>15. PICK l : l = NewEntry(s, n)
  OBVIOUS
<1>16. l \in Saved /\ l.vp = n /\ l.local = 0 /\ l.flags = {"unset"}
  BY <1>4, <1>8, <1>11, <1>15, TopIs DEF NewEntry, Saved, Flags, Cells, Works
<1>17. r = Link([t EXCEPT !.tab[n].local = Len(t.stack)], l)
  <2>1. t = IF values = {} THEN setvar(s, n, "", {"strfixed", "unset"})
            ELSE setvareq(s, n, CHOOSE v_1 \in values : TRUE, {"strfixed"})
    BY <1>1 DEF The
  <2>2. t.err # "error"
    BY <1>5
  <2> QED BY <1>6, <1>15, <2>1, <2>2 DEF Create
<1>18. PICK u : u = [t EXCEPT !.tab[n].local = Len(t.stack)]
  OBVIOUS
<1>19. Differs(u, t, Given(t.tab, n, w), t.heap, t.told) /\ r = Link(u, l)
  BY <1>14, <1>17, <1>18
<1>20. /\ v.local # Len(t.stack) /\ l.local = v.local /\ w.text = v.text /\ w.local = Len(t.stack)
       /\ w.flags = v.flags /\ ("unset" \in w.flags <=> "unset" \in v.flags)
  BY <1>8, <1>10, <1>12, <1>16
<1>21. Whole(r, nm) /\ r.err = t.err /\ TopSaves(r, t, n, l)
  BY ONLY <1>6, <1>7, <1>8, <1>9, <1>13, <1>16, <1>19, <1>20, n \in nm, SavesWhole
<1>22. n \in Names /\ View(s)[n] = Absent
  <2>1. n \in Names
    BY <1>8, <1>11
  <2> QED BY <1>4, <2>1, ViewIs
<1>23. Shows(r.heap, l) = View(s)[n]
  BY <1>16, <1>22 DEF Shows, SavesText
<1>24. /\ Topped(s.stack, r.stack, l) /\ Unsaved(s.stack, n) /\ r.heap = t.heap
       /\ View(r) = View(t) /\ r.opts = s.opts
  BY <1>5, <1>6, <1>21 DEF TopSaves, Calls
<1>25. Touches(r, s, Entries(s.stack), n)
  BY <1>5, <1>24 DEF Touches, Only, View
<1> QED BY <1>5, <1>16, <1>21, <1>23, <1>24, <1>25 DEF Local

LEMMA AttachIs ==
  ASSUME NEW s, NEW nm, Whole(s, nm), s.stack # <<>>, NEW n \in nm, n \in DOMAIN s.tab,
         s.tab[n].local # Len(s.stack), NEW r, r = Attach(s, n)
  PROVE  /\ Whole(r, nm) /\ r.err = s.err
         /\ \E l : TopSaves(r, s, n, l) /\ l.vp = n /\ Shows(r.heap, l) = View(s)[n]
<1>1. PICK v : v = s.tab[n]
  OBVIOUS
<1>2. IsState(s) /\ s.opts \in BOOLEAN /\ v \in Var /\ DOMAIN s.tab \subseteq Names
  BY <1>1 DEF Whole, Works, Sane, TabOK, Names
<1>3. PICK f : f = v.flags \cup {"strfixed", "textfixed"}
  OBVIOUS
<1>4. PICK w : w = [flags |-> f, text |-> v.text, local |-> Len(s.stack)]
  OBVIOUS
<1>5. Len(s.stack) \in 0 .. MaxDepth
  BY StackIs DEF Whole
<1>6. w \in Var
  BY <1>2, <1>3, <1>4, <1>5 DEF Var, Flags
<1>7. PICK t : t = [s EXCEPT !.tab[n].flags = f, !.tab[n].local = Len(s.stack)]
  OBVIOUS
<1>8. Differs(t, s, Given(s.tab, n, w), s.heap, s.told)
  <2>1. w = [flags |-> f, text |-> s.tab[n].text, local |-> Len(s.stack)] /\ s.tab[n] \in Var
    BY <1>1, <1>2, <1>4
  <2> QED BY ONLY <1>2, <1>7, <2>1, n \in DOMAIN s.tab, FlagsDiffer
<1>9. PICK l : l = Entry(s, n)
  OBVIOUS
<1>10. l = [vp |-> n, flags |-> v.flags, text |-> v.text, local |-> v.local, opts |-> s.opts]
  BY <1>1, <1>9 DEF Entry
<1>11. l \in Saved /\ l.vp = n /\ l.local = v.local /\ l.flags = v.flags /\ l.text = v.text
  BY <1>2, <1>10 DEF Saved, Var
<1>12. r = Link(t, l)
  <2>1. t = [s EXCEPT !.tab[n].flags = s.tab[n].flags \cup {"strfixed", "textfixed"}, !.tab[n].local = Len(s.stack)]
    BY <1>1, <1>3, <1>7
  <2> QED BY <1>9, <2>1 DEF Attach
<1>13. /\ v.local # Len(s.stack) /\ w.text = v.text /\ w.local = Len(s.stack)
       /\ ("unset" \in w.flags <=> "unset" \in v.flags) /\ w.flags = v.flags \cup {"strfixed", "textfixed"}
  BY <1>1, <1>3, <1>4
<1>14. Whole(r, nm) /\ r.err = s.err /\ TopSaves(r, s, n, l)
  BY ONLY <1>1, <1>6, <1>8, <1>11, <1>12, <1>13, Whole(s, nm), s.stack # <<>>, n \in nm, n \in DOMAIN s.tab,
     SavesWhole
<1>15. Shows(r.heap, l) = View(s)[n]
  <2>1. l.vp \in Names /\ r.heap = s.heap /\ Works(s, Entries(s.stack), nm, {})
    BY <1>2, <1>11, <1>14 DEF TopSaves, Whole
  <2>2. Shows(r.heap, l) = Worth(l.flags, r.heap[l.text])
    BY ONLY <2>1, ShowsIs
  <2>3. View(s)[n] = Worth(s.tab[n].flags, s.heap[s.tab[n].text])
    BY ONLY <2>1, n \in DOMAIN s.tab, ViewIs
  <2> QED BY <1>1, <1>11, <2>1, <2>2, <2>3
<1> QED BY <1>11, <1>14, <1>15

LEMMA ToppedEntries ==
  ASSUME NEW st, NEW q, NEW nm, StackOK(st, nm), StackOK(q, nm), st # <<>>, NEW l, Topped(st, q, l)
  PROVE  Entries(st) \subseteq Entries(q) /\ \E k : <<k, l>> \in Entries(q)
<1>1. PICK D : D = Len(st)
  OBVIOUS
<1>2. DOMAIN st = 1 .. D /\ DOMAIN q = 1 .. D /\ D \in DOMAIN st
  <2>1. DOMAIN st = 1 .. D /\ DOMAIN q = 1 .. D /\ D \in Nat
    BY <1>1, StackIs DEF Topped
  <2>2. st \in Seq([kind : Kinds, lv : Seq(Saved)])
    BY DEF StackOK
  <2>3. D # 0
    BY <1>1, <2>2
  <2> QED BY <2>1, <2>3
<1>3. PICK lv, lw : lv = st[D].lv /\ lw = q[D].lv
  OBVIOUS
<1>4. lv \in Seq(Saved) /\ lw \in Seq(Saved) /\ lw = <<l>> \o lv
  BY <1>1, <1>2, <1>3 DEF Topped, StackOK, ListOK
<1>5. 1 \in DOMAIN lw /\ lw[1] = l /\ \A i \in DOMAIN lv : i + 1 \in DOMAIN lw /\ lw[i + 1] = lv[i]
  BY <1>4
<1>6. <<D, l>> \in Entries(q)
  BY <1>2, <1>3, <1>5, EntryIn
<1>7. ASSUME NEW e \in Entries(st) PROVE e \in Entries(q)
  <2>1. PICK k \in DOMAIN st : \E i \in DOMAIN st[k].lv : e = <<k, st[k].lv[i]>>
    BY DEF Entries
  <2>2. PICK i \in DOMAIN st[k].lv : e = <<k, st[k].lv[i]>>
    BY <2>1
  <2>3. CASE k = D
    <3>1. i + 1 \in DOMAIN q[D].lv /\ e = <<D, q[D].lv[i + 1]>>
      BY <1>3, <1>5, <2>2, <2>3
    <3> QED BY <1>2, <3>1, EntryIn
  <2>4. CASE k # D
    <3>1. q[k] = st[k] /\ k \in DOMAIN q
      BY <1>1, <1>2, <2>4 DEF Topped
    <3> QED BY <2>2, <3>1, EntryIn
  <2> QED BY <2>3, <2>4
<1> QED BY <1>6, <1>7

LEMMA MklocalIs ==
  ASSUME NEW s, NEW nm, Whole(s, nm), s.err = "none", NEW n \in nm, n \notin Bad,
         NEW values, Assigns(values), NEW r, r = mklocal(s, n, values)
  PROVE  Whole(r, nm) /\ r.err \in {"none", "error"} /\ Local(r, s, n)
<1>3. n \in Names /\ View(s)[n] \in Viewed
  <2>1. Works(s, Entries(s.stack), nm, {}) /\ nm \subseteq Names
    BY DEF Whole, Works, Sane, TabOK
  <2> QED BY <2>1, ViewIs
<1>4. MaySet(View(s)[n], View(s)[n])
  BY ONLY <1>3, MaySetSame
<1>1. CASE n \notin DOMAIN s.tab /\ s.stack # <<>>
  <2>1. Len(s.stack) # 0
    BY <1>1 DEF Whole, StackOK
  <2>2. r = Create(s, n, values)
    BY <1>1, <2>1 DEF mklocal
  <2> QED BY ONLY <1>1, <2>2, Whole(s, nm), s.err = "none", n \in nm, n \notin Bad, Assigns(values), CreateIs
<1>2. CASE n \in DOMAIN s.tab \/ s.stack = <<>>
  <2>1. PICK t : t = IF (IF n \in DOMAIN s.tab THEN s.tab[n].local ELSE 0) = Len(s.stack) THEN s ELSE Attach(s, n)
    OBVIOUS
  <2>2. Whole(t, nm) /\ t.err = "none" /\ Local(t, s, n) /\ View(t) = View(s)
    <3>1. CASE n \in DOMAIN s.tab /\ s.tab[n].local # Len(s.stack)
      <4>1. s.stack # <<>>
        <5>1. s.tab[n].local \in 0 .. Len(s.stack)
          BY <3>1, LocalIs
        <5> QED BY <3>1, <5>1
      <4>2. t = Attach(s, n)
        BY <2>1, <3>1
      <4>3. /\ Whole(t, nm) /\ t.err = s.err
            /\ \E l : TopSaves(t, s, n, l) /\ l.vp = n /\ Shows(t.heap, l) = View(s)[n]
        BY ONLY <3>1, <4>1, <4>2, Whole(s, nm), n \in nm, AttachIs
      <4>4. PICK l : TopSaves(t, s, n, l) /\ l.vp = n /\ Shows(t.heap, l) = View(s)[n]
        BY <4>3
      <4>5. Touches(t, s, Entries(s.stack), n)
        BY <4>4 DEF TopSaves, Touches, Only, View
      <4>6. Local(t, s, n)
        BY <1>4, <4>1, <4>4, <4>5 DEF Local, TopSaves
      <4> QED BY <4>3, <4>4, <4>6 DEF TopSaves
    <3>2. CASE n \in DOMAIN s.tab /\ s.tab[n].local = Len(s.stack)
      <4>1. t = s
        BY <2>1, <3>2
      <4>2. s.stack # <<>> => ~Unsaved(s.stack, n)
        <5> SUFFICES ASSUME s.stack # <<>>, Unsaved(s.stack, n) PROVE FALSE
          OBVIOUS
        <5>1. s.tab[n].local # 0
          BY <3>2 DEF Whole, StackOK
        <5>2. PICK e \in Entries(s.stack) : e[1] = s.tab[n].local /\ e[2].vp = n
          BY <3>2, <5>1, LocalIs
        <5>3. PICK k \in DOMAIN s.stack : \E i \in DOMAIN s.stack[k].lv : e = <<k, s.stack[k].lv[i]>>
          BY DEF Entries
        <5>4. PICK i \in DOMAIN s.stack[k].lv : e = <<k, s.stack[k].lv[i]>>
          BY <5>3
        <5>5. k = Len(s.stack) /\ s.stack[k].lv[i].vp = n
          BY <3>2, <5>2, <5>4
        <5> QED BY <1>3, <5>5 DEF Unsaved
      <4>3. Touches(s, s, Entries(s.stack), n)
        BY TouchesSame
      <4> QED BY <1>4, <4>1, <4>2, <4>3 DEF Local
    <3>3. CASE n \notin DOMAIN s.tab
      <4>1. Len(s.stack) = 0
        BY <1>2, <3>3
      <4>2. t = s /\ s.stack = <<>>
        BY <1>2, <2>1, <3>3, <4>1
      <4>3. Touches(s, s, Entries(s.stack), n)
        BY TouchesSame
      <4> QED BY <1>4, <4>2, <4>3 DEF Local
    <3> QED BY <3>1, <3>2, <3>3
  <2>3. r = IF values = {} THEN t ELSE setvareq(t, n, The(values), {})
    <3>1. ~((IF n \in DOMAIN s.tab THEN s.tab[n].local ELSE 0) # Len(s.stack) /\ n \notin DOMAIN s.tab)
      BY <1>2
    <3> QED BY <2>1, <3>1 DEF mklocal, The
  <2>4. CASE values = {}
    BY <2>2, <2>3, <2>4
  <2>5. CASE values # {}
    <3>1. PICK f : f = {}
      OBVIOUS
    <3>2. f \in SUBSET Flags /\ "textfixed" \notin f /\ EmptyIfUnset(f, The(values)) /\ The(values) \in Texts
      BY <2>5, <3>1 DEF EmptyIfUnset, Assigns
    <3>3. Works(t, Entries(t.stack), nm, {}) /\ r = setvareq(t, n, The(values), f)
      BY <2>2, <2>3, <2>5, <3>1 DEF Whole
    <3>4. Assigned(r, t, Entries(t.stack), nm, n, f)
      BY ONLY <3>2, <3>3, n \in nm, SetvareqIs
    <3>5. /\ Works(r, Entries(t.stack), nm, {}) /\ Calls(r, t) /\ Touches(r, t, Entries(t.stack), n)
          /\ MaySet(View(t)[n], View(r)[n])
      BY <3>2, <3>1, <3>4 DEF Assigned
    <3>6. Whole(r, nm) /\ r.err \in {"none", "error"} /\ r.stack = t.stack /\ r.opts = t.opts
      BY <2>2, <3>5 DEF Calls, Whole
    <3>7. MaySet(View(s)[n], View(r)[n])
      BY <2>2, <3>5
    <3>8. /\ Touches(t, s, Entries(s.stack), n) /\ t.opts = s.opts
          /\ \/ t.stack = s.stack /\ (s.stack # <<>> => ~Unsaved(s.stack, n))
             \/ s.stack # <<>> /\ Unsaved(s.stack, n)
                /\ \E l : l.vp = n /\ Topped(s.stack, t.stack, l) /\ Shows(t.heap, l) = View(s)[n]
      BY <2>2 DEF Local
    <3>9. CASE t.stack = s.stack /\ (s.stack # <<>> => ~Unsaved(s.stack, n))
      <4>1. Touches(r, s, Entries(s.stack), n)
        BY <3>5, <3>8, <3>9, TouchesBoth
      <4> QED BY <3>6, <3>7, <3>8, <3>9, <4>1 DEF Local
    <3>10. CASE /\ s.stack # <<>> /\ Unsaved(s.stack, n)
                /\ \E l : l.vp = n /\ Topped(s.stack, t.stack, l) /\ Shows(t.heap, l) = View(s)[n]
      <4>1. PICK l : l.vp = n /\ Topped(s.stack, t.stack, l) /\ Shows(t.heap, l) = View(s)[n]
        BY <3>10
      <4>2. StackOK(s.stack, nm) /\ StackOK(t.stack, nm) /\ s.stack # <<>>
        BY <2>2, <3>10 DEF Whole
      <4>3. Entries(s.stack) \subseteq Entries(t.stack) /\ \E k : <<k, l>> \in Entries(t.stack)
        BY ONLY <4>1, <4>2, ToppedEntries
      <4>4. \A e \in Entries(t.stack) : Shows(r.heap, e[2]) = Shows(t.heap, e[2])
        BY <3>5 DEF Touches, Only
      <4>5. Shows(r.heap, l) = View(s)[n]
        <5>1. PICK k : <<k, l>> \in Entries(t.stack)
          BY <4>3
        <5>2. <<k, l>>[2] = l
          OBVIOUS
        <5> QED BY <4>1, <4>4, <5>1, <5>2
      <4>6. Touches(r, t, Entries(s.stack), n)
        BY <3>5, <4>3 DEF Touches, Only
      <4>7. Touches(r, s, Entries(s.stack), n)
        BY <3>8, <4>6, TouchesBoth
      <4> QED BY <3>6, <3>7, <3>8, <3>10, <4>1, <4>5, <4>7 DEF Local
    <3> QED BY <3>6, <3>8, <3>9, <3>10
  <2> QED BY <2>4, <2>5
<1> QED BY <1>1, <1>2

Optioned(r, s) ==
  /\ r.tab = s.tab /\ r.heap = s.heap /\ r.opts = s.opts
  /\ \/ r.stack = s.stack
     \/ s.stack # <<>> /\ \E l : l.vp = "-" /\ l.opts = s.opts /\ Topped(s.stack, r.stack, l)
LEMMA MklocaloptsIs ==
  ASSUME NEW s, NEW nm, Whole(s, nm), s.err = "none", NEW r, r = mklocalopts(s)
  PROVE  Whole(r, nm) /\ r.err = "none" /\ Optioned(r, s)
<1>1. CASE s.stack = <<>>
  BY <1>1 DEF mklocalopts, Optioned
<1>2. CASE s.stack # <<>>
  <2>1. PICK l : l = NewEntry(s, "-")
    OBVIOUS
  <2>2. IsState(s) /\ s.opts \in BOOLEAN /\ StackOK(s.stack, nm)
    BY DEF Whole, Works
  <2>3. EntryOK(l, nm) /\ l.vp = "-"
    BY <2>1, <2>2, TopIs DEF EntryOK, NewEntry, Saved, Flags, Cells
  <2>4. Unsaved(s.stack, l.vp) /\ "-" \notin Names
    BY <2>3, VarAssumption DEF Unsaved, Names
  <2>5. r = Link(s, l)
    BY <1>2, <2>1 DEF mklocalopts
  <2>6. Linked(r, s, l, nm)
    BY ONLY <1>2, <2>2, <2>3, <2>4, <2>5, LinkIs
  <2>7. PICK E : E = Entries(s.stack)
    OBVIOUS
  <2>8. PICK D : D = Len(s.stack)
    OBVIOUS
  <2>9. D \in 1 .. MaxDepth
    <3>1. D \in 0 .. MaxDepth
      BY <2>2, <2>8, StackIs
    <3>2. s.stack \in Seq([kind : Kinds, lv : Seq(Saved)])
      BY <2>2 DEF StackOK
    <3>3. D # 0
      BY <1>2, <2>8, <3>2
    <3> QED BY <3>1, <3>3
  <2>10. Holders(s.tab, E \cup {<<D, l>>}) = Holders(s.tab, E)
    <3>1. l.vp \notin Names
      BY <2>3, <2>4
    <3>2. {e \in E \cup {<<D, l>>} : e[2].vp \in Names} = {e \in E : e[2].vp \in Names}
      BY ONLY <3>1
    <3> QED BY ONLY <3>2 DEF Holders
  <2>11. Sane(s.tab, s.heap, s.told, E, nm, {}) /\ Room(E, nm)
    BY <2>7 DEF Whole, Works
  <2>12. Sane(s.tab, s.heap, s.told, E \cup {<<D, l>>}, nm, {})
    BY <2>10, <2>11 DEF Sane
  <2>13. Room(E \cup {<<D, l>>}, nm)
    BY <2>9, <2>11 DEF Room, Levels
  <2>14. l.opts = s.opts
    BY <2>1 DEF NewEntry
  <2>15. Optioned(r, s)
    BY <1>2, <2>3, <2>6, <2>14 DEF Optioned, Linked
  <2> QED BY <2>2, <2>6, <2>7, <2>8, <2>12, <2>13, <2>15 DEF Linked, Whole, Works
<1> QED BY <1>1, <1>2

\* export and readonly mark a known variable; set -a is changed.
Changed(r, s, n) ==
  /\ Touches(r, s, Entries(s.stack), n) /\ r.stack = s.stack /\ r.opts = s.opts
  /\ MaySet(View(s)[n], View(r)[n]) \/ MayClear(View(s)[n], View(r)[n])
LEMMA MarkIs ==
  ASSUME NEW s, NEW nm, Whole(s, nm), NEW n, n \in DOMAIN s.tab, NEW flag \in {"export", "readonly"},
         NEW r, r = [s EXCEPT !.tab[n].flags = s.tab[n].flags \cup {flag}]
  PROVE  Whole(r, nm) /\ r.err = s.err /\ Changed(r, s, n)
<1>1. PICK f : f = s.tab[n].flags \cup {flag}
  OBVIOUS
<1>2. PICK w : w = [flags |-> f, text |-> s.tab[n].text, local |-> s.tab[n].local]
  OBVIOUS
<1>3. IsState(s) /\ s.tab[n] \in Var
  BY DEF Whole, Works, Sane, TabOK
<1>4. Differs(r, s, Given(s.tab, n, w), s.heap, s.told)
  <2>1. r = [s EXCEPT !.tab[n].flags = f]
    BY <1>1
  <2>2. PICK k : k = s.tab[n].local
    OBVIOUS
  <2>3. w = [flags |-> f, text |-> s.tab[n].text, local |-> k]
    BY <1>2, <2>2
  <2> QED BY ONLY <1>3, <2>1, <2>2, <2>3, n \in DOMAIN s.tab, FlagsDiffer
<1>5. PICK v : v = Cur(s.tab, n)
  OBVIOUS
<1>6. v.flags = s.tab[n].flags /\ v.text = s.tab[n].text /\ v.local = s.tab[n].local
  BY <1>5 DEF Cur
<1>7. /\ w \in Var /\ w.text = v.text /\ w.local = v.local
      /\ ("unset" \in w.flags <=> "unset" \in v.flags)
      /\ ("strfixed" \in w.flags <=> "strfixed" \in v.flags)
      /\ ("textfixed" \in w.flags <=> "textfixed" \in v.flags)
  BY <1>1, <1>2, <1>3, <1>6 DEF Var, Flags
<1>8. Marked(w)
  BY <1>1, <1>2 DEF Marked
<1>9. PICK E : E = Entries(s.stack)
  OBVIOUS
<1>10. Sane(s.tab, s.heap, s.told, E, nm, {}) /\ Room(E, nm)
  BY <1>9 DEF Whole, Works
<1>11. PICK tab, h, t : tab = s.tab /\ h = s.heap /\ t = s.told
  OBVIOUS
<1>12. Sane(tab, h, t, E, nm, {}) /\ n \in DOMAIN tab /\ v = Cur(tab, n)
  BY <1>5, <1>10, <1>11
<1>13. Sane(Given(tab, n, w), h, t, E, nm, {})
  BY ONLY <1>7, <1>8, <1>10, <1>12, FlagsGiven
<1>14. Whole(r, nm) /\ r.err = s.err
  BY <1>4, <1>9, <1>10, <1>11, <1>13 DEF Differs, Like, Whole, Works
<1>15. r.tab = Given(s.tab, n, w) /\ r.heap = s.heap /\ r.stack = s.stack /\ r.opts = s.opts
  BY <1>4 DEF Differs, Like
<1>16. Touches(r, s, E, n)
  BY ONLY <1>15, n \in DOMAIN s.tab, GivenTouches
<1>17. PICK a : a = View(s)[n]
  OBVIOUS
<1>18. Works(s, E, nm, {}) /\ Works(r, E, nm, {}) /\ n \in DOMAIN r.tab /\ r.tab[n] = w
  BY <1>9, <1>14, <1>15 DEF Whole, Given
<1>19. a = Worth(s.tab[n].flags, s.heap[s.tab[n].text]) /\ a \in Viewed
  BY ONLY <1>17, <1>18, n \in DOMAIN s.tab, ViewIs
<1>20. View(r)[n] = Worth(w.flags, s.heap[w.text])
  BY ONLY <1>15, <1>18, ViewIs
<1>21. a.val = (IF "unset" \in f THEN "unset" ELSE s.heap[w.text]) /\ (a.export <=> "export" \in s.tab[n].flags)
       /\ (a.readonly <=> "readonly" \in s.tab[n].flags)
  <2>1. /\ a.val = (IF "unset" \in s.tab[n].flags THEN "unset" ELSE s.heap[s.tab[n].text])
        /\ a.export = ("export" \in s.tab[n].flags) /\ a.readonly = ("readonly" \in s.tab[n].flags)
    BY <1>19, Zenon DEF Worth
  <2> QED BY <1>1, <1>2, <2>1
<1>22. PICK e, m \in BOOLEAN : (e <=> flag = "export") /\ (m <=> flag = "readonly")
  OBVIOUS
<1>23. Worth(f, s.heap[w.text]) = [val |-> a.val, export |-> a.export \/ e, readonly |-> a.readonly \/ m]
  <2>1. PICK x, y : x = (a.export \/ e) /\ y = (a.readonly \/ m)
    OBVIOUS
  <2>2. x \in BOOLEAN /\ y \in BOOLEAN /\ (x <=> "export" \in f) /\ (y <=> "readonly" \in f)
    BY <1>1, <1>21, <1>22, <2>1
  <2>3. Worth(f, s.heap[w.text]) = [val |-> a.val, export |-> x, readonly |-> y]
    BY ONLY <1>21, <2>2, WorthIs
  <2> QED BY <2>1, <2>3, Zenon
<1>24. MaySet(a, View(r)[n])
  <2>1. a.val \in Texts \cup {"unset"} /\ w.flags = f
    BY <1>2, <1>19 DEF Viewed
  <2>2. View(r)[n] = [val |-> a.val, export |-> a.export \/ e, readonly |-> a.readonly \/ m]
    BY ONLY <1>20, <1>23, <2>1
  <2> QED BY ONLY <1>22, <2>1, <2>2 DEF MaySet
<1> QED BY <1>9, <1>14, <1>15, <1>16, <1>17, <1>24 DEF Changed

(***************************************************************************)
(* Entries of the uppermost scope, at the depth D, are undone or kept.     *)
(***************************************************************************)

Entered(s, E, D, l, nm) ==
  /\ Works(s, E \cup {<<D, l>>}, nm, {}) /\ Popping(s.tab, E, D, l, nm) /\ l.vp \notin Bad
LEMMA EnteredIs ==
  ASSUME NEW s, NEW E, NEW D, NEW l, NEW nm, Entered(s, E, D, l, nm), NEW v, v = s.tab[l.vp]
  PROVE  /\ l.vp \in DOMAIN s.tab /\ v \in Var /\ l \in Saved /\ IsState(s) /\ s.opts \in BOOLEAN
         /\ "textfixed" \in v.flags => l.flags # {"unset"} /\ l.text = v.text
<1>1. PICK H : H = Holders(s.tab, E \cup {<<D, l>>})
  OBVIOUS
<1>2. PICK e : e = Old(D, l)
  OBVIOUS
<1>3. PICK x : x = Cur(s.tab, l.vp)
  OBVIOUS
<1>4. PICK tab, h, t : tab = s.tab /\ h = s.heap /\ t = s.told
  OBVIOUS
<1>5. /\ Sane(tab, h, t, E \cup {<<D, l>>}, nm, {}) /\ Room(E \cup {<<D, l>>}, nm) /\ Popping(tab, E, D, l, nm)
      /\ IsState(s) /\ s.opts \in BOOLEAN
  BY <1>4 DEF Entered, Works
<1>6. Pops(tab, h, t, E, D, l.vp, nm, H, x, e)
  BY ONLY <1>1, <1>2, <1>3, <1>4, <1>5, PoppingIs
<1>7. l.vp \in DOMAIN tab /\ TabOK(tab, nm) /\ Innermost(H, x, e) /\ Owned(H, h)
  BY <1>6 DEF Pops, Valid
<1>8. x \in H /\ x.level = Top /\ e \in H /\ e.name = x.name /\ e.level = x.local
  BY <1>7 DEF Innermost
<1>9. ~Fresh(x)
  BY <1>8 DEF Fresh
<1>10. "textfixed" \in x.flags => ~Fresh(e) /\ e.text = x.text
  <2>1. Lives(H, h, x)
    BY <1>7, <1>8, <1>9 DEF Owned
  <2> QED BY <1>8, <2>1 DEF Lives
<1>11. e.level = D /\ D # Top /\ l \in Saved
  BY <1>2, <1>5, TopIs DEF Popping, Old
<1>12. e.flags = l.flags /\ e.text = l.text
  BY <1>2 DEF Old
<1>13. x.flags = v.flags /\ x.text = v.text
  BY <1>3 DEF Cur
<1>14. "textfixed" \in v.flags => l.flags # {"unset"} /\ l.text = v.text
  BY <1>10, <1>11, <1>12, <1>13 DEF Fresh
<1> QED BY <1>4, <1>5, <1>7, <1>11, <1>14 DEF TabOK

LiftsTo(u, s, E, nm, un, n, w) ==
  /\ Works(u, E, nm, un) /\ Like(u, s) /\ n \in DOMAIN u.tab /\ u.tab[n] = w
  /\ Touches(u, s, E, n) /\ View(u)[n] = Worth(w.flags, s.heap[s.tab[n].text])
LEMMA LiftWorks ==
  ASSUME NEW s, NEW E, NEW D, NEW l, NEW nm, Entered(s, E, D, l, nm), NEW v, v = s.tab[l.vp],
         NEW w, Lifts(l, v, w), NEW un, l.vp \notin un => Marked(w),
         NEW k, k = TextKept(s.heap, l, v),
         NEW u, Differs(u, s, Given(s.tab, l.vp, w), k, s.told)
  PROVE  LiftsTo(u, s, E, nm, un, l.vp, w)
<1>1. PICK x : x = Cur(s.tab, l.vp)
  OBVIOUS
<1>2. PICK tab, h, t : tab = s.tab /\ h = s.heap /\ t = s.told
  OBVIOUS
<1>3. /\ Sane(tab, h, t, E \cup {<<D, l>>}, nm, {}) /\ Room(E \cup {<<D, l>>}, nm) /\ Popping(tab, E, D, l, nm)
      /\ IsState(s) /\ s.opts \in BOOLEAN /\ x = Cur(tab, l.vp)
  BY <1>1, <1>2 DEF Entered, Works
<1>4. x.flags = v.flags /\ x.text = v.text
  BY <1>1 DEF Cur
<1>5. Lifts(l, x, w)
  BY <1>4 DEF Lifts
<1>6. k = TextKept(h, l, x)
  BY <1>2, <1>4 DEF TextKept
<1>7. /\ SaneKept(Given(tab, l.vp, w), tab, k, t, E, l, nm, un)
      /\ OnlyKept(Given(tab, l.vp, w), tab, k, h, E, l.vp)
  BY ONLY <1>3, <1>5, <1>6, l.vp \notin un => Marked(w), KeptIn
<1>8. l.vp \in DOMAIN Given(tab, l.vp, w) /\ Given(tab, l.vp, w)[l.vp] = w
  BY DEF Given
<1>9. Works(u, E, nm, un) /\ Like(u, s) /\ l.vp \in DOMAIN u.tab /\ u.tab[l.vp] = w
  BY <1>2, <1>3, <1>7, <1>8 DEF Differs, Like, Works, SaneKept
<1>10. u.tab = Given(tab, l.vp, w) /\ u.heap = k /\ k[tab[l.vp].text] = h[tab[l.vp].text] /\ w.text = tab[l.vp].text
  BY <1>2, <1>7 DEF Differs, OnlyKept, Lifts
<1>11. Touches(u, s, E, l.vp)
  BY <1>2, <1>7, <1>10 DEF Touches, OnlyKept
<1>12. View(u)[l.vp] = Worth(u.tab[l.vp].flags, u.heap[u.tab[l.vp].text])
  BY ONLY <1>9, ViewIs
<1>13. View(u)[l.vp] = Worth(w.flags, s.heap[s.tab[l.vp].text])
  BY ONLY <1>2, <1>9, <1>10, <1>12
<1> QED BY <1>9, <1>11, <1>13 DEF LiftsTo

LEMMA KeepVarIs ==
  ASSUME NEW s, NEW E, NEW D, NEW l, NEW nm, Entered(s, E, D, l, nm), NEW r, r = KeepVar(s, l)
  PROVE  Gets(r, s, E, nm, l.vp, View(s)[l.vp])
<1>1. PICK v : v = s.tab[l.vp]
  OBVIOUS
<1>2. /\ l.vp \in DOMAIN s.tab /\ v \in Var /\ l \in Saved /\ IsState(s) /\ s.opts \in BOOLEAN
      /\ "textfixed" \in v.flags => l.flags # {"unset"} /\ l.text = v.text
  BY <1>1, EnteredIs
<1> DEFINE fresh == l.flags = {"unset"}
           bits == {"strfixed"} \cup (IF ~fresh /\ s.tab[l.vp].text = l.text THEN {"textfixed"} ELSE {})
           t == IF fresh \/ s.tab[l.vp].text = l.text THEN s ELSE FreeText(s, l)
           f == (s.tab[l.vp].flags \ bits) \cup (l.flags \cap bits)
           u == [t EXCEPT !.tab[l.vp].flags = f, !.tab[l.vp].local = l.local]
<1>3. bits = {"strfixed"} \cup (IF ~fresh /\ v.text = l.text THEN {"textfixed"} ELSE {})
  BY <1>1
<1>4. t = IF fresh \/ v.text = l.text THEN s ELSE FreeText(s, l)
  BY <1>1
<1>5. f = (v.flags \ bits) \cup (l.flags \cap bits)
  BY <1>1
<1>6. u = [t EXCEPT !.tab[l.vp].flags = f, !.tab[l.vp].local = l.local]
  OBVIOUS
<1>7. fresh <=> l.flags = {"unset"}
  OBVIOUS
<1>8. r = IF f \cap (Marks \cup {"strfixed"}) = {"unset"} THEN unsetvar(u, l.vp) ELSE u
  BY DEF KeepVar
<1> HIDE DEF fresh, bits, t, f, u
<1>9. PICK w : w = [flags |-> f, text |-> v.text, local |-> l.local]
  OBVIOUS
<1>10. PICK k : k = TextKept(s.heap, l, v)
  OBVIOUS
<1>11. Differs(t, s, s.tab, k, s.told)
  <2>1. CASE fresh \/ v.text = l.text
    <3>1. t = s /\ k = s.heap
      BY <1>4, <1>7, <1>10, <2>1 DEF TextKept
    <3> QED BY <1>2, <3>1 DEF Differs, Like
  <2>2. CASE ~(fresh \/ v.text = l.text)
    <3>1. t = FreeText(s, l) /\ k = FreedOf(s.heap, l)
      BY <1>4, <1>7, <1>10, <2>2 DEF TextKept
    <3>2. Differs(FreeText(s, l), s, s.tab, FreedOf(s.heap, l), s.told)
      BY ONLY <1>2, TextsDiffer
    <3> QED BY <3>1, <3>2
  <2> QED BY <2>1, <2>2
<1>12. Differs(u, s, Given(s.tab, l.vp, w), k, s.told)
  <2>1. IsState(t) /\ t.tab = s.tab /\ l.vp \in DOMAIN t.tab /\ t.tab[l.vp] \in Var
    BY <1>1, <1>2, <1>11 DEF Differs
  <2>2. PICK j : j = l.local
    OBVIOUS
  <2>3. PICK n : n = l.vp
    OBVIOUS
  <2>4. w = [flags |-> f, text |-> t.tab[n].text, local |-> j] /\ u = [t EXCEPT !.tab[n].flags = f, !.tab[n].local = j]
    BY <1>1, <1>6, <1>9, <2>1, <2>2, <2>3
  <2>5. Differs(u, t, Given(t.tab, n, w), t.heap, t.told)
    BY ONLY <2>1, <2>3, <2>4, FlagsDiffer
  <2> QED BY <1>11, <2>3, <2>5 DEF Differs, Like
<1>13. Lifts(l, v, w)
  <2>1. f \in SUBSET Flags /\ w \in Var
    BY <1>2, <1>3, <1>5, <1>9 DEF Var, Saved
  <2>2. "unset" \in f <=> "unset" \in v.flags
    BY <1>3, <1>5
  <2>3. "strfixed" \in f <=> "strfixed" \in l.flags
    BY <1>3, <1>5
  <2>4. "textfixed" \in f <=> l.flags # {"unset"} /\ l.text = v.text /\ "textfixed" \in l.flags
    <3>1. CASE l.flags # {"unset"} /\ l.text = v.text
      BY <1>3, <1>5, <1>7, <3>1
    <3>2. CASE ~(l.flags # {"unset"} /\ l.text = v.text)
      <4>1. "textfixed" \notin v.flags /\ "textfixed" \notin bits
        BY <1>2, <1>3, <1>7, <3>2
      <4> QED BY <1>5, <3>2, <4>1
    <3> QED BY <3>1, <3>2
  <2> QED BY <1>9, <2>1, <2>2, <2>3, <2>4 DEF Lifts
<1>16. View(s)[l.vp] = Worth(w.flags, s.heap[s.tab[l.vp].text])
  <2>1. Works(s, E \cup {<<D, l>>}, nm, {})
    BY DEF Entered
  <2>2. View(s)[l.vp] = Worth(s.tab[l.vp].flags, s.heap[s.tab[l.vp].text])
    BY ONLY <1>2, <2>1, ViewIs
  <2>3. bits \subseteq {"strfixed", "textfixed"}
    BY <1>3
  <2>4. /\ "unset" \in w.flags <=> "unset" \in v.flags
        /\ "export" \in w.flags <=> "export" \in v.flags
        /\ "readonly" \in w.flags <=> "readonly" \in v.flags
    BY <1>5, <1>9, <2>3
  <2> QED BY ONLY <1>1, <2>2, <2>4, WorthSame
<1>14. CASE f \cap (Marks \cup {"strfixed"}) = {"unset"}
  <2>1. PICK un : un = {l.vp}
    OBVIOUS
  <2>2. l.vp \notin un => Marked(w)
    BY <2>1
  <2>3. /\ Works(u, E, nm, un) /\ Like(u, s) /\ l.vp \in DOMAIN u.tab /\ u.tab[l.vp] = w
        /\ Touches(u, s, E, l.vp) /\ View(u)[l.vp] = View(s)[l.vp]
    <3>1. LiftsTo(u, s, E, nm, un, l.vp, w)
      BY ONLY <1>1, <1>10, <1>12, <1>13, <2>2, Entered(s, E, D, l, nm), LiftWorks
    <3> QED BY <1>16, <3>1 DEF LiftsTo
  <2>4. u.tab[l.vp].flags \cap {"readonly", "strfixed"} = {}
    BY <1>9, <1>14, <2>3 DEF Marks
  <2>5. l.vp \notin Bad /\ r = unsetvar(u, l.vp) /\ Works(u, E, nm, {l.vp})
    BY <1>8, <1>14, <2>1, <2>3 DEF Entered
  <2>6. Gets(r, u, E, nm, l.vp, Absent)
    BY ONLY <2>3, <2>4, <2>5, UnsetvarIs
  <2>7. View(s)[l.vp] = Absent
    <3>1. "unset" \in w.flags /\ "export" \notin w.flags /\ "readonly" \notin w.flags
      BY <1>9, <1>14 DEF Marks
    <3> QED BY <1>16, <3>1, WorthAbsent
  <2>8. Works(r, E, nm, {}) /\ Like(r, u) /\ Touches(r, u, E, l.vp) /\ View(r)[l.vp] = Absent
    BY <2>6 DEF Gets
  <2>9. Touches(r, s, E, l.vp)
    BY <2>3, <2>8, TouchesBoth
  <2> QED BY <2>3, <2>7, <2>8, <2>9 DEF Like, Gets
<1>15. CASE f \cap (Marks \cup {"strfixed"}) # {"unset"}
  <2>1. PICK un : un = {}
    OBVIOUS
  <2>2. l.vp \notin un => Marked(w)
    BY <1>9, <1>15 DEF Marked, Marks
  <2>3. /\ Works(u, E, nm, un) /\ Like(u, s) /\ l.vp \in DOMAIN u.tab /\ u.tab[l.vp] = w
        /\ Touches(u, s, E, l.vp) /\ View(u)[l.vp] = View(s)[l.vp]
    <3>1. LiftsTo(u, s, E, nm, un, l.vp, w)
      BY ONLY <1>1, <1>10, <1>12, <1>13, <2>2, Entered(s, E, D, l, nm), LiftWorks
    <3> QED BY <1>16, <3>1 DEF LiftsTo
  <2> QED BY <1>8, <1>15, <2>1, <2>3 DEF Gets
<1> QED BY <1>14, <1>15

LEMMA PopFreshIs ==
  ASSUME NEW s, NEW E, NEW D, NEW l, NEW nm, Entered(s, E, D, l, nm), l.flags = {"unset"},
         NEW r, r = PopFresh(s, l)
  PROVE  Gets(r, s, E, nm, l.vp, Absent)
<1>1. PICK v : v = s.tab[l.vp]
  OBVIOUS
<1>2. /\ l.vp \in DOMAIN s.tab /\ v \in Var /\ l \in Saved /\ IsState(s) /\ s.opts \in BOOLEAN
      /\ "textfixed" \in v.flags => l.flags # {"unset"} /\ l.text = v.text
  BY <1>1, EnteredIs
<1>3. PICK f : f = v.flags \ {"strfixed", "readonly"}
  OBVIOUS
<1>4. PICK u : u = [s EXCEPT !.tab[l.vp].flags = f, !.tab[l.vp].local = l.local]
  OBVIOUS
<1>5. r = unsetvar(u, l.vp)
  <2>1. u = [s EXCEPT !.tab[l.vp].flags = s.tab[l.vp].flags \ {"strfixed", "readonly"}, !.tab[l.vp].local = l.local]
    BY <1>1, <1>3, <1>4
  <2> QED BY <2>1 DEF PopFresh
<1>6. PICK w : w = [flags |-> f, text |-> v.text, local |-> l.local]
  OBVIOUS
<1>7. PICK k : k = TextKept(s.heap, l, v)
  OBVIOUS
<1>8. Differs(u, s, Given(s.tab, l.vp, w), k, s.told)
  <2>1. s.tab[l.vp] \in Var /\ k = s.heap
    BY <1>1, <1>2, <1>7 DEF TextKept
  <2>2. PICK j : j = l.local
    OBVIOUS
  <2>3. PICK n : n = l.vp
    OBVIOUS
  <2>4. w = [flags |-> f, text |-> s.tab[n].text, local |-> j] /\ u = [s EXCEPT !.tab[n].flags = f, !.tab[n].local = j]
    BY <1>1, <1>4, <1>6, <2>2, <2>3
  <2>5. Differs(u, s, Given(s.tab, n, w), s.heap, s.told)
    BY ONLY <1>2, <2>1, <2>3, <2>4, FlagsDiffer
  <2> QED BY <2>1, <2>3, <2>5
<1>9. Lifts(l, v, w)
  <2>1. w \in Var
    BY <1>2, <1>3, <1>6 DEF Var, Saved
  <2>2. "textfixed" \notin f /\ "strfixed" \notin f /\ ("unset" \in f <=> "unset" \in v.flags) /\ "strfixed" \notin l.flags
    BY <1>2, <1>3
  <2> QED BY <1>6, <2>1, <2>2 DEF Lifts
<1>10. PICK un : un = {l.vp}
  OBVIOUS
<1>11. l.vp \notin un => Marked(w)
  BY <1>10
<1>12. /\ Works(u, E, nm, un) /\ Like(u, s) /\ l.vp \in DOMAIN u.tab /\ u.tab[l.vp] = w
       /\ Touches(u, s, E, l.vp)
  <2>1. LiftsTo(u, s, E, nm, un, l.vp, w)
    BY ONLY <1>1, <1>7, <1>8, <1>9, <1>11, Entered(s, E, D, l, nm), LiftWorks
  <2> QED BY <2>1 DEF LiftsTo
<1>13. u.tab[l.vp].flags \cap {"readonly", "strfixed"} = {}
  BY <1>3, <1>6, <1>12
<1>14. l.vp \notin Bad /\ Works(u, E, nm, {l.vp})
  BY <1>10, <1>12 DEF Entered
<1>15. Gets(r, u, E, nm, l.vp, Absent)
  BY ONLY <1>5, <1>12, <1>13, <1>14, UnsetvarIs
<1>16. Touches(r, s, E, l.vp)
  BY <1>12, <1>15, TouchesBoth DEF Gets
<1> QED BY <1>12, <1>15, <1>16 DEF Like, Gets

LEMMA RestoreDiffers ==
  ASSUME NEW s, IsState(s), NEW l, l.vp \in DOMAIN s.tab,
         NEW w, w = [flags |-> l.flags, text |-> l.text, local |-> l.local]
  PROVE  Differs(Restore(s, l), s, Given(s.tab, l.vp, w), s.heap, s.told)
<1>1. [s.tab EXCEPT ![l.vp] = w] = Given(s.tab, l.vp, w)
  BY DEF Given
<1>2. Restore(s, l) = [s EXCEPT !.tab = [s.tab EXCEPT ![l.vp] = w]]
  BY DEF Restore
<1>3. \A r : [s EXCEPT !.tab = r] = Made(r, s.heap, s.stack, s.opts, s.told, s.err)
  BY DEF IsState, Made
<1>4. Restore(s, l) = Made(Given(s.tab, l.vp, w), s.heap, s.stack, s.opts, s.told, s.err)
  BY <1>1, <1>2, <1>3
<1> QED BY <1>4, MadeIs DEF Differs, Like

LEMMA PopVarIs ==
  ASSUME NEW s, NEW E, NEW D, NEW l, NEW nm, Entered(s, E, D, l, nm), NEW r, r = PopVar(s, l)
  PROVE  Gets(r, s, E, nm, l.vp, Shows(s.heap, l))
<1>1. CASE l.flags = {"unset"}
  <2>1. r = PopFresh(s, l)
    BY <1>1 DEF PopVar
  <2>2. Gets(r, s, E, nm, l.vp, Absent)
    BY ONLY <1>1, <2>1, Entered(s, E, D, l, nm), PopFreshIs
  <2> QED BY <1>1, <2>2 DEF Shows, SavesText
<1>2. CASE l.flags # {"unset"}
  <2>1. PICK n : n = l.vp
    OBVIOUS
  <2>2. PICK value : value = s.heap[l.text]
    OBVIOUS
  <2>3. PICK a : a = Tell(s, n, value)
    OBVIOUS
  <2>4. PICK b : b = FreeText(a, s.tab[n])
    OBVIOUS
  <2>5. r = Restore(b, l)
    BY <1>2, <2>1, <2>2, <2>3, <2>4 DEF PopVar
  <2>6. /\ n \in DOMAIN s.tab /\ l \in Saved /\ IsState(s) /\ s.opts \in BOOLEAN
    BY <2>1, EnteredIs
  <2>7. Differs(a, s, s.tab, s.heap, ToldOf(s.told, n, value))
    BY <2>3, <2>6, TextsDiffer
  <2>8. Differs(b, a, a.tab, FreedOf(a.heap, s.tab[n]), a.told)
    <3>1. IsState(a)
      BY <2>7 DEF Differs
    <3> QED BY <2>4, <3>1, TextsDiffer
  <2>9. PICK v : v = Cur(s.tab, n)
    OBVIOUS
  <2>10. b.tab = s.tab /\ b.heap = FreedOf(s.heap, v) /\ b.told = ToldOf(s.told, n, value) /\ IsState(b) /\ Like(b, s)
    BY <2>7, <2>8, <2>9, CurText DEF Differs, Like
  <2>11. PICK w : w = [flags |-> l.flags, text |-> l.text, local |-> l.local]
    OBVIOUS
  <2>12. Differs(r, b, Given(b.tab, n, w), b.heap, b.told)
    <3>1. l.vp \in DOMAIN b.tab
      BY <2>1, <2>6, <2>10
    <3> QED BY <2>1, <2>5, <2>10, <2>11, <3>1, RestoreDiffers
  <2>13. w \in Var /\ w.flags = l.flags /\ w.text = l.text /\ w.local = l.local
    BY <2>6, <2>11 DEF Var, Saved
  <2>14. PICK tab, h, t : tab = s.tab /\ h = s.heap /\ t = s.told
    OBVIOUS
  <2>15. /\ Sane(tab, h, t, E \cup {<<D, l>>}, nm, {}) /\ Room(E \cup {<<D, l>>}, nm) /\ Popping(tab, E, D, l, nm)
         /\ v = Cur(tab, l.vp)
    BY <2>1, <2>9, <2>14 DEF Entered, Works
  <2>16. /\ Sane(Given(tab, l.vp, w), FreedOf(h, v), ToldOf(t, l.vp, h[l.text]), E, nm, {})
         /\ Room(E, nm) /\ Only(E, tab, h, Given(tab, l.vp, w), FreedOf(h, v), l.vp)
         /\ FreedOf(h, v)[l.text] = h[l.text]
    BY ONLY <1>2, <2>13, <2>15, Undone
  <2>17. r.tab = Given(tab, l.vp, w) /\ r.heap = FreedOf(h, v) /\ r.told = ToldOf(t, l.vp, h[l.text])
    BY <2>1, <2>2, <2>10, <2>12, <2>14 DEF Differs
  <2>18. Works(r, E, nm, {}) /\ Like(r, s)
    BY <2>6, <2>10, <2>12, <2>16, <2>17 DEF Differs, Like, Works
  <2>19. Touches(r, s, E, l.vp)
    BY <2>14, <2>16, <2>17 DEF Touches
  <2>20. l.vp \in DOMAIN r.tab /\ r.tab[l.vp] = w /\ r.heap[l.text] = s.heap[l.text]
    BY <2>14, <2>16, <2>17 DEF Given
  <2>21. View(r)[l.vp] = Worth(r.tab[l.vp].flags, r.heap[r.tab[l.vp].text])
    BY ONLY <2>18, <2>20, ViewIs
  <2>22. l.vp \in Names
    BY DEF Entered, Popping
  <2>23. Shows(s.heap, l) = Worth(l.flags, s.heap[l.text])
    BY ONLY <2>22, ShowsIs
  <2>24. View(r)[l.vp] = Shows(s.heap, l)
    BY ONLY <2>13, <2>20, <2>21, <2>23
  <2> QED BY <2>18, <2>19, <2>24 DEF Gets
<1> QED BY <1>1, <1>2

\* One entry, of a variable or of the options.
Popped(r, s, E, l, keep) ==
  IF l.vp = "-" THEN ~keep /\ r.tab = s.tab /\ r.heap = s.heap /\ r.opts = l.opts
  ELSE /\ Touches(r, s, E, l.vp) /\ r.opts = s.opts
       /\ View(r)[l.vp] = IF keep THEN View(s)[l.vp] ELSE Shows(s.heap, l)
After(r, s, E, D, l, nm, keep) ==
  /\ r.stack = s.stack
  /\ \/ r.err = "none" /\ Works(r, E, nm, {}) /\ Popped(r, s, E, l, keep)
     \/ r.err = "crash" /\ Works(r, E \cup {<<D, l>>}, nm, {})
LEMMA PopEntryIs ==
  ASSUME Bad = {}, NEW s, NEW E, NEW D, NEW l, NEW nm, s.err = "none", Works(s, E \cup {<<D, l>>}, nm, {}),
         EntryOK(l, nm), l.vp \in Names => Popping(s.tab, E, D, l, nm),
         NEW keep, NEW r, r = PopEntry(s, l, keep)
  PROVE  After(r, s, E, D, l, nm, keep)
<1>1. l.vp # "uninitialised"
  <2>1. nm \subseteq Names
    BY DEF Works, Sane, TabOK
  <2>2. l.vp \in Names \cup {"-"}
    BY <2>1 DEF EntryOK
  <2> QED BY <2>2, VarAssumption DEF Names
<1>2. CASE l.vp = "-" /\ keep
  <2>1. r = Crash(s)
    BY <1>2 DEF PopEntry
  <2>2. Crash(s) = Made(s.tab, s.heap, s.stack, s.opts, s.told, "crash")
    BY DEF Crash, Works, IsState, Made
  <2>3. /\ IsState(r) /\ r.tab = s.tab /\ r.heap = s.heap /\ r.stack = s.stack /\ r.opts = s.opts
        /\ r.told = s.told /\ r.err = "crash"
    BY <2>1, <2>2, MadeIs
  <2> QED BY <2>3 DEF Works, After
<1>3. CASE l.vp = "-" /\ ~keep
  <2>1. r = [s EXCEPT !.opts = l.opts]
    BY <1>1, <1>3 DEF PopEntry
  <2>2. [s EXCEPT !.opts = l.opts] = Made(s.tab, s.heap, s.stack, l.opts, s.told, s.err)
    BY DEF Works, IsState, Made
  <2>3. /\ IsState(r) /\ r.tab = s.tab /\ r.heap = s.heap /\ r.stack = s.stack /\ r.opts = l.opts
        /\ r.told = s.told /\ r.err = s.err
    BY <2>1, <2>2, MadeIs
  <2>4. l.opts \in BOOLEAN /\ l.vp \notin Names
    BY <1>3, VarAssumption DEF EntryOK, Saved, Names
  <2>5. {e \in E \cup {<<D, l>>} : e[2].vp \in Names} = {e \in E : e[2].vp \in Names}
    BY ONLY <2>4
  <2>6. Holders(s.tab, E \cup {<<D, l>>}) = Holders(s.tab, E)
    BY ONLY <2>5 DEF Holders
  <2>7. Sane(s.tab, s.heap, s.told, E \cup {<<D, l>>}, nm, {}) /\ Room(E \cup {<<D, l>>}, nm)
    BY DEF Works
  <2>8. Sane(s.tab, s.heap, s.told, E, nm, {})
    BY <2>6, <2>7 DEF Sane
  <2>9. Room(E, nm)
    BY <2>7 DEF Room, Levels
  <2>10. Works(r, E, nm, {})
    BY <2>3, <2>4, <2>8, <2>9 DEF Works
  <2> QED BY <1>3, <2>3, <2>10 DEF After, Popped
<1>4. CASE l.vp # "-"
  <2>1. l.vp \in Names
    <3>1. nm \subseteq Names
      BY DEF Works, Sane, TabOK
    <3> QED BY <1>4, <3>1 DEF EntryOK
  <2>2. Entered(s, E, D, l, nm)
    BY <2>1 DEF Entered
  <2>3. r = IF keep THEN KeepVar(s, l) ELSE PopVar(s, l)
    BY <1>1, <1>4 DEF PopEntry
  <2>4. Gets(r, s, E, nm, l.vp, IF keep THEN View(s)[l.vp] ELSE Shows(s.heap, l))
    <3>1. CASE keep
      <4>1. r = KeepVar(s, l)
        BY <2>3, <3>1
      <4>2. Gets(r, s, E, nm, l.vp, View(s)[l.vp])
        BY ONLY <2>2, <4>1, KeepVarIs
      <4> QED BY <3>1, <4>2
    <3>2. CASE ~keep
      <4>1. r = PopVar(s, l)
        BY <2>3, <3>2
      <4>2. Gets(r, s, E, nm, l.vp, Shows(s.heap, l))
        BY ONLY <2>2, <4>1, PopVarIs
      <4> QED BY <3>2, <4>2
    <3> QED BY <3>1, <3>2
  <2> QED BY <1>4, <2>4 DEF After, Like, Gets, Popped
<1> QED BY <1>2, <1>3, <1>4

(***************************************************************************)
(* The recursion of poplocalvars.                                          *)
(***************************************************************************)

LEMMA Least ==
  ASSUME NEW S \in SUBSET Nat, S # {}
  PROVE  \E d \in S : \A e \in S : d <= e
<1> DEFINE R == {ss \in Nat \X Nat : ss[1] < ss[2]}
<1>1. IsWellFoundedOn(R, Nat)
  BY NatLessThanWellFounded, Zenon DEF OpToRel
<1> HIDE DEF R
<1>2. PICK d \in S : \A e \in S : ~(<<e, d>> \in R)
  BY <1>1, WFMin, Zenon
<1>3. \A e \in S : ~(e < d)
  BY <1>2 DEF R
<1>4. \A e \in S : d <= e
  BY <1>3
<1> QED BY <1>4

\* Induction, on a set.
LEMMA Induction ==
  ASSUME NEW n \in Nat, NEW S, 0 \in S, \A i \in 0 .. n - 1 : i \in S => i + 1 \in S
  PROVE  \A i \in 0 .. n : i \in S
<1> SUFFICES ASSUME (0 .. n) \ S # {} PROVE FALSE
  OBVIOUS
<1>1. (0 .. n) \ S \in SUBSET Nat
  OBVIOUS
<1>2. PICK d \in (0 .. n) \ S : \A e \in (0 .. n) \ S : d <= e
  BY <1>1, Least
<1>3. d # 0
  BY <1>2
<1>4. d - 1 \in 0 .. n - 1 /\ d - 1 \in 0 .. n
  BY <1>2, <1>3
<1>5. d - 1 \in S
  BY <1>2, <1>4
<1>6. d - 1 + 1 \in S
  BY <1>4, <1>5
<1>7. d - 1 + 1 = d
  BY <1>2
<1> QED BY <1>2, <1>6, <1>7
\* What poplocalvars computes, one entry after the other.
Unlinked(s) == [s EXCEPT !.stack = SubSeq(s.stack, 1, Len(s.stack) - 1)]
Follows(f, s, lv, keep, n) ==
  f[0] = Unlinked(s) /\ \A i \in 1 .. n : f[i] = PopEntry(f[i - 1], lv[i], keep)
LEMMA PopSteps ==
  ASSUME NEW s, NEW keep, NEW lv \in Seq(Saved), lv = Last(s.stack).lv
  PROVE  \E f : Follows(f, s, lv, keep, Len(lv)) /\ poplocalvars(s, keep) = f[Len(lv)]
<1> DEFINE N == Len(lv)
           B == {n \in 0 .. N : \E f : DOMAIN f = 0 .. n /\ Follows(f, s, lv, keep, n)}
<1>1. N \in Nat
  BY LenProperties
<1>2. 0 \in B
  <2> DEFINE f == [i \in 0 .. 0 |-> Unlinked(s)]
  <2>1. DOMAIN f = 0 .. 0 /\ f[0] = Unlinked(s)
    OBVIOUS
  <2> HIDE DEF f
  <2>2. Follows(f, s, lv, keep, 0)
    BY <2>1 DEF Follows
  <2> QED BY <1>1, <2>1, <2>2
<1>3. ASSUME NEW n \in 0 .. N - 1, n \in B PROVE n + 1 \in B
  <2>1. PICK f : DOMAIN f = 0 .. n /\ Follows(f, s, lv, keep, n)
    BY <1>3
  <2> DEFINE g == [i \in 0 .. n + 1 |-> IF i = n + 1 THEN PopEntry(f[n], lv[n + 1], keep) ELSE f[i]]
  <2>2. n \in Nat /\ n + 1 \in 0 .. N /\ n + 1 \in 0 .. n + 1 /\ n \in 0 .. n /\ 0 \in 0 .. n
    BY <1>1, <1>3
  <2>3. DOMAIN g = 0 .. n + 1 /\ g[n + 1] = PopEntry(f[n], lv[n + 1], keep)
    BY <2>2
  <2>4. \A i \in 0 .. n : g[i] = f[i]
    BY <2>2
  <2> HIDE DEF g
  <2>5. ASSUME NEW i \in 1 .. n + 1 PROVE g[i] = PopEntry(g[i - 1], lv[i], keep)
    <3>1. CASE i = n + 1
      <4>1. i - 1 = n
        BY <2>2, <3>1
      <4> QED BY <2>2, <2>3, <2>4, <3>1, <4>1
    <3>2. CASE i # n + 1
      <4>1. i \in 1 .. n /\ i \in 0 .. n /\ i - 1 \in 0 .. n
        BY <2>2, <3>2
      <4> QED BY <2>1, <2>4, <4>1 DEF Follows
    <3> QED BY <3>1, <3>2
  <2>6. g[0] = Unlinked(s)
    BY <2>1, <2>2, <2>4 DEF Follows
  <2>7. Follows(g, s, lv, keep, n + 1)
    BY <2>5, <2>6 DEF Follows
  <2> QED BY <2>2, <2>3, <2>7
<1> HIDE DEF B
<1>4. \A i \in 0 .. N : i \in B
  BY <1>1, <1>2, <1>3, Induction
<1>5. PICK f : DOMAIN f = 0 .. N /\ Follows(f, s, lv, keep, N)
  BY <1>1, <1>4 DEF B
<1> DEFINE Fix(g) == g = [i \in 0 .. Len(Last(s.stack).lv) |->
                            IF i = 0 THEN [s EXCEPT !.stack = SubSeq(s.stack, 1, Len(s.stack) - 1)]
                            ELSE PopEntry(g[i - 1], Last(s.stack).lv[i], keep)]
<1>6. \E h : Fix(h)
  <2> DEFINE h == [i \in 0 .. N |-> f[i]]
  <2>1. h = [i \in 0 .. N |-> IF i = 0 THEN Unlinked(s) ELSE PopEntry(h[i - 1], lv[i], keep)]
    <3> SUFFICES ASSUME NEW i \in 0 .. N
                 PROVE  f[i] = IF i = 0 THEN Unlinked(s) ELSE PopEntry(h[i - 1], lv[i], keep)
      OBVIOUS
    <3>1. CASE i = 0
      BY <1>5, <3>1 DEF Follows
    <3>2. CASE i # 0
      <4>1. i \in 1 .. N /\ i - 1 \in 0 .. N
        BY <1>1, <3>2
      <4>2. h[i - 1] = f[i - 1]
        BY <4>1
      <4> QED BY <1>5, <3>2, <4>1, <4>2 DEF Follows
    <3> QED BY <3>1, <3>2
  <2> HIDE DEF h
  <2>2. Fix(h)
    BY <2>1 DEF Unlinked
  <2> QED BY <2>2
<1>7. poplocalvars(s, keep) = (CHOOSE g : Fix(g))[Len(Last(s.stack).lv)]
  BY Zenon DEF poplocalvars
<1>8. PICK g : Fix(g) /\ poplocalvars(s, keep) = g[Len(Last(s.stack).lv)]
  BY <1>6, <1>7
<1>9. g = [i \in 0 .. N |-> IF i = 0 THEN Unlinked(s) ELSE PopEntry(g[i - 1], lv[i], keep)]
  BY <1>8 DEF Unlinked
<1>10. \A i \in 0 .. N : g[i] = IF i = 0 THEN Unlinked(s) ELSE PopEntry(g[i - 1], lv[i], keep)
  BY <1>9, Zenon
<1>11. Follows(g, s, lv, keep, N)
  <2>1. 0 \in 0 .. N /\ \A i \in 1 .. N : i \in 0 .. N /\ i # 0
    BY <1>1
  <2> QED BY <1>10, <2>1 DEF Follows
<1> QED BY <1>8, <1>11

\* The entries of a scope that are left, when n of them are popped.
Left(q, D, lv, n) == Entries(q) \cup {<<D, lv[j]>> : j \in n + 1 .. Len(lv)}
Leaves(st, nm, D, lv, q) ==
  /\ D \in 1 .. MaxDepth /\ lv \in Seq(Saved) /\ ListOK(lv, nm) /\ StackOK(q, nm)
  /\ Left(q, D, lv, 0) = Entries(st) /\ Left(q, D, lv, Len(lv)) = Entries(q)
  /\ \A i \in 0 .. Len(lv) - 1 : Left(q, D, lv, i) = Left(q, D, lv, i + 1) \cup {<<D, lv[i + 1]>>}
  /\ \A e \in Entries(q) : e[1] \in 1 .. D - 1
LEMMA LeftIs ==
  ASSUME NEW st, NEW nm, StackOK(st, nm), st # <<>>, NEW D, D = Len(st), NEW lv, lv = Last(st).lv,
         NEW q, q = SubSeq(st, 1, D - 1)
  PROVE  Leaves(st, nm, D, lv, q)
<1>1. PICK S : S = [kind : Kinds, lv : Seq(Saved)]
  OBVIOUS
<1>2. st \in Seq(S) /\ Len(st) <= MaxDepth
  BY <1>1 DEF StackOK
<1>3. D \in 1 .. MaxDepth /\ DOMAIN st = 1 .. D
  <2>1. Len(st) \in 0 .. MaxDepth /\ DOMAIN st = 1 .. Len(st)
    BY StackIs
  <2>2. Len(st) # 0
    BY <1>2
  <2> QED BY <2>1, <2>2
<1>4. lv = st[D].lv /\ D \in DOMAIN st /\ MaxDepth \in Nat
  BY <1>3, TopIs DEF Last
<1>5. q \in Seq(S) /\ Len(q) = D - 1 /\ \A k \in 1 .. D - 1 : q[k] = st[k]
  BY <1>2, <1>3, <1>4
<1>6. DOMAIN q = 1 .. D - 1 /\ \A k \in DOMAIN q : k \in DOMAIN st /\ k # D /\ q[k] = st[k]
  BY <1>3, <1>4, <1>5
<1>7. ListOK(lv, nm) /\ lv \in Seq(Saved)
  BY <1>4 DEF StackOK, ListOK
<1>8. StackOK(q, nm)
  <2>1. \A k \in DOMAIN q : ListOK(q[k].lv, nm)
    BY <1>6 DEF StackOK
  <2>2. Len(q) <= MaxDepth
    BY <1>3, <1>4, <1>5
  <2> QED BY <1>1, <1>5, <2>1, <2>2 DEF StackOK
<1>9. \A e \in Entries(q) : e[1] \in 1 .. D - 1
  BY <1>5, <1>8, StackIs
<1>10. DOMAIN lv = 1 .. Len(lv) /\ Len(lv) \in Nat
  BY <1>7
<1>11. Left(q, D, lv, 0) = Entries(st)
  <2>1. ASSUME NEW e \in Left(q, D, lv, 0)
        PROVE  e \in Entries(st)
    <3>1. CASE e \in Entries(q)
      <4>1. PICK k \in DOMAIN q : \E i \in DOMAIN q[k].lv : e = <<k, q[k].lv[i]>>
        BY <3>1 DEF Entries
      <4>2. PICK i \in DOMAIN q[k].lv : e = <<k, q[k].lv[i]>>
        BY <4>1
      <4> QED BY <1>6, <4>2, EntryIn
    <3>2. CASE e \notin Entries(q)
      <4>1. PICK j \in 1 .. Len(lv) : e = <<D, lv[j]>>
        BY <3>2 DEF Left
      <4> QED BY <1>4, <1>10, <4>1, EntryIn
    <3> QED BY <3>1, <3>2
  <2>2. ASSUME NEW e \in Entries(st)
        PROVE  e \in Left(q, D, lv, 0)
    <3>1. PICK k \in DOMAIN st : \E i \in DOMAIN st[k].lv : e = <<k, st[k].lv[i]>>
      BY DEF Entries
    <3>2. PICK i \in DOMAIN st[k].lv : e = <<k, st[k].lv[i]>>
      BY <3>1
    <3>3. CASE k = D
      <4>1. i \in 0 + 1 .. Len(lv) /\ e = <<D, lv[i]>>
        BY <1>4, <1>10, <3>2, <3>3
      <4> QED BY <4>1 DEF Left
    <3>4. CASE k # D
      <4>1. k \in DOMAIN q /\ q[k] = st[k]
        BY <1>3, <1>5, <1>6, <3>4
      <4>2. e \in Entries(q)
        BY <3>2, <4>1, EntryIn
      <4> QED BY <4>2 DEF Left
    <3> QED BY <3>3, <3>4
  <2> QED BY <2>1, <2>2
<1>12. Left(q, D, lv, Len(lv)) = Entries(q)
  <2>1. Len(lv) + 1 .. Len(lv) = {}
    BY <1>10
  <2> QED BY <2>1 DEF Left
<1>13. ASSUME NEW i \in 0 .. Len(lv) - 1
       PROVE  Left(q, D, lv, i) = Left(q, D, lv, i + 1) \cup {<<D, lv[i + 1]>>}
  <2>1. i + 1 .. Len(lv) = (i + 1 + 1 .. Len(lv)) \cup {i + 1}
    BY <1>10
  <2> QED BY <2>1 DEF Left
<1> QED BY <1>3, <1>7, <1>8, <1>9, <1>11, <1>12, <1>13 DEF Leaves

\* What is given back when the first i entries are popped: what they saved, or
\* nothing.
SameShows(g, s, E) == \A e \in E : Shows(g.heap, e[2]) = Shows(s.heap, e[2])
Kept(g, s) == g.opts = s.opts /\ \A m \in Names : View(g)[m] = View(s)[m]
Back(g, s, lv, i) ==
  /\ \A j \in 1 .. i : lv[j].vp \in Names => View(g)[lv[j].vp] = Shows(s.heap, lv[j])
  /\ \A m \in Names : (\A j \in 1 .. i : lv[j].vp # m) => View(g)[m] = View(s)[m]
  /\ \A j \in 1 .. i : lv[j].vp = "-" /\ (\A k \in j + 1 .. i : lv[k].vp # "-") => g.opts = lv[j].opts
  /\ (\A j \in 1 .. i : lv[j].vp # "-") => g.opts = s.opts
Partly(g, s, lv, i, keep, E) ==
  SameShows(g, s, E) /\ (keep => Kept(g, s)) /\ (~keep => Back(g, s, lv, i))
LEMMA PartlyNext ==
  ASSUME NEW nm, NEW lv, ListOK(lv, nm), nm \subseteq Names, NEW i \in 0 .. Len(lv) - 1, NEW l, l = lv[i + 1],
         NEW g, NEW k, NEW s, NEW keep, NEW E, NEW D,
         Partly(g, s, lv, i, keep, E \cup {<<D, l>>}), Popped(k, g, E, l, keep)
  PROVE  Partly(k, s, lv, i + 1, keep, E)
<1>1. /\ i \in Nat /\ i + 1 \in 1 .. i + 1 /\ i + 1 \in DOMAIN lv
      /\ \A j \in 1 .. i + 1 : j \in DOMAIN lv /\ (j # i + 1 => j \in 1 .. i)
      /\ \A j \in 1 .. i : j \in 1 .. i + 1 /\ j # i + 1 /\ i + 1 \in j + 1 .. i + 1
      /\ \A j \in 1 .. i : \A n \in j + 1 .. i : n \in j + 1 .. i + 1
  BY DEF ListOK
<1>2. \A j \in DOMAIN lv : lv[j].vp \in Names \cup {"-"} /\ "-" \notin Names
  BY VarAssumption DEF ListOK, EntryOK, Names
<1>3. \A j \in 1 .. i : lv[j].vp = l.vp => l.vp \notin Names
  BY <1>1 DEF ListOK
<1>4. SameShows(g, s, E \cup {<<D, l>>}) /\ Shows(g.heap, l) = Shows(s.heap, l)
  <2>1. <<D, l>>[2] = l
    OBVIOUS
  <2> QED BY <2>1 DEF Partly, SameShows
<1>5. CASE l.vp = "-"
  <2>1. ~keep /\ k.tab = g.tab /\ k.heap = g.heap /\ k.opts = l.opts
    BY <1>5 DEF Popped
  <2>2. View(k) = View(g) /\ SameShows(k, s, E)
    BY <1>4, <2>1 DEF View, SameShows
  <2>3. Back(g, s, lv, i)
    BY <2>1 DEF Partly
  <2>4. \A j \in 1 .. i + 1 : lv[j].vp \in Names => View(k)[lv[j].vp] = Shows(s.heap, lv[j])
    BY <1>1, <1>2, <1>5, <2>2, <2>3 DEF Back
  <2>5. \A m \in Names : (\A j \in 1 .. i + 1 : lv[j].vp # m) => View(k)[m] = View(s)[m]
    BY <1>1, <2>2, <2>3 DEF Back
  <2>6. \A j \in 1 .. i + 1 : lv[j].vp = "-" /\ (\A n \in j + 1 .. i + 1 : lv[n].vp # "-") => k.opts = lv[j].opts
    BY <1>1, <1>5, <2>1
  <2>7. ~(\A j \in 1 .. i + 1 : lv[j].vp # "-")
    BY <1>1, <1>5
  <2>8. Back(k, s, lv, i + 1)
    BY ONLY <2>4, <2>5, <2>6, <2>7 DEF Back
  <2> QED BY <2>1, <2>2, <2>8 DEF Partly
<1>6. CASE l.vp # "-"
  <2>1. /\ Touches(k, g, E, l.vp) /\ k.opts = g.opts
        /\ View(k)[l.vp] = IF keep THEN View(g)[l.vp] ELSE Shows(g.heap, l)
    BY <1>6 DEF Popped
  <2>2. SameShows(k, s, E)
    BY <1>4, <2>1 DEF SameShows, Touches, Only
  <2>3. \A m \in Names \ {l.vp} : View(k)[m] = View(g)[m]
    BY <2>1 DEF Touches, Only, View
  <2>4. l.vp \in Names
    BY <1>1, <1>2, <1>6
  <2>5. CASE keep
    <3>1. Kept(g, s)
      BY <2>5 DEF Partly
    <3>2. Kept(k, s)
      BY <2>1, <2>3, <2>5, <3>1 DEF Kept
    <3> QED BY <2>2, <2>5, <3>2 DEF Partly
  <2>6. CASE ~keep
    <3>1. Back(g, s, lv, i)
      BY <2>6 DEF Partly
    <3>2. View(k)[l.vp] = Shows(s.heap, l)
      BY <1>4, <2>1, <2>6
    <3>3. ASSUME NEW j \in 1 .. i + 1, lv[j].vp \in Names
          PROVE  View(k)[lv[j].vp] = Shows(s.heap, lv[j])
      <4>1. CASE j = i + 1
        BY <3>2, <4>1
      <4>2. CASE j # i + 1
        <5>1. j \in 1 .. i /\ lv[j].vp # l.vp
          BY <1>1, <1>3, <3>3, <4>2
        <5> QED BY <2>3, <3>1, <3>3, <5>1 DEF Back
      <4> QED BY <4>1, <4>2
    <3>4. ASSUME NEW m \in Names, \A j \in 1 .. i + 1 : lv[j].vp # m
          PROVE  View(k)[m] = View(s)[m]
      <4>1. m # l.vp /\ \A j \in 1 .. i : lv[j].vp # m
        BY <1>1, <3>4
      <4> QED BY <2>3, <3>1, <4>1 DEF Back
    <3>5. ASSUME NEW j \in 1 .. i + 1, lv[j].vp = "-", \A n \in j + 1 .. i + 1 : lv[n].vp # "-"
          PROVE  k.opts = lv[j].opts
      <4>1. j \in 1 .. i
        BY <1>1, <1>6, <3>5
      <4>2. \A n \in j + 1 .. i : lv[n].vp # "-"
        BY <1>1, <3>5, <4>1
      <4> QED BY <2>1, <3>1, <3>5, <4>1, <4>2 DEF Back
    <3>6. (\A j \in 1 .. i + 1 : lv[j].vp # "-") => k.opts = s.opts
      BY <1>1, <2>1, <3>1 DEF Back
    <3>7. Back(k, s, lv, i + 1)
      BY ONLY <3>3, <3>4, <3>5, <3>6 DEF Back
    <3> QED BY <2>2, <2>6, <3>7 DEF Partly
  <2> QED BY <2>5, <2>6
<1> QED BY <1>5, <1>6

\* poplocalvars.
Gone(r, nm) ==
  /\ StackOK(r.stack, nm)
  /\ \/ r.err = "none" /\ Whole(r, nm)
     \/ r.err = "crash" /\ \E E : Works(r, E, nm, {})
Leaving(r, s, keep) ==
  /\ r.stack = SubSeq(s.stack, 1, Len(s.stack) - 1)
  /\ r.err = "none" =>
       Partly(r, s, Last(s.stack).lv, Len(Last(s.stack).lv), keep, Entries(r.stack))
LEMMA PopIs ==
  ASSUME Bad = {}, NEW s, NEW nm, Whole(s, nm), s.err = "none", s.stack # <<>>, NEW keep,
         NEW r, r = poplocalvars(s, keep)
  PROVE  Gone(r, nm) /\ Leaving(r, s, keep)
<1>1. PICK st, D : st = s.stack /\ D = Len(st)
  OBVIOUS
<1>2. PICK lv : lv = Last(st).lv
  OBVIOUS
<1>3. PICK q : q = SubSeq(st, 1, D - 1)
  OBVIOUS
<1>4. StackOK(st, nm) /\ Works(s, Entries(st), nm, {}) /\ st # <<>>
  BY <1>1 DEF Whole
<1>5. /\ D \in 1 .. MaxDepth /\ lv \in Seq(Saved) /\ ListOK(lv, nm) /\ StackOK(q, nm)
      /\ Left(q, D, lv, 0) = Entries(st) /\ Left(q, D, lv, Len(lv)) = Entries(q)
      /\ \A i \in 0 .. Len(lv) - 1 : Left(q, D, lv, i) = Left(q, D, lv, i + 1) \cup {<<D, lv[i + 1]>>}
      /\ \A e \in Entries(q) : e[1] \in 1 .. D - 1
  <2>1. Leaves(st, nm, D, lv, q)
    BY ONLY <1>1, <1>2, <1>3, <1>4, LeftIs
  <2> QED BY <2>1 DEF Leaves
<1>6. PICK f : Follows(f, s, lv, keep, Len(lv)) /\ poplocalvars(s, keep) = f[Len(lv)]
  <2>1. lv = Last(s.stack).lv /\ lv \in Seq(Saved)
    BY <1>1, <1>2, <1>5
  <2> QED BY ONLY <2>1, PopSteps
<1>7. PICK N : N = Len(lv)
  OBVIOUS
<1>8. N \in Nat /\ DOMAIN lv = 1 .. N
  BY <1>5, <1>7
<1> DEFINE I(g, i) == /\ g.stack = q
                      /\ \/ g.err = "none" /\ Works(g, Left(q, D, lv, i), nm, {})
                            /\ Partly(g, s, lv, i, keep, Left(q, D, lv, i))
                         \/ g.err = "crash" /\ \E E : Works(g, E, nm, {})
           T == {i \in 0 .. N : I(f[i], i)}
<1>9. 0 \in T
  <2>1. f[0] = Unlinked(s)
    BY <1>6 DEF Follows
  <2>2. Unlinked(s) = Made(s.tab, s.heap, q, s.opts, s.told, s.err)
    <3>1. q = SubSeq(s.stack, 1, Len(s.stack) - 1)
      BY <1>1, <1>3
    <3>2. [s EXCEPT !.stack = q] = Made(s.tab, s.heap, q, s.opts, s.told, s.err)
      BY <1>4 DEF Works, IsState, Made
    <3> QED BY <3>1, <3>2 DEF Unlinked
  <2>3. /\ IsState(f[0]) /\ f[0].tab = s.tab /\ f[0].heap = s.heap /\ f[0].stack = q /\ f[0].opts = s.opts
        /\ f[0].told = s.told /\ f[0].err = "none"
    BY <2>1, <2>2, MadeIs
  <2>4. Works(f[0], Left(q, D, lv, 0), nm, {})
    BY <1>4, <1>5, <2>3 DEF Works
  <2>5. Partly(f[0], s, lv, 0, keep, Left(q, D, lv, 0))
    <3>1. View(f[0]) = View(s)
      BY <2>3 DEF View
    <3>2. \A j \in 1 .. 0 : FALSE
      OBVIOUS
    <3>3. Back(f[0], s, lv, 0)
      BY <2>3, <3>1, <3>2 DEF Back
    <3> QED BY <2>3, <3>1, <3>3 DEF Partly, SameShows, Kept
  <2> QED BY <1>8, <2>3, <2>4, <2>5
<1>10. ASSUME NEW i \in 0 .. N - 1, i \in T PROVE i + 1 \in T
  <2>1. I(f[i], i) /\ i + 1 \in 0 .. N /\ i + 1 \in 1 .. N
    BY <1>8, <1>10
  <2> HIDE DEF T
  <2>2. PICK g, k : g = f[i] /\ k = f[i + 1]
    OBVIOUS
  <2>3. PICK l : l = lv[i + 1]
    OBVIOUS
  <2>4. PICK E : E = Left(q, D, lv, i + 1)
    OBVIOUS
  <2>5. k = PopEntry(g, l, keep)
    <3>1. i + 1 - 1 = i /\ i + 1 \in 1 .. Len(lv)
      BY <1>7, <1>8, <2>1
    <3> QED BY <1>6, <2>2, <2>3, <3>1 DEF Follows
  <2>6. I(k, i + 1)
    <3>1. CASE g.err = "crash"
      <4>1. k = g
        BY <2>5, <3>1 DEF PopEntry
      <4>2. g.stack = q /\ \E F : Works(g, F, nm, {})
        BY <2>1, <2>2
      <4> QED BY <3>1, <4>1, <4>2
    <3>2. CASE g.err # "crash"
      <4>1. /\ g.err = "none" /\ g.stack = q /\ Works(g, Left(q, D, lv, i), nm, {})
            /\ Partly(g, s, lv, i, keep, Left(q, D, lv, i))
        BY <2>1, <2>2, <3>2
      <4>2. Left(q, D, lv, i) = E \cup {<<D, l>>}
        BY <1>5, <1>7, <2>3, <2>4
      <4>3. EntryOK(l, nm) /\ i + 1 \in DOMAIN lv
        BY <1>5, <1>8, <2>1, <2>3 DEF ListOK
      <4>4. l.vp \in Names => Popping(g.tab, E, D, l, nm)
        <5> SUFFICES ASSUME l.vp \in Names PROVE Popping(g.tab, E, D, l, nm)
          OBVIOUS
        <5>1. D \in 1 .. D /\ \A e \in Entries(q) : e[1] \in 1 .. D /\ e[1] # D
          <6>1. D \in Nat /\ D \in 1 .. D /\ \A d \in 1 .. D - 1 : d \in 1 .. D /\ d # D
            BY <1>5
          <6> QED BY <1>5, <6>1
        <5>2. \A e \in E : e[1] \in 1 .. D
          BY <2>4, <5>1 DEF Left
        <5>3. ASSUME Old(D, l) \in Holders(g.tab, E) PROVE FALSE
          <6>1. Old(D, l).level = D /\ Old(D, l).name = l.vp
            BY DEF Old
          <6>2. D # Top
            BY <1>5, TopIs
          <6>3. \A m \in DOMAIN g.tab : Old(D, l) # Cur(g.tab, m)
            BY <6>1, <6>2 DEF Cur
          <6>4. PICK e \in E : Old(D, l) = Old(e[1], e[2])
            BY <5>3, <6>3 DEF Holders
          <6>5. e[1] = D /\ e[2].vp = l.vp
            BY <6>1, <6>4 DEF Old
          <6>6. PICK j \in i + 1 + 1 .. Len(lv) : e = <<D, lv[j]>>
            BY <2>4, <5>1, <6>5 DEF Left
          <6>7. j \in DOMAIN lv /\ j # i + 1
            BY <1>7, <1>8, <2>1
          <6>8. lv[j].vp = lv[i + 1].vp /\ lv[j].vp \in Names
            BY <2>3, <6>5, <6>6
          <6> QED BY <1>5, <4>3, <6>7, <6>8 DEF ListOK
        <5>4. l \in Saved
          BY <4>3 DEF EntryOK
        <5> QED BY <1>5, <5>2, <5>3, <5>4 DEF Popping
      <4>5. Works(g, E \cup {<<D, l>>}, nm, {})
        BY <4>1, <4>2
      <4>6. After(k, g, E, D, l, nm, keep)
        BY ONLY Bad = {}, <2>5, <4>1, <4>3, <4>4, <4>5, PopEntryIs
      <4>7. ASSUME k.err = "none", Popped(k, g, E, l, keep) PROVE Partly(k, s, lv, i + 1, keep, E)
        <5>1. Partly(g, s, lv, i, keep, E \cup {<<D, l>>}) /\ i \in 0 .. Len(lv) - 1 /\ nm \subseteq Names
          BY <1>7, <4>1, <4>2 DEF Works, Sane, TabOK
        <5> QED BY ONLY <1>5, <2>3, <4>7, <5>1, PartlyNext
      <4>8. CASE k.err = "none" /\ Works(k, E, nm, {}) /\ Popped(k, g, E, l, keep)
        <5>1. Partly(k, s, lv, i + 1, keep, E)
          BY <4>7, <4>8
        <5> QED BY <2>4, <4>1, <4>6, <4>8, <5>1 DEF After
      <4>9. CASE k.err = "crash" /\ Works(k, E \cup {<<D, l>>}, nm, {})
        BY <4>1, <4>6, <4>9 DEF After
      <4> QED BY <4>6, <4>8, <4>9 DEF After
    <3> QED BY <3>1, <3>2
  <2>7. I(f[i + 1], i + 1)
    BY <2>2, <2>6
  <2> QED BY <2>1, <2>7 DEF T
<1> HIDE DEF T
<1>11. \A i \in 0 .. N : i \in T
  BY <1>8, <1>9, <1>10, Induction
<1>12. I(f[N], N)
  BY <1>8, <1>11 DEF T
<1>13. r.stack = q /\ r = f[N]
  BY <1>6, <1>7, <1>12
<1>14. Leaving(r, s, keep)
  <2>1. r.err = "none" => Partly(r, s, lv, N, keep, Left(q, D, lv, N))
    BY <1>12, <1>13
  <2>2. Left(q, D, lv, N) = Entries(r.stack)
    BY <1>5, <1>7, <1>13
  <2>3. lv = Last(s.stack).lv /\ r.stack = SubSeq(s.stack, 1, Len(s.stack) - 1)
    BY <1>1, <1>2, <1>3, <1>13
  <2> QED BY ONLY <1>7, <2>1, <2>2, <2>3 DEF Leaving
<1> QED BY <1>5, <1>7, <1>12, <1>13, <1>14 DEF Gone, Whole

(***************************************************************************)
(* The commands.                                                           *)
(***************************************************************************)

LEMMA StateIs ==
  ASSUME VarInv, pc # "crash"
  PROVE  /\ Whole(State, names) /\ State.err = "none" /\ State.stack = localvar_stack
         /\ State.tab = vartab /\ State.heap = heap /\ State.told = told /\ State.opts = aflag
         /\ names \subseteq Names
<1>1. State = Made(vartab, heap, localvar_stack, aflag, told, "none")
  BY DEF State, Made
<1>2. /\ IsState(State) /\ State.tab = vartab /\ State.heap = heap /\ State.stack = localvar_stack
      /\ State.opts = aflag /\ State.told = told /\ State.err = "none"
  BY <1>1, MadeIs
<1>3. StackOK(localvar_stack, names) /\ Sane(vartab, heap, told, Entries(localvar_stack), names, {})
  BY DEF VarInv
<1>4. Room(Entries(localvar_stack), names)
  <2>1. \A e \in Entries(localvar_stack) : e[1] \in 1 .. MaxDepth
    <3>1. Len(localvar_stack) \in 0 .. MaxDepth /\ \A e \in Entries(localvar_stack) : e[1] \in 1 .. Len(localvar_stack)
      BY <1>3, StackIs
    <3> QED BY <3>1, TopIs
  <2> QED BY <2>1 DEF Room, Levels, VarInv
<1>5. aflag \in BOOLEAN /\ names \subseteq Names
  BY DEF VarInv, TypeOK
<1> QED BY <1>2, <1>3, <1>4, <1>5 DEF Whole, Works

\* What a function of var.c gives is a state of the shell again.
Sound(s, nm) == Gone(s, nm) \/ (Whole(s, nm) /\ s.err \in {"none", "error"})
LEMMA RunIs ==
  ASSUME VarInv, pc # "crash", NEW s, Run(s), Sound(s, names)
  PROVE  VarInv'
<1>1. /\ vartab' = s.tab /\ heap' = s.heap /\ localvar_stack' = s.stack
      /\ aflag' = s.opts /\ told' = s.told /\ names' = names /\ inherited' = inherited
      /\ pc' = IF s.err = "crash" THEN "crash" ELSE pc
  BY DEF Run, Become
<1>2. StackOK(s.stack, names) /\ \E E : Works(s, E, names, {})
  BY DEF Sound, Gone, Whole
<1>3. PICK E : Works(s, E, names, {})
  BY <1>2
<1>4. /\ TabOK(s.tab, names) /\ ToldOK(s.tab, s.heap, s.told)
      /\ s.heap \in [Cells -> Texts \cup {"free"}] /\ s.opts \in BOOLEAN
  BY <1>3 DEF Works, Sane, Valid
<1>5. TypeOK'
  <2>1. names \subseteq Names /\ inherited \in BOOLEAN /\ pc \in {"run", "unwind", "child", "crash"}
    BY DEF VarInv, TypeOK
  <2>2. DOMAIN s.tab \subseteq Names /\ \A n \in DOMAIN s.tab : s.tab[n] \in Var
    BY <1>4, <2>1 DEF TabOK, Names
  <2>3. s.stack \in Seq([kind : Kinds, lv : Seq(Saved)])
    BY <1>2 DEF StackOK
  <2>4. s.told \in [Special -> Texts]
    BY <1>4 DEF ToldOK
  <2> QED BY <1>1, <1>4, <2>1, <2>2, <2>3, <2>4 DEF TypeOK
<1>6. s.err # "crash" => Sane(s.tab, s.heap, s.told, Entries(s.stack), names, {})
  BY DEF Sound, Gone, Whole, Works
<1>7. IsFiniteSet(names') /\ Cardinality(names') = MaxNames
  BY <1>1 DEF VarInv
<1>8. pc' # "crash" => s.err # "crash"
  BY <1>1
<1>9. pc' # "crash" => StackOK(localvar_stack', names') /\ Sane(vartab', heap', told', Entries(localvar_stack'), names', {})
  BY <1>1, <1>2, <1>6, <1>8
<1> QED BY <1>5, <1>7, <1>9 DEF VarInv

\* A command begins, or is a function or another builtin.
LEMMA ScopePushed ==
  ASSUME NEW st, NEW nm, StackOK(st, nm), Len(st) < MaxDepth,
         NEW q, q = Append(st, [kind |-> "command", lv |-> <<>>])
  PROVE  StackOK(q, nm) /\ Entries(q) = Entries(st)
<1>1. PICK S : S = [kind : Kinds, lv : Seq(Saved)]
  OBVIOUS
<1>2. PICK x : x = [kind |-> "command", lv |-> <<>>]
  OBVIOUS
<1>3. x \in S /\ x.lv = <<>>
  BY <1>1, <1>2 DEF Kinds
<1>4. st \in Seq(S)
  BY <1>1 DEF StackOK
<1>5. q \in Seq(S) /\ Len(q) = Len(st) + 1 /\ q[Len(st) + 1] = x /\ (\A k \in 1 .. Len(st) : q[k] = st[k])
  BY <1>2, <1>3, <1>4, AppendProperties
<1>6. DOMAIN st = 1 .. Len(st) /\ DOMAIN q = 1 .. Len(st) + 1 /\ Len(st) \in Nat
  BY <1>4, <1>5
<1>7. x.lv \in Seq(Saved) /\ DOMAIN x.lv = {}
  BY <1>3
<1>8. \A k \in DOMAIN q : (k \in DOMAIN st /\ q[k] = st[k]) \/ (k \notin DOMAIN st /\ q[k] = x)
  BY <1>5, <1>6
<1>9. \A k \in DOMAIN q : ListOK(q[k].lv, nm)
  <2>1. ListOK(x.lv, nm)
    BY <1>7 DEF ListOK
  <2> QED BY <1>8, <2>1 DEF StackOK
<1>10. StackOK(q, nm)
  <2>1. Len(q) <= MaxDepth
    BY <1>5, <1>6, TopIs
  <2> QED BY <1>1, <1>5, <1>9, <2>1 DEF StackOK
<1>11. ASSUME NEW e \in Entries(q) PROVE e \in Entries(st)
  <2>1. PICK k \in DOMAIN q : \E i \in DOMAIN q[k].lv : e = <<k, q[k].lv[i]>>
    BY DEF Entries
  <2>2. PICK i \in DOMAIN q[k].lv : e = <<k, q[k].lv[i]>>
    BY <2>1
  <2>3. k \in DOMAIN st /\ q[k] = st[k]
    BY <1>7, <1>8, <2>2
  <2> QED BY <2>2, <2>3, EntryIn
<1>12. ASSUME NEW e \in Entries(st) PROVE e \in Entries(q)
  <2>1. PICK k \in DOMAIN st : \E i \in DOMAIN st[k].lv : e = <<k, st[k].lv[i]>>
    BY DEF Entries
  <2>2. PICK i \in DOMAIN st[k].lv : e = <<k, st[k].lv[i]>>
    BY <2>1
  <2>3. k \in DOMAIN q /\ q[k] = st[k]
    BY <1>5, <1>6
  <2> QED BY <2>2, <2>3, EntryIn
<1> QED BY <1>10, <1>11, <1>12

KindSet(st, d, kd) == [st EXCEPT ![d].kind = kd]
LEMMA KindChanged ==
  ASSUME NEW st, NEW nm, StackOK(st, nm), NEW d \in 1 .. Len(st), NEW kd \in Kinds, NEW q, q = KindSet(st, d, kd)
  PROVE  StackOK(q, nm) /\ Entries(q) = Entries(st)
<1>1. PICK S : S = [kind : Kinds, lv : Seq(Saved)]
  OBVIOUS
<1>2. st \in Seq(S)
  BY <1>1 DEF StackOK
<1>3. DOMAIN st = 1 .. Len(st) /\ Len(st) \in Nat /\ \A k \in DOMAIN st : st[k] \in S
  BY <1>2
<1>4. \A x \in S : [x EXCEPT !.kind = kd] \in S /\ [x EXCEPT !.kind = kd].lv = x.lv
  BY <1>1
<1>5. PICK y : y = [st[d] EXCEPT !.kind = kd]
  OBVIOUS
<1>6. q = [st EXCEPT ![d] = y]
  BY <1>5 DEF KindSet
<1>7. DOMAIN q = DOMAIN st /\ \A k \in DOMAIN st : q[k] \in S /\ q[k].lv = st[k].lv
  BY <1>3, <1>4, <1>5, <1>6
<1>8. q \in Seq(S) /\ Len(q) = Len(st)
  <2>1. y \in S
    BY <1>3, <1>4, <1>5
  <2> QED BY ONLY <1>2, <1>6, <2>1, d \in 1 .. Len(st), ExceptSeq
<1>9. StackOK(q, nm)
  BY <1>1, <1>7, <1>8 DEF StackOK
<1>10. ASSUME NEW e \in Entries(q) PROVE e \in Entries(st)
  <2>1. PICK k \in DOMAIN q : \E i \in DOMAIN q[k].lv : e = <<k, q[k].lv[i]>>
    BY DEF Entries
  <2> QED BY <1>7, <2>1, EntryIn
<1>11. ASSUME NEW e \in Entries(st) PROVE e \in Entries(q)
  <2>1. PICK k \in DOMAIN st : \E i \in DOMAIN st[k].lv : e = <<k, st[k].lv[i]>>
    BY DEF Entries
  <2>2. PICK i \in DOMAIN st[k].lv : e = <<k, st[k].lv[i]>>
    BY <2>1
  <2>3. k \in DOMAIN q /\ i \in DOMAIN q[k].lv /\ e = <<k, q[k].lv[i]>>
    BY <1>7, <2>2
  <2> QED BY <2>3, EntryIn
<1> QED BY <1>9, <1>10, <1>11

\* The stack changes, but not what it says of the variables.
LEMMA StackChanges ==
  ASSUME VarInv, pc # "crash", pc' # "crash", TypeOK', UNCHANGED <<names, vartab, heap, told>>,
         StackOK(localvar_stack', names), Entries(localvar_stack') = Entries(localvar_stack)
  PROVE  VarInv'
BY DEF VarInv

(***************************************************************************)
(* The invariant, and the theorems.                                        *)
(***************************************************************************)

\* The variables of varinit share a text that is never freed.
LEMMA Starts ==
  ASSUME Init
  PROVE  VarInv
<1>1. names \subseteq Names /\ Cardinality(names) = MaxNames
  BY DEF Init
<1>2. IsFiniteSet(names)
  BY <1>1, VarAssumption, FS_Subset DEF Names
<1>3. /\ DOMAIN vartab = Special
      /\ \A n \in Special : /\ vartab[n].flags = {"strfixed", "textfixed"} /\ vartab[n].text = "static"
                            /\ vartab[n].local = 0 /\ vartab[n] \in Var
  BY TopIs DEF Init, Var, Flags, Cells
<1>4. heap \in [Cells -> Texts \cup {"free"}] /\ heap["static"] = "" /\ \A c \in Heap : heap[c] = "free"
  BY VarAssumption DEF Init, Cells, Texts
<1>5. told \in [Special -> Texts] /\ \A n \in Special : told[n] = ""
  BY DEF Init, Texts
<1>6. localvar_stack = <<>> /\ aflag = FALSE /\ inherited = FALSE /\ pc = "run"
  BY DEF Init
<1>7. TypeOK
  <2>1. DOMAIN vartab \subseteq Names /\ \A n \in DOMAIN vartab : vartab[n] \in Var
    BY <1>3 DEF Names
  <2>2. localvar_stack \in Seq([kind : Kinds, lv : Seq(Saved)])
    BY <1>6
  <2> QED BY <1>1, <1>4, <1>5, <1>6, <2>1, <2>2 DEF TypeOK
<1>8. Entries(localvar_stack) = {}
  BY <1>6 DEF Entries
<1>9. StackOK(localvar_stack, names)
  BY <1>6, TopIs DEF StackOK
<1>10. TabOK(vartab, names)
  BY <1>1, <1>3 DEF TabOK
<1>11. ToldOK(vartab, heap, told)
  BY <1>3, <1>4, <1>5 DEF ToldOK, ValueIn
<1>12. PICK H : H = Holders(vartab, {})
  OBVIOUS
<1>13. \A x \in H : /\ x \in Holder /\ x.level = Top /\ x.flags = {"strfixed", "textfixed"} /\ x.text = "static"
                    /\ x.local = 0 /\ x = Cur(vartab, x.name) /\ x.name \in Special
  <2> SUFFICES ASSUME NEW n \in Special, NEW x, x = Cur(vartab, n)
               PROVE  /\ x \in Holder /\ x.level = Top /\ x.flags = {"strfixed", "textfixed"} /\ x.text = "static"
                      /\ x.local = 0 /\ x = Cur(vartab, x.name) /\ x.name \in Special
    BY <1>3, <1>12 DEF Holders
  <2>1. x.name = n /\ x.level = Top /\ x.flags = {"strfixed", "textfixed"} /\ x.text = "static" /\ x.local = 0
    BY <1>3 DEF Cur
  <2>2. x \in Holder
    <3>1. n \in Names /\ Top \in 1 .. Top /\ 0 \in 0 .. MaxDepth
      BY TopIs DEF Names
    <3>2. {"strfixed", "textfixed"} \in SUBSET Flags /\ "static" \in Cells
      BY DEF Flags, Cells
    <3> QED BY <1>3, <3>1, <3>2 DEF Holder, Cur
  <2> QED BY <2>1, <2>2
<1>14. Chain(H)
  BY <1>13, TopIs DEF Chain
<1>15. Flagged(H, {})
  BY <1>13 DEF Flagged, Fresh, Marked
<1>16. Owned(H, heap)
  <2>1. \A x \in H : ~Owns(x)
    BY <1>13 DEF Owns
  <2>2. ASSUME NEW x \in H PROVE Lives(H, heap, x)
    <3>1. /\ x.text = "static" /\ x.local = 0 /\ x.flags = {"strfixed", "textfixed"}
      BY <1>13
    <3>2. \A y \in H : y.level # x.local
      BY <1>13, <3>1, TopIs
    <3>3. heap["static"] # "free"
      BY <1>4
    <3> QED BY <3>1, <3>2, <3>3 DEF Lives
  <2> QED BY <1>4, <2>1, <2>2 DEF Owned
<1>17. Valid(H, heap, names, {})
  BY <1>4, <1>13, <1>14, <1>15, <1>16 DEF Valid
<1>18. Sane(vartab, heap, told, Entries(localvar_stack), names, {})
  BY <1>8, <1>10, <1>11, <1>12, <1>17 DEF Sane
<1> QED BY <1>1, <1>2, <1>7, <1>9, <1>18 DEF VarInv

\* A variable is set, in any command.
LEMMA SetGood ==
  ASSUME VarInv, pc # "crash", Bad = {}, NEW n \in names, NEW value \in Texts, NEW f \in SUBSET Flags,
         "textfixed" \notin f, EmptyIfUnset(f, value), NEW r, r = setvar(State, n, value, f)
  PROVE  Sound(r, names) /\ Changed(r, State, n)
<1>1. Whole(State, names) /\ State.err = "none"
  BY StateIs
<1>2. Works(State, Entries(State.stack), names, {}) /\ n \notin Bad
  BY <1>1 DEF Whole
<1>3. Assigned(r, State, Entries(State.stack), names, n, f)
  BY ONLY <1>2, n \in names, value \in Texts, f \in SUBSET Flags, "textfixed" \notin f, EmptyIfUnset(f, value),
     r = setvar(State, n, value, f), SetvarIs
<1>4. r.stack = State.stack /\ Changed(r, State, n)
  BY <1>3 DEF Assigned, Calls, Changed
<1> QED BY <1>1, <1>3, <1>4 DEF Sound, Assigned, Calls, Whole

LEMMA PopGood ==
  ASSUME VarInv, pc # "crash", Bad = {}, Depth > 0, NEW keep, NEW r, r = poplocalvars(State, keep)
  PROVE  Sound(r, names) /\ Gone(r, names) /\ Leaving(r, State, keep) /\ State.stack # <<>>
<1>1. Whole(State, names) /\ State.err = "none" /\ State.stack = localvar_stack
  BY StateIs
<1>2. State.stack # <<>>
  BY <1>1 DEF Depth
<1>3. Gone(r, names) /\ Leaving(r, State, keep)
  BY ONLY <1>1, <1>2, Bad = {}, r = poplocalvars(State, keep), PopIs
<1> QED BY <1>2, <1>3 DEF Sound

LEMMA LocalGood ==
  ASSUME VarInv, pc # "crash", Bad = {}, NEW n \in names, NEW values, Assigns(values),
         NEW r, r = mklocal(State, n, values)
  PROVE  Sound(r, names) /\ Whole(r, names) /\ Local(r, State, n)
<1>1. Whole(State, names) /\ State.err = "none"
  BY StateIs
<1>2. n \notin Bad
  OBVIOUS
<1>3. Whole(r, names) /\ r.err \in {"none", "error"} /\ Local(r, State, n)
  BY ONLY <1>1, <1>2, n \in names, Assigns(values), r = mklocal(State, n, values), MklocalIs
<1> QED BY <1>3 DEF Sound

LEMMA OneValue ==
  ASSUME NEW v \in Values
  PROVE  Assigns({v}) /\ v \in Texts
<1>1. The({v}) = v
  BY DEF The
<1> QED BY <1>1 DEF Assigns, Texts

LEMMA Steps ==
  ASSUME Bad = {}, VarInv, [Next]_vars
  PROVE  VarInv'
<1>1. CASE pushlocalvars
  <2>1. pc # "crash" /\ pc' = pc /\ UNCHANGED <<names, vartab, heap, inherited, aflag, told>> /\ Depth < MaxDepth
        /\ localvar_stack' = Append(localvar_stack, [kind |-> "command", lv |-> <<>>])
    BY <1>1 DEF pushlocalvars
  <2>2. StackOK(localvar_stack, names)
    BY <2>1 DEF VarInv
  <2>3. StackOK(localvar_stack', names) /\ Entries(localvar_stack') = Entries(localvar_stack)
    <3>1. PICK st, q : st = localvar_stack /\ q = localvar_stack'
      OBVIOUS
    <3>2. Len(st) < MaxDepth /\ q = Append(st, [kind |-> "command", lv |-> <<>>]) /\ StackOK(st, names)
      BY <2>1, <2>2, <3>1 DEF Depth
    <3>3. StackOK(q, names) /\ Entries(q) = Entries(st)
      BY ONLY <3>2, ScopePushed
    <3> QED BY <3>1, <3>3
  <2>4. TypeOK'
    BY <2>1, <2>3 DEF VarInv, TypeOK, StackOK
  <2> QED BY <2>1, <2>3, <2>4, StackChanges
<1>2. CASE Assignment
  <2>1. PICK n \in Good, v \in Values : Run(mklocal(State, n, {v}))
    BY <1>2 DEF Assignment
  <2>2. pc # "crash" /\ n \in names
    BY <1>2 DEF Assignment, Good
  <2>3. Sound(mklocal(State, n, {v}), names)
    BY <2>2, OneValue, LocalGood
  <2> QED BY <2>1, <2>2, <2>3, RunIs
<1>3. CASE SpecialBuiltin \/ EndCommand
  <2>1. PICK keep : Run(poplocalvars(State, keep))
    BY <1>3 DEF SpecialBuiltin, EndCommand
  <2>2. pc # "crash" /\ Depth > 0
    BY <1>3 DEF SpecialBuiltin, EndCommand
  <2>3. Sound(poplocalvars(State, keep), names)
    BY <2>2, PopGood
  <2> QED BY <2>1, <2>2, <2>3, RunIs
<1>4. CASE Body
  <2>1. pc # "crash" /\ pc' = pc /\ UNCHANGED <<names, vartab, heap, inherited, aflag, told>> /\ Depth > 0
    BY <1>4 DEF Body
  <2>2. PICK kd \in {"function", "builtin"} : localvar_stack' = [localvar_stack EXCEPT ![Depth].kind = kd]
    BY <1>4 DEF Body
  <2>3. StackOK(localvar_stack, names)
    BY <2>1 DEF VarInv
  <2>4. Depth \in 1 .. Len(localvar_stack) /\ kd \in Kinds
    BY <2>1, <2>3, StackIs DEF Depth, Kinds
  <2>5. StackOK(localvar_stack', names) /\ Entries(localvar_stack') = Entries(localvar_stack)
    <3>1. PICK st, q, d : st = localvar_stack /\ q = localvar_stack' /\ d = Depth
      OBVIOUS
    <3>2. q = KindSet(st, d, kd) /\ StackOK(st, names) /\ d \in 1 .. Len(st) /\ kd \in Kinds
      BY <2>2, <2>3, <2>4, <3>1 DEF KindSet
    <3>3. StackOK(q, names) /\ Entries(q) = Entries(st)
      BY ONLY <3>2, KindChanged
    <3> QED BY <3>1, <3>3
  <2>6. TypeOK'
    BY <2>1, <2>5 DEF VarInv, TypeOK, StackOK
  <2> QED BY <2>1, <2>5, <2>6, StackChanges
<1>5. CASE Raise \/ Subshell
  <2>1. /\ pc # "crash" /\ pc' \in {"unwind", "child"} /\ UNCHANGED <<names, vartab, heap, localvar_stack, aflag, told>>
        /\ inherited' \in BOOLEAN
    BY <1>5 DEF Raise, Subshell, Idle, InFunction, VarInv, TypeOK
  <2>2. StackOK(localvar_stack', names) /\ Entries(localvar_stack') = Entries(localvar_stack)
    BY <2>1 DEF VarInv
  <2>3. TypeOK'
    BY <2>1 DEF VarInv, TypeOK
  <2>4. pc' # "crash"
    BY <2>1
  <2> QED BY <2>1, <2>2, <2>3, <2>4, StackChanges
<1>6. CASE Unwind \/ Drop
  <2>1. pc # "crash"
    BY <1>6 DEF Unwind, Drop
  <2>2. CASE Depth > 0
    <3>1. PICK keep : Run(poplocalvars(State, keep))
      BY <1>6, <2>2 DEF Unwind, Drop
    <3>2. Sound(poplocalvars(State, keep), names)
      BY <2>1, <2>2, PopGood
    <3> QED BY <2>1, <3>1, <3>2, RunIs
  <2>3. CASE ~(Depth > 0)
    <3>1. pc' = "run" /\ UNCHANGED <<names, vartab, heap, localvar_stack, inherited, aflag, told>>
      BY <1>6, <2>3 DEF Unwind, Drop
    <3>2. StackOK(localvar_stack', names) /\ Entries(localvar_stack') = Entries(localvar_stack)
      BY <2>1, <3>1 DEF VarInv
    <3>3. TypeOK'
      BY <3>1 DEF VarInv, TypeOK
    <3> QED BY <2>1, <3>1, <3>2, <3>3, StackChanges
  <2> QED BY <2>2, <2>3
<1>7. CASE exportcmd
  <2>1. PICK n \in Good, flag \in {"export", "readonly"} :
          \/ \E v \in Values : Run(setvar(State, n, v, {flag}))
          \/ Run(IF n \in DOMAIN vartab THEN [State EXCEPT !.tab[n].flags = State.tab[n].flags \cup {flag}]
                 ELSE setvar(State, n, "", {flag, "unset"}))
    BY <1>7 DEF exportcmd
  <2>2. pc # "crash" /\ n \in names
    BY <1>7 DEF exportcmd, Idle, Good
  <2>3. CASE \E v \in Values : Run(setvar(State, n, v, {flag}))
    <3>1. PICK v \in Values : Run(setvar(State, n, v, {flag}))
      BY <2>3
    <3>2. {flag} \in SUBSET Flags /\ "textfixed" \notin {flag} /\ EmptyIfUnset({flag}, v)
      BY DEF Flags, EmptyIfUnset
    <3>3. Sound(setvar(State, n, v, {flag}), names)
      BY <2>2, <3>2, OneValue, SetGood
    <3> QED BY <2>2, <3>1, <3>3, RunIs
  <2>4. CASE n \in DOMAIN vartab /\ Run([State EXCEPT !.tab[n].flags = State.tab[n].flags \cup {flag}])
    <3>1. PICK r : r = [State EXCEPT !.tab[n].flags = State.tab[n].flags \cup {flag}]
      OBVIOUS
    <3>2. Whole(State, names) /\ State.err = "none" /\ n \in DOMAIN State.tab
      BY <2>2, <2>4, StateIs
    <3>3. Whole(r, names) /\ r.err = State.err
      BY ONLY <3>1, <3>2, flag \in {"export", "readonly"}, MarkIs
    <3>4. Sound(r, names)
      BY <3>2, <3>3 DEF Sound
    <3> QED BY <2>2, <2>4, <3>1, <3>4, RunIs
  <2>5. CASE n \notin DOMAIN vartab /\ Run(setvar(State, n, "", {flag, "unset"}))
    <3>1. /\ {flag, "unset"} \in SUBSET Flags /\ "textfixed" \notin {flag, "unset"} /\ "" \in Texts
          /\ EmptyIfUnset({flag, "unset"}, "")
      BY DEF Flags, EmptyIfUnset, Texts
    <3>2. Sound(setvar(State, n, "", {flag, "unset"}), names)
      BY <2>2, <3>1, SetGood
    <3> QED BY <2>2, <2>5, <3>2, RunIs
  <2> QED BY <2>1, <2>3, <2>4, <2>5
<1>8. CASE unsetcmd
  <2>1. PICK n \in Good : Run(setvar(State, n, "", {"unset"}))
    BY <1>8 DEF unsetcmd, unsetvar
  <2>2. pc # "crash" /\ n \in names
    BY <1>8 DEF unsetcmd, Idle, Good
  <2>3. {"unset"} \in SUBSET Flags /\ "textfixed" \notin {"unset"} /\ "" \in Texts /\ EmptyIfUnset({"unset"}, "")
    BY DEF Flags, EmptyIfUnset, Texts
  <2>4. Sound(setvar(State, n, "", {"unset"}), names)
    BY <2>2, <2>3, SetGood
  <2> QED BY <2>1, <2>2, <2>4, RunIs
<1>9. CASE Sets
  <2>1. PICK n \in Good, v \in Values : Run(setvar(State, n, v, {}))
    BY <1>9 DEF Sets
  <2>2. pc # "crash" /\ n \in names
    BY <1>9 DEF Sets, Idle, Good
  <2>3. {} \in SUBSET Flags /\ "textfixed" \notin {} /\ EmptyIfUnset({}, v)
    BY DEF EmptyIfUnset
  <2>4. Sound(setvar(State, n, v, {}), names)
    BY <2>2, <2>3, OneValue, SetGood
  <2> QED BY <2>1, <2>2, <2>4, RunIs
<1>10. CASE localcmd
  <2>1. pc # "crash"
    BY <1>10 DEF localcmd, Idle
  <2>2. CASE \E n \in names, values \in {{}} \cup {{v} : v \in Values} : Space(n) /\ Run(mklocal(State, n, values))
    <3>1. PICK n \in names, values \in {{}} \cup {{v} : v \in Values} : Run(mklocal(State, n, values))
      BY <2>2
    <3>2. Assigns(values)
      <4>1. CASE values = {}
        BY <4>1 DEF Assigns
      <4>2. CASE values # {}
        <5>1. PICK v \in Values : values = {v}
          BY <4>2
        <5> QED BY <5>1, OneValue
      <4> QED BY <4>1, <4>2
    <3>3. Sound(mklocal(State, n, values), names)
      BY <2>1, <3>2, LocalGood
    <3> QED BY <2>1, <3>1, <3>3, RunIs
  <2>3. CASE Run(mklocalopts(State))
    <3>1. Whole(State, names) /\ State.err = "none"
      BY <2>1, StateIs
    <3>2. PICK r : r = mklocalopts(State)
      OBVIOUS
    <3>3. Whole(r, names) /\ r.err = "none"
      BY ONLY <3>1, <3>2, MklocaloptsIs
    <3>4. Sound(r, names)
      BY <3>3 DEF Sound
    <3> QED BY <2>1, <2>3, <3>2, <3>4, RunIs
  <2> QED BY <1>10, <2>2, <2>3 DEF localcmd
<1>11. CASE SetOption
  <2>1. pc # "crash"
    BY <1>11 DEF SetOption, Idle
  <2>2. PICK r : r = [State EXCEPT !.opts = ~State.opts]
    OBVIOUS
  <2>3. Run(r)
    BY <1>11, <2>2 DEF SetOption
  <2>4. Whole(State, names) /\ State.err = "none" /\ State.opts = aflag
    BY <2>1, StateIs
  <2>5. [State EXCEPT !.opts = ~State.opts] = Made(State.tab, State.heap, State.stack, ~State.opts, State.told, State.err)
    BY DEF State, Made
  <2>6. /\ IsState(r) /\ r.tab = State.tab /\ r.heap = State.heap /\ r.stack = State.stack
        /\ r.opts = (~State.opts) /\ r.told = State.told /\ r.err = State.err
    BY <2>2, <2>5, MadeIs
  <2>7. r.opts \in BOOLEAN
    BY <2>4, <2>6 DEF Whole, Works
  <2>8. Whole(r, names) /\ r.err = "none"
    BY <2>4, <2>6, <2>7 DEF Whole, Works
  <2>9. Sound(r, names)
    BY <2>8 DEF Sound
  <2> QED BY <2>1, <2>3, <2>9, RunIs
<1>12. CASE UNCHANGED vars
  BY <1>12 DEF vars, VarInv, TypeOK, Var
<1> QED BY <1>1, <1>2, <1>3, <1>4, <1>5, <1>6, <1>7, <1>8, <1>9, <1>10, <1>11, <1>12 DEF Next, Scopes, Builtins

THEOREM Invariant ==
  ASSUME Bad = {}
  PROVE  Spec => []VarInv
<1>1. Init => VarInv
  BY Starts
<1>2. VarInv /\ [Next]_vars => VarInv'
  BY Steps
<1> QED BY <1>1, <1>2, PTL DEF Spec

\* Where the properties look for entries.
LEMMA LocalsAre ==
  ASSUME VarInv, pc # "crash", NEW e \in Locals
  PROVE  /\ e = <<e[1], e[2]>> /\ e[1] \in DOMAIN localvar_stack /\ e[2] \in DOMAIN localvar_stack[e[1]].lv
         /\ <<e[1], EntryAt(e)>> \in Entries(localvar_stack) /\ e[1] \in 1 .. MaxDepth
<1>1. StackOK(localvar_stack, names)
  BY DEF VarInv
<1>2. DOMAIN localvar_stack = 1 .. Depth /\ Depth \in 0 .. MaxDepth
  BY <1>1, StackIs DEF Depth
<1>3. PICK k \in 1 .. Depth : e \in {<<k, i>> : i \in DOMAIN localvar_stack[k].lv}
  BY DEF Locals
<1>4. PICK i \in DOMAIN localvar_stack[k].lv : e = <<k, i>>
  BY <1>3
<1>5. <<k, localvar_stack[k].lv[i]>> \in Entries(localvar_stack)
  BY <1>2, EntryIn
<1>6. k \in 1 .. MaxDepth
  BY <1>2, TopIs
<1> QED BY <1>2, <1>4, <1>5, <1>6 DEF EntryAt

\* setvareq and poplocalvars: a variable that a scope saved is never removed,
\* whatever unset and inner scopes do, and knows the innermost such scope.
THEOREM InUseAlways ==
  ASSUME Bad = {}
  PROVE  Spec => []InUse
<1>1. VarInv => InUse
  <2> SUFFICES ASSUME VarInv, pc # "crash", NEW e \in Locals, EntryAt(e).vp \in Names
               PROVE  /\ EntryAt(e).vp \in DOMAIN vartab
                      /\ "strfixed" \in vartab[EntryAt(e).vp].flags
                      /\ vartab[EntryAt(e).vp].local >= e[1]
    BY DEF InUse
  <2>1. PICK f : f = <<e[1], EntryAt(e)>>
    OBVIOUS
  <2>2. f \in Entries(localvar_stack) /\ f[1] = e[1] /\ f[2] = EntryAt(e) /\ e[1] \in 1 .. MaxDepth
    BY <2>1, LocalsAre
  <2>3. Whole(State, names) /\ State.stack = localvar_stack /\ State.tab = vartab
    BY StateIs
  <2>4. /\ f[2].vp \in DOMAIN vartab /\ f[1] <= vartab[f[2].vp].local
        /\ "strfixed" \in vartab[f[2].vp].flags
    BY <2>2, <2>3, LocalIs
  <2>5. vartab[f[2].vp].local \in 0 .. MaxDepth
    BY <2>4 DEF VarInv, TypeOK, Var
  <2> QED BY <2>2, <2>4, <2>5
<1> QED BY <1>1, Invariant, PTL

\* setvareq and poplocalvars: what a variable of varinit controls is told of
\* every change of its value, the return to an outer scope included.
THEOREM ToldAlways ==
  ASSUME Bad = {}
  PROVE  Spec => []Told
<1>1. VarInv => Told
  <2> SUFFICES ASSUME VarInv, pc # "crash" PROVE \A n \in Special : told[n] = Value(n)
    BY DEF Told
  <2>1. ToldOK(vartab, heap, told)
    BY DEF VarInv, Sane
  <2> QED BY <2>1 DEF ToldOK, ValueIn, Value
<1> QED BY <1>1, Invariant, PTL

\* An owner of a text, as a holder.
LEMMA OwnersAre ==
  ASSUME VarInv, pc # "crash", NEW H, H = Holders(vartab, Entries(localvar_stack)), NEW c, NEW o \in Owners(c)
  PROVE  \E x \in H : /\ Owns(x) /\ x.text = c
                      /\ \/ o \in DOMAIN vartab /\ x = Cur(vartab, o)
                         \/ o \in Locals /\ x = Old(o[1], EntryAt(o)) /\ x.name \in Names /\ x.level \in 1 .. MaxDepth
<1>1. CASE o \in DOMAIN vartab /\ vartab[o].text = c /\ "textfixed" \notin vartab[o].flags
  <2>1. PICK x : x = Cur(vartab, o)
    OBVIOUS
  <2>2. x \in H /\ x.level = Top /\ x.text = c /\ "textfixed" \notin x.flags
    BY <1>1, <2>1 DEF Holders, Cur
  <2>3. Owns(x)
    BY <2>2 DEF Owns, Fresh
  <2> QED BY <1>1, <2>1, <2>2, <2>3
<1>2. CASE o \in Locals /\ SavesText(EntryAt(o)) /\ EntryAt(o).text = c /\ "textfixed" \notin EntryAt(o).flags
  <2>1. PICK x : x = Old(o[1], EntryAt(o))
    OBVIOUS
  <2>2. PICK f : f = <<o[1], EntryAt(o)>>
    OBVIOUS
  <2>3. f \in Entries(localvar_stack) /\ f[1] = o[1] /\ f[2] = EntryAt(o) /\ o[1] \in 1 .. MaxDepth
    BY <1>2, <2>2, LocalsAre
  <2>4. EntryAt(o).vp \in Names /\ EntryAt(o).flags # {"unset"}
    BY <1>2 DEF SavesText
  <2>5. x \in H
    BY <2>1, <2>3, <2>4 DEF Holders
  <2>6. x.level = o[1] /\ x.name = EntryAt(o).vp /\ x.flags = EntryAt(o).flags /\ x.text = c
    BY <1>2, <2>1 DEF Old
  <2>7. Owns(x)
    BY <1>2, <2>4, <2>6 DEF Owns, Fresh
  <2> QED BY <1>2, <2>1, <2>3, <2>4, <2>5, <2>6, <2>7
<1> QED BY <1>1, <1>2 DEF Owners

\* setvareq, mklocal, poplocalvars: every text on the heap is owned once, by
\* the variable that holds it or by an entry that saved it, and none is used
\* after it was freed.
THEOREM TextsOwnedAlways ==
  ASSUME Bad = {}
  PROVE  Spec => []TextsOwned
<1>1. VarInv => TextsOwned
  <2> SUFFICES ASSUME VarInv, pc # "crash"
               PROVE  /\ \A c \in Heap : Cardinality(Owners(c)) = IF heap[c] = "free" THEN 0 ELSE 1
                      /\ \A c \in Pointers : heap[c] # "free"
    BY DEF TextsOwned, VarInv
  <2>1. PICK H : H = Holders(vartab, Entries(localvar_stack))
    OBVIOUS
  <2>2. /\ H \subseteq Holder /\ Owned(H, heap)
    BY <2>1 DEF VarInv, Sane, Valid
  <2>3. \A x \in H : ~Fresh(x) => heap[x.text] # "free"
    BY <2>2 DEF Owned, Lives
  <2>4. \A x, y \in H : Owns(x) /\ Owns(y) /\ x.text = y.text => x = y
    BY <2>2 DEF Owned
  <2>5. StackOK(localvar_stack, names)
    BY DEF VarInv
  <2>6. ASSUME NEW c, NEW o \in Owners(c), NEW p \in Owners(c) PROVE o = p
    <3>1. PICK x \in H : /\ Owns(x) /\ x.text = c
                         /\ \/ o \in DOMAIN vartab /\ x = Cur(vartab, o)
                            \/ o \in Locals /\ x = Old(o[1], EntryAt(o)) /\ x.name \in Names /\ x.level \in 1 .. MaxDepth
      BY <2>1, OwnersAre
    <3>2. PICK y \in H : /\ Owns(y) /\ y.text = c
                         /\ \/ p \in DOMAIN vartab /\ y = Cur(vartab, p)
                            \/ p \in Locals /\ y = Old(p[1], EntryAt(p)) /\ y.name \in Names /\ y.level \in 1 .. MaxDepth
      BY <2>1, OwnersAre
    <3>3. x = y
      BY <2>4, <3>1, <3>2
    <3>4. \A n : Cur(vartab, n).level = Top /\ Cur(vartab, n).name = n
      BY DEF Cur
    <3>5. Top \notin 1 .. MaxDepth
      BY TopIs
    <3>6. CASE x.level = Top
      BY <3>1, <3>2, <3>3, <3>4, <3>5, <3>6
    <3>7. CASE x.level # Top
      <4>1. /\ o \in Locals /\ p \in Locals /\ x = Old(o[1], EntryAt(o)) /\ x = Old(p[1], EntryAt(p)) /\ x.name \in Names
        BY <3>1, <3>2, <3>3, <3>4, <3>7
      <4>2. o[1] = p[1] /\ EntryAt(o).vp = EntryAt(p).vp /\ EntryAt(o).vp \in Names
        <5>1. PICK l, m : l = EntryAt(o) /\ m = EntryAt(p)
          OBVIOUS
        <5>2. x.level = o[1] /\ x.name = l.vp /\ x.level = p[1] /\ x.name = m.vp
          BY <4>1, <5>1 DEF Old
        <5> QED BY <4>1, <5>1, <5>2
      <4>3. /\ o = <<o[1], o[2]>> /\ o[1] \in DOMAIN localvar_stack /\ o[2] \in DOMAIN localvar_stack[o[1]].lv
            /\ p = <<p[1], p[2]>> /\ p[2] \in DOMAIN localvar_stack[p[1]].lv
        BY <4>1, LocalsAre
      <4>4. PICK lv : lv = localvar_stack[o[1]].lv
        OBVIOUS
      <4>5. ListOK(lv, names)
        BY <2>5, <4>3, <4>4 DEF StackOK
      <4>6. EntryAt(o) = lv[o[2]] /\ EntryAt(p) = lv[p[2]]
        BY <4>2, <4>4 DEF EntryAt
      <4>7. o[2] = p[2]
        BY <4>2, <4>3, <4>4, <4>5, <4>6 DEF ListOK
      <4> QED BY <4>2, <4>3, <4>7
    <3> QED BY <3>6, <3>7
  <2>7. ASSUME NEW c \in Heap
        PROVE  Cardinality(Owners(c)) = IF heap[c] = "free" THEN 0 ELSE 1
    <3>1. CASE heap[c] = "free"
      <4>1. Owners(c) = {}
        <5> SUFFICES ASSUME NEW o \in Owners(c) PROVE FALSE
          OBVIOUS
        <5>1. PICK x \in H : Owns(x) /\ x.text = c
          BY <2>1, OwnersAre
        <5> QED BY <2>3, <3>1, <5>1 DEF Owns
      <4> QED BY <3>1, <4>1, FS_EmptySet
    <3>2. CASE heap[c] # "free"
      <4>1. PICK x \in H : Owns(x) /\ x.text = c
        BY <2>2, <3>2 DEF Owned
      <4>2. \E o : o \in Owners(c)
        <5>1. CASE \E n \in DOMAIN vartab : x = Cur(vartab, n)
          <6>1. PICK n \in DOMAIN vartab : x = Cur(vartab, n)
            BY <5>1
          <6>2. vartab[n].text = c /\ "textfixed" \notin vartab[n].flags
            BY <4>1, <6>1 DEF Cur, Owns
          <6> QED BY <6>2 DEF Owners
        <5>2. CASE ~(\E n \in DOMAIN vartab : x = Cur(vartab, n))
          <6>1. PICK f \in Entries(localvar_stack) : x = Old(f[1], f[2]) /\ f[2].vp \in Names
            BY <2>1, <5>2 DEF Holders
          <6>2. PICK k \in DOMAIN localvar_stack : \E i \in DOMAIN localvar_stack[k].lv : f = <<k, localvar_stack[k].lv[i]>>
            BY <6>1 DEF Entries
          <6>3. PICK i \in DOMAIN localvar_stack[k].lv : f = <<k, localvar_stack[k].lv[i]>>
            BY <6>2
          <6>4. PICK e : e = <<k, i>>
            OBVIOUS
          <6>5. EntryAt(e) = f[2] /\ f[1] = k /\ k \in 1 .. Depth /\ k \in 1 .. MaxDepth
            <7>1. DOMAIN localvar_stack = 1 .. Depth /\ Depth \in 0 .. MaxDepth
              BY <2>5, StackIs DEF Depth
            <7> QED BY <6>3, <6>4, <7>1, TopIs DEF EntryAt
          <6>6. e \in Locals
            BY <6>3, <6>4, <6>5 DEF Locals
          <6>7. x.level = k /\ x.flags = f[2].flags /\ x.text = f[2].text
            BY <6>1, <6>5 DEF Old
          <6>8. f[2].flags # {"unset"} /\ "textfixed" \notin f[2].flags
            <7>1. k # Top
              BY <6>5, TopIs
            <7> QED BY <4>1, <6>7, <7>1 DEF Owns, Fresh
          <6>9. SavesText(EntryAt(e)) /\ EntryAt(e).text = c /\ "textfixed" \notin EntryAt(e).flags
            BY <4>1, <6>1, <6>5, <6>7, <6>8 DEF SavesText
          <6>10. e \in Owners(c)
            BY <6>6, <6>9 DEF Owners
          <6> QED BY <6>10
        <5> QED BY <5>1, <5>2
      <4>3. PICK o : o \in Owners(c)
        BY <4>2
      <4>4. Owners(c) = {o}
        BY <2>6, <4>3
      <4> QED BY <3>2, <4>4, FS_Singleton
    <3> QED BY <3>1, <3>2
  <2>8. ASSUME NEW c \in Pointers PROVE heap[c] # "free"
    <3>1. CASE \E n \in DOMAIN vartab : c = vartab[n].text
      <4>1. PICK n \in DOMAIN vartab : c = vartab[n].text
        BY <3>1
      <4>2. PICK x : x = Cur(vartab, n)
        OBVIOUS
      <4>3. x \in H /\ x.level = Top /\ x.text = c
        BY <2>1, <4>1, <4>2 DEF Holders, Cur
      <4> QED BY <2>3, <4>3 DEF Fresh
    <3>2. CASE ~(\E n \in DOMAIN vartab : c = vartab[n].text)
      <4>1. PICK e \in Locals : SavesText(EntryAt(e)) /\ c = EntryAt(e).text
        BY <3>2 DEF Pointers
      <4>2. PICK x : x = Old(e[1], EntryAt(e))
        OBVIOUS
      <4>3. PICK f : f = <<e[1], EntryAt(e)>>
        OBVIOUS
      <4>4. f \in Entries(localvar_stack) /\ f[1] = e[1] /\ f[2] = EntryAt(e)
        BY <4>3, LocalsAre
      <4>5. EntryAt(e).vp \in Names /\ EntryAt(e).flags # {"unset"}
        BY <4>1 DEF SavesText
      <4>6. x \in H
        BY <2>1, <4>2, <4>4, <4>5 DEF Holders
      <4>7. x.flags = EntryAt(e).flags /\ x.text = c
        BY <4>1, <4>2 DEF Old
      <4> QED BY <2>3, <4>5, <4>6, <4>7 DEF Fresh
    <3> QED BY <3>1, <3>2
  <2> QED BY <2>7, <2>8
<1> QED BY <1>1, Invariant, PTL

(***************************************************************************)
(* Var implements Env.  What a scope remembers is what its entries show,   *)
(* with the texts h.                                                       *)
(***************************************************************************)

NamesIn(lv) == {m \in Names : SavedBy(lv, m) # {}}
EntryOf(lv, n) == lv[CHOOSE i \in SavedBy(lv, n) : TRUE]
OptionsIn(lv) ==
  IF SavedBy(lv, "-") = {} THEN {}
  ELSE {lv[CHOOSE i \in SavedBy(lv, "-") : \A k \in SavedBy(lv, "-") : k <= i].opts}
ScopeIn(h, lv) ==
  [vars |-> [n \in NamesIn(lv) |-> Shows(h, EntryOf(lv, n))], options |-> OptionsIn(lv)]
ScopesIn(h, st) == [k \in 1 .. Len(st) |-> ScopeIn(h, st[k].lv)]

LEMMA RememberedIs ==
  /\ Variables = ViewOf(vartab, heap) /\ Remembered = ScopesIn(heap, localvar_stack)
  /\ Variables' = ViewOf(vartab', heap') /\ Remembered' = ScopesIn(heap', localvar_stack')
<1>1. Variables = ViewOf(vartab, heap)
  BY Zenon DEF Variables, ViewOf, Seen, Shown
<1>2. \A lv : ScopeOf(lv) = ScopeIn(heap, lv)
  BY Zenon DEF ScopeOf, ScopeIn, NamesIn, EntryOf, OptionsIn, Shows, Seen, Shown
<1>3. Remembered = ScopesIn(heap, localvar_stack)
  BY <1>2, Zenon DEF Remembered, ScopesIn, Depth
<1>4. Variables' = ViewOf(vartab', heap')
  BY Zenon DEF Variables, ViewOf, Seen, Shown
<1>5. Remembered' = ScopesIn(heap', localvar_stack')
  <2>1. \A lv : ScopeOf(lv)' = ScopeIn(heap', lv)
    BY Zenon DEF ScopeOf, ScopeIn, NamesIn, EntryOf, OptionsIn, Shows, Seen, Shown
  <2> QED BY <2>1, Zenon DEF Remembered, ScopesIn, Depth
<1> QED BY <1>1, <1>3, <1>4, <1>5

\* The one entry of a name, and the oldest one of the options.
LEMMA EntryFound ==
  ASSUME NEW lv, NEW nm, ListOK(lv, nm)
  PROVE  /\ \A i \in DOMAIN lv : lv[i].vp \in Names =>
              lv[i].vp \in NamesIn(lv) /\ EntryOf(lv, lv[i].vp) = lv[i]
         /\ \A n \in NamesIn(lv) : \E i \in DOMAIN lv : lv[i].vp = n /\ EntryOf(lv, n) = lv[i]
<1>1. ASSUME NEW n \in NamesIn(lv)
      PROVE  \E i \in DOMAIN lv : lv[i].vp = n /\ EntryOf(lv, n) = lv[i]
  <2>1. PICK i : i = CHOOSE j \in SavedBy(lv, n) : TRUE
    OBVIOUS
  <2>2. i \in SavedBy(lv, n)
    BY <2>1 DEF NamesIn
  <2> QED BY <2>1, <2>2 DEF SavedBy, EntryOf
<1>2. ASSUME NEW i \in DOMAIN lv, lv[i].vp \in Names
      PROVE  lv[i].vp \in NamesIn(lv) /\ EntryOf(lv, lv[i].vp) = lv[i]
  <2>1. i \in SavedBy(lv, lv[i].vp)
    BY DEF SavedBy
  <2>2. lv[i].vp \in NamesIn(lv)
    BY <1>2, <2>1 DEF NamesIn
  <2>3. PICK j \in DOMAIN lv : lv[j].vp = lv[i].vp /\ EntryOf(lv, lv[i].vp) = lv[j]
    BY <1>1, <2>2
  <2>4. i = j
    BY <1>2, <2>3 DEF ListOK
  <2> QED BY <2>2, <2>3, <2>4
<1> QED BY <1>1, <1>2

LEMMA OldestIs ==
  ASSUME NEW lv \in Seq(Saved)
  PROVE  /\ SavedBy(lv, "-") = {} <=> OptionsIn(lv) = {}
         /\ SavedBy(lv, "-") # {} => \E i \in SavedBy(lv, "-") : \A k \in SavedBy(lv, "-") : k <= i
         /\ \A i \in SavedBy(lv, "-") : (\A k \in SavedBy(lv, "-") : k <= i) => OptionsIn(lv) = {lv[i].opts}
<1>1. PICK S : S = SavedBy(lv, "-")
  OBVIOUS
<1>2. PICK N : N = Len(lv)
  OBVIOUS
<1>3. N \in Nat /\ S \subseteq 1 .. N
  BY <1>1, <1>2 DEF SavedBy
<1>4. ASSUME S # {} PROVE \E i \in S : \A k \in S : k <= i
  <2> DEFINE T == {j \in 0 .. N : N - j \in S}
  <2>1. T \in SUBSET Nat /\ \A k \in S : N - k \in T
    BY <1>3
  <2>2. T # {}
    BY <1>4, <2>1
  <2>3. PICK d \in T : \A e \in T : d <= e
    BY ONLY <2>1, <2>2, Least
  <2>4. N - d \in S /\ d \in 0 .. N
    OBVIOUS
  <2>5. ASSUME NEW k \in S PROVE k <= N - d
    <3>1. d <= N - k
      BY <2>1, <2>3
    <3> QED BY <1>3, <2>4, <3>1
  <2> QED BY <2>4, <2>5
<1>5. ASSUME NEW i \in S, \A k \in S : k <= i PROVE OptionsIn(lv) = {lv[i].opts}
  <2>1. PICK j : j = CHOOSE a \in S : \A k \in S : k <= a
    OBVIOUS
  <2>2. j \in S /\ \A k \in S : k <= j
    BY <1>5, <2>1
  <2>3. j = i
    BY <1>3, <1>5, <2>2
  <2>4. OptionsIn(lv) = {lv[j].opts}
    BY <1>1, <1>5, <2>1 DEF OptionsIn
  <2> QED BY <2>3, <2>4
<1>6. S = {} <=> OptionsIn(lv) = {}
  BY <1>1 DEF OptionsIn
<1> QED BY <1>1, <1>4, <1>5, <1>6

\* Scopes remember the same when what their entries show is the same.
LEMMA ScopesSame ==
  ASSUME NEW st, NEW nm, StackOK(st, nm), NEW h, NEW k, \A e \in Entries(st) : Shows(k, e[2]) = Shows(h, e[2])
  PROVE  ScopesIn(k, st) = ScopesIn(h, st)
<1>1. DOMAIN st = 1 .. Len(st)
  BY StackIs
<1>2. ASSUME NEW d \in DOMAIN st PROVE ScopeIn(k, st[d].lv) = ScopeIn(h, st[d].lv)
  <2>1. PICK lv : lv = st[d].lv
    OBVIOUS
  <2>2. ListOK(lv, nm)
    BY <2>1 DEF StackOK
  <2>3. ASSUME NEW i \in DOMAIN lv PROVE Shows(k, lv[i]) = Shows(h, lv[i])
    <3>1. <<d, lv[i]>> \in Entries(st) /\ <<d, lv[i]>>[2] = lv[i]
      BY <2>1, EntryIn
    <3> QED BY <3>1
  <2>4. \A n \in NamesIn(lv) : Shows(k, EntryOf(lv, n)) = Shows(h, EntryOf(lv, n))
    BY <2>2, <2>3, EntryFound
  <2> QED BY <2>1, <2>4 DEF ScopeIn
<1> QED BY <1>1, <1>2 DEF ScopesIn

LEMMA ScopesAre ==
  ASSUME NEW st, NEW nm, StackOK(st, nm), NEW h
  PROVE  /\ DOMAIN st = 1 .. Len(st) /\ Len(st) \in Nat
         /\ Len(ScopesIn(h, st)) = Len(st) /\ DOMAIN ScopesIn(h, st) = 1 .. Len(st)
         /\ \A k \in 1 .. Len(st) : ScopesIn(h, st)[k] = ScopeIn(h, st[k].lv)
         /\ \E S : ScopesIn(h, st) \in Seq(S) /\ ScopesIn(h, st) \in [1 .. Len(st) -> S]
<1>1. PICK c, n : c = ScopesIn(h, st) /\ n = Len(st)
  OBVIOUS
<1>2. DOMAIN st = 1 .. n /\ n \in Nat
  BY <1>1, StackIs, TopIs
<1>3. DOMAIN c = 1 .. n /\ \A k \in 1 .. n : c[k] = ScopeIn(h, st[k].lv)
  BY <1>1 DEF ScopesIn
<1>4. PICK S : S = {ScopeIn(h, st[k].lv) : k \in 1 .. n}
  OBVIOUS
<1>5. c \in [1 .. n -> S]
  <2>1. c = [k \in 1 .. n |-> ScopeIn(h, st[k].lv)]
    BY <1>1 DEF ScopesIn
  <2> QED BY <1>4, <2>1
<1>6. c \in Seq(S) /\ Len(c) = n
  BY <1>2, <1>5, SeqDef, LenProperties
<1> QED BY <1>1, <1>2, <1>3, <1>5, <1>6

\* A command begins, and is a function or another builtin.
Empty(z) == z.vars = [n \in {} |-> Absent] /\ z.options = {} /\ z = [vars |-> z.vars, options |-> z.options]
Pushed(q, st) == q = Append(st, [kind |-> "command", lv |-> <<>>])
LEMMA ScopesPushed ==
  ASSUME NEW st, NEW nm, StackOK(st, nm), NEW q, Pushed(q, st), StackOK(q, nm), NEW h, NEW z, Empty(z)
  PROVE  ScopesIn(h, q) = Append(ScopesIn(h, st), z)
<1>1. PICK c, d, n : c = ScopesIn(h, st) /\ d = ScopesIn(h, q) /\ n = Len(st)
  OBVIOUS
<1>2. PICK S : c \in Seq(S) /\ Len(c) = n /\ n \in Nat /\ \A k \in 1 .. n : c[k] = ScopeIn(h, st[k].lv)
  BY <1>1, ScopesAre
<1>3. st \in Seq([kind : Kinds, lv : Seq(Saved)])
  BY DEF StackOK
<1>4. Len(q) = n + 1 /\ q[n + 1].lv = <<>> /\ \A k \in 1 .. n : q[k] = st[k]
  BY <1>1, <1>3, AppendProperties DEF Pushed
<1>5. ScopeIn(h, <<>>) = z
  <2>1. \A m : SavedBy(<<>>, m) = {}
    BY DEF SavedBy
  <2>2. NamesIn(<<>>) = {} /\ OptionsIn(<<>>) = {}
    BY <2>1 DEF NamesIn, OptionsIn
  <2>3. ScopeIn(h, <<>>).vars = z.vars
    BY <2>2 DEF ScopeIn, Empty
  <2>4. ScopeIn(h, <<>>).options = {}
    BY <2>2 DEF ScopeIn
  <2>5. ScopeIn(h, <<>>) = [vars |-> ScopeIn(h, <<>>).vars, options |-> ScopeIn(h, <<>>).options]
    BY DEF ScopeIn
  <2> QED BY <2>3, <2>4, <2>5 DEF Empty
<1>6. d = [k \in 1 .. n + 1 |-> ScopeIn(h, q[k].lv)]
  BY <1>1, <1>4 DEF ScopesIn
<1>7. \A k \in 1 .. n + 1 : d[k] = IF k = n + 1 THEN z ELSE c[k]
  BY <1>2, <1>4, <1>5, <1>6
<1>8. c \in Seq(S \cup {z}) /\ z \in S \cup {z}
  BY <1>2
<1>9. d \in Seq(S \cup {z}) /\ Len(d) = n + 1
  <2>1. d \in [1 .. n + 1 -> S \cup {z}]
    <3>1. \A k \in 1 .. n : c[k] \in S
      BY <1>2
    <3>2. \A k \in 1 .. n + 1 : k # n + 1 => k \in 1 .. n
      BY <1>2
    <3>3. \A k \in 1 .. n + 1 : d[k] \in S \cup {z}
      BY <1>7, <3>1, <3>2
    <3> QED BY ONLY <1>6, <3>3
  <2> QED BY <1>2, <2>1, SeqDef, LenProperties
<1>10. /\ Append(c, z) \in Seq(S \cup {z}) /\ Len(Append(c, z)) = n + 1
       /\ \A k \in 1 .. n + 1 : Append(c, z)[k] = IF k = n + 1 THEN z ELSE c[k]
  BY <1>2, <1>8, AppendProperties
<1>11. d = Append(c, z)
  BY <1>7, <1>9, <1>10, SeqEqual
<1> QED BY <1>1, <1>11

LEMMA ScopesKept ==
  ASSUME NEW st, NEW nm, StackOK(st, nm), NEW d \in 1 .. Len(st), NEW kd, NEW q, q = KindSet(st, d, kd), NEW h
  PROVE  ScopesIn(h, q) = ScopesIn(h, st)
<1>1. PICK S : S = [kind : Kinds, lv : Seq(Saved)]
  OBVIOUS
<1>2. st \in Seq(S)
  BY <1>1 DEF StackOK
<1>3. DOMAIN st = 1 .. Len(st) /\ Len(st) \in Nat /\ \A k \in DOMAIN st : st[k] \in S
  BY <1>2
<1>4. PICK y : y = [st[d] EXCEPT !.kind = kd]
  OBVIOUS
<1>5. y.lv = st[d].lv
  BY <1>1, <1>3, <1>4
<1>6. q = [st EXCEPT ![d] = y]
  BY <1>4 DEF KindSet
<1>7. Len(q) = Len(st) /\ \A k \in 1 .. Len(st) : q[k].lv = st[k].lv
  BY <1>2, <1>3, <1>5, <1>6
<1> QED BY <1>7 DEF ScopesIn

\* A command ends.
LEMMA ScopesPopped ==
  ASSUME NEW st, NEW nm, StackOK(st, nm), st # <<>>, NEW q, q = SubSeq(st, 1, Len(st) - 1), StackOK(q, nm), NEW h
  PROVE  ScopesIn(h, q) = SubSeq(ScopesIn(h, st), 1, Len(st) - 1)
<1>1. PICK c, d, n : c = ScopesIn(h, st) /\ d = ScopesIn(h, q) /\ n = Len(st)
  OBVIOUS
<1>2. PICK S : c \in Seq(S) /\ Len(c) = n /\ n \in Nat /\ \A k \in 1 .. n : c[k] = ScopeIn(h, st[k].lv)
  BY <1>1, ScopesAre
<1>3. st \in Seq([kind : Kinds, lv : Seq(Saved)])
  BY DEF StackOK
<1>4. n # 0 /\ Len(q) = n - 1 /\ \A k \in 1 .. n - 1 : q[k] = st[k]
  BY <1>1, <1>2, <1>3
<1>5. Len(d) = n - 1 /\ (\A k \in 1 .. n - 1 : d[k] = ScopeIn(h, q[k].lv)) /\ \E R : d \in Seq(R)
  <2>1. /\ Len(ScopesIn(h, q)) = Len(q)
        /\ \A k \in 1 .. Len(q) : ScopesIn(h, q)[k] = ScopeIn(h, q[k].lv)
        /\ \E R : ScopesIn(h, q) \in Seq(R)
    BY ONLY StackOK(q, nm), ScopesAre
  <2> QED BY <1>1, <1>4, <2>1
<1>6. \A k \in 1 .. n - 1 : d[k] = c[k]
  BY <1>2, <1>4, <1>5
<1>7. PICK e : e = SubSeq(c, 1, n - 1)
  OBVIOUS
<1>8. e \in Seq(S) /\ Len(e) = n - 1 /\ \A k \in 1 .. n - 1 : e[k] = c[k]
  BY <1>2, <1>4, <1>7
<1>9. d = e
  BY <1>5, <1>6, <1>8, SeqEqual
<1> QED BY <1>1, <1>7, <1>9

\* A new entry is the first of its scope.
Gains(lw, lv, l) ==
  /\ l.vp \in Names => /\ NamesIn(lw) = NamesIn(lv) \cup {l.vp} /\ EntryOf(lw, l.vp) = l
                       /\ OptionsIn(lw) = OptionsIn(lv)
  /\ l.vp = "-" => /\ NamesIn(lw) = NamesIn(lv)
                   /\ OptionsIn(lw) = IF OptionsIn(lv) = {} THEN {l.opts} ELSE OptionsIn(lv)
  /\ \A m \in NamesIn(lv) : EntryOf(lw, m) = EntryOf(lv, m)
LEMMA NewEntryIs ==
  ASSUME NEW lv, NEW nm, ListOK(lv, nm), NEW l, NEW lw, lw = <<l>> \o lv, ListOK(lw, nm)
  PROVE  Gains(lw, lv, l)
<1>1. lv \in Seq(Saved) /\ lw \in Seq(Saved)
  BY DEF ListOK
<1>2. /\ 1 \in DOMAIN lw /\ lw[1] = l
      /\ \A i \in DOMAIN lv : i + 1 \in DOMAIN lw /\ lw[i + 1] = lv[i] /\ i \in Nat /\ i >= 1
      /\ \A i \in DOMAIN lw : i # 1 => i - 1 \in DOMAIN lv /\ lw[i] = lv[i - 1] /\ i \in Nat
  <2>1. Len(lw) = Len(lv) + 1 /\ Len(lv) \in Nat /\ DOMAIN lv = 1 .. Len(lv) /\ DOMAIN lw = 1 .. Len(lw)
    BY <1>1
  <2>2. lw[1] = l /\ \A i \in 1 .. Len(lv) : lw[i + 1] = lv[i]
    BY <1>1
  <2>3. \A i \in DOMAIN lw : i # 1 => i - 1 \in DOMAIN lv /\ lw[i - 1 + 1] = lv[i - 1] /\ i - 1 + 1 = i
    BY <2>1, <2>2
  <2> QED BY <2>1, <2>2, <2>3
<1>3. \A m : SavedBy(lw, m) # {} <=> SavedBy(lv, m) # {} \/ m = l.vp
  <2> SUFFICES ASSUME NEW m PROVE SavedBy(lw, m) # {} <=> SavedBy(lv, m) # {} \/ m = l.vp
    OBVIOUS
  <2>1. ASSUME NEW i \in SavedBy(lw, m) PROVE SavedBy(lv, m) # {} \/ m = l.vp
    <3>1. i = 1 => m = l.vp
      BY <1>2 DEF SavedBy
    <3>2. i # 1 => i - 1 \in SavedBy(lv, m)
      BY <1>2 DEF SavedBy
    <3> QED BY <3>1, <3>2
  <2>2. ASSUME NEW i \in SavedBy(lv, m) PROVE i + 1 \in SavedBy(lw, m)
    BY <1>2 DEF SavedBy
  <2>3. m = l.vp => 1 \in SavedBy(lw, m)
    BY <1>2 DEF SavedBy
  <2> QED BY <2>1, <2>2, <2>3
<1>4. NamesIn(lw) = IF l.vp \in Names THEN NamesIn(lv) \cup {l.vp} ELSE NamesIn(lv)
  BY <1>3 DEF NamesIn
<1>5. \A m \in NamesIn(lv) : EntryOf(lw, m) = EntryOf(lv, m)
  <2> SUFFICES ASSUME NEW m \in NamesIn(lv) PROVE EntryOf(lw, m) = EntryOf(lv, m)
    OBVIOUS
  <2>1. PICK i \in DOMAIN lv : lv[i].vp = m /\ EntryOf(lv, m) = lv[i]
    BY EntryFound
  <2>2. i + 1 \in DOMAIN lw /\ lw[i + 1] = lv[i] /\ m \in Names
    BY <1>2, <2>1 DEF NamesIn
  <2>3. EntryOf(lw, m) = lw[i + 1]
    <3>1. lw[i + 1].vp = m
      BY <2>1, <2>2
    <3>2. \A j \in DOMAIN lw : lw[j].vp \in Names => EntryOf(lw, lw[j].vp) = lw[j]
      BY ONLY ListOK(lw, nm), EntryFound
    <3> QED BY <2>2, <3>1, <3>2
  <2> QED BY <2>1, <2>2, <2>3
<1>6. l.vp \in Names => EntryOf(lw, l.vp) = l
  <2>1. lw[1].vp = l.vp /\ 1 \in DOMAIN lw
    BY <1>2
  <2>2. \A i \in DOMAIN lw : lw[i].vp \in Names => EntryOf(lw, lw[i].vp) = lw[i]
    BY ONLY ListOK(lw, nm), EntryFound
  <2> QED BY <1>2, <2>1, <2>2
<1>7. ASSUME NEW i \in SavedBy(lv, "-"), \A k \in SavedBy(lv, "-") : k <= i
      PROVE  OptionsIn(lv) = {lv[i].opts} /\ OptionsIn(lw) = {lv[i].opts}
  <2>1. i + 1 \in SavedBy(lw, "-") /\ lw[i + 1] = lv[i] /\ i \in Nat /\ i >= 1
    BY <1>2 DEF SavedBy
  <2>2. ASSUME NEW k \in SavedBy(lw, "-") PROVE k <= i + 1
    <3>1. CASE k = 1
      BY <2>1, <3>1
    <3>2. CASE k # 1
      <4>1. k - 1 \in SavedBy(lv, "-") /\ k \in Nat
        BY <1>2, <3>2 DEF SavedBy
      <4>2. k - 1 <= i
        BY <1>7, <4>1
      <4> QED BY <2>1, <4>1, <4>2
    <3> QED BY <3>1, <3>2
  <2> QED BY <1>1, <1>7, <2>1, <2>2, OldestIs
<1>8. ASSUME SavedBy(lv, "-") = {} PROVE OptionsIn(lw) = IF l.vp = "-" THEN {l.opts} ELSE {}
  <2>1. CASE l.vp = "-"
    <3>1. 1 \in SavedBy(lw, "-")
      BY <1>2, <2>1 DEF SavedBy
    <3>2. \A k \in SavedBy(lw, "-") : k = 1
      BY <1>2, <1>8 DEF SavedBy
    <3>3. \A k \in SavedBy(lw, "-") : k <= 1
      BY <3>2
    <3> QED BY <1>1, <1>2, <2>1, <3>1, <3>3, OldestIs
  <2>2. CASE l.vp # "-"
    <3>1. SavedBy(lw, "-") = {}
      BY <1>3, <1>8, <2>2
    <3> QED BY <2>2, <3>1 DEF OptionsIn
  <2> QED BY <2>1, <2>2
<1>9. "-" \notin Names
  BY VarAssumption DEF Names
<1>10. OptionsIn(lw) = IF OptionsIn(lv) = {} /\ l.vp = "-" THEN {l.opts} ELSE OptionsIn(lv)
  <2>1. CASE SavedBy(lv, "-") = {}
    BY <1>1, <1>8, <2>1, OldestIs
  <2>2. CASE SavedBy(lv, "-") # {}
    <3>1. PICK i \in SavedBy(lv, "-") : \A k \in SavedBy(lv, "-") : k <= i
      BY <1>1, <2>2, OldestIs
    <3> QED BY <1>7, <3>1
  <2> QED BY <2>1, <2>2
<1> QED BY <1>4, <1>5, <1>6, <1>9, <1>10 DEF Gains

GainsVar(b, c, D, n, x) ==
  b = [c EXCEPT ![D].vars = [m \in DOMAIN c[D].vars \cup {n} |-> IF m = n THEN x ELSE c[D].vars[m]]]
GainsOptions(b, c, D, o) == b = [c EXCEPT ![D].options = IF c[D].options = {} THEN {o} ELSE c[D].options]
LEMMA ScopesTopped ==
  ASSUME NEW st, NEW q, NEW nm, StackOK(st, nm), StackOK(q, nm), st # <<>>, NEW l, Topped(st, q, l),
         l.vp \in Names \cup {"-"}, NEW h, NEW c, c = ScopesIn(h, st), NEW D, D = Len(st)
  PROVE  /\ D \in 1 .. Len(c)
         /\ l.vp \in Names => GainsVar(ScopesIn(h, q), c, D, l.vp, Shows(h, l))
         /\ l.vp = "-" => GainsOptions(ScopesIn(h, q), c, D, l.opts)
<1>1. DOMAIN st = 1 .. D /\ D \in Nat /\ Len(c) = D /\ DOMAIN c = 1 .. D /\ \A k \in 1 .. D : c[k] = ScopeIn(h, st[k].lv)
  BY ScopesAre
<1>2. D \in 1 .. D
  <2>1. st \in Seq([kind : Kinds, lv : Seq(Saved)])
    BY DEF StackOK
  <2>2. D # 0
    BY <2>1
  <2> QED BY <1>1, <2>2
<1>3. /\ Len(q) = D /\ q[D].lv = <<l>> \o st[D].lv /\ \A k \in 1 .. D : k # D => q[k] = st[k]
      /\ DOMAIN q = 1 .. D
  <2>1. Len(q) = D
    BY DEF Topped
  <2> QED BY <1>1, <2>1, StackIs DEF Topped
<1>4. PICK lv, lw : lv = st[D].lv /\ lw = q[D].lv
  OBVIOUS
<1>5. ListOK(lv, nm) /\ ListOK(lw, nm) /\ lw = <<l>> \o lv
  BY <1>1, <1>2, <1>3, <1>4 DEF StackOK
<1>6. PICK d : d = ScopesIn(h, q)
  OBVIOUS
<1>7. d = [k \in 1 .. D |-> ScopeIn(h, q[k].lv)]
  BY <1>3, <1>6 DEF ScopesIn
<1>8. \A k \in 1 .. D : d[k] = IF k = D THEN ScopeIn(h, lw) ELSE c[k]
  BY <1>1, <1>3, <1>4, <1>7
<1>9. c[D] = ScopeIn(h, lv)
  BY <1>1, <1>2, <1>4
<1>10. c = [k \in 1 .. D |-> c[k]]
  BY <1>1 DEF ScopesIn
<1>11. d = [c EXCEPT ![D] = ScopeIn(h, lw)]
  BY ONLY <1>2, <1>7, <1>8, <1>10
<1>12. c[D] = [vars |-> [n \in NamesIn(lv) |-> Shows(h, EntryOf(lv, n))], options |-> OptionsIn(lv)]
  BY <1>9 DEF ScopeIn
<1>13. PICK v, w : v = [n \in NamesIn(lv) |-> Shows(h, EntryOf(lv, n))] /\ w = [n \in NamesIn(lw) |-> Shows(h, EntryOf(lw, n))]
  OBVIOUS
<1>14. c[D] = [vars |-> v, options |-> OptionsIn(lv)] /\ ScopeIn(h, lw) = [vars |-> w, options |-> OptionsIn(lw)]
  BY <1>12, <1>13 DEF ScopeIn
<1>15. Gains(lw, lv, l)
  BY ONLY <1>5, NewEntryIs
<1>16. ASSUME l.vp \in Names
       PROVE  d = [c EXCEPT ![D].vars = [m \in DOMAIN c[D].vars \cup {l.vp} |->
                                           IF m = l.vp THEN Shows(h, l) ELSE c[D].vars[m]]]
  <2>1. w = [m \in DOMAIN v \cup {l.vp} |-> IF m = l.vp THEN Shows(h, l) ELSE v[m]]
    BY <1>13, <1>15, <1>16 DEF Gains
  <2>2. ScopeIn(h, lw) = [c[D] EXCEPT !.vars = w]
    BY <1>14, <1>15, <1>16 DEF Gains
  <2>3. c[D].vars = v
    BY <1>14
  <2> QED BY <1>11, <2>1, <2>2, <2>3
<1>17. ASSUME l.vp = "-"
       PROVE  d = [c EXCEPT ![D].options = IF c[D].options = {} THEN {l.opts} ELSE c[D].options]
  <2>1. w = v
    BY <1>13, <1>15, <1>17 DEF Gains
  <2>2. OptionsIn(lw) = IF c[D].options = {} THEN {l.opts} ELSE c[D].options
    BY <1>14, <1>15, <1>17 DEF Gains
  <2>3. PICK o : o = IF c[D].options = {} THEN {l.opts} ELSE c[D].options
    OBVIOUS
  <2>4. ScopeIn(h, lw) = [c[D] EXCEPT !.options = o]
    <3>1. c[D] = [vars |-> v, options |-> OptionsIn(lv)] /\ ScopeIn(h, lw) = [vars |-> v, options |-> o]
      BY ONLY <1>14, <2>1, <2>2, <2>3
    <3> QED BY ONLY <3>1
  <2> QED BY <1>11, <2>3, <2>4
<1> QED BY <1>1, <1>2, <1>6, <1>16, <1>17 DEF GainsVar, GainsOptions

\* What poplocalvars gives back is what the scope remembered.
GivesBack(g, s, z) ==
  /\ View(g) = [n \in Names |-> IF n \in DOMAIN z.vars THEN z.vars[n] ELSE View(s)[n]]
  /\ g.opts = IF z.options = {} THEN s.opts ELSE CHOOSE o \in z.options : TRUE
LEMMA BackIs ==
  ASSUME NEW lv, NEW nm, ListOK(lv, nm), NEW g, NEW s, Back(g, s, lv, Len(lv)), View(g) \in [Names -> Viewed],
         NEW z, z = ScopeIn(s.heap, lv)
  PROVE  GivesBack(g, s, z)
<1>1. lv \in Seq(Saved) /\ DOMAIN lv = 1 .. Len(lv) /\ Len(lv) \in Nat
  BY DEF ListOK
<1>2. /\ DOMAIN z.vars = NamesIn(lv) /\ z.options = OptionsIn(lv)
      /\ \A n \in NamesIn(lv) : z.vars[n] = Shows(s.heap, EntryOf(lv, n)) /\ n \in Names
  BY DEF ScopeIn, NamesIn
<1>3. ASSUME NEW n \in Names
      PROVE  View(g)[n] = IF n \in DOMAIN z.vars THEN z.vars[n] ELSE View(s)[n]
  <2>1. CASE n \in NamesIn(lv)
    <3>1. PICK i \in DOMAIN lv : lv[i].vp = n /\ EntryOf(lv, n) = lv[i]
      BY <2>1, EntryFound
    <3> QED BY <1>1, <1>2, <1>3, <2>1, <3>1 DEF Back
  <2>2. CASE n \notin NamesIn(lv)
    <3>1. \A i \in 1 .. Len(lv) : lv[i].vp # n
      BY <1>1, <1>3, <2>2, EntryFound
    <3> QED BY <1>2, <1>3, <2>2, <3>1 DEF Back
  <2> QED BY <2>1, <2>2
<1>4. g.opts = IF OptionsIn(lv) = {} THEN s.opts ELSE CHOOSE o \in OptionsIn(lv) : TRUE
  <2>1. CASE SavedBy(lv, "-") = {}
    <3>1. \A j \in 1 .. Len(lv) : lv[j].vp # "-"
      BY <1>1, <2>1 DEF SavedBy
    <3>2. OptionsIn(lv) = {}
      BY <1>1, <2>1, OldestIs
    <3> QED BY <3>1, <3>2 DEF Back
  <2>2. CASE SavedBy(lv, "-") # {}
    <3>1. PICK i \in SavedBy(lv, "-") : \A k \in SavedBy(lv, "-") : k <= i
      BY <1>1, <2>2, OldestIs
    <3>2. OptionsIn(lv) = {lv[i].opts}
      BY <1>1, <3>1, OldestIs
    <3>3. i \in 1 .. Len(lv) /\ lv[i].vp = "-"
      BY <1>1 DEF SavedBy
    <3>4. \A k \in i + 1 .. Len(lv) : lv[k].vp # "-"
      <4> SUFFICES ASSUME NEW k \in i + 1 .. Len(lv), lv[k].vp = "-" PROVE FALSE
        OBVIOUS
      <4>1. k \in DOMAIN lv /\ ~(k <= i)
        BY <1>1, <3>3
      <4> QED BY <3>1, <4>1 DEF SavedBy
    <3>5. g.opts = lv[i].opts
      BY <3>3, <3>4 DEF Back
    <3>6. (CHOOSE o \in {g.opts} : TRUE) = g.opts
      OBVIOUS
    <3> QED BY <3>2, <3>5, <3>6
  <2> QED BY <2>1, <2>2
<1>5. View(g) = [n \in Names |-> View(g)[n]]
  BY DEF View, ViewOf
<1> QED BY <1>2, <1>3, <1>4, <1>5 DEF GivesBack

\* How a step of Var is a step of Env.
LEMMA BecameIs ==
  ASSUME VarInv, pc # "crash", NEW s, Run(s)
  PROVE  /\ Variables = View(State) /\ Remembered = ScopesIn(State.heap, State.stack) /\ aflag = State.opts
         /\ Variables' = View(s) /\ Remembered' = ScopesIn(s.heap, s.stack) /\ aflag' = s.opts
         /\ StackOK(State.stack, names)
<1>1. State.tab = vartab /\ State.heap = heap /\ State.stack = localvar_stack /\ State.opts = aflag
  BY DEF State
<1>2. vartab' = s.tab /\ heap' = s.heap /\ localvar_stack' = s.stack /\ aflag' = s.opts
  BY DEF Run, Become
<1>3. StackOK(State.stack, names)
  BY <1>1 DEF VarInv
<1> QED BY <1>1, <1>2, <1>3, RememberedIs DEF View

LEMMA ViewExcept ==
  ASSUME NEW r, NEW s, NEW E, NEW n \in Names, Touches(r, s, E, n)
  PROVE  View(r) = [View(s) EXCEPT ![n] = View(r)[n]]
<1>1. \A m \in Names \ {n} : View(r)[m] = View(s)[m]
  BY DEF Touches, Only, View
<1>2. DOMAIN View(r) = Names /\ DOMAIN View(s) = Names
  BY DEF View, ViewOf
<1>3. View(r) = [m \in Names |-> View(r)[m]]
  BY DEF View, ViewOf
<1>4. PICK v, w : v = View(r) /\ w = View(s)
  OBVIOUS
<1>5. v = [m \in Names |-> v[m]] /\ w = [m \in Names |-> w[m]]
  <2>1. View(s) = [m \in Names |-> View(s)[m]]
    BY DEF View, ViewOf
  <2> QED BY <1>3, <1>4, <2>1
<1>6. \A m \in Names \ {n} : v[m] = w[m]
  BY <1>1, <1>4
<1>7. v = [w EXCEPT ![n] = v[n]]
  BY ONLY <1>5, <1>6, n \in Names
<1> QED BY <1>4, <1>7

LEMMA AssignIs ==
  ASSUME NEW n, NEW b, Variables' = [Variables EXCEPT ![n] = b], MaySet(Variables[n], b)
  PROVE  Abstract!Assign(n)
<1>1. PICK v \in Texts \cup {"unset"}, e, r \in BOOLEAN :
        /\ Variables[n].readonly => v = Variables[n].val
        /\ b = [val |-> v, export |-> Variables[n].export \/ e, readonly |-> Variables[n].readonly \/ r]
  BY Zenon DEF MaySet
<1>2. Variables' = [Variables EXCEPT ![n] = [val |-> v, export |-> Variables[n].export \/ e,
                                             readonly |-> Variables[n].readonly \/ r]]
  BY <1>1, Zenon
<1> QED BY <1>1, <1>2, Zenon DEF Abstract!Assign

LEMMA ChangeIs ==
  ASSUME VarInv, pc # "crash", NEW n \in Names, NEW s, Run(s), Changed(s, State, n)
  PROVE  Abstract!Change(n)
<1>1. /\ Variables = View(State) /\ Remembered = ScopesIn(State.heap, State.stack) /\ aflag = State.opts
      /\ Variables' = View(s) /\ Remembered' = ScopesIn(s.heap, s.stack) /\ aflag' = s.opts
      /\ StackOK(State.stack, names)
  BY BecameIs
<1>2. /\ Touches(s, State, Entries(State.stack), n) /\ s.stack = State.stack /\ s.opts = State.opts
      /\ MaySet(View(State)[n], View(s)[n]) \/ MayClear(View(State)[n], View(s)[n])
  BY DEF Changed
<1>3. Variables' = [Variables EXCEPT ![n] = View(s)[n]]
  BY <1>1, <1>2, ViewExcept
<1>4. Remembered' = Remembered
  <2>1. \A e \in Entries(State.stack) : Shows(s.heap, e[2]) = Shows(State.heap, e[2])
    BY <1>2 DEF Touches, Only
  <2>2. ScopesIn(s.heap, State.stack) = ScopesIn(State.heap, State.stack)
    BY ONLY <1>1, <2>1, ScopesSame
  <2> QED BY <1>1, <1>2, <2>2
<1>5. aflag' = aflag
  BY <1>1, <1>2
<1>6. Abstract!Assign(n) \/ Abstract!Clear(n)
  <2>1. CASE MaySet(View(State)[n], View(s)[n])
    <3>1. MaySet(Variables[n], View(s)[n])
      BY <1>1, <2>1
    <3> QED BY ONLY <1>3, <3>1, AssignIs
  <2>2. CASE MayClear(View(State)[n], View(s)[n])
    <3>1. ~Variables[n].readonly /\ View(s)[n] = Absent
      BY <1>1, <2>2 DEF MayClear
    <3>2. Variables' = [Variables EXCEPT ![n] = Absent]
      BY <1>3, <3>1
    <3> QED BY <3>1, <3>2 DEF Abstract!Clear, Abstract!Unset, Absent
  <2> QED BY <1>2, <2>1, <2>2
<1> QED BY <1>4, <1>5, <1>6 DEF Abstract!Change

LEMMA LocalStep ==
  ASSUME VarInv, pc # "crash", NEW n \in Names, NEW s, Run(s), Whole(s, names), Local(s, State, n)
  PROVE  Abstract!Local(n) \/ Abstract!Change(n)
<1>1. /\ Variables = View(State) /\ Remembered = ScopesIn(State.heap, State.stack) /\ aflag = State.opts
      /\ Variables' = View(s) /\ Remembered' = ScopesIn(s.heap, s.stack) /\ aflag' = s.opts
      /\ StackOK(State.stack, names)
  BY BecameIs
<1>2. /\ Touches(s, State, Entries(State.stack), n) /\ s.opts = State.opts
      /\ MaySet(View(State)[n], View(s)[n])
  BY DEF Local
<1>3. Abstract!Assign(n)
  <2>1. Variables' = [Variables EXCEPT ![n] = View(s)[n]] /\ MaySet(Variables[n], View(s)[n])
    BY <1>1, <1>2, ViewExcept
  <2> QED BY ONLY <2>1, AssignIs
<1>4. PICK c, st, D : c = Remembered /\ st = State.stack /\ D = Len(st)
  OBVIOUS
<1>5. ScopesIn(s.heap, st) = c
  <2>1. \A e \in Entries(st) : Shows(s.heap, e[2]) = Shows(State.heap, e[2])
    BY <1>2, <1>4 DEF Touches, Only
  <2>2. StackOK(st, names)
    BY <1>1, <1>4
  <2>3. ScopesIn(s.heap, st) = ScopesIn(State.heap, st)
    BY ONLY <2>1, <2>2, ScopesSame
  <2> QED BY <1>1, <1>4, <2>3
<1>6. CASE s.stack = State.stack /\ st = <<>>
  <2>1. Remembered' = Remembered /\ aflag' = aflag
    BY <1>1, <1>2, <1>4, <1>5, <1>6
  <2> QED BY <1>3, <2>1 DEF Abstract!Change
<1>7. ASSUME st # <<>>
      PROVE  /\ Len(c) = D /\ D \in 1 .. D /\ c # <<>> /\ DOMAIN c = 1 .. D
             /\ c[D] = ScopeIn(s.heap, st[D].lv) /\ D \in DOMAIN st
             /\ c = [k \in 1 .. D |-> c[k]] /\ c[D] = [vars |-> c[D].vars, options |-> c[D].options]
  <2>1. /\ DOMAIN st = 1 .. D /\ D \in Nat /\ Len(c) = D /\ DOMAIN c = 1 .. D
        /\ \A k \in 1 .. D : c[k] = ScopeIn(s.heap, st[k].lv)
    BY <1>1, <1>4, <1>5, ScopesAre
  <2>2. D # 0
    <3>1. st \in Seq([kind : Kinds, lv : Seq(Saved)])
      BY <1>1, <1>4 DEF StackOK
    <3> QED BY <1>4, <1>7, <3>1
  <2>3. D \in 1 .. D
    BY <2>1, <2>2
  <2>4. c # <<>>
    BY <2>1, <2>2
  <2>5. c = [k \in 1 .. D |-> c[k]]
    BY <1>4, <1>5 DEF ScopesIn
  <2>6. c[D] = [vars |-> c[D].vars, options |-> c[D].options]
    BY <2>1, <2>3 DEF ScopeIn
  <2> QED BY <2>1, <2>3, <2>4, <2>5, <2>6
<1>8. CASE s.stack = State.stack /\ st # <<>>
  <2>1. ~Unsaved(st, n)
    <3>1. \A l : st[D].lv # <<l>> \o st[D].lv
      <4>1. st[D].lv \in Seq(Saved)
        BY <1>1, <1>4, <1>7, <1>8 DEF StackOK, ListOK
      <4>2. \A l : Len(<<l>> \o st[D].lv) = Len(st[D].lv) + 1
        BY <4>1
      <4> QED BY <4>1, <4>2
    <3> QED BY <1>4, <1>8, <3>1 DEF Local, Topped
  <2>2. PICK lv : lv = st[D].lv
    OBVIOUS
  <2>3. PICK i \in DOMAIN lv : lv[i].vp = n
    BY <1>4, <2>1, <2>2 DEF Unsaved
  <2>4. ListOK(lv, names)
    BY <1>1, <1>4, <1>7, <1>8, <2>2 DEF StackOK
  <2>5. n \in NamesIn(lv)
    BY <2>3, <2>4, EntryFound
  <2>6. n \in DOMAIN c[D].vars
    BY <1>7, <1>8, <2>2, <2>5 DEF ScopeIn
  <2>7. [c EXCEPT ![D].vars = c[D].vars] = c
    <3>1. [c[D] EXCEPT !.vars = c[D].vars] = c[D]
      BY <1>7, <1>8
    <3>2. [c EXCEPT ![D] = c[D]] = c
      BY <1>7, <1>8
    <3> QED BY <3>1, <3>2
  <2>8. Remembered' = c /\ aflag' = aflag
    BY <1>1, <1>2, <1>4, <1>5, <1>8
  <2>9. Abstract!SaveVar(n)
    <3>1. Abstract!Depth = D /\ Abstract!Top = c[D]
      BY <1>4, <1>7, <1>8 DEF Abstract!Depth, Abstract!Top
    <3>2. Abstract!Saved(n) = c[D].vars
      BY <2>6, <3>1 DEF Abstract!Saved
    <3>3. Remembered' = [Remembered EXCEPT ![Abstract!Depth].vars = Abstract!Saved(n)]
      BY <1>4, <2>7, <2>8, <3>1, <3>2
    <3> QED BY <1>4, <1>7, <1>8, <3>3 DEF Abstract!SaveVar
  <2> QED BY <1>3, <2>8, <2>9 DEF Abstract!Local
<1>9. CASE s.stack # State.stack
  <2>1. st # <<>> /\ Unsaved(st, n)
    BY <1>4, <1>9 DEF Local
  <2>2. PICK l : l.vp = n /\ Topped(st, s.stack, l) /\ Shows(s.heap, l) = View(State)[n]
    BY <1>4, <1>9 DEF Local
  <2>3. StackOK(s.stack, names) /\ StackOK(st, names)
    BY <1>1, <1>4 DEF Whole
  <2>4. GainsVar(ScopesIn(s.heap, s.stack), c, D, l.vp, Shows(s.heap, l))
    <3>1. l.vp \in Names \cup {"-"} /\ l.vp \in Names
      BY <2>2
    <3>2. c = ScopesIn(s.heap, st)
      BY <1>5
    <3> QED BY ONLY <1>4, <2>1, <2>2, <2>3, <3>1, <3>2, ScopesTopped
  <2>5. n \notin DOMAIN c[D].vars
    <3>1. PICK lv : lv = st[D].lv
      OBVIOUS
    <3>2. \A i \in DOMAIN lv : lv[i].vp # n
      BY <1>4, <2>1, <3>1 DEF Unsaved
    <3>3. n \notin NamesIn(lv)
      BY <3>2 DEF NamesIn, SavedBy
    <3> QED BY <1>7, <2>1, <3>1, <3>3 DEF ScopeIn
  <2>6. Abstract!SaveVar(n)
    <3>1. Abstract!Depth = D /\ Abstract!Top = c[D] /\ c # <<>>
      BY <1>4, <1>7, <2>1 DEF Abstract!Depth, Abstract!Top
    <3>2. Abstract!Saved(n) = [m \in DOMAIN c[D].vars \cup {n} |-> IF m = n THEN Variables[n] ELSE c[D].vars[m]]
      BY <2>5, <3>1 DEF Abstract!Saved
    <3>3. Remembered' = [c EXCEPT ![D].vars = Abstract!Saved(n)]
      BY <1>1, <2>2, <2>4, <3>2 DEF GainsVar
    <3>4. Remembered' = [Remembered EXCEPT ![Abstract!Depth].vars = Abstract!Saved(n)] /\ Remembered # <<>>
      BY <1>4, <3>1, <3>3
    <3> QED BY <3>4 DEF Abstract!SaveVar
  <2> QED BY <1>1, <1>2, <1>3, <2>6 DEF Abstract!Local
<1> QED BY <1>6, <1>8, <1>9

LEMMA SaveOptionsIs ==
  ASSUME VarInv, pc # "crash", NEW s, Run(s), Whole(s, names), Optioned(s, State)
  PROVE  Abstract!SaveOptions \/ UNCHANGED Abstract!vars
<1>1. /\ Variables = View(State) /\ Remembered = ScopesIn(State.heap, State.stack) /\ aflag = State.opts
      /\ Variables' = View(s) /\ Remembered' = ScopesIn(s.heap, s.stack) /\ aflag' = s.opts
      /\ StackOK(State.stack, names)
  BY BecameIs
<1>2. s.tab = State.tab /\ s.heap = State.heap /\ s.opts = State.opts
  BY DEF Optioned
<1>3. Variables' = Variables /\ aflag' = aflag
  BY <1>1, <1>2 DEF View
<1>4. CASE s.stack = State.stack
  BY <1>1, <1>2, <1>3, <1>4 DEF Abstract!vars
<1>5. CASE s.stack # State.stack
  <2>1. PICK c, st, D : c = Remembered /\ st = State.stack /\ D = Len(st)
    OBVIOUS
  <2>2. st # <<>>
    BY <1>5, <2>1 DEF Optioned
  <2>3. PICK l : l.vp = "-" /\ l.opts = aflag /\ Topped(st, s.stack, l)
    BY <1>1, <1>5, <2>1 DEF Optioned
  <2>4. /\ StackOK(st, names) /\ StackOK(s.stack, names) /\ l.vp \in Names \cup {"-"}
        /\ c = ScopesIn(s.heap, st)
    BY <1>1, <1>2, <2>1, <2>3 DEF Whole
  <2>5. D \in 1 .. Len(c) /\ GainsOptions(ScopesIn(s.heap, s.stack), c, D, l.opts)
    BY ONLY <2>1, <2>2, <2>3, <2>4, ScopesTopped
  <2>6. Len(c) = D
    BY <2>1, <2>4, ScopesAre
  <2>7. c # <<>>
    BY <2>5
  <2>8. Remembered' = [Remembered EXCEPT ![Abstract!Depth].options = IF @ = {} THEN {aflag} ELSE @]
    BY <1>1, <2>1, <2>3, <2>5, <2>6 DEF GainsOptions, Abstract!Depth
  <2> QED BY <1>3, <2>1, <2>7, <2>8 DEF Abstract!SaveOptions
<1> QED BY <1>4, <1>5

LEMMA LeaveIs ==
  ASSUME VarInv, pc # "crash", NEW s, Run(s), pc' # "crash", NEW keep, Gone(s, names), State.stack # <<>>,
         Leaving(s, State, keep)
  PROVE  (keep => Abstract!Keep) /\ (~keep => Abstract!Leave)
<1>1. /\ Variables = View(State) /\ Remembered = ScopesIn(State.heap, State.stack) /\ aflag = State.opts
      /\ Variables' = View(s) /\ Remembered' = ScopesIn(s.heap, s.stack) /\ aflag' = s.opts
      /\ StackOK(State.stack, names)
  BY BecameIs
<1>2. s.err = "none" /\ Whole(s, names)
  BY DEF Run, Gone
<1>3. PICK st, D, lv : st = State.stack /\ D = Len(st) /\ lv = Last(st).lv
  OBVIOUS
<1>4. /\ s.stack = SubSeq(st, 1, D - 1) /\ StackOK(st, names) /\ StackOK(s.stack, names) /\ st # <<>>
      /\ Partly(s, State, lv, Len(lv), keep, Entries(s.stack))
  BY <1>1, <1>2, <1>3 DEF Leaving, Whole
<1>5. PICK c : c = Remembered
  OBVIOUS
<1>6. /\ c = ScopesIn(State.heap, st) /\ DOMAIN st = 1 .. D /\ D \in Nat /\ Len(c) = D
      /\ \A k \in 1 .. D : c[k] = ScopeIn(State.heap, st[k].lv)
  BY <1>1, <1>3, <1>4, <1>5, ScopesAre
<1>7. D \in 1 .. D
  <2>1. st \in Seq([kind : Kinds, lv : Seq(Saved)])
    BY <1>4 DEF StackOK
  <2>2. D # 0
    BY <1>3, <1>4, <2>1
  <2> QED BY <1>6, <2>2
<1>8. c # <<>> /\ Abstract!Depth = D /\ Abstract!Top = ScopeIn(State.heap, lv) /\ ListOK(lv, names)
  <2>1. lv = st[D].lv
    BY <1>3 DEF Last
  <2>2. c # <<>>
    BY <1>6, <1>7
  <2>3. Abstract!Depth = D
    BY <1>5, <1>6 DEF Abstract!Depth
  <2>4. Abstract!Top = c[D]
    BY <1>5, <2>3 DEF Abstract!Top
  <2> QED BY <1>4, <1>6, <1>7, <2>1, <2>2, <2>3, <2>4 DEF StackOK
<1>9. Remembered' = SubSeq(Remembered, 1, Abstract!Depth - 1)
  <2>1. ScopesIn(s.heap, s.stack) = ScopesIn(State.heap, s.stack)
    <3>1. \A e \in Entries(s.stack) : Shows(s.heap, e[2]) = Shows(State.heap, e[2])
      BY <1>4 DEF Partly, SameShows
    <3> QED BY ONLY <1>4, <3>1, ScopesSame
  <2>2. ScopesIn(State.heap, s.stack) = SubSeq(c, 1, D - 1)
    <3>1. PICK q, h : q = s.stack /\ h = State.heap
      OBVIOUS
    <3>2. q = SubSeq(st, 1, Len(st) - 1) /\ StackOK(q, names) /\ StackOK(st, names) /\ st # <<>>
      BY <1>3, <1>4, <3>1
    <3>3. ScopesIn(h, q) = SubSeq(ScopesIn(h, st), 1, Len(st) - 1)
      BY ONLY <3>2, ScopesPopped
    <3> QED BY <1>3, <1>6, <3>1, <3>3
  <2> QED BY <1>1, <1>5, <1>8, <2>1, <2>2
<1>10. ASSUME keep PROVE Abstract!Keep
  <2>1. Kept(s, State)
    BY <1>4, <1>10 DEF Partly
  <2>2. View(s) = View(State)
    <3>1. View(s) = [m \in Names |-> View(s)[m]] /\ View(State) = [m \in Names |-> View(State)[m]]
      BY DEF View, ViewOf
    <3> QED BY <2>1, <3>1 DEF Kept
  <2>3. Variables' = Variables /\ aflag' = aflag
    BY <1>1, <2>1, <2>2 DEF Kept
  <2> QED BY <1>5, <1>8, <1>9, <2>3 DEF Abstract!Keep
<1>11. ASSUME ~keep PROVE Abstract!Leave
  <2>1. Back(s, State, lv, Len(lv))
    BY <1>4, <1>11 DEF Partly
  <2>2. View(s) \in [Names -> Viewed]
    BY <1>2, ViewIs DEF Whole
  <2>3. PICK z : z = ScopeIn(State.heap, lv)
    OBVIOUS
  <2>4. GivesBack(s, State, z)
    <3>1. PICK t : t = State
      OBVIOUS
    <3>2. Back(s, t, lv, Len(lv)) /\ z = ScopeIn(t.heap, lv)
      BY <2>1, <2>3, <3>1
    <3>3. GivesBack(s, t, z)
      BY ONLY <1>8, <2>2, <3>2, BackIs
    <3> QED BY <3>1, <3>3
  <2>5. Abstract!Top = z
    BY <1>8, <2>3
  <2>6. Variables' = [n \in Names |-> IF n \in DOMAIN Abstract!Top.vars THEN Abstract!Top.vars[n] ELSE Variables[n]]
    BY <1>1, <2>4, <2>5 DEF GivesBack
  <2>7. aflag' = IF Abstract!Top.options = {} THEN aflag ELSE CHOOSE o \in Abstract!Top.options : TRUE
    BY <1>1, <2>4, <2>5 DEF GivesBack
  <2> QED BY <1>5, <1>8, <1>9, <2>6, <2>7 DEF Abstract!Leave
<1> QED BY <1>10, <1>11

LEMMA PopStep ==
  ASSUME VarInv, pc # "crash", Bad = {}, Depth > 0, pc' # "crash", NEW keep \in BOOLEAN,
         Run(poplocalvars(State, keep))
  PROVE  Abstract!Keep \/ Abstract!Leave
<1>1. PICK s : s = poplocalvars(State, keep)
  OBVIOUS
<1>2. Run(s) /\ Gone(s, names) /\ Leaving(s, State, keep) /\ State.stack # <<>>
  BY <1>1, PopGood
<1>3. (keep => Abstract!Keep) /\ (~keep => Abstract!Leave)
  BY <1>2, LeaveIs
<1> QED BY <1>3

\* Only the stack changes.
LEMMA EnterIs ==
  ASSUME VarInv, pushlocalvars
  PROVE  Abstract!Enter
<1>1. /\ pc # "crash" /\ UNCHANGED <<vartab, heap, aflag>> /\ Depth < MaxDepth
      /\ localvar_stack' = Append(localvar_stack, [kind |-> "command", lv |-> <<>>])
  BY DEF pushlocalvars
<1>2. PICK st, q : st = localvar_stack /\ q = localvar_stack'
  OBVIOUS
<1>3. StackOK(st, names) /\ Len(st) < MaxDepth /\ q = Append(st, [kind |-> "command", lv |-> <<>>])
  BY <1>1, <1>2 DEF VarInv, Depth
<1>4. StackOK(q, names)
  BY ONLY <1>3, ScopePushed
<1>5. PICK z : z = Abstract!Nothing
  OBVIOUS
<1>6. z.vars = [n \in {} |-> Absent] /\ z.options = {} /\ z = [vars |-> z.vars, options |-> z.options]
  BY <1>5 DEF Abstract!Nothing, Abstract!Unset, Absent
<1>7. ScopesIn(heap, q) = Append(ScopesIn(heap, st), z)
  <2>1. PICK h : h = heap
    OBVIOUS
  <2>2. Pushed(q, st) /\ Empty(z)
    BY <1>3, <1>6 DEF Pushed, Empty
  <2>3. ScopesIn(h, q) = Append(ScopesIn(h, st), z)
    BY ONLY <1>3, <1>4, <2>2, ScopesPushed
  <2> QED BY <2>1, <2>3
<1>8. Remembered' = Append(Remembered, Abstract!Nothing) /\ Variables' = Variables
  BY <1>1, <1>2, <1>5, <1>7, RememberedIs
<1> QED BY <1>1, <1>8 DEF Abstract!Enter

LEMMA BodyIs ==
  ASSUME VarInv, Body
  PROVE  UNCHANGED Abstract!vars
<1>1. pc # "crash" /\ UNCHANGED <<vartab, heap, aflag>> /\ Depth > 0
  BY DEF Body
<1>2. PICK kd : localvar_stack' = [localvar_stack EXCEPT ![Depth].kind = kd]
  BY DEF Body
<1>3. PICK st, q, d : st = localvar_stack /\ q = localvar_stack' /\ d = Depth
  OBVIOUS
<1>4. StackOK(st, names) /\ q = KindSet(st, d, kd) /\ d = Len(st) /\ d > 0
  BY <1>1, <1>2, <1>3 DEF VarInv, Depth, KindSet
<1>5. d \in 1 .. Len(st)
  BY <1>4, StackIs
<1>6. ScopesIn(heap, q) = ScopesIn(heap, st)
  BY ONLY <1>4, <1>5, ScopesKept
<1>7. Remembered' = Remembered /\ Variables' = Variables
  BY <1>1, <1>3, <1>6, RememberedIs
<1> QED BY <1>1, <1>7 DEF Abstract!vars

LEMMA QuietIs ==
  ASSUME UNCHANGED <<vartab, heap, localvar_stack, aflag>>
  PROVE  UNCHANGED Abstract!vars
BY RememberedIs DEF Abstract!vars

LEMMA OptionIs ==
  ASSUME VarInv, SetOption
  PROVE  Abstract!Option
<1>1. pc # "crash"
  BY DEF SetOption, Idle
<1>2. PICK r : r = [State EXCEPT !.opts = ~State.opts]
  OBVIOUS
<1>3. Run(r)
  BY <1>2 DEF SetOption
<1>4. [State EXCEPT !.opts = ~State.opts] = Made(State.tab, State.heap, State.stack, ~State.opts, State.told, State.err)
  BY DEF State, Made
<1>5. r.tab = State.tab /\ r.heap = State.heap /\ r.stack = State.stack /\ r.opts = ~State.opts
  BY <1>2, <1>4, MadeIs
<1>6. /\ Variables = View(State) /\ Remembered = ScopesIn(State.heap, State.stack) /\ aflag = State.opts
      /\ Variables' = View(r) /\ Remembered' = ScopesIn(r.heap, r.stack) /\ aflag' = r.opts
  BY <1>1, <1>3, BecameIs
<1>7. Variables' = Variables /\ Remembered' = Remembered
  BY <1>5, <1>6 DEF View
<1>8. aflag' \in BOOLEAN
  BY <1>5, <1>6
<1> QED BY <1>7, <1>8 DEF Abstract!Option

LEMMA ImplementStep ==
  ASSUME Bad = {}, VarInv, [Next]_vars, pc' # "crash"
  PROVE  Abstract!Next \/ UNCHANGED Abstract!vars
<1>1. names \subseteq Names
  BY DEF VarInv, TypeOK
<1>2. CASE pushlocalvars
  BY <1>2, EnterIs DEF Abstract!Next
<1>3. CASE Assignment
  <2>1. PICK n \in Good, v \in Values : Run(mklocal(State, n, {v}))
    BY <1>3 DEF Assignment
  <2>2. pc # "crash" /\ n \in names /\ n \in Names
    BY <1>1, <1>3 DEF Assignment, Good
  <2>3. Whole(mklocal(State, n, {v}), names) /\ Local(mklocal(State, n, {v}), State, n)
    BY <2>2, OneValue, LocalGood
  <2>4. Abstract!Local(n) \/ Abstract!Change(n)
    BY <2>1, <2>2, <2>3, LocalStep
  <2> QED BY <2>2, <2>4 DEF Abstract!Next
<1>4. CASE SpecialBuiltin \/ EndCommand
  <2>1. PICK keep \in BOOLEAN : Run(poplocalvars(State, keep))
    BY <1>4 DEF SpecialBuiltin, EndCommand
  <2>2. pc # "crash" /\ Depth > 0
    BY <1>4 DEF SpecialBuiltin, EndCommand
  <2> QED BY <2>1, <2>2, PopStep DEF Abstract!Next
<1>5. CASE Body
  BY <1>5, BodyIs
<1>6. CASE Raise \/ Subshell
  BY <1>6, QuietIs DEF Raise, Subshell
<1>7. CASE Unwind \/ Drop
  <2>1. pc # "crash"
    BY <1>7 DEF Unwind, Drop
  <2>2. CASE Depth > 0
    <3>1. PICK keep \in BOOLEAN : Run(poplocalvars(State, keep))
      BY <1>7, <2>2 DEF Unwind, Drop
    <3> QED BY <2>1, <2>2, <3>1, PopStep DEF Abstract!Next
  <2>3. CASE ~(Depth > 0)
    BY <1>7, <2>3, QuietIs DEF Unwind, Drop
  <2> QED BY <2>2, <2>3
<1>8. CASE exportcmd
  <2>1. PICK n \in Good, flag \in {"export", "readonly"} :
          \/ \E v \in Values : Run(setvar(State, n, v, {flag}))
          \/ Run(IF n \in DOMAIN vartab THEN [State EXCEPT !.tab[n].flags = State.tab[n].flags \cup {flag}]
                 ELSE setvar(State, n, "", {flag, "unset"}))
    BY <1>8 DEF exportcmd
  <2>2. pc # "crash" /\ n \in names /\ n \in Names
    BY <1>1, <1>8 DEF exportcmd, Idle, Good
  <2>3. CASE \E v \in Values : Run(setvar(State, n, v, {flag}))
    <3>1. PICK v \in Values : Run(setvar(State, n, v, {flag}))
      BY <2>3
    <3>2. {flag} \in SUBSET Flags /\ "textfixed" \notin {flag} /\ EmptyIfUnset({flag}, v)
      BY DEF Flags, EmptyIfUnset
    <3>3. Changed(setvar(State, n, v, {flag}), State, n)
      BY <2>2, <3>2, OneValue, SetGood
    <3> QED BY <2>2, <3>1, <3>3, ChangeIs DEF Abstract!Next
  <2>4. CASE n \in DOMAIN vartab /\ Run([State EXCEPT !.tab[n].flags = State.tab[n].flags \cup {flag}])
    <3>1. PICK r : r = [State EXCEPT !.tab[n].flags = State.tab[n].flags \cup {flag}]
      OBVIOUS
    <3>2. Whole(State, names) /\ n \in DOMAIN State.tab
      BY <2>2, <2>4, StateIs
    <3>3. Changed(r, State, n)
      BY ONLY <3>1, <3>2, flag \in {"export", "readonly"}, MarkIs
    <3> QED BY <2>2, <2>4, <3>1, <3>3, ChangeIs DEF Abstract!Next
  <2>5. CASE n \notin DOMAIN vartab /\ Run(setvar(State, n, "", {flag, "unset"}))
    <3>1. /\ {flag, "unset"} \in SUBSET Flags /\ "textfixed" \notin {flag, "unset"} /\ "" \in Texts
          /\ EmptyIfUnset({flag, "unset"}, "")
      BY DEF Flags, EmptyIfUnset, Texts
    <3>2. Changed(setvar(State, n, "", {flag, "unset"}), State, n)
      BY <2>2, <3>1, SetGood
    <3> QED BY <2>2, <2>5, <3>2, ChangeIs DEF Abstract!Next
  <2> QED BY <2>1, <2>3, <2>4, <2>5
<1>9. CASE unsetcmd
  <2>1. PICK n \in Good : Run(setvar(State, n, "", {"unset"}))
    BY <1>9 DEF unsetcmd, unsetvar
  <2>2. pc # "crash" /\ n \in names /\ n \in Names
    BY <1>1, <1>9 DEF unsetcmd, Idle, Good
  <2>3. {"unset"} \in SUBSET Flags /\ "textfixed" \notin {"unset"} /\ "" \in Texts /\ EmptyIfUnset({"unset"}, "")
    BY DEF Flags, EmptyIfUnset, Texts
  <2>4. Changed(setvar(State, n, "", {"unset"}), State, n)
    BY <2>2, <2>3, SetGood
  <2> QED BY <2>1, <2>2, <2>4, ChangeIs DEF Abstract!Next
<1>10. CASE Sets
  <2>1. PICK n \in Good, v \in Values : Run(setvar(State, n, v, {}))
    BY <1>10 DEF Sets
  <2>2. pc # "crash" /\ n \in names /\ n \in Names
    BY <1>1, <1>10 DEF Sets, Idle, Good
  <2>3. {} \in SUBSET Flags /\ "textfixed" \notin {} /\ EmptyIfUnset({}, v)
    BY DEF EmptyIfUnset
  <2>4. Changed(setvar(State, n, v, {}), State, n)
    BY <2>2, <2>3, OneValue, SetGood
  <2> QED BY <2>1, <2>2, <2>4, ChangeIs DEF Abstract!Next
<1>11. CASE localcmd
  <2>1. pc # "crash"
    BY <1>11 DEF localcmd, Idle
  <2>2. CASE \E n \in names, values \in {{}} \cup {{v} : v \in Values} : Space(n) /\ Run(mklocal(State, n, values))
    <3>1. PICK n \in names, values \in {{}} \cup {{v} : v \in Values} : Run(mklocal(State, n, values))
      BY <2>2
    <3>2. Assigns(values)
      <4>1. CASE values = {}
        BY <4>1 DEF Assigns
      <4>2. CASE values # {}
        <5>1. PICK v \in Values : values = {v}
          BY <4>2
        <5> QED BY <5>1, OneValue
      <4> QED BY <4>1, <4>2
    <3>3. Whole(mklocal(State, n, values), names) /\ Local(mklocal(State, n, values), State, n) /\ n \in Names
      BY <1>1, <2>1, <3>2, LocalGood
    <3>4. Abstract!Local(n) \/ Abstract!Change(n)
      BY <2>1, <3>1, <3>3, LocalStep
    <3> QED BY <3>3, <3>4 DEF Abstract!Next
  <2>3. CASE Run(mklocalopts(State))
    <3>1. Whole(State, names) /\ State.err = "none"
      BY <2>1, StateIs
    <3>2. PICK r : r = mklocalopts(State)
      OBVIOUS
    <3>3. Whole(r, names) /\ Optioned(r, State)
      BY ONLY <3>1, <3>2, MklocaloptsIs
    <3>4. Run(r)
      BY <2>3, <3>2
    <3>5. Abstract!SaveOptions \/ UNCHANGED Abstract!vars
      BY <2>1, <3>3, <3>4, SaveOptionsIs
    <3> QED BY <3>5 DEF Abstract!Next
  <2> QED BY <1>11, <2>2, <2>3 DEF localcmd
<1>12. CASE SetOption
  BY <1>12, OptionIs DEF Abstract!Next
<1>13. CASE UNCHANGED vars
  BY <1>13, QuietIs DEF vars
<1> QED BY <1>2, <1>3, <1>4, <1>5, <1>6, <1>7, <1>8, <1>9, <1>10, <1>11, <1>12, <1>13 DEF Next, Scopes, Builtins

\* Var implements Env: at any nesting of commands, functions, errors and
\* subshells, a scope that is left gives back every value and mark it saved,
\* a special builtin keeps what was assigned, and no other step touches them.
THEOREM Implements ==
  ASSUME Bad = {}
  PROVE  Spec => Refines
<1>1. VarInv /\ [Next]_vars => [pc' # "crash" => Abstract!Next \/ UNCHANGED Abstract!vars]_vars
  BY ImplementStep
<1> QED BY <1>1, Invariant, PTL DEF Spec, Refines

=============================================================================

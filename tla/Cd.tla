----------------------------------- MODULE Cd -----------------------------------
(***************************************************************************)
(* The current directory: the command cd of cd.c over a tree of            *)
(* directories with symbolic links.  A path is a sequence of characters,   *)
(* for updatepwd works on them.  A shell sh has the directory it is in     *)
(* (cwd), the values of PWD and OLDPWD and of CDPATH, a sequence of paths; *)
(* other processes may have moved or removed the directory since.          *)
(*                                                                         *)
(* A file system fs is: what the names in a directory are (entry, a        *)
(* function on pairs), the text of each symbolic link (link) and the       *)
(* parent of each directory (up); other nodes are files.                   *)
(*                                                                         *)
(* Definitions with a suffix, such as Below_prefix, are faulty variants of *)
(* the definition that follows them.                                       *)
(***************************************************************************)
EXTENDS Integers, Sequences

None == "none"
Slash == <<"/">>
Absolute(s) == s # <<>> /\ s[1] = "/"

RECURSIVE Components(_), Joined(_), Walk(_, _, _), getcwd(_, _)
\* Where the first component of s ends: strchrnul(s, '/').
End(s) ==
  LET slashes == {i \in 1 .. Len(s) : s[i] = "/"}
  IN IF slashes = {} THEN Len(s) + 1 ELSE CHOOSE i \in slashes : \A j \in slashes : i <= j
Components(s) ==
  IF s = <<>> THEN <<>> ELSE IF s[1] = "/" THEN Components(Tail(s))
  ELSE <<SubSeq(s, 1, End(s) - 1)>> \o Components(SubSeq(s, End(s), Len(s)))
Joined(c) == IF c = <<>> THEN <<>> ELSE Slash \o c[1] \o Joined(Tail(c))
Name(c) == IF c = <<>> THEN Slash ELSE Joined(c)

----------------------------------------------------------------------------
(* The file system: what a path leads to from a directory.                 *)

Root == "root"
IsDir(fs, n) == n \in DOMAIN fs.up
Start(cwd, s) == IF Absolute(s) THEN Root ELSE cwd
Walk(fs, n, c) ==
  IF c = <<>> THEN n
  ELSE IF ~IsDir(fs, n) THEN None
  ELSE LET next == CASE c[1] = <<".">> -> n
                     [] c[1] = <<".", ".">> -> fs.up[n]
                     [] OTHER -> IF <<n, c[1]>> \in DOMAIN fs.entry THEN fs.entry[<<n, c[1]>>] ELSE None
       IN IF next \in DOMAIN fs.link
          THEN Walk(fs, Start(n, fs.link[next]), Components(fs.link[next]) \o Tail(c))
          ELSE Walk(fs, next, Tail(c))
stat(fs, cwd, s) ==
  LET n == Walk(fs, Start(cwd, s), Components(s))
  IN IF s = <<>> \/ (s[Len(s)] = "/" /\ ~IsDir(fs, n)) THEN None ELSE n
\* The components of the path of a directory without symbolic links; none is
\* left to one that has been removed.
getcwd(fs, n) ==
  IF n = Root THEN <<>>
  ELSE LET at == {e \in DOMAIN fs.entry : fs.entry[e] = n}
           e == CHOOSE e \in at : TRUE
       IN IF at = {} THEN <<None>> ELSE getcwd(fs, e[1]) \o <<e[2]>>

----------------------------------------------------------------------------
(* cd.c                                                                    *)

NULL == <<"NULL">>
Physical(fs, sh) == LET c == getcwd(fs, sh.cwd) IN IF None \in {c[i] : i \in DOMAIN c} THEN NULL ELSE Name(c)
getpwd(fs, sh, physical) ==
  IF ~physical /\ stat(fs, sh.cwd, sh.pwd) = sh.cwd THEN sh.pwd ELSE Physical(fs, sh)

RECURSIVE Popped(_, _), Normal(_, _, _, _, _)
\* The path without its last component, at least lim characters of it.
Popped(new, lim) ==
  IF Len(new) <= lim THEN new
  ELSE LET rest == SubSeq(new, 1, Len(new) - 1)
       IN IF new[Len(new)] = "/" THEN rest ELSE Popped(rest, lim)
\* The loop of updatepwd: the components of p are added to new.
Normal(fs, cwd, new, p, lim) ==
  LET c == SubSeq(p, 1, End(p) - 1)
      rest == SubSeq(p, End(p) + 1, Len(p))
  IN IF p = <<>> THEN new
     ELSE IF End(p) = 1 THEN Normal(fs, cwd, new, Tail(p), lim)
     ELSE CASE c = <<".", ".">> -> IF stat(fs, cwd, new \o Slash) = None THEN None
                                   ELSE Normal(fs, cwd, Popped(new, lim), rest, lim)
            [] c = <<".">> -> Normal(fs, cwd, new, rest, lim)
            [] OTHER -> Normal(fs, cwd, (IF new[Len(new)] # "/" THEN new \o Slash ELSE new) \o c, rest, lim)
updatepwd(fs, cwd, curdir, dir) ==
  LET two == Len(dir) >= 2 /\ dir[2] = "/" /\ ~(Len(dir) >= 3 /\ dir[3] = "/")
      lim == IF Absolute(dir) /\ two THEN 2 ELSE 1
  IN IF Absolute(dir) THEN Normal(fs, cwd, SubSeq(dir, 1, lim), SubSeq(dir, lim + 1, Len(dir)), lim)
     ELSE Normal(fs, cwd, curdir, dir, lim)

\* What chdir is given for the path dir: the rest of it, if it is below curdir.
Below_prefix(curdir, dir) ==
  LET n == Len(curdir)
  IN IF curdir # NULL /\ Len(dir) > n + 1 /\ SubSeq(dir, 1, n) = curdir
     THEN SubSeq(dir, n + 2, Len(dir)) ELSE dir
Below(curdir, dir) ==
  LET n == IF Len(curdir) = 1 THEN 0 ELSE Len(curdir)
  IN IF curdir # NULL /\ Len(dir) > n + 1 /\ SubSeq(dir, 1, n) = SubSeq(curdir, 1, n) /\ dir[n + 1] = "/"
     THEN SubSeq(dir, n + 2, Len(dir)) ELSE dir

\* How cd ends: what it says, and the shell after it.
Ends(says, sh) == [says |-> says, sh |-> sh]
Moved(fs, sh, n, dir) ==
  LET new == [sh EXCEPT !.cwd = n]
  IN [new EXCEPT !.old = sh.pwd, !.pwd = IF dir = NULL THEN (IF Physical(fs, new) = NULL THEN <<>> ELSE Physical(fs, new)) ELSE dir]
docd(fs, sh, dest, physical, says) ==
  LET curdir == getpwd(fs, sh, FALSE)
      dir == IF physical THEN NULL ELSE updatepwd(fs, sh.cwd, curdir, dest)
      n == stat(fs, sh.cwd, IF physical THEN dest ELSE Below(curdir, dir))
  IN IF ~physical /\ ~Absolute(dest) /\ curdir = NULL THEN Ends("crash", sh)
     ELSE IF dir = None \/ ~IsDir(fs, n) THEN Ends("error", sh)
     ELSE Ends(says, Moved(fs, sh, n, dir))

\* The first component of dest is . or .. and CDPATH is not searched.
Dotted(s) == Components(s) # <<>> /\ Components(s)[1] \in {<<".">>, <<".", ".">>} /\ ~Absolute(s)
Candidate(entry, dest) ==
  IF entry = <<>> THEN dest ELSE (IF entry[Len(entry)] = "/" THEN entry ELSE entry \o Slash) \o dest
Found(fs, sh, dest) == {i \in DOMAIN sh.cdpath : IsDir(fs, stat(fs, sh.cwd, Candidate(sh.cdpath[i], dest)))}
First(S) == CHOOSE i \in S : \A j \in S : i <= j

cdcmd_dotted(fs, sh, arg, physical) ==
  LET back == arg = <<"-">>
      dest == IF back THEN sh.old ELSE arg
      i == First(Found(fs, sh, dest))
  IN IF dest = <<>> THEN Ends("error", sh)
     ELSE IF Absolute(dest) \/ Found(fs, sh, dest) = {}
     THEN docd(fs, sh, dest, physical, IF back THEN "name" ELSE "nothing")
     ELSE docd(fs, sh, Candidate(sh.cdpath[i], dest), physical, IF back \/ sh.cdpath[i] # <<>> THEN "name" ELSE "nothing")
cdcmd(fs, sh, arg, physical) ==
  LET back == arg = <<"-">>
      dest == IF back THEN sh.old ELSE arg
      i == First(Found(fs, sh, dest))
  IN IF dest = <<>> THEN Ends("error", sh)
     ELSE IF Absolute(dest) \/ Dotted(dest) \/ Found(fs, sh, dest) = {}
     THEN docd(fs, sh, dest, physical, IF back THEN "name" ELSE "nothing")
     ELSE docd(fs, sh, Candidate(sh.cdpath[i], dest), physical, IF back \/ sh.cdpath[i] # <<>> THEN "name" ELSE "nothing")

----------------------------------------------------------------------------
(* Where cd is to go: components are followed by name, each .. takes one   *)
(* back that is a directory.                                               *)

RECURSIVE Followed(_, _, _)
Followed(fs, c, rest) ==
  IF rest = <<>> THEN c
  ELSE CASE rest[1] = <<".">> -> Followed(fs, c, Tail(rest))
         [] rest[1] = <<".", ".">> ->
              IF ~IsDir(fs, stat(fs, Root, Name(c))) THEN <<None>>
              ELSE Followed(fs, IF c = <<>> THEN c ELSE SubSeq(c, 1, Len(c) - 1), Tail(rest))
         [] OTHER -> Followed(fs, Append(c, rest[1]), Tail(rest))

\* cd -L with the argument dest, from the root or in a directory that has a
\* name, takes the shell to the directory whose name it is, by the name of the
\* current directory and without regard to what symbolic links lead to, sets
\* PWD to that name and OLDPWD to the former; or it fails and changes nothing.
Goes(fs, sh, dest) ==
  LET base == IF Absolute(dest) THEN <<>> ELSE Components(getpwd(fs, sh, FALSE))
      c == Followed(fs, base, Components(dest))
      n == stat(fs, Root, Name(c))
      end == docd(fs, sh, dest, FALSE, "nothing")
  IN dest # <<>> /\ (Absolute(dest) \/ Physical(fs, sh) # NULL) =>
       IF c = <<None>> \/ ~IsDir(fs, n) THEN end = Ends("error", sh)
       ELSE /\ end.says = "nothing"
            /\ end.sh.cwd = n /\ end.sh.old = sh.pwd /\ end.sh.cdpath = sh.cdpath
            /\ Absolute(end.sh.pwd) /\ Components(end.sh.pwd) = c

\* cd with the argument arg is cd -L (or -P) to the first directory that CDPATH
\* has by that name, unless it is a path from the root, from . or from ..; it
\* says its name if it is not what was asked for.  With -P, PWD is the name
\* without symbolic links.
Chosen(fs, sh, arg, physical) ==
  LET dest == IF arg = <<"-">> THEN sh.old ELSE arg
      names == {i \in DOMAIN sh.cdpath : IsDir(fs, stat(fs, sh.cwd, Candidate(sh.cdpath[i], dest)))}
      search == ~Absolute(dest) /\ (Len(dest) > 0 => Components(dest)[1] \notin {<<".">>, <<".", ".">>})
      i == CHOOSE i \in names : \A j \in names : i <= j
      path == IF search /\ names # {} THEN Candidate(sh.cdpath[i], dest) ELSE dest
      end == cdcmd(fs, sh, arg, physical)
  IN Physical(fs, sh) # NULL /\ dest # <<>> =>
       /\ end.sh = docd(fs, sh, path, physical, "nothing").sh
       /\ end.says # "error" => (end.says = "name") <=> (arg = <<"-">> \/ path # dest)
       /\ physical /\ end.says # "error" =>
            end.sh.cwd = stat(fs, sh.cwd, path) /\ stat(fs, Root, end.sh.pwd) = end.sh.cwd
=================================================================================

------------------------------ MODULE PathWalk ------------------------------
(***************************************************************************)
(* How a1fs.c gets from a path to an inode: the helpers that take a path   *)
(* apart character by character, and the loops that walk it, of which      *)
(* there are three kinds: find_inode_from_path (for readdir and rename),   *)
(* the one in getattr and utimens, and the one to the parent directory in  *)
(* mkdir, create, rmdir and unlink.  A1fs gives its handlers a directory   *)
(* and a name; this module is about that step, on every image A1fs reaches.*)
(***************************************************************************)
EXTENDS A1fs, Sequences

Seqs == INSTANCE SequencesExt

CONSTANTS
  Chars,     \* the characters that names are spelled with
  Spelling,  \* what the names are spelled
  NameMax,   \* A1FS_NAME_MAX, which counts the null character
  PathMax,   \* A1FS_PATH_MAX
  MaxDepth   \* bound on the components of the paths looked at

\* The kernel resolves "." and ".." itself.  (No name is the one character that
\* an extent's count of 1 is, read as a string: that is no file name in Image.)
ASSUME SpellingAssumption ==
  /\ "/" \notin Chars
  /\ \A n \in Names :
       /\ Spelling[n] \in Seq(Chars)
       /\ Spelling[n] \notin {<<>>, <<".">>, <<".", ".">>, <<"^A">>}
       /\ Len(Spelling[n]) < NameMax
  /\ \A n, m \in Names : Spelling[n] = Spelling[m] => n = m

ASSUME PathAssumption == PathMax \in Nat /\ PathMax > 1 /\ MaxDepth \in Nat

\* The bytes at a dentry's name, read as a string: an extent's count is 1.
Spelled(tail) ==
  CASE tail = "."      -> <<".">>
    [] tail = ".."     -> <<".", ".">>
    [] tail = "zeros"  -> <<>>
    [] tail = "extent" -> <<"^A">>
    [] OTHER           -> Spelling[tail]

-----------------------------------------------------------------------------
(* Taking a path apart.                                                    *)

\* A loop along a sequence, from state first.
Fold(Step(_, _), first, seq) ==
  LET after[k \in 0 .. Len(seq)] ==
        IF k = 0 THEN first ELSE Step(after[k - 1], seq[k])
  IN  after[Len(seq)]

Slash(c) == IF c = "/" THEN 1 ELSE 0

num_entry_name(path) ==
  IF Len(path) <= 1 THEN 0
  ELSE Fold(LAMBDA count, c : count + Slash(c), 1, Tail(path))

\* The loops of the two helpers below: the "/" they have counted, whether they
\* are at or after the last, and what they have copied.
Copy(count, done, out) == [count |-> count, done |-> done, out |-> out]

UpToLast(total, w, c) ==
  LET count == w.count + Slash(c)
      done  == w.done \/ count = total
  IN  Copy(count, done, IF done THEN w.out ELSE Append(w.out, c))

get_parent_path(path) ==
  LET total == num_entry_name(path)
  IN  IF total = 1 THEN <<"/">>
      ELSE Fold(LAMBDA w, c : UpToLast(total, w, c), Copy(0, FALSE, <<>>), path).out

\* Mutant: the test for the last "/" comes before the copy.
FromSlash(total, w, c) ==
  LET count == w.count + Slash(c)
      done  == w.done \/ count = total
  IN  Copy(count, done, IF done THEN Append(w.out, c) ELSE w.out)

AfterLast(total, w, c) ==
  LET count == w.count + Slash(c)
  IN  Copy(count, w.done \/ count = total, IF w.done THEN Append(w.out, c) ELSE w.out)

get_last_entry(path) ==
  LET total == num_entry_name(path)
  IN  Fold(LAMBDA w, c : AfterLast(total, w, c), Copy(0, FALSE, <<>>), path).out

\* What strtok returns, call by call.
Tokenize(w, c) ==
  [cut |-> c = "/",
   out |-> IF c = "/" THEN w.out
           ELSE IF w.cut THEN Append(w.out, <<c>>)
           ELSE [w.out EXCEPT ![Len(w.out)] = Append(@, c)]]

Tokens(path) == Fold(Tokenize, [cut |-> TRUE, out |-> <<>>], path).out

-----------------------------------------------------------------------------
(* Walking it.  A walk is at an inode, has looked at so many components,   *)
(* and goes on while err is "0".                                           *)

\* Mutant: the names are compared as far as the component goes.
SamePrefix(tail, t) == Seqs!IsPrefix(t, Spelled(tail))

SameName(tail, t) == Spelled(tail) = t

\* One pass over the entries of the inode the walk is at, whatever it is: a
\* file has two, in a block that was another inode's before.
Scan(s, w, t, missing) ==
  LET at == {k \in 0 .. s.inode[w.cur].dentry_count - 1 :
               /\ SameName(DentryAt(s, w.cur, k).tail, t)
               /\ \A j \in 0 .. k - 1 : ~ SameName(DentryAt(s, w.cur, j).tail, t)}
  IN  IF at = {} THEN [w EXCEPT !.err = missing]
      ELSE [w EXCEPT !.cur = DentryAt(s, w.cur, CHOOSE k \in at : TRUE).word,
                     !.index = @ + 1]

Start == [cur |-> 0, index |-> 1, err |-> "0", stop |-> FALSE]

GoesOn(w) == w.err = "0" /\ ~ w.stop

\* One component of find_inode_from_path.
FindStep(s, total, w, t) ==
  IF ~ GoesOn(w) THEN w
  ELSE IF ~ IsDir(s, w.cur) /\ total # w.index THEN [w EXCEPT !.err = "-ENOTDIR"]
  ELSE [Scan(s, w, t, "-1") EXCEPT !.stop = total = w.index]

\* (Its last line returns the number in the entry that it stopped at; for "/"
\* that is the root's ".".)
find_inode_from_path(s, path) ==
  LET total == num_entry_name(path)
      w == Fold(LAMBDA u, t : FindStep(s, total, u, t), Start, Tokens(path))
  IN  IF w.err = "0" /\ Tokens(path) = <<>>
      THEN [w EXCEPT !.cur = DentryAt(s, 0, 0).word]
      ELSE w

\* One component of the walk of getattr and of utimens.
StatStep(s, total, w, t) ==
  IF ~ GoesOn(w) THEN w
  ELSE IF ~ IsDir(s, w.cur) /\ total # w.index THEN [w EXCEPT !.err = "-ENOTDIR"]
  ELSE Scan(s, w, t, "-ENOENT")

StatWalk(s, path) ==
  LET total == num_entry_name(path)
  IN  Fold(LAMBDA w, t : StatStep(s, total, w, t), Start, Tokens(path))

getattr(s, path) ==
  IF Len(path) >= PathMax
  THEN [Start EXCEPT !.err = "-ENAMETOOLONG"]
  ELSE StatWalk(s, path)

\* One component of the walk of mkdir, create, rmdir and unlink: it stops before
\* the last, at what it took for the parent directory.
ParentStep(s, total, w, t) ==
  IF ~ GoesOn(w) THEN w
  ELSE IF ~ IsDir(s, w.cur) THEN [w EXCEPT !.err = "-ENOTDIR"]
  ELSE IF total = w.index THEN [w EXCEPT !.stop = TRUE]
  ELSE Scan(s, w, t, "-ENOENT")

ParentWalk(s, path) ==
  LET total == num_entry_name(path)
  IN  Fold(LAMBDA w, t : ParentStep(s, total, w, t), Start, Tokens(path))

-----------------------------------------------------------------------------
(* Properties.                                                             *)

\* The path that names ns spell.
PathOf(ns) ==
  IF ns = <<>> THEN <<"/">>
  ELSE Fold(LAMBDA path, n : path \o <<"/">> \o Spelling[n], <<>>, ns)

\* The paths of up to MaxDepth names, of a length that getattr takes.
NamePaths ==
  {ns \in UNION {[1 .. l -> Names] : l \in 1 .. MaxDepth} : Len(PathOf(ns)) < PathMax}

\* The inodes that edges give name n in any of the directories ds, ...
Under(edges, ds, n) == {e[3] : e \in {f \in edges : f[1] \in ds /\ f[2] = n}}

\* ... and those at the end of names ns from d: one, or none.
Along(edges, d, ns) == Fold(LAMBDA ds, n : Under(edges, ds, n), {d}, ns)

InTree(d, ns) == Along(Edges, d, ns)

\* On an intact image getattr finds a path exactly if the tree of names has it,
\* and finds that inode; below a file there is nothing, although getattr scans
\* what older inodes left in a file's block as if it were entries.
StatIsTree ==
  Intact => \A ns \in NamePaths :
    LET w == getattr(img, PathOf(ns))
    IN  InTree(0, ns) = IF w.err = "0" THEN {w.cur} ELSE {}

\* The three walks agree.  readdir lists the inode that getattr described, and
\* rename works in the directory, and on the name, that mkdir, create, rmdir and
\* unlink would for the same path; so does the rmdir or unlink it calls.
WalksAgree ==
  Intact => \A ns \in NamePaths :
    LET path   == PathOf(ns)
        stat   == getattr(img, path)
        find   == find_inode_from_path(img, path)
        parent == ParentWalk(img, path)
        above  == find_inode_from_path(img, get_parent_path(path))
    IN  /\ stat.err = "0" <=> find.err = "0"
        /\ stat.err = "0" => find.cur = stat.cur
        /\ parent.err = "0" <=> above.err = "0" /\ IsDir(img, above.cur)
        /\ parent.err = "0" => above.cur = parent.cur
        /\ get_last_entry(path) = Tokens(path)[Len(Tokens(path))]

=============================================================================

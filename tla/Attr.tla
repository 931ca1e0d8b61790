-------------------------------- MODULE Attr --------------------------------
(***************************************************************************)
(* The rest of the handler table on top of A1fs: getattr, readdir, statfs  *)
(* and utimens, the two inode fields that only they read (links, mtime)    *)
(* with the handlers that store them, and the stubs truncate, read, write. *)
(* Time is the number of the call; a time chosen by a user is 0, one never *)
(* stored is -1.                                                           *)
(***************************************************************************)
EXTENDS PathWalk

CONSTANT MaxCalls \* bound on the number of calls

ASSUME CallsAssumption == MaxCalls \in Nat

VARIABLES
  clock, \* calls so far
  mtime, \* inode.mtime of every inode
  links, \* inode.links
  stamp, \* history: when the node now at an inode was made, or set by a user
  moved  \* history: the directories that rename gave another parent

attrVars == <<vars, clock, mtime, links, stamp, moved>>

\* mkfs stores root's links and leaves its mtime as it is in the file.
AttrInit ==
  /\ Init
  /\ clock = 0
  /\ mtime = [i \in Inodes |-> -1]
  /\ links = [i \in Inodes |-> IF i = 0 THEN 2 ELSE 0]
  /\ stamp = [i \in Inodes |-> -1]
  /\ moved = {}

-----------------------------------------------------------------------------
(* What the reading handlers answer.                                       *)

stat(path) ==
  LET w == getattr(img, path)
  IN  [err   |-> w.err,
       mode  |-> img.inode[w.cur].mode,
       nlink |-> links[w.cur],
       mtime |-> mtime[w.cur]]

\* Mutant: the loop begins behind ".".
readdir_from_one(path) ==
  LET d == find_inode_from_path(img, path).cur
  IN  [x \in 1 .. img.inode[d].dentry_count - 1 |-> DentryAt(img, d, x).tail]

\* The names readdir passes to filler, in order.
readdir(path) ==
  LET d == find_inode_from_path(img, path).cur
  IN  [x \in 1 .. img.inode[d].dentry_count |-> DentryAt(img, d, x - 1).tail]

statfs ==
  [f_bfree |-> img.free_dblock_count,
   f_files |-> InodeCount,
   f_ffree |-> img.free_inode_count]

-----------------------------------------------------------------------------
(* Calls.                                                                  *)

\* The inode that a mkdir or create fills in: one it has taken, unless it then
\* found no blocks.
FilledIn == IF ret' = "1" THEN {} ELSE img'.inode_bitmap \ img.inode_bitmap

\* The directories of the tree an entry of which leads to inode i.
ParentsIn(s, i) ==
  {e[1] : e \in {f \in Steps(s) : f[2] = i /\ f[1] \in ReachableFrom(s, 0)}}

\* Mutant: the time is that of an inode made here for the first time only.
FillOnce ==
  /\ mtime' = [i \in Inodes |-> IF i \in FilledIn /\ mtime[i] = -1 THEN clock' ELSE mtime[i]]
  /\ links' = [i \in Inodes |-> IF i \in FilledIn THEN 2 ELSE links[i]]

Fill ==
  /\ mtime' = [i \in Inodes |-> IF i \in FilledIn THEN clock' ELSE mtime[i]]
  /\ links' = [i \in Inodes |-> IF i \in FilledIn THEN 2 ELSE links[i]]

Tick == clock < MaxCalls /\ clock' = clock + 1

\* One of the handlers of A1fs.
DirectoryCall ==
  /\ Tick
  /\ Next
  /\ Fill
  /\ LET there == ReachableFrom(img', 0)
     IN  /\ stamp' = [i \in Inodes |-> IF i \in there \ Reachable THEN clock' ELSE stamp[i]]
         /\ moved' = {i \in there \cap Reachable :
                        i \in moved \/ ParentsIn(img', i) # ParentsIn(img, i)}

\* The root's path and the others looked at; those of the nodes there are.
AllPaths  == {<<>>} \cup NamePaths
LivePaths == {ns \in AllPaths : InTree(0, ns) # {}}

Utimens(ns) ==
  /\ Tick /\ ret # "SIGSEGV"
  /\ LET w == StatWalk(img, PathOf(ns))
     IN  IF w.err = "0" THEN mtime' = [mtime EXCEPT ![w.cur] = 0] /\ ret' = "0"
                        ELSE UNCHANGED mtime /\ ret' = w.err
  /\ stamp' = [i \in Inodes |-> IF i \in InTree(0, ns) THEN 0 ELSE stamp[i]]
  /\ UNCHANGED <<img, hit, links, moved>>

\* truncate, read and write.
Stub ==
  /\ Tick /\ ret # "SIGSEGV"
  /\ ret' = "-ENOSYS"
  /\ UNCHANGED <<img, hit, mtime, links, stamp, moved>>

\* The bound ends a behaviour.
Stop == clock = MaxCalls /\ UNCHANGED attrVars

AttrNext == DirectoryCall \/ (\E ns \in LivePaths : Utimens(ns)) \/ Stub \/ Stop

AttrSpec == AttrInit /\ [][AttrNext]_attrVars

-----------------------------------------------------------------------------
(* Properties.                                                             *)

\* The time getattr shows is that of the node at the path now, never that of an
\* older inode in its place or of another node.  A file cannot be written, so
\* its time is when it was made, or what utimens set since; a directory's is no
\* older than that.  (a1fs.h asks that it follow the entries made in it; no
\* handler does that, and this property neither asks for it nor excludes it.)
StatShowsOwnTime ==
  Intact => \A ns \in AllPaths :
    \A i \in InTree(0, ns) :
      LET shown == stat(PathOf(ns)).mtime
      IN  IF IsDir(img, i) THEN shown >= stamp[i] ELSE shown = stamp[i]

\* readdir passes ".", ".." and the name of each entry in the tree, each once.
ReaddirIsTree ==
  Intact => \A ns \in AllPaths :
    \A d \in InTree(0, ns) :
      IsDir(img, d) =>
        LET list  == readdir(PathOf(ns))
            named == {e[2] : e \in {f \in Edges : f[1] = d}}
        IN  /\ {list[x] : x \in DOMAIN list} = named \cup {".", ".."}
            /\ Len(list) = Cardinality(named) + 2

\* ".." names the parent of every directory that was not moved; mkdir takes it
\* from the parent's ".".
DotDotOfBirth ==
  Intact => \A d \in Reachable :
    IsDir(img, d) /\ d # 0 /\ d \notin moved =>
      ParentsIn(img, d) = {DentryAt(img, d, 1).word}

Room == statfs.f_ffree >= 1 /\ statfs.f_bfree >= 2

\* What statfs reports decides how the next mkdir or create ends: an inode is
\* filled in only if it reported an inode and two blocks free, and one of A1fs's
\* handlers answers 1 only if it did not; until a mkdir has lowered the counter
\* in vain.
RoomIsRoom ==
  [][Intact /\ "counter_drift" \notin hit =>
       /\ FilledIn # {} => Room
       /\ ret' = "1" /\ DirectoryCall => ~ Room]_attrVars

=============================================================================

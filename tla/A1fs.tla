-------------------------------- MODULE A1fs --------------------------------
(***************************************************************************)
(* The mounted file system: the five handlers of a1fs.c that change the    *)
(* image, in any order a kernel may call them, and unmounting or dying and *)
(* being mounted again.  The mount is single-threaded, so a handler runs   *)
(* to its end, or to the store that kills the process.                     *)
(*                                                                         *)
(* Callers are the kernel's: by the time a handler runs, path lookup has   *)
(* established what the "Assumptions" comment above the handler lists.     *)
(***************************************************************************)
EXTENDS Image

CONSTANTS
  CounterSlack, \* how far the counters are followed out of range
  FollowDamage  \* whether handlers are followed once the image is damaged

ASSUME BoundAssumption == CounterSlack \in Nat /\ FollowDamage \in BOOLEAN

VARIABLES
  img,  \* the image
  ret,  \* what the last call returned
  hit   \* history: which of the branches below were ever taken

vars == <<img, ret, hit>>

(***************************************************************************)
(* The branches worth remembering.  The first two leave the tree of names  *)
(* alone; after one of the others the image may be damaged, and in a       *)
(* damaged image a call can go astray: from then on nothing is known of    *)
(* the image, img is only what it was before.                              *)
(*   counter_drift  mkdir lowered free_inode_count and found no inode      *)
(*   inode_leak     mkdir or create took an inode and found no blocks      *)
(*   overrun        an entry was written past its directory's block        *)
(*   in_place       rename inside one directory did not count its new entry*)
(*   target_kept    rename kept the entry it was to replace                *)
(*   astray         a call went to an inode that was freed, or whose extent *)
(*                  or entries are other bytes by now                      *)
(***************************************************************************)
Harmless == {"counter_drift", "inode_leak"}
Damage   == {"overrun", "in_place", "target_kept", "astray"}
Intact   == hit \cap Damage = {}

\* The inode of the root directory.
RootInode == [mode |-> "dir", dentry_count |-> 2, ext_block |-> FirstData]

\* What mkfs makes of a zeroed image file.
Formatted ==
  [inode_bitmap |-> {0},
   data_bitmap |-> {0, 1},
   free_inode_count |-> InodeCount - 1,
   free_dblock_count |-> DBlockCount - 2,
   inode |-> [i \in Inodes |->
                IF i = 0 THEN RootInode
                ELSE [mode |-> "none", dentry_count |-> 0, ext_block |-> 0]],
   mem |-> [b \in Blocks |-> [k \in Slots |->
              CASE b = FirstData /\ k = 0     -> Extent(FirstData + 1)
                [] b = FirstData + 1 /\ k = 0 -> Dentry(0, ".")
                [] b = FirstData + 1 /\ k = 1 -> Dentry(0, "..")
                [] OTHER                      -> ZeroCell]]]

Init == img = Formatted /\ ret = "0" /\ hit = {}

\* Bounds: calls are followed this far and no further.
Bounded(s) ==
  /\ FollowDamage \/ Intact
  /\ "astray" \notin hit
  /\ \A d \in Inodes : s.inode[d].dentry_count < 2 * DentriesPerBlock
  /\ s.free_inode_count \in -CounterSlack .. InodeCount + CounterSlack
  /\ s.free_dblock_count \in -CounterSlack .. DBlockCount + CounterSlack

Return(s, r, branches) ==
  /\ ret' = r
  /\ hit' = hit \cup branches
  /\ img' = s
  /\ Bounded(img')

Overrun(k) == IF k < DentriesPerBlock THEN {} ELSE {"overrun"}

Reachable == ReachableFrom(img, 0)

\* The directories some path leads to whose inode is allocated and whose extent
\* and entries are what was written for them.  In a damaged image there may be
\* others: calls to them are Astray.
Directories ==
  {p \in Reachable :
     IsDir(img, p) /\ p \in img.inode_bitmap /\ Readable(img, p)}

-----------------------------------------------------------------------------
(* mkdir and create.                                                       *)

\* The walk has found the parent p and the last component n, which does not
\* exist.
MayAdd(p, n) ==
  /\ ret # "SIGSEGV"
  /\ ~ Holds(img, p, n)

\* Mutant: the block counter is lowered before the second search.
NoBlocksCounted(i) ==
  /\ IsFirstFree(img.inode_bitmap, InodeCount, i)
  /\ \/ /\ NoneFree(img.data_bitmap, DBlockCount)
        /\ LET s == TakeInode(img, i) IN Return(s, "1", {"inode_leak"})
     \/ \E e \in DBits :
          /\ IsFirstFree(img.data_bitmap, DBlockCount, e)
          /\ NoneFree(img.data_bitmap \cup {e}, DBlockCount)
          /\ LET s == [TakeInode(img, i) EXCEPT !.free_dblock_count = @ - 2]
             IN  Return(s, "1", {"inode_leak"})

\* An inode is taken, and then there is no block, or only one, left for it.
NoBlocks(i) ==
  /\ IsFirstFree(img.inode_bitmap, InodeCount, i)
  /\ \/ NoneFree(img.data_bitmap, DBlockCount)
     \/ \E e \in DBits : /\ IsFirstFree(img.data_bitmap, DBlockCount, e)
                         /\ NoneFree(img.data_bitmap \cup {e}, DBlockCount)
  /\ LET s == TakeInode(img, i) IN Return(s, "1", {"inode_leak"})

Found(i, e, d) ==
  /\ IsFirstFree(img.inode_bitmap, InodeCount, i)
  /\ IsFirstFree(img.data_bitmap, DBlockCount, e)
  /\ IsFirstFree(img.data_bitmap \cup {e}, DBlockCount, d)

WithNode(p, mode, i, e, d) ==
  AddInode(TakeBlocks(TakeInode(img, i), e, d), p, i, mode, e)

\* The image when the new entry is in place, and the new inode's extent.
WithFile(p, n, mode, i, e, d) ==
  AddExtent(AddEntry(WithNode(p, mode, i, e, d),
                     p, img.inode[p].dentry_count, i, n), e, d)

\* The entry's address is outside the mapping: the stores before it stay.
Killed(p, mode) ==
  /\ ~ Mapped(DataBlock(img, p), img.inode[p].dentry_count)
  /\ \E i \in Inodes, e, d \in DBits :
       /\ Found(i, e, d)
       /\ LET s == WithNode(p, mode, i, e, d) IN Return(s, "SIGSEGV", {"overrun"})

Mkdir(p, n) ==
  /\ MayAdd(p, n)
  /\ \/ /\ NoneFree(img.inode_bitmap, InodeCount)
        /\ LET s == [img EXCEPT !.free_inode_count = @ - 1]
           IN  Return(s, "1", {"counter_drift"})
     \/ \E i \in Inodes : NoBlocks(i)
     \/ Killed(p, "dir")
     \/ /\ Mapped(DataBlock(img, p), img.inode[p].dentry_count)
        /\ \E i \in FirstFree(img.inode_bitmap, InodeCount),
              e \in FirstFree(img.data_bitmap, DBlockCount) :
             \E d \in FirstFree(img.data_bitmap \cup {e}, DBlockCount) :
               LET s == AddDots(WithFile(p, n, "dir", i, e, d),
                                d, i, DentryAt(img, p, 0).word)
               IN  Return(s, "0", Overrun(img.inode[p].dentry_count))

Create(p, n) ==
  /\ MayAdd(p, n)
  /\ \/ /\ NoneFree(img.inode_bitmap, InodeCount)
        /\ Return(img, "1", {})
     \/ \E i \in Inodes : NoBlocks(i)
     \/ Killed(p, "file")
     \/ /\ Mapped(DataBlock(img, p), img.inode[p].dentry_count)
        /\ \E i \in FirstFree(img.inode_bitmap, InodeCount),
              e \in FirstFree(img.data_bitmap, DBlockCount) :
             \E d \in FirstFree(img.data_bitmap \cup {e}, DBlockCount) :
               LET s == WithFile(p, n, "file", i, e, d)
               IN  Return(s, "0", Overrun(img.inode[p].dentry_count))

-----------------------------------------------------------------------------
(* rmdir and unlink.                                                       *)

\* Entry k of p is the one the handler's scan stops at, and it names t.  (When t
\* cannot be read the call is Astray.)
EntryIs(p, n, k, t) ==
  /\ DentryAt(img, p, k).word = t
  /\ IsAt(img, p, n, k)
  /\ Readable(img, t)

\* Mutant: a directory need not be empty.
RmdirUnchecked(p, n) ==
  /\ ret # "SIGSEGV"
  /\ \E k \in 0 .. img.inode[p].dentry_count - 1, t \in Inodes :
       /\ EntryIs(p, n, k, t)
       /\ IsDir(img, t)
       /\ LET s == Remove(img, p, k) IN Return(s, "0", {})

Rmdir(p, n) ==
  /\ ret # "SIGSEGV"
  /\ \E k \in 0 .. img.inode[p].dentry_count - 1, t \in Inodes :
       /\ EntryIs(p, n, k, t)
       /\ IsDir(img, t)
       /\ \/ img.inode[t].dentry_count > 2 /\ Return(img, "-ENOTEMPTY", {})
          \/ /\ img.inode[t].dentry_count <= 2
             /\ LET s == Remove(img, p, k) IN Return(s, "0", {})

Unlink(p, n) ==
  /\ ret # "SIGSEGV"
  /\ \E k \in 0 .. img.inode[p].dentry_count - 1, t \in Inodes :
       /\ EntryIs(p, n, k, t)
       /\ ~ IsDir(img, t)
       /\ LET s == Remove(img, p, k) IN Return(s, "0", {})

-----------------------------------------------------------------------------
(* rename.                                                                 *)

\* What the kernel has checked: from and to are different names, to's parent
\* q is a directory that is not below from, an existing to is of from's kind
\* and from's parent p is not below it.
MayRename(p, n, q, m) ==
  /\ ret # "SIGSEGV"
  /\ <<p, n>> # <<q, m>>
  /\ \E k \in 0 .. img.inode[p].dentry_count - 1, t \in Inodes :
       /\ EntryIs(p, n, k, t)
       /\ IsDir(img, t) => q \notin ReachableFrom(img, t)
       /\ \A j \in 0 .. img.inode[q].dentry_count - 1, u \in Inodes :
            EntryIs(q, m, j, u) =>
              /\ IsDir(img, u) <=> IsDir(img, t)
              /\ p \notin ReachableFrom(img, u)

\* The second half of rename, from the image s its first half left: from's
\* entry is looked for again, to's is added, from's is taken out.
FinishRename(s, p, n, q, m, branches) ==
  LET c == s.inode[q].dentry_count
  IN  \/ /\ ~ Holds(s, p, n)
         /\ Return(s, "1", branches)
      \/ /\ Holds(s, p, n)
         /\ ~ Mapped(DataBlock(s, q), c)
         /\ Return(s, "SIGSEGV", branches \cup {"overrun"})
      \/ /\ Mapped(DataBlock(s, q), c)
         /\ \E k \in 0 .. s.inode[p].dentry_count - 1 :
              /\ IsAt(s, p, n, k)
              /\ LET moved == Move(s, p, k, q, m)
                     here  == IF p = q THEN {"in_place"} ELSE {}
                 IN  Return(moved, "0", branches \cup Overrun(c) \cup here)

\* When to exists, at an index above 0, it is removed first.  Whether rmdir or
\* unlink is called to do it is decided by bytes counted from the block of
\* from's parent by mistake: they may be any, or outside the mapping.  What
\* that call returns is not looked at.  (What the kernel has checked comes last:
\* it costs TLC the most.)
Rename(p, n, q, m) ==
  /\ ret # "SIGSEGV"
  /\ <<p, n>> # <<q, m>>
  /\ Holds(img, p, n)
  /\ \/ /\ \A k \in 0 .. img.inode[q].dentry_count - 1 : IsAt(img, q, m, k) => k = 0
        /\ FinishRename(img, p, n, q, m, {})
     \/ \E k \in 1 .. img.inode[q].dentry_count - 1, t \in Inodes,
           read \in {"dir", "file", "unmapped"} :
          /\ EntryIs(q, m, k, t)
          /\ LET refused == IF read = "dir" THEN img.inode[t].dentry_count > 2
                                            ELSE IsDir(img, t)
             IN  \/ read = "unmapped" /\ Return(img, "SIGSEGV", {})
                 \/ /\ read # "unmapped" /\ refused
                    /\ FinishRename(img, p, n, q, m, {"target_kept"})
                 \/ /\ read # "unmapped" /\ ~ refused
                    /\ LET s == Remove(img, q, k) IN FinishRename(s, p, n, q, m, {})
  /\ MayRename(p, n, q, m)

-----------------------------------------------------------------------------
\* Unmounting, or starting again after the process died, and mounting: the
\* image file has every store, and a1fs_init looks at none of it.
Remount ==
  /\ ret' = "0"
  /\ UNCHANGED <<img, hit>>

\* A call to an inode that was freed as a directory, or whose extent or entries
\* an overrun put other bytes over.  The handlers take the bytes for what they
\* look for: rmdir, for one, clears as many bits as the first bytes of a name
\* say, from the bit that an inode number says.  What becomes of the image is
\* not modelled, and no further call is.
Astray ==
  /\ ret # "SIGSEGV"
  /\ \E d \in Reachable :
       \/ ~ Readable(img, d)
       \/ IsDir(img, d) /\ d \notin img.inode_bitmap
  /\ hit' = hit \cup {"astray"}
  /\ UNCHANGED <<img, ret>>

Next ==
  \/ \E p \in Directories, n \in Names : Mkdir(p, n)
  \/ \E p \in Directories, n \in Names : Create(p, n)
  \/ \E p \in Directories, n \in Names : Rmdir(p, n)
  \/ \E p \in Directories, n \in Names : Unlink(p, n)
  \/ \E p, q \in Directories, n, m \in Names : Rename(p, n, q, m)
  \/ Astray
  \/ Remount

Spec == Init /\ [][Next]_vars

-----------------------------------------------------------------------------
(* Properties.                                                             *)

\* Until a call goes astray, the image keeps its types, also when entries were
\* written past a block or renames left two entries of one name: an inode's
\* blocks are blocks of the data region, every slot of it holds a dentry or an
\* extent the code wrote, and the bitmaps have no bit beyond their counts.
TypeOK ==
  /\ ret \in {"0", "1", "-ENOTEMPTY", "SIGSEGV"}
  /\ hit \subseteq Harmless \cup Damage
  /\ "astray" \notin hit =>
       /\ img \in ImageType
       /\ \A d \in Inodes : img.inode[d].dentry_count \in 0 .. 2 * DentriesPerBlock - 1

\* The root directory has its inode, its two blocks and its extent.
RootKept(s) ==
  /\ 0 \in s.inode_bitmap
  /\ {0, 1} \subseteq s.data_bitmap
  /\ IsDir(s, 0)
  /\ s.inode[0].ext_block = FirstData
  /\ s.mem[FirstData][0] = Extent(FirstData + 1)

\* Until a call goes astray the image can be mounted: overruns, entries of one
\* name, inodes freed while they are named, and a process killed half way do
\* not by themselves take the root directory's inode and blocks away, whatever
\* calls follow them.
RootSafe == "astray" \notin hit => RootKept(img)

\* As long as every rename and every entry kept within its means: whatever a
\* path leads to is allocated and readable, a directory starts with "." and
\* "..", and "." names the directory itself, which is where mkdir takes a new
\* directory's ".." from.
Consistent ==
  Intact => \A d \in Reachable :
    /\ d \in img.inode_bitmap
    /\ Readable(img, d)
    /\ IsDir(img, d) => /\ img.inode[d].dentry_count >= 2
                        /\ DentryAt(img, d, 0) = Dentry(d, ".")
                        /\ DentryAt(img, d, 1).tail = ".."

\* The entries of directory d after "." and "..".
Listing(s, d) == IF IsDir(s, d) THEN 2 .. s.inode[d].dentry_count - 1 ELSE {}

\* No inode but the root's is named twice, the root's is not named at all, and
\* no directory has one name twice: unlink and rmdir free what they remove
\* without looking for another name.
NamedOnce ==
  Intact => \A d, e \in Reachable :
    \A k \in Listing(img, d), l \in Listing(img, e) :
      /\ DentryAt(img, d, k).word # 0
      /\ DentryAt(img, d, k).word = DentryAt(img, e, l).word => d = e /\ k = l
      /\ d = e /\ DentryAt(img, d, k).tail = DentryAt(img, e, l).tail => k = l

\* The bits of the two blocks inode d occupies.
BlocksOf(d) == {Bit(img.inode[d].ext_block), Bit(DataBlock(img, d))}

\* The blocks marked in use are those of the inodes paths lead to, two each and
\* none shared: nothing leaks and nothing is handed out twice.
BlocksAccounted ==
  Intact => /\ img.data_bitmap = UNION {BlocksOf(d) : d \in Reachable}
            /\ Cardinality(img.data_bitmap) = 2 * Cardinality(Reachable)

\* The inodes marked in use are the ones paths lead to; a mkdir or create that
\* failed for want of blocks may have left more.
InodesAccounted ==
  Intact => /\ Reachable \subseteq img.inode_bitmap
            /\ "inode_leak" \notin hit => Reachable = img.inode_bitmap

\* statfs reports what the bitmaps say, also after calls that failed half way,
\* unless mkdir found the inode table full.
CountersExact ==
  Intact => /\ img.free_dblock_count = DBlockCount - Cardinality(img.data_bitmap)
            /\ "counter_drift" \notin hit =>
                 img.free_inode_count = InodeCount - Cardinality(img.inode_bitmap)

-----------------------------------------------------------------------------
(* What a caller sees: a tree of names.                                    *)

Edges ==
  UNION {{<<d, DentryAt(img, d, k).tail, DentryAt(img, d, k).word>> :
            k \in Listing(img, d)} : d \in Reachable}

Tree == INSTANCE Namespace
          WITH Root <- 0, Nodes <- Inodes, edges <- Edges,
               dirs <- {d \in Reachable : IsDir(img, d)}, ok <- Intact

\* As long as the image is intact, every call makes exactly the change to the
\* tree of names that it is for, in the directory and for the name it was given,
\* and answers 0; or it answers the error that is so and makes no change.  (Each
\* handler's steps are steps of the call of Namespace with its arguments.)
ImplementsNamespace ==
  /\ Tree!Init
  /\ [][/\ \A p \in Directories, n \in Names :
             /\ Mkdir(p, n)  => Tree!Mkdir(p, n)
             /\ Create(p, n) => Tree!Create(p, n)
             /\ Rmdir(p, n)  => Tree!Rmdir(p, n)
             /\ Unlink(p, n) => Tree!Unlink(p, n)
        /\ \A p, q \in Directories, n, m \in Names :
             Rename(p, n, q, m) => Tree!Rename(p, n, q, m)
        /\ Remount => Tree!Remount]_vars

-----------------------------------------------------------------------------
(* What the repository says of the calls, and its code does not do.        *)

\* a1fs.c above rename: "Rename a file or directory", "0 on success".  After
\* that answer the new name is there.
RenameArrives ==
  [][\A p, q \in Directories, n, m \in Names :
       Rename(p, n, q, m) /\ ret' = "0" => Holds(img', q, m)]_vars

\* a1fs.h on the block size: "the unit of space allocation.  Each file (and
\* directory) must occupy an integral number of blocks".  Every entry of a
\* directory lies in a block allocated to it, which is one block.
EntriesInOwnBlock ==
  \A d \in Directories : img.inode[d].dentry_count <= DentriesPerBlock

=============================================================================

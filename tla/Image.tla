------------------------------- MODULE Image -------------------------------
(***************************************************************************)
(* The formatted image a1fs works on, and the pieces of the handlers of    *)
(* a1fs.c that read and rewrite it.  An image is a record s:               *)
(*                                                                         *)
(*   inode_bitmap, data_bitmap          the sets of bits that are 1        *)
(*   free_inode_count, free_dblock_count  the superblock's two counters    *)
(*   inode                              the inode table                    *)
(*   mem                                the data region, block by block,   *)
(*                                      cut into slots of one dentry       *)
(*                                                                         *)
(* The data region is untyped, as in C: a slot is the same bytes whether   *)
(* it is read as an a1fs_dentry or as the first a1fs_extent of a block.  A *)
(* dentry index past the end of a directory's block is an address in the   *)
(* block that follows it.                                                  *)
(*                                                                         *)
(* Left out: inode.size and mtime (no code path depends on them), links    *)
(* (always 2) and ext_count (always 1).                                    *)
(***************************************************************************)
EXTENDS Integers, FiniteSets

CONSTANTS
  InodeCount,       \* sb->inode_count
  DBlockCount,      \* sb->dblock_count, the blocks of the data region
  FirstData,        \* sb->first_data, block number of the first of them
  DentriesPerBlock, \* A1FS_BLOCK_SIZE / sizeof(a1fs_dentry)
  Names             \* the file names callers use

ASSUME ImageAssumption ==
  /\ InodeCount \in Nat \ {0}
  /\ DBlockCount \in Nat /\ DBlockCount >= 2
  /\ FirstData \in Nat \ {0}
  /\ DentriesPerBlock \in Nat /\ DentriesPerBlock >= 2
  /\ Names \cap {".", "..", "zeros", "extent"} = {}

Inodes == 0 .. InodeCount - 1
DBits  == 0 .. DBlockCount - 1
Blocks == FirstData .. FirstData + DBlockCount - 1
Slots  == 0 .. DentriesPerBlock - 1

\* The bitmap index of a block of the data region, and the block of a bit.
Bit(b)   == b - FirstData
Block(e) == FirstData + e

(***************************************************************************)
(* A slot's bytes: its first 32-bit word and what follows.  As a dentry    *)
(* they are ino and name, as an extent start and count.  Every extent the  *)
(* code writes has count 1, whose bytes ("extent") are no file name.       *)
(***************************************************************************)
Dentry(i, n) == [word |-> i, tail |-> n]
Extent(b)    == [word |-> b, tail |-> "extent"]
ZeroCell     == [word |-> 0, tail |-> "zeros"]

Cell == [word : Inodes, tail : Names \cup {".", ".."}]
          \cup [word : Blocks, tail : {"extent"}]
          \cup {ZeroCell}

Inode == [mode : {"none", "file", "dir"},
          dentry_count : Int,
          ext_block : Blocks \cup {0}]

MemType == [Blocks -> [Slots -> Cell]]

ImageType == [inode_bitmap : SUBSET Inodes,
              data_bitmap : SUBSET DBits,
              free_inode_count : Int,
              free_dblock_count : Int,
              inode : [Inodes -> Inode],
              mem : MemType]

-----------------------------------------------------------------------------
(* Reading.                                                                *)

\* Bit i is the one find_free_from_bitmap returns; it returns -1 when there
\* is none.
IsFirstFree(bitmap, size, i) ==
  /\ i \in (0 .. size - 1) \ bitmap
  /\ \A j \in 0 .. i - 1 : j \in bitmap

FirstFree(bitmap, size) == {i \in 0 .. size - 1 : IsFirstFree(bitmap, size, i)}

NoneFree(bitmap, size) == 0 .. size - 1 \subseteq bitmap

\* The block named by the first extent of inode d.
DataBlock(s, d) == s.mem[s.inode[d].ext_block][0].word

\* Slot k counted from the start of block b, and whether it is in the image.
At(mem, b, k) == IF k < DentriesPerBlock
                 THEN mem[b][k]
                 ELSE mem[b + 1][k - DentriesPerBlock]
Mapped(b, k)  == k < DentriesPerBlock \/ b + 1 \in Blocks

DentryAt(s, d, k) == At(s.mem, DataBlock(s, d), k)

IsDir(s, d) == s.inode[d].mode = "dir"

\* What inode d is read through is what was written for it: its extent block
\* holds an extent, its entries lie in the image and, in a directory, are no
\* extents.  (Slot 0 is read whatever the count is.)
Readable(s, d) ==
  /\ s.inode[d].ext_block \in Blocks
  /\ s.mem[s.inode[d].ext_block][0].tail = "extent"
  /\ \A k \in {0} \cup 0 .. s.inode[d].dentry_count - 1 :
       /\ Mapped(DataBlock(s, d), k)
       /\ IsDir(s, d) => DentryAt(s, d, k).tail # "extent"

\* The scan of a directory stops at k: the first entry with name n.
IsAt(s, d, n, k) ==
  /\ k \in 0 .. s.inode[d].dentry_count - 1
  /\ DentryAt(s, d, k).tail = n
  /\ \A j \in 0 .. k - 1 : DentryAt(s, d, j).tail # n

Holds(s, d, n) == \E k \in 0 .. s.inode[d].dentry_count - 1 :
                    DentryAt(s, d, k).tail = n

\* The indices at which the scan of directory d can stop, and the inodes one
\* component of a path leads to from there.
Entries(s, d) ==
  {k \in 0 .. s.inode[d].dentry_count - 1 :
     LET n == DentryAt(s, d, k).tail
     IN  n \in Names /\ \A j \in 0 .. k - 1 : DentryAt(s, d, j).tail # n}

Children(s, d) ==
  IF IsDir(s, d) /\ Readable(s, d)
  THEN {DentryAt(s, d, k).word : k \in Entries(s, d)}
  ELSE {}

Steps(s) == UNION {{d} \X Children(s, d) : d \in Inodes}

\* The inodes some path leads to from inode r: those in every set that has r
\* and is closed under one more component.  (A bound variable and no LET names
\* the steps: TLC computes what a LET names anew at each use.)
ReachableFrom(s, r) ==
  UNION {{i \in Inodes :
            \A R \in SUBSET Inodes :
              r \in R /\ (\A e \in steps : e[1] \in R => e[2] \in R) => i \in R} :
         steps \in {Steps(s)}}

-----------------------------------------------------------------------------
(* Writing.  Each operator is a run of stores of one handler, in order;    *)
(* where two of them may hit the same slot the later one is applied last.  *)

Store(mem, b, k, cell) ==
  IF k < DentriesPerBlock
  THEN [mem EXCEPT ![b][k] = cell]
  ELSE [mem EXCEPT ![b + 1][k - DentriesPerBlock] = cell]

\* Mutant: the loop stops one entry early.
forward_layback_one_short(mem, b, k, c) ==
  LET Pos(x, j) == IF x = b THEN j ELSE DentriesPerBlock + j
  IN  [x \in Blocks |-> [j \in Slots |->
         IF x \in {b, b + 1} /\ Pos(x, j) \in k .. c - 3
         THEN At(mem, b, Pos(x, j) + 1)
         ELSE mem[x][j]]]

\* Mutant: the loop starts one entry early.
forward_layback_early(mem, b, k, c) ==
  LET Pos(x, j) == IF x = b THEN j ELSE DentriesPerBlock + j
  IN  [x \in Blocks |-> [j \in Slots |->
         IF x \in {b, b + 1} /\ Pos(x, j) \in k - 1 .. c - 2
         THEN At(mem, b, Pos(x, j) + 1)
         ELSE mem[x][j]]]

\* The entries after index k of the c entries at block b each move down one;
\* the last slot keeps its bytes.
forward_layback_extents(mem, b, k, c) ==
  LET Pos(x, j) == IF x = b THEN j ELSE DentriesPerBlock + j
  IN  [x \in Blocks |-> [j \in Slots |->
         IF x \in {b, b + 1} /\ Pos(x, j) \in k .. c - 2
         THEN At(mem, b, Pos(x, j) + 1)
         ELSE mem[x][j]]]

WithEntries(s, d, delta) ==
  [s EXCEPT !.inode[d].dentry_count = @ + delta]

TakeInode(s, i) ==
  [s EXCEPT !.inode_bitmap = @ \cup {i}, !.free_inode_count = @ - 1]

TakeBlocks(s, e, d) ==
  [s EXCEPT !.data_bitmap = @ \cup {e, d}, !.free_dblock_count = @ - 2]

\* Mutant: the extent block is the first data block, as for the root.
AddInodeAtFirst(s, p, i, mode, e) ==
  [WithEntries(s, p, 1) EXCEPT
     !.inode[i] = [mode |-> mode, dentry_count |-> 2, ext_block |-> FirstData]]

\* cur->dentry_count is raised and the new inode filled in, before its entry
\* is written.
AddInode(s, p, i, mode, e) ==
  [WithEntries(s, p, 1) EXCEPT
     !.inode[i] = [mode |-> mode, dentry_count |-> 2, ext_block |-> Block(e)]]

\* The entry of inode i goes to slot k of directory p's block.
AddEntry(s, p, k, i, n) ==
  [s EXCEPT !.mem = Store(@, DataBlock(s, p), k, Dentry(i, n))]

\* Mutant: the start is an index of the data bitmap, no block number.
AddExtentOfBit(s, e, d) ==
  [s EXCEPT !.mem = Store(@, Block(e), 0, Extent(d))]

AddExtent(s, e, d) ==
  [s EXCEPT !.mem = Store(@, Block(e), 0, Extent(Block(d)))]

\* Mutant: the two inode numbers are swapped.
AddDotsSwapped(s, d, self, parent) ==
  [s EXCEPT !.mem = Store(Store(@, Block(d), 0, Dentry(parent, ".")),
                          Block(d), 1, Dentry(self, ".."))]

AddDots(s, d, self, parent) ==
  [s EXCEPT !.mem = Store(Store(@, Block(d), 0, Dentry(self, ".")),
                          Block(d), 1, Dentry(parent, ".."))]

\* Mutants: the extent block, or the inode, is forgotten.
FreeDataOnly(s, t) ==
  [s EXCEPT !.data_bitmap = @ \ {Bit(DataBlock(s, t))},
            !.inode_bitmap = @ \ {t},
            !.free_inode_count = @ + 1,
            !.free_dblock_count = @ + 2]

FreeBlocksOnly(s, t) ==
  [s EXCEPT !.data_bitmap = @ \ {Bit(DataBlock(s, t)), Bit(s.inode[t].ext_block)},
            !.free_inode_count = @ + 1,
            !.free_dblock_count = @ + 2]

\* The inode and the two blocks it occupies are free again; their contents
\* stay.
FreeNode(s, t) ==
  [s EXCEPT !.data_bitmap = @ \ {Bit(DataBlock(s, t)), Bit(s.inode[t].ext_block)},
            !.inode_bitmap = @ \ {t},
            !.free_inode_count = @ + 1,
            !.free_dblock_count = @ + 2]

DropEntry(s, p, k) ==
  WithEntries([s EXCEPT !.mem = forward_layback_extents(
                                  @, DataBlock(s, p), k, s.inode[p].dentry_count)],
              p, -1)

\* rmdir and unlink from where the target entry k of p is known to go.
Remove(s, p, k) == DropEntry(FreeNode(s, DentryAt(s, p, k).word), p, k)

\* Mutant: from's entry is left where it is.
MoveByLink(s, p, k, q, m) ==
  WithEntries(AddEntry(s, q, s.inode[q].dentry_count, DentryAt(s, p, k).word, m), q, 1)

\* rename from where the old entry k of p is found.  Both directories were
\* located, and p's count is read, before the new entry is written.
Move(s, p, k, q, m) ==
  LET moved == AddEntry(s, q, s.inode[q].dentry_count, DentryAt(s, p, k).word, m)
  IN  WithEntries(WithEntries(
        [moved EXCEPT !.mem = forward_layback_extents(
                                @, DataBlock(s, p), k, s.inode[p].dentry_count)],
        p, -1), q, 1)

=============================================================================

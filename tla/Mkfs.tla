-------------------------------- MODULE Mkfs --------------------------------
(***************************************************************************)
(* The formatter, run again and again on one image file, and between two   *)
(* runs a mounted a1fs that takes and frees inodes and blocks.             *)
(*                                                                         *)
(* Here the image is bits behind a superblock: which bytes of an older     *)
(* image a new bitmap comes to lie on depends on the number of inodes      *)
(* asked for, and what is in them is not known to be zero.  What a store   *)
(* leaves in an inode, an extent block or an entry block is taken to be    *)
(* all ones, the worst a later bitmap can find there.                      *)
(***************************************************************************)
EXTENDS Integers, FiniteSets, Sequences

CONSTANTS
  BlockSize,   \* A1FS_BLOCK_SIZE, in bytes
  BitsPerByte, \* 8
  WordBits,    \* bits in an a1fs_blk_t
  InodeSize,   \* sizeof(a1fs_inode)
  IntMod,      \* an int holds -IntMod / 2 .. IntMod / 2 - 1
  Sizes,       \* the sizes of image files, in blocks
  Counts,      \* the arguments of -i; 0 also stands for a missing one
  MaxDrift     \* bound on the mkdirs that find no inode

ASSUME MkfsAssumption ==
  /\ {BlockSize, BitsPerByte, WordBits, InodeSize, IntMod} \subseteq Nat \ {0}
  /\ BlockSize % InodeSize = 0
  /\ WordBits <= InodeSize * BitsPerByte
  /\ Sizes \subseteq Nat \ {0}
  /\ Counts \subseteq Nat
  /\ IntMod % 2 = 0
  /\ MaxDrift \in Nat

VARIABLES
  file,  \* the image file: its size, superblock and bits
  nodes, \* what the mount has made: inodes with their two blocks, or none
  last,  \* what the last format was asked for and whether it ended well
  clean, \* history: the last format was of a file of zeros
  drift  \* history: the mkdirs since that found no inode

vars == <<file, nodes, last, clean, drift>>

BlockBits  == BlockSize * BitsPerByte
AllBits(f) == 0 .. f.blocks * BlockBits - 1

ToInt(x) == ((x + IntMod \div 2) % IntMod) - IntMod \div 2

\* Mutant: the division alone.
floor_division(a, b) == IF a >= 0 THEN a \div b ELSE -((-a) \div b)

\* C's division rounds towards zero.
ceil_division(a, b) ==
  (IF a >= 0 THEN a \div b ELSE -((-a) \div b)) + (IF a % b = 0 THEN 0 ELSE 1)

\* Mutant: one block is counted for the root directory.
init_super_one_block(n_inode, n_ib, n_db, n_iblock, n_data) ==
  [first_ib |-> 1, first_db |-> 1 + n_ib, first_inode |-> 1 + n_ib + n_db,
   first_data |-> 1 + n_ib + n_db + n_iblock,
   ib_count |-> n_ib, db_count |-> n_db, iblock_count |-> n_iblock,
   inode_count |-> n_inode, free_inode_count |-> n_inode - 1,
   dblock_count |-> n_data, free_dblock_count |-> n_data - 1]

init_super(n_inode, n_ib, n_db, n_iblock, n_data) ==
  [first_ib |-> 1, first_db |-> 1 + n_ib, first_inode |-> 1 + n_ib + n_db,
   first_data |-> 1 + n_ib + n_db + n_iblock,
   ib_count |-> n_ib, db_count |-> n_db, iblock_count |-> n_iblock,
   inode_count |-> n_inode, free_inode_count |-> n_inode - 1,
   dblock_count |-> n_data, free_dblock_count |-> n_data - 2]

\* The superblock mkfs computes for a file of that many blocks.
Superblock(blocks, n_inodes) ==
  LET n_inode  == ToInt(n_inodes)
      n_ib     == ceil_division(n_inode, BlockBits)
      n_db     == ceil_division(blocks, BlockBits)
      n_iblock == ceil_division(ToInt(n_inode * InodeSize), BlockSize)
  IN  init_super(n_inode, n_ib, n_db, n_iblock, blocks - 1 - n_ib - n_db - n_iblock)

\* The superblock of a file that was never formatted.
NoSuperblock == [field \in DOMAIN Superblock(1, 1) |-> 0]

-----------------------------------------------------------------------------
(* The stores of mkfs after the superblock's: runs of bits set to one value.*)

\* The address of a block in bytes from the start of the image: the product is
\* an int, or for the block an extent names, whose number is unsigned, an
\* unsigned int.  (An int that overflows is undefined in C; the build, which
\* does not optimise, wraps it.)
IntAddress(block)  == ToInt(block * BlockSize)
UIntAddress(block) == (block * BlockSize) % IntMod

Run(address, first, len, value) ==
  LET start == address * BitsPerByte + first
  IN  [bits |-> start .. start + len - 1, value |-> value]

\* Mutant: the second block of the root directory stays unmarked.
StoresOneBlock(sb) ==
  << Run(IntAddress(sb.first_ib), 0, sb.inode_count * WordBits, 0),
     Run(IntAddress(sb.first_db), 0, sb.db_count * WordBits, 0),
     Run(IntAddress(sb.first_inode), 0, InodeSize * BitsPerByte, 1),
     Run(IntAddress(sb.first_ib), 0, 1, 1),
     Run(IntAddress(sb.first_data), 0, 2 * WordBits, 1),
     Run(IntAddress(sb.first_db), 0, 1, 1),
     Run(UIntAddress(sb.first_data + 1), 0, BlockBits, 1) >>

\* Both loops store one word per step: inode_count words, db_count words.
\* Then come root's inode and its bit, root's extent and the bit of its block,
\* and the entries and the bit of theirs.
Stores(sb) ==
  << Run(IntAddress(sb.first_ib), 0, sb.inode_count * WordBits, 0),
     Run(IntAddress(sb.first_db), 0, sb.db_count * WordBits, 0),
     Run(IntAddress(sb.first_inode), 0, InodeSize * BitsPerByte, 1),
     Run(IntAddress(sb.first_ib), 0, 1, 1),
     Run(IntAddress(sb.first_data), 0, 2 * WordBits, 1),
     Run(IntAddress(sb.first_db), 0, 1, 1),
     Run(UIntAddress(sb.first_data + 1), 0, BlockBits, 1),
     Run(IntAddress(sb.first_db), 1, 1, 1) >>

\* The stores are made in order; the first that leaves the mapping is made up to
\* there and kills the process.
Made(f, runs) ==
  {k \in DOMAIN runs : \A j \in 1 .. k - 1 : runs[j].bits \subseteq AllBits(f)}

Killed(f, runs) == \E k \in DOMAIN runs : ~ runs[k].bits \subseteq AllBits(f)

\* A bit that is 1 was 1 before, or a store made it 1, and none cleared it since.
BitsAfter(f, bits, runs) ==
  LET made == Made(f, runs)
  IN  {b \in AllBits(f) :
         \E k \in {0} \cup made :
           /\ IF k = 0 THEN b \in bits ELSE b \in runs[k].bits /\ runs[k].value = 1
           /\ \A j \in made : j > k /\ b \in runs[j].bits => runs[j].value = 1}

\* The image mkfs makes of the bits it finds.  Root's extent may be stored over
\* the superblock, where it replaces the magic number.
Formatted(f, bits, n_inodes) ==
  LET sb     == Superblock(f.blocks, n_inodes)
      runs   == Stores(sb)
      killed == Killed(f, runs)
  IN  [blocks |-> f.blocks, sb |-> sb, bits |-> BitsAfter(f, bits, runs),
       magic |-> killed \/ sb.first_data # 0, killed |-> killed]

-----------------------------------------------------------------------------
(* One run of the program.                                                 *)

\* mkfs prints why and ends with status 1.
Refuse == UNCHANGED vars

Format(o) ==
  LET bits == IF o.zero THEN {} ELSE file.bits
      g    == Formatted(file, bits, o.n_inodes)
  IN  /\ file' = [blocks |-> g.blocks, sb |-> g.sb, bits |-> g.bits, magic |-> g.magic]
      /\ nodes' = {}
      /\ last' = [n_inodes |-> o.n_inodes, killed |-> g.killed]
      /\ clean' = (bits = {})
      /\ drift' = 0

\* a1fs_is_present compares the magic number, unless -f was given.
Mkfs(o) ==
  IF o.n_inodes = 0 \/ (~ o.force /\ file.magic) THEN Refuse ELSE Format(o)

Options == [n_inodes : Counts, force : BOOLEAN, zero : BOOLEAN]

-----------------------------------------------------------------------------
(* The mount, as far as a later mkfs and statfs can tell: an inode and two  *)
(* blocks are taken together, first fit, and freed together; an inode that *)
(* finds no two blocks stays taken; and mkdir lowers the inode counter also *)
(* when it finds no inode.  What else goes wrong in a mount is the subject *)
(* of A1fs.                                                                *)

\* What b blocks must hold for n inodes: superblock, bitmaps, inode table and
\* the two blocks of the root directory.
Fits(b, n) ==
  /\ n >= 1
  /\ \E ib, db, t \in 1 .. b :
       /\ ib * BlockBits >= n /\ db * BlockBits >= b /\ t * BlockSize >= n * InodeSize
       /\ 1 + ib + db + t + 2 <= b

\* Every byte of the file has a number that is an int.
Addressable == file.blocks * BlockSize < IntMod \div 2

\* What mounts are followed with.
Usable == file.magic /\ Addressable /\ Fits(file.blocks, file.sb.inode_count)

InodeBit(i)  == file.sb.first_ib * BlockBits + i
BlockBit(k)  == file.sb.first_db * BlockBits + k
MarkedInodes == {i \in 0 .. file.sb.inode_count - 1 : InodeBit(i) \in file.bits}
MarkedBlocks == {k \in 0 .. file.sb.dblock_count - 1 : BlockBit(k) \in file.bits}

IsFirstClear(k, size, marked) ==
  k \in (0 .. size - 1) \ marked /\ 0 .. k - 1 \subseteq marked

\* mkdir and create.
Make ==
  /\ Usable
  /\ \E i \in 0 .. file.sb.inode_count - 1, e, d \in 0 .. file.sb.dblock_count - 1 :
       /\ IsFirstClear(i, file.sb.inode_count, MarkedInodes)
       /\ IsFirstClear(e, file.sb.dblock_count, MarkedBlocks)
       /\ IsFirstClear(d, file.sb.dblock_count, MarkedBlocks \cup {e})
       /\ file' =
            [file EXCEPT
               !.bits = @ \cup {InodeBit(i), BlockBit(e), BlockBit(d)}
                          \cup Run(IntAddress(file.sb.first_inode),
                                   i * InodeSize * BitsPerByte,
                                   InodeSize * BitsPerByte, 1).bits
                          \cup Run(IntAddress(file.sb.first_data + e),
                                   0, 2 * WordBits, 1).bits
                          \cup Run(IntAddress(file.sb.first_data + d),
                                   0, BlockBits, 1).bits,
               !.sb.free_inode_count = @ - 1,
               !.sb.free_dblock_count = @ - 2]
       /\ nodes' = nodes \cup {[ino |-> i, blocks |-> {e, d}]}
  /\ UNCHANGED <<last, clean, drift>>

\* The same calls when there is an inode but there are no two blocks.
Leak ==
  /\ Usable
  /\ Cardinality((0 .. file.sb.dblock_count - 1) \ MarkedBlocks) < 2
  /\ \E i \in 0 .. file.sb.inode_count - 1 :
       /\ IsFirstClear(i, file.sb.inode_count, MarkedInodes)
       /\ file' = [file EXCEPT !.bits = @ \cup {InodeBit(i)},
                               !.sb.free_inode_count = @ - 1]
       /\ nodes' = nodes \cup {[ino |-> i, blocks |-> {}]}
  /\ UNCHANGED <<last, clean, drift>>

\* mkdir when no inode is free.
Drift ==
  /\ Usable
  /\ drift < MaxDrift
  /\ 0 .. file.sb.inode_count - 1 \subseteq MarkedInodes
  /\ file' = [file EXCEPT !.sb.free_inode_count = @ - 1]
  /\ drift' = drift + 1
  /\ UNCHANGED <<nodes, last, clean>>

\* rmdir and unlink: the three bits are cleared, the contents stay.
Unmake ==
  /\ Usable
  /\ \E x \in nodes :
       /\ x.blocks # {}
       /\ file' = [file EXCEPT
                     !.bits = @ \ ({InodeBit(x.ino)} \cup {BlockBit(k) : k \in x.blocks}),
                     !.sb.free_inode_count = @ + 1,
                     !.sb.free_dblock_count = @ + 2]
       /\ nodes' = nodes \ {x}
  /\ UNCHANGED <<last, clean, drift>>

\* A file of zeros, or one with anything in it, that is no a1fs image.
Init ==
  /\ \E b \in Sizes : \E bits \in {{}, 0 .. b * BlockBits - 1} :
       file = [blocks |-> b, sb |-> NoSuperblock, bits |-> bits, magic |-> FALSE]
  /\ nodes = {}
  /\ last = [n_inodes |-> 0, killed |-> FALSE]
  /\ clean = FALSE
  /\ drift = 0

Next == (\E o \in Options : Mkfs(o)) \/ Make \/ Leak \/ Drift \/ Unmake

Spec == Init /\ [][Next]_vars

-----------------------------------------------------------------------------
(* What makes the formatter correct.                                       *)

UsedBlocks == {0, 1} \cup UNION {x.blocks : x \in nodes}

\* In a file whose bytes an int can number, the areas of a superblock that has
\* room for root follow one another without a gap or an overlap from block 1 to
\* the end of the file, and each is large enough for what is kept in it: the
\* divisions and the chain of sums in mkfs.
LayoutSound ==
  Usable =>
    /\ file.sb.first_db = file.sb.first_ib + file.sb.ib_count
    /\ file.sb.first_inode = file.sb.first_db + file.sb.db_count
    /\ file.sb.first_data = file.sb.first_inode + file.sb.iblock_count
    /\ file.sb.first_data + file.sb.dblock_count = file.blocks
    /\ file.sb.inode_count <= file.sb.ib_count * BlockBits
    /\ file.sb.dblock_count <= file.sb.db_count * BlockBits
    /\ file.sb.inode_count * InodeSize <= file.sb.iblock_count * BlockSize
    /\ file.sb.dblock_count >= 2

\* Whatever was in the file before, after a format and any use of it the inode
\* bitmap marks root and the inodes taken since and no other, every block in use is
\* marked in the data bitmap, and no block is used twice: the two loops of mkfs,
\* one of which runs past its bitmap, clear no bit that is set later and leave
\* none in the inode bitmap.
BitmapsCoverUse ==
  Usable => /\ MarkedInodes = {0} \cup {x.ino : x \in nodes}
            /\ UsedBlocks \subseteq MarkedBlocks
            /\ Cardinality(UsedBlocks) = 2 + 2 * Cardinality({x \in nodes : x.blocks # {}})

\* After formatting a file of zeros (-z, or a new file) and for as long as the
\* image is used, the block counter is that of the bitmap, and the inode counter
\* is behind it by one for each mkdir that found no inode, and by nothing else.
FreeCountsExact ==
  Usable /\ clean =>
    /\ file.sb.free_inode_count + drift = file.sb.inode_count - Cardinality(MarkedInodes)
    /\ file.sb.free_dblock_count = file.sb.dblock_count - Cardinality(MarkedBlocks)

\* What mkfs.c:250-251 says: mkfs is "false on error, e.g. options are invalid
\* for given image size"; the process ends by itself and says no.
RefusesWhatDoesNotFit ==
  last.n_inodes # 0 => Fits(file.blocks, last.n_inodes) /\ ~ last.killed

\* What a1fs.h:76-77 says of free_dblock_count and the help text of -f of
\* formatting: an existing file system is overwritten, and the counter is the
\* number of blocks that are free, with or without -z.
OverwrittenIsFree ==
  Usable => file.sb.free_dblock_count = file.sb.dblock_count - Cardinality(MarkedBlocks)

=============================================================================

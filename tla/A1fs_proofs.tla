---------------------------- MODULE A1fs_proofs ----------------------------
(* Proofs about A1fs, for every size of the image and every set of names.  *)
EXTENDS A1fs, TLAPS

(***************************************************************************)
(* Why the root is safe: no entry a path component can match leads to the  *)
(* root, and outside root's own extent block no inode and no extent points *)
(* at root's two blocks, in the slots that are in use or in what older     *)
(* calls left behind.  (A handler reads an extent where there is one:      *)
(* where an entry lies, the call has gone astray.)                         *)
(***************************************************************************)
CellSpares(c) ==
  /\ c.tail \in Names => c.word # 0
  /\ c.tail = "extent" => c.word >= FirstData + 2

MemSpares(mem) ==
  \A b \in Blocks \ {FirstData}, k \in Slots : CellSpares(mem[b][k])

InodesSpare(inode) ==
  \A i \in Inodes \ {0} : inode[i].ext_block = 0 \/ inode[i].ext_block >= FirstData + 2

RootUnreferenced == InodesSpare(img.inode) /\ MemSpares(img.mem)

\* What every run of stores keeps: the image's types, and the root directory
\* with nothing else pointing at it.
CountsNat(s) == \A d \in Inodes : s.inode[d].dentry_count \in Nat

Good(s) ==
  /\ s \in ImageType
  /\ CountsNat(s)
  /\ RootKept(s)
  /\ InodesSpare(s.inode)
  /\ MemSpares(s.mem)

-----------------------------------------------------------------------------
(* What the assumptions on the constants say, number by number.            *)

\* The sizes are positive, with room for the root directory.
LEMMA Sizes ==
  /\ InodeCount \in Nat \ {0}
  /\ DBlockCount \in Nat /\ DBlockCount >= 2
  /\ FirstData \in Nat \ {0}
  /\ DentriesPerBlock \in Nat /\ DentriesPerBlock >= 2
BY ImageAssumption

\* No file name is mistaken for a dot entry, zeros or an extent.
LEMMA NamesApart ==
  "." \notin Names /\ ".." \notin Names /\ "zeros" \notin Names /\ "extent" \notin Names
BY ImageAssumption

-----------------------------------------------------------------------------
(* Reading.                                                                *)

\* A slot within twice a block's slots, and in the image, holds a cell; one
\* outside root's extent block spares the root.
LEMMA AtCell ==
  ASSUME NEW mem \in MemType, MemSpares(mem),
         NEW b \in Blocks, b > FirstData,
         NEW k \in 0 .. 2 * DentriesPerBlock - 1, Mapped(b, k)
  PROVE  At(mem, b, k) \in Cell /\ CellSpares(At(mem, b, k))
<1>1. CASE k < DentriesPerBlock
  <2>1. k \in Slots /\ b \in Blocks \ {FirstData}
    BY <1>1, Sizes DEF Slots, Blocks
  <2>2. At(mem, b, k) = mem[b][k]
    BY <1>1 DEF At
  <2> QED BY <2>1, <2>2 DEF MemType, MemSpares
<1>2. CASE ~ (k < DentriesPerBlock)
  <2>1. k - DentriesPerBlock \in Slots /\ b + 1 \in Blocks \ {FirstData}
    BY <1>2, Sizes DEF Slots, Blocks, Mapped
  <2>2. At(mem, b, k) = mem[b + 1][k - DentriesPerBlock]
    BY <1>2 DEF At
  <2> QED BY <2>1, <2>2 DEF MemType, MemSpares
<1> QED BY <1>1, <1>2

\* The blocks a readable inode is read through; only root's are below
\* FirstData + 2.
LEMMA ReadableBlocks ==
  ASSUME NEW s, Good(s), NEW d \in Inodes, Readable(s, d)
  PROVE  /\ DataBlock(s, d) \in Blocks
         /\ DataBlock(s, d) > FirstData
         /\ d # 0 => /\ DataBlock(s, d) >= FirstData + 2
                     /\ s.inode[d].ext_block \in Blocks
                     /\ s.inode[d].ext_block >= FirstData + 2
<1> DEFINE e == s.inode[d].ext_block
           c == s.mem[e][0]
<1>1. e \in Blocks /\ c.tail = "extent"
  BY DEF Readable
<1>2. 0 \in Slots /\ FirstData \in Nat \ {0} /\ DBlockCount \in Nat /\ 0 \in Inodes
  BY Sizes DEF Slots, Inodes
<1>3. c \in Cell
  BY <1>1, <1>2 DEF Good, ImageType, MemType
<1>4. c.word \in Blocks
  BY <1>1, <1>3, NamesApart DEF Cell, ZeroCell
<1>5. CASE d = 0
  <2>1. c = Extent(FirstData + 1)
    BY <1>5 DEF Good, RootKept
  <2> QED BY <1>2, <1>4, <1>5, <2>1 DEF DataBlock, Extent, Blocks
<1>6. CASE d # 0
  <2>1. e # 0
    BY <1>1, <1>2 DEF Blocks
  <2>2. e >= FirstData + 2
    BY <1>6, <2>1 DEF Good, InodesSpare
  <2>3. e \in Blocks \ {FirstData}
    BY <1>1, <1>2, <2>2 DEF Blocks
  <2>4. CellSpares(c)
    BY <1>2, <2>3 DEF Good, MemSpares
  <2>5. c.word >= FirstData + 2 /\ c.word > FirstData
    BY <1>1, <1>2, <1>4, <2>4 DEF CellSpares, Blocks
  <2>6. DataBlock(s, d) = c.word
    BY DEF DataBlock
  <2> QED BY <1>1, <1>2, <1>4, <2>2, <2>5, <2>6
<1> QED BY <1>5, <1>6

\* An entry of a readable inode, as far as it is followed, is a cell that
\* spares the root.
LEMMA EntryCell ==
  ASSUME NEW s, Good(s), NEW d \in Inodes, Readable(s, d),
         NEW k \in 0 .. 2 * DentriesPerBlock - 1, Mapped(DataBlock(s, d), k)
  PROVE  DentryAt(s, d, k) \in Cell /\ CellSpares(DentryAt(s, d, k))
<1>1. s.mem \in MemType /\ MemSpares(s.mem)
  BY DEF Good, ImageType
<1>2. DataBlock(s, d) \in Blocks /\ DataBlock(s, d) > FirstData
  BY ReadableBlocks
<1> QED BY <1>1, <1>2, AtCell DEF DentryAt

\* An entry with a file name names an inode that is not the root's.
LEMMA NamedInode ==
  ASSUME NEW c \in Cell, CellSpares(c), c.tail \in Names
  PROVE  c.word \in Inodes \ {0}
BY NamesApart DEF Cell, ZeroCell, CellSpares

-----------------------------------------------------------------------------
(* Writing into the data region.                                           *)

\* A store past root's extent block keeps the region as it should be.
LEMMA StoreKeeps ==
  ASSUME NEW mem \in MemType, MemSpares(mem),
         NEW b \in Blocks, b > FirstData,
         NEW k \in 0 .. 2 * DentriesPerBlock - 1, Mapped(b, k),
         NEW c \in Cell, CellSpares(c)
  PROVE  /\ Store(mem, b, k, c) \in MemType
         /\ MemSpares(Store(mem, b, k, c))
         /\ Store(mem, b, k, c)[FirstData] = mem[FirstData]
<1> DEFINE x == IF k < DentriesPerBlock THEN b ELSE b + 1
           j == IF k < DentriesPerBlock THEN k ELSE k - DentriesPerBlock
           new == [mem EXCEPT ![x][j] = c]
<1>1. x \in Blocks \ {FirstData} /\ j \in Slots /\ FirstData \in Blocks
  BY Sizes DEF Blocks, Slots, Mapped
<1>2. Store(mem, b, k, c) = new
  BY DEF Store
<1> HIDE DEF x, j
<1>3. new \in MemType /\ new[FirstData] = mem[FirstData]
  BY <1>1 DEF MemType
<1>4. ASSUME NEW y \in Blocks \ {FirstData}, NEW i \in Slots
      PROVE  CellSpares(new[y][i])
  <2>1. CASE y = x /\ i = j
    <3>1. new[y][i] = c
      BY <1>1, <2>1 DEF MemType
    <3> QED BY <3>1
  <2>2. CASE ~ (y = x /\ i = j)
    <3>1. new[y][i] = mem[y][i]
      BY <1>1, <2>2 DEF MemType
    <3> QED BY <3>1 DEF MemSpares
  <2> QED BY <2>1, <2>2
<1> QED BY <1>2, <1>3, <1>4 DEF MemSpares

\* So does moving entries down.
LEMMA ShiftKeeps ==
  ASSUME NEW mem \in MemType, MemSpares(mem),
         NEW b \in Blocks, b > FirstData,
         NEW k \in Nat, NEW c \in 0 .. 2 * DentriesPerBlock - 1,
         \A i \in 0 .. c - 1 : Mapped(b, i)
  PROVE  /\ forward_layback_extents(mem, b, k, c) \in MemType
         /\ MemSpares(forward_layback_extents(mem, b, k, c))
         /\ forward_layback_extents(mem, b, k, c)[FirstData] = mem[FirstData]
<1> DEFINE new == forward_layback_extents(mem, b, k, c)
           Pos(x, j) == IF x = b THEN j ELSE DentriesPerBlock + j
           moves(x, j) == x \in {b, b + 1} /\ Pos(x, j) \in k .. c - 2
           cell(x, j) == IF moves(x, j) THEN At(mem, b, Pos(x, j) + 1) ELSE mem[x][j]
<1>1. new = [x \in Blocks |-> [j \in Slots |-> cell(x, j)]]
  BY DEF forward_layback_extents
<1>2. ASSUME NEW x \in Blocks, NEW j \in Slots
      PROVE  /\ cell(x, j) \in Cell
             /\ x # FirstData => CellSpares(cell(x, j))
             /\ x = FirstData => cell(x, j) = mem[x][j]
  <2>1. CASE moves(x, j)
    <3> DEFINE i == Pos(x, j) + 1
    <3>1. i \in 0 .. 2 * DentriesPerBlock - 1 /\ i \in 0 .. c - 1
      BY <2>1, Sizes DEF Slots
    <3>2. Mapped(b, i)
      BY <3>1
    <3>3. x # FirstData
      BY <2>1, Sizes DEF Blocks
    <3> HIDE DEF i
    <3>4. At(mem, b, i) \in Cell /\ CellSpares(At(mem, b, i))
      BY <3>1, <3>2, AtCell
    <3>5. cell(x, j) = At(mem, b, i)
      BY <2>1 DEF i
    <3> QED BY <3>3, <3>4, <3>5
  <2>2. CASE ~ moves(x, j)
    <3>1. cell(x, j) = mem[x][j]
      BY <2>2
    <3> QED BY <3>1 DEF MemType, MemSpares
  <2> QED BY <2>1, <2>2
<1> HIDE DEF cell
<1>3. new \in MemType
  BY <1>1, <1>2 DEF MemType
<1>4. MemSpares(new)
  BY <1>1, <1>2 DEF MemSpares
<1>5. new[FirstData] = mem[FirstData]
  <2>1. FirstData \in Blocks
    BY Sizes DEF Blocks
  <2>2. \A j \in Slots : cell(FirstData, j) = mem[FirstData][j]
    BY <1>2, <2>1
  <2>3. mem[FirstData] = [j \in Slots |-> mem[FirstData][j]]
    BY <2>1 DEF MemType
  <2>4. new[FirstData] = [j \in Slots |-> cell(FirstData, j)]
    BY <1>1, <2>1
  <2> QED BY <2>2, <2>3, <2>4
<1> QED BY <1>3, <1>4, <1>5

-----------------------------------------------------------------------------
(* Writing into the image.                                                 *)

\* A good image stays good when its data region, or its inode table, is
\* replaced by one that spares the root.
LEMMA MemReplaced ==
  ASSUME NEW s, Good(s),
         NEW m \in MemType, MemSpares(m), m[FirstData] = s.mem[FirstData]
  PROVE  /\ Good([s EXCEPT !.mem = m])
         /\ [s EXCEPT !.mem = m].inode = s.inode
BY DEF Good, ImageType, CountsNat, RootKept, IsDir

\* The inode table.
LEMMA InodesReplaced ==
  ASSUME NEW s, Good(s),
         NEW f \in [Inodes -> Inode], InodesSpare(f),
         \A d \in Inodes : f[d].dentry_count \in Nat,
         f[0].mode = "dir", f[0].ext_block = FirstData
  PROVE  /\ Good([s EXCEPT !.inode = f])
         /\ [s EXCEPT !.inode = f].mem = s.mem
BY DEF Good, ImageType, CountsNat, RootKept, IsDir

\* Replacing a bitmap and its counter leaves the rest of the image alone.
SetInodeBits(s, bits, n) == [s EXCEPT !.inode_bitmap = bits, !.free_inode_count = n]

SetDataBits(s, bits, n) == [s EXCEPT !.data_bitmap = bits, !.free_dblock_count = n]

\* The inode bitmap and its counter.
LEMMA InodeBitmapReplaced ==
  ASSUME NEW s \in ImageType, NEW bits, bits \subseteq Inodes, NEW n \in Int
  PROVE  LET new == SetInodeBits(s, bits, n)
         IN  /\ new \in ImageType
             /\ new.inode_bitmap = bits /\ new.data_bitmap = s.data_bitmap
             /\ new.free_dblock_count = s.free_dblock_count
             /\ new.inode = s.inode /\ new.mem = s.mem
BY DEF ImageType, SetInodeBits

\* The data bitmap and its counter.
LEMMA DataBitmapReplaced ==
  ASSUME NEW s \in ImageType, NEW bits, bits \subseteq DBits, NEW n \in Int
  PROVE  LET new == SetDataBits(s, bits, n)
         IN  /\ new \in ImageType
             /\ new.data_bitmap = bits /\ new.inode_bitmap = s.inode_bitmap
             /\ new.free_inode_count = s.free_inode_count
             /\ new.inode = s.inode /\ new.mem = s.mem
BY DEF ImageType, SetDataBits

\* Taking an inode.
LEMMA TakeInodeKeeps ==
  ASSUME NEW s, Good(s), NEW i \in Inodes
  PROVE  /\ Good(TakeInode(s, i))
         /\ TakeInode(s, i).inode = s.inode
         /\ TakeInode(s, i).mem = s.mem
<1> DEFINE new == TakeInode(s, i)
<1>1. /\ new \in ImageType
      /\ new.inode_bitmap = s.inode_bitmap \cup {i}
      /\ new.data_bitmap = s.data_bitmap
      /\ new.inode = s.inode
      /\ new.mem = s.mem
  <2>1. s.inode_bitmap \cup {i} \subseteq Inodes /\ s.free_inode_count - 1 \in Int
    BY DEF Good, ImageType
  <2>2. new = SetInodeBits(s, s.inode_bitmap \cup {i}, s.free_inode_count - 1)
    BY DEF TakeInode, SetInodeBits
  <2>3. s \in ImageType
    BY DEF Good
  <2> HIDE DEF new
  <2> QED BY <2>1, <2>2, <2>3, InodeBitmapReplaced
<1> HIDE DEF new
<1>2. Good(new)
  BY <1>1 DEF Good, CountsNat, RootKept, IsDir
<1> QED BY <1>1, <1>2 DEF new

\* Taking two blocks.
LEMMA TakeBlocksKeeps ==
  ASSUME NEW s, Good(s), NEW e \in DBits, NEW d \in DBits
  PROVE  /\ Good(TakeBlocks(s, e, d))
         /\ TakeBlocks(s, e, d).inode = s.inode
         /\ TakeBlocks(s, e, d).mem = s.mem
<1> DEFINE new == TakeBlocks(s, e, d)
<1>1. /\ new \in ImageType
      /\ new.inode_bitmap = s.inode_bitmap
      /\ new.data_bitmap = s.data_bitmap \cup {e, d}
      /\ new.inode = s.inode
      /\ new.mem = s.mem
  <2>1. s.data_bitmap \cup {e, d} \subseteq DBits /\ s.free_dblock_count - 2 \in Int
    BY DEF Good, ImageType
  <2>2. new = SetDataBits(s, s.data_bitmap \cup {e, d}, s.free_dblock_count - 2)
    BY DEF TakeBlocks, SetDataBits
  <2>3. s \in ImageType
    BY DEF Good
  <2> HIDE DEF new
  <2> QED BY <2>1, <2>2, <2>3, DataBitmapReplaced
<1> HIDE DEF new
<1>2. Good(new)
  BY <1>1 DEF Good, CountsNat, RootKept, IsDir
<1> QED BY <1>1, <1>2 DEF new

\* Changing a count by an amount that leaves it a natural number.
LEMMA WithEntriesKeeps ==
  ASSUME NEW s, Good(s), NEW p \in Inodes, NEW delta \in Int,
         s.inode[p].dentry_count + delta \in Nat
  PROVE  /\ Good(WithEntries(s, p, delta))
         /\ WithEntries(s, p, delta).mem = s.mem
         /\ WithEntries(s, p, delta).inode =
              [s.inode EXCEPT ![p].dentry_count = @ + delta]
<1> DEFINE f == [s.inode EXCEPT ![p].dentry_count = @ + delta]
<1>1. s \in ImageType /\ s.inode \in [Inodes -> Inode] /\ 0 \in Inodes
  BY Sizes DEF Good, ImageType, Inodes
<1>2. WithEntries(s, p, delta) = [s EXCEPT !.inode = f]
  BY <1>1 DEF WithEntries, ImageType
<1>3. f \in [Inodes -> Inode]
  BY <1>1 DEF Inode
<1>4. \A d \in Inodes : f[d].mode = s.inode[d].mode /\ f[d].ext_block = s.inode[d].ext_block
  BY <1>1 DEF Inode
<1>5. \A d \in Inodes : f[d].dentry_count \in Nat
  BY <1>1 DEF Inode, Good, CountsNat
<1>6. InodesSpare(f)
  BY <1>4 DEF InodesSpare, Good
<1>7. f[0].mode = "dir" /\ f[0].ext_block = FirstData
  BY <1>1, <1>4 DEF Good, RootKept, IsDir
<1>8. [s EXCEPT !.inode = f].inode = f
  BY <1>1 DEF ImageType
<1> HIDE DEF f
<1>9. Good([s EXCEPT !.inode = f]) /\ [s EXCEPT !.inode = f].mem = s.mem
  BY <1>3, <1>5, <1>6, <1>7, InodesReplaced
<1> QED BY <1>2, <1>8, <1>9 DEF f

\* A new inode that is not the root's, on a block that is not root's.
LEMMA AddInodeKeeps ==
  ASSUME NEW s, Good(s), NEW p \in Inodes, NEW i \in Inodes \ {0}, i # p,
         NEW mode \in {"file", "dir"}, NEW e \in DBits \ {0, 1}
  PROVE  /\ Good(AddInode(s, p, i, mode, e))
         /\ AddInode(s, p, i, mode, e).mem = s.mem
         /\ AddInode(s, p, i, mode, e).inode[p].ext_block = s.inode[p].ext_block
<1> DEFINE t == WithEntries(s, p, 1)
           new == [mode |-> mode, dentry_count |-> 2, ext_block |-> Block(e)]
           f == [t.inode EXCEPT ![i] = new]
<1>1. s.inode \in [Inodes -> Inode] /\ 0 \in Inodes /\ s.inode[p].dentry_count + 1 \in Nat
  BY Sizes DEF Good, ImageType, Inodes, CountsNat
<1>2. /\ Good(t) /\ t.mem = s.mem
      /\ t.inode = [s.inode EXCEPT ![p].dentry_count = @ + 1]
  BY <1>1, WithEntriesKeeps
<1>3. t.inode[p].ext_block = s.inode[p].ext_block
  BY <1>1, <1>2 DEF Inode
<1>4. AddInode(s, p, i, mode, e) = [t EXCEPT !.inode = f]
  BY <1>2 DEF AddInode, Good, ImageType
<1> HIDE DEF t
<1>5. t.inode \in [Inodes -> Inode] /\ t \in ImageType
  BY <1>2 DEF Good, ImageType
<1>6. new \in Inode /\ new.ext_block >= FirstData + 2 /\ new.dentry_count \in Nat
  BY Sizes DEF Inode, Block, Blocks, DBits
<1> HIDE DEF new
<1>7. f \in [Inodes -> Inode] /\ f[i] = new /\ \A d \in Inodes \ {i} : f[d] = t.inode[d]
  BY <1>5, <1>6
<1>8. InodesSpare(f) /\ \A d \in Inodes : f[d].dentry_count \in Nat
  BY <1>2, <1>6, <1>7 DEF InodesSpare, Good, CountsNat
<1>9. f[0].mode = "dir" /\ f[0].ext_block = FirstData
  BY <1>1, <1>2, <1>7 DEF Good, RootKept, IsDir
<1>10. f[p].ext_block = s.inode[p].ext_block
  BY <1>3, <1>7
<1>11. [t EXCEPT !.inode = f].inode = f
  BY <1>5 DEF ImageType
<1> HIDE DEF f
<1>12. Good([t EXCEPT !.inode = f]) /\ [t EXCEPT !.inode = f].mem = t.mem
  BY <1>2, <1>7, <1>8, <1>9, InodesReplaced
<1> QED BY <1>2, <1>4, <1>10, <1>11, <1>12

\* An entry written into a slot of a directory's block, or of the block after.
LEMMA AddEntryKeeps ==
  ASSUME NEW s, Good(s), NEW p,
         DataBlock(s, p) \in Blocks, DataBlock(s, p) > FirstData,
         NEW k \in 0 .. 2 * DentriesPerBlock - 1, Mapped(DataBlock(s, p), k),
         NEW i \in Inodes \ {0}, NEW n \in Names
  PROVE  /\ Good(AddEntry(s, p, k, i, n))
         /\ AddEntry(s, p, k, i, n).inode = s.inode
<1>1. Dentry(i, n) \in Cell /\ CellSpares(Dentry(i, n))
  BY NamesApart DEF Dentry, Cell, CellSpares
<1>2. s.mem \in MemType /\ MemSpares(s.mem)
  BY DEF Good, ImageType
<1> DEFINE m == Store(s.mem, DataBlock(s, p), k, Dentry(i, n))
<1>3. m \in MemType /\ MemSpares(m) /\ m[FirstData] = s.mem[FirstData]
  BY <1>1, <1>2, StoreKeeps
<1>4. AddEntry(s, p, k, i, n) = [s EXCEPT !.mem = m]
  BY DEF AddEntry
<1> HIDE DEF m
<1> QED BY <1>3, <1>4, MemReplaced

\* The extent of a new inode.
LEMMA AddExtentKeeps ==
  ASSUME NEW s, Good(s), NEW e \in DBits \ {0, 1}, NEW d \in DBits \ {0, 1}
  PROVE  /\ Good(AddExtent(s, e, d))
         /\ AddExtent(s, e, d).inode = s.inode
<1>1. Extent(Block(d)) \in Cell /\ CellSpares(Extent(Block(d)))
  BY Sizes, NamesApart DEF Extent, Block, DBits, Blocks, Cell, CellSpares
<1>2. s.mem \in MemType /\ MemSpares(s.mem)
  BY DEF Good, ImageType
<1>3. /\ Block(e) \in Blocks /\ Block(e) > FirstData
      /\ 0 \in 0 .. 2 * DentriesPerBlock - 1 /\ Mapped(Block(e), 0)
  BY Sizes DEF Block, Blocks, DBits, Mapped
<1> DEFINE m == Store(s.mem, Block(e), 0, Extent(Block(d)))
<1>4. m \in MemType /\ MemSpares(m) /\ m[FirstData] = s.mem[FirstData]
  BY <1>1, <1>2, <1>3, StoreKeeps
<1>5. AddExtent(s, e, d) = [s EXCEPT !.mem = m]
  BY DEF AddExtent
<1> HIDE DEF m
<1> QED BY <1>4, <1>5, MemReplaced

\* "." and ".." of a new directory.
LEMMA AddDotsKeeps ==
  ASSUME NEW s, Good(s), NEW d \in DBits \ {0, 1},
         NEW self \in Inodes, NEW parent \in Inodes
  PROVE  Good(AddDots(s, d, self, parent))
<1>1. /\ Dentry(self, ".") \in Cell /\ CellSpares(Dentry(self, "."))
      /\ Dentry(parent, "..") \in Cell /\ CellSpares(Dentry(parent, ".."))
  BY NamesApart DEF Dentry, Cell, CellSpares
<1>2. s.mem \in MemType /\ MemSpares(s.mem)
  BY DEF Good, ImageType
<1>3. /\ Block(d) \in Blocks /\ Block(d) > FirstData
      /\ 0 \in 0 .. 2 * DentriesPerBlock - 1 /\ Mapped(Block(d), 0)
      /\ 1 \in 0 .. 2 * DentriesPerBlock - 1 /\ Mapped(Block(d), 1)
  BY Sizes DEF Block, Blocks, DBits, Mapped
<1> DEFINE m1 == Store(s.mem, Block(d), 0, Dentry(self, "."))
           m2 == Store(m1, Block(d), 1, Dentry(parent, ".."))
<1>4. m1 \in MemType /\ MemSpares(m1) /\ m1[FirstData] = s.mem[FirstData]
  BY <1>1, <1>2, <1>3, StoreKeeps
<1> HIDE DEF m1
<1>5. m2 \in MemType /\ MemSpares(m2) /\ m2[FirstData] = m1[FirstData]
  BY <1>1, <1>3, <1>4, StoreKeeps
<1>6. AddDots(s, d, self, parent) = [s EXCEPT !.mem = m2]
  BY DEF AddDots, m1
<1> HIDE DEF m2
<1> QED BY <1>4, <1>5, <1>6, MemReplaced

\* Freeing an inode that is not the root's.
LEMMA FreeNodeKeeps ==
  ASSUME NEW s, Good(s), NEW t \in Inodes \ {0}, Readable(s, t)
  PROVE  /\ Good(FreeNode(s, t))
         /\ FreeNode(s, t).inode = s.inode
         /\ FreeNode(s, t).mem = s.mem
<1> DEFINE new == FreeNode(s, t)
           bits == {Bit(DataBlock(s, t)), Bit(s.inode[t].ext_block)}
<1>1. 0 \notin bits /\ 1 \notin bits
  BY ReadableBlocks, Sizes DEF Bit, Blocks
<1> HIDE DEF bits
<1>2. /\ new \in ImageType
      /\ new.inode_bitmap = s.inode_bitmap \ {t}
      /\ new.data_bitmap = s.data_bitmap \ bits
      /\ new.inode = s.inode
      /\ new.mem = s.mem
  <2> DEFINE half == SetDataBits(s, s.data_bitmap \ bits, s.free_dblock_count + 2)
             rest == SetInodeBits(half, half.inode_bitmap \ {t}, half.free_inode_count + 1)
  <2>1. s \in ImageType /\ s.data_bitmap \ bits \subseteq DBits
        /\ s.free_dblock_count + 2 \in Int
    BY DEF Good, ImageType
  <2>2. /\ half \in ImageType
        /\ half.data_bitmap = s.data_bitmap \ bits
        /\ half.inode_bitmap = s.inode_bitmap
        /\ half.inode = s.inode /\ half.mem = s.mem
    BY <2>1, DataBitmapReplaced
  <2>3. new = rest
    BY <2>1 DEF FreeNode, ImageType, bits, SetDataBits, SetInodeBits
  <2> HIDE DEF half, new
  <2>4. half.inode_bitmap \ {t} \subseteq Inodes /\ half.free_inode_count + 1 \in Int
    BY <2>2 DEF ImageType
  <2>5. /\ rest \in ImageType
        /\ rest.inode_bitmap = half.inode_bitmap \ {t}
        /\ rest.data_bitmap = half.data_bitmap
        /\ rest.inode = half.inode /\ rest.mem = half.mem
    BY <2>2, <2>4, InodeBitmapReplaced
  <2> QED BY <2>2, <2>3, <2>5
<1> HIDE DEF new
<1>3. Good(new)
  BY <1>1, <1>2 DEF Good, CountsNat, RootKept, IsDir
<1> QED BY <1>2, <1>3 DEF new

\* Taking entry k out of a directory.
LEMMA DropEntryKeeps ==
  ASSUME NEW s, Good(s), NEW p \in Inodes, Readable(s, p),
         s.inode[p].dentry_count < 2 * DentriesPerBlock,
         NEW k \in 0 .. s.inode[p].dentry_count - 1
  PROVE  Good(DropEntry(s, p, k))
<1> DEFINE c == s.inode[p].dentry_count
           m == forward_layback_extents(s.mem, DataBlock(s, p), k, c)
           t == [s EXCEPT !.mem = m]
<1>1. c \in Nat /\ c \in 0 .. 2 * DentriesPerBlock - 1 /\ c - 1 \in Nat
  BY Sizes DEF Good, CountsNat
<1>2. DataBlock(s, p) \in Blocks /\ DataBlock(s, p) > FirstData
  BY ReadableBlocks
<1>3. \A i \in 0 .. c - 1 : Mapped(DataBlock(s, p), i)
  BY DEF Readable
<1>4. s.mem \in MemType /\ MemSpares(s.mem)
  BY DEF Good, ImageType
<1>5. m \in MemType /\ MemSpares(m) /\ m[FirstData] = s.mem[FirstData]
  BY <1>1, <1>2, <1>3, <1>4, ShiftKeeps
<1>6. DropEntry(s, p, k) = WithEntries(t, p, -1)
  BY DEF DropEntry
<1> HIDE DEF m
<1>7. Good(t) /\ t.inode = s.inode
  BY <1>5, MemReplaced
<1> HIDE DEF t
<1>8. t.inode[p].dentry_count + -1 \in Nat /\ -1 \in Int
  BY <1>1, <1>7
<1>9. Good(WithEntries(t, p, -1))
  BY <1>7, <1>8, WithEntriesKeeps
<1> QED BY <1>6, <1>9

\* What an inode is read through depends on the inode table and the data
\* region alone.
LEMMA ReadableSame ==
  ASSUME NEW s, NEW t, NEW d, t.inode = s.inode, t.mem = s.mem, Readable(s, d)
  PROVE  Readable(t, d) /\ DataBlock(t, d) = DataBlock(s, d)
BY DEF Readable, DataBlock, DentryAt, IsDir

\* rmdir and unlink, from where the target is known to go.
LEMMA RemoveKeeps ==
  ASSUME NEW s, Good(s), NEW p \in Inodes, Readable(s, p),
         s.inode[p].dentry_count < 2 * DentriesPerBlock,
         NEW k \in 0 .. s.inode[p].dentry_count - 1,
         DentryAt(s, p, k).tail \in Names,
         Readable(s, DentryAt(s, p, k).word)
  PROVE  Good(Remove(s, p, k))
<1> DEFINE t == DentryAt(s, p, k).word
           f == FreeNode(s, t)
<1>1. k \in 0 .. 2 * DentriesPerBlock - 1 /\ Mapped(DataBlock(s, p), k)
  BY Sizes DEF Readable, Good, CountsNat
<1>2. t \in Inodes \ {0}
  BY <1>1, EntryCell, NamedInode
<1>3. Good(f) /\ f.inode = s.inode /\ f.mem = s.mem
  BY <1>2, FreeNodeKeeps
<1>4. Remove(s, p, k) = DropEntry(f, p, k)
  BY DEF Remove
<1> HIDE DEF f
<1>5. Readable(f, p)
  BY <1>3, ReadableSame
<1> QED BY <1>3, <1>4, <1>5, DropEntryKeeps

\* What removing an entry does to the region and to the inode table: counts
\* only go down.
LEMMA RemoveShape ==
  ASSUME NEW s, Good(s), NEW q \in Inodes, NEW k,
         DentryAt(s, q, k).word \in Inodes \ {0},
         Readable(s, DentryAt(s, q, k).word)
  PROVE  /\ Remove(s, q, k).mem =
              forward_layback_extents(s.mem, DataBlock(s, q), k, s.inode[q].dentry_count)
         /\ \A d \in Inodes :
              /\ Remove(s, q, k).inode[d].ext_block = s.inode[d].ext_block
              /\ Remove(s, q, k).inode[d].mode = s.inode[d].mode
              /\ Remove(s, q, k).inode[d].dentry_count \in Int
              /\ Remove(s, q, k).inode[d].dentry_count <= s.inode[d].dentry_count
<1> DEFINE f == FreeNode(s, DentryAt(s, q, k).word)
           m == forward_layback_extents(s.mem, DataBlock(s, q), k, s.inode[q].dentry_count)
           g == [f EXCEPT !.mem = m]
           new == Remove(s, q, k)
<1>1. Good(f) /\ f.inode = s.inode /\ f.mem = s.mem
  BY FreeNodeKeeps
<1>2. new = WithEntries(g, q, -1)
  <2>1. DataBlock(f, q) = DataBlock(s, q)
    BY <1>1 DEF DataBlock
  <2> QED BY <1>1, <2>1 DEF Remove, DropEntry
<1>3. g.inode = s.inode /\ g.mem = m
  BY <1>1 DEF Good, ImageType
<1>4. g \in [DOMAIN f -> {g[x] : x \in DOMAIN f}] /\ "inode" \in DOMAIN f
  BY <1>1 DEF Good, ImageType
<1> HIDE DEF g, m, new
<1>5. new.mem = m /\ new.inode = [s.inode EXCEPT ![q].dentry_count = @ + -1]
  BY <1>2, <1>3, <1>4 DEF WithEntries
<1>6. s.inode \in [Inodes -> Inode]
  BY DEF Good, ImageType
<1>7. \A d \in Inodes : /\ new.inode[d].ext_block = s.inode[d].ext_block
                        /\ new.inode[d].mode = s.inode[d].mode
                        /\ new.inode[d].dentry_count \in Int
                        /\ new.inode[d].dentry_count <= s.inode[d].dentry_count
  BY <1>5, <1>6 DEF Inode
<1> QED BY <1>5, <1>7 DEF m, new

\* So counts stay as small as they were.
LEMMA RemoveCounts ==
  ASSUME NEW s, Good(s), NEW q \in Inodes, Readable(s, q),
         \A d \in Inodes : s.inode[d].dentry_count < 2 * DentriesPerBlock,
         NEW k \in 0 .. s.inode[q].dentry_count - 1,
         DentryAt(s, q, k).tail \in Names,
         Readable(s, DentryAt(s, q, k).word)
  PROVE  \A d \in Inodes : Remove(s, q, k).inode[d].dentry_count < 2 * DentriesPerBlock
<1>1. k \in 0 .. 2 * DentriesPerBlock - 1 /\ Mapped(DataBlock(s, q), k)
  BY Sizes DEF Readable, Good, CountsNat
<1>2. DentryAt(s, q, k).word \in Inodes \ {0}
  BY <1>1, EntryCell, NamedInode
<1> DEFINE new == Remove(s, q, k)
<1>3. \A d \in Inodes : /\ new.inode[d].dentry_count \in Int
                        /\ new.inode[d].dentry_count <= s.inode[d].dentry_count
  BY <1>2, RemoveShape
<1> HIDE DEF new
<1>4. \A d \in Inodes : s.inode[d].dentry_count \in Nat
  BY DEF Good, CountsNat
<1>5. \A d \in Inodes : new.inode[d].dentry_count < 2 * DentriesPerBlock
  BY <1>3, <1>4, Sizes
<1> QED BY <1>5 DEF new

\* Removing an entry of a directory leaves every inode as readable as it was:
\* what moves down are entries, over entries, so no extent is overwritten and
\* none becomes an entry.
LEMMA RemoveReadable ==
  ASSUME NEW s, Good(s), NEW q \in Inodes, Readable(s, q), IsDir(s, q),
         s.inode[q].dentry_count < 2 * DentriesPerBlock,
         NEW k \in 0 .. s.inode[q].dentry_count - 1,
         DentryAt(s, q, k).tail \in Names,
         Readable(s, DentryAt(s, q, k).word),
         NEW r \in Inodes, Readable(s, r),
         s.inode[r].dentry_count < 2 * DentriesPerBlock
  PROVE  Readable(Remove(s, q, k), r)
<1> DEFINE t == DentryAt(s, q, k).word
           b == DataBlock(s, q)
           c == s.inode[q].dentry_count
           m == forward_layback_extents(s.mem, b, k, c)
           new == Remove(s, q, k)
           e == s.inode[r].ext_block
<1>1. k \in 0 .. 2 * DentriesPerBlock - 1 /\ Mapped(b, k) /\ c \in Nat
  BY Sizes DEF Readable, Good, CountsNat
<1>2. t \in Inodes \ {0}
  BY <1>1, EntryCell, NamedInode
<1>5. /\ new.mem = m
      /\ \A d \in Inodes : /\ new.inode[d].ext_block = s.inode[d].ext_block
                           /\ new.inode[d].mode = s.inode[d].mode
                           /\ new.inode[d].dentry_count \in Int
                           /\ new.inode[d].dentry_count <= s.inode[d].dentry_count
  BY <1>2, RemoveShape
\* Where the region differs, an entry that was at an address of q's is
\* replaced by the next entry of q.
<1>6. ASSUME NEW x \in Blocks, NEW j \in Slots
      PROVE  \/ m[x][j] = s.mem[x][j]
             \/ s.mem[x][j].tail # "extent" /\ m[x][j].tail # "extent"
  <2> DEFINE pos == IF x = b THEN j ELSE DentriesPerBlock + j
  <2>1. m[x][j] = IF x \in {b, b + 1} /\ pos \in k .. c - 2
                  THEN At(s.mem, b, pos + 1) ELSE s.mem[x][j]
    BY DEF forward_layback_extents
  <2>2. CASE x \in {b, b + 1} /\ pos \in k .. c - 2
    <3>1. pos \in 0 .. c - 1 /\ pos + 1 \in 0 .. c - 1
      BY <1>1, <2>2
    <3>2. At(s.mem, b, pos).tail # "extent" /\ At(s.mem, b, pos + 1).tail # "extent"
      BY <3>1 DEF Readable, DentryAt
    <3>3. b \in Blocks
      BY ReadableBlocks
    <3>4. At(s.mem, b, pos) = s.mem[x][j]
      BY <2>2, <3>3, Sizes DEF At, Slots, Blocks
    <3> QED BY <2>1, <2>2, <3>2, <3>4
  <2> QED BY <2>1, <2>2
<1> HIDE DEF m, new
<1>7. e \in Blocks /\ 0 \in Slots /\ s.mem[e][0].tail = "extent"
  BY Sizes DEF Readable, Slots
<1>8. m[e][0] = s.mem[e][0]
  BY <1>6, <1>7
<1>9. DataBlock(new, r) = DataBlock(s, r)
  BY <1>5, <1>8 DEF DataBlock
<1>10. ASSUME NEW i \in {0} \cup 0 .. new.inode[r].dentry_count - 1
       PROVE  /\ Mapped(DataBlock(new, r), i)
              /\ IsDir(new, r) => DentryAt(new, r, i).tail # "extent"
  <2> DEFINE y == DataBlock(s, r)
  <2>1. s.inode[r].dentry_count \in Nat /\ new.inode[r].dentry_count <= s.inode[r].dentry_count
    BY <1>5 DEF Good, CountsNat
  <2>2. i \in {0} \cup 0 .. s.inode[r].dentry_count - 1
    BY <1>5, <2>1
  <2>3. Mapped(y, i) /\ (IsDir(s, r) => At(s.mem, y, i).tail # "extent")
    BY <2>2 DEF Readable, DentryAt
  <2>4. y \in Blocks
    BY ReadableBlocks
  <2>5. i \in 0 .. 2 * DentriesPerBlock - 1
    BY <2>1, <2>2, Sizes
  <2>6. PICK x \in Blocks, j \in Slots :
          At(s.mem, y, i) = s.mem[x][j] /\ At(m, y, i) = m[x][j]
    <3>1. CASE i < DentriesPerBlock
      BY <2>4, <2>5, <3>1, Sizes DEF At, Slots
    <3>2. CASE ~ (i < DentriesPerBlock)
      <4>1. y + 1 \in Blocks /\ i - DentriesPerBlock \in Slots
        BY <2>3, <2>5, <3>2, Sizes DEF Mapped, Slots
      <4> QED BY <3>2, <4>1 DEF At
    <3> QED BY <3>1, <3>2
  <2>7. IsDir(new, r) => At(m, y, i).tail # "extent"
    BY <1>5, <1>6, <2>3, <2>6 DEF IsDir
  <2> QED BY <1>5, <1>9, <2>3, <2>7 DEF DentryAt
<1> QED BY <1>5, <1>7, <1>8, <1>10 DEF Readable, new

\* The second half of rename.
LEMMA MoveKeeps ==
  ASSUME NEW s, Good(s), NEW p \in Inodes, NEW q \in Inodes,
         Readable(s, p), Readable(s, q),
         s.inode[p].dentry_count < 2 * DentriesPerBlock,
         s.inode[q].dentry_count < 2 * DentriesPerBlock,
         NEW k \in 0 .. s.inode[p].dentry_count - 1,
         DentryAt(s, p, k).tail \in Names, NEW m \in Names,
         Mapped(DataBlock(s, q), s.inode[q].dentry_count)
  PROVE  Good(Move(s, p, k, q, m))
<1> DEFINE i == DentryAt(s, p, k).word
           cp == s.inode[p].dentry_count
           cq == s.inode[q].dentry_count
           b == DataBlock(s, p)
           added == AddEntry(s, q, cq, i, m)
           mem == forward_layback_extents(added.mem, b, k, cp)
           t == [added EXCEPT !.mem = mem]
           less == WithEntries(t, p, -1)
<1>1. /\ k \in 0 .. 2 * DentriesPerBlock - 1 /\ Mapped(b, k) /\ k \in Nat
      /\ cp \in 0 .. 2 * DentriesPerBlock - 1 /\ cq \in 0 .. 2 * DentriesPerBlock - 1
      /\ cp - 1 \in Nat
  BY Sizes DEF Readable, Good, CountsNat
<1>2. i \in Inodes \ {0}
  BY <1>1, EntryCell, NamedInode
<1>3. /\ b \in Blocks /\ b > FirstData
      /\ DataBlock(s, q) \in Blocks /\ DataBlock(s, q) > FirstData
  BY ReadableBlocks
<1>4. Good(added) /\ added.inode = s.inode
  BY <1>1, <1>2, <1>3, AddEntryKeeps
<1>5. \A j \in 0 .. cp - 1 : Mapped(b, j)
  BY DEF Readable
<1>6. Move(s, p, k, q, m) = WithEntries(less, q, 1)
  BY DEF Move
<1> HIDE DEF added
<1>7. added.mem \in MemType /\ MemSpares(added.mem)
  BY <1>4 DEF Good, ImageType
<1>8. mem \in MemType /\ MemSpares(mem) /\ mem[FirstData] = added.mem[FirstData]
  BY <1>1, <1>3, <1>5, <1>7, ShiftKeeps
<1> HIDE DEF mem
<1>9. Good(t) /\ t.inode = s.inode
  BY <1>4, <1>8, MemReplaced
<1> HIDE DEF t
<1>10. t.inode[p].dentry_count + -1 \in Nat /\ -1 \in Int
  BY <1>1, <1>9
<1>11. Good(less)
  BY <1>9, <1>10, WithEntriesKeeps
<1> HIDE DEF less
<1>12. less.inode[q].dentry_count + 1 \in Nat /\ 1 \in Int
  BY <1>11 DEF Good, CountsNat
<1>13. Good(WithEntries(less, q, 1))
  BY <1>11, <1>12, WithEntriesKeeps
<1> QED BY <1>6, <1>13

-----------------------------------------------------------------------------
(* The steps.                                                              *)

\* What TypeOK says of the image and of the branches.
Typed ==
  /\ img \in ImageType
  /\ \A d \in Inodes : img.inode[d].dentry_count \in 0 .. 2 * DentriesPerBlock - 1
  /\ hit \subseteq Harmless \cup Damage

\* An answer of the five handlers.
Answered == ret \in {"0", "1", "-ENOTEMPTY", "SIGSEGV"}

\* The inductive invariant.  It says nothing of the answer, so that it serves
\* Attr too, whose handlers have other answers.
IInv == Typed /\ RootKept(img) /\ RootUnreferenced

\* The image of a state is good when the invariant holds...
LEMMA GoodImage ==
  ASSUME IInv
  PROVE  /\ Good(img)
         /\ \A d \in Inodes : img.inode[d].dentry_count < 2 * DentriesPerBlock
BY Sizes DEF IInv, Typed, RootUnreferenced, Good, CountsNat

\* ... and a call that returns with a good image keeps the invariant.
LEMMA GoodReturn ==
  ASSUME IInv, NEW s, Good(s), NEW r,
         NEW branches \in SUBSET (Harmless \cup Damage), Return(s, r, branches)
  PROVE  IInv'
<1>1. /\ img' = s /\ ret' = r /\ hit' = hit \cup branches
      /\ \A d \in Inodes : s.inode[d].dentry_count < 2 * DentriesPerBlock
  BY Zenon DEF Return, Bounded
<1>2. img'.inode = s.inode /\ img'.mem = s.mem
  BY <1>1
<1>3. \A d \in Inodes : img'.inode[d].dentry_count \in 0 .. 2 * DentriesPerBlock - 1
  BY <1>1, Sizes DEF Good, CountsNat
<1>4. img' \in ImageType /\ RootKept(img') /\ InodesSpare(img'.inode) /\ MemSpares(img'.mem)
  BY <1>1 DEF Good
<1>5. hit' \subseteq Harmless \cup Damage
  BY <1>1 DEF IInv, Typed
<1> QED BY <1>3, <1>4, <1>5 DEF IInv, Typed, RootUnreferenced

\* What calls are given: a directory that can be read.
LEMMA DirectoryReadable ==
  ASSUME NEW p \in Directories
  PROVE  p \in Inodes /\ Readable(img, p) /\ IsDir(img, p) /\ p \in img.inode_bitmap
BY DEF Directories, Reachable, ReachableFrom

\* The inode and the blocks a new node is given are not root's, and the inode
\* is not its directory's.
LEMMA FoundFree ==
  ASSUME IInv, NEW p \in Directories,
         NEW i \in Inodes, NEW e \in DBits, NEW d \in DBits, Found(i, e, d)
  PROVE  i \in Inodes \ {0} /\ i # p /\ e \in DBits \ {0, 1} /\ d \in DBits \ {0, 1}
BY DirectoryReadable DEF Found, IsFirstFree, IInv, RootKept

\* mkdir and create up to the new inode.
LEMMA WithNodeKeeps ==
  ASSUME IInv, NEW p \in Directories, NEW mode \in {"file", "dir"},
         NEW i \in Inodes, NEW e \in DBits, NEW d \in DBits, Found(i, e, d)
  PROVE  /\ Good(WithNode(p, mode, i, e, d))
         /\ DataBlock(WithNode(p, mode, i, e, d), p) = DataBlock(img, p)
<1> DEFINE s1 == TakeInode(img, i)
           s2 == TakeBlocks(s1, e, d)
           s3 == AddInode(s2, p, i, mode, e)
<1>1. Good(s1) /\ s1.inode = img.inode /\ s1.mem = img.mem
  BY GoodImage, TakeInodeKeeps
<1> HIDE DEF s1
<1>2. Good(s2) /\ s2.inode = s1.inode /\ s2.mem = s1.mem
  BY <1>1, TakeBlocksKeeps
<1>3. WithNode(p, mode, i, e, d) = s3
  BY DEF WithNode, s1
<1> HIDE DEF s2
<1>4. p \in Inodes /\ i \in Inodes \ {0} /\ i # p /\ e \in DBits \ {0, 1}
  BY DirectoryReadable, FoundFree
<1>5. Good(s3) /\ s3.mem = s2.mem /\ s3.inode[p].ext_block = s2.inode[p].ext_block
  BY <1>2, <1>4, AddInodeKeeps
<1> HIDE DEF s3
<1> QED BY <1>1, <1>2, <1>3, <1>5 DEF DataBlock

\* mkdir and create up to the new inode's extent.
LEMMA WithFileKeeps ==
  ASSUME IInv, NEW p \in Directories, NEW n \in Names, NEW mode \in {"file", "dir"},
         NEW i \in Inodes, NEW e \in DBits, NEW d \in DBits, Found(i, e, d),
         Mapped(DataBlock(img, p), img.inode[p].dentry_count)
  PROVE  Good(WithFile(p, n, mode, i, e, d))
<1> DEFINE c == img.inode[p].dentry_count
           s1 == WithNode(p, mode, i, e, d)
           s2 == AddEntry(s1, p, c, i, n)
<1>1. Good(s1) /\ DataBlock(s1, p) = DataBlock(img, p)
  BY WithNodeKeeps
<1>2. DataBlock(img, p) \in Blocks /\ DataBlock(img, p) > FirstData
  BY DirectoryReadable, GoodImage, ReadableBlocks
<1>3. c \in 0 .. 2 * DentriesPerBlock - 1
  BY DirectoryReadable, GoodImage, Sizes DEF Good, CountsNat
<1>4. i \in Inodes \ {0} /\ e \in DBits \ {0, 1} /\ d \in DBits \ {0, 1}
  BY FoundFree
<1>5. WithFile(p, n, mode, i, e, d) = AddExtent(s2, e, d)
  BY DEF WithFile
<1> HIDE DEF s1, c
<1>6. Good(s2)
  BY <1>1, <1>2, <1>3, <1>4, AddEntryKeeps DEF c
<1> HIDE DEF s2
<1> QED BY <1>4, <1>5, <1>6, AddExtentKeeps

\* What the searches find is what Found says.
LEMMA FoundByFirst ==
  ASSUME NEW i \in FirstFree(img.inode_bitmap, InodeCount),
         NEW e \in FirstFree(img.data_bitmap, DBlockCount),
         NEW d \in FirstFree(img.data_bitmap \cup {e}, DBlockCount)
  PROVE  i \in Inodes /\ e \in DBits /\ d \in DBits /\ Found(i, e, d)
BY DEF FirstFree, Found, Inodes, DBits

\* The sets of branches the handlers report.
LEMMA BranchLabels ==
  /\ {} \in SUBSET (Harmless \cup Damage)
  /\ {"counter_drift"} \in SUBSET (Harmless \cup Damage)
  /\ {"inode_leak"} \in SUBSET (Harmless \cup Damage)
  /\ {"overrun"} \in SUBSET (Harmless \cup Damage)
  /\ {"in_place"} \in SUBSET (Harmless \cup Damage)
  /\ {"target_kept"} \in SUBSET (Harmless \cup Damage)
  /\ {"astray"} \in SUBSET (Harmless \cup Damage)
  /\ \A k : Overrun(k) \in SUBSET (Harmless \cup Damage)
BY DEF Harmless, Damage, Overrun

\* What mkdir and create do alike when there is not enough room.
LEMMA NoBlocksStep ==
  ASSUME IInv, NEW i \in Inodes, NoBlocks(i)
  PROVE  IInv'
<1> DEFINE s == TakeInode(img, i)
<1>1. Good(s)
  BY GoodImage, TakeInodeKeeps
<1>2. Return(s, "1", {"inode_leak"})
  BY DEF NoBlocks
<1> HIDE DEF s
<1> QED BY <1>1, <1>2, BranchLabels, GoodReturn

\* mkdir and create when the entry is outside the mapping.
LEMMA KilledStep ==
  ASSUME IInv, NEW p \in Directories, NEW mode \in {"file", "dir"}, Killed(p, mode)
  PROVE  IInv'
<1>1. PICK i \in Inodes, e \in DBits, d \in DBits :
        /\ Found(i, e, d)
        /\ Return(WithNode(p, mode, i, e, d), "SIGSEGV", {"overrun"})
  BY DEF Killed
<1>2. Good(WithNode(p, mode, i, e, d))
  BY <1>1, WithNodeKeeps
<1> QED BY <1>1, <1>2, BranchLabels, GoodReturn

\* Every return of mkdir keeps the invariant.
LEMMA MkdirStep ==
  ASSUME IInv, NEW p \in Directories, NEW n \in Names, Mkdir(p, n)
  PROVE  IInv'
<1>1. CASE /\ NoneFree(img.inode_bitmap, InodeCount)
           /\ LET s == [img EXCEPT !.free_inode_count = @ - 1]
              IN  Return(s, "1", {"counter_drift"})
  <2> DEFINE s == [img EXCEPT !.free_inode_count = @ - 1]
  <2>1. Good(s)
    BY GoodImage DEF Good, ImageType, CountsNat, RootKept, IsDir
  <2>2. Return(s, "1", {"counter_drift"})
    BY <1>1
  <2> HIDE DEF s
  <2> QED BY <2>1, <2>2, BranchLabels, GoodReturn
<1>2. CASE \E i \in Inodes : NoBlocks(i)
  BY <1>2, NoBlocksStep
<1>3. CASE Killed(p, "dir")
  BY <1>3, KilledStep
<1>4. ASSUME NEW i \in Inodes, NEW e \in DBits, NEW d \in DBits,
             Found(i, e, d),
             Mapped(DataBlock(img, p), img.inode[p].dentry_count),
             Return(AddDots(WithFile(p, n, "dir", i, e, d),
                            d, i, DentryAt(img, p, 0).word),
                    "0", Overrun(img.inode[p].dentry_count))
      PROVE  IInv'
  <2> DEFINE s == WithFile(p, n, "dir", i, e, d)
             up == DentryAt(img, p, 0).word
  <2>1. Good(s)
    BY <1>4, WithFileKeeps
  <2>2. /\ p \in Inodes /\ Readable(img, p) /\ DentryAt(img, p, 0).tail # "extent"
        /\ Mapped(DataBlock(img, p), 0)
    BY DirectoryReadable DEF Readable
  <2>3. DentryAt(img, p, 0) \in Cell
    BY <2>2, GoodImage, EntryCell, Sizes
  <2>4. up \in Inodes
    BY <2>2, <2>3, Sizes DEF Cell, ZeroCell, Inodes
  <2>5. d \in DBits \ {0, 1}
    BY <1>4, FoundFree
  <2> HIDE DEF s, up
  <2>6. Good(AddDots(s, d, i, up))
    BY <2>1, <2>4, <2>5, AddDotsKeeps
  <2>7. Return(AddDots(s, d, i, up), "0", Overrun(img.inode[p].dentry_count))
    BY <1>4 DEF s, up
  <2> QED BY <2>6, <2>7, BranchLabels, GoodReturn
<1> QED BY <1>1, <1>2, <1>3, <1>4, FoundByFirst DEF Mkdir

\* Every return of create keeps the invariant.
LEMMA CreateStep ==
  ASSUME IInv, NEW p \in Directories, NEW n \in Names, Create(p, n)
  PROVE  IInv'
<1>1. CASE Return(img, "1", {})
  BY <1>1, GoodImage, BranchLabels, GoodReturn
<1>2. CASE \E i \in Inodes : NoBlocks(i)
  BY <1>2, NoBlocksStep
<1>3. CASE Killed(p, "file")
  BY <1>3, KilledStep
<1>4. ASSUME NEW i \in Inodes, NEW e \in DBits, NEW d \in DBits,
             Found(i, e, d),
             Mapped(DataBlock(img, p), img.inode[p].dentry_count),
             Return(WithFile(p, n, "file", i, e, d), "0",
                    Overrun(img.inode[p].dentry_count))
      PROVE  IInv'
  <2>1. Good(WithFile(p, n, "file", i, e, d))
    BY <1>4, WithFileKeeps
  <2> QED BY <1>4, <2>1, BranchLabels, GoodReturn
<1> QED BY <1>1, <1>2, <1>3, <1>4, FoundByFirst DEF Create

\* Where a scan stops at t by a file name, removing t keeps the image good.
LEMMA EntryRemoved ==
  ASSUME IInv, NEW p \in Directories, NEW n \in Names,
         NEW k \in 0 .. img.inode[p].dentry_count - 1, NEW t \in Inodes,
         EntryIs(p, n, k, t)
  PROVE  Good(Remove(img, p, k))
<1>1. /\ p \in Inodes /\ Readable(img, p)
      /\ img.inode[p].dentry_count < 2 * DentriesPerBlock
      /\ DentryAt(img, p, k).tail \in Names
      /\ Readable(img, DentryAt(img, p, k).word)
  BY GoodImage, DirectoryReadable DEF EntryIs, IsAt
<1> QED BY <1>1, GoodImage, RemoveKeeps

\* Every return of rmdir keeps the invariant.
LEMMA RmdirStep ==
  ASSUME IInv, NEW p \in Directories, NEW n \in Names, Rmdir(p, n)
  PROVE  IInv'
<1>1. PICK k \in 0 .. img.inode[p].dentry_count - 1, t \in Inodes :
        /\ EntryIs(p, n, k, t)
        /\ \/ Return(img, "-ENOTEMPTY", {})
           \/ Return(Remove(img, p, k), "0", {})
  BY DEF Rmdir
<1>2. Good(Remove(img, p, k)) /\ Good(img)
  BY <1>1, EntryRemoved, GoodImage
<1> QED BY <1>1, <1>2, BranchLabels, GoodReturn

\* Every return of unlink keeps the invariant.
LEMMA UnlinkStep ==
  ASSUME IInv, NEW p \in Directories, NEW n \in Names, Unlink(p, n)
  PROVE  IInv'
<1>1. PICK k \in 0 .. img.inode[p].dentry_count - 1, t \in Inodes :
        /\ EntryIs(p, n, k, t)
        /\ Return(Remove(img, p, k), "0", {})
  BY DEF Unlink
<1>2. Good(Remove(img, p, k))
  BY <1>1, EntryRemoved
<1> QED BY <1>1, <1>2, BranchLabels, GoodReturn

\* The second half of rename, from any good image the first half left.
LEMMA FinishRenameStep ==
  ASSUME IInv, NEW s, Good(s), NEW p \in Inodes, NEW q \in Inodes,
         NEW n \in Names, NEW m \in Names,
         Readable(s, p), Readable(s, q),
         s.inode[p].dentry_count < 2 * DentriesPerBlock,
         s.inode[q].dentry_count < 2 * DentriesPerBlock,
         NEW branches \in {{}, {"target_kept"}},
         FinishRename(s, p, n, q, m, branches)
  PROVE  IInv'
<1> DEFINE c == s.inode[q].dentry_count
           here == IF p = q THEN {"in_place"} ELSE {}
<1>1. /\ branches \in SUBSET (Harmless \cup Damage)
      /\ branches \cup {"overrun"} \in SUBSET (Harmless \cup Damage)
      /\ branches \cup Overrun(c) \cup here \in SUBSET (Harmless \cup Damage)
  BY BranchLabels
<1>2. CASE Return(s, "1", branches)
  BY <1>1, <1>2, GoodReturn
<1>3. CASE Return(s, "SIGSEGV", branches \cup {"overrun"})
  BY <1>1, <1>3, GoodReturn
<1>4. ASSUME Mapped(DataBlock(s, q), c),
             NEW k \in 0 .. s.inode[p].dentry_count - 1, IsAt(s, p, n, k),
             Return(Move(s, p, k, q, m), "0", branches \cup Overrun(c) \cup here)
      PROVE  IInv'
  <2>1. DentryAt(s, p, k).tail \in Names
    BY <1>4 DEF IsAt
  <2>2. Good(Move(s, p, k, q, m))
    BY <1>4, <2>1, MoveKeeps
  <2> HIDE DEF here, c
  <2> QED BY <1>1, <1>4, <2>2, GoodReturn
<1> QED BY <1>2, <1>3, <1>4 DEF FinishRename

\* Every return of rename keeps the invariant, the target removed or kept.
LEMMA RenameStep ==
  ASSUME IInv, NEW p \in Directories, NEW q \in Directories,
         NEW n \in Names, NEW m \in Names, Rename(p, n, q, m)
  PROVE  IInv'
<1>1. /\ p \in Inodes /\ Readable(img, p)
      /\ q \in Inodes /\ Readable(img, q) /\ IsDir(img, q)
      /\ img.inode[p].dentry_count < 2 * DentriesPerBlock
      /\ img.inode[q].dentry_count < 2 * DentriesPerBlock
  BY GoodImage, DirectoryReadable
<1>2. CASE FinishRename(img, p, n, q, m, {})
  BY <1>1, <1>2, GoodImage, FinishRenameStep
<1>3. CASE Return(img, "SIGSEGV", {})
  BY <1>3, GoodImage, BranchLabels, GoodReturn
<1>4. CASE FinishRename(img, p, n, q, m, {"target_kept"})
  BY <1>1, <1>4, GoodImage, FinishRenameStep
<1>5. ASSUME NEW k \in 1 .. img.inode[q].dentry_count - 1, NEW t \in Inodes,
             EntryIs(q, m, k, t),
             FinishRename(Remove(img, q, k), p, n, q, m, {})
      PROVE  IInv'
  <2> DEFINE s == Remove(img, q, k)
  <2>1. /\ k \in 0 .. img.inode[q].dentry_count - 1
        /\ DentryAt(img, q, k).tail \in Names
        /\ Readable(img, DentryAt(img, q, k).word)
    BY <1>5 DEF EntryIs, IsAt
  <2>2. Good(s)
    BY <1>5, <2>1, EntryRemoved
  <2>3. Readable(s, p) /\ Readable(s, q)
    BY <1>1, <2>1, GoodImage, RemoveReadable
  <2>4. \A d \in Inodes : s.inode[d].dentry_count < 2 * DentriesPerBlock
    BY <1>1, <2>1, GoodImage, RemoveCounts
  <2> HIDE DEF s
  <2> QED BY <1>1, <1>5, <2>2, <2>3, <2>4, FinishRenameStep DEF s
<1> QED BY <1>2, <1>3, <1>4, <1>5 DEF Rename

-----------------------------------------------------------------------------
(* The theorems.                                                           *)

\* What mkfs leaves satisfies the invariant.
LEMMA InitGood ==
  ASSUME Init
  PROVE  IInv
<1> DEFINE cell(b, k) == CASE b = FirstData /\ k = 0     -> Extent(FirstData + 1)
                         [] b = FirstData + 1 /\ k = 0 -> Dentry(0, ".")
                         [] b = FirstData + 1 /\ k = 1 -> Dentry(0, "..")
                         [] OTHER                      -> ZeroCell
           root == [b \in Blocks |-> [k \in Slots |-> cell(b, k)]]
           nodes == [i \in Inodes |->
             IF i = 0 THEN RootInode
             ELSE [mode |-> "none", dentry_count |-> 0, ext_block |-> 0]]
<1>1. /\ img = Formatted /\ ret = "0" /\ hit = {}
      /\ FirstData \in Blocks /\ FirstData + 1 \in Blocks /\ 0 \in Inodes
      /\ 0 \in DBits /\ 1 \in DBits /\ 0 \in Slots
  BY Sizes DEF Init, Blocks, Inodes, DBits, Slots
<1>2. /\ img.inode = nodes /\ img.mem = root
      /\ img.inode_bitmap = {0} /\ img.data_bitmap = {0, 1}
      /\ img.free_inode_count \in Int /\ img.free_dblock_count \in Int
      /\ img = [inode_bitmap |-> {0}, data_bitmap |-> {0, 1},
                free_inode_count |-> img.free_inode_count,
                free_dblock_count |-> img.free_dblock_count,
                inode |-> nodes, mem |-> root]
  BY <1>1, Sizes DEF Formatted
<1>3. \A b \in Blocks, k \in Slots :
        /\ root[b][k] \in {Extent(FirstData + 1), Dentry(0, "."), Dentry(0, ".."), ZeroCell}
        /\ root[b][k] = Extent(FirstData + 1) => b = FirstData
  BY NamesApart DEF Extent, Dentry, ZeroCell
<1>4. root[FirstData][0] = Extent(FirstData + 1)
  <2>1. FirstData # FirstData + 1
    BY Sizes
  <2>2. cell(FirstData, 0) = Extent(FirstData + 1)
    BY <2>1, Zenon
  <2> HIDE DEF cell
  <2> QED BY <1>1, <2>2
<1>5. /\ Extent(FirstData + 1) \in Cell /\ Dentry(0, ".") \in Cell
      /\ Dentry(0, "..") \in Cell /\ ZeroCell \in Cell
  BY <1>1 DEF Extent, Dentry, ZeroCell, Cell
<1>6. /\ CellSpares(Dentry(0, ".")) /\ CellSpares(Dentry(0, "..")) /\ CellSpares(ZeroCell)
  BY NamesApart DEF Dentry, ZeroCell, CellSpares
<1>7. root \in MemType
  <2>1. \A b \in Blocks, k \in Slots : root[b][k] \in Cell
    BY <1>3, <1>5
  <2> QED BY <2>1 DEF MemType
<1>8. MemSpares(root)
  BY <1>3, <1>6 DEF MemSpares
<1>9. /\ nodes \in [Inodes -> Inode] /\ nodes[0] = RootInode
      /\ \A i \in Inodes : nodes[i].dentry_count \in {0, 2}
      /\ InodesSpare(nodes)
  BY <1>1, Sizes DEF RootInode, Inode, InodesSpare
<1> HIDE DEF root, nodes
<1>10. img \in ImageType
  BY <1>1, <1>2, <1>7, <1>9 DEF ImageType
<1>11. \A d \in Inodes : img.inode[d].dentry_count \in 0 .. 2 * DentriesPerBlock - 1
  BY <1>2, <1>9, Sizes
<1>12. RootKept(img)
  BY <1>2, <1>4, <1>9 DEF RootKept, IsDir, RootInode
<1> QED BY <1>1, <1>2, <1>8, <1>9, <1>10, <1>11, <1>12
        DEF IInv, Typed, RootUnreferenced

\* Every step keeps the invariant: one case per handler, and remounting.
LEMMA NextKeeps ==
  ASSUME IInv, [Next]_vars
  PROVE  IInv'
<1>1. CASE \E p \in Directories, n \in Names : Mkdir(p, n)
  BY <1>1, MkdirStep
<1>2. CASE \E p \in Directories, n \in Names : Create(p, n)
  BY <1>2, CreateStep
<1>3. CASE \E p \in Directories, n \in Names : Rmdir(p, n)
  BY <1>3, RmdirStep
<1>4. CASE \E p \in Directories, n \in Names : Unlink(p, n)
  BY <1>4, UnlinkStep
<1>5. CASE \E p, q \in Directories, n, m \in Names : Rename(p, n, q, m)
  BY <1>5, RenameStep
<1>6. CASE Remount
  BY <1>6 DEF Remount, IInv, Typed, RootUnreferenced
<1>7. CASE Astray
  BY <1>7, BranchLabels DEF Astray, IInv, Typed, RootUnreferenced
<1>8. CASE UNCHANGED vars
  BY <1>8 DEF vars, IInv, Typed, RootUnreferenced
<1> QED BY <1>1, <1>2, <1>3, <1>4, <1>5, <1>6, <1>7, <1>8 DEF Next

\* What the handlers answer.
LEMMA NextAnswers ==
  ASSUME Answered, [Next]_vars
  PROVE  Answered'
<1>1. CASE UNCHANGED ret
  BY <1>1 DEF Answered
<1>2. CASE \E p \in Directories, n \in Names : Mkdir(p, n) \/ Create(p, n)
  BY <1>2 DEF Answered, Mkdir, Create, NoBlocks, Killed, Return
<1>3. CASE \E p \in Directories, n \in Names : Rmdir(p, n) \/ Unlink(p, n)
  BY <1>3 DEF Answered, Rmdir, Unlink, Return
<1>4. CASE \E p, q \in Directories, n, m \in Names : Rename(p, n, q, m)
  BY <1>4 DEF Answered, Rename, FinishRename, Return
<1>5. CASE Remount
  BY <1>5 DEF Answered, Remount
<1> QED BY <1>1, <1>2, <1>3, <1>4, <1>5 DEF Next, Astray, vars

\* The invariant of every run of the five handlers, of unmounting and of dying
\* and being mounted again.
THEOREM Invariant == Spec => []IInv
BY InitGood, NextKeeps, PTL DEF Spec

\* Until a call goes astray the five handlers keep the image's types, in images
\* damaged by overruns and renames too: block numbers stay in the data region,
\* bitmap bits below their counts, counts of entries natural.
THEOREM TypeCorrect == Spec => []TypeOK
<1>1. Init => Answered
  BY DEF Init, Answered
<1>2. IInv /\ Answered => TypeOK
  BY DEF IInv, Typed, Answered, TypeOK
<1> QED BY <1>1, <1>2, NextAnswers, Invariant, PTL DEF Spec

\* No sequence of the five handlers and remounts, none of which has gone astray,
\* frees the root directory or gives one of its two blocks to another inode.
THEOREM RootIsSafe == Spec => []RootSafe
<1>1. IInv => RootSafe
  BY DEF IInv, RootSafe
<1> QED BY <1>1, Invariant, PTL

=============================================================================

---------------------------- MODULE Mkfs_proofs ----------------------------
(***************************************************************************)
(* For every size of file, number of inodes and block size: the superblock *)
(* that mkfs computes divides the file, its stores leave bitmaps that mark *)
(* what is in use, and the counters stay right while the image is used.    *)
(***************************************************************************)
EXTENDS Mkfs, FiniteSetTheorems, TLAPS

-----------------------------------------------------------------------------
(* Arithmetic.                                                             *)

LEMMA Multiples ==
  ASSUME NEW a \in Nat, NEW b \in Nat, NEW m \in Nat, a <= b
  PROVE  a * m \in Nat /\ a * m <= b * m
OBVIOUS

LEMMA Distributes ==
  ASSUME NEW a \in Int, NEW b \in Int, NEW m \in Int
  PROVE  (a + b) * m = a * m + b * m
OBVIOUS

\* For a number of bytes or bits that is not negative, ceil_division gives the
\* least number of blocks that holds them.
LEMMA CeilIsLeast ==
  ASSUME NEW a \in Nat, NEW b \in Nat \ {0}
  PROVE  /\ ceil_division(a, b) \in Nat
         /\ a <= ceil_division(a, b) * b
         /\ \A k \in Nat : a <= k * b => ceil_division(a, b) <= k
<1> DEFINE q == a \div b
           r == a % b
<1>1. q \in Nat /\ r \in Nat /\ r < b /\ a = q * b + r
  OBVIOUS
<1>2. ceil_division(a, b) = q + (IF r = 0 THEN 0 ELSE 1)
  BY DEF ceil_division
<1> HIDE DEF q, r
<1>3. (q + 1) * b = q * b + b
  BY <1>1
<1>4. ASSUME NEW k \in Nat, a <= k * b, k < ceil_division(a, b)
      PROVE  FALSE
  <2>1. CASE r = 0
    <3>1. (k + 1) * b <= q * b
      BY <1>1, <1>2, <1>4, <2>1, Multiples
    <3> QED BY <3>1, <1>1, <1>4, <2>1
  <2>2. CASE r # 0
    <3>1. k * b <= q * b
      BY <1>1, <1>2, <1>4, <2>2, Multiples
    <3> QED BY <3>1, <1>1, <1>4, <2>2
  <2> QED BY <2>1, <2>2
<1> QED BY <1>1, <1>2, <1>3, <1>4

\* An int that is in range stays what it is.
LEMMA ToIntIsSame ==
  ASSUME NEW x \in Nat, x < IntMod \div 2
  PROVE  ToInt(x) = x
<1> DEFINE h == IntMod \div 2
<1>1. h \in Nat /\ IntMod = h + h
  BY MkfsAssumption
<1>2. x + h \in Nat /\ x + h < h + h
  BY <1>1
<1>3. ToInt(x) = ((x + h) % IntMod) - h
  BY DEF ToInt
<1> HIDE DEF h
<1>4. (x + h) % (h + h) = x + h
  BY <1>1, <1>2
<1> QED BY <1>1, <1>3, <1>4

-----------------------------------------------------------------------------
(* The superblock.                                                         *)

Superblocks ==
  [first_ib : Int, first_db : Int, first_inode : Int, first_data : Int,
   ib_count : Int, db_count : Int, iblock_count : Int,
   inode_count : Int, free_inode_count : Int,
   dblock_count : Int, free_dblock_count : Int]

\* The fields no operation changes after the format.
SameLayout(sb, tb) ==
  /\ sb.first_ib = tb.first_ib /\ sb.first_db = tb.first_db
  /\ sb.first_inode = tb.first_inode /\ sb.first_data = tb.first_data
  /\ sb.ib_count = tb.ib_count /\ sb.db_count = tb.db_count
  /\ sb.iblock_count = tb.iblock_count
  /\ sb.inode_count = tb.inode_count /\ sb.dblock_count = tb.dblock_count

\* The areas of a file of that many blocks, as LayoutSound has them, and that
\* none of them is empty.
Divided(sb, blocks) ==
  /\ sb.first_ib = 1
  /\ {sb.ib_count, sb.db_count, sb.iblock_count, sb.inode_count} \subseteq Nat \ {0}
  /\ sb.first_db = sb.first_ib + sb.ib_count
  /\ sb.first_inode = sb.first_db + sb.db_count
  /\ sb.first_data = sb.first_inode + sb.iblock_count
  /\ sb.first_data + sb.dblock_count = blocks
  /\ sb.inode_count <= sb.ib_count * BlockBits
  /\ sb.dblock_count <= sb.db_count * BlockBits
  /\ sb.inode_count * InodeSize <= sb.iblock_count * BlockSize
  /\ sb.dblock_count \in Nat /\ sb.dblock_count >= 2

LEMMA BlockBitsIsPositive == BlockBits \in Nat \ {0}
  BY MkfsAssumption DEF BlockBits

LEMMA ToIntIsInt ==
  ASSUME NEW x \in Int
  PROVE  ToInt(x) \in Int
  BY MkfsAssumption DEF ToInt

LEMMA CeilIsInt ==
  ASSUME NEW a \in Int, NEW b \in Nat \ {0}
  PROVE  ceil_division(a, b) \in Int
  BY DEF ceil_division

LEMMA SuperblockIsTyped ==
  ASSUME NEW blocks \in Nat, NEW n \in Nat
  PROVE  Superblock(blocks, n) \in Superblocks
<1> DEFINE n_inode  == ToInt(n)
           n_ib     == ceil_division(n_inode, BlockBits)
           n_db     == ceil_division(blocks, BlockBits)
           n_iblock == ceil_division(ToInt(n_inode * InodeSize), BlockSize)
<1>1. n_inode \in Int
  BY ToIntIsInt
<1>2. n_ib \in Int /\ n_db \in Int
  BY <1>1, CeilIsInt, BlockBitsIsPositive
<1>3. n_iblock \in Int
  <2>1. n_inode * InodeSize \in Int /\ BlockSize \in Nat \ {0}
    BY <1>1, MkfsAssumption
  <2>2. ToInt(n_inode * InodeSize) \in Int
    BY <2>1, ToIntIsInt
  <2> QED BY <2>1, <2>2, CeilIsInt
<1>4. Superblock(blocks, n)
        = init_super(n_inode, n_ib, n_db, n_iblock, blocks - 1 - n_ib - n_db - n_iblock)
  BY DEF Superblock
<1> HIDE DEF n_inode, n_ib, n_db, n_iblock
<1> QED BY <1>1, <1>2, <1>3, <1>4 DEF init_super, Superblocks

\* No product overflows an int in a superblock whose file has room for root and
\* whose bytes an int can number, and the divisions give each area its least size,
\* so that room is left for data.
LEMMA RoomDivides ==
  ASSUME NEW blocks \in Sizes, NEW n \in Counts, blocks * BlockSize < IntMod \div 2,
         Fits(blocks, Superblock(blocks, n).inode_count)
  PROVE  Divided(Superblock(blocks, n), blocks)
<1> DEFINE sb       == Superblock(blocks, n)
           n_inode  == ToInt(n)
           bytes    == n_inode * InodeSize
           n_ib     == ceil_division(n_inode, BlockBits)
           n_db     == ceil_division(blocks, BlockBits)
           n_iblock == ceil_division(ToInt(bytes), BlockSize)
<1>1. sb = init_super(n_inode, n_ib, n_db, n_iblock, blocks - 1 - n_ib - n_db - n_iblock)
  BY DEF Superblock
<1>2. blocks \in Nat \ {0} /\ blocks * BlockSize < IntMod \div 2 /\ BlockSize \in Nat \ {0}
      /\ InodeSize \in Nat \ {0}
  BY MkfsAssumption
<1>3. n_inode \in Int
  BY MkfsAssumption, ToIntIsInt
<1>4. sb.inode_count = n_inode
  BY <1>1 DEF init_super
<1>5. n_inode >= 1
  BY <1>4 DEF Fits
<1>6. PICK ib \in 1 .. blocks, db \in 1 .. blocks, t \in 1 .. blocks :
             /\ ib * BlockBits >= n_inode /\ db * BlockBits >= blocks
             /\ t * BlockSize >= bytes
             /\ 1 + ib + db + t + 2 <= blocks
  BY <1>4 DEF Fits
<1> HIDE DEF sb, n_inode
<1>7. bytes \in Nat \ {0}
  BY <1>2, <1>3, <1>5
<1>8. ToInt(bytes) = bytes
  <2>1. t * BlockSize <= blocks * BlockSize
    BY <1>2, <1>6, Multiples
  <2>2. bytes < IntMod \div 2 /\ IntMod \div 2 \in Nat
    BY <2>1, <1>2, <1>6, <1>7, MkfsAssumption
  <2> QED BY <2>2, <1>7, ToIntIsSame
<1> HIDE DEF bytes
<1>9. n_ib \in Nat /\ n_inode <= n_ib * BlockBits /\ n_ib <= ib
  <2>1. ib \in Nat /\ n_inode <= ib * BlockBits
    BY <1>2, <1>3, <1>6, BlockBitsIsPositive
  <2>2. n_inode \in Nat
    BY <1>3, <1>5
  <2> QED BY <2>1, <2>2, CeilIsLeast, BlockBitsIsPositive
<1>10. n_db \in Nat /\ blocks <= n_db * BlockBits /\ n_db <= db
  <2>1. db \in Nat /\ blocks <= db * BlockBits
    BY <1>2, <1>6, BlockBitsIsPositive
  <2>2. blocks \in Nat
    BY <1>2
  <2> QED BY <2>1, <2>2, CeilIsLeast, BlockBitsIsPositive
<1>11. n_iblock \in Nat /\ bytes <= n_iblock * BlockSize /\ n_iblock <= t
  <2>1. t \in Nat /\ bytes <= t * BlockSize
    BY <1>2, <1>6, <1>7
  <2>2. n_iblock = ceil_division(bytes, BlockSize)
    BY <1>8
  <2> QED BY <2>1, <2>2, <1>2, <1>7, CeilIsLeast
<1> HIDE DEF n_ib, n_db, n_iblock
<1>12. n_ib # 0 /\ n_db # 0 /\ n_iblock # 0
  BY <1>2, <1>3, <1>5, <1>7, <1>9, <1>10, <1>11, BlockBitsIsPositive
<1>13. Divided(init_super(n_inode, n_ib, n_db, n_iblock, blocks - 1 - n_ib - n_db - n_iblock), blocks)
  <2> DEFINE n_data == blocks - 1 - n_ib - n_db - n_iblock
             tb     == init_super(n_inode, n_ib, n_db, n_iblock, n_data)
  <2>1. /\ tb.first_ib = 1 /\ tb.first_db = 1 + n_ib /\ tb.first_inode = 1 + n_ib + n_db
        /\ tb.first_data = 1 + n_ib + n_db + n_iblock
        /\ tb.ib_count = n_ib /\ tb.db_count = n_db /\ tb.iblock_count = n_iblock
        /\ tb.inode_count = n_inode /\ tb.dblock_count = n_data
    BY DEF init_super
  <2>2. n_data \in Nat /\ n_data >= 2 /\ n_data <= blocks
    BY <1>2, <1>6, <1>9, <1>10, <1>11
  <2>3. 1 + n_ib + n_db + n_iblock + n_data = blocks
    BY <1>2, <1>9, <1>10, <1>11
  <2>4. n_db * BlockBits \in Nat
    BY <1>10, BlockBitsIsPositive
  <2> HIDE DEF tb, n_data
  <2>5. n_data <= n_db * BlockBits
    BY <2>2, <2>4, <1>2, <1>10
  <2>6. n_inode * InodeSize <= n_iblock * BlockSize
    BY <1>11 DEF bytes
  <2>7. {tb.ib_count, tb.db_count, tb.iblock_count, tb.inode_count} \subseteq Nat \ {0}
    BY <2>1, <1>3, <1>5, <1>9, <1>10, <1>11, <1>12
  <2>8. Divided(tb, blocks)
    BY <2>1, <2>2, <2>3, <2>5, <2>6, <2>7, <1>9 DEF Divided
  <2> QED BY <2>8 DEF tb, n_data
<1> QED BY <1>1, <1>13 DEF sb

LEMMA SameIsDivided ==
  ASSUME NEW sb, NEW tb, NEW blocks, SameLayout(sb, tb), Divided(tb, blocks)
  PROVE  Divided(sb, blocks)
<1>1. {sb.ib_count, sb.db_count, sb.iblock_count, sb.inode_count}
        = {tb.ib_count, tb.db_count, tb.iblock_count, tb.inode_count}
  BY DEF SameLayout
<1> QED BY <1>1 DEF SameLayout, Divided

-----------------------------------------------------------------------------
(* The areas as ranges of bits.                                            *)

\* The first bit of a block, a number the provers need not multiply.
Start(block) == block * BlockBits

\* Where the areas lie, and that what is stored in each stays inside it, but for
\* the words of the first loop, which end before the data region.
InAreas(sb, blocks) ==
  /\ {Start(sb.first_ib), Start(sb.first_db), Start(sb.first_inode),
      Start(sb.first_data), Start(blocks)} \subseteq Nat
  /\ {sb.inode_count, sb.dblock_count, sb.inode_count * WordBits,
      sb.db_count * WordBits, InodeSize * BitsPerByte, WordBits, BlockBits}
       \subseteq Nat
  /\ sb.inode_count >= 1 /\ sb.dblock_count >= 2
  /\ sb.inode_count <= sb.inode_count * WordBits
  /\ Start(sb.first_ib) + sb.inode_count <= Start(sb.first_db)
  /\ Start(sb.first_ib) + sb.inode_count * WordBits <= Start(sb.first_data)
  /\ Start(sb.first_db) + sb.dblock_count <= Start(sb.first_inode)
  /\ Start(sb.first_db) + sb.db_count * WordBits <= Start(sb.first_inode)
  /\ Start(sb.first_inode) + InodeSize * BitsPerByte <= Start(sb.first_data)
  /\ 2 * WordBits <= 2 * BlockBits
  /\ Start(sb.first_data + 1) = Start(sb.first_data) + BlockBits
  /\ Start(sb.first_data) + 2 * BlockBits <= Start(blocks)

LEMMA WordFits == WordBits <= InodeSize * BitsPerByte /\ InodeSize * BitsPerByte <= BlockBits
                  /\ InodeSize * BitsPerByte \in Nat
<1>1. BlockSize \in Nat \ {0} /\ InodeSize \in Nat \ {0} /\ BitsPerByte \in Nat \ {0}
      /\ BlockSize % InodeSize = 0
  BY MkfsAssumption
<1>2. InodeSize <= BlockSize
  BY <1>1
<1>3. InodeSize * BitsPerByte <= BlockSize * BitsPerByte
  BY <1>1, <1>2, Multiples
<1> QED BY <1>1, <1>3, MkfsAssumption DEF BlockBits

LEMMA DividedInAreas ==
  ASSUME NEW sb, NEW blocks, Divided(sb, blocks)
  PROVE  InAreas(sb, blocks)
<1> DEFINE n  == sb.inode_count
           ib == sb.ib_count
           db == sb.db_count
           t  == sb.iblock_count
           d  == sb.dblock_count
<1>1. /\ n \in Nat \ {0} /\ ib \in Nat \ {0} /\ db \in Nat \ {0} /\ t \in Nat \ {0}
      /\ d \in Nat /\ d >= 2
      /\ sb.first_ib = 1 /\ sb.first_db = 1 + ib /\ sb.first_inode = 1 + ib + db
      /\ sb.first_data = 1 + ib + db + t /\ blocks = 1 + ib + db + t + d
      /\ n <= ib * BlockBits /\ d <= db * BlockBits /\ n * InodeSize <= t * BlockSize
  BY DEF Divided
<1>2. BlockBits \in Nat \ {0}
  BY BlockBitsIsPositive
<1> HIDE DEF n, ib, db, t, d
<1>3. ib * BlockBits \in Nat /\ db * BlockBits \in Nat /\ t * BlockBits \in Nat
      /\ d * BlockBits \in Nat
  BY <1>1, <1>2
<1>4. /\ Start(sb.first_ib) = BlockBits
      /\ Start(sb.first_db) = BlockBits + ib * BlockBits
      /\ Start(sb.first_inode) = BlockBits + ib * BlockBits + db * BlockBits
      /\ Start(sb.first_data) = BlockBits + ib * BlockBits + db * BlockBits + t * BlockBits
      /\ Start(blocks) = BlockBits + ib * BlockBits + db * BlockBits + t * BlockBits
                           + d * BlockBits
      /\ Start(sb.first_data + 1)
           = BlockBits + ib * BlockBits + db * BlockBits + t * BlockBits + BlockBits
  BY <1>1, <1>2 DEF Start
<1>5. WordBits \in Nat \ {0} /\ n * WordBits \in Nat /\ n <= n * WordBits
  BY <1>1, MkfsAssumption
<1>6. n * WordBits <= t * BlockBits
  <2>1. n * WordBits <= n * (InodeSize * BitsPerByte)
    BY <1>1, <1>5, WordFits
  <2>2. InodeSize \in Nat /\ BitsPerByte \in Nat /\ BlockSize \in Nat
    BY MkfsAssumption
  <2>3. (n * InodeSize) * BitsPerByte <= (t * BlockSize) * BitsPerByte
    BY <1>1, <2>2, Multiples
  <2>4. n * (InodeSize * BitsPerByte) = (n * InodeSize) * BitsPerByte
    BY <1>1, <2>2
  <2>5. t * BlockBits = (t * BlockSize) * BitsPerByte
    BY <1>1, <2>2 DEF BlockBits
  <2> DEFINE x == n * WordBits
             y == n * (InodeSize * BitsPerByte)
             z == (t * BlockSize) * BitsPerByte
  <2>6. x \in Nat /\ y \in Nat /\ z \in Nat
    BY <1>1, <1>5, <2>2
  <2>7. x <= y /\ y <= z
    BY <2>1, <2>3, <2>4
  <2>8. t * BlockBits = z
    BY <2>5
  <2> HIDE DEF x, y, z
  <2>9. x <= t * BlockBits
    BY <2>6, <2>7, <2>8
  <2> QED BY <2>9 DEF x
<1>7. db * WordBits \in Nat /\ db * WordBits <= db * BlockBits
  BY <1>1, <1>2, <1>5, WordFits
<1>8. BlockBits <= t * BlockBits
  BY <1>1, <1>2
<1>9. 2 * BlockBits <= d * BlockBits
  BY <1>1, <1>2
<1>10. /\ {Start(sb.first_ib), Start(sb.first_db), Start(sb.first_inode),
           Start(sb.first_data), Start(blocks)} \subseteq Nat
  BY <1>2, <1>3, <1>4
<1>11. {n, d, n * WordBits, db * WordBits, InodeSize * BitsPerByte, WordBits, BlockBits}
         \subseteq Nat
  BY <1>1, <1>2, <1>5, <1>7, WordFits
<1>12. /\ n >= 1 /\ d >= 2
       /\ n <= n * WordBits
       /\ Start(sb.first_ib) + n <= Start(sb.first_db)
       /\ Start(sb.first_ib) + n * WordBits <= Start(sb.first_data)
  BY <1>1, <1>2, <1>3, <1>4, <1>5, <1>6
<1>13. /\ Start(sb.first_db) + d <= Start(sb.first_inode)
       /\ Start(sb.first_db) + db * WordBits <= Start(sb.first_inode)
       /\ Start(sb.first_inode) + InodeSize * BitsPerByte <= Start(sb.first_data)
  BY <1>1, <1>2, <1>3, <1>4, <1>7, <1>8, WordFits
<1>14. /\ 2 * WordBits <= 2 * BlockBits
       /\ Start(sb.first_data + 1) = Start(sb.first_data) + BlockBits
       /\ Start(sb.first_data) + 2 * BlockBits <= Start(blocks)
  BY <1>2, <1>3, <1>4, <1>5, <1>9, WordFits
<1> QED BY <1>10, <1>11, <1>12, <1>13, <1>14 DEF InAreas, n, d, db

-----------------------------------------------------------------------------
(* Where the program takes the blocks to be.                               *)

\* The addresses of the areas, as the program computes them, are theirs.
Addressed(sb) ==
  /\ IntAddress(sb.first_ib) * BitsPerByte = Start(sb.first_ib)
  /\ IntAddress(sb.first_db) * BitsPerByte = Start(sb.first_db)
  /\ IntAddress(sb.first_inode) * BitsPerByte = Start(sb.first_inode)
  /\ IntAddress(sb.first_data) * BitsPerByte = Start(sb.first_data)
  /\ UIntAddress(sb.first_data + 1) * BitsPerByte = Start(sb.first_data + 1)

\* Neither product overflows for a block of a file whose bytes an int can number.
LEMMA AddressIsStart ==
  ASSUME NEW blocks \in Nat, blocks * BlockSize < IntMod \div 2,
         NEW b \in Nat, b <= blocks
  PROVE  IntAddress(b) * BitsPerByte = Start(b) /\ UIntAddress(b) * BitsPerByte = Start(b)
<1>1. BlockSize \in Nat /\ BitsPerByte \in Nat /\ IntMod \in Nat \ {0}
  BY MkfsAssumption
<1> DEFINE x == b * BlockSize
<1>2. x \in Nat /\ x <= blocks * BlockSize
  BY <1>1, Multiples
<1>3. blocks * BlockSize \in Nat
  BY <1>1
<1>4. (b * BlockSize) * BitsPerByte = b * (BlockSize * BitsPerByte)
  BY <1>1
<1>5. x * BitsPerByte = Start(b)
  BY <1>4 DEF Start, BlockBits
<1>6. IntAddress(b) = ToInt(x) /\ UIntAddress(b) = x % IntMod
  BY DEF IntAddress, UIntAddress
<1> HIDE DEF x
<1>7. x < IntMod \div 2 /\ x < IntMod
  BY <1>1, <1>2, <1>3
<1>8. ToInt(x) = x /\ x % IntMod = x
  BY <1>1, <1>2, <1>7, ToIntIsSame
<1> QED BY <1>5, <1>6, <1>8

LEMMA DividedIsAddressed ==
  ASSUME NEW sb, NEW blocks \in Nat, Divided(sb, blocks),
         blocks * BlockSize < IntMod \div 2
  PROVE  Addressed(sb)
<1>1. \A b \in {sb.first_ib, sb.first_db, sb.first_inode, sb.first_data,
               sb.first_data + 1} : b \in Nat /\ b <= blocks
  <2> DEFINE ib == sb.ib_count
             db == sb.db_count
             t  == sb.iblock_count
             d  == sb.dblock_count
  <2>1. /\ ib \in Nat /\ db \in Nat /\ t \in Nat /\ d \in Nat /\ d >= 2
        /\ sb.first_ib = 1 /\ sb.first_db = 1 + ib /\ sb.first_inode = 1 + ib + db
        /\ sb.first_data = 1 + ib + db + t /\ blocks = 1 + ib + db + t + d
    BY DEF Divided
  <2> HIDE DEF ib, db, t, d
  <2> QED BY <2>1
<1> QED BY <1>1, AddressIsStart DEF Addressed

-----------------------------------------------------------------------------
(* The stores of one format.                                               *)

\* The eight stores, as ranges of bits.
LEMMA StoresAre ==
  ASSUME NEW sb, NEW blocks, InAreas(sb, blocks), Addressed(sb)
  PROVE  /\ DOMAIN Stores(sb) = 1 .. 8
         /\ Stores(sb)[1].bits = Start(sb.first_ib) .. Start(sb.first_ib) + sb.inode_count * WordBits - 1
         /\ Stores(sb)[2].bits = Start(sb.first_db) .. Start(sb.first_db) + sb.db_count * WordBits - 1
         /\ Stores(sb)[3].bits = Start(sb.first_inode) .. Start(sb.first_inode) + InodeSize * BitsPerByte - 1
         /\ Stores(sb)[4].bits = {Start(sb.first_ib)}
         /\ Stores(sb)[5].bits = Start(sb.first_data) .. Start(sb.first_data) + 2 * WordBits - 1
         /\ Stores(sb)[6].bits = {Start(sb.first_db)}
         /\ Stores(sb)[7].bits = Start(sb.first_data + 1) .. Start(sb.first_data + 1) + BlockBits - 1
         /\ Stores(sb)[8].bits = {Start(sb.first_db) + 1}
         /\ Stores(sb)[1].value = 0 /\ Stores(sb)[2].value = 0
         /\ \A k \in 3 .. 8 : Stores(sb)[k].value = 1
<1> DEFINE R(k, first, len) == Start(k) + first .. Start(k) + first + len - 1
           runs == Stores(sb)
<1>1. /\ DOMAIN runs = 1 .. 8
      /\ runs[1] = [bits |-> R(sb.first_ib, 0, sb.inode_count * WordBits), value |-> 0]
      /\ runs[2] = [bits |-> R(sb.first_db, 0, sb.db_count * WordBits), value |-> 0]
      /\ runs[3] = [bits |-> R(sb.first_inode, 0, InodeSize * BitsPerByte), value |-> 1]
      /\ runs[4] = [bits |-> R(sb.first_ib, 0, 1), value |-> 1]
      /\ runs[5] = [bits |-> R(sb.first_data, 0, 2 * WordBits), value |-> 1]
      /\ runs[6] = [bits |-> R(sb.first_db, 0, 1), value |-> 1]
      /\ runs[7] = [bits |-> R(sb.first_data + 1, 0, BlockBits), value |-> 1]
      /\ runs[8] = [bits |-> R(sb.first_db, 1, 1), value |-> 1]
  BY DEF Stores, Run, Addressed
<1>2. {Start(sb.first_ib), Start(sb.first_db), Start(sb.first_inode), Start(sb.first_data),
       Start(sb.first_data + 1)} \subseteq Nat
  BY DEF InAreas
<1> HIDE DEF runs
<1>3. \A k \in 3 .. 8 : runs[k].value = 1
  <2> TAKE k \in 3 .. 8
  <2>1. k = 3 \/ k = 4 \/ k = 5 \/ k = 6 \/ k = 7 \/ k = 8
    OBVIOUS
  <2> QED BY <2>1, <1>1
<1>4. \A x \in Nat : x + 0 = x /\ x + 0 .. x + 0 + 1 - 1 = {x} /\ x + 1 .. x + 1 + 1 - 1 = {x + 1}
  OBVIOUS
<1>5. runs[4].bits = {Start(sb.first_ib)} /\ runs[6].bits = {Start(sb.first_db)}
      /\ runs[8].bits = {Start(sb.first_db) + 1}
  <2>1. Start(sb.first_ib) \in Nat /\ Start(sb.first_db) \in Nat
    BY <1>2
  <2>2. /\ runs[4].bits = R(sb.first_ib, 0, 1) /\ runs[6].bits = R(sb.first_db, 0, 1)
        /\ runs[8].bits = R(sb.first_db, 1, 1)
    BY <1>1
  <2> QED BY <2>1, <2>2, <1>4
<1>6. /\ runs[1].bits = Start(sb.first_ib) .. Start(sb.first_ib) + sb.inode_count * WordBits - 1
      /\ runs[2].bits = Start(sb.first_db) .. Start(sb.first_db) + sb.db_count * WordBits - 1
      /\ runs[3].bits = Start(sb.first_inode) .. Start(sb.first_inode) + InodeSize * BitsPerByte - 1
      /\ runs[5].bits = Start(sb.first_data) .. Start(sb.first_data) + 2 * WordBits - 1
      /\ runs[7].bits = Start(sb.first_data + 1) .. Start(sb.first_data + 1) + BlockBits - 1
  BY <1>1, <1>2, <1>4
<1> QED BY <1>1, <1>3, <1>5, <1>6 DEF runs

\* All of them lie in the file when it has room for root.
LEMMA StoresLieInside ==
  ASSUME NEW f, NEW sb, InAreas(sb, f.blocks), Addressed(sb)
  PROVE  /\ \A k \in 1 .. 8 : Stores(sb)[k].bits \subseteq AllBits(f)
         /\ ~ Killed(f, Stores(sb))
         /\ Made(f, Stores(sb)) = 1 .. 8
<1> DEFINE runs == Stores(sb)
           A == Start(sb.first_ib)
           D == Start(sb.first_db)
           I == Start(sb.first_inode)
           X == Start(sb.first_data)
           E == Start(f.blocks)
           N == sb.inode_count * WordBits
           M == sb.db_count * WordBits
           S == InodeSize * BitsPerByte
<1>1. /\ A \in Nat /\ D \in Nat /\ I \in Nat /\ X \in Nat /\ E \in Nat
      /\ N \in Nat /\ M \in Nat /\ S \in Nat /\ WordBits \in Nat /\ BlockBits \in Nat
      /\ Start(sb.first_data + 1) = X + BlockBits
      /\ A + N <= X /\ A < D /\ D + 1 < I /\ D + M <= I /\ I + S <= X /\ I <= X
      /\ 2 * WordBits <= 2 * BlockBits /\ X + 2 * BlockBits <= E
  BY DEF InAreas
<1>2. AllBits(f) = 0 .. E - 1
  BY DEF AllBits, Start
<1>3. /\ DOMAIN runs = 1 .. 8
      /\ runs[1].bits = A .. A + N - 1 /\ runs[2].bits = D .. D + M - 1
      /\ runs[3].bits = I .. I + S - 1 /\ runs[4].bits = {A}
      /\ runs[5].bits = X .. X + 2 * WordBits - 1 /\ runs[6].bits = {D}
      /\ runs[7].bits = X + BlockBits .. X + BlockBits + BlockBits - 1 /\ runs[8].bits = {D + 1}
  BY <1>1, StoresAre
<1> HIDE DEF runs, A, D, I, X, E, N, M, S
<1>4. \A k \in 1 .. 8 : runs[k].bits \subseteq 0 .. E - 1
  <2>1. A + N - 1 <= E - 1 /\ D + M - 1 <= E - 1 /\ I + S - 1 <= E - 1 /\ A <= E - 1
        /\ X + 2 * WordBits - 1 <= E - 1 /\ D <= E - 1 /\ X + BlockBits + BlockBits - 1 <= E - 1
        /\ D + 1 <= E - 1
    BY <1>1
  <2>2. /\ runs[1].bits \subseteq 0 .. E - 1 /\ runs[2].bits \subseteq 0 .. E - 1
        /\ runs[3].bits \subseteq 0 .. E - 1 /\ runs[4].bits \subseteq 0 .. E - 1
    <3>1. \A p \in Nat, q \in Int : q <= E - 1 => p .. q \subseteq 0 .. E - 1
      BY <1>1
    <3>2. A + N - 1 \in Int /\ D + M - 1 \in Int /\ I + S - 1 \in Int
      BY <1>1
    <3>3. /\ A .. A + N - 1 \subseteq 0 .. E - 1 /\ D .. D + M - 1 \subseteq 0 .. E - 1
          /\ I .. I + S - 1 \subseteq 0 .. E - 1
      BY <1>1, <2>1, <3>1, <3>2
    <3>4. A \in 0 .. E - 1
      BY <1>1, <2>1
    <3> QED BY <1>3, <3>3, <3>4
  <2>3. /\ runs[5].bits \subseteq 0 .. E - 1 /\ runs[6].bits \subseteq 0 .. E - 1
        /\ runs[7].bits \subseteq 0 .. E - 1 /\ runs[8].bits \subseteq 0 .. E - 1
    <3>1. \A p \in Nat, q \in Int : q <= E - 1 => p .. q \subseteq 0 .. E - 1
      BY <1>1
    <3>2. /\ X + 2 * WordBits - 1 \in Int /\ X + BlockBits + BlockBits - 1 \in Int
          /\ X + BlockBits \in Nat
      BY <1>1
    <3>3. /\ X .. X + 2 * WordBits - 1 \subseteq 0 .. E - 1
          /\ X + BlockBits .. X + BlockBits + BlockBits - 1 \subseteq 0 .. E - 1
      BY <1>1, <2>1, <3>1, <3>2
    <3>4. D \in 0 .. E - 1 /\ D + 1 \in 0 .. E - 1
      BY <1>1, <2>1
    <3> QED BY <1>3, <3>3, <3>4
  <2> TAKE k \in 1 .. 8
  <2>4. k = 1 \/ k = 2 \/ k = 3 \/ k = 4 \/ k = 5 \/ k = 6 \/ k = 7 \/ k = 8
    OBVIOUS
  <2> QED BY <2>2, <2>3, <2>4
<1>5. ~ Killed(f, runs)
  BY <1>2, <1>3, <1>4 DEF Killed
<1>6. Made(f, runs) = 1 .. 8
  BY <1>2, <1>3, <1>4 DEF Made
<1> QED BY <1>2, <1>4, <1>5, <1>6 DEF runs

\* Whatever the bits were, the inode bitmap marks root and no other, and the data
\* bitmap root's two blocks; it marks no other if all bits were 0.
LEMMA FormatMarks ==
  ASSUME NEW f, NEW sb, NEW bits, InAreas(sb, f.blocks), Addressed(sb)
  PROVE  LET after == BitsAfter(f, bits, Stores(sb))
         IN  /\ \A i \in 0 .. sb.inode_count - 1 :
                  Start(sb.first_ib) + i \in after <=> i = 0
             /\ Start(sb.first_db) \in after /\ Start(sb.first_db) + 1 \in after
             /\ bits = {} => \A k \in 2 .. sb.dblock_count - 1 :
                               Start(sb.first_db) + k \notin after
<1> DEFINE runs == Stores(sb)
           after == BitsAfter(f, bits, runs)
           A == Start(sb.first_ib)
           D == Start(sb.first_db)
           I == Start(sb.first_inode)
           X == Start(sb.first_data)
           E == Start(f.blocks)
           N == sb.inode_count * WordBits
           M == sb.db_count * WordBits
           S == InodeSize * BitsPerByte
           n == sb.inode_count
           d == sb.dblock_count
<1>1. /\ A \in Nat /\ D \in Nat /\ I \in Nat /\ X \in Nat /\ E \in Nat
      /\ N \in Nat /\ M \in Nat /\ S \in Nat /\ WordBits \in Nat /\ BlockBits \in Nat
      /\ n \in Nat /\ d \in Nat /\ n >= 1 /\ d >= 2 /\ n <= N
      /\ Start(sb.first_data + 1) = X + BlockBits
      /\ A + n <= D /\ A + N <= X /\ D + d <= I /\ D + M <= I /\ I + S <= X
      /\ 2 * WordBits <= 2 * BlockBits /\ X + 2 * BlockBits <= E
  BY DEF InAreas
<1>2. /\ DOMAIN runs = 1 .. 8
      /\ runs[1].bits = A .. A + N - 1 /\ runs[2].bits = D .. D + M - 1
      /\ runs[3].bits = I .. I + S - 1 /\ runs[4].bits = {A}
      /\ runs[5].bits = X .. X + 2 * WordBits - 1 /\ runs[6].bits = {D}
      /\ runs[7].bits = X + BlockBits .. X + BlockBits + BlockBits - 1 /\ runs[8].bits = {D + 1}
      /\ runs[1].value = 0 /\ runs[2].value = 0 /\ \A k \in 3 .. 8 : runs[k].value = 1
  BY <1>1, StoresAre
<1>3. AllBits(f) = 0 .. E - 1
  BY DEF AllBits, Start
<1>4. Made(f, runs) = 1 .. 8
  BY StoresLieInside
<1>5. \A b : b \in after <=>
        /\ b \in 0 .. E - 1
        /\ \E k \in 0 .. 8 :
             /\ IF k = 0 THEN b \in bits ELSE b \in runs[k].bits /\ runs[k].value = 1
             /\ \A j \in 1 .. 8 : j > k /\ b \in runs[j].bits => runs[j].value = 1
  <2>1. {0} \cup (1 .. 8) = 0 .. 8
    OBVIOUS
  <2> QED BY <1>3, <1>4, <2>1 DEF BitsAfter
<1> HIDE DEF runs, after, A, D, I, X, E, N, M, S, n, d
\* A bit that some store made 1 after the two loops.
<1>6. \A b \in 0 .. E - 1, k \in 3 .. 8 : b \in runs[k].bits => b \in after
  BY <1>2, <1>5
\* A bit that only the loops stored.
<1>7. ASSUME NEW b \in 0 .. E - 1, b \in runs[1].bits \/ b \in runs[2].bits,
             \A k \in 3 .. 8 : b \notin runs[k].bits
      PROVE  b \notin after
  <2>0. runs[1].value = 0 /\ runs[2].value = 0
    BY <1>2
  <2>1. PICK l \in 1 .. 2 : b \in runs[l].bits /\ runs[l].value = 0
    <3>1. CASE b \in runs[1].bits
      BY <2>0, <3>1
    <3>2. CASE b \in runs[2].bits
      BY <2>0, <3>2
    <3> QED BY <1>7, <3>1, <3>2
  <2>2. SUFFICES ASSUME NEW k \in 0 .. 8,
                        IF k = 0 THEN b \in bits ELSE b \in runs[k].bits /\ runs[k].value = 1,
                        \A j \in 1 .. 8 : j > k /\ b \in runs[j].bits => runs[j].value = 1
                 PROVE  FALSE
    BY <1>5
  <2>3. CASE k = 0
    BY <2>1, <2>2, <2>3
  <2>4. CASE k \in 1 .. 2
    BY <1>2, <2>2, <2>4
  <2>5. CASE k \in 3 .. 8
    BY <1>7, <2>2, <2>5
  <2> QED BY <2>3, <2>4, <2>5
\* A bit that was 0 and that no store made 1.
<1>8. ASSUME NEW b \in 0 .. E - 1, bits = {}, \A k \in 3 .. 8 : b \notin runs[k].bits
      PROVE  b \notin after
  <2>1. SUFFICES ASSUME NEW k \in 0 .. 8,
                        IF k = 0 THEN b \in bits ELSE b \in runs[k].bits /\ runs[k].value = 1
                 PROVE  FALSE
    BY <1>5
  <2>2. CASE k = 0
    BY <1>8, <2>1, <2>2
  <2>3. CASE k \in 1 .. 2
    <3>1. k = 1 \/ k = 2
      BY <2>3
    <3> QED BY <1>2, <2>1, <3>1
  <2>4. CASE k \in 3 .. 8
    BY <1>8, <2>1, <2>4
  <2> QED BY <2>2, <2>3, <2>4
<1>9. \A i \in 0 .. n - 1 : A + i \in after <=> i = 0
  <2> TAKE i \in 0 .. n - 1
  <2>1. A + i \in 0 .. E - 1 /\ A + i \in runs[1].bits
    <3>1. /\ i \in Nat /\ i < n /\ n <= N /\ A \in Nat /\ N \in Nat /\ n \in Nat /\ E \in Nat
          /\ A + N <= E
      BY <1>1
    <3>2. A + i \in 0 .. E - 1 /\ A + i \in A .. A + N - 1
      BY <3>1
    <3>3. runs[1].bits = A .. A + N - 1
      BY <1>2
    <3> QED BY <3>2, <3>3
  <2>2. CASE i = 0
    <3>1. A + i \in runs[4].bits
      BY <1>1, <1>2, <2>2
    <3> QED BY <1>6, <2>1, <2>2, <3>1
  <2>3. CASE i # 0
    <3>1. A + i # A /\ A + i < D
      BY <1>1, <2>3
    <3>2. /\ A + i \notin runs[3].bits /\ A + i \notin runs[4].bits /\ A + i \notin runs[5].bits
          /\ A + i \notin runs[6].bits /\ A + i \notin runs[7].bits /\ A + i \notin runs[8].bits
      BY <1>1, <1>2, <3>1
    <3>3. \A k \in 3 .. 8 : A + i \notin runs[k].bits
      <4> TAKE k \in 3 .. 8
      <4>1. k = 3 \/ k = 4 \/ k = 5 \/ k = 6 \/ k = 7 \/ k = 8
        OBVIOUS
      <4> QED BY <3>2, <4>1
    <3> QED BY <1>7, <2>1, <2>3, <3>3
  <2> QED BY <2>2, <2>3
<1>10. D \in after /\ D + 1 \in after
  <2>1. D \in 0 .. E - 1 /\ D + 1 \in 0 .. E - 1
    BY <1>1
  <2> QED BY <1>2, <1>6, <2>1
<1>11. ASSUME bits = {}, NEW k \in 2 .. d - 1
       PROVE  D + k \notin after
  <2>1. D + k \in 0 .. E - 1 /\ D + k > D + 1 /\ D + k < I /\ D + k > A
    BY <1>1
  <2>2. /\ D + k \notin runs[3].bits /\ D + k \notin runs[4].bits /\ D + k \notin runs[5].bits
        /\ D + k \notin runs[6].bits /\ D + k \notin runs[7].bits /\ D + k \notin runs[8].bits
    BY <1>1, <1>2, <2>1
  <2>3. \A j \in 3 .. 8 : D + k \notin runs[j].bits
    <3> TAKE j \in 3 .. 8
    <3>1. j = 3 \/ j = 4 \/ j = 5 \/ j = 6 \/ j = 7 \/ j = 8
      OBVIOUS
    <3> QED BY <2>2, <3>1
  <2> QED BY <1>8, <1>11, <2>1, <2>3
<1> QED BY <1>9, <1>10, <1>11 DEF runs, after, A, D, n, d

-----------------------------------------------------------------------------
(* The invariant.                                                          *)

FileType ==
  /\ file \in [blocks : Sizes, sb : Superblocks, bits : SUBSET Int, magic : BOOLEAN]
  /\ IsFiniteSet(nodes)
  /\ drift \in Nat

\* An image has the layout some argument of -i gave it.
AsFormatted ==
  file.magic => \E n \in Counts : SameLayout(file.sb, Superblock(file.blocks, n))

\* Each node has an inode of its own that is not root's, and two blocks of its own
\* or none.
NodesApart ==
  Usable =>
    /\ nodes \subseteq [ino : 1 .. file.sb.inode_count - 1,
                        blocks : SUBSET (2 .. file.sb.dblock_count - 1)]
    /\ \A x \in nodes : x.blocks # {} => \E e, d \in x.blocks : e # d /\ x.blocks = {e, d}
    /\ \A x, y \in nodes : x # y => x.ino # y.ino /\ x.blocks \cap y.blocks = {}

IInv == FileType /\ AsFormatted /\ NodesApart /\ BitmapsCoverUse /\ FreeCountsExact

LEMMA UsableIsDivided ==
  ASSUME FileType, AsFormatted, Usable
  PROVE  Divided(file.sb, file.blocks) /\ InAreas(file.sb, file.blocks)
<1>1. PICK n \in Counts : SameLayout(file.sb, Superblock(file.blocks, n))
  BY DEF Usable, AsFormatted
<1>2. file.blocks \in Sizes
  BY DEF FileType
<1>3. /\ Fits(file.blocks, Superblock(file.blocks, n).inode_count)
      /\ file.blocks * BlockSize < IntMod \div 2
  BY <1>1 DEF Usable, Addressable, SameLayout
<1>4. Divided(Superblock(file.blocks, n), file.blocks)
  BY <1>2, <1>3, RoomDivides
<1>5. Divided(file.sb, file.blocks)
  BY <1>1, <1>4, SameIsDivided
<1> QED BY <1>5, DividedInAreas

\* The layout is sound in every state that satisfies the invariant.
LEMMA LayoutFollows ==
  ASSUME FileType, AsFormatted
  PROVE  LayoutSound
<1> SUFFICES ASSUME Usable
             PROVE  Divided(file.sb, file.blocks)
  BY DEF LayoutSound, Divided
<1> QED BY UsableIsDivided

LEMMA AddTwo ==
  ASSUME NEW S, IsFiniteSet(S), NEW e, NEW d, e \notin S, d \notin S, e # d
  PROVE  IsFiniteSet(S \cup {e, d}) /\ Cardinality(S \cup {e, d}) = Cardinality(S) + 2
<1>1. IsFiniteSet(S \cup {e}) /\ Cardinality(S \cup {e}) = Cardinality(S) + 1
  BY FS_AddElement
<1>2. IsFiniteSet((S \cup {e}) \cup {d})
      /\ Cardinality((S \cup {e}) \cup {d}) = Cardinality(S \cup {e}) + 1
  BY <1>1, FS_AddElement
<1>3. (S \cup {e}) \cup {d} = S \cup {e, d}
  OBVIOUS
<1>4. Cardinality(S) \in Nat
  BY FS_CardinalityType
<1>5. IsFiniteSet(S \cup {e, d}) /\ Cardinality(S \cup {e, d}) = (Cardinality(S) + 1) + 1
  BY <1>1, <1>2, <1>3, Zenon
<1>6. (Cardinality(S) + 1) + 1 = Cardinality(S) + 2
  BY <1>4
<1> QED BY <1>5, <1>6

LEMMA RemoveTwo ==
  ASSUME NEW S, IsFiniteSet(S), NEW e, NEW d, e \in S, d \in S, e # d
  PROVE  IsFiniteSet(S \ {e, d}) /\ Cardinality(S \ {e, d}) = Cardinality(S) - 2
<1> DEFINE T == S \ {e, d}
<1>1. IsFiniteSet(T)
  BY FS_Subset
<1>2. T \cup {e, d} = S
  OBVIOUS
<1>3. Cardinality(S) = Cardinality(T) + 2
  BY <1>1, <1>2, AddTwo
<1>4. Cardinality(T) \in Nat
  BY <1>1, FS_CardinalityType
<1> HIDE DEF T
<1>5. Cardinality(T) = Cardinality(S) - 2
  BY <1>3, <1>4
<1> QED BY <1>1, <1>5 DEF T

LEMMA InitHolds == Init => IInv
<1> SUFFICES ASSUME Init PROVE IInv
  OBVIOUS
<1>0. PICK b \in Sizes : \E bits \in {{}, 0 .. b * BlockBits - 1} :
        file = [blocks |-> b, sb |-> NoSuperblock, bits |-> bits, magic |-> FALSE]
  BY DEF Init
<1>1. PICK bits \in {{}, 0 .. b * BlockBits - 1} :
        file = [blocks |-> b, sb |-> NoSuperblock, bits |-> bits, magic |-> FALSE]
  BY <1>0
<1>2. NoSuperblock \in Superblocks
  <2>1. Superblock(1, 1) \in Superblocks
    BY SuperblockIsTyped
  <2>2. DOMAIN Superblock(1, 1)
          = {"first_ib", "first_db", "first_inode", "first_data", "ib_count", "db_count",
             "iblock_count", "inode_count", "free_inode_count", "dblock_count",
             "free_dblock_count"}
    BY <2>1 DEF Superblocks
  <2> QED BY <2>2 DEF NoSuperblock, Superblocks
<1>3. bits \subseteq Int
  <2>1. b * BlockBits \in Int
    BY MkfsAssumption, BlockBitsIsPositive
  <2> QED BY <2>1
<1>4. FileType
  BY <1>1, <1>2, <1>3, FS_EmptySet DEF FileType, Init
<1>5. ~ file.magic
  BY <1>1
<1> QED BY <1>4, <1>5 DEF IInv, AsFormatted, NodesApart, BitmapsCoverUse, FreeCountsExact, Usable

-----------------------------------------------------------------------------
(* A run of mkfs.                                                          *)

LEMMA FormatKeeps ==
  ASSUME IInv, NEW o \in Options, Format(o)
  PROVE  IInv'
<1> DEFINE bits == IF o.zero THEN {} ELSE file.bits
           sb   == Superblock(file.blocks, o.n_inodes)
           runs == Stores(sb)
<1>1. o.n_inodes \in Counts /\ o.n_inodes \in Nat
  BY MkfsAssumption DEF Options
<1>2. file.blocks \in Sizes /\ file.blocks \in Nat
  BY MkfsAssumption DEF IInv, FileType
<1>3. /\ file' = [blocks |-> file.blocks, sb |-> sb, bits |-> BitsAfter(file, bits, runs),
                  magic |-> Killed(file, runs) \/ sb.first_data # 0]
      /\ nodes' = {}
      /\ clean' = (bits = {})
      /\ drift' = 0
  BY DEF Format, Formatted
<1>4. sb \in Superblocks
  BY <1>1, <1>2, SuperblockIsTyped
<1>5. BitsAfter(file, bits, runs) \subseteq Int
  <2>1. file.blocks * BlockBits \in Int
    BY <1>2, BlockBitsIsPositive
  <2>2. AllBits(file) \subseteq Int
    BY <2>1 DEF AllBits
  <2> QED BY <2>2 DEF BitsAfter
<1> HIDE DEF bits, sb, runs
<1>6. FileType'
  <2>1. (Killed(file, runs) \/ sb.first_data # 0) \in BOOLEAN
    OBVIOUS
  <2> QED BY <1>2, <1>3, <1>4, <1>5, <2>1, FS_EmptySet DEF FileType
<1>7. AsFormatted'
  <2>1. SameLayout(sb, Superblock(file.blocks, o.n_inodes))
    BY DEF sb, SameLayout
  <2>2. file'.sb = sb /\ file'.blocks = file.blocks
    BY <1>3
  <2> QED BY <1>1, <2>1, <2>2 DEF AsFormatted
<1>8. NodesApart'
  BY <1>3 DEF NodesApart
<1>9. ASSUME Usable'
      PROVE  /\ MarkedInodes' = {0} /\ UsedBlocks' = {0, 1}
             /\ UsedBlocks' \subseteq MarkedBlocks'
             /\ clean' => MarkedBlocks' = {0, 1}
  <2>1. Fits(file.blocks, sb.inode_count) /\ file.blocks * BlockSize < IntMod \div 2
    BY <1>3, <1>9 DEF Usable, Addressable
  <2>2. Divided(sb, file.blocks)
    BY <1>1, <1>2, <2>1, RoomDivides DEF sb
  <2>3. InAreas(sb, file.blocks) /\ Addressed(sb)
    BY <1>2, <2>1, <2>2, DividedInAreas, DividedIsAddressed
  <2> DEFINE after == BitsAfter(file, bits, runs)
             n == sb.inode_count
             d == sb.dblock_count
             A == Start(sb.first_ib)
             D == Start(sb.first_db)
  <2>4. /\ \A i \in 0 .. n - 1 : A + i \in after <=> i = 0
        /\ D \in after /\ D + 1 \in after
        /\ bits = {} => \A k \in 2 .. d - 1 : D + k \notin after
    BY <2>3, FormatMarks DEF runs
  <2>5. n \in Nat /\ n >= 1 /\ d \in Nat /\ d >= 2 /\ D \in Nat /\ A \in Nat
    BY <2>3 DEF InAreas
  <2>6. /\ MarkedInodes' = {i \in 0 .. n - 1 : A + i \in after}
        /\ MarkedBlocks' = {k \in 0 .. d - 1 : D + k \in after}
    BY <1>3 DEF MarkedInodes, MarkedBlocks, InodeBit, BlockBit, Start
  <2>7. UsedBlocks' = {0, 1}
    BY <1>3 DEF UsedBlocks
  <2> HIDE DEF after, n, d, A, D
  <2>8. D + 0 = D
    BY <2>5
  <2>9. {0, 1} \subseteq {k \in 0 .. d - 1 : D + k \in after}
    BY <2>4, <2>5, <2>8
  <2>10. {i \in 0 .. n - 1 : A + i \in after} = {0}
    BY <2>4, <2>5
  <2>11. ASSUME clean'
         PROVE  {k \in 0 .. d - 1 : D + k \in after} \subseteq {0, 1}
    <3>1. \A k \in 2 .. d - 1 : D + k \notin after
      BY <1>3, <2>4, <2>11
    <3> QED BY <3>1, <2>5
  <2> QED BY <2>6, <2>7, <2>9, <2>10, <2>11
<1>10. Cardinality({0}) = 1 /\ Cardinality({0, 1}) = 2 /\ Cardinality({}) = 0
  <2>1. Cardinality({0}) = 1 /\ IsFiniteSet({0})
    BY FS_Singleton
  <2>2. Cardinality({}) = 0 /\ IsFiniteSet({})
    BY FS_EmptySet
  <2>3. Cardinality({} \cup {0, 1}) = Cardinality({}) + 2
    BY <2>2, AddTwo
  <2> QED BY <2>1, <2>2, <2>3
<1>11. BitmapsCoverUse'
  <2> SUFFICES ASSUME Usable'
               PROVE  /\ MarkedInodes' = {0} \cup {x.ino : x \in nodes'}
                      /\ UsedBlocks' \subseteq MarkedBlocks'
                      /\ Cardinality(UsedBlocks')
                           = 2 + 2 * Cardinality({x \in nodes' : x.blocks # {}})
    BY DEF BitmapsCoverUse
  <2>1. {x.ino : x \in nodes'} = {} /\ {x \in nodes' : x.blocks # {}} = {}
    BY <1>3
  <2>2. Cardinality(UsedBlocks') = 2 /\ Cardinality({x \in nodes' : x.blocks # {}}) = 0
    BY <1>9, <1>10, <2>1
  <2> QED BY <1>9, <2>1, <2>2
<1>12. FreeCountsExact'
  <2> SUFFICES ASSUME Usable', clean'
               PROVE  /\ file'.sb.free_inode_count + drift'
                           = file'.sb.inode_count - Cardinality(MarkedInodes')
                      /\ file'.sb.free_dblock_count = file'.sb.dblock_count - Cardinality(MarkedBlocks')
    BY DEF FreeCountsExact
  <2>1. Cardinality(MarkedInodes') = 1 /\ Cardinality(MarkedBlocks') = 2
    BY <1>9, <1>10
  <2>2. sb.free_inode_count = sb.inode_count - 1 /\ sb.free_dblock_count = sb.dblock_count - 2
    BY DEF sb, Superblock, init_super
  <2>3. file'.sb = sb /\ drift' = 0
    BY <1>3
  <2>4. sb.inode_count - 1 + 0 = sb.inode_count - 1
    BY <1>4 DEF Superblocks
  <2> QED BY <2>1, <2>2, <2>3, <2>4
<1> QED BY <1>6, <1>7, <1>8, <1>11, <1>12 DEF IInv

-----------------------------------------------------------------------------
(* Use between two runs.                                                   *)

\* The layout is not touched by the mount.
LayoutKept ==
  /\ SameLayout(file'.sb, file.sb)
  /\ file'.blocks = file.blocks /\ file'.magic = file.magic

LEMMA CountersChanged ==
  ASSUME NEW sb \in Superblocks, NEW a \in Int, NEW b \in Int
  PROVE  [sb EXCEPT !.free_inode_count = a, !.free_dblock_count = b] \in Superblocks
<1> DEFINE tb == [sb EXCEPT !.free_inode_count = a]
<1>1. tb \in Superblocks
  BY DEF Superblocks
<1>2. [sb EXCEPT !.free_inode_count = a, !.free_dblock_count = b]
        = [tb EXCEPT !.free_dblock_count = b]
  OBVIOUS
<1> HIDE DEF tb
<1>3. [tb EXCEPT !.free_dblock_count = b] \in Superblocks
  BY <1>1 DEF Superblocks
<1> QED BY <1>2, <1>3

LEMMA LayoutKeptKeeps ==
  ASSUME IInv, LayoutKept,
         file' \in [blocks : Sizes, sb : Superblocks, bits : SUBSET Int, magic : BOOLEAN],
         IsFiniteSet(nodes'), drift' \in Nat
  PROVE  FileType' /\ AsFormatted' /\ (Usable' <=> Usable)
<1>1. FileType'
  BY DEF FileType
<1>2. AsFormatted'
  <2> SUFFICES ASSUME file'.magic
               PROVE  \E n \in Counts : SameLayout(file'.sb, Superblock(file'.blocks, n))
    BY DEF AsFormatted
  <2>1. PICK n \in Counts : SameLayout(file.sb, Superblock(file.blocks, n))
    BY DEF IInv, AsFormatted, LayoutKept
  <2>2. SameLayout(file'.sb, Superblock(file'.blocks, n))
    BY <2>1 DEF LayoutKept, SameLayout
  <2> QED BY <2>2
<1>3. Usable' <=> Usable
  BY DEF Usable, Addressable, LayoutKept, SameLayout
<1> QED BY <1>1, <1>2, <1>3

\* What lies where, in a file that is used.
LEMMA Marks ==
  ASSUME IInv, Usable
  PROVE  /\ file.sb.inode_count \in Nat /\ file.sb.dblock_count \in Nat
         /\ Start(file.sb.first_ib) \in Nat /\ Start(file.sb.first_db) \in Nat
         /\ Start(file.sb.first_inode) \in Nat
         /\ Start(file.sb.first_ib) + file.sb.inode_count <= Start(file.sb.first_db)
         /\ Start(file.sb.first_db) + file.sb.dblock_count <= Start(file.sb.first_inode)
         /\ \A i : InodeBit(i) = Start(file.sb.first_ib) + i
         /\ \A k : BlockBit(k) = Start(file.sb.first_db) + k
         /\ MarkedInodes = {i \in 0 .. file.sb.inode_count - 1 : Start(file.sb.first_ib) + i \in file.bits}
         /\ MarkedBlocks = {k \in 0 .. file.sb.dblock_count - 1 : Start(file.sb.first_db) + k \in file.bits}
         /\ IsFiniteSet(MarkedInodes) /\ IsFiniteSet(MarkedBlocks)
<1>1. InAreas(file.sb, file.blocks)
  BY UsableIsDivided DEF IInv
<1>2. /\ \A i : InodeBit(i) = Start(file.sb.first_ib) + i
      /\ \A k : BlockBit(k) = Start(file.sb.first_db) + k
  BY DEF InodeBit, BlockBit, Start
<1>3. /\ MarkedInodes = {i \in 0 .. file.sb.inode_count - 1 : Start(file.sb.first_ib) + i \in file.bits}
      /\ MarkedBlocks = {k \in 0 .. file.sb.dblock_count - 1 : Start(file.sb.first_db) + k \in file.bits}
  BY <1>2 DEF MarkedInodes, MarkedBlocks
<1>4. file.sb.inode_count \in Nat /\ file.sb.dblock_count \in Nat
  BY <1>1 DEF InAreas
<1>5. IsFiniteSet(0 .. file.sb.inode_count - 1) /\ IsFiniteSet(0 .. file.sb.dblock_count - 1)
  <2>1. 0 \in Int /\ file.sb.inode_count - 1 \in Int /\ file.sb.dblock_count - 1 \in Int
    BY <1>4
  <2> QED BY <2>1, FS_Interval
<1>6. IsFiniteSet(MarkedInodes) /\ IsFiniteSet(MarkedBlocks)
  <2>1. MarkedInodes \subseteq 0 .. file.sb.inode_count - 1
        /\ MarkedBlocks \subseteq 0 .. file.sb.dblock_count - 1
    BY DEF MarkedInodes, MarkedBlocks
  <2> QED BY <2>1, <1>5, FS_Subset
<1> QED BY <1>1, <1>2, <1>3, <1>4, <1>6 DEF InAreas

\* Bits of an inode and of blocks are set, and any bits behind the bitmaps.
LEMMA SettingMarks ==
  ASSUME IInv, Usable, LayoutKept,
         NEW i \in 0 .. file.sb.inode_count - 1,
         NEW K \in SUBSET (0 .. file.sb.dblock_count - 1),
         NEW R, \A b \in R : b \in Int /\ Start(file.sb.first_inode) <= b,
         file'.bits = file.bits \cup {InodeBit(i)} \cup {BlockBit(k) : k \in K} \cup R
  PROVE  MarkedInodes' = MarkedInodes \cup {i} /\ MarkedBlocks' = MarkedBlocks \cup K
<1> DEFINE A == Start(file.sb.first_ib)
           D == Start(file.sb.first_db)
           n == file.sb.inode_count
           d == file.sb.dblock_count
<1>1. /\ n \in Nat /\ d \in Nat /\ A \in Nat /\ D \in Nat /\ A + n <= D
      /\ D + d <= Start(file.sb.first_inode) /\ Start(file.sb.first_inode) \in Nat
      /\ MarkedInodes = {j \in 0 .. n - 1 : A + j \in file.bits}
      /\ MarkedBlocks = {k \in 0 .. d - 1 : D + k \in file.bits}
  BY Marks
<1>2. file'.bits = file.bits \cup {A + i} \cup {D + k : k \in K} \cup R
  BY Marks
<1>3. /\ MarkedInodes' = {j \in 0 .. n - 1 : A + j \in file'.bits}
      /\ MarkedBlocks' = {k \in 0 .. d - 1 : D + k \in file'.bits}
  BY DEF MarkedInodes, MarkedBlocks, InodeBit, BlockBit, Start, LayoutKept, SameLayout
<1>4. i \in 0 .. n - 1 /\ K \subseteq 0 .. d - 1
      /\ \A b \in R : b \in Int /\ Start(file.sb.first_inode) <= b
  OBVIOUS
<1> HIDE DEF A, D, n, d
<1>5. ASSUME NEW j \in 0 .. n - 1
      PROVE  A + j \in file'.bits <=> A + j \in file.bits \/ j = i
  <2>1. A + j \notin R /\ A + j \notin {D + k : k \in K}
    BY <1>1, <1>4
  <2>2. A + j = A + i <=> j = i
    BY <1>1, <1>4
  <2> QED BY <1>2, <2>1, <2>2
<1>6. ASSUME NEW k \in 0 .. d - 1
      PROVE  D + k \in file'.bits <=> D + k \in file.bits \/ k \in K
  <2>1. D + k \notin R /\ D + k # A + i
    BY <1>1, <1>4
  <2>2. D + k \in {D + l : l \in K} <=> k \in K
    BY <1>1, <1>4
  <2> QED BY <1>2, <2>1, <2>2
<1> QED BY <1>1, <1>3, <1>4, <1>5, <1>6

\* Bits of an inode and of blocks are cleared.
LEMMA ClearingMarks ==
  ASSUME IInv, Usable, LayoutKept,
         NEW i \in 0 .. file.sb.inode_count - 1,
         NEW K \in SUBSET (0 .. file.sb.dblock_count - 1),
         file'.bits = file.bits \ ({InodeBit(i)} \cup {BlockBit(k) : k \in K})
  PROVE  MarkedInodes' = MarkedInodes \ {i} /\ MarkedBlocks' = MarkedBlocks \ K
<1> DEFINE A == Start(file.sb.first_ib)
           D == Start(file.sb.first_db)
           n == file.sb.inode_count
           d == file.sb.dblock_count
<1>1. /\ n \in Nat /\ d \in Nat /\ A \in Nat /\ D \in Nat /\ A + n <= D
      /\ MarkedInodes = {j \in 0 .. n - 1 : A + j \in file.bits}
      /\ MarkedBlocks = {k \in 0 .. d - 1 : D + k \in file.bits}
  BY Marks
<1>2. file'.bits = file.bits \ ({A + i} \cup {D + k : k \in K})
  BY Marks
<1>3. /\ MarkedInodes' = {j \in 0 .. n - 1 : A + j \in file'.bits}
      /\ MarkedBlocks' = {k \in 0 .. d - 1 : D + k \in file'.bits}
  BY DEF MarkedInodes, MarkedBlocks, InodeBit, BlockBit, Start, LayoutKept, SameLayout
<1>4. i \in 0 .. n - 1 /\ K \subseteq 0 .. d - 1
  OBVIOUS
<1> HIDE DEF A, D, n, d
<1>5. ASSUME NEW j \in 0 .. n - 1
      PROVE  A + j \in file'.bits <=> A + j \in file.bits /\ j # i
  <2>1. A + j \notin {D + k : k \in K}
    BY <1>1, <1>4
  <2>2. A + j = A + i <=> j = i
    BY <1>1, <1>4
  <2> QED BY <1>2, <2>1, <2>2
<1>6. ASSUME NEW k \in 0 .. d - 1
      PROVE  D + k \in file'.bits <=> D + k \in file.bits /\ k \notin K
  <2>1. D + k # A + i
    BY <1>1, <1>4
  <2>2. D + k \in {D + l : l \in K} <=> k \in K
    BY <1>1, <1>4
  <2> QED BY <1>2, <2>1, <2>2
<1> QED BY <1>1, <1>3, <1>4, <1>5, <1>6

Holders(N) == {x \in N : x.blocks # {}}

LEMMA UsedIsFinite ==
  ASSUME IInv, Usable
  PROVE  /\ IsFiniteSet(UsedBlocks) /\ Cardinality(UsedBlocks) \in Nat
         /\ IsFiniteSet(Holders(nodes)) /\ Cardinality(Holders(nodes)) \in Nat
         /\ Cardinality(MarkedInodes) \in Nat /\ Cardinality(MarkedBlocks) \in Nat
<1>1. UsedBlocks \subseteq MarkedBlocks
  BY DEF IInv, BitmapsCoverUse
<1>2. IsFiniteSet(MarkedBlocks) /\ IsFiniteSet(MarkedInodes)
  BY Marks
<1>3. IsFiniteSet(nodes) /\ Holders(nodes) \subseteq nodes
  BY DEF IInv, FileType, Holders
<1>4. IsFiniteSet(UsedBlocks) /\ IsFiniteSet(Holders(nodes))
  BY <1>1, <1>2, <1>3, FS_Subset
<1> QED BY <1>2, <1>4, FS_CardinalityType

\* A node with two blocks or none is added, with an inode and blocks that were not
\* marked.
LEMMA AddingNode ==
  ASSUME IInv, Usable, LayoutKept,
         NEW i \in 0 .. file.sb.inode_count - 1, i \notin MarkedInodes,
         NEW K \in SUBSET (0 .. file.sb.dblock_count - 1), K \cap MarkedBlocks = {},
         K = {} \/ \E e, d \in K : e # d /\ K = {e, d},
         nodes' = nodes \cup {[ino |-> i, blocks |-> K]},
         MarkedInodes' = MarkedInodes \cup {i}, MarkedBlocks' = MarkedBlocks \cup K,
         file'.sb.free_inode_count = file.sb.free_inode_count - 1,
         file'.sb.free_dblock_count = file.sb.free_dblock_count - (IF K = {} THEN 0 ELSE 2),
         clean' = clean, drift' = drift
  PROVE  NodesApart' /\ BitmapsCoverUse' /\ FreeCountsExact'
<1> DEFINE x == [ino |-> i, blocks |-> K]
           n == file.sb.inode_count
           m == file.sb.dblock_count
<1>1. /\ MarkedInodes = {0} \cup {y.ino : y \in nodes}
      /\ UsedBlocks \subseteq MarkedBlocks
      /\ Cardinality(UsedBlocks) = 2 + 2 * Cardinality(Holders(nodes))
  BY DEF IInv, BitmapsCoverUse, Holders
<1>2. /\ nodes \subseteq [ino : 1 .. n - 1, blocks : SUBSET (2 .. m - 1)]
      /\ \A y \in nodes : y.blocks # {} => \E e, d \in y.blocks : e # d /\ y.blocks = {e, d}
      /\ \A y, z \in nodes : y # z => y.ino # z.ino /\ y.blocks \cap z.blocks = {}
  BY DEF IInv, NodesApart
<1>3. n \in Nat /\ m \in Nat /\ file'.sb.inode_count = n /\ file'.sb.dblock_count = m
  BY Marks DEF LayoutKept, SameLayout
<1>4. UsedBlocks = {0, 1} \cup UNION {y.blocks : y \in nodes}
  BY DEF UsedBlocks
<1>5. i \in 1 .. n - 1 /\ \A y \in nodes : y.ino # i
  BY <1>1, <1>3
<1>6. K \cap UsedBlocks = {}
  BY <1>1
<1>7. K \subseteq 2 .. m - 1 /\ \A y \in nodes : y.blocks \cap K = {}
  <2>1. 0 \notin K /\ 1 \notin K
    BY <1>4, <1>6
  <2>2. K \subseteq 2 .. m - 1
    BY <1>3, <2>1
  <2> QED BY <2>2, <1>4, <1>6
<1>8. x \notin nodes /\ x.ino = i /\ x.blocks = K
  BY <1>5
<1> HIDE DEF n, m
<1>9. NodesApart'
  <2>1. nodes' \subseteq [ino : 1 .. n - 1, blocks : SUBSET (2 .. m - 1)]
    <3>1. [ino |-> i, blocks |-> K] \in [ino : 1 .. n - 1, blocks : SUBSET (2 .. m - 1)]
      BY <1>5, <1>7
    <3> QED BY <3>1, <1>2, Zenon
  <2>2. \A y \in nodes' : y.blocks # {} => \E e, d \in y.blocks : e # d /\ y.blocks = {e, d}
    <3>1. nodes' = nodes \cup {x}
      OBVIOUS
    <3>2. x.blocks = {} \/ \E e, d \in x.blocks : e # d /\ x.blocks = {e, d}
      BY <1>8
    <3> HIDE DEF x
    <3> TAKE y \in nodes'
    <3>3. y \in nodes \/ y = x
      BY <3>1
    <3> QED BY <1>2, <3>2, <3>3
  <2>3. \A y, z \in nodes' : y # z => y.ino # z.ino /\ y.blocks \cap z.blocks = {}
    <3>1. nodes' = nodes \cup {x}
      OBVIOUS
    <3>2. \A y \in nodes : y.ino # x.ino /\ y.blocks \cap x.blocks = {}
      BY <1>5, <1>7, <1>8
    <3> HIDE DEF x
    <3> TAKE y, z \in nodes'
    <3>3. CASE y \in nodes /\ z \in nodes
      BY <1>2, <3>3
    <3>4. CASE y = x \/ z = x
      BY <3>1, <3>2, <3>4
    <3> QED BY <3>1, <3>3, <3>4
  <2> QED BY <2>1, <2>2, <2>3, <1>3 DEF NodesApart
<1> HIDE DEF x
<1>10. UsedBlocks' = UsedBlocks \cup K
  <2>1. UsedBlocks' = {0, 1} \cup UNION {y.blocks : y \in nodes'}
    BY DEF UsedBlocks
  <2>2. nodes' = nodes \cup {x}
    BY DEF x
  <2> QED BY <2>1, <2>2, <1>4, <1>8
<1>11. MarkedInodes' = {0} \cup {y.ino : y \in nodes'}
  <2>1. nodes' = nodes \cup {x}
    BY DEF x
  <2> QED BY <2>1, <1>1, <1>8
<1>12. /\ IsFiniteSet(UsedBlocks) /\ Cardinality(UsedBlocks) \in Nat
       /\ IsFiniteSet(Holders(nodes)) /\ Cardinality(Holders(nodes)) \in Nat
       /\ Cardinality(MarkedInodes) \in Nat /\ Cardinality(MarkedBlocks) \in Nat
       /\ IsFiniteSet(MarkedInodes) /\ IsFiniteSet(MarkedBlocks)
  BY UsedIsFinite, Marks
<1>13. Cardinality(UsedBlocks') = 2 + 2 * Cardinality(Holders(nodes'))
  <2>1. CASE K = {}
    <3>1. Holders(nodes') = Holders(nodes)
      BY <1>8, <2>1 DEF Holders, x
    <3>2. UsedBlocks' = UsedBlocks
      BY <1>10, <2>1
    <3> QED BY <3>1, <3>2, <1>1
  <2>2. CASE K # {}
    <3>1. PICK e \in K, d \in K : e # d /\ K = {e, d}
      BY <2>2
    <3>2. e \notin UsedBlocks /\ d \notin UsedBlocks
      BY <1>6
    <3>3. Cardinality(UsedBlocks \cup {e, d}) = Cardinality(UsedBlocks) + 2
      <4>1. IsFiniteSet(UsedBlocks) /\ e # d
        BY <1>12, <3>1
      <4> QED BY <4>1, <3>2, AddTwo
    <3>4. UsedBlocks' = UsedBlocks \cup {e, d}
      BY <3>1, <1>10
    <3>5. Holders(nodes') = Holders(nodes) \cup {x} /\ x \notin Holders(nodes)
      BY <1>8, <2>2 DEF Holders, x
    <3>6. Cardinality(Holders(nodes')) = Cardinality(Holders(nodes)) + 1
      <4>1. IsFiniteSet(Holders(nodes))
        BY <1>12
      <4>2. Cardinality(Holders(nodes) \cup {x}) = Cardinality(Holders(nodes)) + 1
        BY <4>1, <3>5, FS_AddElement
      <4> QED BY <4>2, <3>5
    <3>7. Cardinality(UsedBlocks') = Cardinality(UsedBlocks) + 2
      BY <3>3, <3>4
    <3> QED BY <3>6, <3>7, <1>1, <1>12
  <2> QED BY <2>1, <2>2
<1>14. BitmapsCoverUse'
  <2>1. UsedBlocks' \subseteq MarkedBlocks'
    BY <1>1, <1>10
  <2> QED BY <2>1, <1>11, <1>13 DEF BitmapsCoverUse, Holders
<1>15. file.sb.free_inode_count \in Int /\ drift \in Nat
  BY DEF IInv, FileType, Superblocks
<1>16. ASSUME clean
       PROVE  /\ file'.sb.free_inode_count + drift = n - Cardinality(MarkedInodes')
              /\ file'.sb.free_dblock_count = m - Cardinality(MarkedBlocks')
  <2>1. /\ file.sb.free_inode_count + drift = n - Cardinality(MarkedInodes)
        /\ file.sb.free_dblock_count = m - Cardinality(MarkedBlocks)
    BY <1>16 DEF IInv, FreeCountsExact, n, m
  <2>2. Cardinality(MarkedInodes') = Cardinality(MarkedInodes) + 1
    BY <1>12, FS_AddElement
  <2>3. file'.sb.free_inode_count + drift = n - Cardinality(MarkedInodes')
    BY <2>1, <2>2, <1>3, <1>12, <1>15
  <2>4. CASE K = {}
    <3>1. MarkedBlocks' = MarkedBlocks
      BY <2>4
    <3>2. file'.sb.free_dblock_count = m - Cardinality(MarkedBlocks)
      BY <2>1, <2>4, <1>3, <1>12
    <3> QED BY <3>1, <3>2, <2>3
  <2>5. CASE K # {}
    <3>1. PICK e \in K, d \in K : e # d /\ K = {e, d}
      BY <2>5
    <3>2. e \notin MarkedBlocks /\ d \notin MarkedBlocks
      OBVIOUS
    <3>3. Cardinality(MarkedBlocks \cup {e, d}) = Cardinality(MarkedBlocks) + 2
      BY <3>1, <3>2, <1>12, AddTwo
    <3>4. MarkedBlocks' = MarkedBlocks \cup {e, d}
      BY <3>1
    <3>5. Cardinality(MarkedBlocks') = Cardinality(MarkedBlocks) + 2
      BY <3>3, <3>4
    <3> QED BY <3>5, <2>1, <2>3, <2>5, <1>3, <1>12
  <2> QED BY <2>4, <2>5
<1>17. FreeCountsExact'
  BY <1>3, <1>16 DEF FreeCountsExact
<1> QED BY <1>9, <1>14, <1>17

LEMMA MakeKeeps ==
  ASSUME IInv, Make
  PROVE  IInv'
<1> DEFINE n == file.sb.inode_count
           m == file.sb.dblock_count
<1>1. Usable /\ clean' = clean /\ drift' = drift
  BY DEF Make
<1>2. PICK i \in 0 .. n - 1, e \in 0 .. m - 1, d \in 0 .. m - 1 :
        /\ IsFirstClear(i, n, MarkedInodes)
        /\ IsFirstClear(e, m, MarkedBlocks)
        /\ IsFirstClear(d, m, MarkedBlocks \cup {e})
        /\ file' = [file EXCEPT
                      !.bits = @ \cup {InodeBit(i), BlockBit(e), BlockBit(d)}
                                 \cup Run(IntAddress(file.sb.first_inode),
                                          i * InodeSize * BitsPerByte,
                                          InodeSize * BitsPerByte, 1).bits
                                 \cup Run(IntAddress(file.sb.first_data + e),
                                          0, 2 * WordBits, 1).bits
                                 \cup Run(IntAddress(file.sb.first_data + d),
                                          0, BlockBits, 1).bits,
                      !.sb.free_inode_count = @ - 1,
                      !.sb.free_dblock_count = @ - 2]
        /\ nodes' = nodes \cup {[ino |-> i, blocks |-> {e, d}]}
  BY DEF Make
<1> DEFINE R == Run(IntAddress(file.sb.first_inode), i * InodeSize * BitsPerByte,
                    InodeSize * BitsPerByte, 1).bits
                \cup Run(IntAddress(file.sb.first_data + e), 0, 2 * WordBits, 1).bits
                \cup Run(IntAddress(file.sb.first_data + d), 0, BlockBits, 1).bits
<1>3. file \in [blocks : Sizes, sb : Superblocks, bits : SUBSET Int, magic : BOOLEAN]
      /\ IsFiniteSet(nodes)
  BY DEF IInv, FileType
<1>4. /\ Divided(file.sb, file.blocks) /\ InAreas(file.sb, file.blocks)
      /\ file.blocks \in Nat /\ file.blocks * BlockSize < IntMod \div 2
      /\ Addressed(file.sb)
  BY <1>1, <1>3, UsableIsDivided, DividedIsAddressed, MkfsAssumption
     DEF IInv, Usable, Addressable
<1>5. \A b \in R : b \in Int /\ Start(file.sb.first_inode) <= b
  <2>1. /\ i \in Nat /\ e \in Nat /\ d \in Nat
        /\ InodeSize \in Nat /\ BitsPerByte \in Nat /\ WordBits \in Nat /\ BlockBits \in Nat
    BY MkfsAssumption, BlockBitsIsPositive
  <2>2. i * InodeSize * BitsPerByte \in Nat /\ e * BlockBits \in Nat /\ d * BlockBits \in Nat
        /\ InodeSize * BitsPerByte \in Nat /\ 2 * WordBits \in Nat
    BY <2>1
  <2>3. file.sb.first_data \in Int /\ Start(file.sb.first_inode) \in Nat
        /\ Start(file.sb.first_inode) <= Start(file.sb.first_data)
        /\ Start(file.sb.first_data) \in Nat
    BY <1>3, <1>4 DEF Superblocks, InAreas
  <2>4. /\ (file.sb.first_data + e) * BlockBits = Start(file.sb.first_data) + e * BlockBits
        /\ (file.sb.first_data + d) * BlockBits = Start(file.sb.first_data) + d * BlockBits
    BY <2>1, <2>3, Distributes DEF Start
  <2>5. \A b \in Run(IntAddress(file.sb.first_inode), i * InodeSize * BitsPerByte,
                     InodeSize * BitsPerByte, 1).bits :
           b \in Int /\ Start(file.sb.first_inode) <= b
    <3> DEFINE y == i * InodeSize * BitsPerByte
               S == InodeSize * BitsPerByte
               P == Start(file.sb.first_inode)
               runs == Run(IntAddress(file.sb.first_inode), y, S, 1)
    <3>1. runs.bits = P + y .. P + y + S - 1
      BY <1>4 DEF Run, Addressed
    <3>2. y \in Nat /\ S \in Nat /\ P \in Nat
      BY <2>2, <2>3
    <3> HIDE DEF y, S, P, runs
    <3>3. \A b \in P + y .. P + y + S - 1 : b \in Int /\ P <= b
      BY <3>2
    <3>4. \A b \in runs.bits : b \in Int /\ P <= b
      BY <3>1, <3>3
    <3> QED BY <3>4 DEF y, S, P, runs
  <2>6. ASSUME NEW k \in {e, d}, NEW len \in Nat
        PROVE  \A b \in Run(IntAddress(file.sb.first_data + k), 0, len, 1).bits :
                 b \in Int /\ Start(file.sb.first_inode) <= b
    <3> DEFINE y == k * BlockBits
               P == Start(file.sb.first_data)
               runs == Run(IntAddress(file.sb.first_data + k), 0, len, 1)
    <3>1. file.sb.first_data + k \in Nat /\ file.sb.first_data + k <= file.blocks
      <4> DEFINE x == file.sb.first_data
      <4>1. x + m = file.blocks /\ x \in Int /\ m \in Nat
        BY <1>4, <2>3 DEF Divided
      <4>2. x \in Nat
        <5>1. /\ file.sb.first_ib = 1 /\ file.sb.ib_count \in Nat /\ file.sb.db_count \in Nat
              /\ file.sb.iblock_count \in Nat
              /\ x = 1 + file.sb.ib_count + file.sb.db_count + file.sb.iblock_count
          BY <1>4 DEF Divided
        <5> HIDE DEF x
        <5> QED BY <5>1
      <4>3. k \in 0 .. m - 1
        OBVIOUS
      <4> HIDE DEF x, m
      <4>4. x + k \in Nat /\ x + k <= file.blocks
        BY <4>1, <4>2, <4>3
      <4> QED BY <4>4 DEF x
    <3>2. IntAddress(file.sb.first_data + k) * BitsPerByte = Start(file.sb.first_data + k)
      BY <1>4, <3>1, AddressIsStart
    <3>3. Start(file.sb.first_data + k) = P + y
      BY <2>4 DEF Start
    <3>4. runs.bits = P + y + 0 .. P + y + 0 + len - 1
      BY <3>2, <3>3 DEF Run
    <3>5. y \in Nat /\ P \in Nat /\ Start(file.sb.first_inode) <= P
      BY <2>2, <2>3
    <3> HIDE DEF y, P, runs
    <3>6. \A b \in P + y + 0 .. P + y + 0 + len - 1 : b \in Int /\ Start(file.sb.first_inode) <= b
      BY <2>3, <3>5
    <3>7. \A b \in runs.bits : b \in Int /\ Start(file.sb.first_inode) <= b
      BY <3>4, <3>6
    <3> QED BY <3>7 DEF runs
  <2> QED BY <2>1, <2>2, <2>5, <2>6
<1>6. file'.bits = file.bits \cup {InodeBit(i)} \cup {BlockBit(k) : k \in {e, d}} \cup R
  BY <1>2, <1>3
<1> HIDE DEF R
<1>7. /\ file'.blocks = file.blocks /\ file'.magic = file.magic
      /\ file'.sb = [file.sb EXCEPT !.free_inode_count = @ - 1, !.free_dblock_count = @ - 2]
      /\ file' = [blocks |-> file.blocks, sb |-> file'.sb, bits |-> file'.bits, magic |-> file.magic]
  BY <1>2, <1>3
<1>8. file.sb \in Superblocks
  BY <1>3
<1>9. /\ file'.sb \in Superblocks /\ SameLayout(file'.sb, file.sb)
      /\ file'.sb.free_inode_count = file.sb.free_inode_count - 1
      /\ file'.sb.free_dblock_count = file.sb.free_dblock_count - 2
  <2> DEFINE sb == file.sb
             tb == file'.sb
  <2>1. sb \in Superblocks
    BY <1>8
  <2>2. tb = [sb EXCEPT !.free_inode_count = sb.free_inode_count - 1,
                        !.free_dblock_count = sb.free_dblock_count - 2]
    BY <1>7
  <2> HIDE DEF sb, tb
  <2>3. tb \in Superblocks
    <3>1. sb.free_inode_count - 1 \in Int /\ sb.free_dblock_count - 2 \in Int
      BY <2>1 DEF Superblocks
    <3> QED BY <2>1, <2>2, <3>1, CountersChanged
  <2>4. /\ tb.free_inode_count = sb.free_inode_count - 1
        /\ tb.free_dblock_count = sb.free_dblock_count - 2
    BY <2>1, <2>2 DEF Superblocks
  <2>5. SameLayout(tb, sb)
    BY <2>1, <2>2 DEF Superblocks, SameLayout
  <2> QED BY <2>3, <2>4, <2>5 DEF sb, tb
<1>10. LayoutKept
  BY <1>7, <1>9 DEF LayoutKept
<1>11. InodeBit(i) \in Int /\ BlockBit(e) \in Int /\ BlockBit(d) \in Int
  BY <1>1, Marks
<1>12. file'.bits \subseteq Int
  BY <1>3, <1>5, <1>6, <1>11
<1>13. file' \in [blocks : Sizes, sb : Superblocks, bits : SUBSET Int, magic : BOOLEAN]
  BY <1>3, <1>7, <1>9, <1>12
<1>14. IsFiniteSet(nodes') /\ drift' \in Nat
  BY <1>1, <1>2, <1>3, FS_AddElement DEF IInv, FileType
<1>15. FileType' /\ AsFormatted'
  BY <1>10, <1>13, <1>14, LayoutKeptKeeps
<1>16. {e, d} \in SUBSET (0 .. m - 1)
  OBVIOUS
<1>17. MarkedInodes' = MarkedInodes \cup {i} /\ MarkedBlocks' = MarkedBlocks \cup {e, d}
  BY <1>1, <1>5, <1>6, <1>10, <1>16, SettingMarks
<1>18. i \notin MarkedInodes /\ {e, d} \cap MarkedBlocks = {} /\ e # d
  BY <1>2 DEF IsFirstClear
<1>19. \E x, y \in {e, d} : x # y /\ {e, d} = {x, y}
  BY <1>18
<1>20. {e, d} # {}
  OBVIOUS
<1>21. file'.sb.free_dblock_count = file.sb.free_dblock_count - (IF {e, d} = {} THEN 0 ELSE 2)
  BY <1>9, <1>20
<1>22. NodesApart' /\ BitmapsCoverUse' /\ FreeCountsExact'
  BY <1>1, <1>2, <1>9, <1>10, <1>16, <1>17, <1>18, <1>19, <1>21, AddingNode
<1> QED BY <1>15, <1>22 DEF IInv

LEMMA LeakKeeps ==
  ASSUME IInv, Leak
  PROVE  IInv'
<1> DEFINE n == file.sb.inode_count
           m == file.sb.dblock_count
<1>1. Usable /\ clean' = clean /\ drift' = drift
  BY DEF Leak
<1>2. PICK i \in 0 .. n - 1 :
        /\ IsFirstClear(i, n, MarkedInodes)
        /\ file' = [file EXCEPT !.bits = @ \cup {InodeBit(i)}, !.sb.free_inode_count = @ - 1]
        /\ nodes' = nodes \cup {[ino |-> i, blocks |-> {}]}
  BY DEF Leak
<1>3. file \in [blocks : Sizes, sb : Superblocks, bits : SUBSET Int, magic : BOOLEAN]
      /\ IsFiniteSet(nodes)
  BY DEF IInv, FileType
<1> DEFINE none == {}
<1>4. file'.bits = file.bits \cup {InodeBit(i)} \cup {BlockBit(k) : k \in none} \cup none
  BY <1>2, <1>3
<1>5. /\ file'.blocks = file.blocks /\ file'.magic = file.magic
      /\ file'.sb = [file.sb EXCEPT !.free_inode_count = @ - 1]
      /\ file' = [blocks |-> file.blocks, sb |-> file'.sb, bits |-> file'.bits, magic |-> file.magic]
  BY <1>2, <1>3
<1>6. file.sb \in Superblocks
  BY <1>3
<1>7. /\ file'.sb \in Superblocks /\ SameLayout(file'.sb, file.sb)
      /\ file'.sb.free_inode_count = file.sb.free_inode_count - 1
      /\ file'.sb.free_dblock_count = file.sb.free_dblock_count
      /\ file.sb.free_dblock_count \in Int
  BY <1>5, <1>6 DEF Superblocks, SameLayout
<1>8. LayoutKept
  BY <1>5, <1>7 DEF LayoutKept
<1>9. InodeBit(i) \in Int
  BY <1>1, Marks
<1>10. file' \in [blocks : Sizes, sb : Superblocks, bits : SUBSET Int, magic : BOOLEAN]
  <2>1. file'.bits \subseteq Int
    BY <1>3, <1>4, <1>9
  <2> QED BY <2>1, <1>3, <1>5, <1>7
<1>11. IsFiniteSet(nodes') /\ drift' \in Nat
  BY <1>1, <1>2, <1>3, FS_AddElement DEF IInv, FileType
<1>12. FileType' /\ AsFormatted'
  BY <1>8, <1>10, <1>11, LayoutKeptKeeps
<1>13. none \in SUBSET (0 .. m - 1)
       /\ \A b \in none : b \in Int /\ Start(file.sb.first_inode) <= b
  OBVIOUS
<1>14. none = {} /\ nodes' = nodes \cup {[ino |-> i, blocks |-> none]}
  BY <1>2
<1> HIDE DEF none
<1>15. MarkedInodes' = MarkedInodes \cup {i} /\ MarkedBlocks' = MarkedBlocks \cup none
  BY <1>1, <1>4, <1>8, <1>13, SettingMarks
<1>16. i \notin MarkedInodes /\ none \cap MarkedBlocks = {}
  BY <1>2, <1>14 DEF IsFirstClear
<1>17. file'.sb.free_dblock_count = file.sb.free_dblock_count - (IF none = {} THEN 0 ELSE 2)
  BY <1>7, <1>14
<1>18. NodesApart' /\ BitmapsCoverUse' /\ FreeCountsExact'
  BY <1>1, <1>7, <1>8, <1>13, <1>14, <1>15, <1>16, <1>17, AddingNode
<1> QED BY <1>12, <1>18 DEF IInv

\* mkdir finds no inode: the bits stay, and the counter and drift move together.
LEMMA DriftKeeps ==
  ASSUME IInv, Drift
  PROVE  IInv'
<1>1. /\ Usable /\ nodes' = nodes /\ clean' = clean /\ drift' = drift + 1
      /\ file' = [file EXCEPT !.sb.free_inode_count = @ - 1]
  BY DEF Drift
<1>2. /\ file \in [blocks : Sizes, sb : Superblocks, bits : SUBSET Int, magic : BOOLEAN]
      /\ IsFiniteSet(nodes) /\ drift \in Nat
  BY DEF IInv, FileType
<1>3. /\ file'.blocks = file.blocks /\ file'.magic = file.magic /\ file'.bits = file.bits
      /\ file'.sb = [file.sb EXCEPT !.free_inode_count = @ - 1]
      /\ file' = [blocks |-> file.blocks, sb |-> file'.sb, bits |-> file.bits, magic |-> file.magic]
  BY <1>1, <1>2
<1>4. file.sb \in Superblocks
  BY <1>2
<1>5. /\ file'.sb \in Superblocks /\ SameLayout(file'.sb, file.sb)
      /\ file'.sb.free_inode_count = file.sb.free_inode_count - 1
      /\ file'.sb.free_dblock_count = file.sb.free_dblock_count
  BY <1>3, <1>4 DEF Superblocks, SameLayout
<1>6. LayoutKept
  BY <1>3, <1>5 DEF LayoutKept
<1>7. file' \in [blocks : Sizes, sb : Superblocks, bits : SUBSET Int, magic : BOOLEAN]
  BY <1>2, <1>3, <1>5
<1>8. FileType' /\ AsFormatted' /\ Usable'
  BY <1>1, <1>2, <1>6, <1>7, LayoutKeptKeeps
<1>9. /\ file'.sb.inode_count = file.sb.inode_count
      /\ file'.sb.dblock_count = file.sb.dblock_count
      /\ MarkedInodes' = MarkedInodes /\ MarkedBlocks' = MarkedBlocks
      /\ UsedBlocks' = UsedBlocks
  BY <1>1, <1>3, <1>5
     DEF SameLayout, MarkedInodes, MarkedBlocks, InodeBit, BlockBit, UsedBlocks
<1>10. NodesApart'
  BY <1>1, <1>9 DEF IInv, NodesApart
<1>11. BitmapsCoverUse'
  BY <1>1, <1>9 DEF IInv, BitmapsCoverUse
<1>12. ASSUME clean
       PROVE  /\ file'.sb.free_inode_count + drift'
                   = file.sb.inode_count - Cardinality(MarkedInodes)
              /\ file'.sb.free_dblock_count
                   = file.sb.dblock_count - Cardinality(MarkedBlocks)
  <2>1. /\ file.sb.free_inode_count + drift
             = file.sb.inode_count - Cardinality(MarkedInodes)
        /\ file.sb.free_dblock_count = file.sb.dblock_count - Cardinality(MarkedBlocks)
    BY <1>1, <1>12 DEF IInv, FreeCountsExact
  <2>2. file.sb.free_inode_count \in Int
    BY <1>4 DEF Superblocks
  <2> QED BY <2>1, <2>2, <1>1, <1>2, <1>5
<1>13. FreeCountsExact'
  BY <1>1, <1>9, <1>12 DEF FreeCountsExact
<1> QED BY <1>8, <1>10, <1>11, <1>13 DEF IInv

LEMMA UnmakeKeeps ==
  ASSUME IInv, Unmake
  PROVE  IInv'
<1> DEFINE n == file.sb.inode_count
           m == file.sb.dblock_count
<1>1. Usable /\ clean' = clean /\ drift' = drift
  BY DEF Unmake
<1>2. PICK x \in nodes :
        /\ x.blocks # {}
        /\ file' = [file EXCEPT
                      !.bits = @ \ ({InodeBit(x.ino)} \cup {BlockBit(k) : k \in x.blocks}),
                      !.sb.free_inode_count = @ + 1,
                      !.sb.free_dblock_count = @ + 2]
        /\ nodes' = nodes \ {x}
  BY DEF Unmake
<1>3. file \in [blocks : Sizes, sb : Superblocks, bits : SUBSET Int, magic : BOOLEAN]
      /\ IsFiniteSet(nodes)
  BY DEF IInv, FileType
<1>4. file'.bits = file.bits \ ({InodeBit(x.ino)} \cup {BlockBit(k) : k \in x.blocks})
  BY <1>2, <1>3
<1>5. /\ file'.blocks = file.blocks /\ file'.magic = file.magic
      /\ file'.sb = [file.sb EXCEPT !.free_inode_count = @ + 1, !.free_dblock_count = @ + 2]
      /\ file' = [blocks |-> file.blocks, sb |-> file'.sb, bits |-> file'.bits, magic |-> file.magic]
  BY <1>2, <1>3
<1>6. file.sb \in Superblocks
  BY <1>3
<1>7. /\ file'.sb \in Superblocks /\ SameLayout(file'.sb, file.sb)
      /\ file'.sb.free_inode_count = file.sb.free_inode_count + 1
      /\ file'.sb.free_dblock_count = file.sb.free_dblock_count + 2
  <2> DEFINE sb == file.sb
             tb == file'.sb
  <2>1. sb \in Superblocks
    BY <1>6
  <2>2. tb = [sb EXCEPT !.free_inode_count = sb.free_inode_count + 1,
                        !.free_dblock_count = sb.free_dblock_count + 2]
    BY <1>5
  <2> HIDE DEF sb, tb
  <2>3. tb \in Superblocks
    <3>1. sb.free_inode_count + 1 \in Int /\ sb.free_dblock_count + 2 \in Int
      BY <2>1 DEF Superblocks
    <3> QED BY <2>1, <2>2, <3>1, CountersChanged
  <2>4. /\ tb.free_inode_count = sb.free_inode_count + 1
        /\ tb.free_dblock_count = sb.free_dblock_count + 2
    BY <2>1, <2>2 DEF Superblocks
  <2>5. SameLayout(tb, sb)
    BY <2>1, <2>2 DEF Superblocks, SameLayout
  <2> QED BY <2>3, <2>4, <2>5 DEF sb, tb
<1>8. LayoutKept
  BY <1>5, <1>7 DEF LayoutKept
<1>9. file' \in [blocks : Sizes, sb : Superblocks, bits : SUBSET Int, magic : BOOLEAN]
  BY <1>3, <1>4, <1>5, <1>7
<1>10. IsFiniteSet(nodes') /\ drift' \in Nat
  BY <1>1, <1>2, <1>3, FS_Subset DEF IInv, FileType
<1>11. FileType' /\ AsFormatted' /\ Usable'
  BY <1>1, <1>8, <1>9, <1>10, LayoutKeptKeeps
<1>12. /\ nodes \subseteq [ino : 1 .. n - 1, blocks : SUBSET (2 .. m - 1)]
       /\ \A y \in nodes : y.blocks # {} => \E e, d \in y.blocks : e # d /\ y.blocks = {e, d}
       /\ \A y, z \in nodes : y # z => y.ino # z.ino /\ y.blocks \cap z.blocks = {}
  BY <1>1 DEF IInv, NodesApart
<1>13. /\ MarkedInodes = {0} \cup {y.ino : y \in nodes}
       /\ UsedBlocks \subseteq MarkedBlocks
       /\ Cardinality(UsedBlocks) = 2 + 2 * Cardinality(Holders(nodes))
  BY <1>1 DEF IInv, BitmapsCoverUse, Holders
<1>14. n \in Nat /\ m \in Nat /\ file'.sb.inode_count = n /\ file'.sb.dblock_count = m
  BY <1>1, <1>8, Marks DEF LayoutKept, SameLayout
<1>15. x.ino \in 1 .. n - 1 /\ x.blocks \in SUBSET (2 .. m - 1)
  BY <1>12
<1>16. x.ino \in 0 .. n - 1 /\ x.blocks \in SUBSET (0 .. m - 1)
  BY <1>14, <1>15
<1>17. MarkedInodes' = MarkedInodes \ {x.ino} /\ MarkedBlocks' = MarkedBlocks \ x.blocks
  BY <1>1, <1>4, <1>8, <1>16, ClearingMarks
<1> HIDE DEF n, m
<1>18. PICK e \in x.blocks, d \in x.blocks : e # d /\ x.blocks = {e, d}
  BY <1>2, <1>12
<1>19. NodesApart'
  <2>1. nodes' \subseteq nodes
    BY <1>2
  <2> QED BY <2>1, <1>12, <1>14 DEF NodesApart
<1>20. UsedBlocks' = UsedBlocks \ x.blocks /\ x.blocks \subseteq UsedBlocks
  <2>1. UsedBlocks' = {0, 1} \cup UNION {y.blocks : y \in nodes'}
        /\ UsedBlocks = {0, 1} \cup UNION {y.blocks : y \in nodes}
    BY DEF UsedBlocks
  <2>2. 0 \notin x.blocks /\ 1 \notin x.blocks
    BY <1>15
  <2>3. \A y \in nodes' : y.blocks \cap x.blocks = {}
    BY <1>2, <1>12
  <2> QED BY <2>1, <2>2, <2>3, <1>2
<1>21. MarkedInodes' = {0} \cup {y.ino : y \in nodes'}
  <2>1. \A y \in nodes' : y.ino # x.ino
    BY <1>2, <1>12
  <2>2. x.ino # 0
    BY <1>14, <1>15
  <2> QED BY <2>1, <2>2, <1>2, <1>13, <1>17
<1>22. /\ IsFiniteSet(UsedBlocks) /\ Cardinality(UsedBlocks) \in Nat
       /\ IsFiniteSet(Holders(nodes)) /\ Cardinality(Holders(nodes)) \in Nat
       /\ Cardinality(MarkedInodes) \in Nat /\ Cardinality(MarkedBlocks) \in Nat
       /\ IsFiniteSet(MarkedInodes) /\ IsFiniteSet(MarkedBlocks)
  BY <1>1, UsedIsFinite, Marks
<1>23. Cardinality(UsedBlocks') = 2 + 2 * Cardinality(Holders(nodes'))
  <2>1. Cardinality(UsedBlocks \ {e, d}) = Cardinality(UsedBlocks) - 2
    BY <1>18, <1>20, <1>22, RemoveTwo
  <2>2. Cardinality(UsedBlocks') = Cardinality(UsedBlocks) - 2
    BY <2>1, <1>18, <1>20
  <2>3. Holders(nodes') = Holders(nodes) \ {x} /\ x \in Holders(nodes)
    BY <1>2 DEF Holders
  <2>4. Cardinality(Holders(nodes')) = Cardinality(Holders(nodes)) - 1
    BY <2>3, <1>22, FS_RemoveElement
  <2> QED BY <2>2, <2>4, <1>13, <1>22
<1>24. BitmapsCoverUse'
  <2>1. UsedBlocks' \subseteq MarkedBlocks'
    BY <1>13, <1>17, <1>20
  <2> QED BY <2>1, <1>21, <1>23 DEF BitmapsCoverUse, Holders
<1>25. ASSUME clean
       PROVE  /\ file'.sb.free_inode_count + drift = n - Cardinality(MarkedInodes')
              /\ file'.sb.free_dblock_count = m - Cardinality(MarkedBlocks')
  <2>1. /\ file.sb.free_inode_count + drift = n - Cardinality(MarkedInodes)
        /\ file.sb.free_dblock_count = m - Cardinality(MarkedBlocks)
    BY <1>1, <1>25 DEF IInv, FreeCountsExact, n, m
  <2>2. x.ino \in MarkedInodes
    BY <1>13
  <2>3. Cardinality(MarkedInodes') = Cardinality(MarkedInodes) - 1
    BY <2>2, <1>17, <1>22, FS_RemoveElement
  <2>4. e \in MarkedBlocks /\ d \in MarkedBlocks
    BY <1>13, <1>18, <1>20
  <2>5. Cardinality(MarkedBlocks \ {e, d}) = Cardinality(MarkedBlocks) - 2
    BY <2>4, <1>18, <1>22, RemoveTwo
  <2>6. Cardinality(MarkedBlocks') = Cardinality(MarkedBlocks) - 2
    BY <2>5, <1>17, <1>18
  <2>7. file.sb.free_inode_count \in Int /\ drift \in Nat
    BY DEF IInv, FileType, Superblocks
  <2> QED BY <2>1, <2>3, <2>6, <2>7, <1>7, <1>14, <1>22
<1>26. FreeCountsExact'
  BY <1>1, <1>14, <1>25 DEF FreeCountsExact
<1> QED BY <1>11, <1>19, <1>24, <1>26 DEF IInv

-----------------------------------------------------------------------------
(* The theorems.                                                           *)

LEMMA NextKeeps == IInv /\ [Next]_vars => IInv'
<1> SUFFICES ASSUME IInv, [Next]_vars
             PROVE  IInv'
  OBVIOUS
<1>1. CASE UNCHANGED vars
  BY <1>1 DEF vars, IInv, FileType, AsFormatted, NodesApart, BitmapsCoverUse,
              FreeCountsExact, Usable, Addressable, UsedBlocks, MarkedInodes, MarkedBlocks,
              InodeBit, BlockBit
<1>2. ASSUME NEW o \in Options, Mkfs(o)
      PROVE  IInv'
  BY <1>1, <1>2, FormatKeeps DEF Mkfs, Refuse
<1> QED BY <1>1, <1>2, MakeKeeps, LeakKeeps, DriftKeeps, UnmakeKeeps DEF Next

LEMMA Invariance == Spec => []IInv
  BY InitHolds, NextKeeps, PTL DEF Spec

\* In a file whose bytes an int can number, whatever number of inodes mkfs is asked
\* for and however often it is run, an image in which root has room has its areas
\* one behind the other, each large enough and none outside the file: the product
\* of mkfs.c:269 did not overflow in it.
THEOREM LayoutIsSound == Spec => []LayoutSound
<1>1. IInv => LayoutSound
  BY LayoutFollows DEF IInv
<1> QED BY <1>1, Invariance, PTL

\* Whatever was in the file, the bits that mkfs and the mount store mark what is
\* in use and no inode besides, and nothing is used twice.
THEOREM BitmapsCover == Spec => []BitmapsCoverUse
<1>1. IInv => BitmapsCoverUse
  BY DEF IInv
<1> QED BY <1>1, Invariance, PTL

\* After a format of zeros and through any use of the image the block counter is
\* that of the bitmap, and the inode counter is behind its bitmap by the number of
\* mkdirs that found no inode (a1fs.c:752).
THEOREM FreeCountsAreExact == Spec => []FreeCountsExact
<1>1. IInv => FreeCountsExact
  BY DEF IInv
<1> QED BY <1>1, Invariance, PTL

=============================================================================

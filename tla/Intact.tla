------------------------------- MODULE Intact -------------------------------
(***************************************************************************)
(* The invariant of the images that took no damage: a tree of names under  *)
(* the root, one inode and two blocks of its own for each of its nodes,    *)
(* and bitmaps and counters that say what is in use.  It is inductive,     *)
(* along with IInv of A1fs_proofs: Intact_proofs derives from it what A1fs *)
(* claims of intact images.                                                *)
(***************************************************************************)
EXTENDS A1fs

(* Trees of names, as sets of edges <<directory, name, inode>>.            *)

\* Every inode of L is reached from the root along E.
Rooted(E, L) ==
  \A S \in SUBSET Inodes :
    0 \in S /\ (\A e \in E : e[1] \in S => e[3] \in S) => L \subseteq S

\* No inode has two names, no directory has a name twice.
Graph(E, L) ==
  /\ 0 \in L
  /\ E \subseteq L \X Names \X (L \ {0})
  /\ \A e, f \in E : e[3] = f[3] => e = f
  /\ \A e, f \in E : e[1] = f[1] /\ e[2] = f[2] => e = f
  /\ Rooted(E, L)

-----------------------------------------------------------------------------
(* The tree an image holds.  L is the set of its nodes.                    *)

\* Slot k of the block of inode d; its entries lie in that block alone.
Slot(s, d, k) == s.mem[DataBlock(s, d)][k]

\* Entry k of directory d.
Edge(s, d, k) == <<d, Slot(s, d, k).tail, Slot(s, d, k).word>>

EdgesOf(s, d) == {Edge(s, d, k) : k \in Listing(s, d)}

EdgeSet(s, L) == UNION {EdgesOf(s, d) : d \in L}

DirSet(s, L) == {d \in L : IsDir(s, d)}

\* A directory's own block: "." and "..", then entries of different names.
Listed(s, d) ==
  /\ Slot(s, d, 0) = Dentry(d, ".")
  /\ Slot(s, d, 1).tail = ".."
  /\ \A k \in Listing(s, d) : Slot(s, d, k).tail \in Names
  /\ \A k, l \in Listing(s, d) : Slot(s, d, k).tail = Slot(s, d, l).tail => k = l

\* An inode in use: it has both its blocks, and its entries fit in one.
LaidOut(s, d) ==
  /\ s.inode[d].mode \in {"file", "dir"}
  /\ s.inode[d].dentry_count \in 2 .. DentriesPerBlock
  /\ s.inode[d].ext_block \in Blocks
  /\ s.mem[s.inode[d].ext_block][0].tail = "extent"
  /\ DataBlock(s, d) \in Blocks
  /\ IsDir(s, d) => Listed(s, d)

\* No block serves two inodes, nor one inode as both its blocks.
Apart(s, L) ==
  \A d, e \in L :
    /\ s.inode[d].ext_block # DataBlock(s, e)
    /\ d # e => /\ s.inode[d].ext_block # s.inode[e].ext_block
                /\ DataBlock(s, d) # DataBlock(s, e)

\* The bits of the blocks of the inodes in L.
Occupied(s, d) == {Bit(s.inode[d].ext_block), Bit(DataBlock(s, d))}

\* The data bitmap and its counter say which blocks those are.
Accounted(s, L) ==
  /\ s.data_bitmap = UNION {Occupied(s, d) : d \in L}
  /\ Cardinality(s.data_bitmap) = 2 * Cardinality(L)
  /\ s.free_dblock_count = DBlockCount - Cardinality(s.data_bitmap)

Sound(s, L) ==
  /\ L \subseteq s.inode_bitmap
  /\ \A d \in L : LaidOut(s, d)
  /\ Apart(s, L)
  /\ Graph(EdgeSet(s, L), L)
  /\ Accounted(s, L)

\* What a run has to say of the inode bitmap and its counter, by the branches
\* taken so far: the counter may fall behind, but never promises an inode more.
InodesExact(s, L, branches) ==
  /\ "inode_leak" \notin branches => L = s.inode_bitmap
  /\ s.free_inode_count <= InodeCount - Cardinality(s.inode_bitmap)
  /\ "counter_drift" \notin branches =>
       s.free_inode_count = InodeCount - Cardinality(s.inode_bitmap)

\* The invariant: what mkdir, create, rmdir, unlink and rename leave is a tree of
\* what paths lead to, each entry, block, bit and count where the next call will
\* look for it.
SoundInv == Intact => Sound(img, Reachable) /\ InodesExact(img, Reachable, hit)

-----------------------------------------------------------------------------
(* What is in the blocks that are no directory's.                          *)

\* The first two slots of block b hold no name.
NoNameFirst(s, b) == s.mem[b][0].tail \notin Names /\ s.mem[b][1].tail \notin Names

\* No block has a name in its first two slots, and no node that is a file has
\* more entries than that.
Nameless(s, L) ==
  /\ \A b \in Blocks : NoNameFirst(s, b)
  /\ \A d \in L : ~ IsDir(s, d) => s.inode[d].dentry_count = 2

\* The walks scan a file's block as if it held entries, and it holds what older
\* inodes left there: but never a name where they look.
FilesNameless == Intact => Nameless(img, Reachable)

=============================================================================

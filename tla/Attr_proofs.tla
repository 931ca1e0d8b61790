---------------------------- MODULE Attr_proofs ----------------------------
(* That getattr, readdir and ".." say of a node what the calls before made  *)
(* of it, and that statfs's counters decide how mkdir and create end, for   *)
(* every size of the image.                                                 *)
EXTENDS Attr, PathWalk_proofs, FunctionTheorems

-----------------------------------------------------------------------------
(* The parents of a node.                                                  *)

\* In a sound image they are those its edges come from.
LEMMA ParentsAre ==
  ASSUME NEW s, NEW L \in SUBSET Inodes, Sound(s, L), NEW i
  PROVE  ParentsIn(s, i) = {x[1] : x \in {y \in EdgeSet(s, L) : y[3] = i}}
<1>1. ReachableFrom(s, 0) = L /\ \A d \in L : LaidOut(s, d)
  BY ReachableIs DEF Sound
<1>2. ASSUME NEW e \in Steps(s), e[2] = i, e[1] \in L
      PROVE  \E x \in EdgeSet(s, L) : x[3] = i /\ x[1] = e[1]
  BY <1>1, <1>2, StepIsEdge
<1>3. ASSUME NEW x \in EdgeSet(s, L), x[3] = i
      PROVE  \E e \in Steps(s) : e[2] = i /\ e[1] \in L /\ e[1] = x[1]
  <2>1. <<x[1], x[3]>> \in Steps(s) /\ x[1] \in L
    BY <1>1, EdgeIsStep
  <2>2. <<x[1], x[3]>>[1] = x[1] /\ <<x[1], x[3]>>[2] = i
    BY <1>3
  <2> QED BY <2>1, <2>2
<1> QED BY <1>1, <1>2, <1>3 DEF ParentsIn

\* A node that is not the root has exactly one.
LEMMA OneParent ==
  ASSUME NEW s, NEW L \in SUBSET Inodes, Sound(s, L), NEW i \in L \ {0},
         NEW x \in EdgeSet(s, L), x[3] = i
  PROVE  ParentsIn(s, i) = {x[1]}
BY ParentsAre DEF Sound, Graph

-----------------------------------------------------------------------------
(* "..".                                                                   *)

\* What mkfs leaves: no directory but the root.
LEMMA InitDots ==
  ASSUME Init
  PROVE  DotDotOfBirth
<1>1. IInv /\ SoundInv
  BY InitGood, InitSound
<1>2. Intact /\ img.inode_bitmap = {0} /\ hit = {}
  BY DEF Init, Intact, Formatted
<1>3. Reachable = {0}
  BY <1>1, <1>2 DEF SoundInv, InodesExact
<1> QED BY <1>3 DEF DotDotOfBirth

\* A step that leaves image, branches and moved directories alone.
LEMMA QuietStep ==
  ASSUME IInv, SoundInv, DotDotOfBirth, UNCHANGED <<img, hit, moved>>
  PROVE  IInv' /\ SoundInv' /\ DotDotOfBirth'
<1>1. img' = img /\ hit' = hit /\ moved' = moved
  OBVIOUS
<1>2. IInv' /\ (Intact <=> Intact') /\ Reachable' = Reachable
  BY <1>1 DEF IInv, Typed, RootUnreferenced, Intact, Reachable
<1>3. SoundInv'
  BY <1>1, <1>2 DEF SoundInv
<1>4. DotDotOfBirth'
  BY <1>1, <1>2 DEF DotDotOfBirth
<1> QED BY <1>2, <1>3, <1>4

\* A handler: a directory that was there keeps its "..", and is moved if its
\* parent is another; a new one's is its parent.
LEMMA CallKeepsDots ==
  ASSUME IInv, SoundInv, DotDotOfBirth, DirectoryCall
  PROVE  DotDotOfBirth'
<1> SUFFICES ASSUME Intact', NEW d \in Reachable', IsDir(img', d), d # 0, d \notin moved'
             PROVE  ParentsIn(img', d) = {DentryAt(img', d, 1).word}
  BY DEF DotDotOfBirth
<1>1. Next
  BY DEF DirectoryCall
<1>2. PICK K \in SUBSET Inodes : Sounds(K)
  BY <1>1, NextSounds
<1>3. Reachable' = K /\ Sound(img', K) /\ Backs(img, img', Reachable, K)
  BY <1>2, ReachableNext DEF Sounds
<1>4. d \in K /\ d \in Inodes /\ LaidOut(img', d)
  BY <1>3 DEF Sound
<1>5. DentryAt(img', d, 1) = Slot(img', d, 1)
  BY <1>4, LaidOutFacts
<1>6. Intact
  BY <1>1, IntactBefore
<1>7. CASE d \in Reachable /\ IsDir(img, d) /\ Slot(img', d, 1) = Slot(img, d, 1)
  <2>1. d \notin moved /\ ParentsIn(img', d) = ParentsIn(img, d)
    BY <1>3, <1>4, <1>7 DEF DirectoryCall, Reachable
  <2>2. LaidOut(img, d)
    BY <1>6, <1>7, SoundImage DEF Sound
  <2>3. DentryAt(img, d, 1) = Slot(img, d, 1)
    BY <1>4, <2>2, LaidOutFacts
  <2>4. ParentsIn(img, d) = {DentryAt(img, d, 1).word}
    BY <1>6, <1>7, <2>1 DEF DotDotOfBirth
  <2> QED BY <1>5, <1>7, <2>1, <2>3, <2>4
<1>8. CASE \E x \in EdgeSet(img', K) : x[3] = d /\ x[1] = Slot(img', d, 1).word
  <2>1. PICK x \in EdgeSet(img', K) : x[3] = d /\ x[1] = Slot(img', d, 1).word
    BY <1>8
  <2>2. ParentsIn(img', d) = {x[1]}
    BY <1>3, <1>4, <2>1, OneParent
  <2> QED BY <1>5, <2>1, <2>2
<1> QED BY <1>3, <1>4, <1>7, <1>8 DEF Backs

\* ".." names the parent of every directory that was not moved to another one.
THEOREM DotDotIsOfBirth == AttrSpec => []DotDotOfBirth
<1> DEFINE Inv == IInv /\ SoundInv /\ DotDotOfBirth
<1>1. AttrInit => Inv
  BY InitGood, InitSound, InitDots DEF AttrInit
<1>2. ASSUME Inv, [AttrNext]_attrVars
      PROVE  Inv'
  <2>1. CASE DirectoryCall
    <3>1. [Next]_vars
      BY <2>1 DEF DirectoryCall
    <3> QED BY <1>2, <2>1, <3>1, NextKeeps, NextSound, CallKeepsDots
  <2>2. CASE UNCHANGED <<img, hit, moved>>
    BY <1>2, <2>2, QuietStep
  <2>3. CASE (\E ns \in LivePaths : Utimens(ns)) \/ Stub \/ Stop \/ UNCHANGED attrVars
    <3>1. UNCHANGED <<img, hit, moved>>
      BY <2>3 DEF Utimens, Stub, Stop, attrVars, vars
    <3> QED BY <2>2, <3>1
  <2> QED BY <1>2, <2>1, <2>3 DEF AttrNext
<1>3. Inv => DotDotOfBirth
  OBVIOUS
<1> HIDE DEF Inv
<1> QED BY <1>1, <1>2, <1>3, PTL DEF AttrSpec

-----------------------------------------------------------------------------
(* The counters that statfs reports.                                       *)

\* The counters are what the bitmaps leave.
LEMMA RoomCounted ==
  ASSUME IInv, SoundInv, Intact, "counter_drift" \notin hit
  PROVE  /\ img.inode_bitmap \in SUBSET Inodes /\ img.data_bitmap \in SUBSET DBits
         /\ Cardinality(img.inode_bitmap) \in Nat /\ Cardinality(img.data_bitmap) \in Nat
         /\ Room <=> /\ Cardinality(img.inode_bitmap) <= InodeCount - 1
                     /\ Cardinality(img.data_bitmap) <= DBlockCount - 2
<1>1. img.inode_bitmap \in SUBSET Inodes /\ img.data_bitmap \in SUBSET DBits
  BY SoundImage DEF ImageType
<1>2. Cardinality(img.inode_bitmap) \in Nat /\ Cardinality(img.data_bitmap) \in Nat
  BY <1>1, BitmapsFinite
<1>3. /\ img.free_inode_count = InodeCount - Cardinality(img.inode_bitmap)
      /\ img.free_dblock_count = DBlockCount - Cardinality(img.data_bitmap)
  BY SoundImage DEF Sound, Accounted, InodesExact
<1>4. statfs.f_ffree = img.free_inode_count /\ statfs.f_bfree = img.free_dblock_count
  BY DEF statfs
<1> QED BY <1>1, <1>2, <1>3, <1>4, Sizes DEF Room

\* An inode and two blocks were free.
LEMMA FoundRoom ==
  ASSUME IInv, SoundInv, Intact, "counter_drift" \notin hit,
         NEW i \in Inodes, NEW e \in DBits, NEW d \in DBits, Found(i, e, d)
  PROVE  Room
<1> DEFINE b == img.inode_bitmap
           c == img.data_bitmap
<1>1. /\ b \in SUBSET Inodes /\ c \in SUBSET DBits
      /\ Cardinality(b) \in Nat /\ Cardinality(c) \in Nat
      /\ Room <=> Cardinality(b) <= InodeCount - 1 /\ Cardinality(c) <= DBlockCount - 2
  BY RoomCounted
<1>2. i \notin b /\ e \notin c /\ d \notin c /\ e # d
  BY DEF Found, IsFirstFree
<1> HIDE DEF b, c
<1>3. IsFiniteSet(b) /\ IsFiniteSet(c)
  BY <1>1, BitmapsFinite
<1>4. Cardinality(b \cup {i}) = Cardinality(b) + 1 /\ Cardinality(c \cup {e, d}) = Cardinality(c) + 2
  BY <1>2, <1>3, FS_AddElement, PairAdded
<1>5. b \cup {i} \in SUBSET Inodes /\ c \cup {e, d} \in SUBSET DBits
  BY <1>1
<1>6. Cardinality(b \cup {i}) <= InodeCount /\ Cardinality(c \cup {e, d}) <= DBlockCount
  BY <1>5, Capacity
<1> QED BY <1>1, <1>4, <1>6, Sizes

\* No inode, no block or only one was free.
LEMMA NoneFreeNoRoom ==
  ASSUME IInv, SoundInv, Intact, "counter_drift" \notin hit,
         \/ NoneFree(img.inode_bitmap, InodeCount)
         \/ NoneFree(img.data_bitmap, DBlockCount)
         \/ \E e \in DBits : /\ IsFirstFree(img.data_bitmap, DBlockCount, e)
                             /\ NoneFree(img.data_bitmap \cup {e}, DBlockCount)
  PROVE  ~ Room
<1> DEFINE b == img.inode_bitmap
           c == img.data_bitmap
<1>1. /\ b \in SUBSET Inodes /\ c \in SUBSET DBits
      /\ Cardinality(b) \in Nat /\ Cardinality(c) \in Nat
      /\ Room <=> Cardinality(b) <= InodeCount - 1 /\ Cardinality(c) <= DBlockCount - 2
  BY RoomCounted
<1>2. CASE NoneFree(b, InodeCount)
  <2>1. b = Inodes
    BY <1>1, <1>2 DEF NoneFree, Inodes
  <2> QED BY <1>1, <2>1, Capacity, Sizes
<1>3. CASE NoneFree(c, DBlockCount)
  <2>1. c = DBits
    BY <1>1, <1>3 DEF NoneFree, DBits
  <2> QED BY <1>1, <2>1, Capacity, Sizes
<1>4. ASSUME NEW e \in DBits, IsFirstFree(c, DBlockCount, e), NoneFree(c \cup {e}, DBlockCount)
      PROVE  ~ Room
  <2>1. e \notin c /\ c \cup {e} = DBits
    BY <1>1, <1>4 DEF IsFirstFree, NoneFree, DBits
  <2> HIDE DEF c
  <2>2. Cardinality(c \cup {e}) = Cardinality(c) + 1
    BY <1>1, <2>1, BitmapsFinite, FS_AddElement
  <2> QED BY <1>1, <2>1, <2>2, Capacity, Sizes
<1> QED BY <1>2, <1>3, <1>4

-----------------------------------------------------------------------------
(* How the handlers end.                                                   *)

\* rmdir, unlink and rename take no inode.
LEMMA RemoveTakesNone ==
  ASSUME NEW s \in ImageType, NEW p \in Inodes, NEW k
  PROVE  Remove(s, p, k).inode_bitmap \subseteq s.inode_bitmap
<1> DEFINE u == FreeNode(s, DentryAt(s, p, k).word)
           v == [u EXCEPT !.mem = forward_layback_extents(
                            @, DataBlock(u, p), k, u.inode[p].dentry_count)]
<1>1. /\ Record(u) /\ u.inode = s.inode /\ u.inode_bitmap \subseteq s.inode_bitmap
  BY ImageRecord, NodeFreed
<1>2. Remove(s, p, k) = WithEntries(v, p, -1)
  BY DEF Remove, DropEntry
<1> HIDE DEF u
<1>3. Record(v) /\ SameBitmaps(u, v) /\ v.inode = u.inode
  BY <1>1, MemSet
<1> HIDE DEF v
<1>4. v.inode \in [Inodes -> Inode] /\ -1 \in Int
  BY <1>1, <1>3 DEF ImageType
<1>5. SameBitmaps(v, WithEntries(v, p, -1))
  BY <1>3, <1>4, CountSet
<1> QED BY <1>1, <1>2, <1>3, <1>5 DEF SameBitmaps

\* The same of a move.
LEMMA MoveTakesNone ==
  ASSUME NEW s \in ImageType, NEW p \in Inodes, NEW k, NEW q \in Inodes, NEW m
  PROVE  Move(s, p, k, q, m).inode_bitmap = s.inode_bitmap
<1> DEFINE u == AddEntry(s, q, s.inode[q].dentry_count, DentryAt(s, p, k).word, m)
           v == [u EXCEPT !.mem = forward_layback_extents(
                            @, DataBlock(s, p), k, s.inode[p].dentry_count)]
           w == WithEntries(v, p, -1)
<1>1. Record(u) /\ SameBitmaps(s, u) /\ u.inode = s.inode
  <2>1. u = [s EXCEPT !.mem = Store(s.mem, DataBlock(s, q), s.inode[q].dentry_count,
                                    Dentry(DentryAt(s, p, k).word, m))]
    BY ImageRecord DEF AddEntry, Record, Fields
  <2> HIDE DEF u
  <2> QED BY <2>1, ImageRecord, MemSet
<1>2. Move(s, p, k, q, m) = WithEntries(w, q, 1)
  BY DEF Move
<1> HIDE DEF u
<1>3. Record(v) /\ SameBitmaps(u, v) /\ v.inode = u.inode
  BY <1>1, MemSet
<1> HIDE DEF v
<1>4. v.inode \in [Inodes -> Inode] /\ -1 \in Int /\ 1 \in Int
  BY <1>1, <1>3 DEF ImageType
<1>5. Record(w) /\ SameBitmaps(v, w) /\ w.inode \in [Inodes -> Inode]
  BY <1>3, <1>4, CountSet
<1> HIDE DEF w
<1>6. SameBitmaps(w, WithEntries(w, q, 1))
  BY <1>4, <1>5, CountSet
<1> QED BY <1>1, <1>2, <1>3, <1>5, <1>6 DEF SameBitmaps

\* The second half of rename, when the old entry is there.
LEMMA FinishEnds ==
  ASSUME NEW s \in ImageType, NEW p \in Inodes, NEW q \in Inodes, NEW n, NEW m,
         Holds(s, p, n), NEW branches, FinishRename(s, p, n, q, m, branches)
  PROVE  ret' # "1" /\ img'.inode_bitmap \subseteq s.inode_bitmap
<1>1. CASE Return(s, "SIGSEGV", branches \cup {"overrun"})
  BY <1>1 DEF Return
<1>2. ASSUME NEW k, NEW all, Return(Move(s, p, k, q, m), "0", all)
      PROVE  ret' # "1" /\ img'.inode_bitmap \subseteq s.inode_bitmap
  <2>1. img' = Move(s, p, k, q, m) /\ ret' = "0"
    BY <1>2 DEF Return
  <2> QED BY <2>1, MoveTakesNone
<1> QED BY <1>1, <1>2 DEF FinishRename

\* rename finds the old entry, also when it has removed the new name's.
LEMMA RenameEnds ==
  ASSUME IInv, SoundInv, Intact, NEW p \in Directories, NEW q \in Directories,
         NEW n \in Names, NEW m \in Names, Rename(p, n, q, m)
  PROVE  ret' # "1" /\ img'.inode_bitmap \subseteq img.inode_bitmap
<1>1. /\ img \in ImageType /\ Reachable \in SUBSET Inodes
      /\ p \in Inodes /\ q \in Inodes
  BY SoundImage, SoundDirectory
<1>2. <<p, n>> # <<q, m>>
  BY DEF Rename, MayRename
<1>3. PICK k \in 0 .. img.inode[p].dentry_count - 1, t \in Inodes : EntryIs(p, n, k, t)
  BY DEF Rename, MayRename
<1>4. Holds(img, p, n)
  BY <1>3 DEF Holds, EntryIs, IsAt
<1>5. CASE \E branches : FinishRename(img, p, n, q, m, branches)
  BY <1>1, <1>4, <1>5, FinishEnds
<1>6. CASE Return(img, "SIGSEGV", {})
  BY <1>6 DEF Return
<1>7. ASSUME NEW j, NEW u \in Inodes, EntryIs(q, m, j, u),
             IsDir(img, u) => img.inode[u].dentry_count <= 2,
             FinishRename(Remove(img, q, j), p, n, q, m, {})
      PROVE  ret' # "1" /\ img'.inode_bitmap \subseteq img.inode_bitmap
  <2> DEFINE s == Remove(img, q, j)
  <2>1. Removed(s, q, m, u)
    BY <1>7, RemoveSound
  <2>2. s.inode_bitmap \subseteq img.inode_bitmap
    BY <1>1, RemoveTakesNone
  <2>3. FinishRename(s, p, n, q, m, {})
    BY <1>7
  <2> HIDE DEF s
  <2>4. <<p, n, t>> \in EdgeSet(img, Reachable) /\ <<p, n, t>> # <<q, m, u>>
    BY <1>2, <1>3, EntryEdge
  <2>5. <<p, n, t>> \in EdgeSet(s, Reachable \ {u})
    BY <2>1, <2>4 DEF Removed
  <2>6. Reachable \ {u} \in SUBSET Inodes /\ Sound(s, Reachable \ {u}) /\ s \in ImageType
    BY <1>1, <2>1 DEF Removed
  <2>7. Holds(s, p, n)
    BY <2>5, <2>6, EdgeHolds
  <2>8. ret' # "1" /\ img'.inode_bitmap \subseteq s.inode_bitmap
    BY <1>1, <2>3, <2>6, <2>7, FinishEnds
  <2> QED BY <2>2, <2>8
<1>8. CASE \E j \in 1 .. img.inode[q].dentry_count - 1, u \in Inodes,
              read \in {"dir", "file", "unmapped"} :
             /\ EntryIs(q, m, j, u)
             /\ \/ Return(img, "SIGSEGV", {})
                \/ FinishRename(img, p, n, q, m, {"target_kept"})
                \/ /\ ~ (IF read = "dir" THEN img.inode[u].dentry_count > 2
                                         ELSE IsDir(img, u))
                   /\ FinishRename(Remove(img, q, j), p, n, q, m, {})
  <2>1. PICK j \in 1 .. img.inode[q].dentry_count - 1, u \in Inodes,
              read \in {"dir", "file", "unmapped"} :
             /\ EntryIs(q, m, j, u)
             /\ \/ Return(img, "SIGSEGV", {})
                \/ FinishRename(img, p, n, q, m, {"target_kept"})
                \/ /\ ~ (IF read = "dir" THEN img.inode[u].dentry_count > 2
                                         ELSE IsDir(img, u))
                   /\ FinishRename(Remove(img, q, j), p, n, q, m, {})
    BY <1>8
  <2>2. img.inode[u].dentry_count \in Int
    BY DEF IInv, Typed
  <2>3. ~ (IF read = "dir" THEN img.inode[u].dentry_count > 2 ELSE IsDir(img, u))
        => (IsDir(img, u) => img.inode[u].dentry_count <= 2)
    BY <2>2
  <2> QED BY <1>5, <1>6, <1>7, <2>1, <2>3
<1>9. \/ FinishRename(img, p, n, q, m, {})
      \/ \E j \in 1 .. img.inode[q].dentry_count - 1, u \in Inodes,
            read \in {"dir", "file", "unmapped"} :
           /\ EntryIs(q, m, j, u)
           /\ \/ Return(img, "SIGSEGV", {})
              \/ FinishRename(img, p, n, q, m, {"target_kept"})
              \/ /\ ~ (IF read = "dir" THEN img.inode[u].dentry_count > 2
                                       ELSE IsDir(img, u))
                 /\ FinishRename(Remove(img, q, j), p, n, q, m, {})
  BY DEF Rename
<1> QED BY <1>5, <1>8, <1>9

\* What the counters say of how a handler ends.
Foretold ==
  /\ FilledIn # {} => Room
  /\ ret' = "1" => ~ Room

\* mkdir and create.
LEMMA NoBlocksForetold ==
  ASSUME IInv, SoundInv, Intact, "counter_drift" \notin hit, NEW i, NoBlocks(i)
  PROVE  Foretold
<1>1. ret' = "1"
  BY DEF NoBlocks, Return
<1>2. ~ Room
  BY NoneFreeNoRoom DEF NoBlocks
<1> QED BY <1>1, <1>2 DEF Foretold, FilledIn

\* Every return of the two.
LEMMA AddForetold ==
  ASSUME IInv, SoundInv, Intact, "counter_drift" \notin hit,
         NEW p \in Directories, NEW n \in Names, Mkdir(p, n) \/ Create(p, n)
  PROVE  Foretold
<1>1. CASE NoneFree(img.inode_bitmap, InodeCount) /\ ret' = "1"
  <2>1. ~ Room
    BY <1>1, NoneFreeNoRoom
  <2> QED BY <1>1, <2>1 DEF Foretold, FilledIn
<1>2. CASE \E i \in Inodes : NoBlocks(i)
  BY <1>2, NoBlocksForetold
<1>3. ASSUME NEW i \in Inodes, NEW e \in DBits, NEW d \in DBits, Found(i, e, d),
             ret' \in {"0", "SIGSEGV"}
      PROVE  Foretold
  <2>1. Room
    BY <1>3, FoundRoom
  <2> QED BY <1>3, <2>1 DEF Foretold
<1>4. \/ NoneFree(img.inode_bitmap, InodeCount) /\ ret' = "1"
      \/ \E i \in Inodes : NoBlocks(i)
      \/ \E i \in Inodes, e, d \in DBits : Found(i, e, d) /\ ret' \in {"0", "SIGSEGV"}
  <2>1. CASE Mkdir(p, n)
    BY <2>1, FoundByFirst DEF Mkdir, Killed, Return
  <2>2. CASE Create(p, n)
    BY <2>2, FoundByFirst DEF Create, Killed, Return
  <2> QED BY <2>1, <2>2
<1> QED BY <1>1, <1>2, <1>3, <1>4

\* The other handlers fill in nothing, and never answer 1.
LEMMA OthersForetold ==
  ASSUME ret' # "1", img'.inode_bitmap \subseteq img.inode_bitmap
  PROVE  Foretold
BY DEF Foretold, FilledIn

\* Every handler.
LEMMA NextForetold ==
  ASSUME IInv, SoundInv, Intact, "counter_drift" \notin hit, Next
  PROVE  Foretold
<1>1. CASE \E p \in Directories, n \in Names : Mkdir(p, n) \/ Create(p, n)
  BY <1>1, AddForetold
<1>2. CASE \E p \in Directories, n \in Names : Rmdir(p, n) \/ Unlink(p, n)
  <2>1. PICK p \in Directories, n \in Names : Rmdir(p, n) \/ Unlink(p, n)
    BY <1>2
  <2>2. \/ img' = img /\ ret' = "-ENOTEMPTY"
        \/ \E k : img' = Remove(img, p, k) /\ ret' = "0"
    BY <2>1 DEF Rmdir, Unlink, Return
  <2>3. p \in Inodes /\ img \in ImageType
    BY SoundDirectory, SoundImage
  <2> QED BY <2>2, <2>3, RemoveTakesNone, OthersForetold
<1>3. CASE \E p, q \in Directories, n, m \in Names : Rename(p, n, q, m)
  BY <1>3, RenameEnds, OthersForetold
<1>4. CASE Remount
  BY <1>4, OthersForetold DEF Remount
<1>5. ~ Astray
  <2>1. ASSUME NEW d \in Reachable
        PROVE  Readable(img, d) /\ d \in img.inode_bitmap
    BY <2>1, SoundImage, LaidOutReadable DEF Sound
  <2> QED BY <2>1 DEF Astray
<1> QED BY <1>1, <1>2, <1>3, <1>4, <1>5 DEF Next

\* An inode is filled in only if statfs reported one, and two blocks, free; mkdir
\* and create answer 1 only if it did not.
THEOREM RoomDecides == AttrSpec => RoomIsRoom
<1> DEFINE Inv == IInv /\ SoundInv
<1>1. AttrInit => Inv
  BY InitGood, InitSound DEF AttrInit
<1>2. ASSUME Inv, [AttrNext]_attrVars
      PROVE  Inv' /\ (DirectoryCall \/ UNCHANGED <<img, hit>>)
  <2>1. DirectoryCall \/ UNCHANGED <<img, hit>>
    BY <1>2 DEF AttrNext, Utimens, Stub, Stop, attrVars, vars
  <2>2. CASE DirectoryCall
    <3>1. [Next]_vars
      BY <2>2 DEF DirectoryCall
    <3> QED BY <1>2, <2>1, <3>1, NextKeeps, NextSound
  <2>3. CASE UNCHANGED <<img, hit>>
    <3>1. img' = img /\ hit' = hit
      BY <2>3
    <3> QED BY <1>2, <2>1, <3>1
        DEF IInv, Typed, RootUnreferenced, Intact, Reachable, SoundInv
  <2> QED BY <2>1, <2>2, <2>3
<1>3. ASSUME Inv, [AttrNext]_attrVars, Intact, "counter_drift" \notin hit
      PROVE  /\ FilledIn # {} => Room
             /\ ret' = "1" /\ DirectoryCall => ~ Room
  <2>1. CASE DirectoryCall
    BY <1>3, <2>1, NextForetold DEF DirectoryCall, Foretold
  <2>2. CASE ~ DirectoryCall
    <3>1. img' = img
      BY <1>2, <1>3, <2>2
    <3> QED BY <2>2, <3>1 DEF FilledIn
  <2> QED BY <2>1, <2>2
<1>4. Inv /\ [AttrNext]_attrVars =>
        (Intact /\ "counter_drift" \notin hit =>
           /\ FilledIn # {} => Room
           /\ ret' = "1" /\ DirectoryCall => ~ Room)
  BY <1>3
<1> HIDE DEF Inv
<1> QED BY <1>1, <1>2, <1>4, PTL DEF AttrSpec, RoomIsRoom

-----------------------------------------------------------------------------
(* What getattr and readdir answer.                                        *)

\* Of a node in use, mtime is the time the node was made, or that was set.
TimesOwn ==
  /\ DOMAIN mtime = Inodes
  /\ clock \in Nat /\ stamp \in [Inodes -> Int]
  /\ Intact => \A i \in Reachable : mtime[i] = stamp[i]

\* A step that leaves image and branches alone.
LEMMA StillNameless ==
  ASSUME IInv, SoundInv, FilesNameless, UNCHANGED <<img, hit>>
  PROVE  /\ IInv' /\ SoundInv' /\ FilesNameless'
         /\ (Intact <=> Intact') /\ Reachable' = Reachable
<1>1. img' = img /\ hit' = hit
  OBVIOUS
<1>2. IInv' /\ (Intact <=> Intact') /\ Reachable' = Reachable
  BY <1>1 DEF IInv, Typed, RootUnreferenced, Intact, Reachable
<1>3. SoundInv' /\ FilesNameless'
  BY <1>1, <1>2 DEF SoundInv, FilesNameless
<1> QED BY <1>2, <1>3

\* A handler fills in what was not there before, and nothing that was.
LEMMA CallKeepsTimes ==
  ASSUME IInv, SoundInv, TimesOwn, DirectoryCall
  PROVE  TimesOwn'
<1>1. /\ Next /\ DOMAIN mtime' = Inodes
      /\ clock' \in Nat /\ stamp' \in [Inodes -> Int]
  BY DEF DirectoryCall, Fill, Tick, TimesOwn
<1> SUFFICES ASSUME Intact', NEW i \in Reachable'
             PROVE  mtime'[i] = stamp'[i]
  BY <1>1 DEF TimesOwn
<1>2. PICK K \in SUBSET Inodes : Sounds(K)
  BY <1>1, NextSounds
<1>3. /\ Reachable' = K /\ i \in Inodes /\ i \in img'.inode_bitmap
      /\ i \notin Reachable => ret' = "0" /\ i \notin img.inode_bitmap
  BY <1>2, ReachableNext DEF Sounds, Sound
<1>4. /\ mtime'[i] = IF i \in FilledIn THEN clock' ELSE mtime[i]
      /\ stamp'[i] = IF i \notin Reachable THEN clock' ELSE stamp[i]
  <2>1. i \in ReachableFrom(img', 0)
    BY DEF Reachable
  <2> QED BY <1>3, <2>1 DEF DirectoryCall, Fill
<1>5. CASE i \in Reachable
  <2>1. Intact
    BY <1>1, IntactBefore
  <2>2. i \in img.inode_bitmap
    BY <1>5, <2>1, SoundImage DEF Sound
  <2>3. mtime[i] = stamp[i] /\ i \notin FilledIn
    BY <1>5, <2>1, <2>2 DEF TimesOwn, FilledIn
  <2> QED BY <1>4, <1>5, <2>3
<1>6. CASE i \notin Reachable
  <2>1. i \in FilledIn
    BY <1>3, <1>6 DEF FilledIn
  <2> QED BY <1>4, <1>6, <2>1
<1> QED BY <1>5, <1>6

\* The paths looked at.
LEMMA APath ==
  ASSUME NEW ns \in AllPaths
  PROVE  ns \in Seq(Names) /\ ~ (Len(PathOf(ns)) >= PathMax)
<1>1. CASE ns = <<>>
  <2>1. Len(PathOf(ns)) = 1
    BY <1>1, RootTaken
  <2>2. ~ (1 >= PathMax) /\ <<>> \in Seq(Names)
    BY PathAssumption
  <2> QED BY <1>1, <2>1, <2>2
<1>2. CASE ns \in NamePaths
  BY <1>2, NamePath
<1> QED BY <1>1, <1>2 DEF AllPaths

\* utimens sets the time of the node at its path, and of no other.
LEMMA UtimensKeepsTimes ==
  ASSUME IInv, SoundInv, FilesNameless, TimesOwn, NEW ns \in LivePaths, Utimens(ns)
  PROVE  TimesOwn'
<1>1. UNCHANGED <<img, hit>>
  BY DEF Utimens
<1>2. DOMAIN mtime' = Inodes /\ clock' \in Nat /\ stamp' \in [Inodes -> Int]
  BY DEF Utimens, Tick, TimesOwn
<1> SUFFICES ASSUME Intact, NEW i \in Reachable
             PROVE  mtime'[i] = stamp'[i]
  BY <1>1, <1>2, StillNameless DEF TimesOwn
<1>3. PICK c \in InTree(0, ns) : TRUE
  BY DEF LivePaths
<1>4. ns \in Seq(Names)
  BY APath DEF LivePaths
<1>5. /\ c \in Reachable /\ InTree(0, ns) = {c}
      /\ StatWalk(img, PathOf(ns)).err = "0" /\ StatWalk(img, PathOf(ns)).cur = c
  BY <1>3, <1>4, NodeFound
<1>6. i \in Inodes /\ c \in Inodes
  BY <1>5, SoundImage
<1>7. mtime' = [mtime EXCEPT ![c] = 0] /\ stamp' = [j \in Inodes |-> IF j = c THEN 0 ELSE stamp[j]]
  BY <1>5 DEF Utimens
<1>8. mtime[i] = stamp[i] /\ DOMAIN mtime = Inodes
  BY DEF TimesOwn
<1> QED BY <1>6, <1>7, <1>8

\* getattr shows the time of the file or directory that is at the path now, not
\* that of an older inode in its place, nor what was done to another.
THEOREM StatIsOfNode == AttrSpec => []StatShowsOwnTime
<1> DEFINE Inv == IInv /\ SoundInv /\ FilesNameless /\ TimesOwn
<1>1. AttrInit => Inv
  <2>1. ASSUME AttrInit
        PROVE  /\ DOMAIN mtime = Inodes /\ \A i \in Reachable : mtime[i] = stamp[i]
               /\ clock \in Nat /\ stamp \in [Inodes -> Int]
    <3>1. \A i \in Reachable : i \in Inodes
      BY <2>1, InitSound, Sizes DEF AttrInit, Inodes
    <3> QED BY <2>1, <3>1 DEF AttrInit
  <2> QED BY <2>1, InitGood, InitSound, InitNameless DEF AttrInit, TimesOwn
<1>2. ASSUME Inv, [AttrNext]_attrVars
      PROVE  Inv'
  <2>1. CASE DirectoryCall
    <3>1. [Next]_vars
      BY <2>1 DEF DirectoryCall
    <3> QED BY <1>2, <2>1, <3>1, NextKeeps, NextSound, NextNameless, CallKeepsTimes
  <2>2. CASE \E ns \in LivePaths : Utimens(ns)
    <3>1. UNCHANGED <<img, hit>>
      BY <2>2 DEF Utimens
    <3> QED BY <1>2, <2>2, <3>1, StillNameless, UtimensKeepsTimes
  <2>3. CASE Stub \/ Stop \/ UNCHANGED attrVars
    <3>1. /\ UNCHANGED <<img, hit>> /\ mtime' = mtime /\ stamp' = stamp
          /\ clock' \in Nat
      BY <1>2, <2>3 DEF Stub, Stop, Tick, TimesOwn, attrVars, vars
    <3>2. TimesOwn'
      BY <1>2, <3>1, StillNameless DEF TimesOwn
    <3> QED BY <1>2, <3>1, <3>2, StillNameless
  <2> QED BY <1>2, <2>1, <2>2, <2>3 DEF AttrNext
<1>3. Inv => StatShowsOwnTime
  <2> SUFFICES ASSUME Inv, Intact, NEW ns \in AllPaths, NEW i \in InTree(0, ns)
               PROVE  /\ stat(PathOf(ns)).mtime = stamp[i]
                      /\ stamp[i] >= stamp[i]
    BY DEF StatShowsOwnTime
  <2>1. ns \in Seq(Names) /\ getattr(img, PathOf(ns)) = StatWalk(img, PathOf(ns))
    BY APath DEF getattr
  <2>2. i \in Reachable /\ getattr(img, PathOf(ns)).cur = i
    BY <2>1, NodeFound
  <2>3. i \in Inodes /\ stamp[i] \in Int
    BY <2>2, SoundImage DEF TimesOwn
  <2> QED BY <2>2, <2>3 DEF stat, TimesOwn
<1> HIDE DEF Inv
<1> QED BY <1>1, <1>2, <1>3, PTL DEF AttrSpec

\* The entries of a directory, by name.
LEMMA NamesListed ==
  ASSUME IInv, SoundInv, Intact, NEW d \in Reachable, IsDir(img, d), NEW named,
         named = {e[2] : e \in {f \in Edges : f[1] = d}}
  PROVE  /\ named = {DentryAt(img, d, k).tail : k \in Listing(img, d)}
         /\ Cardinality(named) = img.inode[d].dentry_count - 2
<1>1. /\ d \in Inodes /\ LaidOut(img, d) /\ Reachable \in SUBSET Inodes
      /\ Edges = EdgeSet(img, Reachable)
  BY SoundImage, EdgesSeen DEF Sound, Edges
<1>2. PICK c : c = img.inode[d].dentry_count
  OBVIOUS
<1>3. /\ c \in Nat /\ c >= 2 /\ Listing(img, d) = 2 .. c - 1
      /\ \A k \in Listing(img, d) : DentryAt(img, d, k) = Slot(img, d, k)
  BY <1>1, <1>2, LaidOutFacts, EdgeMatched DEF Listing
<1>4. named = {Slot(img, d, k).tail : k \in Listing(img, d)}
  <2>1. ASSUME NEW x \in named
        PROVE  \E k \in Listing(img, d) : x = Slot(img, d, k).tail
    <3>1. PICK e \in EdgeSet(img, Reachable) : e[1] = d /\ x = e[2]
      BY <1>1, <2>1
    <3>2. PICK k \in Listing(img, d) : e = Edge(img, d, k)
      BY <3>1, EdgeOrigin
    <3> QED BY <3>1, <3>2 DEF Edge
  <2>2. ASSUME NEW k \in Listing(img, d)
        PROVE  Slot(img, d, k).tail \in named
    <3>1. Edge(img, d, k) \in Edges /\ Edge(img, d, k)[1] = d
          /\ Edge(img, d, k)[2] = Slot(img, d, k).tail
      BY <1>1 DEF EdgeSet, EdgesOf, Edge
    <3> QED BY <3>1
  <2> QED BY <2>1, <2>2
<1>5. \A k, l \in Listing(img, d) : Slot(img, d, k).tail = Slot(img, d, l).tail => k = l
  BY <1>1 DEF LaidOut, Listed
<1>6. PICK f : f = [k \in 2 .. c - 1 |-> Slot(img, d, k).tail]
  OBVIOUS
<1>7. f \in Bijection(2 .. c - 1, named)
  <2>1. PICK S : S = 2 .. c - 1
    OBVIOUS
  <2>2. f = [k \in S |-> Slot(img, d, k).tail] /\ named = {Slot(img, d, k).tail : k \in S}
    BY <1>3, <1>4, <1>6, <2>1
  <2>3. \A k, l \in S : Slot(img, d, k).tail = Slot(img, d, l).tail => k = l
    BY <1>3, <1>5, <2>1
  <2>4. f \in [S -> named] /\ \A k \in S : f[k] = Slot(img, d, k).tail
    BY <2>2
  <2>5. \A k, l \in S : f[k] = f[l] => k = l
    BY <2>3, <2>4
  <2>6. \A x \in named : \E k \in S : f[k] = x
    BY <2>2, <2>4
  <2> QED BY <2>1, <2>4, <2>5, <2>6, Fun_IsBij
<1>8. Cardinality(named) = Cardinality(2 .. c - 1) /\ Cardinality(2 .. c - 1) = c - 2
  <2>1. IsFiniteSet(2 .. c - 1) /\ Cardinality(2 .. c - 1) = IF 2 > c - 1 THEN 0 ELSE (c - 1) - 2 + 1
    BY <1>3, FS_Interval
  <2>2. ExistsBijection(2 .. c - 1, named)
    BY <1>7 DEF ExistsBijection
  <2>3. Cardinality(named) = Cardinality(2 .. c - 1)
    BY <2>1, <2>2, FS_Bijection
  <2> QED BY <1>3, <2>1, <2>3
<1>9. named = {DentryAt(img, d, k).tail : k \in Listing(img, d)}
  BY <1>3, <1>4
<1> QED BY <1>2, <1>8, <1>9

\* readdir lists a directory of the tree: ".", ".." and every name in it once.
THEOREM ReaddirListsTree == AttrSpec => []ReaddirIsTree
<1> DEFINE Inv == IInv /\ SoundInv /\ FilesNameless
<1>1. AttrInit => Inv
  BY InitGood, InitSound, InitNameless DEF AttrInit
<1>2. ASSUME Inv, [AttrNext]_attrVars
      PROVE  Inv'
  <2>1. [Next]_vars \/ UNCHANGED <<img, hit>>
    BY <1>2 DEF AttrNext, DirectoryCall, Utimens, Stub, Stop, attrVars, vars
  <2> QED BY <1>2, <2>1, NextKeeps, NextSound, NextNameless, StillNameless
<1>3. Inv => ReaddirIsTree
  <2> SUFFICES ASSUME Inv, Intact, NEW ns \in AllPaths, NEW d \in InTree(0, ns), IsDir(img, d)
               PROVE  LET list  == readdir(PathOf(ns))
                          named == {e[2] : e \in {f \in Edges : f[1] = d}}
                      IN  /\ {list[x] : x \in DOMAIN list} = named \cup {".", ".."}
                          /\ Len(list) = Cardinality(named) + 2
    BY DEF ReaddirIsTree
  <2>1. PICK list, named, c : /\ list = readdir(PathOf(ns))
                              /\ named = {e[2] : e \in {f \in Edges : f[1] = d}}
                              /\ c = img.inode[d].dentry_count
    OBVIOUS
  <2>2. d \in Reachable /\ find_inode_from_path(img, PathOf(ns)).cur = d
    BY APath, NodeFound
  <2>3. list = [x \in 1 .. c |-> DentryAt(img, d, x - 1).tail]
    BY <2>1, <2>2 DEF readdir
  <2>4. d \in Inodes /\ LaidOut(img, d)
    BY <2>2, SoundImage DEF Sound
  <2>5. /\ c \in Nat /\ c >= 2 /\ Listing(img, d) = 2 .. c - 1
        /\ DentryAt(img, d, 0).tail = "." /\ DentryAt(img, d, 1).tail = ".."
    BY <2>1, <2>4, LaidOutFacts DEF Listing, LaidOut, Listed, Dentry
  <2>6. /\ named = {DentryAt(img, d, k).tail : k \in 2 .. c - 1}
        /\ Cardinality(named) = c - 2
    BY <2>1, <2>2, <2>5, NamesListed
  <2>7. {list[x] : x \in DOMAIN list} = named \cup {".", ".."}
    <3>1. ASSUME NEW x \in 1 .. c
          PROVE  list[x] \in named \cup {".", ".."}
      <4>1. x - 1 = 0 \/ x - 1 = 1 \/ x - 1 \in 2 .. c - 1
        BY <2>5
      <4> QED BY <2>3, <2>5, <2>6, <4>1
    <3>2. ASSUME NEW t \in named \cup {".", ".."}
          PROVE  \E x \in 1 .. c : t = list[x]
      <4>1. PICK k \in 0 .. c - 1 : t = DentryAt(img, d, k).tail
        <5>1. \A k \in 2 .. c - 1 : k \in 0 .. c - 1
          BY <2>5
        <5>2. 0 \in 0 .. c - 1 /\ 1 \in 0 .. c - 1
          BY <2>5
        <5> QED BY <2>5, <2>6, <5>1, <5>2
      <4>2. k + 1 \in 1 .. c /\ (k + 1) - 1 = k
        BY <2>5
      <4>3. list[k + 1] = t
        BY <2>3, <4>1, <4>2
      <4> QED BY <4>2, <4>3
    <3>3. DOMAIN list = 1 .. c
      BY <2>3
    <3> QED BY <3>1, <3>2, <3>3
  <2>8. Len(list) = c
    BY <2>3, <2>5
  <2>9. Len(list) = Cardinality(named) + 2
    BY <2>5, <2>6, <2>8
  <2> QED BY <2>1, <2>7, <2>9
<1> HIDE DEF Inv
<1> QED BY <1>1, <1>2, <1>3, PTL DEF AttrSpec

=============================================================================

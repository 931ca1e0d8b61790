--------------------------- MODULE Intact_proofs ---------------------------
(* What every call keeps of an image that took no damage, for every size   *)
(* of the image and every set of names: the tree of names under the root,  *)
(* one inode and two blocks for each of its nodes, and what the bitmaps    *)
(* and the counters say of them.                                           *)
EXTENDS Intact, A1fs_proofs, FiniteSetTheorems

-----------------------------------------------------------------------------
(* Trees of names, as sets of edges <<directory, name, inode>>.            *)

\* A new node under a node of the tree, by a name that was not there.
LEMMA GraphGrown ==
  ASSUME NEW L \in SUBSET Inodes, NEW E, Graph(E, L),
         NEW p \in L, NEW n \in Names, NEW i \in Inodes \ L,
         \A e \in E : ~ (e[1] = p /\ e[2] = n)
  PROVE  Graph(E \cup {<<p, n, i>>}, L \cup {i})
<1> DEFINE new == <<p, n, i>>
           F == E \cup {new}
<1>1. new[1] = p /\ new[2] = n /\ new[3] = i
  OBVIOUS
<1>2. i # 0 /\ \A e \in E : e \in L \X Names \X (L \ {0})
  BY DEF Graph
<1>3. \A e \in E : e[1] \in L /\ e[3] \in L
  BY <1>2
<1>4. F \subseteq (L \cup {i}) \X Names \X ((L \cup {i}) \ {0})
  BY <1>2
<1>5. \A e, f \in F : e[3] = f[3] => e = f
  BY <1>1, <1>3 DEF Graph
<1>6. \A e, f \in F : e[1] = f[1] /\ e[2] = f[2] => e = f
  BY <1>1 DEF Graph
<1>7. Rooted(F, L \cup {i})
  <2> SUFFICES ASSUME NEW S \in SUBSET Inodes, 0 \in S,
                      \A e \in F : e[1] \in S => e[3] \in S
               PROVE  L \cup {i} \subseteq S
    BY DEF Rooted
  <2>1. L \subseteq S
    BY DEF Graph, Rooted
  <2> QED BY <1>1, <2>1
<1> QED BY <1>4, <1>5, <1>6, <1>7 DEF Graph

\* A node with nothing under it is taken out.
LEMMA GraphShrunk ==
  ASSUME NEW L \in SUBSET Inodes, NEW E, Graph(E, L),
         NEW x \in E, \A e \in E : e[1] # x[3]
  PROVE  Graph(E \ {x}, L \ {x[3]})
<1> DEFINE t == x[3]
           F == E \ {x}
<1>1. \A e \in E : /\ e \in L \X Names \X (L \ {0})
                   /\ e[1] \in L /\ e[3] \in L \ {0} /\ e[1] # t
                   /\ e # x => e[3] # t
  BY DEF Graph
<1>2. 0 \in L \ {t} /\ F \subseteq (L \ {t}) \X Names \X ((L \ {t}) \ {0})
  <2>1. \A e \in F : e = <<e[1], e[2], e[3]>> /\ e[2] \in Names
    BY <1>1
  <2>2. \A e \in F : e[1] \in L \ {t} /\ e[3] \in (L \ {t}) \ {0}
    BY <1>1
  <2> QED BY <1>1, <2>1, <2>2 DEF Graph
<1>3. Rooted(F, L \ {t})
  <2> SUFFICES ASSUME NEW S \in SUBSET Inodes, 0 \in S,
                      \A e \in F : e[1] \in S => e[3] \in S
               PROVE  L \ {t} \subseteq S
    BY DEF Rooted
  <2>1. S \cup {t} \in SUBSET Inodes
    BY <1>1
  <2>2. \A e \in E : e[1] \in S \cup {t} => e[3] \in S \cup {t}
    BY <1>1
  <2>3. L \subseteq S \cup {t}
    BY <2>1, <2>2, Zenon DEF Graph, Rooted
  <2> QED BY <2>3
<1> QED BY <1>2, <1>3 DEF Graph

\* The node of edge x goes under q, which is not below it, by a new name.
LEMMA GraphMoved ==
  ASSUME NEW L \in SUBSET Inodes, NEW E, Graph(E, L),
         NEW x \in E, NEW q \in L, NEW m \in Names,
         \A e \in E : ~ (e[1] = q /\ e[2] = m),
         NEW T, x[3] \in T, q \notin T, T \subseteq Inodes,
         \A e \in E : e[1] \in T => e[3] \in T
  PROVE  Graph((E \ {x}) \cup {<<q, m, x[3]>>}, L)
<1> DEFINE t == x[3]
           new == <<q, m, t>>
           F == (E \ {x}) \cup {new}
<1>1. \A e \in E : /\ e \in L \X Names \X (L \ {0})
                   /\ e[1] \in L /\ e[3] \in L \ {0}
                   /\ e # x => e[3] # t
  BY DEF Graph
<1>2. new[1] = q /\ new[2] = m /\ new[3] = t
  OBVIOUS
<1>3. F \subseteq L \X Names \X (L \ {0})
  BY <1>1
<1>4. \A e, f \in F : e[3] = f[3] => e = f
  BY <1>1, <1>2 DEF Graph
<1>5. \A e, f \in F : e[1] = f[1] /\ e[2] = f[2] => e = f
  BY <1>2 DEF Graph
<1>6. Rooted(F, L)
  <2> SUFFICES ASSUME NEW S \in SUBSET Inodes, 0 \in S,
                      \A e \in F : e[1] \in S => e[3] \in S
               PROVE  L \subseteq S
    BY DEF Rooted
  <2>1. S \cup T \in SUBSET Inodes /\ 0 \in S \cup T
    OBVIOUS
  <2>2. \A e \in E : e[1] \in S \cup T => e[3] \in S \cup T
    OBVIOUS
  <2>3. L \subseteq S \cup T
    BY <2>1, <2>2, Zenon DEF Graph, Rooted
  <2>4. t \in S
    BY <1>2, <2>3
  <2>5. \A e \in E : e[1] \in S => e[3] \in S
    BY <2>4
  <2> QED BY <2>5 DEF Graph, Rooted
<1> QED BY <1>3, <1>4, <1>5, <1>6 DEF Graph

-----------------------------------------------------------------------------
(* Reading an image that holds a tree.                                     *)

\* What an inode in use is made of, as far as it is read.
LEMMA LaidOutFacts ==
  ASSUME NEW s, NEW d \in Inodes, LaidOut(s, d)
  PROVE  /\ s.inode[d].dentry_count \in Nat
         /\ s.inode[d].dentry_count >= 2
         /\ s.inode[d].dentry_count <= DentriesPerBlock
         /\ \A k \in 0 .. s.inode[d].dentry_count - 1 :
              k \in Slots /\ Mapped(DataBlock(s, d), k) /\ DentryAt(s, d, k) = Slot(s, d, k)
         /\ 0 \in Slots /\ 1 \in Slots
         /\ DentryAt(s, d, 0) = Slot(s, d, 0) /\ DentryAt(s, d, 1) = Slot(s, d, 1)
         /\ Listing(s, d) \subseteq 2 .. DentriesPerBlock - 1
         /\ Listing(s, d) \subseteq Slots
BY Sizes DEF LaidOut, Slots, Mapped, DentryAt, At, Slot, Listing

\* An inode in use is readable.
LEMMA LaidOutReadable ==
  ASSUME NEW s, NEW d \in Inodes, LaidOut(s, d)
  PROVE  Readable(s, d)
<1> DEFINE c == s.inode[d].dentry_count
<1>1. /\ c \in Nat /\ c >= 2
      /\ \A k \in 0 .. c - 1 :
           k \in Slots /\ Mapped(DataBlock(s, d), k) /\ DentryAt(s, d, k) = Slot(s, d, k)
  BY LaidOutFacts
<1>2. s.inode[d].ext_block \in Blocks /\ s.mem[s.inode[d].ext_block][0].tail = "extent"
  BY DEF LaidOut
<1>3. ASSUME NEW k \in 0 .. c - 1, IsDir(s, d)
      PROVE  DentryAt(s, d, k).tail # "extent"
  <2>1. Listed(s, d) /\ DentryAt(s, d, k) = Slot(s, d, k)
    BY <1>1, <1>3 DEF LaidOut
  <2>2. k = 0 \/ k = 1 \/ k \in Listing(s, d)
    BY <1>1, <1>3 DEF Listing
  <2> QED BY <2>1, <2>2, NamesApart DEF Listed, Dentry
<1>4. \A k \in {0} \cup 0 .. c - 1 : k \in 0 .. c - 1
  BY <1>1
<1> QED BY <1>1, <1>2, <1>3, <1>4 DEF Readable

\* A name stands at one index of a directory, and a scan for it stops there.
LEMMA NameAt ==
  ASSUME NEW s, NEW d \in Inodes, LaidOut(s, d), IsDir(s, d),
         NEW n \in Names, NEW k \in 0 .. s.inode[d].dentry_count - 1,
         DentryAt(s, d, k).tail = n
  PROVE  /\ k \in Listing(s, d) /\ k >= 2
         /\ Edge(s, d, k) = <<d, n, DentryAt(s, d, k).word>>
         /\ Edge(s, d, k) \in EdgesOf(s, d)
         /\ IsAt(s, d, n, k)
<1> DEFINE c == s.inode[d].dentry_count
<1>1. /\ c \in Nat /\ c >= 2 /\ Listed(s, d)
      /\ \A j \in 0 .. c - 1 : DentryAt(s, d, j) = Slot(s, d, j)
  BY LaidOutFacts DEF LaidOut
<1>2. Slot(s, d, 0).tail = "." /\ Slot(s, d, 1).tail = ".."
  BY <1>1 DEF Listed, Dentry
<1>3. k # 0 /\ k # 1
  BY <1>1, <1>2, NamesApart
<1>4. k \in Listing(s, d) /\ k >= 2
  BY <1>1, <1>3 DEF Listing
<1>5. Edge(s, d, k) = <<d, n, DentryAt(s, d, k).word>> /\ Edge(s, d, k) \in EdgesOf(s, d)
  BY <1>1, <1>4 DEF Edge, EdgesOf
<1>6. ASSUME NEW j \in 0 .. k - 1
      PROVE  DentryAt(s, d, j).tail # n
  <2>1. j \in 0 .. c - 1 /\ (j = 0 \/ j = 1 \/ j \in Listing(s, d)) /\ j # k
    BY <1>1 DEF Listing
  <2> QED BY <1>1, <1>2, <1>4, <2>1, NamesApart DEF Listed
<1> QED BY <1>4, <1>5, <1>6 DEF IsAt

\* An entry is one a path component can match.
LEMMA EdgeMatched ==
  ASSUME NEW s, NEW d \in Inodes, LaidOut(s, d), IsDir(s, d), NEW k \in Listing(s, d)
  PROVE  /\ k \in 0 .. s.inode[d].dentry_count - 1
         /\ DentryAt(s, d, k) = Slot(s, d, k)
         /\ DentryAt(s, d, k).tail \in Names
         /\ k \in Entries(s, d)
<1>1. /\ k \in 0 .. s.inode[d].dentry_count - 1
      /\ DentryAt(s, d, k) = Slot(s, d, k)
      /\ DentryAt(s, d, k).tail \in Names
  BY LaidOutFacts DEF Listing, LaidOut, Listed
<1>2. IsAt(s, d, DentryAt(s, d, k).tail, k)
  BY <1>1, NameAt
<1> QED BY <1>1, <1>2 DEF IsAt, Entries

\* The definition of reachability without its bound variable.
LEMMA ReachableMeans ==
  ASSUME NEW s, NEW r
  PROVE  ReachableFrom(s, r) =
           {i \in Inodes : \A R \in SUBSET Inodes :
              r \in R /\ (\A e \in Steps(s) : e[1] \in R => e[2] \in R) => i \in R}
BY DEF ReachableFrom

\* An edge lies in the directory it leads from.
LEMMA EdgeOrigin ==
  ASSUME NEW s, NEW L, NEW x \in EdgeSet(s, L)
  PROVE  /\ x[1] \in L /\ IsDir(s, x[1]) /\ x \in EdgesOf(s, x[1])
         /\ \E k \in Listing(s, x[1]) : x = Edge(s, x[1], k)
<1>1. PICK d \in L : x \in EdgesOf(s, d)
  BY DEF EdgeSet
<1>2. PICK k \in Listing(s, d) : x = Edge(s, d, k)
  BY <1>1 DEF EdgesOf
<1>3. x[1] = d
  BY <1>2 DEF Edge
<1> QED BY <1>1, <1>2, <1>3 DEF Listing

\* A step of a path is an edge.
LEMMA StepIsEdge ==
  ASSUME NEW s, NEW L \in SUBSET Inodes, \A d \in L : LaidOut(s, d),
         NEW e \in Steps(s), e[1] \in L
  PROVE  \E x \in EdgeSet(s, L) : x[1] = e[1] /\ x[3] = e[2]
<1>1. PICK d \in Inodes : e \in {d} \X Children(s, d)
  BY DEF Steps
<1>2. e[1] = d /\ e[2] \in Children(s, d) /\ d \in L /\ LaidOut(s, d)
  BY <1>1
<1>3. IsDir(s, d) /\ \E k \in Entries(s, d) : e[2] = DentryAt(s, d, k).word
  BY <1>2 DEF Children
<1>4. PICK k \in Entries(s, d) : e[2] = DentryAt(s, d, k).word
  BY <1>3
<1>5. k \in 0 .. s.inode[d].dentry_count - 1 /\ DentryAt(s, d, k).tail \in Names
  BY DEF Entries
<1>6. /\ Edge(s, d, k) = <<d, DentryAt(s, d, k).tail, DentryAt(s, d, k).word>>
      /\ Edge(s, d, k) \in EdgesOf(s, d)
  BY <1>2, <1>3, <1>5, NameAt
<1>7. Edge(s, d, k) \in EdgeSet(s, L)
  BY <1>2, <1>6 DEF EdgeSet
<1> QED BY <1>2, <1>4, <1>6, <1>7

\* An edge is a step of a path.
LEMMA EdgeIsStep ==
  ASSUME NEW s, NEW L \in SUBSET Inodes, \A d \in L : LaidOut(s, d),
         NEW x \in EdgeSet(s, L)
  PROVE  <<x[1], x[3]>> \in Steps(s) /\ x[1] \in L
<1>1. PICK d \in L : x \in EdgesOf(s, d)
  BY DEF EdgeSet
<1>2. PICK k \in Listing(s, d) : x = Edge(s, d, k)
  BY <1>1 DEF EdgesOf
<1>3. d \in Inodes /\ LaidOut(s, d) /\ IsDir(s, d) /\ Readable(s, d)
  BY LaidOutReadable DEF Listing
<1>4. k \in Entries(s, d) /\ DentryAt(s, d, k) = Slot(s, d, k)
  BY <1>3, EdgeMatched
<1>5. x[1] = d /\ x[3] = DentryAt(s, d, k).word
  BY <1>2, <1>4 DEF Edge
<1>6. x[3] \in Children(s, d)
  BY <1>3, <1>4, <1>5 DEF Children
<1> QED BY <1>3, <1>5, <1>6 DEF Steps

\* What paths lead to in an image that holds a tree are the tree's nodes.
LEMMA ReachableIs ==
  ASSUME NEW s, NEW L \in SUBSET Inodes, Sound(s, L)
  PROVE  ReachableFrom(s, 0) = L
<1> DEFINE E == EdgeSet(s, L)
<1>1. (\A d \in L : LaidOut(s, d)) /\ Graph(E, L)
  BY DEF Sound
<1>2. ASSUME NEW i \in ReachableFrom(s, 0)
      PROVE  i \in L
  <2>1. 0 \in L /\ \A e \in E : e[3] \in L
    BY <1>1 DEF Graph
  <2>2. \A e \in Steps(s) : e[1] \in L => e[2] \in L
    BY <1>1, <2>1, StepIsEdge
  <2> QED BY <2>1, <2>2, ReachableMeans
<1>3. ASSUME NEW i \in L, NEW R \in SUBSET Inodes,
             0 \in R, \A e \in Steps(s) : e[1] \in R => e[2] \in R
      PROVE  i \in R
  <2>1. ASSUME NEW x \in E, x[1] \in R
        PROVE  x[3] \in R
    <3>1. <<x[1], x[3]>> \in Steps(s)
      BY <1>1, EdgeIsStep
    <3> QED BY <1>3, <2>1, <3>1
  <2> HIDE DEF E
  <2>2. L \subseteq R
    BY <1>1, <1>3, <2>1, Zenon DEF Graph, Rooted
  <2> QED BY <2>2
<1>4. L \subseteq ReachableFrom(s, 0)
  BY <1>3, ReachableMeans, Zenon
<1> QED BY <1>2, <1>4

-----------------------------------------------------------------------------
(* What the stores of the handlers do to single blocks.                    *)

\* A store to a slot of a block.
LEMMA StoreInBlock ==
  ASSUME NEW mem \in MemType, NEW b \in Blocks, NEW k \in Slots, NEW c
  PROVE  /\ \A x \in Blocks \ {b} : Store(mem, b, k, c)[x] = mem[x]
         /\ \A j \in Slots : Store(mem, b, k, c)[b][j] = IF j = k THEN c ELSE mem[b][j]
         /\ c \in Cell => Store(mem, b, k, c) \in MemType
<1>1. Store(mem, b, k, c) = [mem EXCEPT ![b][k] = c]
  BY Sizes DEF Store, Slots
<1> QED BY <1>1 DEF MemType

\* A store to the first slot.
LEMMA StoreFirst ==
  ASSUME NEW mem \in MemType, NEW b \in Blocks, NEW c \in Cell
  PROVE  /\ Store(mem, b, 0, c) \in MemType
         /\ \A x \in Blocks \ {b} : Store(mem, b, 0, c)[x] = mem[x]
         /\ Store(mem, b, 0, c)[b][0] = c
<1>1. Store(mem, b, 0, c) = [mem EXCEPT ![b][0] = c] /\ 0 \in Slots
  BY Sizes DEF Store, Slots
<1> QED BY <1>1 DEF MemType

\* A store to the second slot.
LEMMA StoreSecond ==
  ASSUME NEW mem \in MemType, NEW b \in Blocks, NEW c \in Cell
  PROVE  /\ Store(mem, b, 1, c) \in MemType
         /\ \A x \in Blocks \ {b} : Store(mem, b, 1, c)[x] = mem[x]
         /\ Store(mem, b, 1, c)[b][0] = mem[b][0]
         /\ Store(mem, b, 1, c)[b][1] = c
<1>1. Store(mem, b, 1, c) = [mem EXCEPT ![b][1] = c] /\ 0 \in Slots /\ 1 \in Slots
  BY Sizes DEF Store, Slots
<1> QED BY <1>1 DEF MemType

\* Moving down the entries of a directory that lie in its block.
LEMMA ShiftInBlock ==
  ASSUME NEW mem \in MemType, NEW b \in Blocks, NEW k \in Nat,
         NEW c \in 0 .. DentriesPerBlock
  PROVE  LET new == forward_layback_extents(mem, b, k, c)
         IN  /\ \A x \in Blocks \ {b} : new[x] = mem[x]
             /\ \A j \in Slots :
                  new[b][j] = IF j \in k .. c - 2 THEN mem[b][j + 1] ELSE mem[b][j]
<1> DEFINE Pos(x, j) == IF x = b THEN j ELSE DentriesPerBlock + j
           cell(x, j) == IF x \in {b, b + 1} /\ Pos(x, j) \in k .. c - 2
                         THEN At(mem, b, Pos(x, j) + 1)
                         ELSE mem[x][j]
           new == forward_layback_extents(mem, b, k, c)
<1>1. new = [x \in Blocks |-> [j \in Slots |-> cell(x, j)]]
  BY DEF forward_layback_extents
<1>2. ASSUME NEW x \in Blocks \ {b}
      PROVE  new[x] = mem[x]
  <2>1. \A j \in Slots : cell(x, j) = mem[x][j]
    BY Sizes DEF Slots
  <2>2. new[x] = [j \in Slots |-> cell(x, j)]
    BY <1>1
  <2>3. mem[x] = [j \in Slots |-> mem[x][j]]
    BY DEF MemType
  <2> HIDE DEF cell, new
  <2> QED BY <2>1, <2>2, <2>3
<1>3. ASSUME NEW j \in Slots
      PROVE  new[b][j] = IF j \in k .. c - 2 THEN mem[b][j + 1] ELSE mem[b][j]
  <2>1. new[b][j] = cell(b, j)
    BY <1>1
  <2>2. j \in k .. c - 2 => j + 1 < DentriesPerBlock
    BY Sizes DEF Slots
  <2> QED BY <2>1, <2>2 DEF At
<1> QED BY <1>2, <1>3

-----------------------------------------------------------------------------
(* What a step does to one inode of the tree.                              *)

\* An inode none of whose blocks is written is what it was.
LEMMA NodeSame ==
  ASSUME NEW s, NEW t, NEW d \in Inodes, LaidOut(s, d),
         t.inode[d] = s.inode[d],
         t.mem[s.inode[d].ext_block] = s.mem[s.inode[d].ext_block],
         t.mem[DataBlock(s, d)] = s.mem[DataBlock(s, d)]
  PROVE  /\ LaidOut(t, d)
         /\ t.inode[d].ext_block = s.inode[d].ext_block
         /\ DataBlock(t, d) = DataBlock(s, d)
         /\ IsDir(t, d) <=> IsDir(s, d)
         /\ EdgesOf(t, d) = EdgesOf(s, d)
<1>1. DataBlock(t, d) = DataBlock(s, d)
  BY DEF DataBlock
<1>2. (IsDir(t, d) <=> IsDir(s, d)) /\ Listing(t, d) = Listing(s, d)
  BY DEF IsDir, Listing
<1>3. \A k : Slot(t, d, k) = Slot(s, d, k)
  BY <1>1 DEF Slot
<1>4. LaidOut(t, d)
  BY <1>1, <1>2, <1>3 DEF LaidOut, Listed
<1>5. EdgesOf(t, d) = EdgesOf(s, d)
  BY <1>2, <1>3 DEF EdgesOf, Edge
<1> QED BY <1>1, <1>2, <1>4, <1>5

\* A directory whose count went up and whose next slot was written has one more
\* entry.
LEMMA NodeGrown ==
  ASSUME NEW s, NEW t, NEW p \in Inodes, LaidOut(s, p), IsDir(s, p),
         s.inode[p].dentry_count < DentriesPerBlock,
         IsDir(t, p), t.inode[p].ext_block = s.inode[p].ext_block,
         t.inode[p].dentry_count = s.inode[p].dentry_count + 1,
         t.mem[s.inode[p].ext_block] = s.mem[s.inode[p].ext_block],
         NEW n \in Names, NEW i,
         \A k \in Listing(s, p) : Slot(s, p, k).tail # n,
         \A j \in Slots : t.mem[DataBlock(s, p)][j] =
           IF j = s.inode[p].dentry_count THEN Dentry(i, n) ELSE s.mem[DataBlock(s, p)][j]
  PROVE  /\ LaidOut(t, p)
         /\ DataBlock(t, p) = DataBlock(s, p)
         /\ EdgesOf(t, p) = EdgesOf(s, p) \cup {<<p, n, i>>}
<1> DEFINE c == s.inode[p].dentry_count
<1>1. DataBlock(t, p) = DataBlock(s, p)
  BY DEF DataBlock
<1>2. /\ c \in Nat /\ c >= 2 /\ c \in Slots /\ 0 \in Slots /\ 1 \in Slots
      /\ Listing(s, p) = 2 .. c - 1 /\ Listing(t, p) = 2 .. c
      /\ Listing(t, p) = Listing(s, p) \cup {c} /\ c \notin Listing(s, p)
      /\ Listing(t, p) \subseteq Slots
  BY LaidOutFacts, Sizes DEF Listing, Slots
<1>3. \A j \in Slots : Slot(t, p, j) = IF j = c THEN Dentry(i, n) ELSE Slot(s, p, j)
  BY <1>1 DEF Slot
<1> HIDE DEF c
<1>4. /\ Slot(t, p, c) = Dentry(i, n)
      /\ \A j \in Listing(s, p) \cup {0, 1} : Slot(t, p, j) = Slot(s, p, j)
  BY <1>2, <1>3
<1>5. Dentry(i, n).tail = n /\ Dentry(i, n).word = i
  BY DEF Dentry
<1>6. Listed(t, p)
  <2>1. Listed(s, p)
    BY DEF LaidOut
  <2>2. \A k \in Listing(t, p) : Slot(t, p, k).tail \in Names
    BY <1>2, <1>4, <1>5, <2>1 DEF Listed
  <2>3. \A k, l \in Listing(t, p) : Slot(t, p, k).tail = Slot(t, p, l).tail => k = l
    BY <1>2, <1>4, <1>5, <2>1 DEF Listed
  <2> QED BY <1>4, <2>1, <2>2, <2>3 DEF Listed
<1>7. LaidOut(t, p)
  BY <1>1, <1>2, <1>6, Sizes DEF LaidOut, IsDir, c, Slots
<1>8. /\ Edge(t, p, c) = <<p, n, i>>
      /\ \A k \in Listing(s, p) : Edge(t, p, k) = Edge(s, p, k)
  BY <1>4, <1>5 DEF Edge
<1>9. EdgesOf(t, p) = EdgesOf(s, p) \cup {<<p, n, i>>}
  BY <1>2, <1>8 DEF EdgesOf
<1> QED BY <1>1, <1>7, <1>9

\* A directory whose count went down and whose entries after k moved down has
\* lost entry k.
LEMMA NodeShrunk ==
  ASSUME NEW s, NEW t, NEW p \in Inodes, LaidOut(s, p), IsDir(s, p),
         IsDir(t, p), t.inode[p].ext_block = s.inode[p].ext_block,
         t.inode[p].dentry_count = s.inode[p].dentry_count - 1,
         t.mem[s.inode[p].ext_block] = s.mem[s.inode[p].ext_block],
         NEW k \in Listing(s, p),
         \A j \in Slots : t.mem[DataBlock(s, p)][j] =
           IF j \in k .. s.inode[p].dentry_count - 2
           THEN s.mem[DataBlock(s, p)][j + 1] ELSE s.mem[DataBlock(s, p)][j]
  PROVE  /\ LaidOut(t, p)
         /\ DataBlock(t, p) = DataBlock(s, p)
         /\ EdgesOf(t, p) = EdgesOf(s, p) \ {Edge(s, p, k)}
<1> DEFINE c == s.inode[p].dentry_count
           Was(j) == IF j < k THEN j ELSE j + 1
<1>1. DataBlock(t, p) = DataBlock(s, p)
  BY DEF DataBlock
<1>2. /\ c \in Nat /\ c >= 3 /\ c <= DentriesPerBlock /\ k \in 2 .. c - 1
      /\ 0 \in Slots /\ 1 \in Slots
      /\ Listing(s, p) = 2 .. c - 1 /\ Listing(t, p) = 2 .. c - 2
  BY LaidOutFacts DEF Listing
<1>3. /\ \A j \in Listing(t, p) : Slot(t, p, j) = Slot(s, p, Was(j))
      /\ Slot(t, p, 0) = Slot(s, p, 0) /\ Slot(t, p, 1) = Slot(s, p, 1)
  <2>1. \A j \in Slots : Slot(t, p, j) =
          IF j \in k .. c - 2 THEN Slot(s, p, j + 1) ELSE Slot(s, p, j)
    BY <1>1 DEF Slot
  <2>2. 0 \notin k .. c - 2 /\ 1 \notin k .. c - 2
    BY <1>2
  <2>3. \A j \in Listing(t, p) : j \in Slots /\ (j \in k .. c - 2 <=> ~ (j < k))
    BY <1>2, Sizes DEF Slots
  <2> QED BY <1>2, <2>1, <2>2, <2>3
<1>4. /\ \A j \in Listing(t, p) : Was(j) \in Listing(s, p) \ {k}
      /\ \A j, l \in Listing(t, p) : Was(j) = Was(l) => j = l
      /\ \A j \in Listing(s, p) \ {k} : \E l \in Listing(t, p) : j = Was(l)
  <2>1. \A j \in Listing(t, p) : Was(j) \in Listing(s, p) \ {k}
    BY <1>2
  <2>2. \A j, l \in Listing(t, p) : Was(j) = Was(l) => j = l
    BY <1>2
  <2>3. ASSUME NEW j \in Listing(s, p) \ {k}
        PROVE  \E l \in Listing(t, p) : j = Was(l)
    <3> DEFINE l == IF j < k THEN j ELSE j - 1
    <3>1. l \in Listing(t, p) /\ j = Was(l)
      BY <1>2, SMTT(30)
    <3> QED BY <3>1
  <2> QED BY <2>1, <2>2, <2>3
<1>5. t.inode[p].dentry_count \in 2 .. DentriesPerBlock
  BY <1>2, Sizes, SMTT(30)
<1> HIDE DEF Was, c
<1>6. Listed(s, p)
  BY DEF LaidOut
<1>7. Listed(t, p)
  BY <1>3, <1>4, <1>6 DEF Listed
<1>8. LaidOut(t, p)
  BY <1>1, <1>5, <1>7 DEF LaidOut, IsDir
<1>9. \A j \in Listing(t, p) : Edge(t, p, j) = Edge(s, p, Was(j))
  BY <1>3 DEF Edge
<1>10. \A j \in Listing(s, p) \ {k} : Edge(s, p, j) # Edge(s, p, k)
  BY <1>6 DEF Listed, Edge
<1>11. EdgesOf(t, p) = EdgesOf(s, p) \ {Edge(s, p, k)}
  <2>1. \A j \in Listing(t, p) :
          Edge(t, p, j) \in EdgesOf(s, p) \ {Edge(s, p, k)}
    BY <1>4, <1>9, <1>10 DEF EdgesOf
  <2>2. \A j \in Listing(s, p) \ {k} : Edge(s, p, j) \in EdgesOf(t, p)
    BY <1>4, <1>9 DEF EdgesOf
  <2> QED BY <2>1, <2>2 DEF EdgesOf
<1> QED BY <1>1, <1>8, <1>11

\* A new directory has no entries; nor has a file.
LEMMA NodeNew ==
  ASSUME NEW t, NEW i \in Inodes, NEW mode \in {"file", "dir"},
         NEW x \in Blocks, NEW y \in Blocks,
         t.inode[i] = [mode |-> mode, dentry_count |-> 2, ext_block |-> x],
         t.mem[x][0] = Extent(y),
         mode = "dir" => t.mem[y][0] = Dentry(i, ".") /\ t.mem[y][1].tail = ".."
  PROVE  /\ LaidOut(t, i)
         /\ t.inode[i].ext_block = x /\ DataBlock(t, i) = y
         /\ IsDir(t, i) <=> mode = "dir"
         /\ EdgesOf(t, i) = {}
<1>1. t.inode[i].ext_block = x /\ DataBlock(t, i) = y /\ (IsDir(t, i) <=> mode = "dir")
  BY DEF DataBlock, Extent, IsDir
<1>2. Listing(t, i) = {}
  BY DEF Listing
<1>3. LaidOut(t, i)
  BY <1>1, <1>2, Sizes DEF LaidOut, Listed, Slot, Extent
<1>4. EdgesOf(t, i) = {}
  BY <1>2 DEF EdgesOf
<1> QED BY <1>1, <1>3, <1>4

-----------------------------------------------------------------------------
(* Counting.                                                               *)

\* The bitmaps are finite sets.
LEMMA BitmapsFinite ==
  /\ \A S \in SUBSET Inodes : IsFiniteSet(S) /\ Cardinality(S) \in Nat
  /\ \A S \in SUBSET DBits : IsFiniteSet(S) /\ Cardinality(S) \in Nat
<1>1. IsFiniteSet(Inodes) /\ IsFiniteSet(DBits)
  <2>1. 0 \in Int /\ InodeCount - 1 \in Int /\ DBlockCount - 1 \in Int
    BY Sizes
  <2> QED BY <2>1, FS_Interval DEF Inodes, DBits
<1> QED BY <1>1, FS_Subset, FS_CardinalityType

\* No bitmap has more bits than there are inodes, or blocks.
LEMMA Capacity ==
  /\ Cardinality(Inodes) = InodeCount /\ Cardinality(DBits) = DBlockCount
  /\ \A S \in SUBSET Inodes : Cardinality(S) <= InodeCount
  /\ \A S \in SUBSET DBits : Cardinality(S) <= DBlockCount
<1>1. ASSUME NEW n \in Nat \ {0}
      PROVE  IsFiniteSet(0 .. n - 1) /\ Cardinality(0 .. n - 1) = n
  <2>1. /\ IsFiniteSet(0 .. n - 1)
        /\ Cardinality(0 .. n - 1) = IF 0 > n - 1 THEN 0 ELSE (n - 1) - 0 + 1
    <3>1. 0 \in Int /\ n - 1 \in Int
      OBVIOUS
    <3> QED BY <3>1, FS_Interval
  <2> QED BY <2>1
<1>2. /\ IsFiniteSet(Inodes) /\ Cardinality(Inodes) = InodeCount
      /\ IsFiniteSet(DBits) /\ Cardinality(DBits) = DBlockCount
  BY <1>1, Sizes DEF Inodes, DBits
<1> QED BY <1>2, FS_Subset

\* Two elements more.
LEMMA PairAdded ==
  ASSUME NEW S, IsFiniteSet(S), NEW a, NEW b, a \notin S, b \notin S, a # b
  PROVE  Cardinality(S \cup {a, b}) = Cardinality(S) + 2
<1>1. Cardinality(S) \in Nat
  BY FS_CardinalityType
<1>2. IsFiniteSet(S \cup {a}) /\ Cardinality(S \cup {a}) = Cardinality(S) + 1
  BY FS_AddElement
<1>3. b \notin S \cup {a}
  OBVIOUS
<1>4. Cardinality((S \cup {a}) \cup {b}) = Cardinality(S \cup {a}) + 1
  BY <1>2, <1>3, FS_AddElement
<1>5. (S \cup {a}) \cup {b} = S \cup {a, b}
  OBVIOUS
<1> QED BY <1>1, <1>2, <1>4, <1>5

\* Two elements less.
LEMMA PairRemoved ==
  ASSUME NEW S, IsFiniteSet(S), NEW a \in S, NEW b \in S, a # b
  PROVE  Cardinality(S \ {a, b}) = Cardinality(S) - 2
<1> DEFINE R == S \ {a, b}
<1>1. IsFiniteSet(R) /\ Cardinality(R) \in Nat
  BY FS_Subset, FS_CardinalityType
<1>2. a \notin R /\ b \notin R /\ R \cup {a, b} = S
  OBVIOUS
<1> HIDE DEF R
<1>3. Cardinality(S) = Cardinality(R) + 2
  BY <1>1, <1>2, PairAdded
<1> QED BY <1>1, <1>3 DEF R

\* Blocks and the bits of the data bitmap correspond one to one.
LEMMA BitsOfBlocks ==
  /\ \A e \in DBits : Block(e) \in Blocks /\ Bit(Block(e)) = e
  /\ \A b \in Blocks : Bit(b) \in DBits /\ Block(Bit(b)) = b
  /\ \A a, b \in Blocks : Bit(a) = Bit(b) => a = b
BY Sizes DEF Block, Bit, DBits, Blocks

-----------------------------------------------------------------------------
(* What a step does to the whole tree.                                     *)

\* A call that leaves the inode table, the data region and the data bitmap
\* alone leaves the tree alone.
LEMMA SoundSame ==
  ASSUME NEW s, NEW t, NEW L, Sound(s, L),
         t.inode = s.inode, t.mem = s.mem, t.data_bitmap = s.data_bitmap,
         t.free_dblock_count = s.free_dblock_count,
         s.inode_bitmap \subseteq t.inode_bitmap
  PROVE  Sound(t, L) /\ EdgeSet(t, L) = EdgeSet(s, L) /\ DirSet(t, L) = DirSet(s, L)
<1>1. /\ \A d : DataBlock(t, d) = DataBlock(s, d)
      /\ \A d : IsDir(t, d) = IsDir(s, d)
      /\ \A d : Listing(t, d) = Listing(s, d)
  BY DEF DataBlock, IsDir, Listing
<1>2. \A d, k : Slot(t, d, k) = Slot(s, d, k)
  BY <1>1 DEF Slot
<1>3. \A d : EdgesOf(t, d) = EdgesOf(s, d) /\ Occupied(t, d) = Occupied(s, d)
  BY <1>1, <1>2 DEF EdgesOf, Edge, Occupied
<1>4. \A d \in L : LaidOut(t, d)
  BY <1>1, <1>2 DEF Sound, LaidOut, Listed
<1>5. EdgeSet(t, L) = EdgeSet(s, L) /\ DirSet(t, L) = DirSet(s, L)
  BY <1>1, <1>3 DEF EdgeSet, DirSet
<1>6. Apart(t, L) /\ Accounted(t, L)
  BY <1>1, <1>3 DEF Sound, Apart, Accounted
<1> QED BY <1>4, <1>5, <1>6 DEF Sound

\* mkdir and create, as far as their entry fits into its directory's block.
Grown(s, t, p, n, mode, i, e, d) ==
  /\ t.inode_bitmap = s.inode_bitmap \cup {i}
  /\ t.data_bitmap = s.data_bitmap \cup {e, d}
  /\ t.free_inode_count = s.free_inode_count - 1
  /\ t.free_dblock_count = s.free_dblock_count - 2
  /\ t.inode[i] = [mode |-> mode, dentry_count |-> 2, ext_block |-> Block(e)]
  /\ t.inode[p].mode = s.inode[p].mode
  /\ t.inode[p].dentry_count = s.inode[p].dentry_count + 1
  /\ t.inode[p].ext_block = s.inode[p].ext_block
  /\ \A x \in Inodes \ {i, p} : t.inode[x] = s.inode[x]
  /\ \A x \in Blocks \ {DataBlock(s, p), Block(e), Block(d)} : t.mem[x] = s.mem[x]
  /\ \A j \in Slots : t.mem[DataBlock(s, p)][j] =
       IF j = s.inode[p].dentry_count THEN Dentry(i, n) ELSE s.mem[DataBlock(s, p)][j]
  /\ t.mem[Block(e)][0] = Extent(Block(d))
  /\ mode = "dir" => /\ t.mem[Block(d)][0] = Dentry(i, ".")
                     /\ t.mem[Block(d)][1].tail = ".."
  /\ NoNameFirst(s, Block(e)) => NoNameFirst(t, Block(e))
  /\ NoNameFirst(s, Block(d)) => NoNameFirst(t, Block(d))

\* The blocks of the tree's inodes are marked in use.
LEMMA BlocksMarked ==
  ASSUME NEW s, NEW L, Sound(s, L), NEW x \in L
  PROVE  /\ s.inode[x].ext_block \in Blocks /\ DataBlock(s, x) \in Blocks
         /\ Bit(s.inode[x].ext_block) \in s.data_bitmap
         /\ Bit(DataBlock(s, x)) \in s.data_bitmap
         /\ s.inode[x].ext_block # DataBlock(s, x)
         /\ x \in s.inode_bitmap
<1>1. s.inode[x].ext_block \in Blocks /\ DataBlock(s, x) \in Blocks /\ x \in s.inode_bitmap
  BY DEF Sound, LaidOut
<1>2. Bit(s.inode[x].ext_block) \in s.data_bitmap /\ Bit(DataBlock(s, x)) \in s.data_bitmap
  BY DEF Sound, Accounted, Occupied
<1> QED BY <1>1, <1>2 DEF Sound, Apart

\* Where a node may be added: a directory p of the tree that has room and not
\* the name n, an inode and two blocks that are free.
MayGrow(s, L, p, n, mode, i, e, d) ==
  /\ s \in ImageType /\ L \in SUBSET Inodes /\ Sound(s, L)
  /\ p \in L /\ IsDir(s, p) /\ s.inode[p].dentry_count < DentriesPerBlock
  /\ n \in Names /\ \A k \in Listing(s, p) : Slot(s, p, k).tail # n
  /\ mode \in {"file", "dir"}
  /\ i \in Inodes \ s.inode_bitmap
  /\ e \in DBits \ s.data_bitmap /\ d \in DBits \ s.data_bitmap /\ e # d

\* ... and what the tree is then.
HasGrown(s, t, L, p, n, mode, i) ==
  /\ Sound(t, L \cup {i})
  /\ EdgeSet(t, L \cup {i}) = EdgeSet(s, L) \cup {<<p, n, i>>}
  /\ DirSet(t, L \cup {i}) = DirSet(s, L) \cup (IF mode = "dir" THEN {i} ELSE {})

\* A call that adds a node keeps the image sound, and adds one edge.
LEMMA SoundGrown ==
  ASSUME NEW s, NEW t, NEW L, NEW p, NEW n, NEW mode, NEW i, NEW e, NEW d,
         MayGrow(s, L, p, n, mode, i, e, d), Grown(s, t, p, n, mode, i, e, d)
  PROVE  HasGrown(s, t, L, p, n, mode, i)
<1> DEFINE K == L \cup {i}
           c == s.inode[p].dentry_count
<1>0. /\ s \in ImageType /\ L \in SUBSET Inodes /\ Sound(s, L)
      /\ p \in L /\ IsDir(s, p) /\ s.inode[p].dentry_count < DentriesPerBlock
      /\ n \in Names /\ \A k \in Listing(s, p) : Slot(s, p, k).tail # n
      /\ mode \in {"file", "dir"}
      /\ i \in Inodes \ s.inode_bitmap
      /\ e \in DBits \ s.data_bitmap /\ d \in DBits \ s.data_bitmap /\ e # d
  BY DEF MayGrow
<1> USE <1>0
<1>1. /\ \A x \in L : LaidOut(s, x)
      /\ \A x \in L : /\ s.inode[x].ext_block \in Blocks /\ DataBlock(s, x) \in Blocks
                      /\ Bit(s.inode[x].ext_block) \in s.data_bitmap
                      /\ Bit(DataBlock(s, x)) \in s.data_bitmap
                      /\ s.inode[x].ext_block # DataBlock(s, x)
                      /\ x # i
      /\ Apart(s, L) /\ Graph(EdgeSet(s, L), L) /\ Accounted(s, L)
      /\ L \subseteq s.inode_bitmap
  BY BlocksMarked DEF Sound
<1>2. /\ Block(e) \in Blocks /\ Block(d) \in Blocks /\ Block(e) # Block(d)
      /\ Bit(Block(e)) = e /\ Bit(Block(d)) = d
      /\ \A x \in L : /\ s.inode[x].ext_block \notin {Block(e), Block(d)}
                      /\ DataBlock(s, x) \notin {Block(e), Block(d)}
  BY <1>1, BitsOfBlocks
<1>3. ASSUME NEW x \in L \ {p}
      PROVE  /\ LaidOut(t, x)
             /\ t.inode[x].ext_block = s.inode[x].ext_block
             /\ DataBlock(t, x) = DataBlock(s, x)
             /\ IsDir(t, x) <=> IsDir(s, x)
             /\ EdgesOf(t, x) = EdgesOf(s, x)
  <2>1. t.inode[x] = s.inode[x]
    BY <1>1 DEF Grown
  <2>2. s.inode[x].ext_block # DataBlock(s, p) /\ DataBlock(s, x) # DataBlock(s, p)
    BY <1>1 DEF Apart
  <2>3. /\ t.mem[s.inode[x].ext_block] = s.mem[s.inode[x].ext_block]
        /\ t.mem[DataBlock(s, x)] = s.mem[DataBlock(s, x)]
    BY <1>1, <1>2, <2>2 DEF Grown
  <2> QED BY <1>1, <2>1, <2>3, NodeSame
<1>4. /\ LaidOut(t, p)
      /\ t.inode[p].ext_block = s.inode[p].ext_block
      /\ DataBlock(t, p) = DataBlock(s, p)
      /\ IsDir(t, p)
      /\ EdgesOf(t, p) = EdgesOf(s, p) \cup {<<p, n, i>>}
  <2>1. /\ IsDir(t, p) /\ t.inode[p].ext_block = s.inode[p].ext_block
        /\ t.inode[p].dentry_count = s.inode[p].dentry_count + 1
        /\ \A j \in Slots : t.mem[DataBlock(s, p)][j] =
             IF j = c THEN Dentry(i, n) ELSE s.mem[DataBlock(s, p)][j]
    BY DEF Grown, IsDir
  <2>2. t.mem[s.inode[p].ext_block] = s.mem[s.inode[p].ext_block]
    BY <1>1, <1>2 DEF Grown
  <2> QED BY <1>1, <2>1, <2>2, NodeGrown
<1>5. /\ LaidOut(t, i)
      /\ t.inode[i].ext_block = Block(e) /\ DataBlock(t, i) = Block(d)
      /\ IsDir(t, i) <=> mode = "dir"
      /\ EdgesOf(t, i) = {}
  BY <1>2, NodeNew DEF Grown
<1>6. /\ \A x \in K : LaidOut(t, x)
      /\ \A x \in L : /\ t.inode[x].ext_block = s.inode[x].ext_block
                      /\ DataBlock(t, x) = DataBlock(s, x)
                      /\ IsDir(t, x) <=> IsDir(s, x)
      /\ K \subseteq t.inode_bitmap
  BY <1>1, <1>3, <1>4, <1>5 DEF Grown
<1>7. Apart(t, K)
  BY <1>1, <1>2, <1>5, <1>6 DEF Apart
<1>8. EdgeSet(t, K) = EdgeSet(s, L) \cup {<<p, n, i>>}
  BY <1>1, <1>3, <1>4, <1>5 DEF EdgeSet
<1>9. DirSet(t, K) = DirSet(s, L) \cup (IF mode = "dir" THEN {i} ELSE {})
  BY <1>1, <1>5, <1>6 DEF DirSet
<1>10. Graph(EdgeSet(t, K), K)
  <2>1. ASSUME NEW x \in EdgeSet(s, L), x[1] = p, x[2] = n
        PROVE  FALSE
    <3>1. PICK k \in Listing(s, p) : x = Edge(s, p, k)
      BY <2>1, EdgeOrigin
    <3> QED BY <2>1, <3>1 DEF Edge
  <2>2. i \in Inodes \ L /\ Graph(EdgeSet(s, L), L)
    BY <1>1
  <2>3. Graph(EdgeSet(s, L) \cup {<<p, n, i>>}, L \cup {i})
    BY <2>1, <2>2, GraphGrown
  <2> QED BY <1>8, <2>3
<1>11. Accounted(t, K)
  <2>1. t.data_bitmap = s.data_bitmap \cup {e, d}
    BY DEF Grown
  <2>2. /\ \A x \in L : Occupied(t, x) = Occupied(s, x)
        /\ Occupied(t, i) = {e, d}
    BY <1>2, <1>5, <1>6 DEF Occupied
  <2>3. t.data_bitmap = UNION {Occupied(t, x) : x \in K}
    BY <1>1, <2>1, <2>2 DEF Accounted
  <2>4. /\ IsFiniteSet(L) /\ IsFiniteSet(s.data_bitmap)
        /\ Cardinality(L) \in Nat /\ Cardinality(s.data_bitmap) \in Nat
    BY BitmapsFinite DEF ImageType
  <2>5. Cardinality(t.data_bitmap) = Cardinality(s.data_bitmap) + 2
    BY <2>1, <2>4, PairAdded
  <2>6. Cardinality(K) = Cardinality(L) + 1
    BY <1>1, <2>4, FS_AddElement
  <2>7. t.free_dblock_count = s.free_dblock_count - 2
    BY DEF Grown
  <2>8. /\ Cardinality(s.data_bitmap) = 2 * Cardinality(L)
        /\ s.free_dblock_count = DBlockCount - Cardinality(s.data_bitmap)
    BY <1>1 DEF Accounted
  <2> HIDE DEF K
  <2>9. /\ Cardinality(t.data_bitmap) = 2 * Cardinality(K)
        /\ t.free_dblock_count = DBlockCount - Cardinality(t.data_bitmap)
    BY <2>4, <2>5, <2>6, <2>7, <2>8, Sizes
  <2> QED BY <2>3, <2>9 DEF Accounted
<1> QED BY <1>6, <1>7, <1>8, <1>9, <1>10, <1>11 DEF Sound, HasGrown

\* Entry k of directory p is gone, and the inode it names is free.
Shrunk(s, t, p, k) ==
  LET x == Slot(s, p, k).word
  IN  /\ t.inode_bitmap = s.inode_bitmap \ {x}
      /\ t.data_bitmap = s.data_bitmap \ Occupied(s, x)
      /\ t.free_inode_count = s.free_inode_count + 1
      /\ t.free_dblock_count = s.free_dblock_count + 2
      /\ t.inode[p].mode = s.inode[p].mode
      /\ t.inode[p].dentry_count = s.inode[p].dentry_count - 1
      /\ t.inode[p].ext_block = s.inode[p].ext_block
      /\ \A y \in Inodes \ {p} : t.inode[y] = s.inode[y]
      /\ \A b \in Blocks \ {DataBlock(s, p)} : t.mem[b] = s.mem[b]
      /\ \A j \in Slots : t.mem[DataBlock(s, p)][j] =
           IF j \in k .. s.inode[p].dentry_count - 2
           THEN s.mem[DataBlock(s, p)][j + 1] ELSE s.mem[DataBlock(s, p)][j]

\* Entry k of directory p may go: nothing is under what it names.
MayShrink(s, L, p, k) ==
  /\ s \in ImageType /\ L \in SUBSET Inodes /\ Sound(s, L)
  /\ p \in L /\ IsDir(s, p) /\ k \in Listing(s, p)
  /\ EdgesOf(s, Slot(s, p, k).word) = {}

HasShrunk(s, t, L, p, k) ==
  LET x == Slot(s, p, k).word
  IN  /\ Sound(t, L \ {x})
      /\ EdgeSet(t, L \ {x}) = EdgeSet(s, L) \ {Edge(s, p, k)}
      /\ DirSet(t, L \ {x}) = DirSet(s, L) \ {x}
      /\ x \in L \ {p} /\ Edge(s, p, k) \in EdgeSet(s, L)

\* Taking out a node that has nothing under it keeps the image sound, and
\* takes out one edge.
LEMMA SoundShrunk ==
  ASSUME NEW s, NEW t, NEW L, NEW p, NEW k, MayShrink(s, L, p, k), Shrunk(s, t, p, k)
  PROVE  HasShrunk(s, t, L, p, k)
<1> DEFINE x == Slot(s, p, k).word
           E == EdgeSet(s, L)
           g == Edge(s, p, k)
           K == L \ {x}
<1>0. /\ s \in ImageType /\ L \in SUBSET Inodes /\ Sound(s, L)
      /\ p \in L /\ IsDir(s, p) /\ k \in Listing(s, p)
      /\ EdgesOf(s, Slot(s, p, k).word) = {}
  BY DEF MayShrink
<1> USE <1>0
<1>1. /\ \A y \in L : LaidOut(s, y)
      /\ \A y \in L : /\ s.inode[y].ext_block \in Blocks /\ DataBlock(s, y) \in Blocks
                      /\ Bit(s.inode[y].ext_block) \in s.data_bitmap
                      /\ Bit(DataBlock(s, y)) \in s.data_bitmap
                      /\ s.inode[y].ext_block # DataBlock(s, y)
      /\ Apart(s, L) /\ Graph(E, L) /\ Accounted(s, L)
      /\ L \subseteq s.inode_bitmap
  BY BlocksMarked DEF Sound
<1>2. g \in EdgesOf(s, p) /\ g \in E /\ g[1] = p /\ g[3] = x
  BY DEF EdgesOf, EdgeSet, Edge
<1>3. x \in L /\ x # p
  BY <1>1, <1>2 DEF Graph
<1>4. ASSUME NEW y \in K \ {p}
      PROVE  /\ LaidOut(t, y)
             /\ t.inode[y].ext_block = s.inode[y].ext_block
             /\ DataBlock(t, y) = DataBlock(s, y)
             /\ IsDir(t, y) <=> IsDir(s, y)
             /\ EdgesOf(t, y) = EdgesOf(s, y)
  <2>1. t.inode[y] = s.inode[y]
    BY DEF Shrunk
  <2>2. s.inode[y].ext_block # DataBlock(s, p) /\ DataBlock(s, y) # DataBlock(s, p)
    BY <1>1 DEF Apart
  <2>3. /\ t.mem[s.inode[y].ext_block] = s.mem[s.inode[y].ext_block]
        /\ t.mem[DataBlock(s, y)] = s.mem[DataBlock(s, y)]
    BY <1>1, <2>2 DEF Shrunk
  <2> QED BY <1>1, <2>1, <2>3, NodeSame
<1>5. /\ LaidOut(t, p)
      /\ t.inode[p].ext_block = s.inode[p].ext_block
      /\ DataBlock(t, p) = DataBlock(s, p)
      /\ IsDir(t, p)
      /\ EdgesOf(t, p) = EdgesOf(s, p) \ {g}
  <2>1. /\ IsDir(t, p) /\ t.inode[p].ext_block = s.inode[p].ext_block
        /\ t.inode[p].dentry_count = s.inode[p].dentry_count - 1
        /\ \A j \in Slots : t.mem[DataBlock(s, p)][j] =
             IF j \in k .. s.inode[p].dentry_count - 2
             THEN s.mem[DataBlock(s, p)][j + 1] ELSE s.mem[DataBlock(s, p)][j]
    BY DEF Shrunk, IsDir
  <2>2. t.mem[s.inode[p].ext_block] = s.mem[s.inode[p].ext_block]
    BY <1>1 DEF Shrunk
  <2>3. LaidOut(s, p)
    BY <1>1
  <2> QED BY <2>1, <2>2, <2>3, NodeShrunk
<1>6. /\ \A y \in K : LaidOut(t, y)
      /\ \A y \in K : /\ t.inode[y].ext_block = s.inode[y].ext_block
                      /\ DataBlock(t, y) = DataBlock(s, y)
                      /\ IsDir(t, y) <=> IsDir(s, y)
      /\ K \subseteq t.inode_bitmap
  BY <1>1, <1>4, <1>5 DEF Shrunk
<1>7. Apart(t, K)
  BY <1>1, <1>6 DEF Apart
<1>8. EdgeSet(t, K) = E \ {g}
  <2>1. \A y \in K : EdgesOf(t, y) = EdgesOf(s, y) \ {g}
    <3>1. \A y \in K \ {p} : g \notin EdgesOf(s, y)
      BY <1>2 DEF EdgesOf, Edge
    <3> QED BY <1>4, <1>5, <3>1
  <2>2. EdgesOf(s, x) = {}
    OBVIOUS
  <2> HIDE DEF g, x
  <2> QED BY <2>1, <2>2 DEF EdgeSet
<1>9. DirSet(t, K) = DirSet(s, L) \ {x}
  BY <1>6 DEF DirSet
<1>10. Graph(EdgeSet(t, K), K)
  <2>1. \A e \in E : e[1] # x
    BY EdgeOrigin
  <2> HIDE DEF g, E
  <2>2. Graph(E \ {g}, L \ {g[3]})
    BY <1>1, <1>2, <2>1, GraphShrunk
  <2> QED BY <1>2, <1>8, <2>2
<1>11. Accounted(t, K)
  <2> DEFINE a == Bit(s.inode[x].ext_block)
             b == Bit(DataBlock(s, x))
  <2>1. t.data_bitmap = s.data_bitmap \ {a, b}
    BY DEF Shrunk, Occupied
  <2>2. a # b /\ a \in s.data_bitmap /\ b \in s.data_bitmap
    BY <1>1, <1>3, BitsOfBlocks
  <2>3. \A y \in K : Occupied(t, y) = Occupied(s, y) /\ Occupied(s, y) \cap {a, b} = {}
    <3>1. \A y \in K : /\ s.inode[y].ext_block # s.inode[x].ext_block
                       /\ s.inode[y].ext_block # DataBlock(s, x)
                       /\ DataBlock(s, y) # s.inode[x].ext_block
                       /\ DataBlock(s, y) # DataBlock(s, x)
      BY <1>1, <1>3 DEF Apart
    <3>2. \A y \in K : /\ Bit(s.inode[y].ext_block) \notin {a, b}
                       /\ Bit(DataBlock(s, y)) \notin {a, b}
      BY <1>1, <1>3, <3>1, BitsOfBlocks
    <3> QED BY <1>6, <3>2 DEF Occupied
  <2>4. t.data_bitmap = UNION {Occupied(t, y) : y \in K}
    <3>1. s.data_bitmap = UNION {Occupied(s, y) : y \in L} /\ Occupied(s, x) = {a, b}
      BY <1>1 DEF Accounted, Occupied
    <3> HIDE DEF a, b, x
    <3> QED BY <1>3, <2>1, <2>3, <3>1
  <2>5. /\ IsFiniteSet(L) /\ IsFiniteSet(s.data_bitmap)
        /\ Cardinality(L) \in Nat /\ Cardinality(s.data_bitmap) \in Nat
    BY BitmapsFinite DEF ImageType
  <2>6. Cardinality(t.data_bitmap) = Cardinality(s.data_bitmap) - 2
    BY <2>1, <2>2, <2>5, PairRemoved
  <2>7. Cardinality(K) = Cardinality(L) - 1
    <3> HIDE DEF x
    <3>1. x \in L
      BY <1>3
    <3> QED BY <2>5, <3>1, FS_RemoveElement
  <2>8. t.free_dblock_count = s.free_dblock_count + 2
    BY DEF Shrunk
  <2>9. /\ Cardinality(s.data_bitmap) = 2 * Cardinality(L)
        /\ s.free_dblock_count = DBlockCount - Cardinality(s.data_bitmap)
    BY <1>1 DEF Accounted
  <2> HIDE DEF K
  <2>10. /\ Cardinality(t.data_bitmap) = 2 * Cardinality(K)
         /\ t.free_dblock_count = DBlockCount - Cardinality(t.data_bitmap)
    BY <2>5, <2>6, <2>7, <2>8, <2>9, Sizes
  <2> QED BY <2>4, <2>10 DEF Accounted
<1> QED BY <1>2, <1>3, <1>6, <1>7, <1>8, <1>9, <1>10, <1>11 DEF Sound, HasShrunk

\* Entry k of directory p has gone to another directory q, under the name m.
Moved(s, t, p, k, q, m) ==
  /\ t.inode_bitmap = s.inode_bitmap
  /\ t.data_bitmap = s.data_bitmap
  /\ t.free_inode_count = s.free_inode_count
  /\ t.free_dblock_count = s.free_dblock_count
  /\ \A y \in Inodes : /\ t.inode[y].mode = s.inode[y].mode
                       /\ t.inode[y].ext_block = s.inode[y].ext_block
  /\ t.inode[p].dentry_count = s.inode[p].dentry_count - 1
  /\ t.inode[q].dentry_count = s.inode[q].dentry_count + 1
  /\ \A y \in Inodes \ {p, q} : t.inode[y] = s.inode[y]
  /\ \A b \in Blocks \ {DataBlock(s, p), DataBlock(s, q)} : t.mem[b] = s.mem[b]
  /\ \A j \in Slots : t.mem[DataBlock(s, q)][j] =
       IF j = s.inode[q].dentry_count THEN Dentry(Slot(s, p, k).word, m)
                                      ELSE s.mem[DataBlock(s, q)][j]
  /\ \A j \in Slots : t.mem[DataBlock(s, p)][j] =
       IF j \in k .. s.inode[p].dentry_count - 2
       THEN s.mem[DataBlock(s, p)][j + 1] ELSE s.mem[DataBlock(s, p)][j]

\* Entry k of directory p may go to q under the name m: q is another directory
\* that has room and not that name, and q is not below the node that moves.  T
\* is a set of nodes closed under the edges that has the node and lacks q.
MayMove(s, L, p, k, q, m, T) ==
  /\ s \in ImageType /\ L \in SUBSET Inodes /\ Sound(s, L)
  /\ p \in L /\ IsDir(s, p) /\ k \in Listing(s, p)
  /\ q \in L /\ q # p /\ IsDir(s, q) /\ s.inode[q].dentry_count < DentriesPerBlock
  /\ m \in Names /\ \A l \in Listing(s, q) : Slot(s, q, l).tail # m
  /\ T \in SUBSET Inodes /\ Slot(s, p, k).word \in T /\ q \notin T
  /\ \A e \in EdgeSet(s, L) : e[1] \in T => e[3] \in T

HasMoved(s, t, L, p, k, q, m) ==
  /\ Sound(t, L)
  /\ EdgeSet(t, L) = (EdgeSet(s, L) \ {Edge(s, p, k)})
                       \cup {<<q, m, Slot(s, p, k).word>>}
  /\ DirSet(t, L) = DirSet(s, L)
  /\ Edge(s, p, k) \in EdgeSet(s, L)

\* Moving a node to another directory keeps the image sound, and replaces one
\* edge.
LEMMA SoundMoved ==
  ASSUME NEW s, NEW t, NEW L, NEW p, NEW k, NEW q, NEW m, NEW T,
         MayMove(s, L, p, k, q, m, T), Moved(s, t, p, k, q, m)
  PROVE  HasMoved(s, t, L, p, k, q, m)
<1> DEFINE x == Slot(s, p, k).word
           E == EdgeSet(s, L)
           g == Edge(s, p, k)
           h == <<q, m, x>>
<1>0. /\ s \in ImageType /\ L \in SUBSET Inodes /\ Sound(s, L)
      /\ p \in L /\ IsDir(s, p) /\ k \in Listing(s, p)
      /\ q \in L /\ q # p /\ IsDir(s, q) /\ s.inode[q].dentry_count < DentriesPerBlock
      /\ m \in Names /\ \A l \in Listing(s, q) : Slot(s, q, l).tail # m
      /\ T \in SUBSET Inodes /\ x \in T /\ q \notin T
      /\ \A e \in E : e[1] \in T => e[3] \in T
  BY DEF MayMove
<1> USE <1>0
<1>1. /\ \A y \in L : LaidOut(s, y)
      /\ \A y \in L : /\ s.inode[y].ext_block \in Blocks /\ DataBlock(s, y) \in Blocks
                      /\ s.inode[y].ext_block # DataBlock(s, y)
      /\ Apart(s, L) /\ Graph(E, L) /\ Accounted(s, L)
      /\ L \subseteq s.inode_bitmap
  BY BlocksMarked DEF Sound
<1>2. g \in EdgesOf(s, p) /\ g \in E /\ g[1] = p /\ g[3] = x
  BY DEF EdgesOf, EdgeSet, Edge
<1>3. /\ \A y \in L : /\ t.inode[y].ext_block = s.inode[y].ext_block
                      /\ IsDir(t, y) <=> IsDir(s, y)
                      /\ t.mem[s.inode[y].ext_block] = s.mem[s.inode[y].ext_block]
      /\ \A y \in L : DataBlock(t, y) = DataBlock(s, y)
  <2>1. \A y \in L : s.inode[y].ext_block \notin {DataBlock(s, p), DataBlock(s, q)}
    BY <1>1 DEF Apart
  <2>2. \A y \in L : t.mem[s.inode[y].ext_block] = s.mem[s.inode[y].ext_block]
    BY <1>1, <2>1 DEF Moved
  <2>3. \A y \in L : t.inode[y].ext_block = s.inode[y].ext_block
                     /\ (IsDir(t, y) <=> IsDir(s, y))
    BY DEF Moved, IsDir
  <2> QED BY <2>2, <2>3 DEF DataBlock
<1>4. ASSUME NEW y \in L \ {p, q}
      PROVE  LaidOut(t, y) /\ EdgesOf(t, y) = EdgesOf(s, y)
  <2>1. t.inode[y] = s.inode[y]
    BY DEF Moved
  <2>2. DataBlock(s, y) # DataBlock(s, p) /\ DataBlock(s, y) # DataBlock(s, q)
    BY <1>1 DEF Apart
  <2>3. /\ t.mem[s.inode[y].ext_block] = s.mem[s.inode[y].ext_block]
        /\ t.mem[DataBlock(s, y)] = s.mem[DataBlock(s, y)]
    BY <1>1, <1>3, <2>2 DEF Moved
  <2> QED BY <1>1, <2>1, <2>3, NodeSame
<1>5. LaidOut(t, p) /\ EdgesOf(t, p) = EdgesOf(s, p) \ {g}
  <2>1. /\ t.inode[p].dentry_count = s.inode[p].dentry_count - 1
        /\ \A j \in Slots : t.mem[DataBlock(s, p)][j] =
             IF j \in k .. s.inode[p].dentry_count - 2
             THEN s.mem[DataBlock(s, p)][j + 1] ELSE s.mem[DataBlock(s, p)][j]
    BY DEF Moved
  <2>2. LaidOut(s, p)
    BY <1>1
  <2> QED BY <1>3, <2>1, <2>2, NodeShrunk
<1>6. LaidOut(t, q) /\ EdgesOf(t, q) = EdgesOf(s, q) \cup {h}
  <2>1. /\ t.inode[q].dentry_count = s.inode[q].dentry_count + 1
        /\ \A j \in Slots : t.mem[DataBlock(s, q)][j] =
             IF j = s.inode[q].dentry_count THEN Dentry(x, m) ELSE s.mem[DataBlock(s, q)][j]
    BY DEF Moved
  <2>2. LaidOut(s, q)
    BY <1>1
  <2> HIDE DEF x
  <2> QED BY <1>3, <2>1, <2>2, NodeGrown
<1>7. Apart(t, L)
  BY <1>1, <1>3 DEF Apart
<1>8. EdgeSet(t, L) = (E \ {g}) \cup {h}
  <2>1. \A y \in L \ {p} : g \notin EdgesOf(s, y)
    BY <1>2 DEF EdgesOf, Edge
  <2>2. /\ \A y \in L \ {q} : EdgesOf(t, y) = EdgesOf(s, y) \ {g}
        /\ EdgesOf(t, q) = (EdgesOf(s, q) \ {g}) \cup {h}
    BY <1>4, <1>5, <1>6, <2>1
  <2> HIDE DEF g, h
  <2> QED BY <2>2 DEF EdgeSet
<1>9. DirSet(t, L) = DirSet(s, L)
  BY <1>3 DEF DirSet
<1>10. Graph(EdgeSet(t, L), L)
  <2>1. ASSUME NEW e \in E, e[1] = q, e[2] = m
        PROVE  FALSE
    <3>1. PICK l \in Listing(s, q) : e = Edge(s, q, l)
      BY <2>1, EdgeOrigin
    <3> QED BY <2>1, <3>1 DEF Edge
  <2>2. g[3] \in T /\ \A e \in E : e[1] \in T => e[3] \in T
    BY <1>2
  <2> HIDE DEF g, E
  <2>3. Graph((E \ {g}) \cup {<<q, m, g[3]>>}, L)
    BY <1>1, <1>2, <2>1, <2>2, GraphMoved
  <2> QED BY <1>2, <1>8, <2>3
<1>11. Accounted(t, L)
  <2>1. \A y \in L : Occupied(t, y) = Occupied(s, y)
    BY <1>3 DEF Occupied
  <2> QED BY <1>1, <2>1 DEF Accounted, Moved
<1>12. L \subseteq t.inode_bitmap
  BY <1>1 DEF Moved
<1>13. \A y \in L : LaidOut(t, y)
  BY <1>4, <1>5, <1>6
<1> QED BY <1>2, <1>7, <1>8, <1>9, <1>10, <1>11, <1>12, <1>13 DEF Sound, HasMoved

-----------------------------------------------------------------------------
(* The handlers' stores, put together.                                     *)

\* An image is a record of six fields, whatever is in them.
Fields == {"inode_bitmap", "data_bitmap", "free_inode_count", "free_dblock_count",
           "inode", "mem"}

Record(s) == s = [x \in Fields |-> s[x]]

\* Two images with the same bitmaps and counters.
SameBitmaps(s, t) ==
  /\ t.inode_bitmap = s.inode_bitmap
  /\ t.data_bitmap = s.data_bitmap
  /\ t.free_inode_count = s.free_inode_count
  /\ t.free_dblock_count = s.free_dblock_count

\* Images are such records.
LEMMA ImageRecord ==
  ASSUME NEW s \in ImageType
  PROVE  Record(s)
BY DEF ImageType, Record, Fields

\* A store into the data region.
LEMMA MemSet ==
  ASSUME NEW s, Record(s), NEW m
  PROVE  LET t == [s EXCEPT !.mem = m]
         IN  Record(t) /\ SameBitmaps(s, t) /\ t.inode = s.inode /\ t.mem = m
BY DEF Record, Fields, SameBitmaps

\* A change of the inode table.
LEMMA InodeSet ==
  ASSUME NEW s, Record(s), NEW f
  PROVE  LET t == [s EXCEPT !.inode = f]
         IN  Record(t) /\ SameBitmaps(s, t) /\ t.inode = f /\ t.mem = s.mem
BY DEF Record, Fields, SameBitmaps

\* A change of one count of entries.
LEMMA CountSet ==
  ASSUME NEW s, Record(s), s.inode \in [Inodes -> Inode], NEW d \in Inodes, NEW delta \in Int
  PROVE  LET t == WithEntries(s, d, delta)
         IN  /\ Record(t) /\ SameBitmaps(s, t) /\ t.mem = s.mem
             /\ t.inode \in [Inodes -> Inode]
             /\ t.inode[d].mode = s.inode[d].mode
             /\ t.inode[d].ext_block = s.inode[d].ext_block
             /\ t.inode[d].dentry_count = s.inode[d].dentry_count + delta
             /\ \A x \in Inodes \ {d} : t.inode[x] = s.inode[x]
<1> DEFINE f == [s.inode EXCEPT ![d].dentry_count = @ + delta]
           t == WithEntries(s, d, delta)
<1>1. t = [s EXCEPT !.inode = f]
  BY DEF WithEntries, Record, Fields
<1>2. Record(t) /\ SameBitmaps(s, t) /\ t.inode = f /\ t.mem = s.mem
  BY <1>1, InodeSet
<1>3. /\ f \in [Inodes -> Inode]
      /\ f[d].mode = s.inode[d].mode
      /\ f[d].ext_block = s.inode[d].ext_block
      /\ f[d].dentry_count = s.inode[d].dentry_count + delta
      /\ \A x \in Inodes \ {d} : f[x] = s.inode[x]
  BY DEF Inode
<1> HIDE DEF f, t
<1>4. /\ t.inode \in [Inodes -> Inode]
      /\ t.inode[d].mode = s.inode[d].mode
      /\ t.inode[d].ext_block = s.inode[d].ext_block
      /\ t.inode[d].dentry_count = s.inode[d].dentry_count + delta
      /\ \A x \in Inodes \ {d} : t.inode[x] = s.inode[x]
  BY <1>2, <1>3
<1> QED BY <1>2, <1>4 DEF t

\* A change of one bitmap and its counter.
LEMMA BitmapsSet ==
  ASSUME NEW s, Record(s), NEW bits, NEW count
  PROVE  /\ LET t == SetInodeBits(s, bits, count)
            IN  /\ Record(t) /\ t.inode = s.inode /\ t.mem = s.mem
                /\ t.inode_bitmap = bits /\ t.data_bitmap = s.data_bitmap
                /\ t.free_inode_count = count
                /\ t.free_dblock_count = s.free_dblock_count
         /\ LET t == SetDataBits(s, bits, count)
            IN  /\ Record(t) /\ t.inode = s.inode /\ t.mem = s.mem
                /\ t.inode_bitmap = s.inode_bitmap /\ t.data_bitmap = bits
                /\ t.free_inode_count = s.free_inode_count
                /\ t.free_dblock_count = count
<1>1. LET t == SetInodeBits(s, bits, count)
      IN  /\ Record(t) /\ t.inode = s.inode /\ t.mem = s.mem
          /\ t.inode_bitmap = bits /\ t.data_bitmap = s.data_bitmap
          /\ t.free_inode_count = count
          /\ t.free_dblock_count = s.free_dblock_count
  BY DEF Record, Fields, SetInodeBits
<1>2. LET t == SetDataBits(s, bits, count)
      IN  /\ Record(t) /\ t.inode = s.inode /\ t.mem = s.mem
          /\ t.inode_bitmap = s.inode_bitmap /\ t.data_bitmap = bits
          /\ t.free_inode_count = s.free_inode_count
          /\ t.free_dblock_count = count
  BY DEF Record, Fields, SetDataBits
<1> QED BY <1>1, <1>2

\* Taking an inode and two blocks.
LEMMA NodeTaken ==
  ASSUME NEW s, Record(s), NEW i, NEW e, NEW d
  PROVE  LET t == TakeBlocks(TakeInode(s, i), e, d)
         IN  /\ Record(t) /\ t.inode = s.inode /\ t.mem = s.mem
             /\ t.inode_bitmap = s.inode_bitmap \cup {i}
             /\ t.data_bitmap = s.data_bitmap \cup {e, d}
             /\ t.free_inode_count = s.free_inode_count - 1
             /\ t.free_dblock_count = s.free_dblock_count - 2
<1> DEFINE u == TakeInode(s, i)
           t == TakeBlocks(u, e, d)
<1>1. u = SetInodeBits(s, s.inode_bitmap \cup {i}, s.free_inode_count - 1)
  BY DEF Record, Fields, TakeInode, SetInodeBits
<1>2. /\ Record(u) /\ u.inode = s.inode /\ u.mem = s.mem
      /\ u.inode_bitmap = s.inode_bitmap \cup {i} /\ u.data_bitmap = s.data_bitmap
      /\ u.free_inode_count = s.free_inode_count - 1
      /\ u.free_dblock_count = s.free_dblock_count
  BY <1>1, BitmapsSet
<1> HIDE DEF u
<1>3. t = SetDataBits(u, u.data_bitmap \cup {e, d}, u.free_dblock_count - 2)
  BY <1>2 DEF Record, Fields, TakeBlocks, SetDataBits
<1>4. /\ Record(t) /\ t.inode = u.inode /\ t.mem = u.mem
      /\ t.inode_bitmap = u.inode_bitmap /\ t.data_bitmap = u.data_bitmap \cup {e, d}
      /\ t.free_inode_count = u.free_inode_count
      /\ t.free_dblock_count = u.free_dblock_count - 2
  BY <1>2, <1>3, BitmapsSet
<1> HIDE DEF t
<1> QED BY <1>2, <1>4 DEF t, u

\* mkdir and create, up to where the entry is written.
LEMMA WithNodeShape ==
  ASSUME img \in ImageType, NEW p \in Inodes, NEW mode \in {"file", "dir"},
         NEW i \in Inodes, i # p, NEW e \in DBits, NEW d \in DBits
  PROVE  LET t == WithNode(p, mode, i, e, d)
         IN  /\ Record(t) /\ t.mem = img.mem
             /\ t.inode_bitmap = img.inode_bitmap \cup {i}
             /\ t.data_bitmap = img.data_bitmap \cup {e, d}
             /\ t.free_inode_count = img.free_inode_count - 1
             /\ t.free_dblock_count = img.free_dblock_count - 2
             /\ t.inode[i] = [mode |-> mode, dentry_count |-> 2, ext_block |-> Block(e)]
             /\ t.inode[p].mode = img.inode[p].mode
             /\ t.inode[p].dentry_count = img.inode[p].dentry_count + 1
             /\ t.inode[p].ext_block = img.inode[p].ext_block
             /\ \A x \in Inodes \ {i, p} : t.inode[x] = img.inode[x]
<1> DEFINE s == TakeBlocks(TakeInode(img, i), e, d)
           u == WithEntries(s, p, 1)
           new == [mode |-> mode, dentry_count |-> 2, ext_block |-> Block(e)]
           f == [u.inode EXCEPT ![i] = new]
           t == WithNode(p, mode, i, e, d)
<1>1. /\ Record(s) /\ s.inode = img.inode /\ s.mem = img.mem
      /\ s.inode_bitmap = img.inode_bitmap \cup {i}
      /\ s.data_bitmap = img.data_bitmap \cup {e, d}
      /\ s.free_inode_count = img.free_inode_count - 1
      /\ s.free_dblock_count = img.free_dblock_count - 2
  BY ImageRecord, NodeTaken
<1>2. t = AddInode(s, p, i, mode, e)
  BY DEF WithNode
<1> HIDE DEF s, t
<1>3. s.inode \in [Inodes -> Inode]
  BY <1>1 DEF ImageType
<1>4. /\ Record(u) /\ SameBitmaps(s, u) /\ u.mem = s.mem
      /\ u.inode \in [Inodes -> Inode]
      /\ u.inode[p].mode = s.inode[p].mode
      /\ u.inode[p].ext_block = s.inode[p].ext_block
      /\ u.inode[p].dentry_count = s.inode[p].dentry_count + 1
      /\ \A x \in Inodes \ {p} : u.inode[x] = s.inode[x]
  BY <1>1, <1>3, CountSet
<1>5. t = [u EXCEPT !.inode = f]
  BY <1>2, <1>4 DEF AddInode, Record, Fields
<1> HIDE DEF u
<1>6. f[i] = new /\ \A x \in Inodes \ {i} : f[x] = u.inode[x]
  BY <1>4
<1>7. Record(t) /\ SameBitmaps(u, t) /\ t.inode = f /\ t.mem = u.mem
  BY <1>4, <1>5, InodeSet
<1> HIDE DEF f, new
<1>8. /\ t.inode[i] = new
      /\ \A x \in Inodes \ {i} : t.inode[x] = u.inode[x]
  BY <1>6, <1>7
<1>9. /\ t.inode[p].mode = img.inode[p].mode
      /\ t.inode[p].dentry_count = img.inode[p].dentry_count + 1
      /\ t.inode[p].ext_block = img.inode[p].ext_block
      /\ \A x \in Inodes \ {i, p} : t.inode[x] = img.inode[x]
  BY <1>1, <1>4, <1>8
<1> QED BY <1>1, <1>4, <1>7, <1>8, <1>9 DEF SameBitmaps, t, new

\* create, and mkdir up to "." and "..".
LEMMA WithFileShape ==
  ASSUME img \in ImageType, NEW p \in Inodes, NEW n \in Names, NEW mode \in {"file", "dir"},
         NEW i \in Inodes, i # p, NEW e \in DBits, NEW d \in DBits, e # d,
         DataBlock(img, p) \in Blocks \ {Block(e), Block(d)},
         img.inode[p].dentry_count \in Slots
  PROVE  LET t == WithFile(p, n, mode, i, e, d)
         IN  /\ Record(t) /\ t.mem \in MemType
             /\ mode = "file" => Grown(img, t, p, n, mode, i, e, d)
             /\ \A m \in MemType :
                  /\ \A x \in Blocks \ {Block(d)} : m[x] = t.mem[x]
                  /\ m[Block(d)][0] = Dentry(i, ".") /\ m[Block(d)][1].tail = ".."
                  => Grown(img, [t EXCEPT !.mem = m], p, n, mode, i, e, d)
<1> DEFINE c == img.inode[p].dentry_count
           b == DataBlock(img, p)
           u == WithNode(p, mode, i, e, d)
           m1 == Store(u.mem, DataBlock(u, p), c, Dentry(i, n))
           u1 == [u EXCEPT !.mem = m1]
           m2 == Store(m1, Block(e), 0, Extent(Block(d)))
           t == WithFile(p, n, mode, i, e, d)
<1>1. /\ Record(u) /\ u.mem = img.mem
      /\ u.inode_bitmap = img.inode_bitmap \cup {i}
      /\ u.data_bitmap = img.data_bitmap \cup {e, d}
      /\ u.free_inode_count = img.free_inode_count - 1
      /\ u.free_dblock_count = img.free_dblock_count - 2
      /\ u.inode[i] = [mode |-> mode, dentry_count |-> 2, ext_block |-> Block(e)]
      /\ u.inode[p].mode = img.inode[p].mode
      /\ u.inode[p].dentry_count = img.inode[p].dentry_count + 1
      /\ u.inode[p].ext_block = img.inode[p].ext_block
      /\ \A x \in Inodes \ {i, p} : u.inode[x] = img.inode[x]
  BY WithNodeShape
<1>2. t = AddExtent(u1, e, d)
  BY DEF WithFile, AddEntry
<1> HIDE DEF u, t
<1>3. Record(u1) /\ SameBitmaps(u, u1) /\ u1.inode = u.inode /\ u1.mem = m1
  BY <1>1, MemSet
<1>4. DataBlock(u, p) = b
  BY <1>1 DEF DataBlock
<1> HIDE DEF u1
<1>5. t = [u1 EXCEPT !.mem = m2]
  BY <1>2, <1>3 DEF AddExtent
<1>6. /\ Block(e) \in Blocks /\ Block(d) \in Blocks /\ Block(e) # Block(d)
      /\ 0 \in Slots /\ 1 \in Slots
  BY BitsOfBlocks, Sizes DEF Slots
<1>7. Dentry(i, n) \in Cell /\ Extent(Block(d)) \in Cell
  BY <1>6 DEF Dentry, Extent, Cell
<1>8. /\ m1 \in MemType
      /\ \A x \in Blocks \ {b} : m1[x] = img.mem[x]
      /\ \A j \in Slots : m1[b][j] = IF j = c THEN Dentry(i, n) ELSE img.mem[b][j]
  BY <1>1, <1>4, <1>7, StoreInBlock DEF ImageType
<1> HIDE DEF m1
<1>9. /\ m2 \in MemType
      /\ \A x \in Blocks \ {Block(e)} : m2[x] = m1[x]
      /\ m2[Block(e)][0] = Extent(Block(d))
      /\ m2[Block(e)][1] = m1[Block(e)][1]
  <2>1. /\ m2 \in MemType
        /\ \A x \in Blocks \ {Block(e)} : m2[x] = m1[x]
        /\ \A j \in Slots : m2[Block(e)][j] = IF j = 0 THEN Extent(Block(d)) ELSE m1[Block(e)][j]
    <3>1. m1 \in MemType /\ Block(e) \in Blocks /\ 0 \in Slots /\ Extent(Block(d)) \in Cell
      BY <1>6, <1>7, <1>8
    <3> QED BY <3>1, StoreInBlock
  <2> HIDE DEF m2
  <2> QED BY <2>1, <1>6
<1> HIDE DEF m2, b, c
<1>10. Record(t) /\ SameBitmaps(u1, t) /\ t.inode = u1.inode /\ t.mem = m2
  BY <1>3, <1>5, MemSet
<1>11. /\ b \in Blocks \ {Block(e), Block(d)}
       /\ \A x \in Blocks \ {b, Block(e), Block(d)} : m2[x] = img.mem[x]
       /\ \A j \in Slots : m2[b][j] = IF j = c THEN Dentry(i, n) ELSE img.mem[b][j]
  BY <1>8, <1>9 DEF b
<1>12. ASSUME NEW v, NEW m, v.mem = m, v.inode = u.inode, SameBitmaps(u, v),
              \A x \in Blocks \ {Block(d)} : m[x] = m2[x],
              \/ mode = "file" /\ m[Block(d)] = m2[Block(d)]
              \/ m[Block(d)][0] = Dentry(i, ".") /\ m[Block(d)][1].tail = ".."
       PROVE  Grown(img, v, p, n, mode, i, e, d)
  <2>1. /\ \A x \in Blocks \ {b, Block(e), Block(d)} : m[x] = img.mem[x]
        /\ \A j \in Slots : m[b][j] = IF j = c THEN Dentry(i, n) ELSE img.mem[b][j]
        /\ m[Block(e)][0] = Extent(Block(d))
    BY <1>6, <1>9, <1>11, <1>12
  <2>2. NoNameFirst(img, Block(e)) => NoNameFirst(v, Block(e))
    <3>1. m[Block(e)][0].tail = "extent" /\ "extent" \notin Names
      BY <2>1, ImageAssumption DEF Extent
    <3>2. m[Block(e)][1] = img.mem[Block(e)][1]
      BY <1>6, <1>8, <1>9, <1>11, <1>12
    <3> QED BY <1>12, <3>1, <3>2 DEF NoNameFirst
  <2>3. NoNameFirst(img, Block(d)) => NoNameFirst(v, Block(d))
    <3>1. CASE m[Block(d)] = m2[Block(d)]
      <4>1. m[Block(d)] = img.mem[Block(d)]
        BY <1>6, <1>8, <1>9, <1>11, <3>1
      <4> QED BY <1>12, <4>1 DEF NoNameFirst
    <3>2. CASE m[Block(d)][0] = Dentry(i, ".") /\ m[Block(d)][1].tail = ".."
      BY <1>12, <3>2, ImageAssumption DEF NoNameFirst, Dentry
    <3> QED BY <1>12, <3>1, <3>2
  <2> QED BY <1>1, <1>12, <2>1, <2>2, <2>3 DEF Grown, SameBitmaps, b, c
<1>13. mode = "file" => Grown(img, t, p, n, mode, i, e, d)
  BY <1>3, <1>10, <1>12 DEF SameBitmaps
<1>14. ASSUME NEW m \in MemType, \A x \in Blocks \ {Block(d)} : m[x] = t.mem[x],
              m[Block(d)][0] = Dentry(i, "."), m[Block(d)][1].tail = ".."
       PROVE  Grown(img, [t EXCEPT !.mem = m], p, n, mode, i, e, d)
  <2> DEFINE v == [t EXCEPT !.mem = m]
  <2>1. v.mem = m /\ v.inode = t.inode /\ SameBitmaps(t, v)
    BY <1>10, MemSet
  <2> HIDE DEF v
  <2>2. v.inode = u.inode /\ SameBitmaps(u, v)
    BY <1>3, <1>10, <2>1 DEF SameBitmaps
  <2>3. Grown(img, v, p, n, mode, i, e, d)
    BY <1>10, <1>12, <1>14, <2>1, <2>2
  <2> QED BY <2>3 DEF v
<1> QED BY <1>9, <1>10, <1>13, <1>14 DEF t

\* mkdir.
LEMMA WithDirShape ==
  ASSUME img \in ImageType, NEW p \in Inodes, NEW n \in Names,
         NEW i \in Inodes, i # p, NEW e \in DBits, NEW d \in DBits, e # d,
         DataBlock(img, p) \in Blocks \ {Block(e), Block(d)},
         img.inode[p].dentry_count \in Slots, NEW up \in Inodes
  PROVE  LET s == AddDots(WithFile(p, n, "dir", i, e, d), d, i, up)
         IN  /\ Grown(img, s, p, n, "dir", i, e, d)
             /\ s.mem[Block(d)][1] = Dentry(up, "..")
<1> DEFINE t == WithFile(p, n, "dir", i, e, d)
           m1 == Store(t.mem, Block(d), 0, Dentry(i, "."))
           m2 == Store(m1, Block(d), 1, Dentry(up, ".."))
<1>1. /\ Record(t) /\ t.mem \in MemType
      /\ \A m \in MemType :
           /\ \A x \in Blocks \ {Block(d)} : m[x] = t.mem[x]
           /\ m[Block(d)][0] = Dentry(i, ".") /\ m[Block(d)][1].tail = ".."
           => Grown(img, [t EXCEPT !.mem = m], p, n, "dir", i, e, d)
  BY WithFileShape
<1>2. AddDots(t, d, i, up) = [t EXCEPT !.mem = m2]
  BY DEF AddDots
<1> HIDE DEF t
<1>3. Block(d) \in Blocks /\ 0 \in Slots /\ 1 \in Slots
  BY BitsOfBlocks, Sizes DEF Slots
<1>4. Dentry(i, ".") \in Cell /\ Dentry(up, "..") \in Cell
  BY DEF Dentry, Cell
<1>5. /\ m1 \in MemType
      /\ \A x \in Blocks \ {Block(d)} : m1[x] = t.mem[x]
      /\ m1[Block(d)][0] = Dentry(i, ".")
  <2>1. t.mem \in MemType
    BY <1>1
  <2> QED BY <1>3, <1>4, <2>1, StoreFirst, SMTT(30)
<1> HIDE DEF m1
<1>6. /\ m2 \in MemType
      /\ \A x \in Blocks \ {Block(d)} : m2[x] = m1[x]
      /\ m2[Block(d)][0] = m1[Block(d)][0]
      /\ m2[Block(d)][1] = Dentry(up, "..")
  BY <1>3, <1>4, <1>5, StoreSecond
<1> HIDE DEF m2
<1>7. m2[Block(d)][1].tail = ".."
  BY <1>6 DEF Dentry
<1>8. [t EXCEPT !.mem = m2].mem = m2
  BY <1>1, MemSet
<1> QED BY <1>1, <1>2, <1>5, <1>6, <1>7, <1>8 DEF t

\* Freeing an inode and its blocks.
LEMMA NodeFreed ==
  ASSUME NEW s, Record(s), NEW x
  PROVE  LET t == FreeNode(s, x)
         IN  /\ Record(t) /\ t.inode = s.inode /\ t.mem = s.mem
             /\ t.inode_bitmap = s.inode_bitmap \ {x}
             /\ t.data_bitmap = s.data_bitmap \ Occupied(s, x)
             /\ t.free_inode_count = s.free_inode_count + 1
             /\ t.free_dblock_count = s.free_dblock_count + 2
<1> DEFINE bits == Occupied(s, x)
           u == SetDataBits(s, s.data_bitmap \ bits, s.free_dblock_count + 2)
           t == SetInodeBits(u, u.inode_bitmap \ {x}, u.free_inode_count + 1)
<1>1. bits = {Bit(DataBlock(s, x)), Bit(s.inode[x].ext_block)}
  BY DEF Occupied
<1> HIDE DEF bits
<1>2. /\ Record(u) /\ u.inode = s.inode /\ u.mem = s.mem
      /\ u.inode_bitmap = s.inode_bitmap /\ u.data_bitmap = s.data_bitmap \ bits
      /\ u.free_inode_count = s.free_inode_count
      /\ u.free_dblock_count = s.free_dblock_count + 2
  BY BitmapsSet
<1>3. FreeNode(s, x) = t
  BY <1>1 DEF FreeNode, Record, Fields, SetInodeBits, SetDataBits
<1> HIDE DEF u
<1>4. /\ Record(t) /\ t.inode = u.inode /\ t.mem = u.mem
      /\ t.inode_bitmap = u.inode_bitmap \ {x} /\ t.data_bitmap = u.data_bitmap
      /\ t.free_inode_count = u.free_inode_count + 1
      /\ t.free_dblock_count = u.free_dblock_count
  BY <1>2, BitmapsSet
<1> HIDE DEF t
<1> QED BY <1>2, <1>3, <1>4 DEF bits

\* rmdir and unlink, from where the target is known to go.
LEMMA RemoveIsShrunk ==
  ASSUME NEW s \in ImageType, NEW p \in Inodes, LaidOut(s, p), NEW k \in Listing(s, p)
  PROVE  Shrunk(s, Remove(s, p, k), p, k)
<1> DEFINE c == s.inode[p].dentry_count
           b == DataBlock(s, p)
           x == Slot(s, p, k).word
           u == FreeNode(s, x)
           m == forward_layback_extents(s.mem, b, k, c)
           v == [u EXCEPT !.mem = m]
           t == Remove(s, p, k)
<1>1. /\ k \in 2 .. c - 1 /\ c \in 0 .. DentriesPerBlock /\ k \in Nat /\ IsDir(s, p)
      /\ DentryAt(s, p, k) = Slot(s, p, k) /\ b \in Blocks
  BY LaidOutFacts DEF Listing, LaidOut
<1>2. /\ Record(u) /\ u.inode = s.inode /\ u.mem = s.mem
      /\ u.inode_bitmap = s.inode_bitmap \ {x}
      /\ u.data_bitmap = s.data_bitmap \ Occupied(s, x)
      /\ u.free_inode_count = s.free_inode_count + 1
      /\ u.free_dblock_count = s.free_dblock_count + 2
  BY ImageRecord, NodeFreed
<1>3. t = DropEntry(u, p, k)
  BY <1>1 DEF Remove
<1> HIDE DEF u, t
<1>4. t = WithEntries(v, p, -1)
  BY <1>2, <1>3 DEF DropEntry, DataBlock
<1>5. Record(v) /\ SameBitmaps(u, v) /\ v.inode = u.inode /\ v.mem = m
  BY <1>2, MemSet
<1> HIDE DEF v
<1>6. v.inode \in [Inodes -> Inode] /\ -1 \in Int
  BY <1>2, <1>5 DEF ImageType
<1>7. /\ SameBitmaps(v, t) /\ t.mem = v.mem
      /\ t.inode[p].mode = v.inode[p].mode
      /\ t.inode[p].ext_block = v.inode[p].ext_block
      /\ t.inode[p].dentry_count = v.inode[p].dentry_count + -1
      /\ \A y \in Inodes \ {p} : t.inode[y] = v.inode[y]
  BY <1>4, <1>5, <1>6, CountSet
<1>8. /\ \A y \in Blocks \ {b} : m[y] = s.mem[y]
      /\ \A j \in Slots : m[b][j] = IF j \in k .. c - 2 THEN s.mem[b][j + 1] ELSE s.mem[b][j]
  <2>1. s.mem \in MemType
    BY DEF ImageType
  <2> HIDE DEF b, c
  <2> QED BY <1>1, <2>1, ShiftInBlock
<1>9. t.inode[p].dentry_count = s.inode[p].dentry_count - 1
  BY <1>1, <1>2, <1>5, <1>7
<1> HIDE DEF m
<1> QED BY <1>2, <1>5, <1>7, <1>8, <1>9 DEF Shrunk, SameBitmaps, t

\* The second half of rename, from one directory to another.
LEMMA MoveIsMoved ==
  ASSUME NEW s \in ImageType, NEW p \in Inodes, LaidOut(s, p), NEW k \in Listing(s, p),
         NEW q \in Inodes, q # p, LaidOut(s, q), s.inode[q].dentry_count < DentriesPerBlock,
         DataBlock(s, q) # DataBlock(s, p),
         NEW n \in Names, Slot(s, p, k).word \in Inodes
  PROVE  Moved(s, Move(s, p, k, q, n), p, k, q, n)
<1> DEFINE cp == s.inode[p].dentry_count
           cq == s.inode[q].dentry_count
           b == DataBlock(s, p)
           a == DataBlock(s, q)
           x == Slot(s, p, k).word
           m1 == Store(s.mem, a, cq, Dentry(x, n))
           m2 == forward_layback_extents(m1, b, k, cp)
           u == [s EXCEPT !.mem = m1]
           v == [u EXCEPT !.mem = m2]
           w == WithEntries(v, p, -1)
           t == WithEntries(w, q, 1)
<1>1. /\ k \in 2 .. cp - 1 /\ cp \in 0 .. DentriesPerBlock /\ k \in Nat
      /\ cq \in Slots /\ cq \in Nat
      /\ DentryAt(s, p, k) = Slot(s, p, k) /\ b \in Blocks /\ a \in Blocks
  <2>1. k \in 2 .. cp - 1 /\ cp \in Nat /\ cp <= DentriesPerBlock
        /\ DentryAt(s, p, k) = Slot(s, p, k) /\ b \in Blocks
    BY LaidOutFacts DEF Listing, LaidOut
  <2>2. cq \in Nat /\ a \in Blocks
    BY LaidOutFacts DEF LaidOut
  <2> HIDE DEF a, b
  <2> QED BY <2>1, <2>2, Sizes DEF Slots
<1>2. Record(u) /\ SameBitmaps(s, u) /\ u.inode = s.inode /\ u.mem = m1
  BY ImageRecord, MemSet
<1>3. Move(s, p, k, q, n) = t
  BY <1>1, <1>2 DEF Move, AddEntry
<1> HIDE DEF u
<1>4. Record(v) /\ SameBitmaps(u, v) /\ v.inode = u.inode /\ v.mem = m2
  BY <1>2, MemSet
<1> HIDE DEF v
<1>5. v.inode \in [Inodes -> Inode] /\ -1 \in Int /\ 1 \in Int
  BY <1>2, <1>4 DEF ImageType
<1>6. /\ Record(w) /\ SameBitmaps(v, w) /\ w.mem = v.mem
      /\ w.inode \in [Inodes -> Inode]
      /\ w.inode[p].mode = v.inode[p].mode
      /\ w.inode[p].ext_block = v.inode[p].ext_block
      /\ w.inode[p].dentry_count = v.inode[p].dentry_count + -1
      /\ \A y \in Inodes \ {p} : w.inode[y] = v.inode[y]
  BY <1>4, <1>5, CountSet
<1> HIDE DEF w
<1>7. /\ SameBitmaps(w, t) /\ t.mem = w.mem
      /\ t.inode[q].mode = w.inode[q].mode
      /\ t.inode[q].ext_block = w.inode[q].ext_block
      /\ t.inode[q].dentry_count = w.inode[q].dentry_count + 1
      /\ \A y \in Inodes \ {q} : t.inode[y] = w.inode[y]
  BY <1>5, <1>6, CountSet
<1> HIDE DEF t
<1>8. /\ SameBitmaps(s, t) /\ t.mem = m2
      /\ \A y \in Inodes : /\ t.inode[y].mode = s.inode[y].mode
                           /\ t.inode[y].ext_block = s.inode[y].ext_block
      /\ t.inode[p].dentry_count = cp - 1
      /\ t.inode[q].dentry_count = cq + 1
      /\ \A y \in Inodes \ {p, q} : t.inode[y] = s.inode[y]
  <2>1. SameBitmaps(s, t) /\ t.mem = m2
    BY <1>2, <1>4, <1>6, <1>7 DEF SameBitmaps
  <2>2. \A y \in Inodes \ {p, q} : t.inode[y] = s.inode[y]
    BY <1>2, <1>4, <1>6, <1>7
  <2>3. /\ t.inode[p] = w.inode[p] /\ w.inode[q] = s.inode[q]
        /\ v.inode = s.inode
    BY <1>2, <1>4, <1>6, <1>7
  <2>4. t.inode[p].dentry_count = cp - 1 /\ t.inode[q].dentry_count = cq + 1
    BY <1>1, <1>6, <1>7, <2>3
  <2>5. /\ t.inode[p].mode = s.inode[p].mode /\ t.inode[p].ext_block = s.inode[p].ext_block
        /\ t.inode[q].mode = s.inode[q].mode /\ t.inode[q].ext_block = s.inode[q].ext_block
    BY <1>6, <1>7, <2>3
  <2> HIDE DEF m2
  <2> QED BY <2>1, <2>2, <2>4, <2>5
<1>9. /\ m1 \in MemType
      /\ \A y \in Blocks \ {a} : m1[y] = s.mem[y]
      /\ \A j \in Slots : m1[a][j] = IF j = cq THEN Dentry(x, n) ELSE s.mem[a][j]
  <2>1. s.mem \in MemType /\ Dentry(x, n) \in Cell
    BY DEF ImageType, Dentry, Cell
  <2> HIDE DEF a, cq, x
  <2> QED BY <1>1, <2>1, StoreInBlock
<1> HIDE DEF m1
<1>10. /\ \A y \in Blocks \ {b} : m2[y] = m1[y]
       /\ \A j \in Slots : m2[b][j] = IF j \in k .. cp - 2 THEN m1[b][j + 1] ELSE m1[b][j]
  <2> HIDE DEF b, cp
  <2> QED BY <1>1, <1>9, ShiftInBlock
<1> HIDE DEF m2
<1>11. /\ \A y \in Blocks \ {b, a} : m2[y] = s.mem[y]
       /\ \A j \in Slots : m2[a][j] = IF j = cq THEN Dentry(x, n) ELSE s.mem[a][j]
       /\ \A j \in Slots : m2[b][j] = IF j \in k .. cp - 2 THEN s.mem[b][j + 1] ELSE s.mem[b][j]
  <2>1. m1[b] = s.mem[b] /\ m2[a] = m1[a]
    BY <1>1, <1>9, <1>10
  <2> HIDE DEF a, b, cp, cq, x
  <2> QED BY <1>9, <1>10, <2>1
<1>12. Moved(s, t, p, k, q, n)
  BY <1>8, <1>11 DEF Moved, SameBitmaps
<1> QED BY <1>3, <1>12

-----------------------------------------------------------------------------
(* What a walk meets in a node: in a directory the second entry, which is  *)
(* "..", in a file two entries that hold no name.                          *)

\* If no block of s had a name in its first two slots, no block of t has.
StillNoNames(s, t) ==
  (\A b \in Blocks : NoNameFirst(s, b)) => \A b \in Blocks : NoNameFirst(t, b)

\* t is what s became, with nodes K instead of L: a directory was one before,
\* with the same "..", or is new, and its ".." names its parent; a file was one
\* before, with as many entries, or is new, and has two.
Backs(s, t, L, K) ==
  /\ StillNoNames(s, t)
  /\ \A d \in K :
       IF IsDir(t, d)
       THEN \/ d \in L /\ IsDir(s, d) /\ Slot(t, d, 1) = Slot(s, d, 1)
            \/ d \notin L /\ \E x \in EdgeSet(t, K) : x[3] = d /\ x[1] = Slot(t, d, 1).word
       ELSE \/ /\ d \in L /\ ~ IsDir(s, d)
               /\ t.inode[d].dentry_count = s.inode[d].dentry_count
            \/ d \notin L /\ t.inode[d].dentry_count = 2

\* The nodes in L stay what they are, with the same "..", or as many entries.
Steady(s, t, L) ==
  /\ StillNoNames(s, t)
  /\ \A x \in L :
       /\ t.inode[x].mode = s.inode[x].mode
       /\ Slot(t, x, 1) = Slot(s, x, 1)
       /\ ~ IsDir(s, x) => t.inode[x].dentry_count = s.inode[x].dentry_count

\* If the nodes that stay are steady, no ".." was lost.
LEMMA SteadyBacks ==
  ASSUME NEW s, NEW t, NEW L, NEW K \in SUBSET L, Steady(s, t, K)
  PROVE  Backs(s, t, L, K)
BY DEF Steady, Backs, IsDir

\* Steady for one change, steady for the next: steady for both.
LEMMA SteadyOn ==
  ASSUME NEW s, NEW t, NEW u, NEW L, NEW K \in SUBSET L, Steady(s, t, L), Steady(t, u, K)
  PROVE  Steady(s, u, K)
BY DEF Steady, StillNoNames, IsDir

\* What touches neither the inode table nor the data region is steady.
LEMMA SteadySame ==
  ASSUME NEW s, NEW t, NEW L, t.inode = s.inode, t.mem = s.mem
  PROVE  Steady(s, t, L)
BY DEF Steady, StillNoNames, NoNameFirst, Slot, DataBlock

\* A node added...
LEMMA GrownBacks ==
  ASSUME NEW s, NEW t, NEW L, NEW p, NEW n, NEW mode, NEW i, NEW e, NEW d,
         MayGrow(s, L, p, n, mode, i, e, d), Grown(s, t, p, n, mode, i, e, d),
         mode = "dir" => t.mem[Block(d)][1] = Dentry(p, "..")
  PROVE  Backs(s, t, L, L \cup {i})
<1>1. /\ s \in ImageType /\ L \in SUBSET Inodes /\ Sound(s, L)
      /\ p \in L /\ IsDir(s, p) /\ mode \in {"file", "dir"}
      /\ i \in Inodes \ s.inode_bitmap
      /\ e \in DBits \ s.data_bitmap /\ d \in DBits \ s.data_bitmap /\ e # d
  BY DEF MayGrow
<1>2. /\ Sound(t, L \cup {i}) /\ EdgeSet(t, L \cup {i}) = EdgeSet(s, L) \cup {<<p, n, i>>}
  BY SoundGrown DEF HasGrown
<1>3. i \notin L
  BY <1>1 DEF Sound
<1>4. ASSUME NEW x \in L
      PROVE  /\ t.inode[x].mode = s.inode[x].mode /\ Slot(t, x, 1) = Slot(s, x, 1)
             /\ ~ IsDir(s, x) => t.inode[x].dentry_count = s.inode[x].dentry_count
  <2>1. /\ s.inode[x].ext_block \in Blocks \ {Block(e), Block(d)}
        /\ DataBlock(s, x) \in Blocks \ {Block(e), Block(d)}
    BY <1>1, BlocksMarked, BitsOfBlocks
  <2>2. x \in Inodes \ {i} /\ t.inode[x].mode = s.inode[x].mode
        /\ t.inode[x].ext_block = s.inode[x].ext_block
    BY <1>1, <1>3 DEF Grown
  <2>3. s.inode[x].ext_block # DataBlock(s, p)
    BY <1>1 DEF Sound, Apart
  <2>9. s.inode[x].ext_block \in Blocks \ {DataBlock(s, p), Block(e), Block(d)}
    BY <2>1, <2>3
  <2>10. t.mem[s.inode[x].ext_block] = s.mem[s.inode[x].ext_block]
    BY <1>1, <2>9 DEF Grown
  <2>4. DataBlock(t, x) = DataBlock(s, x)
    BY <2>2, <2>10 DEF DataBlock
  <2>5. s.inode[p].dentry_count # 1 /\ 1 \in Slots
    <3>1. p \in Inodes /\ LaidOut(s, p)
      BY <1>1 DEF Sound
    <3> QED BY <3>1, LaidOutFacts
  <2>6. t.mem[DataBlock(s, x)][1] = s.mem[DataBlock(s, x)][1]
    BY <2>1, <2>5 DEF Grown
  <2>7. ~ IsDir(s, x) => t.inode[x].dentry_count = s.inode[x].dentry_count
    <3>1. ~ IsDir(s, x) => x \in Inodes \ {i, p}
      BY <1>1, <2>2
    <3> QED BY <3>1 DEF Grown
  <2> QED BY <2>2, <2>4, <2>6, <2>7 DEF Slot
<1>5. ASSUME IsDir(t, i)
      PROVE  \E x \in EdgeSet(t, L \cup {i}) : x[3] = i /\ x[1] = Slot(t, i, 1).word
  <2>1. t.inode[i] = [mode |-> mode, dentry_count |-> 2, ext_block |-> Block(e)]
        /\ t.mem[Block(e)][0] = Extent(Block(d))
    BY DEF Grown
  <2>2. mode = "dir" /\ DataBlock(t, i) = Block(d)
    BY <1>5, <2>1 DEF IsDir, DataBlock, Extent
  <2>3. Slot(t, i, 1).word = p
    BY <2>2 DEF Slot, Dentry
  <2>4. <<p, n, i>> \in EdgeSet(t, L \cup {i}) /\ <<p, n, i>>[3] = i /\ <<p, n, i>>[1] = p
    BY <1>2
  <2> QED BY <2>3, <2>4
<1>6. StillNoNames(s, t)
  <2> SUFFICES ASSUME \A b \in Blocks : NoNameFirst(s, b), NEW b \in Blocks
               PROVE  NoNameFirst(t, b)
    BY DEF StillNoNames
  <2>1. CASE b = DataBlock(s, p)
    <3>1. s.inode[p].dentry_count \notin {0, 1} /\ 0 \in Slots /\ 1 \in Slots
      <4>1. p \in Inodes /\ LaidOut(s, p)
        BY <1>1 DEF Sound
      <4> QED BY <4>1, LaidOutFacts
    <3>2. t.mem[b][0] = s.mem[b][0] /\ t.mem[b][1] = s.mem[b][1]
      BY <2>1, <3>1 DEF Grown
    <3> QED BY <3>2 DEF NoNameFirst
  <2>2. CASE b = Block(e)
    BY <2>2 DEF Grown
  <2>3. CASE b = Block(d)
    BY <2>3 DEF Grown
  <2>4. CASE b \notin {DataBlock(s, p), Block(e), Block(d)}
    <3>1. t.mem[b] = s.mem[b]
      BY <2>4 DEF Grown
    <3> QED BY <3>1 DEF NoNameFirst
  <2> QED BY <2>1, <2>2, <2>3, <2>4
<1>7. t.inode[i].dentry_count = 2
  BY DEF Grown
<1> QED BY <1>2, <1>3, <1>4, <1>5, <1>6, <1>7 DEF Backs, IsDir

\* ... one taken out...
LEMMA ShrunkSteady ==
  ASSUME NEW s, NEW t, NEW L \in SUBSET Inodes, Sound(s, L), NEW p \in L, IsDir(s, p),
         NEW k \in Listing(s, p), Shrunk(s, t, p, k)
  PROVE  Steady(s, t, L)
<1>0. p \in Inodes /\ LaidOut(s, p)
  BY DEF Sound
<1>1. 0 \in Slots /\ 1 \in Slots /\ k >= 2 /\ k \in Int
  BY <1>0, LaidOutFacts
<1>2. StillNoNames(s, t)
  <2> SUFFICES ASSUME \A b \in Blocks : NoNameFirst(s, b), NEW b \in Blocks
               PROVE  NoNameFirst(t, b)
    BY DEF StillNoNames
  <2>1. t.mem[b][0] = s.mem[b][0] /\ t.mem[b][1] = s.mem[b][1]
    BY <1>1 DEF Shrunk
  <2> QED BY <2>1 DEF NoNameFirst
<1>3. ASSUME NEW x \in L
      PROVE  /\ t.inode[x].mode = s.inode[x].mode
             /\ Slot(t, x, 1) = Slot(s, x, 1)
             /\ ~ IsDir(s, x) => t.inode[x].dentry_count = s.inode[x].dentry_count
  <2>1. p \in Inodes /\ LaidOut(s, p) /\ x \in Inodes
    BY DEF Sound
  <2>2. /\ t.inode[x].mode = s.inode[x].mode
        /\ t.inode[x].ext_block = s.inode[x].ext_block
    BY <2>1 DEF Shrunk
  <2>3. /\ s.inode[x].ext_block \in Blocks \ {DataBlock(s, p)}
        /\ DataBlock(s, x) \in Blocks
    BY BlocksMarked DEF Sound, Apart
  <2>4. DataBlock(t, x) = DataBlock(s, x)
    BY <2>2, <2>3 DEF Shrunk, DataBlock
  <2>5. 1 \in Slots /\ k >= 2 /\ k \in Int
    BY <2>1, LaidOutFacts
  <2>6. t.mem[DataBlock(s, x)][1] = s.mem[DataBlock(s, x)][1]
    BY <2>3, <2>5 DEF Shrunk
  <2>7. ~ IsDir(s, x) => t.inode[x].dentry_count = s.inode[x].dentry_count
    BY <2>1 DEF Shrunk
  <2> QED BY <2>2, <2>4, <2>6, <2>7 DEF Slot
<1> QED BY <1>2, <1>3 DEF Steady

\* ... and one moved.
LEMMA MovedSteady ==
  ASSUME NEW s, NEW t, NEW L \in SUBSET Inodes, Sound(s, L), NEW p \in L, NEW q \in L,
         IsDir(s, p), IsDir(s, q), NEW k \in Listing(s, p), NEW m, Moved(s, t, p, k, q, m)
  PROVE  Steady(s, t, L)
<1>0. p \in Inodes /\ LaidOut(s, p) /\ q \in Inodes /\ LaidOut(s, q)
  BY DEF Sound
<1>1. 0 \in Slots /\ 1 \in Slots /\ k >= 2 /\ k \in Int /\ s.inode[q].dentry_count \notin {0, 1}
  BY <1>0, LaidOutFacts
<1>2. StillNoNames(s, t)
  <2> SUFFICES ASSUME \A b \in Blocks : NoNameFirst(s, b), NEW b \in Blocks
               PROVE  NoNameFirst(t, b)
    BY DEF StillNoNames
  <2>1. t.mem[b][0] = s.mem[b][0] /\ t.mem[b][1] = s.mem[b][1]
    <3>1. CASE b = DataBlock(s, p)
      BY <1>1, <3>1 DEF Moved
    <3>2. CASE b = DataBlock(s, q)
      BY <1>1, <3>2 DEF Moved
    <3>3. CASE b \notin {DataBlock(s, p), DataBlock(s, q)}
      BY <3>3 DEF Moved
    <3> QED BY <3>1, <3>2, <3>3
  <2> QED BY <2>1 DEF NoNameFirst
<1>3. ASSUME NEW x \in L
      PROVE  /\ t.inode[x].mode = s.inode[x].mode
             /\ Slot(t, x, 1) = Slot(s, x, 1)
             /\ ~ IsDir(s, x) => t.inode[x].dentry_count = s.inode[x].dentry_count
  <2>1. p \in Inodes /\ LaidOut(s, p) /\ q \in Inodes /\ LaidOut(s, q) /\ x \in Inodes
    BY DEF Sound
  <2>2. /\ t.inode[x].mode = s.inode[x].mode
        /\ t.inode[x].ext_block = s.inode[x].ext_block
    BY <2>1 DEF Moved
  <2>3. /\ s.inode[x].ext_block \in Blocks \ {DataBlock(s, p), DataBlock(s, q)}
        /\ DataBlock(s, x) \in Blocks
    BY BlocksMarked DEF Sound, Apart
  <2>4. DataBlock(t, x) = DataBlock(s, x)
    BY <2>2, <2>3 DEF Moved, DataBlock
  <2>5. 1 \in Slots /\ k >= 2 /\ k \in Int /\ s.inode[q].dentry_count # 1
    BY <2>1, LaidOutFacts
  <2>6. t.mem[DataBlock(s, x)][1] = s.mem[DataBlock(s, x)][1]
    <3>1. CASE DataBlock(s, x) = DataBlock(s, p)
      BY <2>5, <3>1 DEF Moved
    <3>2. CASE DataBlock(s, x) = DataBlock(s, q)
      BY <2>5, <3>2 DEF Moved
    <3> QED BY <2>3, <3>1, <3>2 DEF Moved
  <2>7. ~ IsDir(s, x) => t.inode[x].dentry_count = s.inode[x].dentry_count
    BY <2>1 DEF Moved
  <2> QED BY <2>2, <2>4, <2>6, <2>7 DEF Slot
<1> QED BY <1>2, <1>3 DEF Steady

-----------------------------------------------------------------------------
(* The calls.                                                              *)

\* The tree of names afterwards, with nodes K, is the one before...
SameTree(K) ==
  /\ EdgeSet(img', K) = EdgeSet(img, Reachable)
  /\ DirSet(img', K) = DirSet(img, Reachable)

\* ... or has one entry more, for a node of the given kind that was not there...
EntryAdded(K, p, n, mode) ==
  /\ \A x \in EdgeSet(img, Reachable) : ~ (x[1] = p /\ x[2] = n)
  /\ \E i \in Inodes \ Reachable :
       /\ EdgeSet(img', K) = EdgeSet(img, Reachable) \cup {<<p, n, i>>}
       /\ DirSet(img', K) = DirSet(img, Reachable) \cup (IF mode = "dir" THEN {i} ELSE {})

\* ... or one less, whose node t had no entries...
EntryTaken(K, p, n, t) ==
  /\ <<p, n, t>> \in EdgeSet(img, Reachable)
  /\ \A x \in EdgeSet(img, Reachable) : x[1] # t
  /\ EdgeSet(img', K) = EdgeSet(img, Reachable) \ {<<p, n, t>>}
  /\ DirSet(img', K) = DirSet(img, Reachable) \ {t}

\* ... or one in place of another, and of what had its name in its directory.
EntryMoved(K, p, n, q, m) ==
  \E t \in Inodes :
    LET old == {o \in EdgeSet(img, Reachable) : o[1] = q /\ o[2] = m}
    IN  /\ <<p, n, t>> \in EdgeSet(img, Reachable)
        /\ q \in DirSet(img, Reachable) \ {p}
        /\ \A o \in old : /\ \A x \in EdgeSet(img, Reachable) : x[1] # o[3]
                          /\ o[3] \in DirSet(img, Reachable) <=> t \in DirSet(img, Reachable)
        /\ EdgeSet(img', K) = (EdgeSet(img, Reachable) \ (old \cup {<<p, n, t>>}))
                               \cup {<<q, m, t>>}
        /\ DirSet(img', K) = DirSet(img, Reachable) \ {o[3] : o \in old}

\* The next state's image is sound, with nodes K, and a node that was not there
\* is an inode that was free.
Sounds(K) ==
  /\ Sound(img', K)
  /\ InodesExact(img', K, hit')
  /\ Backs(img, img', Reachable, K)
  /\ \A x \in K \ Reachable : ret' = "0" /\ x \notin img.inode_bitmap

\* What a call returns is the next state; damage stays.
LEMMA ReturnMeans ==
  ASSUME NEW s, NEW r, NEW branches, Return(s, r, branches), Intact'
  PROVE  /\ img' = s /\ ret' = r /\ hit' = hit \cup branches
         /\ Intact /\ branches \cap Damage = {}
<1>1. img' = s /\ ret' = r /\ hit' = hit \cup branches
  BY DEF Return
<1> QED BY <1>1 DEF Intact, Damage

\* Each handler's returns keep what was noted of earlier ones.
LEMMA MkdirReturns ==
  ASSUME NEW p, NEW n, Mkdir(p, n)
  PROVE  Intact' => Intact
BY DEF Mkdir, NoBlocks, Killed, Return, Intact

LEMMA CreateReturns ==
  ASSUME NEW p, NEW n, Create(p, n)
  PROVE  Intact' => Intact
BY DEF Create, NoBlocks, Killed, Return, Intact

LEMMA RmdirReturns ==
  ASSUME NEW p, NEW n, Rmdir(p, n)
  PROVE  Intact' => Intact
BY DEF Rmdir, Return, Intact

LEMMA UnlinkReturns ==
  ASSUME NEW p, NEW n, Unlink(p, n)
  PROVE  Intact' => Intact
BY DEF Unlink, Return, Intact

LEMMA RenameReturns ==
  ASSUME NEW p, NEW n, NEW q, NEW m, Rename(p, n, q, m)
  PROVE  Intact' => Intact
BY DEF Rename, FinishRename, Return, Intact

\* Damage stays.
LEMMA IntactBefore ==
  ASSUME [Next]_vars, Intact'
  PROVE  Intact
<1>1. CASE UNCHANGED hit
  BY <1>1 DEF Intact
<1> QED BY <1>1, MkdirReturns, CreateReturns, RmdirReturns, UnlinkReturns, RenameReturns
        DEF Next, Remount, Astray, Intact, vars

\* What is known of an intact image's tree, and of the directories in it.
LEMMA SoundImage ==
  ASSUME IInv, SoundInv, Intact
  PROVE  /\ img \in ImageType
         /\ Reachable \in SUBSET Inodes
         /\ Sound(img, Reachable)
         /\ InodesExact(img, Reachable, hit)
BY ReachableMeans DEF IInv, Typed, SoundInv, Reachable

LEMMA SoundDirectory ==
  ASSUME IInv, SoundInv, Intact, NEW p \in Directories
  PROVE  /\ p \in Inodes /\ p \in Reachable /\ IsDir(img, p) /\ LaidOut(img, p)
         /\ p \in DirSet(img, Reachable)
BY SoundImage DEF Directories, Reachable, Sound, DirSet

\* The inode bitmap and its counter when a node comes...
LEMMA InodesGrown ==
  ASSUME NEW s \in ImageType, NEW t, NEW L, NEW h, NEW g, h \subseteq g,
         InodesExact(s, L, h), NEW i \in Inodes \ s.inode_bitmap,
         t.inode_bitmap = s.inode_bitmap \cup {i},
         t.free_inode_count = s.free_inode_count - 1
  PROVE  /\ InodesExact(t, L \cup {i}, g)
         /\ "inode_leak" \in g => InodesExact(t, L, g)
<1> DEFINE b == s.inode_bitmap
<1>1. IsFiniteSet(b) /\ Cardinality(b) \in Nat
  BY BitmapsFinite DEF ImageType
<1>2. Cardinality(b \cup {i}) = Cardinality(b) + 1
  BY <1>1, FS_AddElement
<1>3. "counter_drift" \notin h =>
        s.free_inode_count - 1 = InodeCount - (Cardinality(b) + 1)
  BY <1>1, Sizes DEF InodesExact
<1>4. "counter_drift" \notin g =>
        t.free_inode_count = InodeCount - Cardinality(t.inode_bitmap)
  BY <1>2, <1>3
<1>5. /\ s.free_inode_count \in Int
      /\ s.free_inode_count <= InodeCount - Cardinality(b)
  BY DEF InodesExact, ImageType
<1>6. t.free_inode_count <= InodeCount - Cardinality(t.inode_bitmap)
  BY <1>1, <1>2, <1>5, Sizes
<1> QED BY <1>4, <1>6 DEF InodesExact

\* ... when it goes...
LEMMA InodesShrunk ==
  ASSUME NEW s \in ImageType, NEW t, NEW L, NEW h,
         InodesExact(s, L, h), NEW i \in s.inode_bitmap,
         t.inode_bitmap = s.inode_bitmap \ {i},
         t.free_inode_count = s.free_inode_count + 1
  PROVE  InodesExact(t, L \ {i}, h)
<1> DEFINE b == s.inode_bitmap
<1>1. IsFiniteSet(b) /\ Cardinality(b) \in Nat
  BY BitmapsFinite DEF ImageType
<1>2. Cardinality(b \ {i}) = Cardinality(b) - 1
  BY <1>1, FS_RemoveElement
<1>3. "counter_drift" \notin h =>
        s.free_inode_count + 1 = InodeCount - (Cardinality(b) - 1)
  BY <1>1, Sizes DEF InodesExact
<1>4. "counter_drift" \notin h =>
        t.free_inode_count = InodeCount - Cardinality(t.inode_bitmap)
  BY <1>2, <1>3
<1>5. /\ s.free_inode_count \in Int
      /\ s.free_inode_count <= InodeCount - Cardinality(b)
  BY DEF InodesExact, ImageType
<1>6. t.free_inode_count <= InodeCount - Cardinality(t.inode_bitmap)
  BY <1>1, <1>2, <1>5, Sizes
<1> QED BY <1>4, <1>6 DEF InodesExact

\* ... and when neither changes.
LEMMA InodesSame ==
  ASSUME NEW s \in ImageType, NEW t, NEW L, NEW h, NEW g, h \subseteq g,
         InodesExact(s, L, h), t.inode_bitmap = s.inode_bitmap,
         \/ t.free_inode_count = s.free_inode_count
         \/ t.free_inode_count = s.free_inode_count - 1 /\ "counter_drift" \in g
  PROVE  InodesExact(t, L, g)
<1>1. Cardinality(s.inode_bitmap) \in Nat /\ s.free_inode_count \in Int
  BY BitmapsFinite DEF ImageType
<1> QED BY <1>1, Sizes DEF InodesExact

\* A call that returns with the image as it was.
LEMMA SameSounds ==
  ASSUME IInv, SoundInv, NEW r, NEW branches, Return(img, r, branches), Intact'
  PROVE  ret' = r /\ \E K \in SUBSET Inodes : Sounds(K) /\ SameTree(K)
<1>1. img' = img /\ ret' = r /\ hit' = hit \cup branches /\ Intact
  BY ReturnMeans
<1>2. /\ Reachable \in SUBSET Inodes /\ Sound(img, Reachable)
      /\ InodesExact(img, Reachable, hit) /\ img \in ImageType
  BY <1>1, SoundImage
<1>3. InodesExact(img, Reachable, hit')
  BY <1>1, <1>2, InodesSame
<1>4. Backs(img, img', Reachable, Reachable)
  BY <1>1, SteadySame, SteadyBacks
<1>5. Sounds(Reachable) /\ SameTree(Reachable)
  BY <1>1, <1>2, <1>3, <1>4 DEF Sounds, SameTree
<1> QED BY <1>1, <1>2, <1>5

\* mkdir that finds the inode table full.
LEMMA DriftSounds ==
  ASSUME IInv, SoundInv, Intact',
         Return([img EXCEPT !.free_inode_count = @ - 1], "1", {"counter_drift"})
  PROVE  ret' = "1" /\ \E K \in SUBSET Inodes : Sounds(K) /\ SameTree(K)
<1> DEFINE s == [img EXCEPT !.free_inode_count = @ - 1]
           L == Reachable
<1>1. img' = s /\ ret' = "1" /\ hit' = hit \cup {"counter_drift"} /\ Intact
  BY ReturnMeans
<1>2. /\ L \in SUBSET Inodes /\ Sound(img, L) /\ InodesExact(img, L, hit) /\ Record(img)
      /\ img \in ImageType
  BY <1>1, SoundImage, ImageRecord
<1>3. /\ s.inode = img.inode /\ s.mem = img.mem /\ s.inode_bitmap = img.inode_bitmap
      /\ s.data_bitmap = img.data_bitmap /\ s.free_dblock_count = img.free_dblock_count
      /\ s.free_inode_count = img.free_inode_count - 1
  BY <1>2 DEF Record, Fields
<1> HIDE DEF s, L
<1>4. Sound(s, L) /\ EdgeSet(s, L) = EdgeSet(img, L) /\ DirSet(s, L) = DirSet(img, L)
  BY <1>2, <1>3, SoundSame
<1>5. InodesExact(s, L, hit')
  BY <1>1, <1>2, <1>3, InodesSame
<1>6. Backs(img, s, L, L)
  BY <1>3, SteadySame, SteadyBacks
<1>7. Sounds(L) /\ SameTree(L)
  BY <1>1, <1>4, <1>5, <1>6 DEF Sounds, SameTree, L
<1> QED BY <1>1, <1>2, <1>7

\* mkdir and create that find an inode and no blocks.
LEMMA NoBlocksSounds ==
  ASSUME IInv, SoundInv, Intact', NEW i \in Inodes, NoBlocks(i)
  PROVE  ret' = "1" /\ \E K \in SUBSET Inodes : Sounds(K) /\ SameTree(K)
<1> DEFINE s == TakeInode(img, i)
           L == Reachable
<1>1. Return(s, "1", {"inode_leak"}) /\ i \in Inodes \ img.inode_bitmap
  BY DEF NoBlocks, IsFirstFree, Inodes
<1>2. img' = s /\ ret' = "1" /\ hit' = hit \cup {"inode_leak"} /\ Intact
  BY <1>1, ReturnMeans
<1>3. /\ img \in ImageType /\ L \in SUBSET Inodes /\ Sound(img, L)
      /\ InodesExact(img, L, hit) /\ Record(img)
  BY <1>2, SoundImage, ImageRecord
<1>4. s = SetInodeBits(img, img.inode_bitmap \cup {i}, img.free_inode_count - 1)
  BY <1>3 DEF Record, Fields, TakeInode, SetInodeBits
<1>5. /\ s.inode = img.inode /\ s.mem = img.mem
      /\ s.inode_bitmap = img.inode_bitmap \cup {i}
      /\ s.data_bitmap = img.data_bitmap
      /\ s.free_inode_count = img.free_inode_count - 1
      /\ s.free_dblock_count = img.free_dblock_count
  BY <1>3, <1>4, BitmapsSet
<1> HIDE DEF s, L
<1>6. Sound(s, L) /\ EdgeSet(s, L) = EdgeSet(img, L) /\ DirSet(s, L) = DirSet(img, L)
  BY <1>3, <1>5, SoundSame
<1>7. InodesExact(s, L, hit')
  BY <1>1, <1>2, <1>3, <1>5, InodesGrown
<1>8. Backs(img, s, L, L)
  BY <1>5, SteadySame, SteadyBacks
<1>9. Sounds(L) /\ SameTree(L)
  BY <1>2, <1>6, <1>7, <1>8 DEF Sounds, SameTree, L
<1> QED BY <1>2, <1>3, <1>9

\* mkdir and create that succeed, in a directory with room in its block.
LEMMA GrownSounds ==
  ASSUME IInv, SoundInv, Intact', NEW p \in Directories, NEW n \in Names, MayAdd(p, n),
         NEW mode \in {"file", "dir"},
         NEW i \in Inodes, NEW e \in DBits, NEW d \in DBits, Found(i, e, d),
         NEW s, Grown(img, s, p, n, mode, i, e, d),
         mode = "dir" => s.mem[Block(d)][1] = Dentry(p, ".."),
         img.inode[p].dentry_count < DentriesPerBlock,
         NEW branches, Return(s, "0", branches)
  PROVE  ret' = "0" /\ \E K \in SUBSET Inodes : Sounds(K) /\ EntryAdded(K, p, n, mode)
<1> DEFINE L == Reachable
           K == L \cup {i}
<1>1. img' = s /\ ret' = "0" /\ hit' = hit \cup branches /\ Intact
  BY ReturnMeans
<1>2. img \in ImageType /\ L \in SUBSET Inodes /\ Sound(img, L) /\ InodesExact(img, L, hit)
  BY <1>1, SoundImage
<1>3. p \in Inodes /\ p \in L /\ IsDir(img, p) /\ LaidOut(img, p) /\ p \in DirSet(img, L)
  BY <1>1, SoundDirectory
<1>4. /\ i \in Inodes \ img.inode_bitmap
      /\ e \in DBits \ img.data_bitmap /\ d \in DBits \ img.data_bitmap /\ e # d
  BY DEF Found, IsFirstFree
<1>5. ASSUME NEW k \in Listing(img, p)
      PROVE  Slot(img, p, k).tail # n
  <2>1. k \in 0 .. img.inode[p].dentry_count - 1 /\ DentryAt(img, p, k) = Slot(img, p, k)
    BY <1>3, EdgeMatched
  <2> QED BY <2>1 DEF MayAdd, Holds
<1> HIDE DEF L
<1>6. /\ Sound(s, K)
      /\ EdgeSet(s, K) = EdgeSet(img, L) \cup {<<p, n, i>>}
      /\ DirSet(s, K) = DirSet(img, L) \cup (IF mode = "dir" THEN {i} ELSE {})
      /\ Backs(img, s, L, K)
  <2>1. MayGrow(img, L, p, n, mode, i, e, d)
    BY <1>2, <1>3, <1>4, <1>5 DEF MayGrow
  <2>2. HasGrown(img, s, L, p, n, mode, i)
    BY <2>1, SoundGrown
  <2>3. Backs(img, s, L, K)
    BY <2>1, GrownBacks
  <2> QED BY <2>2, <2>3 DEF HasGrown
<1>7. InodesExact(s, K, hit')
  BY <1>1, <1>2, <1>4, InodesGrown DEF Grown
<1>8. EntryAdded(K, p, n, mode)
  <2>1. ASSUME NEW x \in EdgeSet(img, L), x[1] = p, x[2] = n
        PROVE  FALSE
    <3>1. PICK k \in Listing(img, p) : x = Edge(img, p, k)
      BY <2>1, EdgeOrigin
    <3> QED BY <1>5, <2>1, <3>1 DEF Edge
  <2>2. i \in Inodes \ L
    BY <1>2, <1>4 DEF Sound
  <2> QED BY <1>1, <1>6, <2>1, <2>2 DEF EntryAdded, L
<1>9. \A x \in K \ L : ret' = "0" /\ x \notin img.inode_bitmap
  BY <1>1, <1>4
<1>10. Sounds(K)
  BY <1>1, <1>6, <1>7, <1>9 DEF Sounds, L
<1>11. K \in SUBSET Inodes
  BY <1>2
<1> QED BY <1>1, <1>8, <1>10, <1>11

\* A directory that has room in its block, and the blocks of a new node.
LEMMA RoomFacts ==
  ASSUME IInv, SoundInv, Intact, NEW p \in Directories,
         NEW i \in Inodes, NEW e \in DBits, NEW d \in DBits, Found(i, e, d),
         Overrun(img.inode[p].dentry_count) \cap Damage = {}
  PROVE  /\ p \in Inodes /\ i # p /\ e # d
         /\ img.inode[p].dentry_count < DentriesPerBlock
         /\ img.inode[p].dentry_count \in Slots
         /\ DataBlock(img, p) \in Blocks \ {Block(e), Block(d)}
<1>1. img.inode[p].dentry_count < DentriesPerBlock
  BY DEF Overrun, Damage
<1>2. p \in Inodes /\ p \in Reachable /\ LaidOut(img, p) /\ Sound(img, Reachable)
  BY SoundDirectory, SoundImage
<1>3. img.inode[p].dentry_count \in Slots
  BY <1>1, <1>2, LaidOutFacts, Sizes DEF Slots
<1>4. DataBlock(img, p) \in Blocks /\ Bit(DataBlock(img, p)) \in img.data_bitmap
      /\ p \in img.inode_bitmap
  BY <1>2, BlocksMarked
<1>5. i \notin img.inode_bitmap /\ e \notin img.data_bitmap /\ d \notin img.data_bitmap /\ e # d
  BY DEF Found, IsFirstFree
<1>6. DataBlock(img, p) \notin {Block(e), Block(d)}
  BY <1>4, <1>5, BitsOfBlocks
<1> QED BY <1>1, <1>2, <1>3, <1>4, <1>5, <1>6

\* Every return of mkdir.
LEMMA MkdirSounds ==
  ASSUME IInv, SoundInv, Intact', NEW p \in Directories, NEW n \in Names, Mkdir(p, n)
  PROVE  /\ Intact
         /\ \E K \in SUBSET Inodes :
              /\ Sounds(K)
              /\ \/ ret' = "1" /\ SameTree(K)
                 \/ ret' = "0" /\ EntryAdded(K, p, n, "dir")
<1> DEFINE c == img.inode[p].dentry_count
<1>1. CASE Return([img EXCEPT !.free_inode_count = @ - 1], "1", {"counter_drift"})
  BY <1>1, DriftSounds, MkdirReturns
<1>2. CASE \E i \in Inodes : NoBlocks(i)
  BY <1>2, NoBlocksSounds, MkdirReturns
<1>3. CASE Killed(p, "dir")
  <2>1. PICK s : Return(s, "SIGSEGV", {"overrun"})
    BY <1>3 DEF Killed
  <2> QED BY <2>1, ReturnMeans DEF Damage
<1>4. ASSUME NEW i \in Inodes, NEW e \in DBits, NEW d \in DBits, Found(i, e, d),
             Return(AddDots(WithFile(p, n, "dir", i, e, d), d, i, DentryAt(img, p, 0).word),
                    "0", Overrun(c))
      PROVE  ret' = "0" /\ \E K \in SUBSET Inodes : Sounds(K) /\ EntryAdded(K, p, n, "dir")
  <2> DEFINE up == DentryAt(img, p, 0).word
             s == AddDots(WithFile(p, n, "dir", i, e, d), d, i, up)
  <2>1. Intact /\ Overrun(c) \cap Damage = {}
    BY <1>4, ReturnMeans
  <2>2. /\ p \in Inodes /\ i # p /\ e # d
        /\ img.inode[p].dentry_count < DentriesPerBlock
        /\ img.inode[p].dentry_count \in Slots
        /\ DataBlock(img, p) \in Blocks \ {Block(e), Block(d)}
    BY <1>4, <2>1, RoomFacts
  <2>3. up = p /\ img \in ImageType
    <3>1. LaidOut(img, p) /\ IsDir(img, p) /\ img \in ImageType
      BY <2>1, SoundDirectory, SoundImage
    <3>2. DentryAt(img, p, 0) = Dentry(p, ".")
      BY <2>2, <3>1, LaidOutFacts DEF LaidOut, Listed
    <3> QED BY <3>1, <3>2 DEF Dentry
  <2>4. up \in Inodes
    BY <2>2, <2>3
  <2> HIDE DEF up
  <2>5. Grown(img, s, p, n, "dir", i, e, d) /\ s.mem[Block(d)][1] = Dentry(p, "..")
    BY <2>2, <2>3, <2>4, WithDirShape
  <2>6. Return(s, "0", Overrun(c)) /\ MayAdd(p, n)
    BY <1>4 DEF up, Mkdir
  <2> HIDE DEF s
  <2> QED BY <1>4, <2>2, <2>5, <2>6, GrownSounds
<1>5. Intact
  BY MkdirReturns
<1> QED BY <1>1, <1>2, <1>3, <1>4, <1>5, FoundByFirst DEF Mkdir

\* Every return of create.
LEMMA CreateSounds ==
  ASSUME IInv, SoundInv, Intact', NEW p \in Directories, NEW n \in Names, Create(p, n)
  PROVE  /\ Intact
         /\ \E K \in SUBSET Inodes :
              /\ Sounds(K)
              /\ \/ ret' = "1" /\ SameTree(K)
                 \/ ret' = "0" /\ EntryAdded(K, p, n, "file")
<1> DEFINE c == img.inode[p].dentry_count
<1>1. CASE Return(img, "1", {})
  BY <1>1, SameSounds, CreateReturns
<1>2. CASE \E i \in Inodes : NoBlocks(i)
  BY <1>2, NoBlocksSounds, CreateReturns
<1>3. CASE Killed(p, "file")
  <2>1. PICK s : Return(s, "SIGSEGV", {"overrun"})
    BY <1>3 DEF Killed
  <2> QED BY <2>1, ReturnMeans DEF Damage
<1>4. ASSUME NEW i \in Inodes, NEW e \in DBits, NEW d \in DBits, Found(i, e, d),
             Return(WithFile(p, n, "file", i, e, d), "0", Overrun(c))
      PROVE  ret' = "0" /\ \E K \in SUBSET Inodes : Sounds(K) /\ EntryAdded(K, p, n, "file")
  <2> DEFINE s == WithFile(p, n, "file", i, e, d)
  <2>1. Intact /\ Overrun(c) \cap Damage = {}
    BY <1>4, ReturnMeans
  <2>2. /\ p \in Inodes /\ i # p /\ e # d
        /\ img.inode[p].dentry_count < DentriesPerBlock
        /\ img.inode[p].dentry_count \in Slots
        /\ DataBlock(img, p) \in Blocks \ {Block(e), Block(d)}
    BY <1>4, <2>1, RoomFacts
  <2>3. img \in ImageType
    BY <2>1, SoundImage
  <2>4. Grown(img, s, p, n, "file", i, e, d)
    BY <2>2, <2>3, WithFileShape
  <2>5. MayAdd(p, n)
    BY DEF Create
  <2> HIDE DEF s
  <2> QED BY <1>4, <2>2, <2>4, <2>5, GrownSounds DEF s
<1>5. Intact
  BY CreateReturns
<1> QED BY <1>1, <1>2, <1>3, <1>4, <1>5, FoundByFirst DEF Create

\* The entry a scan stops at is an edge of the tree.
LEMMA EntryEdge ==
  ASSUME IInv, SoundInv, Intact, NEW p \in Directories, NEW n \in Names,
         NEW k, NEW t, EntryIs(p, n, k, t)
  PROVE  /\ k \in Listing(img, p)
         /\ Slot(img, p, k).word = t /\ Edge(img, p, k) = <<p, n, t>>
         /\ <<p, n, t>> \in EdgeSet(img, Reachable)
         /\ t \in Reachable /\ t \in Inodes
<1>1. p \in Reachable /\ p \in Inodes /\ IsDir(img, p) /\ LaidOut(img, p)
  BY SoundDirectory
<1>2. /\ k \in 0 .. img.inode[p].dentry_count - 1
      /\ DentryAt(img, p, k).tail = n /\ DentryAt(img, p, k).word = t
  BY DEF EntryIs, IsAt
<1>3. k \in Listing(img, p) /\ Edge(img, p, k) = <<p, n, t>> /\ Edge(img, p, k) \in EdgesOf(img, p)
  BY <1>1, <1>2, NameAt
<1>4. Slot(img, p, k).word = t
  BY <1>1, <1>2, <1>3, EdgeMatched
<1>5. <<p, n, t>> \in EdgeSet(img, Reachable)
  BY <1>1, <1>3 DEF EdgeSet
<1>6. t \in Reachable
  BY <1>5, SoundImage DEF Sound, Graph
<1> QED BY <1>3, <1>4, <1>5, <1>6, SoundImage

\* What the image s is when the node t, named n in directory p, is gone.
Removed(s, p, n, t) ==
  /\ s \in ImageType
  /\ Sound(s, Reachable \ {t})
  /\ EdgeSet(s, Reachable \ {t}) = EdgeSet(img, Reachable) \ {<<p, n, t>>}
  /\ DirSet(s, Reachable \ {t}) = DirSet(img, Reachable) \ {t}
  /\ InodesExact(s, Reachable \ {t}, hit)
  /\ <<p, n, t>> \in EdgeSet(img, Reachable)
  /\ t \in Reachable \ {p}
  /\ \A x \in EdgeSet(img, Reachable) : x[1] # t
  /\ Steady(img, s, Reachable)

\* rmdir and unlink from where the target is known to go: a file, or an empty
\* directory.
LEMMA RemoveSound ==
  ASSUME IInv, SoundInv, Intact, NEW p \in Directories, NEW n \in Names,
         NEW k, NEW t, EntryIs(p, n, k, t),
         IsDir(img, t) => img.inode[t].dentry_count <= 2
  PROVE  Removed(Remove(img, p, k), p, n, t)
<1> DEFINE L == Reachable
           s == Remove(img, p, k)
<1>1. /\ img \in ImageType /\ L \in SUBSET Inodes /\ Sound(img, L)
      /\ InodesExact(img, L, hit)
  BY SoundImage
<1>2. p \in L /\ p \in Inodes /\ IsDir(img, p) /\ LaidOut(img, p)
  BY SoundDirectory
<1>3. /\ k \in Listing(img, p)
      /\ Slot(img, p, k).word = t /\ Edge(img, p, k) = <<p, n, t>>
      /\ <<p, n, t>> \in EdgeSet(img, L)
      /\ t \in L /\ t \in Inodes
  BY EntryEdge
<1>4. EdgesOf(img, t) = {}
  <2>1. LaidOut(img, t)
    BY <1>1, <1>3 DEF Sound
  <2>2. img.inode[t].dentry_count \in Nat
    BY <2>1, <1>3, LaidOutFacts
  <2>3. Listing(img, t) = {}
    BY <2>2 DEF Listing
  <2> QED BY <2>3 DEF EdgesOf
<1>5. s \in ImageType
  <2>1. /\ Good(img) /\ Readable(img, p) /\ img.inode[p].dentry_count < 2 * DentriesPerBlock
    BY <1>2, GoodImage, DirectoryReadable
  <2>2. /\ k \in 0 .. img.inode[p].dentry_count - 1
        /\ DentryAt(img, p, k).tail \in Names
        /\ Readable(img, DentryAt(img, p, k).word)
    BY DEF EntryIs, IsAt
  <2>3. Good(s)
    BY <1>2, <2>1, <2>2, RemoveKeeps
  <2> QED BY <2>3 DEF Good
<1>6. Shrunk(img, s, p, k)
  BY <1>1, <1>2, <1>3, RemoveIsShrunk
<1> HIDE DEF s, L
<1>7. HasShrunk(img, s, L, p, k)
  <2>1. MayShrink(img, L, p, k)
    BY <1>1, <1>2, <1>3, <1>4 DEF MayShrink
  <2> QED BY <1>6, <2>1, SoundShrunk
<1>8. /\ Sound(s, L \ {t})
      /\ EdgeSet(s, L \ {t}) = EdgeSet(img, L) \ {<<p, n, t>>}
      /\ DirSet(s, L \ {t}) = DirSet(img, L) \ {t}
      /\ t \in L \ {p}
  BY <1>3, <1>7 DEF HasShrunk
<1>9. InodesExact(s, L \ {t}, hit)
  <2>1. t \in img.inode_bitmap
    BY <1>1, <1>3 DEF Sound
  <2>2. /\ s.inode_bitmap = img.inode_bitmap \ {t}
        /\ s.free_inode_count = img.free_inode_count + 1
    BY <1>3, <1>6 DEF Shrunk
  <2> QED BY <1>1, <2>1, <2>2, InodesShrunk
<1>10. \A x \in EdgeSet(img, L) : x[1] # t
  BY <1>4, EdgeOrigin
<1>11. Steady(img, s, L)
  BY <1>1, <1>2, <1>3, <1>6, ShrunkSteady
<1> QED BY <1>3, <1>5, <1>8, <1>9, <1>10, <1>11 DEF Removed, s, L

\* A call that returns so.
LEMMA RemovedSounds ==
  ASSUME IInv, SoundInv, Intact', NEW p \in Directories, NEW n \in Names,
         NEW k, NEW t, EntryIs(p, n, k, t),
         IsDir(img, t) => img.inode[t].dentry_count <= 2,
         Return(Remove(img, p, k), "0", {})
  PROVE  ret' = "0" /\ \E K \in SUBSET Inodes : Sounds(K) /\ EntryTaken(K, p, n, t)
<1> DEFINE s == Remove(img, p, k)
           L == Reachable
           K == L \ {t}
<1>1. img' = s /\ ret' = "0" /\ hit' = hit /\ Intact
  BY ReturnMeans
<1>2. Removed(s, p, n, t) /\ L \in SUBSET Inodes
  BY <1>1, RemoveSound, SoundImage
<1> HIDE DEF s
<1>3. EntryTaken(K, p, n, t)
  BY <1>1, <1>2 DEF Removed, EntryTaken
<1>4. Backs(img, s, L, K)
  <2>1. Steady(img, s, K)
    BY <1>2 DEF Removed, Steady
  <2> QED BY <2>1, SteadyBacks
<1>5. Sounds(K)
  BY <1>1, <1>2, <1>4 DEF Sounds, Removed
<1>6. K \in SUBSET Inodes
  BY <1>2
<1> QED BY <1>1, <1>3, <1>5, <1>6

\* Every return of rmdir.
LEMMA RmdirSounds ==
  ASSUME IInv, SoundInv, Intact', NEW p \in Directories, NEW n \in Names, Rmdir(p, n)
  PROVE  /\ Intact
         /\ \E K \in SUBSET Inodes, t \in DirSet(img, Reachable) :
              /\ Sounds(K) /\ <<p, n, t>> \in EdgeSet(img, Reachable)
              /\ \/ /\ ret' = "-ENOTEMPTY" /\ SameTree(K)
                    /\ \E x \in EdgeSet(img, Reachable) : x[1] = t
                 \/ ret' = "0" /\ EntryTaken(K, p, n, t)
<1>1. PICK k \in 0 .. img.inode[p].dentry_count - 1, t \in Inodes :
        /\ EntryIs(p, n, k, t)
        /\ IsDir(img, t)
        /\ \/ img.inode[t].dentry_count > 2 /\ Return(img, "-ENOTEMPTY", {})
           \/ /\ img.inode[t].dentry_count <= 2
              /\ LET s == Remove(img, p, k) IN Return(s, "0", {})
  BY DEF Rmdir
<1>2. Intact
  BY RmdirReturns
<1>3. <<p, n, t>> \in EdgeSet(img, Reachable) /\ t \in DirSet(img, Reachable)
  BY <1>1, <1>2, EntryEdge DEF DirSet
<1>4. CASE img.inode[t].dentry_count > 2 /\ Return(img, "-ENOTEMPTY", {})
  <2>1. img.inode[t].dentry_count \in Int
    BY DEF IInv, Typed
  <2>2. 2 \in Listing(img, t)
    BY <1>1, <1>4, <2>1 DEF Listing
  <2>3. Edge(img, t, 2) \in EdgeSet(img, Reachable) /\ Edge(img, t, 2)[1] = t
    BY <1>3, <2>2 DEF EdgeSet, EdgesOf, Edge, DirSet
  <2>4. \E x \in EdgeSet(img, Reachable) : x[1] = t
    BY <2>3
  <2>5. ret' = "-ENOTEMPTY" /\ \E K \in SUBSET Inodes : Sounds(K) /\ SameTree(K)
    BY <1>4, SameSounds
  <2> QED BY <1>2, <1>3, <2>4, <2>5
<1>5. CASE img.inode[t].dentry_count <= 2 /\ Return(Remove(img, p, k), "0", {})
  BY <1>1, <1>2, <1>3, <1>5, RemovedSounds
<1> QED BY <1>1, <1>4, <1>5

\* Every return of unlink.
LEMMA UnlinkSounds ==
  ASSUME IInv, SoundInv, Intact', NEW p \in Directories, NEW n \in Names, Unlink(p, n)
  PROVE  /\ Intact
         /\ \E K \in SUBSET Inodes, t \in Inodes \ DirSet(img, Reachable) :
              Sounds(K) /\ ret' = "0" /\ EntryTaken(K, p, n, t)
<1>1. PICK k \in 0 .. img.inode[p].dentry_count - 1, t \in Inodes :
        /\ EntryIs(p, n, k, t)
        /\ ~ IsDir(img, t)
        /\ LET s == Remove(img, p, k) IN Return(s, "0", {})
  BY DEF Unlink
<1>2. Intact
  BY UnlinkReturns
<1>3. t \in Inodes \ DirSet(img, Reachable)
  BY <1>1 DEF DirSet
<1> QED BY <1>1, <1>2, <1>3, RemovedSounds

\* An edge's name is found in its directory.
LEMMA EdgeHolds ==
  ASSUME NEW s, NEW L \in SUBSET Inodes, Sound(s, L), NEW p, NEW n, NEW t,
         <<p, n, t>> \in EdgeSet(s, L)
  PROVE  Holds(s, p, n)
<1>1. <<p, n, t>>[1] = p
  OBVIOUS
<1>2. p \in L /\ IsDir(s, p) /\ \E k \in Listing(s, p) : <<p, n, t>> = Edge(s, p, k)
  BY <1>1, EdgeOrigin
<1>3. PICK k \in Listing(s, p) : <<p, n, t>> = Edge(s, p, k)
  BY <1>2
<1>4. p \in Inodes /\ LaidOut(s, p)
  BY <1>2 DEF Sound
<1>5. k \in 0 .. s.inode[p].dentry_count - 1 /\ DentryAt(s, p, k) = Slot(s, p, k)
  BY <1>2, <1>4, EdgeMatched
<1> QED BY <1>3, <1>5 DEF Holds, Edge

\* What the second half of rename starts from: an image s whose tree has the
\* node t, named n in p, and nothing named m in q.
MayFinish(s, L, p, n, t, q, m, T) ==
  /\ s \in ImageType /\ L \in SUBSET Inodes /\ Sound(s, L) /\ InodesExact(s, L, hit)
  /\ p \in L /\ IsDir(s, p) /\ q \in L /\ IsDir(s, q) /\ n \in Names /\ m \in Names
  /\ <<p, n, t>> \in EdgeSet(s, L)
  /\ \A x \in EdgeSet(s, L) : ~ (x[1] = q /\ x[2] = m)
  /\ T \in SUBSET Inodes /\ t \in T /\ q \notin T
  /\ \A x \in EdgeSet(s, L) : x[1] \in T => x[3] \in T

\* ... and what it leaves.
Finished(s, L, p, n, t, q, m) ==
  /\ p # q /\ ret' = "0"
  /\ Sound(img', L)
  /\ EdgeSet(img', L) = (EdgeSet(s, L) \ {<<p, n, t>>}) \cup {<<q, m, t>>}
  /\ DirSet(img', L) = DirSet(s, L)
  /\ InodesExact(img', L, hit')
  /\ Steady(s, img', L)

\* The second half of rename, from where it finds the old entry.
LEMMA MoveSound ==
  ASSUME NEW s, NEW L, NEW p, NEW n, NEW t, NEW q, NEW m, NEW T,
         MayFinish(s, L, p, n, t, q, m, T), p # q,
         s.inode[q].dentry_count < DentriesPerBlock,
         NEW k \in 0 .. s.inode[p].dentry_count - 1, IsAt(s, p, n, k),
         NEW branches, Return(Move(s, p, k, q, m), "0", branches)
  PROVE  Finished(s, L, p, n, t, q, m)
<1> DEFINE new == Move(s, p, k, q, m)
<1>1. /\ s \in ImageType /\ L \in SUBSET Inodes /\ Sound(s, L) /\ InodesExact(s, L, hit)
      /\ p \in L /\ IsDir(s, p) /\ q \in L /\ IsDir(s, q) /\ n \in Names /\ m \in Names
      /\ <<p, n, t>> \in EdgeSet(s, L)
      /\ \A x \in EdgeSet(s, L) : ~ (x[1] = q /\ x[2] = m)
      /\ T \in SUBSET Inodes /\ t \in T /\ q \notin T
      /\ \A x \in EdgeSet(s, L) : x[1] \in T => x[3] \in T
  BY DEF MayFinish
<1>2. p \in Inodes /\ q \in Inodes /\ LaidOut(s, p) /\ LaidOut(s, q) /\ Graph(EdgeSet(s, L), L)
  BY <1>1 DEF Sound
<1>3. /\ k \in Listing(s, p)
      /\ Edge(s, p, k) \in EdgesOf(s, p) /\ Edge(s, p, k)[1] = p /\ Edge(s, p, k)[2] = n
  <2>1. DentryAt(s, p, k).tail = n
    BY DEF IsAt
  <2>2. /\ k \in Listing(s, p) /\ Edge(s, p, k) \in EdgesOf(s, p)
        /\ Edge(s, p, k) = <<p, n, DentryAt(s, p, k).word>>
    BY <1>1, <1>2, <2>1, NameAt
  <2> QED BY <2>2
<1>4. Edge(s, p, k) = <<p, n, t>> /\ Slot(s, p, k).word = t
  <2>1. Edge(s, p, k) \in EdgeSet(s, L)
    BY <1>1, <1>3 DEF EdgeSet
  <2>2. <<p, n, t>>[1] = p /\ <<p, n, t>>[2] = n
    OBVIOUS
  <2>3. Edge(s, p, k) = <<p, n, t>>
    BY <1>1, <1>2, <1>3, <2>1, <2>2 DEF Graph
  <2> QED BY <2>3 DEF Edge
<1>5. t \in Inodes
  BY <1>1
<1>6. DataBlock(s, q) # DataBlock(s, p)
  BY <1>1 DEF Sound, Apart
<1>7. Moved(s, new, p, k, q, m)
  BY <1>1, <1>2, <1>3, <1>4, <1>5, <1>6, MoveIsMoved
<1>8. MayMove(s, L, p, k, q, m, T)
  <2>1. ASSUME NEW l \in Listing(s, q), Slot(s, q, l).tail = m
        PROVE  FALSE
    <3>1. Edge(s, q, l) \in EdgeSet(s, L) /\ Edge(s, q, l)[1] = q /\ Edge(s, q, l)[2] = m
      BY <1>1, <2>1 DEF Edge, EdgesOf, EdgeSet
    <3> QED BY <1>1, <3>1
  <2> QED BY <1>1, <1>3, <1>4, <2>1 DEF MayMove
<1> HIDE DEF new
<1>9. HasMoved(s, new, L, p, k, q, m)
  BY <1>7, <1>8, SoundMoved
<1>10. img' = new /\ ret' = "0" /\ hit \subseteq hit'
  BY DEF Return, new
<1>11. InodesExact(new, L, hit')
  BY <1>1, <1>7, <1>10, InodesSame DEF Moved
<1>12. Steady(s, new, L)
  BY <1>1, <1>3, <1>7, MovedSteady
<1> QED BY <1>4, <1>9, <1>10, <1>11, <1>12 DEF HasMoved, Finished

\* The second half of rename, when it does no damage.
LEMMA FinishSound ==
  ASSUME NEW s, NEW L, NEW p, NEW n, NEW t, NEW q, NEW m, NEW T,
         MayFinish(s, L, p, n, t, q, m, T), Intact',
         NEW branches, FinishRename(s, p, n, q, m, branches)
  PROVE  Finished(s, L, p, n, t, q, m)
<1> DEFINE c == s.inode[q].dentry_count
           here == IF p = q THEN {"in_place"} ELSE {}
<1>1. Holds(s, p, n)
  BY EdgeHolds DEF MayFinish
<1>2. CASE Return(s, "SIGSEGV", branches \cup {"overrun"})
  BY <1>2, ReturnMeans DEF Damage
<1>3. ASSUME NEW k \in 0 .. s.inode[p].dentry_count - 1, IsAt(s, p, n, k),
             Return(Move(s, p, k, q, m), "0", branches \cup Overrun(c) \cup here)
      PROVE  Finished(s, L, p, n, t, q, m)
  <2>1. (branches \cup Overrun(c) \cup here) \cap Damage = {}
    BY <1>3, ReturnMeans
  <2>2. p # q
    BY <2>1 DEF Damage
  <2>3. c < DentriesPerBlock
    BY <2>1 DEF Damage, Overrun
  <2> QED BY <1>3, <2>2, <2>3, MoveSound
<1> QED BY <1>1, <1>2, <1>3 DEF FinishRename

\* Whatever it returns, it remembers the branches it was given.
LEMMA FinishRemembers ==
  ASSUME NEW s, NEW p, NEW n, NEW q, NEW m, NEW branches,
         FinishRename(s, p, n, q, m, branches)
  PROVE  branches \subseteq hit'
BY DEF FinishRename, Return

\* The nodes from t downwards.
LEMMA Below ==
  ASSUME IInv, SoundInv, Intact, NEW t \in Reachable, NEW q \in Directories,
         IsDir(img, t) => q \notin ReachableFrom(img, t)
  PROVE  \E T \in SUBSET Inodes :
           /\ t \in T /\ q \notin T
           /\ \A x \in EdgeSet(img, Reachable) : x[1] \in T => x[3] \in T
<1>1. Reachable \in SUBSET Inodes /\ \A d \in Reachable : LaidOut(img, d)
  BY SoundImage DEF Sound
<1>2. CASE IsDir(img, t)
  <2> DEFINE T == ReachableFrom(img, t)
  <2>1. T \in SUBSET Inodes /\ t \in T
    BY <1>1, ReachableMeans
  <2>2. ASSUME NEW x \in EdgeSet(img, Reachable), x[1] \in T
        PROVE  x[3] \in T
    <3>1. <<x[1], x[3]>> \in Steps(img)
      BY <1>1, EdgeIsStep
    <3>2. x[3] \in Inodes
      BY SoundImage DEF Sound, Graph
    <3>3. ASSUME NEW R \in SUBSET Inodes,
                 t \in R, \A e \in Steps(img) : e[1] \in R => e[2] \in R
          PROVE  x[3] \in R
      <4>1. x[1] \in R
        BY <2>2, <3>3, ReachableMeans
      <4> QED BY <3>1, <3>3, <4>1
    <3> QED BY <3>2, <3>3, ReachableMeans
  <2> QED BY <1>2, <2>1, <2>2
<1>3. CASE ~ IsDir(img, t)
  <2>1. \A x \in EdgeSet(img, Reachable) : x[1] # t
    BY <1>3, EdgeOrigin
  <2>2. IsDir(img, q)
    BY DirectoryReadable
  <2>3. q \notin {t} /\ {t} \in SUBSET Inodes
    BY <1>1, <1>3, <2>2
  <2> QED BY <2>1, <2>3
<1> QED BY <1>2, <1>3

\* rename to a name that is not there.
LEMMA RenameNewSounds ==
  ASSUME IInv, SoundInv, Intact', NEW p \in Directories, NEW n \in Names,
         NEW q \in Directories, NEW m \in Names,
         NEW k, NEW t, EntryIs(p, n, k, t), IsDir(img, t) => q \notin ReachableFrom(img, t),
         \A j \in 0 .. img.inode[q].dentry_count - 1 : IsAt(img, q, m, j) => j = 0,
         FinishRename(img, p, n, q, m, {})
  PROVE  ret' = "0" /\ \E K \in SUBSET Inodes : Sounds(K) /\ EntryMoved(K, p, n, q, m)
<1> DEFINE L == Reachable
           E == EdgeSet(img, L)
<1>0. Intact
  BY DEF FinishRename, Return, Intact
<1>1. /\ img \in ImageType /\ L \in SUBSET Inodes /\ Sound(img, L)
      /\ InodesExact(img, L, hit)
  BY <1>0, SoundImage
<1>2. /\ p \in L /\ IsDir(img, p) /\ q \in L /\ q \in Inodes /\ IsDir(img, q)
      /\ LaidOut(img, q) /\ q \in DirSet(img, L)
  BY <1>0, SoundDirectory
<1>3. <<p, n, t>> \in E /\ t \in L
  BY <1>0, EntryEdge
<1>4. ASSUME NEW x \in E, x[1] = q, x[2] = m
      PROVE  FALSE
  <2>1. PICK j \in Listing(img, q) : x = Edge(img, q, j)
    BY <1>4, EdgeOrigin
  <2>2. j \in 0 .. img.inode[q].dentry_count - 1 /\ DentryAt(img, q, j).tail = m
    BY <1>2, <1>4, <2>1, EdgeMatched DEF Edge
  <2>3. IsAt(img, q, m, j) /\ j >= 2
    BY <1>2, <2>2, NameAt
  <2> QED BY <2>2, <2>3
<1>5. PICK T \in SUBSET Inodes :
        t \in T /\ q \notin T /\ \A x \in E : x[1] \in T => x[3] \in T
  BY <1>0, <1>3, Below
<1>6. Finished(img, L, p, n, t, q, m)
  <2>1. MayFinish(img, L, p, n, t, q, m, T)
    BY <1>1, <1>2, <1>3, <1>4, <1>5 DEF MayFinish
  <2> QED BY <2>1, FinishSound
<1>7. EntryMoved(L, p, n, q, m)
  <2> DEFINE e == <<p, n, t>>
             old == {o \in E : o[1] = q /\ o[2] = m}
  <2>1. old = {} /\ e \in E /\ t \in Inodes
    BY <1>1, <1>3, <1>4
  <2>2. q # p /\ EdgeSet(img', L) = (E \ (old \cup {e})) \cup {<<q, m, t>>}
    BY <1>6, <2>1 DEF Finished
  <2>3. DirSet(img', L) = DirSet(img, L) \ {o[3] : o \in old}
    BY <1>6, <2>1 DEF Finished
  <2> QED BY <1>2, <2>1, <2>2, <2>3 DEF EntryMoved
<1>8. Backs(img, img', L, L)
  BY <1>6, SteadyBacks DEF Finished
<1>9. Sounds(L) /\ ret' = "0"
  BY <1>6, <1>8 DEF Sounds, Finished
<1> QED BY <1>1, <1>7, <1>9

\* rename that takes out an empty directory or a file first.
LEMMA RenameOverSounds ==
  ASSUME IInv, SoundInv, Intact', NEW p \in Directories, NEW n \in Names,
         NEW q \in Directories, NEW m \in Names,
         NEW k, NEW t, EntryIs(p, n, k, t), IsDir(img, t) => q \notin ReachableFrom(img, t),
         NEW j, NEW u, EntryIs(q, m, j, u), IsDir(img, u) <=> IsDir(img, t),
         p \notin ReachableFrom(img, u), <<p, n>> # <<q, m>>,
         IsDir(img, u) => img.inode[u].dentry_count <= 2,
         FinishRename(Remove(img, q, j), p, n, q, m, {})
  PROVE  ret' = "0" /\ \E K \in SUBSET Inodes : Sounds(K) /\ EntryMoved(K, p, n, q, m)
<1> DEFINE L == Reachable
           K == L \ {u}
           E == EdgeSet(img, L)
           s == Remove(img, q, j)
           gone == <<q, m, u>>
<1>0. Intact
  BY DEF FinishRename, Return, Intact
<1>1. L \in SUBSET Inodes /\ Sound(img, L) /\ Graph(E, L)
  BY <1>0, SoundImage DEF Sound
<1>2. /\ p \in L /\ p \in DirSet(img, L) /\ q \in L /\ q \in DirSet(img, L)
  BY <1>0, SoundDirectory
<1>3. <<p, n, t>> \in E /\ t \in L
  BY <1>0, EntryEdge
<1>4. Removed(s, q, m, u)
  BY <1>0, RemoveSound
<1> HIDE DEF s
<1>5. /\ s \in ImageType /\ Sound(s, K) /\ InodesExact(s, K, hit)
      /\ EdgeSet(s, K) = E \ {gone} /\ DirSet(s, K) = DirSet(img, L) \ {u}
      /\ gone \in E /\ u \in L \ {q} /\ \A x \in E : x[1] # u
  BY <1>4 DEF Removed
<1>6. gone[1] = q /\ gone[2] = m /\ gone[3] = u
  OBVIOUS
<1>7. u # p
  <2>1. u \in ReachableFrom(img, u)
    BY <1>1, <1>5, ReachableMeans
  <2> QED BY <2>1
<1>8. <<p, n, t>> # gone
  OBVIOUS
<1>9. PICK T \in SUBSET Inodes :
        t \in T /\ q \notin T /\ \A x \in E : x[1] \in T => x[3] \in T
  BY <1>0, <1>3, Below
<1>10. \A x \in E : x[1] = q /\ x[2] = m => x = gone
  BY <1>1, <1>5, <1>6 DEF Graph
<1>11. Finished(s, K, p, n, t, q, m)
  <2>1. p \in K /\ IsDir(s, p) /\ q \in K /\ IsDir(s, q)
    <3>1. p \in DirSet(s, K) /\ q \in DirSet(s, K)
      BY <1>2, <1>5, <1>7
    <3> QED BY <3>1 DEF DirSet
  <2>2. <<p, n, t>> \in EdgeSet(s, K)
    BY <1>3, <1>5, <1>8
  <2>3. \A x \in EdgeSet(s, K) : ~ (x[1] = q /\ x[2] = m)
    BY <1>5, <1>10
  <2>4. \A x \in EdgeSet(s, K) : x[1] \in T => x[3] \in T
    BY <1>5, <1>9
  <2>5. K \in SUBSET Inodes
    BY <1>1
  <2>6. MayFinish(s, K, p, n, t, q, m, T)
    BY <1>5, <1>9, <2>1, <2>2, <2>3, <2>4, <2>5 DEF MayFinish
  <2> QED BY <2>6, FinishSound DEF s
<1>12. EntryMoved(K, p, n, q, m)
  <2> DEFINE e == <<p, n, t>>
             old == {o \in E : o[1] = q /\ o[2] = m}
  <2>1. old = {gone}
    BY <1>5, <1>6, <1>10
  <2>2. e \in E /\ q # p /\ t \in Inodes /\ q \in DirSet(img, L)
    BY <1>1, <1>2, <1>3, <1>11 DEF Finished
  <2>3. EdgeSet(img', K) = ((E \ {gone}) \ {e}) \cup {<<q, m, t>>}
    BY <1>5, <1>11 DEF Finished
  <2>4. DirSet(img', K) = DirSet(img, L) \ {u}
    BY <1>5, <1>11 DEF Finished
  <2>5. {o[3] : o \in old} = {u}
    BY <1>6, <2>1
  <2>6. u \in DirSet(img, L) <=> t \in DirSet(img, L)
    BY <1>3, <1>5 DEF DirSet
  <2> HIDE DEF E, L, K, e, gone, old
  <2>7. EdgeSet(img', K) = (E \ (old \cup {e})) \cup {<<q, m, t>>}
    BY <2>1, <2>3
  <2>8. \A o \in old : (\A x \in E : x[1] # o[3])
                       /\ (o[3] \in DirSet(img, L) <=> t \in DirSet(img, L))
    BY <1>5, <1>6, <2>1, <2>6
  <2>9. DirSet(img', K) = DirSet(img, L) \ {o[3] : o \in old}
    BY <2>4, <2>5
  <2> QED BY <2>2, <2>7, <2>8, <2>9 DEF EntryMoved, old, E, L, e
<1>13. Backs(img, img', L, K)
  <2>1. Steady(img, s, L) /\ Steady(s, img', K)
    BY <1>4, <1>11 DEF Removed, Finished
  <2>2. Steady(img, img', K)
    BY <2>1, SteadyOn
  <2> QED BY <2>2, SteadyBacks
<1>14. Sounds(K) /\ ret' = "0"
  BY <1>11, <1>13 DEF Sounds, Finished
<1>15. K \in SUBSET Inodes
  BY <1>1
<1> QED BY <1>12, <1>14, <1>15

\* Every return of rename.
LEMMA RenameSounds ==
  ASSUME IInv, SoundInv, Intact', NEW p \in Directories, NEW n \in Names,
         NEW q \in Directories, NEW m \in Names, Rename(p, n, q, m)
  PROVE  /\ Intact
         /\ \E K \in SUBSET Inodes :
              /\ Sounds(K)
              /\ \/ ret' = "SIGSEGV" /\ SameTree(K)
                 \/ ret' = "0" /\ EntryMoved(K, p, n, q, m)
<1> DEFINE Ends == \E K \in SUBSET Inodes :
                     /\ Sounds(K)
                     /\ \/ ret' = "SIGSEGV" /\ SameTree(K)
                        \/ ret' = "0" /\ EntryMoved(K, p, n, q, m)
<1>1. PICK k \in 0 .. img.inode[p].dentry_count - 1, t \in Inodes :
        /\ EntryIs(p, n, k, t)
        /\ IsDir(img, t) => q \notin ReachableFrom(img, t)
        /\ \A j \in 0 .. img.inode[q].dentry_count - 1, u \in Inodes :
             EntryIs(q, m, j, u) =>
               /\ IsDir(img, u) <=> IsDir(img, t)
               /\ p \notin ReachableFrom(img, u)
  BY DEF Rename, MayRename
<1>2. <<p, n>> # <<q, m>>
  BY DEF Rename, MayRename
<1>3. CASE /\ \A j \in 0 .. img.inode[q].dentry_count - 1 : IsAt(img, q, m, j) => j = 0
           /\ FinishRename(img, p, n, q, m, {})
  BY <1>1, <1>3, RenameNewSounds, RenameReturns
<1>4. ASSUME NEW j \in 1 .. img.inode[q].dentry_count - 1, NEW u \in Inodes,
             NEW read \in {"dir", "file", "unmapped"}, EntryIs(q, m, j, u)
      PROVE  /\ Return(img, "SIGSEGV", {}) => Ends
             /\ ~ FinishRename(img, p, n, q, m, {"target_kept"})
             /\ (IsDir(img, u) => img.inode[u].dentry_count <= 2)
                /\ FinishRename(Remove(img, q, j), p, n, q, m, {})
                => Ends
  <2>1. ~ FinishRename(img, p, n, q, m, {"target_kept"})
    <3>1. "target_kept" \in Damage /\ "target_kept" \notin hit'
      BY DEF Damage, Intact
    <3> QED BY <3>1, FinishRemembers
  <2>2. ASSUME IsDir(img, u) => img.inode[u].dentry_count <= 2,
               FinishRename(Remove(img, q, j), p, n, q, m, {})
        PROVE  Ends
    <3>1. j \in 0 .. img.inode[q].dentry_count - 1
      BY <1>4 DEF EntryIs, IsAt
    <3>2. (IsDir(img, u) <=> IsDir(img, t)) /\ p \notin ReachableFrom(img, u)
      BY <1>1, <1>4, <3>1
    <3> QED BY <1>1, <1>2, <1>4, <2>2, <3>2, RenameOverSounds
  <2> QED BY <2>1, <2>2, SameSounds
<1>5. CASE \E j \in 1 .. img.inode[q].dentry_count - 1, u \in Inodes,
              read \in {"dir", "file", "unmapped"} :
             /\ EntryIs(q, m, j, u)
             /\ LET refused == IF read = "dir" THEN img.inode[u].dentry_count > 2
                                               ELSE IsDir(img, u)
                IN  \/ read = "unmapped" /\ Return(img, "SIGSEGV", {})
                    \/ /\ read # "unmapped" /\ refused
                       /\ FinishRename(img, p, n, q, m, {"target_kept"})
                    \/ /\ read # "unmapped" /\ ~ refused
                       /\ LET s == Remove(img, q, j) IN FinishRename(s, p, n, q, m, {})
  <2>1. PICK j \in 1 .. img.inode[q].dentry_count - 1, u \in Inodes,
              read \in {"dir", "file", "unmapped"} :
             /\ EntryIs(q, m, j, u)
             /\ \/ Return(img, "SIGSEGV", {})
                \/ FinishRename(img, p, n, q, m, {"target_kept"})
                \/ /\ ~ (IF read = "dir" THEN img.inode[u].dentry_count > 2
                                         ELSE IsDir(img, u))
                   /\ FinishRename(Remove(img, q, j), p, n, q, m, {})
    BY <1>5
  <2>2. img.inode[u].dentry_count \in Int
    BY DEF IInv, Typed
  <2>3. ~ (IF read = "dir" THEN img.inode[u].dentry_count > 2 ELSE IsDir(img, u))
        => (IsDir(img, u) => img.inode[u].dentry_count <= 2)
    BY <2>2
  <2>4. Ends
    BY <1>4, <2>1, <2>3
  <2> QED BY <2>4, RenameReturns
<1>6. Intact
  BY RenameReturns
<1> QED BY <1>3, <1>5, <1>6 DEF Rename

\* Every step of a run: the tree has nodes K afterwards, unless damage is done.
LEMMA NextSounds ==
  ASSUME IInv, SoundInv, Intact', [Next]_vars
  PROVE  \E K \in SUBSET Inodes : Sounds(K)
<1>1. CASE UNCHANGED <<img, hit>>
  <2>1. img' = img /\ hit' = hit /\ Intact
    BY <1>1 DEF Intact
  <2>2. Reachable \in SUBSET Inodes /\ Sound(img, Reachable) /\ InodesExact(img, Reachable, hit)
    BY <2>1, SoundImage
  <2>3. Backs(img, img', Reachable, Reachable)
    BY <2>1, SteadySame, SteadyBacks
  <2>4. Sounds(Reachable)
    BY <2>1, <2>2, <2>3 DEF Sounds
  <2> QED BY <2>2, <2>4
<1>2. CASE \E p \in Directories, n \in Names : Mkdir(p, n)
  BY <1>2, MkdirSounds
<1>3. CASE \E p \in Directories, n \in Names : Create(p, n)
  BY <1>3, CreateSounds
<1>4. CASE \E p \in Directories, n \in Names : Rmdir(p, n)
  BY <1>4, RmdirSounds
<1>5. CASE \E p \in Directories, n \in Names : Unlink(p, n)
  BY <1>5, UnlinkSounds
<1>6. CASE \E p, q \in Directories, n, m \in Names : Rename(p, n, q, m)
  BY <1>6, RenameSounds
<1>7. ~ Astray
  BY DEF Astray, Intact, Damage
<1> QED BY <1>1, <1>2, <1>3, <1>4, <1>5, <1>6, <1>7 DEF Next, Remount, vars

-----------------------------------------------------------------------------
(* The invariant, and what it means.                                       *)

\* What mkfs leaves: a root directory with no entries.
LEMMA InitSound ==
  ASSUME Init
  PROVE  SoundInv /\ Reachable = {0}
<1> DEFINE cell(b, k) == CASE b = FirstData /\ k = 0     -> Extent(FirstData + 1)
                           [] b = FirstData + 1 /\ k = 0 -> Dentry(0, ".")
                           [] b = FirstData + 1 /\ k = 1 -> Dentry(0, "..")
                           [] OTHER                      -> ZeroCell
<1>1. /\ img = Formatted /\ hit = {}
      /\ FirstData \in Blocks /\ FirstData + 1 \in Blocks /\ FirstData # FirstData + 1
      /\ 0 \in Inodes /\ 0 \in Slots /\ 1 \in Slots
  BY Sizes DEF Init, Blocks, Inodes, Slots
<1>2. /\ img.inode[0] = RootInode
      /\ img.inode_bitmap = {0} /\ img.data_bitmap = {0, 1}
      /\ img.free_inode_count = InodeCount - 1
      /\ img.free_dblock_count = DBlockCount - 2
      /\ img.mem = [b \in Blocks |-> [k \in Slots |-> cell(b, k)]]
  BY <1>1 DEF Formatted
<1>3. /\ img.mem[FirstData][0] = Extent(FirstData + 1)
      /\ img.mem[FirstData + 1][0] = Dentry(0, ".")
      /\ img.mem[FirstData + 1][1] = Dentry(0, "..")
  <2>1. /\ cell(FirstData, 0) = Extent(FirstData + 1)
        /\ cell(FirstData + 1, 0) = Dentry(0, ".")
    BY <1>1
  <2>2. cell(FirstData + 1, 1) = Dentry(0, "..")
    BY <1>1
  <2> HIDE DEF cell
  <2> QED BY <1>1, <1>2, <2>1, <2>2
<1>4. /\ IsDir(img, 0) /\ img.inode[0].mode = "dir"
      /\ img.inode[0].dentry_count = 2 /\ img.inode[0].ext_block = FirstData
      /\ DataBlock(img, 0) = FirstData + 1
      /\ Listing(img, 0) = {} /\ EdgesOf(img, 0) = {}
  <2>1. /\ IsDir(img, 0) /\ img.inode[0].mode = "dir"
        /\ img.inode[0].dentry_count = 2 /\ img.inode[0].ext_block = FirstData
    BY <1>2 DEF RootInode, IsDir
  <2>2. DataBlock(img, 0) = FirstData + 1
    BY <1>3, <2>1 DEF DataBlock, Extent
  <2>3. Listing(img, 0) = {}
    BY <2>1 DEF Listing
  <2> QED BY <2>1, <2>2, <2>3 DEF EdgesOf
<1>5. LaidOut(img, 0)
  <2>1. Listed(img, 0)
    BY <1>3, <1>4 DEF Listed, Slot, Dentry
  <2>2. 2 \in 2 .. DentriesPerBlock
    BY Sizes
  <2>3. img.mem[img.inode[0].ext_block][0].tail = "extent"
    BY <1>3, <1>4 DEF Extent
  <2> QED BY <1>1, <1>4, <2>1, <2>2, <2>3 DEF LaidOut
<1>6. Apart(img, {0})
  BY <1>1, <1>4 DEF Apart
<1>7. Graph(EdgeSet(img, {0}), {0})
  BY <1>4 DEF EdgeSet, Graph, Rooted
<1>8. Cardinality({0}) = 1 /\ Cardinality(img.data_bitmap) = 2
  <2>1. IsFiniteSet({0}) /\ Cardinality({0}) = 1
    BY FS_Singleton
  <2>2. Cardinality({0} \cup {1}) = 2
    BY <2>1, FS_AddElement
  <2>3. img.data_bitmap = {0} \cup {1}
    BY <1>2
  <2> QED BY <2>1, <2>2, <2>3
<1>9. Accounted(img, {0})
  <2>1. Occupied(img, 0) = {0, 1}
    BY <1>4, Sizes DEF Occupied, Bit
  <2>2. img.data_bitmap = UNION {Occupied(img, d) : d \in {0}}
    BY <1>2, <2>1
  <2> QED BY <1>2, <1>8, <2>2 DEF Accounted
<1>10. Sound(img, {0})
  BY <1>2, <1>5, <1>6, <1>7, <1>9 DEF Sound
<1>11. Reachable = {0}
  BY <1>1, <1>10, ReachableIs DEF Reachable
<1>12. InodesExact(img, {0}, hit)
  BY <1>2, <1>8, Sizes DEF InodesExact
<1>13. SoundInv
  BY <1>10, <1>11, <1>12 DEF SoundInv
<1> QED BY <1>11, <1>13

\* What paths lead to after a step.
LEMMA ReachableNext ==
  ASSUME NEW K \in SUBSET Inodes, Sounds(K)
  PROVE  Reachable' = K
BY ReachableIs DEF Sounds, Reachable

\* The invariant is inductive, along with the one of A1fs_proofs.
LEMMA NextSound ==
  ASSUME IInv, SoundInv, [Next]_vars
  PROVE  SoundInv'
<1>1. CASE Intact'
  <2>1. PICK K \in SUBSET Inodes : Sounds(K)
    BY <1>1, NextSounds
  <2>2. Reachable' = K
    BY <2>1, ReachableNext
  <2> QED BY <2>1, <2>2 DEF SoundInv, Sounds
<1> QED BY <1>1 DEF SoundInv

\* As long as the image has taken no damage it holds a tree: every inode a path
\* leads to has its two blocks to itself, its entries in one of them and one
\* name, and the bitmaps and counters say what is in use.
THEOREM SoundInvariant == Spec => []SoundInv
<1> DEFINE Both == IInv /\ SoundInv
<1>1. Init => Both
  BY InitGood, InitSound
<1>2. Both /\ [Next]_vars => Both'
  BY NextKeeps, NextSound
<1>3. Both => SoundInv
  OBVIOUS
<1> HIDE DEF Both
<1> QED BY <1>1, <1>2, <1>3, PTL DEF Spec

\* Whatever a path leads to is allocated and readable, and a directory starts
\* with "." naming itself and "..".
THEOREM IntactIsConsistent == Spec => []Consistent
<1>1. ASSUME IInv, SoundInv
      PROVE  Consistent
  <2> SUFFICES ASSUME Intact, NEW d \in Reachable
               PROVE  /\ d \in img.inode_bitmap
                      /\ Readable(img, d)
                      /\ IsDir(img, d) => /\ img.inode[d].dentry_count >= 2
                                          /\ DentryAt(img, d, 0) = Dentry(d, ".")
                                          /\ DentryAt(img, d, 1).tail = ".."
    BY DEF Consistent
  <2>1. d \in Inodes /\ LaidOut(img, d) /\ d \in img.inode_bitmap
    BY <1>1, SoundImage DEF Sound
  <2>2. Readable(img, d)
    BY <2>1, LaidOutReadable
  <2>3. ASSUME IsDir(img, d)
        PROVE  /\ img.inode[d].dentry_count >= 2
               /\ DentryAt(img, d, 0) = Dentry(d, ".") /\ DentryAt(img, d, 1).tail = ".."
    BY <2>1, <2>3, LaidOutFacts DEF LaidOut, Listed
  <2> QED BY <2>1, <2>2, <2>3
<1> QED BY <1>1, Invariant, SoundInvariant, PTL

\* No inode has two names, the root has none and no directory has a name twice,
\* so that unlink and rmdir may free what they remove.
THEOREM NamesAreUnique == Spec => []NamedOnce
<1>1. ASSUME IInv, SoundInv
      PROVE  NamedOnce
  <2> SUFFICES ASSUME Intact, NEW d \in Reachable, NEW e \in Reachable,
                      NEW k \in Listing(img, d), NEW l \in Listing(img, e)
               PROVE  /\ DentryAt(img, d, k).word # 0
                      /\ DentryAt(img, d, k).word = DentryAt(img, e, l).word => d = e /\ k = l
                      /\ d = e /\ DentryAt(img, d, k).tail = DentryAt(img, e, l).tail => k = l
    BY DEF NamedOnce
  <2> DEFINE E == EdgeSet(img, Reachable)
             x == Edge(img, d, k)
             y == Edge(img, e, l)
  <2>1. /\ Graph(E, Reachable)
        /\ d \in Inodes /\ LaidOut(img, d) /\ IsDir(img, d)
        /\ e \in Inodes /\ LaidOut(img, e) /\ IsDir(img, e)
    BY <1>1, SoundImage DEF Sound, Listing
  <2>2. DentryAt(img, d, k) = Slot(img, d, k) /\ DentryAt(img, e, l) = Slot(img, e, l)
    BY <2>1, EdgeMatched
  <2>3. x \in E /\ y \in E
    BY DEF EdgeSet, EdgesOf
  <2>4. /\ x[1] = d /\ x[2] = DentryAt(img, d, k).tail /\ x[3] = DentryAt(img, d, k).word
        /\ y[1] = e /\ y[2] = DentryAt(img, e, l).tail /\ y[3] = DentryAt(img, e, l).word
    BY <2>2 DEF Edge
  <2> HIDE DEF E, x, y
  <2>5. x[3] # 0
    BY <2>1, <2>3 DEF Graph
  <2>6. d = e /\ DentryAt(img, d, k).tail = DentryAt(img, e, l).tail => k = l
    BY <2>1, <2>2 DEF LaidOut, Listed
  <2>7. x[3] = y[3] => d = e /\ k = l
    BY <2>1, <2>3, <2>4, <2>6 DEF Graph
  <2> QED BY <2>4, <2>5, <2>6, <2>7
<1> QED BY <1>1, Invariant, SoundInvariant, PTL

\* The blocks marked in use are those of the inodes paths lead to, two each:
\* none leaks and none is handed out twice.
THEOREM BlocksAreAccounted == Spec => []BlocksAccounted
<1>1. ASSUME IInv, SoundInv
      PROVE  BlocksAccounted
  <2>1. ASSUME Intact
        PROVE  Accounted(img, Reachable)
    BY <1>1, <2>1, SoundImage DEF Sound
  <2>2. \A d : BlocksOf(d) = Occupied(img, d)
    BY DEF BlocksOf, Occupied
  <2> QED BY <2>1, <2>2 DEF BlocksAccounted, Accounted
<1> QED BY <1>1, Invariant, SoundInvariant, PTL

\* The inodes marked in use are those paths lead to, and those a mkdir or create
\* that found no blocks left marked.
THEOREM InodesAreAccounted == Spec => []InodesAccounted
<1>1. SoundInv => InodesAccounted
  BY DEF SoundInv, InodesAccounted, Sound, InodesExact
<1> QED BY <1>1, SoundInvariant, PTL

\* The counters statfs reports are the numbers of bits that are 0, unless mkdir
\* found the inode table full.
THEOREM CountersAreExact == Spec => []CountersExact
<1>1. SoundInv => CountersExact
  BY DEF SoundInv, CountersExact, Sound, Accounted, InodesExact
<1> QED BY <1>1, SoundInvariant, PTL

-----------------------------------------------------------------------------
(* The five handlers implement the tree of names.                          *)

\* The entries as A1fs writes them for a caller.
LEMMA EdgesSeen ==
  ASSUME NEW s, NEW L \in SUBSET Inodes, Sound(s, L)
  PROVE  UNION {{<<d, DentryAt(s, d, k).tail, DentryAt(s, d, k).word>> :
                   k \in Listing(s, d)} : d \in L} = EdgeSet(s, L)
<1> DEFINE seen(d) == {<<d, DentryAt(s, d, k).tail, DentryAt(s, d, k).word>> :
                         k \in Listing(s, d)}
<1>1. ASSUME NEW d \in L
      PROVE  seen(d) = EdgesOf(s, d)
  <2>1. \A k \in Listing(s, d) : DentryAt(s, d, k) = Slot(s, d, k)
    BY EdgeMatched DEF Sound, Listing
  <2> QED BY <2>1 DEF EdgesOf, Edge
<1> HIDE DEF seen
<1>2. UNION {seen(d) : d \in L} = EdgeSet(s, L)
  BY <1>1 DEF EdgeSet
<1> QED BY <1>2 DEF seen

\* The tree a caller sees before a call and after it.
LEMMA TreeSeen ==
  ASSUME IInv, SoundInv, Intact, NEW K \in SUBSET Inodes, Sounds(K)
  PROVE  /\ Edges = EdgeSet(img, Reachable) /\ Graph(Edges, Reachable)
         /\ Edges' = EdgeSet(img', K)
         /\ {d \in Reachable : IsDir(img, d)} = DirSet(img, Reachable)
         /\ {d \in Reachable : IsDir(img, d)}' = DirSet(img', K)
<1>1. Sound(img, Reachable) /\ Reachable \in SUBSET Inodes
  BY SoundImage
<1>2. Edges = EdgeSet(img, Reachable) /\ Graph(Edges, Reachable)
  BY <1>1, EdgesSeen DEF Edges, Sound
<1>3. Reachable' = K
  BY ReachableNext
<1>4. Edges' = UNION {{<<d, DentryAt(img', d, k).tail, DentryAt(img', d, k).word>> :
                         k \in Listing(img', d)} : d \in K}
  BY <1>3 DEF Edges
<1>5. Edges' = EdgeSet(img', K)
  BY <1>4, EdgesSeen DEF Sounds
<1> QED BY <1>2, <1>3, <1>5 DEF DirSet

\* In a tree an entry is the only one by its name.
LEMMA EntryNamed ==
  ASSUME Graph(Edges, Reachable), NEW p, NEW n, NEW t, <<p, n, t>> \in Edges
  PROVE  Tree!Named(p, n) = {<<p, n, t>>}
<1>1. <<p, n, t>>[1] = p /\ <<p, n, t>>[2] = n
  OBVIOUS
<1> QED BY <1>1 DEF Graph, Tree!Named

\* The initial tree has the root and no entry.
LEMMA InitImplements ==
  ASSUME Init
  PROVE  Tree!Init
<1>1. IInv /\ SoundInv /\ Reachable = {0}
  BY InitGood, InitSound
<1>2. Intact /\ ret = "0" /\ img.inode_bitmap = {0} /\ hit = {} /\ img.inode[0].mode = "dir"
  BY Sizes DEF Init, Intact, Formatted, RootInode, Inodes
<1>3. img.inode[0].dentry_count = 2
  BY Sizes DEF Init, Formatted, RootInode, Inodes
<1>4. Listing(img, 0) = {}
  BY <1>3 DEF Listing
<1>5. Edges = {}
  BY <1>1, <1>4 DEF Edges
<1>6. {d \in Reachable : IsDir(img, d)} = {0}
  BY <1>1, <1>2 DEF IsDir
<1> QED BY <1>2, <1>5, <1>6 DEF Tree!Init

\* mkdir and create add the entry they are given, or none.
LEMMA AddsEntry ==
  ASSUME IInv, SoundInv, Intact, NEW p \in Directories, NEW n \in Names,
         NEW mode \in {"file", "dir"},
         NEW K \in SUBSET Inodes, Sounds(K), EntryAdded(K, p, n, mode)
  PROVE  \E i \in Inodes :
           /\ Tree!Add(p, n, i)
           /\ {d \in Reachable : IsDir(img, d)}' =
                {d \in Reachable : IsDir(img, d)} \cup (IF mode = "dir" THEN {i} ELSE {})
           /\ i \notin {d \in Reachable : IsDir(img, d)}
<1>1. PICK i \in Inodes \ Reachable :
        /\ EdgeSet(img', K) = EdgeSet(img, Reachable) \cup {<<p, n, i>>}
        /\ DirSet(img', K) = DirSet(img, Reachable) \cup (IF mode = "dir" THEN {i} ELSE {})
  BY DEF EntryAdded
<1>2. p \in DirSet(img, Reachable)
  BY SoundDirectory
<1>3. Tree!Named(p, n) = {}
  BY TreeSeen DEF EntryAdded, Tree!Named
<1>4. i \notin Tree!Live
  BY <1>1, TreeSeen DEF Graph, Tree!Live
<1> QED BY <1>1, <1>2, <1>3, <1>4, TreeSeen DEF Tree!Add

\* A call of mkdir is the tree's, with the directory and the name it was given.
LEMMA MkdirImplements ==
  ASSUME IInv, SoundInv, NEW p \in Directories, NEW n \in Names, Mkdir(p, n)
  PROVE  Tree!Mkdir(p, n)
<1> SUFFICES ASSUME Intact'
             PROVE  /\ Intact
                    /\ \/ ret' = "1" /\ Tree!Unchanged
                       \/ /\ ret' = "0"
                          /\ \E i \in Inodes :
                               /\ Tree!Add(p, n, i)
                               /\ {d \in Reachable : IsDir(img, d)}' =
                                    {d \in Reachable : IsDir(img, d)} \cup {i}
  BY DEF Tree!Mkdir
<1>1. Intact
  BY MkdirSounds
<1>2. PICK K \in SUBSET Inodes :
        /\ Sounds(K)
        /\ \/ ret' = "1" /\ SameTree(K)
           \/ ret' = "0" /\ EntryAdded(K, p, n, "dir")
  BY MkdirSounds
<1>3. CASE SameTree(K) /\ ret' = "1"
  BY <1>1, <1>2, <1>3, TreeSeen DEF SameTree, Tree!Unchanged
<1>4. CASE EntryAdded(K, p, n, "dir") /\ ret' = "0"
  BY <1>1, <1>2, <1>4, AddsEntry
<1> QED BY <1>2, <1>3, <1>4

\* So is a call of create...
LEMMA CreateImplements ==
  ASSUME IInv, SoundInv, NEW p \in Directories, NEW n \in Names, Create(p, n)
  PROVE  Tree!Create(p, n)
<1> SUFFICES ASSUME Intact'
             PROVE  /\ Intact
                    /\ \/ ret' = "1" /\ Tree!Unchanged
                       \/ /\ ret' = "0"
                          /\ \E i \in Inodes \ {d \in Reachable : IsDir(img, d)} :
                               /\ Tree!Add(p, n, i)
                               /\ {d \in Reachable : IsDir(img, d)}' =
                                    {d \in Reachable : IsDir(img, d)}
  BY DEF Tree!Create
<1>1. Intact
  BY CreateSounds
<1>2. PICK K \in SUBSET Inodes :
        /\ Sounds(K)
        /\ \/ ret' = "1" /\ SameTree(K)
           \/ ret' = "0" /\ EntryAdded(K, p, n, "file")
  BY CreateSounds
<1>3. CASE SameTree(K) /\ ret' = "1"
  BY <1>1, <1>2, <1>3, TreeSeen DEF SameTree, Tree!Unchanged
<1>4. CASE EntryAdded(K, p, n, "file") /\ ret' = "0"
  BY <1>1, <1>2, <1>4, AddsEntry
<1> QED BY <1>2, <1>3, <1>4

\* ... of rmdir...
LEMMA RmdirImplements ==
  ASSUME IInv, SoundInv, NEW p \in Directories, NEW n \in Names, Rmdir(p, n)
  PROVE  Tree!Rmdir(p, n)
<1> SUFFICES ASSUME Intact'
             PROVE  /\ Intact
                    /\ \E i \in {d \in Reachable : IsDir(img, d)} :
                         /\ Tree!Named(p, n) = {<<p, n, i>>}
                         /\ \/ ret' = "-ENOTEMPTY" /\ ~ Tree!Empty(i) /\ Tree!Unchanged
                            \/ /\ ret' = "0" /\ Tree!Empty(i)
                               /\ Edges' = Edges \ {<<p, n, i>>}
                               /\ {d \in Reachable : IsDir(img, d)}' =
                                    {d \in Reachable : IsDir(img, d)} \ {i}
  BY DEF Tree!Rmdir
<1>1. Intact
  BY RmdirSounds
<1>2. PICK K \in SUBSET Inodes, t \in DirSet(img, Reachable) :
        /\ Sounds(K) /\ <<p, n, t>> \in EdgeSet(img, Reachable)
        /\ \/ /\ ret' = "-ENOTEMPTY" /\ SameTree(K)
              /\ \E x \in EdgeSet(img, Reachable) : x[1] = t
           \/ ret' = "0" /\ EntryTaken(K, p, n, t)
  BY RmdirSounds
<1>3. t \in {d \in Reachable : IsDir(img, d)} /\ Tree!Named(p, n) = {<<p, n, t>>}
  BY <1>1, <1>2, TreeSeen, EntryNamed
<1>4. CASE /\ ret' = "-ENOTEMPTY" /\ SameTree(K)
           /\ \E x \in EdgeSet(img, Reachable) : x[1] = t
  <2>1. Tree!Unchanged /\ ~ Tree!Empty(t)
    BY <1>1, <1>2, <1>4, TreeSeen DEF SameTree, Tree!Unchanged, Tree!Empty
  <2> QED BY <1>1, <1>3, <1>4, <2>1
<1>5. CASE ret' = "0" /\ EntryTaken(K, p, n, t)
  <2>1. /\ Tree!Empty(t)
        /\ Edges' = Edges \ {<<p, n, t>>}
        /\ {d \in Reachable : IsDir(img, d)}' = {d \in Reachable : IsDir(img, d)} \ {t}
    BY <1>1, <1>2, <1>5, TreeSeen DEF EntryTaken, Tree!Empty
  <2> QED BY <1>1, <1>3, <1>5, <2>1
<1> QED BY <1>2, <1>4, <1>5

\* ... of unlink...
LEMMA UnlinkImplements ==
  ASSUME IInv, SoundInv, NEW p \in Directories, NEW n \in Names, Unlink(p, n)
  PROVE  Tree!Unlink(p, n)
<1> SUFFICES ASSUME Intact'
             PROVE  /\ Intact
                    /\ \E i \in Inodes \ {d \in Reachable : IsDir(img, d)} :
                         /\ Tree!Named(p, n) = {<<p, n, i>>}
                         /\ ret' = "0"
                         /\ Edges' = Edges \ {<<p, n, i>>}
                         /\ {d \in Reachable : IsDir(img, d)}' =
                              {d \in Reachable : IsDir(img, d)}
  BY DEF Tree!Unlink
<1>1. Intact
  BY UnlinkSounds
<1>2. PICK K \in SUBSET Inodes, t \in Inodes \ DirSet(img, Reachable) :
        Sounds(K) /\ ret' = "0" /\ EntryTaken(K, p, n, t)
  BY UnlinkSounds
<1>3. t \notin {d \in Reachable : IsDir(img, d)} /\ Tree!Named(p, n) = {<<p, n, t>>}
  BY <1>1, <1>2, TreeSeen, EntryNamed DEF EntryTaken
<1>4. /\ Edges' = Edges \ {<<p, n, t>>}
      /\ {d \in Reachable : IsDir(img, d)}' = {d \in Reachable : IsDir(img, d)}
  BY <1>1, <1>2, TreeSeen DEF EntryTaken
<1> QED BY <1>1, <1>2, <1>3, <1>4

\* ... and of rename.
LEMMA RenameImplements ==
  ASSUME IInv, SoundInv, NEW p \in Directories, NEW n \in Names,
         NEW q \in Directories, NEW m \in Names, Rename(p, n, q, m)
  PROVE  Tree!Rename(p, n, q, m)
<1> DEFINE D == {d \in Reachable : IsDir(img, d)}
           old == {o \in EdgeSet(img, Reachable) : o[1] = q /\ o[2] = m}
<1> SUFFICES ASSUME Intact'
             PROVE  /\ Intact
                    /\ \/ ret' = "SIGSEGV" /\ Tree!Unchanged
                       \/ /\ ret' = "0"
                          /\ q \in D \ {p}
                          /\ \E i \in Inodes :
                               /\ Tree!Named(p, n) = {<<p, n, i>>}
                               /\ \A o \in Tree!Named(q, m) :
                                    Tree!Empty(o[3]) /\ (o[3] \in D <=> i \in D)
                               /\ Edges' = (Edges \ (Tree!Named(q, m) \cup {<<p, n, i>>}))
                                           \cup {<<q, m, i>>}
                               /\ D' = D \ {o[3] : o \in Tree!Named(q, m)}
  BY DEF Tree!Rename
<1>1. Intact
  BY RenameSounds
<1>2. PICK K \in SUBSET Inodes :
        /\ Sounds(K)
        /\ \/ ret' = "SIGSEGV" /\ SameTree(K)
           \/ ret' = "0" /\ EntryMoved(K, p, n, q, m)
  BY RenameSounds
<1>3. /\ Edges = EdgeSet(img, Reachable) /\ Graph(Edges, Reachable)
      /\ Edges' = EdgeSet(img', K)
      /\ D = DirSet(img, Reachable) /\ D' = DirSet(img', K)
  BY <1>1, <1>2, TreeSeen
<1>4. CASE SameTree(K) /\ ret' = "SIGSEGV"
  BY <1>1, <1>3, <1>4 DEF SameTree, Tree!Unchanged
<1>5. CASE EntryMoved(K, p, n, q, m) /\ ret' = "0"
  <2>1. PICK t \in Inodes :
          /\ <<p, n, t>> \in EdgeSet(img, Reachable)
          /\ q \in DirSet(img, Reachable) \ {p}
          /\ \A o \in old : /\ \A x \in EdgeSet(img, Reachable) : x[1] # o[3]
                            /\ o[3] \in DirSet(img, Reachable) <=> t \in DirSet(img, Reachable)
          /\ EdgeSet(img', K) = (EdgeSet(img, Reachable) \ (old \cup {<<p, n, t>>}))
                                 \cup {<<q, m, t>>}
          /\ DirSet(img', K) = DirSet(img, Reachable) \ {o[3] : o \in old}
    BY <1>5 DEF EntryMoved
  <2>2. Tree!Named(q, m) = old
    BY <1>3 DEF Tree!Named
  <2>3. Tree!Named(p, n) = {<<p, n, t>>}
    BY <1>3, <2>1, EntryNamed
  <2>4. \A o \in old : Tree!Empty(o[3]) /\ (o[3] \in D <=> t \in D)
    BY <1>3, <2>1 DEF Tree!Empty
  <2> HIDE DEF D, old
  <2> QED BY <1>1, <1>3, <1>5, <2>1, <2>2, <2>3, <2>4
<1> QED BY <1>2, <1>4, <1>5

\* Being mounted again is the tree's step of that name.
LEMMA RemountImplements ==
  ASSUME Remount
  PROVE  Tree!Remount
<1>1. img' = img /\ hit' = hit /\ ret' = "0"
  BY DEF Remount
<1>2. Reachable' = Reachable
  BY <1>1 DEF Reachable
<1>3. Edges' = Edges /\ {d \in Reachable : IsDir(img, d)}' = {d \in Reachable : IsDir(img, d)}
  BY <1>1, <1>2 DEF Edges
<1> QED BY <1>1, <1>3 DEF Tree!Remount, Tree!Unchanged, Intact

\* Until damage is done, every call of a handler makes the change to the tree of
\* names that is its own, in the directory and for the name it was given, and
\* answers 0, or answers the error that is so and makes none.
THEOREM Implements == Spec => ImplementsNamespace
<1> DEFINE Both == IInv /\ SoundInv
           Calls == /\ \A p \in Directories, n \in Names :
                         /\ Mkdir(p, n)  => Tree!Mkdir(p, n)
                         /\ Create(p, n) => Tree!Create(p, n)
                         /\ Rmdir(p, n)  => Tree!Rmdir(p, n)
                         /\ Unlink(p, n) => Tree!Unlink(p, n)
                    /\ \A p, q \in Directories, n, m \in Names :
                         Rename(p, n, q, m) => Tree!Rename(p, n, q, m)
                    /\ Remount => Tree!Remount
<1>1. Init => Tree!Init
  BY InitImplements
<1>2. Both => Calls
  BY MkdirImplements, CreateImplements, RmdirImplements, UnlinkImplements,
     RenameImplements, RemountImplements
<1>3. Spec => []Both
  BY Invariant, SoundInvariant, PTL
<1> HIDE DEF Both
<1>4. ImplementsNamespace <=> Tree!Init /\ [][Calls]_vars
  BY DEF ImplementsNamespace
<1> HIDE DEF Calls
<1> QED BY <1>1, <1>2, <1>3, <1>4, PTL DEF Spec

\* So the file system refines the tree of names: every step of it is a call's.
THEOREM Refines == Spec => Tree!Spec
<1> DEFINE Both == IInv /\ SoundInv
<1>1. Init => Tree!Init
  BY InitImplements
<1>2. ASSUME Both, [Next]_vars
      PROVE  [Tree!Next]_Tree!vars
  <2>1. CASE \E p \in Directories, n \in Names :
               Mkdir(p, n) \/ Create(p, n) \/ Rmdir(p, n) \/ Unlink(p, n)
    <3>1. PICK p \in Directories, n \in Names :
            Mkdir(p, n) \/ Create(p, n) \/ Rmdir(p, n) \/ Unlink(p, n)
      BY <2>1
    <3>2. Tree!Mkdir(p, n) \/ Tree!Create(p, n) \/ Tree!Rmdir(p, n) \/ Tree!Unlink(p, n)
      BY <1>2, <3>1, MkdirImplements, CreateImplements, RmdirImplements, UnlinkImplements
    <3>3. p \in {d \in Reachable : IsDir(img, d)}
      BY DEF Directories
    <3> QED BY <3>2, <3>3 DEF Tree!Next
  <2>2. CASE \E p, q \in Directories, n, m \in Names : Rename(p, n, q, m)
    <3>1. PICK p \in Directories, q \in Directories, n \in Names, m \in Names :
            Rename(p, n, q, m)
      BY <2>2
    <3>2. Tree!Rename(p, n, q, m)
      BY <1>2, <3>1, RenameImplements
    <3>3. p \in {d \in Reachable : IsDir(img, d)} /\ q \in {d \in Reachable : IsDir(img, d)}
      BY DEF Directories
    <3> QED BY <3>2, <3>3 DEF Tree!Next
  <2>3. CASE Remount
    BY <2>3, RemountImplements DEF Tree!Next
  <2>4. CASE Astray
    <3>1. ~ Intact'
      BY <2>4 DEF Astray, Intact, Damage
    <3> QED BY <3>1 DEF Tree!Next, Tree!Remount
  <2>5. CASE UNCHANGED vars
    <3>1. img' = img /\ hit' = hit /\ ret' = ret
      BY <2>5 DEF vars
    <3>2. Reachable' = Reachable
      BY <3>1 DEF Reachable
    <3>3. /\ Edges' = Edges /\ Intact' = Intact
          /\ {d \in Reachable : IsDir(img, d)}' = {d \in Reachable : IsDir(img, d)}
      BY <3>1, <3>2 DEF Edges, Intact
    <3> QED BY <3>1, <3>3 DEF Tree!vars
  <2> QED BY <1>2, <2>1, <2>2, <2>3, <2>4, <2>5 DEF Next
<1>3. Spec => []Both
  BY Invariant, SoundInvariant, PTL
<1> HIDE DEF Both
<1> QED BY <1>1, <1>2, <1>3, PTL DEF Spec, Tree!Spec

-----------------------------------------------------------------------------
(* Where names are not.                                                    *)

\* The blocks mkfs writes hold ".", ".." and an extent; the others, nothing.
LEMMA InitNameless ==
  ASSUME Init
  PROVE  FilesNameless
<1> DEFINE cell(b, k) == CASE b = FirstData /\ k = 0     -> Extent(FirstData + 1)
                           [] b = FirstData + 1 /\ k = 0 -> Dentry(0, ".")
                           [] b = FirstData + 1 /\ k = 1 -> Dentry(0, "..")
                           [] OTHER                      -> ZeroCell
<1>1. /\ img = Formatted /\ 0 \in Inodes /\ 0 \in Slots /\ 1 \in Slots
      /\ \A n \in {".", "..", "zeros", "extent"} : n \notin Names
  BY Sizes, ImageAssumption DEF Init, Inodes, Slots
<1>2. /\ img.mem = [b \in Blocks |-> [k \in Slots |-> cell(b, k)]]
      /\ IsDir(img, 0)
  BY <1>1 DEF Formatted, RootInode, IsDir
<1>3. ASSUME NEW b \in Blocks, NEW k \in Slots
      PROVE  cell(b, k).tail \notin Names
  <2>1. cell(b, k) \in {Extent(FirstData + 1), Dentry(0, "."), Dentry(0, ".."), ZeroCell}
    OBVIOUS
  <2> HIDE DEF cell
  <2> QED BY <1>1, <2>1 DEF Extent, Dentry, ZeroCell
<1> HIDE DEF cell
<1>4. \A b \in Blocks : NoNameFirst(img, b)
  BY <1>1, <1>2, <1>3 DEF NoNameFirst
<1>5. Reachable = {0}
  BY InitSound
<1> QED BY <1>2, <1>4, <1>5 DEF FilesNameless, Nameless

\* No step puts a name where a file's entries would be.
LEMMA NextNameless ==
  ASSUME IInv, SoundInv, FilesNameless, [Next]_vars
  PROVE  FilesNameless'
<1> SUFFICES ASSUME Intact'
             PROVE  Nameless(img', Reachable')
  BY DEF FilesNameless
<1>1. PICK K \in SUBSET Inodes : Sounds(K)
  BY NextSounds
<1>2. Reachable' = K /\ Backs(img, img', Reachable, K)
  BY <1>1, ReachableNext DEF Sounds
<1>3. Nameless(img, Reachable)
  BY IntactBefore DEF FilesNameless
<1> QED BY <1>2, <1>3 DEF Backs, Nameless, StillNoNames

\* On an intact image a file's two entries are what older inodes left in its
\* block, and never a name: a walk finds nothing below a file.
THEOREM FilesAreNameless == Spec => []FilesNameless
<1> DEFINE All == IInv /\ SoundInv /\ FilesNameless
<1>1. Init => All
  BY InitGood, InitSound, InitNameless
<1>2. All /\ [Next]_vars => All'
  BY NextKeeps, NextSound, NextNameless
<1>3. All => FilesNameless
  OBVIOUS
<1> HIDE DEF All
<1> QED BY <1>1, <1>2, <1>3, PTL DEF Spec

=============================================================================

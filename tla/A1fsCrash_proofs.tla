-------------------------- MODULE A1fsCrash_proofs --------------------------
(* What a death at any store leaves of what the running call is not about, *)
(* and that the stores of a call nobody interrupts add up to its action in *)
(* A1fs: for every size of the image and every set of names.               *)
EXTENDS A1fsCrash, Intact_proofs

-----------------------------------------------------------------------------
(* Images in the middle of a call.  In what follows o is the image before  *)
(* the call c, L the nodes of its tree, and u what the mapping has become. *)

Img(ib, db, fi, fd, table, mem) ==
  [inode_bitmap |-> ib, data_bitmap |-> db, free_inode_count |-> fi,
   free_dblock_count |-> fd, inode |-> table, mem |-> mem]

Table == [Inodes -> Inode]

\* The data region while a name may be half copied.
LooseCell == [word : Int, tail : Names \cup {".", "..", "zeros", "extent", "torn"}]
LooseMem  == [Blocks -> [Slots -> LooseCell]]

\* The directories a call works in.
Worked(c) == {x[1] : x \in c.names}

\* Slot k of the block that directory d has in o.
There(o, u, d, k) == u.mem[DataBlock(o, d)][k]

Count(s, d) == s.inode[d].dentry_count

\* Nothing a path led to is freed, moved or, but for the directories the call
\* works in, written.
Held(o, L, c, u) ==
  /\ \A d \in L \ c.gone : d \in u.inode_bitmap /\ Occupied(o, d) \subseteq u.data_bitmap
  /\ \A d \in L : /\ u.inode[d].mode = o.inode[d].mode
                  /\ u.inode[d].ext_block = o.inode[d].ext_block
                  /\ u.mem[o.inode[d].ext_block] = o.mem[o.inode[d].ext_block]
  /\ \A d \in L \ Worked(c) : /\ u.inode[d] = o.inode[d]
                              /\ u.mem[DataBlock(o, d)] = o.mem[DataBlock(o, d)]

\* A directory whose entries are all where they were...
Whole(o, u, d) ==
  /\ Count(u, d) \in Int /\ Count(u, d) >= Count(o, d)
  /\ \A x \in 0 .. Count(o, d) - 1 : There(o, u, d, x) = Slot(o, d, x)

\* ... one in which those from k on move down, up to slot j, whose name is still
\* its own, or half copied when its inode number is the next entry's...
Shifting(o, u, d, k, j) ==
  /\ Count(u, d) \in Int /\ Count(u, d) >= Count(o, d)
  /\ \A x \in 0 .. Count(o, d) - 1 :
       /\ x < k \/ x > j => There(o, u, d, x) = Slot(o, d, x)
       /\ k <= x /\ x < j => There(o, u, d, x) = Slot(o, d, x + 1)
  /\ There(o, u, d, j).tail \in {Slot(o, d, j).tail, "torn"}
  /\ There(o, u, d, j).tail = "torn" => There(o, u, d, j).word = Slot(o, d, j + 1).word

\* ... and one in which they have.
Shifted(o, u, d, k) ==
  /\ Count(u, d) \in Int /\ Count(u, d) >= Count(o, d) - 1
  /\ \A x \in 0 .. Count(o, d) - 2 :
       /\ x < k  => There(o, u, d, x) = Slot(o, d, x)
       /\ x >= k => There(o, u, d, x) = Slot(o, d, x + 1)

\* Entry k has a name the call was given.
Given(o, c, d, k) == k \in 0 .. Count(o, d) - 1 /\ <<d, Slot(o, d, k).tail>> \in c.names

Settled(o, c, u, d) ==
  \/ Whole(o, u, d)
  \/ \E k \in 0 .. Count(o, d) - 1 :
       /\ Given(o, c, d, k)
       /\ \/ Shifted(o, u, d, k)
          \/ \E j \in k .. Count(o, d) - 2 : Shifting(o, u, d, k, j)

\* What is true of the mapping at every store of a call.
Ok(o, L, c, u) == Held(o, L, c, u) /\ \A d \in Worked(c) : Settled(o, c, u, d)

\* The stores S lead from s to t, through such images alone.
Leads(o, L, c, s, S, t) ==
  /\ \E X : S \in Seq(X)
  /\ \E f : /\ f[0] = s /\ f[Len(S)] = t
            /\ \A x \in 0 .. Len(S) : Ok(o, L, c, f[x])
            /\ \A x \in 1 .. Len(S) : f[x] = Apply(f[x - 1], S[x])

\* The image before a call: a sound one, and the call in its tree.
Before(o, L, c) ==
  /\ o \in ImageType /\ L \in SUBSET Inodes /\ Sound(o, L)
  /\ c.gone \subseteq L /\ Worked(c) \subseteq L

-----------------------------------------------------------------------------
(* Runs of stores, put together and taken apart.                           *)

\* No store, and one.
LEMMA LeadsNowhere ==
  ASSUME NEW o, NEW L, NEW c, NEW s, Ok(o, L, c, s)
  PROVE  Leads(o, L, c, s, <<>>, s)
<1> DEFINE f == [x \in {0} |-> s]
<1>1. <<>> \in Seq({s}) /\ Len(<<>>) = 0
  OBVIOUS
<1>2. f[0] = s /\ \A x \in 0 .. 0 : x = 0
  OBVIOUS
<1>3. \A x \in 1 .. 0 : FALSE
  OBVIOUS
<1> HIDE DEF f
<1> QED BY <1>1, <1>2, <1>3 DEF Leads

\* One store, from an image that keeps the others to one that does.
LEMMA LeadsOne ==
  ASSUME NEW o, NEW L, NEW c, NEW s, NEW a, Ok(o, L, c, s), Ok(o, L, c, Apply(s, a))
  PROVE  Leads(o, L, c, s, <<a>>, Apply(s, a))
<1> DEFINE t == Apply(s, a)
           f == [x \in {0, 1} |-> IF x = 0 THEN s ELSE t]
           S == <<a>>
<1>1. S \in Seq({a}) /\ Len(S) = 1 /\ S[1] = a
  OBVIOUS
<1>2. f[0] = s /\ f[1] = t /\ (\A x \in 0 .. 1 : x \in {0, 1}) /\ (\A x \in 1 .. 1 : x = 1)
  OBVIOUS
<1>3. f[1] = Apply(f[1 - 1], S[1])
  BY <1>1, <1>2
<1> HIDE DEF f, S
<1>4. \A x \in 0 .. Len(S) : Ok(o, L, c, f[x])
  BY <1>1, <1>2
<1>5. \A x \in 1 .. Len(S) : f[x] = Apply(f[x - 1], S[x])
  BY <1>1, <1>2, <1>3
<1>6. Leads(o, L, c, s, S, t)
  BY <1>1, <1>2, <1>4, <1>5 DEF Leads
<1> QED BY <1>6 DEF S

\* One run after another.
LEMMA LeadsOn ==
  ASSUME NEW o, NEW L, NEW c, NEW s, NEW A, NEW u, NEW B, NEW t,
         Leads(o, L, c, s, A, u), Leads(o, L, c, u, B, t)
  PROVE  Leads(o, L, c, s, A \o B, t)
<1>1. PICK X : A \in Seq(X)
  BY DEF Leads
<1>2. PICK Y : B \in Seq(Y)
  BY DEF Leads
<1>3. PICK f : /\ f[0] = s /\ f[Len(A)] = u
               /\ \A x \in 0 .. Len(A) : Ok(o, L, c, f[x])
               /\ \A x \in 1 .. Len(A) : f[x] = Apply(f[x - 1], A[x])
  BY DEF Leads
<1>4. PICK g : /\ g[0] = u /\ g[Len(B)] = t
               /\ \A x \in 0 .. Len(B) : Ok(o, L, c, g[x])
               /\ \A x \in 1 .. Len(B) : g[x] = Apply(g[x - 1], B[x])
  BY DEF Leads
<1> DEFINE a == Len(A)
           b == Len(B)
           S == A \o B
           h == [x \in 0 .. a + b |-> IF x <= a THEN f[x] ELSE g[x - a]]
<1>5. /\ a \in Nat /\ b \in Nat /\ Len(S) = a + b
      /\ \A x \in 1 .. a + b : S[x] = IF x <= a THEN A[x] ELSE B[x - a]
  BY <1>1, <1>2
<1>6. S \in Seq(X \cup Y)
  <2>1. A \in Seq(X \cup Y) /\ B \in Seq(X \cup Y)
    BY <1>1, <1>2
  <2> QED BY <2>1
<1> HIDE DEF S
<1>7. /\ \A x \in 0 .. a : h[x] = f[x]
      /\ \A x \in a .. a + b : h[x] = g[x - a]
  <2>1. f[a] = g[0]
    BY <1>3, <1>4
  <2> HIDE DEF a, b
  <2> QED BY <1>5, <2>1
<1> HIDE DEF h
<1>8. h[0] = s /\ h[a + b] = t
  BY <1>3, <1>4, <1>5, <1>7
<1>9. \A x \in 0 .. a + b : Ok(o, L, c, h[x])
  <2> SUFFICES ASSUME NEW x \in 0 .. a + b
               PROVE  Ok(o, L, c, h[x])
    OBVIOUS
  <2>1. CASE x <= a
    BY <1>3, <1>5, <1>7, <2>1
  <2>2. CASE x > a
    <3>1. x - a \in 0 .. b /\ h[x] = g[x - a]
      BY <1>5, <1>7, <2>2
    <3> QED BY <1>4, <3>1
  <2> HIDE DEF a, b
  <2> QED BY <1>5, <2>1, <2>2
<1>10. \A x \in 1 .. a + b : h[x] = Apply(h[x - 1], S[x])
  <2> SUFFICES ASSUME NEW x \in 1 .. a + b
               PROVE  h[x] = Apply(h[x - 1], S[x])
    OBVIOUS
  <2>1. CASE x <= a
    <3>1. x \in 1 .. a /\ x - 1 \in 0 .. a /\ S[x] = A[x]
      BY <1>5, <2>1
    <3> QED BY <1>3, <1>5, <1>7, <3>1
  <2>2. CASE x > a
    <3>1. /\ x - a \in 1 .. b /\ S[x] = B[x - a] /\ x \in a .. a + b /\ x - 1 \in a .. a + b
          /\ (x - 1) - a = (x - a) - 1
      BY <1>5, <2>2
    <3>2. h[x] = g[x - a] /\ h[x - 1] = g[(x - a) - 1]
      BY <1>7, <3>1
    <3> QED BY <1>4, <3>1, <3>2
  <2> HIDE DEF a, b
  <2> QED BY <1>5, <2>1, <2>2
<1>11. Leads(o, L, c, s, S, t)
  BY <1>5, <1>6, <1>8, <1>9, <1>10 DEF Leads
<1> QED BY <1>11 DEF S

\* What is left of a run after its first store.
LEMMA LeadsFrom ==
  ASSUME NEW o, NEW L, NEW c, NEW s, NEW S, NEW t, Leads(o, L, c, s, S, t), S # <<>>
  PROVE  Leads(o, L, c, Apply(s, Head(S)), Tail(S), t)
<1>1. PICK X : S \in Seq(X)
  BY DEF Leads
<1>2. PICK f : /\ f[0] = s /\ f[Len(S)] = t
               /\ \A x \in 0 .. Len(S) : Ok(o, L, c, f[x])
               /\ \A x \in 1 .. Len(S) : f[x] = Apply(f[x - 1], S[x])
  BY DEF Leads
<1> DEFINE l == Len(S)
           R == Tail(S)
           g == [x \in 0 .. l - 1 |-> f[x + 1]]
<1>3. /\ l \in Nat /\ l >= 1 /\ Len(R) = l - 1 /\ R \in Seq(X) /\ Head(S) = S[1]
      /\ \A x \in 1 .. l - 1 : R[x] = S[x + 1]
  BY <1>1
<1> HIDE DEF R, l
<1>4. g[0] = Apply(s, Head(S)) /\ g[l - 1] = t
  <2>1. f[1] = Apply(f[1 - 1], S[1]) /\ g[0] = f[1] /\ g[l - 1] = f[l]
    BY <1>2, <1>3 DEF l
  <2> QED BY <1>2, <1>3, <2>1 DEF l
<1>5. \A x \in 0 .. l - 1 : Ok(o, L, c, g[x])
  BY <1>2, <1>3 DEF l
<1>6. \A x \in 1 .. l - 1 : g[x] = Apply(g[x - 1], R[x])
  <2> SUFFICES ASSUME NEW x \in 1 .. l - 1
               PROVE  g[x] = Apply(g[x - 1], R[x])
    OBVIOUS
  <2>1. g[x] = f[x + 1] /\ g[x - 1] = f[x] /\ x + 1 \in 1 .. l /\ (x + 1) - 1 = x /\ R[x] = S[x + 1]
    BY <1>3
  <2> HIDE DEF g
  <2> QED BY <1>2, <2>1 DEF l
<1> HIDE DEF g
<1> QED BY <1>3, <1>4, <1>5, <1>6 DEF Leads, R

\* The first and the last image of a run.
LEMMA LeadsEnds ==
  ASSUME NEW o, NEW L, NEW c, NEW s, NEW S, NEW t, Leads(o, L, c, s, S, t)
  PROVE  /\ Ok(o, L, c, s) /\ Ok(o, L, c, t)
         /\ S = <<>> => s = t
<1>1. PICK X : S \in Seq(X)
  BY DEF Leads
<1>2. PICK f : /\ f[0] = s /\ f[Len(S)] = t
               /\ \A x \in 0 .. Len(S) : Ok(o, L, c, f[x])
  BY DEF Leads
<1>3. Len(S) \in Nat /\ 0 \in 0 .. Len(S) /\ Len(S) \in 0 .. Len(S) /\ (S = <<>> => Len(S) = 0)
  BY <1>1
<1> QED BY <1>2, <1>3

-----------------------------------------------------------------------------
(* What is true at every store is what others rely on.                     *)

OthersKeptIn(o, L, c, u) ==
  \A d \in L, n \in Names : \A k \in Slots :
    /\ IsDir(o, d) /\ <<d, n>> \notin c.names /\ IsAt(o, d, n, k)
    => \E j \in Slots :
         /\ j < u.inode[d].dentry_count
         /\ DentryAt(u, d, j) = DentryAt(o, d, k)
         /\ \A x \in 0 .. j - 1 :
              /\ DentryAt(u, d, x).tail # n
              /\ DentryAt(u, d, x).tail = "torn" =>
                   DentryAt(u, d, x).word = DentryAt(u, d, x + 1).word

OthersUntouchedIn(o, L, c, u) ==
  \A d \in L \ c.gone :
    /\ d \in u.inode_bitmap
    /\ Occupied(o, d) \subseteq u.data_bitmap
    /\ u.inode[d].mode = o.inode[d].mode
    /\ u.inode[d].ext_block = o.inode[d].ext_block
    /\ DataBlock(u, d) = DataBlock(o, d)
    /\ (\A x \in c.names : x[1] # d) =>
         /\ u.inode[d] = o.inode[d]
         /\ \A k \in 0 .. o.inode[d].dentry_count - 1 :
              DentryAt(u, d, k) = DentryAt(o, d, k)

\* A node's entries are read from the block they were in.
ReadsIn(o, u, d) ==
  /\ DataBlock(u, d) = DataBlock(o, d)
  /\ \A x \in Slots : DentryAt(u, d, x) = There(o, u, d, x)
  /\ Count(o, d) \in Nat /\ Count(o, d) >= 2 /\ Count(o, d) <= DentriesPerBlock
  /\ \A x \in 0 .. Count(o, d) - 1 : x \in Slots /\ DentryAt(o, d, x) = Slot(o, d, x)

\* The directories of the tree are still read where they were.
LEMMA ReadThere ==
  ASSUME NEW o, NEW L \in SUBSET Inodes, NEW c, NEW u, Held(o, L, c, u),
         NEW d \in L, LaidOut(o, d)
  PROVE  ReadsIn(o, u, d)
<1>1. DataBlock(u, d) = DataBlock(o, d)
  BY DEF Held, DataBlock
<1>2. \A x \in Slots : DentryAt(u, d, x) = There(o, u, d, x)
  BY <1>1, Sizes DEF DentryAt, At, There, Slots
<1>3. /\ Count(o, d) \in Nat /\ Count(o, d) >= 2 /\ Count(o, d) <= DentriesPerBlock
      /\ \A x \in 0 .. Count(o, d) - 1 : x \in Slots /\ DentryAt(o, d, x) = Slot(o, d, x)
  BY LaidOutFacts DEF Count
<1> QED BY <1>1, <1>2, <1>3 DEF ReadsIn

\* No name stands half copied before a call.
LEMMA NoneTorn ==
  ASSUME NEW o \in ImageType, NEW d \in Inodes, LaidOut(o, d), NEW x \in Slots
  PROVE  Slot(o, d, x).tail # "torn"
<1>1. o.mem \in MemType /\ DataBlock(o, d) \in Blocks
  BY DEF ImageType, LaidOut
<1>2. Slot(o, d, x) \in Cell
  BY <1>1 DEF MemType, Slot
<1> QED BY <1>2, TornAssumption DEF Cell, ZeroCell

\* Every name but those of the call keeps its entry.
LEMMA OkKept ==
  ASSUME NEW o, NEW L, NEW c, NEW u, Before(o, L, c), Ok(o, L, c, u)
  PROVE  OthersKeptIn(o, L, c, u)
<1> DEFINE Kept(d, n, k, j) ==
             /\ j < u.inode[d].dentry_count
             /\ DentryAt(u, d, j) = DentryAt(o, d, k)
             /\ \A x \in 0 .. j - 1 :
                  /\ DentryAt(u, d, x).tail # n
                  /\ DentryAt(u, d, x).tail = "torn" =>
                       DentryAt(u, d, x).word = DentryAt(u, d, x + 1).word
<1> SUFFICES ASSUME NEW d \in L, NEW n \in Names, NEW k \in Slots,
                    IsDir(o, d), <<d, n>> \notin c.names, IsAt(o, d, n, k)
             PROVE  \E j \in Slots : Kept(d, n, k, j)
  BY DEF OthersKeptIn
<1> DEFINE count == Count(o, d)
           old(x) == Slot(o, d, x)
           new(x) == There(o, u, d, x)
<1>1. Held(o, L, c, u) /\ L \in SUBSET Inodes /\ LaidOut(o, d)
  BY DEF Ok, Before, Sound
<1>2. /\ \A x \in Slots : DentryAt(u, d, x) = new(x)
      /\ count \in Nat /\ count >= 2 /\ count <= DentriesPerBlock
      /\ \A x \in 0 .. count - 1 : x \in Slots /\ DentryAt(o, d, x) = old(x)
  <2>1. ReadsIn(o, u, d)
    BY <1>1, ReadThere
  <2> QED BY <2>1 DEF ReadsIn
<1>3. /\ k \in 0 .. count - 1 /\ k \in Nat /\ old(k).tail = n
      /\ \A x \in 0 .. k - 1 : x \in 0 .. count - 1 /\ old(x).tail # n
  BY <1>2 DEF IsAt, Count
<1>4. \A x \in 0 .. count - 1 : old(x).tail # "torn"
  <2>1. o \in ImageType /\ d \in Inodes
    BY <1>1 DEF Before
  <2> QED BY <1>1, <1>2, <2>1, NoneTorn
<1>5. ASSUME NEW j \in Slots, j < Count(u, d), new(j) = old(k),
             \A x \in 0 .. j - 1 :
               /\ new(x).tail # n
               /\ new(x).tail = "torn" => new(x).word = new(x + 1).word
      PROVE  \E y \in Slots : Kept(d, n, k, y)
  <2>1. \A x \in 0 .. j - 1 : x \in Slots /\ x + 1 \in Slots
    BY Sizes DEF Slots
  <2>2. /\ DentryAt(u, d, j) = new(j) /\ DentryAt(o, d, k) = old(k)
        /\ \A x \in 0 .. j - 1 : DentryAt(u, d, x) = new(x) /\ DentryAt(u, d, x + 1) = new(x + 1)
    BY <1>2, <1>3, <2>1
  <2> HIDE DEF new, old
  <2>3. Kept(d, n, k, j)
    BY <1>5, <2>2 DEF Count
  <2> HIDE DEF Kept
  <2> QED BY <2>3
<1>6. CASE d \notin Worked(c)
  <2>1. Count(u, d) = count /\ \A x \in 0 .. count - 1 : new(x) = old(x)
    BY <1>1, <1>6 DEF Held, Count, There, Slot
  <2>2. k \in Slots /\ k < Count(u, d) /\ new(k) = old(k)
    BY <1>2, <1>3, <2>1
  <2>3. \A x \in 0 .. k - 1 : new(x).tail # n /\ new(x).tail # "torn"
    BY <1>3, <1>4, <2>1
  <2> HIDE DEF count, old, new, Kept
  <2> QED BY <1>5, <2>2, <2>3
<1>7. CASE Whole(o, u, d)
  <2>1. Count(u, d) \in Int /\ Count(u, d) >= count /\ \A x \in 0 .. count - 1 : new(x) = old(x)
    BY <1>7 DEF Whole
  <2>2. k \in Slots /\ k < Count(u, d) /\ new(k) = old(k)
    BY <1>2, <1>3, <2>1
  <2>3. \A x \in 0 .. k - 1 : new(x).tail # n /\ new(x).tail # "torn"
    BY <1>3, <1>4, <2>1
  <2> HIDE DEF count, old, new, Kept
  <2> QED BY <1>5, <2>2, <2>3
<1>8. ASSUME NEW l \in 0 .. count - 1, Given(o, c, d, l), Shifted(o, u, d, l)
      PROVE  \E j \in Slots : Kept(d, n, k, j)
  <2>1. l # k
    BY <1>3, <1>8 DEF Given
  <2>2. /\ Count(u, d) \in Int /\ Count(u, d) >= count - 1
        /\ \A x \in 0 .. count - 2 : /\ x < l  => new(x) = old(x)
                                     /\ x >= l => new(x) = old(x + 1)
    BY <1>8 DEF Shifted
  <2> HIDE DEF count, old, new, Kept
  <2>3. CASE k < l
    <3>1. new(k) = old(k) /\ k < Count(u, d)
      BY <1>2, <1>3, <2>2, <2>3
    <3>2. \A x \in 0 .. k - 1 : new(x).tail # n /\ new(x).tail # "torn"
      BY <1>2, <1>3, <1>4, <2>2, <2>3
    <3> QED BY <1>5, <3>1, <3>2
  <2>4. CASE k > l
    <3>1. /\ k - 1 \in Slots /\ new(k - 1) = old(k) /\ k - 1 < Count(u, d)
      BY <1>2, <1>3, <2>2, <2>4
    <3>2. \A x \in 0 .. (k - 1) - 1 : new(x).tail # n /\ new(x).tail # "torn"
      <4> SUFFICES ASSUME NEW x \in 0 .. (k - 1) - 1
                   PROVE  new(x).tail # n /\ new(x).tail # "torn"
        OBVIOUS
      <4>1. x \in 0 .. count - 2 /\ x \in 0 .. k - 1 /\ x + 1 \in 0 .. k - 1
        BY <1>2, <1>3
      <4> QED BY <1>2, <1>3, <1>4, <2>2, <4>1
    <3> QED BY <1>5, <3>1, <3>2
  <2> QED BY <1>2, <1>3, <2>1, <2>3, <2>4
<1>9. ASSUME NEW l \in 0 .. count - 1, Given(o, c, d, l),
             NEW i \in l .. count - 2, Shifting(o, u, d, l, i)
      PROVE  \E j \in Slots : Kept(d, n, k, j)
  <2>1. l # k
    BY <1>3, <1>9 DEF Given
  <2>2. /\ Count(u, d) \in Int /\ Count(u, d) >= count
        /\ \A x \in 0 .. count - 1 : /\ x < l \/ x > i => new(x) = old(x)
                                     /\ l <= x /\ x < i => new(x) = old(x + 1)
        /\ new(i).tail \in {old(i).tail, "torn"}
        /\ new(i).tail = "torn" => new(i).word = old(i + 1).word
    BY <1>9 DEF Shifting
  <2>3. n # "torn"
    BY TornAssumption
  <2> HIDE DEF count, old, new, Kept
  <2>4. CASE k < l
    <3>1. new(k) = old(k) /\ k < Count(u, d)
      BY <1>2, <1>3, <2>2, <2>4
    <3>2. \A x \in 0 .. k - 1 : new(x).tail # n /\ new(x).tail # "torn"
      BY <1>2, <1>3, <1>4, <2>2, <2>4
    <3> QED BY <1>5, <3>1, <3>2
  <2>5. CASE k > l /\ k <= i
    <3>1. /\ k - 1 \in Slots /\ new(k - 1) = old(k) /\ k - 1 < Count(u, d)
      BY <1>2, <1>3, <2>2, <2>5
    <3>2. \A x \in 0 .. (k - 1) - 1 : new(x).tail # n /\ new(x).tail # "torn"
      <4> SUFFICES ASSUME NEW x \in 0 .. (k - 1) - 1
                   PROVE  new(x).tail # n /\ new(x).tail # "torn"
        OBVIOUS
      <4>1. x \in 0 .. count - 1 /\ x < i /\ x \in 0 .. k - 1 /\ x + 1 \in 0 .. k - 1
        BY <1>2, <1>3, <2>5
      <4> QED BY <1>2, <1>3, <1>4, <2>2, <4>1
    <3> QED BY <1>5, <3>1, <3>2
  <2>6. CASE k > i
    <3>1. new(k) = old(k) /\ k < Count(u, d)
      BY <1>2, <1>3, <2>2, <2>6
    <3>2. \A x \in 0 .. k - 1 : /\ new(x).tail # n
                                /\ new(x).tail = "torn" => new(x).word = new(x + 1).word
      <4> SUFFICES ASSUME NEW x \in 0 .. k - 1
                   PROVE  /\ new(x).tail # n
                          /\ new(x).tail = "torn" => new(x).word = new(x + 1).word
        OBVIOUS
      <4>1. x \in 0 .. count - 1 /\ old(x).tail # n /\ old(x).tail # "torn"
        BY <1>3, <1>4
      <4>2. CASE l <= x /\ x < i
        <5>1. x + 1 \in 0 .. k - 1 /\ new(x) = old(x + 1) /\ x + 1 \in 0 .. count - 1
          BY <1>2, <1>3, <2>2, <2>6, <4>1, <4>2
        <5> QED BY <1>3, <1>4, <5>1
      <4>3. CASE x = i
        <5>1. x + 1 \in 0 .. count - 1 /\ x + 1 > i
          BY <1>2, <1>3, <4>3
        <5>2. new(x + 1) = old(x + 1)
          BY <2>2, <5>1
        <5> QED BY <2>2, <2>3, <4>1, <4>3, <5>2
      <4>4. CASE x < l \/ x > i
        BY <2>2, <4>1, <4>4
      <4> QED BY <1>2, <4>1, <4>2, <4>3, <4>4
    <3> QED BY <1>5, <3>1, <3>2
  <2> QED BY <1>2, <1>3, <2>1, <2>4, <2>5, <2>6
<1>10. CASE d \in Worked(c)
  <2>1. Settled(o, c, u, d)
    BY <1>10 DEF Ok
  <2>2. CASE Whole(o, u, d)
    BY <1>7, <2>2
  <2>3. CASE ~ Whole(o, u, d)
    <3>1. PICK l \in 0 .. count - 1 :
            /\ Given(o, c, d, l)
            /\ \/ Shifted(o, u, d, l)
               \/ \E i \in l .. count - 2 : Shifting(o, u, d, l, i)
      BY <2>1, <2>3 DEF Settled
    <3> HIDE DEF Kept
    <3> QED BY <1>8, <1>9, <3>1
  <2> QED BY <2>2, <2>3
<1> QED BY <1>6, <1>10

\* Every node but those the call removes keeps its inode and blocks, and outside
\* the directories of the call its entries.
LEMMA OkUntouched ==
  ASSUME NEW o, NEW L, NEW c, NEW u, Before(o, L, c), Ok(o, L, c, u)
  PROVE  OthersUntouchedIn(o, L, c, u)
<1> SUFFICES ASSUME NEW d \in L \ c.gone
             PROVE  /\ d \in u.inode_bitmap
                    /\ Occupied(o, d) \subseteq u.data_bitmap
                    /\ u.inode[d].mode = o.inode[d].mode
                    /\ u.inode[d].ext_block = o.inode[d].ext_block
                    /\ DataBlock(u, d) = DataBlock(o, d)
                    /\ (\A x \in c.names : x[1] # d) =>
                         /\ u.inode[d] = o.inode[d]
                         /\ \A k \in 0 .. o.inode[d].dentry_count - 1 :
                              DentryAt(u, d, k) = DentryAt(o, d, k)
  BY DEF OthersUntouchedIn
<1>1. Held(o, L, c, u) /\ L \in SUBSET Inodes /\ LaidOut(o, d)
  BY DEF Ok, Before, Sound
<1>2. /\ DataBlock(u, d) = DataBlock(o, d)
      /\ \A x \in Slots : DentryAt(u, d, x) = There(o, u, d, x)
      /\ \A x \in 0 .. Count(o, d) - 1 : x \in Slots /\ DentryAt(o, d, x) = Slot(o, d, x)
  <2>1. ReadsIn(o, u, d)
    BY <1>1, ReadThere
  <2> QED BY <2>1 DEF ReadsIn
<1>3. ASSUME \A x \in c.names : x[1] # d
      PROVE  /\ u.inode[d] = o.inode[d]
             /\ \A k \in 0 .. o.inode[d].dentry_count - 1 :
                  DentryAt(u, d, k) = DentryAt(o, d, k)
  <2>1. d \in L \ Worked(c)
    BY <1>3 DEF Worked
  <2>2. u.inode[d] = o.inode[d] /\ \A x : There(o, u, d, x) = Slot(o, d, x)
    BY <1>1, <2>1 DEF Held, There, Slot
  <2> QED BY <1>2, <2>2 DEF Count
<1> QED BY <1>1, <1>2, <1>3 DEF Held

-----------------------------------------------------------------------------
(* One store, and the operators of Image, field by field.                  *)

\* Where the entries of inode d are.
BlockIn(table, mem, d) == mem[table[d].ext_block][0].word

\* A bit is set or cleared, a counter raised, a field of a slot or of an inode is written.
BitOn(bits, x)     == bits \cup {x}
BitOff(bits, x)     == bits \ {x}
Plus(x, y)          == x + y
WordPut(m, b, k, w) == [m EXCEPT ![b][k].word = w]
TailPut(m, b, k, t) == [m EXCEPT ![b][k].tail = t]
CountedBy(n, x, y)  == [n EXCEPT ![x].dentry_count = @ + y]
ModePut(n, x, y)    == [n EXCEPT ![x].mode = y]
CountPut(n, x)      == [n EXCEPT ![x].dentry_count = 2]
ExtentsPut(n, x, y) == [n EXCEPT ![x].ext_block = y]

\* Stores to bitmaps and counters.
LEMMA BitStores ==
  ASSUME NEW ib, NEW db, NEW fi, NEW fd, NEW n, NEW m, NEW x
  PROVE  LET s == Img(ib, db, fi, fd, n, m)
         IN  /\ Apply(s, InodeOn(x)) = Img(BitOn(ib, x), db, fi, fd, n, m)
             /\ Apply(s, BlockOn(x)) = Img(ib, BitOn(db, x), fi, fd, n, m)
             /\ Apply(s, BlockOff(x)) = Img(ib, BitOff(db, x), fi, fd, n, m)
             /\ Apply(s, DataOff(x)) = Img(ib, BitOff(db, Bit(BlockIn(n, m, x))), fi, fd, n, m)
             /\ Apply(s, ExtentOff(x)) = Img(ib, BitOff(db, Bit(n[x].ext_block)), fi, fd, n, m)
             /\ Apply(s, FreeInodes(x)) = Img(ib, db, Plus(fi, x), fd, n, m)
             /\ Apply(s, FreeBlocks(x)) = Img(ib, db, fi, Plus(fd, x), n, m)
<1> DEFINE s == Img(ib, db, fi, fd, n, m)
<1>1. Apply(s, InodeOn(x)) = Img(BitOn(ib, x), db, fi, fd, n, m)
  BY DEF Apply, InodeOn, Img, BitOn
<1>3. Apply(s, BlockOn(x)) = Img(ib, BitOn(db, x), fi, fd, n, m)
  BY DEF Apply, BlockOn, Img, BitOn
<1>4. Apply(s, BlockOff(x)) = Img(ib, BitOff(db, x), fi, fd, n, m)
  BY DEF Apply, BlockOff, Img, BitOff
<1>5. Apply(s, DataOff(x)) = Img(ib, BitOff(db, Bit(BlockIn(n, m, x))), fi, fd, n, m)
  BY DEF Apply, DataOff, Img, BitOff, DataBlock, BlockIn
<1>6. Apply(s, ExtentOff(x)) = Img(ib, BitOff(db, Bit(n[x].ext_block)), fi, fd, n, m)
  BY DEF Apply, ExtentOff, Img, BitOff
<1>7. Apply(s, FreeInodes(x)) = Img(ib, db, Plus(fi, x), fd, n, m)
  BY DEF Apply, FreeInodes, Img, Plus
<1>8. Apply(s, FreeBlocks(x)) = Img(ib, db, fi, Plus(fd, x), n, m)
  BY DEF Apply, FreeBlocks, Img, Plus
<1> QED BY <1>1, <1>3, <1>4, <1>5, <1>6, <1>7, <1>8

\* The bit of the inode that an entry names.
LEMMA InodeOffStore ==
  ASSUME NEW ib, NEW db, NEW fi, NEW fd, NEW n, NEW m, NEW x, NEW k
  PROVE  Apply(Img(ib, db, fi, fd, n, m), InodeOff(x, k)) =
           Img(BitOff(ib, At(m, BlockIn(n, m, x), k).word), db, fi, fd, n, m)
BY DEF Apply, InodeOff, Img, BitOff, DentryAt, DataBlock, BlockIn

\* Stores to the inode table.
LEMMA InodeStores ==
  ASSUME NEW ib, NEW db, NEW fi, NEW fd, NEW n, NEW m, NEW x, NEW y
  PROVE  LET s == Img(ib, db, fi, fd, n, m)
         IN  /\ Apply(s, EntryCount(x, y)) =
                  Img(ib, db, fi, fd, CountedBy(n, x, y), m)
             /\ Apply(s, NewMode(x, y)) = Img(ib, db, fi, fd, ModePut(n, x, y), m)
             /\ Apply(s, NewCount(x)) = Img(ib, db, fi, fd, CountPut(n, x), m)
             /\ Apply(s, NewExtents(x, y)) =
                  Img(ib, db, fi, fd, ExtentsPut(n, x, y), m)
<1> DEFINE s == Img(ib, db, fi, fd, n, m)
<1>1. Apply(s, EntryCount(x, y)) =
        Img(ib, db, fi, fd, CountedBy(n, x, y), m)
  BY DEF Apply, EntryCount, Img, WithEntries, CountedBy
<1>2. Apply(s, NewMode(x, y)) = Img(ib, db, fi, fd, ModePut(n, x, y), m)
  BY DEF Apply, NewMode, Img, ModePut
<1>3. Apply(s, NewCount(x)) = Img(ib, db, fi, fd, CountPut(n, x), m)
  BY DEF Apply, NewCount, Img, CountPut
<1>4. Apply(s, NewExtents(x, y)) = Img(ib, db, fi, fd, ExtentsPut(n, x, y), m)
  BY DEF Apply, NewExtents, Img, ExtentsPut
<1> QED BY <1>1, <1>2, <1>3, <1>4

\* Stores to the data region.
LEMMA CellStores ==
  ASSUME NEW ib, NEW db, NEW fi, NEW fd, NEW n, NEW m, NEW b, NEW k, NEW y
  PROVE  LET s == Img(ib, db, fi, fd, n, m)
         IN  /\ Apply(s, WordTo(b, k, y)) = Img(ib, db, fi, fd, n, WordPut(m, b, k, y))
             /\ Apply(s, TailTo(b, k, y)) = Img(ib, db, fi, fd, n, TailPut(m, b, k, y))
<1> DEFINE s == Img(ib, db, fi, fd, n, m)
<1>1. Apply(s, WordTo(b, k, y)) = Img(ib, db, fi, fd, n, WordPut(m, b, k, y))
  BY DEF Apply, WordTo, Img, WordPut
<1>2. Apply(s, TailTo(b, k, y)) = Img(ib, db, fi, fd, n, TailPut(m, b, k, y))
  BY DEF Apply, TailTo, Img, TailPut
<1> QED BY <1>1, <1>2

\* The copies that move an entry.
LEMMA CopyStores ==
  ASSUME NEW ib, NEW db, NEW fi, NEW fd, NEW n, NEW m, NEW p, NEW k
  PROVE  LET s == Img(ib, db, fi, fd, n, m)
             b == BlockIn(n, m, p)
         IN  /\ Apply(s, CopyIno(p, k)) =
                  Img(ib, db, fi, fd, n, WordPut(m, b, k, At(m, b, k + 1).word))
             /\ Apply(s, TearName(p, k)) =
                  Img(ib, db, fi, fd, n, TailPut(m, b, k, "torn"))
             /\ Apply(s, CopyName(p, k)) =
                  Img(ib, db, fi, fd, n, TailPut(m, b, k, At(m, b, k + 1).tail))
<1> DEFINE s == Img(ib, db, fi, fd, n, m)
           b == BlockIn(n, m, p)
<1>1. Apply(s, CopyIno(p, k)) =
        Img(ib, db, fi, fd, n, WordPut(m, b, k, At(m, b, k + 1).word))
  BY DEF Apply, CopyIno, Img, WordPut, DentryAt, DataBlock, BlockIn
<1>2. Apply(s, TearName(p, k)) =
        Img(ib, db, fi, fd, n, TailPut(m, b, k, "torn"))
  BY DEF Apply, TearName, Img, TailPut, DentryAt, DataBlock, BlockIn
<1>3. Apply(s, CopyName(p, k)) =
        Img(ib, db, fi, fd, n, TailPut(m, b, k, At(m, b, k + 1).tail))
  BY DEF Apply, CopyName, Img, TailPut, DentryAt, DataBlock, BlockIn
<1> QED BY <1>1, <1>2, <1>3

\* The bits of the blocks of inode x, and an image with another table or region.
BitsOf(n, m, x) == {Bit(BlockIn(n, m, x)), Bit(n[x].ext_block)}
TablePut(s, x)  == [s EXCEPT !.inode = x]
MemPut(s, x)    == [s EXCEPT !.mem = x]

\* What the operators of Image make of the same fields.
LEMMA ImageOperators ==
  ASSUME NEW ib, NEW db, NEW fi, NEW fd, NEW n, NEW m
  PROVE  LET s == Img(ib, db, fi, fd, n, m)
         IN  /\ \A i : TakeInode(s, i) = Img(ib \cup {i}, db, fi - 1, fd, n, m)
             /\ \A e, d : TakeBlocks(s, e, d) = Img(ib, db \cup {e, d}, fi, fd - 2, n, m)
             /\ \A p, x : WithEntries(s, p, x) =
                            Img(ib, db, fi, fd, CountedBy(n, p, x), m)
             /\ \A x : FreeNode(s, x) =
                         Img(ib \ {x}, db \ BitsOf(n, m, x), fi + 1, fd + 2, n, m)
             /\ \A x : TablePut(s, x) = Img(ib, db, fi, fd, x, m)
             /\ \A x : MemPut(s, x) = Img(ib, db, fi, fd, n, x)
<1> DEFINE s == Img(ib, db, fi, fd, n, m)
<1>0. /\ s.inode_bitmap = ib /\ s.data_bitmap = db /\ s.free_inode_count = fi
      /\ s.free_dblock_count = fd /\ s.inode = n /\ s.mem = m
      /\ \A x : DataBlock(s, x) = BlockIn(n, m, x)
  BY DEF Img, DataBlock, BlockIn
<1>1. ASSUME NEW i
      PROVE  TakeInode(s, i) = Img(ib \cup {i}, db, fi - 1, fd, n, m)
  <2> DEFINE bits == ib \cup {i}
             free == fi - 1
  <2>1. TakeInode(s, i) = [s EXCEPT !.inode_bitmap = bits, !.free_inode_count = free]
    BY <1>0 DEF TakeInode
  <2> HIDE DEF bits, free
  <2>2. TakeInode(s, i) = Img(bits, db, free, fd, n, m)
    BY <2>1 DEF Img
  <2> QED BY <2>2 DEF bits, free
<1>2. ASSUME NEW e, NEW d
      PROVE  TakeBlocks(s, e, d) = Img(ib, db \cup {e, d}, fi, fd - 2, n, m)
  <2> DEFINE bits == db \cup {e, d}
             free == fd - 2
  <2>1. TakeBlocks(s, e, d) = [s EXCEPT !.data_bitmap = bits, !.free_dblock_count = free]
    BY <1>0 DEF TakeBlocks
  <2> HIDE DEF bits, free
  <2>2. TakeBlocks(s, e, d) = Img(ib, bits, fi, free, n, m)
    BY <2>1 DEF Img
  <2> QED BY <2>2 DEF bits, free
<1>3. \A p, x : WithEntries(s, p, x) =
                  Img(ib, db, fi, fd, CountedBy(n, p, x), m)
  BY DEF Img, WithEntries, CountedBy
<1>4. ASSUME NEW x
      PROVE  FreeNode(s, x) =
               Img(ib \ {x}, db \ BitsOf(n, m, x), fi + 1, fd + 2, n, m)
  <2> DEFINE inodes == ib \ {x}
             blocks == db \ BitsOf(n, m, x)
             more == fi + 1
             more2 == fd + 2
  <2>1. FreeNode(s, x) = [s EXCEPT !.data_bitmap = blocks, !.inode_bitmap = inodes,
                                   !.free_inode_count = more, !.free_dblock_count = more2]
    BY <1>0 DEF FreeNode, BitsOf
  <2> HIDE DEF inodes, blocks, more, more2
  <2>2. FreeNode(s, x) = Img(inodes, blocks, more, more2, n, m)
    BY <2>1 DEF Img
  <2> QED BY <2>2 DEF inodes, blocks, more, more2
<1>5. /\ \A x : TablePut(s, x) = Img(ib, db, fi, fd, x, m)
      /\ \A x : MemPut(s, x) = Img(ib, db, fi, fd, n, x)
  BY DEF Img, TablePut, MemPut
<1> QED BY <1>1, <1>2, <1>3, <1>4, <1>5

\* Every image is made of its fields.
LEMMA ImageFields ==
  ASSUME NEW s \in ImageType
  PROVE  /\ s = Img(s.inode_bitmap, s.data_bitmap, s.free_inode_count, s.free_dblock_count,
                    s.inode, s.mem)
         /\ s.inode \in Table /\ s.mem \in LooseMem
<1>1. s = Img(s.inode_bitmap, s.data_bitmap, s.free_inode_count, s.free_dblock_count,
              s.inode, s.mem)
  BY DEF ImageType, Img
<1>2. s.inode \in Table
  BY DEF ImageType, Table
<1>3. s.mem \in LooseMem
  <2>1. Cell \subseteq LooseCell
    <3>1. Inodes \subseteq Int /\ Blocks \subseteq Int
      BY Sizes DEF Inodes, Blocks
    <3>2. [word : Inodes, tail : Names \cup {".", ".."}] \subseteq LooseCell
      BY <3>1 DEF LooseCell
    <3>3. [word : Blocks, tail : {"extent"}] \subseteq LooseCell
      BY <3>1 DEF LooseCell
    <3>4. ZeroCell \in LooseCell
      BY DEF LooseCell, ZeroCell
    <3> QED BY <3>2, <3>3, <3>4 DEF Cell
  <2>2. s.mem \in [Blocks -> [Slots -> Cell]]
    BY DEF ImageType, MemType
  <2> QED BY <2>1, <2>2 DEF LooseMem
<1> QED BY <1>1, <1>2, <1>3

-----------------------------------------------------------------------------
(* Stores that leave what others rely on.                                  *)

\* A directory whose inode and block are as they were is settled as it was.
LEMMA SameStatus ==
  ASSUME NEW o, NEW u, NEW v, NEW d, Count(v, d) = Count(u, d),
         v.mem[DataBlock(o, d)] = u.mem[DataBlock(o, d)]
  PROVE  /\ Whole(o, u, d) <=> Whole(o, v, d)
         /\ \A k : Shifted(o, u, d, k) <=> Shifted(o, v, d, k)
         /\ \A k, j : Shifting(o, u, d, k, j) <=> Shifting(o, v, d, k, j)
<1>1. \A x : There(o, v, d, x) = There(o, u, d, x)
  BY DEF There
<1>2. Whole(o, u, d) <=> Whole(o, v, d)
  BY <1>1 DEF Whole
<1>3. \A k : Shifted(o, u, d, k) <=> Shifted(o, v, d, k)
  BY <1>1 DEF Shifted
<1>4. \A k, j : Shifting(o, u, d, k, j) <=> Shifting(o, v, d, k, j)
  BY <1>1 DEF Shifting
<1> QED BY <1>2, <1>3, <1>4

\* What is settled stays so while the directory's block and count do.
LEMMA SettledSame ==
  ASSUME NEW o, NEW c, NEW u, NEW v, NEW d, Settled(o, c, u, d), Count(v, d) = Count(u, d),
         v.mem[DataBlock(o, d)] = u.mem[DataBlock(o, d)]
  PROVE  Settled(o, c, v, d)
BY SameStatus DEF Settled

\* v keeps of u what others rely on.
Spares(o, L, c, u, v) ==
  /\ \A d \in L \ c.gone : /\ d \in u.inode_bitmap => d \in v.inode_bitmap
                           /\ Occupied(o, d) \subseteq u.data_bitmap =>
                                Occupied(o, d) \subseteq v.data_bitmap
  /\ \A d \in L : /\ v.inode[d] = u.inode[d]
                  /\ v.mem[o.inode[d].ext_block] = u.mem[o.inode[d].ext_block]
                  /\ v.mem[DataBlock(o, d)] = u.mem[DataBlock(o, d)]

\* What touches nothing that others rely on keeps an image good.
LEMMA OkSpared ==
  ASSUME NEW o, NEW L, NEW c, Worked(c) \subseteq L, NEW u, NEW v,
         Ok(o, L, c, u), Spares(o, L, c, u, v)
  PROVE  Ok(o, L, c, v)
<1>1. Held(o, L, c, v)
  BY DEF Ok, Held, Spares
<1>2. ASSUME NEW d \in Worked(c)
      PROVE  Settled(o, c, v, d)
  <2>1. Settled(o, c, u, d) /\ d \in L
    BY <1>2 DEF Ok
  <2>2. Count(v, d) = Count(u, d) /\ v.mem[DataBlock(o, d)] = u.mem[DataBlock(o, d)]
    BY <2>1 DEF Spares, Count
  <2> QED BY <2>1, <2>2, SettledSame
<1> QED BY <1>1, <1>2 DEF Ok

\* Counters, and bits of nobody.
LEMMA OkBits ==
  ASSUME NEW o, NEW L, NEW c, Before(o, L, c),
         NEW ib, NEW db, NEW fi, NEW fd, NEW n, NEW m, Ok(o, L, c, Img(ib, db, fi, fd, n, m)),
         NEW ib2, NEW db2, NEW fi2, NEW fd2,
         \A d \in L \ c.gone : d \in ib => d \in ib2,
         \A d \in L \ c.gone : Occupied(o, d) \subseteq db => Occupied(o, d) \subseteq db2
  PROVE  Ok(o, L, c, Img(ib2, db2, fi2, fd2, n, m))
<1> DEFINE u == Img(ib, db, fi, fd, n, m)
           v == Img(ib2, db2, fi2, fd2, n, m)
<1>1. /\ u.inode_bitmap = ib /\ u.data_bitmap = db /\ u.inode = n /\ u.mem = m
      /\ v.inode_bitmap = ib2 /\ v.data_bitmap = db2 /\ v.inode = n /\ v.mem = m
  BY DEF Img
<1> HIDE DEF u, v
<1>2. Spares(o, L, c, u, v)
  BY <1>1 DEF Spares
<1> QED BY <1>2, OkSpared DEF Before, u, v

\* The inode of nobody.
LEMMA OkInode ==
  ASSUME NEW o, NEW L, NEW c, Before(o, L, c),
         NEW ib, NEW db, NEW fi, NEW fd, NEW n, NEW m, Ok(o, L, c, Img(ib, db, fi, fd, n, m)),
         NEW i \in Inodes \ L, NEW n2, \A x \in Inodes \ {i} : n2[x] = n[x]
  PROVE  Ok(o, L, c, Img(ib, db, fi, fd, n2, m))
<1> DEFINE u == Img(ib, db, fi, fd, n, m)
           v == Img(ib, db, fi, fd, n2, m)
<1>1. /\ u.inode_bitmap = ib /\ u.data_bitmap = db /\ u.inode = n /\ u.mem = m
      /\ v.inode_bitmap = ib /\ v.data_bitmap = db /\ v.inode = n2 /\ v.mem = m
  BY DEF Img
<1>2. \A d \in L : n2[d] = n[d]
  BY DEF Before
<1> HIDE DEF u, v
<1>3. Spares(o, L, c, u, v)
  BY <1>1, <1>2 DEF Spares
<1> QED BY <1>3, OkSpared DEF Before, u, v

\* A block of nobody.
Foreign(o, L, b) == \A d \in L : b # o.inode[d].ext_block /\ b # DataBlock(o, d)

\* So does a store into a block of nobody.
LEMMA OkBlock ==
  ASSUME NEW o, NEW L, NEW c, Before(o, L, c),
         NEW ib, NEW db, NEW fi, NEW fd, NEW n, NEW m, Ok(o, L, c, Img(ib, db, fi, fd, n, m)),
         NEW b \in Blocks, Foreign(o, L, b), NEW m2, \A x \in Blocks \ {b} : m2[x] = m[x]
  PROVE  Ok(o, L, c, Img(ib, db, fi, fd, n, m2))
<1> DEFINE u == Img(ib, db, fi, fd, n, m)
           v == Img(ib, db, fi, fd, n, m2)
<1>1. /\ u.inode_bitmap = ib /\ u.data_bitmap = db /\ u.inode = n /\ u.mem = m
      /\ v.inode_bitmap = ib /\ v.data_bitmap = db /\ v.inode = n /\ v.mem = m2
  BY DEF Img
<1>2. \A d \in L : o.inode[d].ext_block \in Blocks \ {b} /\ DataBlock(o, d) \in Blocks \ {b}
  BY DEF Before, Sound, LaidOut, Foreign
<1> HIDE DEF u, v
<1>3. Spares(o, L, c, u, v)
  BY <1>1, <1>2 DEF Spares
<1> QED BY <1>3, OkSpared DEF Before, u, v

\* A directory in which slot k is after the entries.
Open(o, c, u, p, k) ==
  /\ k \in Slots
  /\ \/ Whole(o, u, p) /\ k >= Count(o, p)
     \/ /\ k >= Count(o, p) - 1
        /\ \E l \in 0 .. Count(o, p) - 1 : Given(o, c, p, l) /\ Shifted(o, u, p, l)

\* A slot stays open while the directory's block and count do.
LEMMA OpenSame ==
  ASSUME NEW o, NEW c, NEW u, NEW v, NEW d, NEW k, Open(o, c, u, d, k), Count(v, d) = Count(u, d),
         v.mem[DataBlock(o, d)] = u.mem[DataBlock(o, d)]
  PROVE  Open(o, c, v, d, k)
BY SameStatus DEF Open

\* A directory's block is its own.
LEMMA OwnBlock ==
  ASSUME NEW o, NEW L, NEW c, Before(o, L, c), NEW p \in L
  PROVE  /\ DataBlock(o, p) \in Blocks
         /\ \A d \in L : /\ o.inode[d].ext_block \in Blocks \ {DataBlock(o, p)}
                         /\ DataBlock(o, d) \in Blocks
                         /\ d # p => DataBlock(o, d) # DataBlock(o, p)
         /\ p \in Inodes /\ LaidOut(o, p)
         /\ Count(o, p) \in Nat /\ Count(o, p) >= 2 /\ Count(o, p) <= DentriesPerBlock
<1>1. p \in Inodes /\ L \in SUBSET Inodes /\ LaidOut(o, p)
  BY DEF Before, Sound
<1>2. \A d \in L : o.inode[d].ext_block \in Blocks /\ DataBlock(o, d) \in Blocks
  BY DEF Before, Sound, LaidOut
<1>3. \A d \in L : /\ o.inode[d].ext_block # DataBlock(o, p)
                   /\ d # p => DataBlock(o, d) # DataBlock(o, p)
  BY DEF Before, Sound, Apart
<1>4. Count(o, p) \in Nat /\ Count(o, p) >= 2 /\ Count(o, p) <= DentriesPerBlock
  BY <1>1, LaidOutFacts DEF Count
<1> QED BY <1>1, <1>2, <1>3, <1>4

\* A store to the block of a worked directory, after which that one is settled.
LEMMA OkWorked ==
  ASSUME NEW o, NEW L, NEW c, Before(o, L, c), NEW p \in Worked(c), NEW u, NEW v,
         Ok(o, L, c, u), v.inode_bitmap = u.inode_bitmap, v.data_bitmap = u.data_bitmap,
         v.inode[p].mode = u.inode[p].mode, v.inode[p].ext_block = u.inode[p].ext_block,
         \A x \in Inodes \ {p} : v.inode[x] = u.inode[x],
         \A x \in Blocks \ {DataBlock(o, p)} : v.mem[x] = u.mem[x],
         Settled(o, c, v, p)
  PROVE  Ok(o, L, c, v)
<1>1. /\ \A d \in L : /\ o.inode[d].ext_block \in Blocks \ {DataBlock(o, p)}
                      /\ DataBlock(o, d) \in Blocks
                      /\ d # p => DataBlock(o, d) # DataBlock(o, p)
      /\ p \in L /\ Worked(c) \subseteq L /\ L \subseteq Inodes
  BY OwnBlock DEF Before
<1>2. Held(o, L, c, v)
  BY <1>1 DEF Ok, Held
<1>3. ASSUME NEW d \in Worked(c), d # p
      PROVE  Settled(o, c, v, d)
  <2>1. Settled(o, c, u, d) /\ d \in L
    BY <1>1, <1>3 DEF Ok
  <2>2. Count(v, d) = Count(u, d) /\ v.mem[DataBlock(o, d)] = u.mem[DataBlock(o, d)]
    BY <1>1, <1>3 DEF Count
  <2> QED BY <2>1, <2>2, SettledSame
<1> QED BY <1>2, <1>3 DEF Ok

\* A slot after the entries.
LEMMA OkBeyond ==
  ASSUME NEW o, NEW L, NEW c, Before(o, L, c), NEW p \in Worked(c),
         NEW ib, NEW db, NEW fi, NEW fd, NEW n, NEW m, Ok(o, L, c, Img(ib, db, fi, fd, n, m)),
         NEW k, Open(o, c, Img(ib, db, fi, fd, n, m), p, k),
         NEW m2, \A x \in Blocks \ {DataBlock(o, p)} : m2[x] = m[x],
         \A x \in Slots \ {k} : m2[DataBlock(o, p)][x] = m[DataBlock(o, p)][x]
  PROVE  /\ Ok(o, L, c, Img(ib, db, fi, fd, n, m2))
         /\ Open(o, c, Img(ib, db, fi, fd, n, m2), p, k)
<1> DEFINE u == Img(ib, db, fi, fd, n, m)
           v == Img(ib, db, fi, fd, n, m2)
<1>1. /\ u.inode_bitmap = ib /\ u.data_bitmap = db /\ u.inode = n /\ u.mem = m
      /\ v.inode_bitmap = ib /\ v.data_bitmap = db /\ v.inode = n /\ v.mem = m2
  BY DEF Img
<1>2. p \in L /\ Count(o, p) \in Nat /\ Count(o, p) <= DentriesPerBlock
  <2>1. p \in L
    BY DEF Before
  <2> QED BY <2>1, OwnBlock
<1> HIDE DEF u, v
<1>3. Open(o, c, u, p, k) /\ Ok(o, L, c, u)
  BY DEF u
<1>4. /\ Count(v, p) = Count(u, p)
      /\ \A x \in Slots \ {k} : There(o, v, p, x) = There(o, u, p, x)
  BY <1>1 DEF Count, There
<1>5. \A x \in 0 .. Count(o, p) - 1 : x \in Slots
  BY <1>2, Sizes DEF Slots
<1>6. ASSUME Whole(o, u, p), k >= Count(o, p)
      PROVE  Whole(o, v, p)
  <2>1. \A x \in 0 .. Count(o, p) - 1 : x # k
    BY <1>2, <1>6
  <2> QED BY <1>4, <1>5, <1>6, <2>1 DEF Whole
<1>7. ASSUME NEW l, Shifted(o, u, p, l), k >= Count(o, p) - 1
      PROVE  Shifted(o, v, p, l)
  <2>1. \A x \in 0 .. Count(o, p) - 2 : x # k /\ x \in Slots
    BY <1>2, <1>5, <1>7
  <2> QED BY <1>4, <1>7, <2>1 DEF Shifted
<1>8. Open(o, c, v, p, k)
  BY <1>3, <1>6, <1>7 DEF Open
<1>9. Settled(o, c, v, p)
  BY <1>8 DEF Open, Settled
<1>10. Ok(o, L, c, v)
  BY <1>1, <1>3, <1>9, OkWorked
<1> QED BY <1>8, <1>10 DEF v

\* A count that is raised.
LEMMA OkRaised ==
  ASSUME NEW o, NEW L, NEW c, Before(o, L, c), NEW p \in Worked(c),
         NEW ib, NEW db, NEW fi, NEW fd, NEW n \in Table, NEW m,
         Ok(o, L, c, Img(ib, db, fi, fd, n, m))
  PROVE  LET n2 == CountedBy(n, p, 1)
         IN  /\ Ok(o, L, c, Img(ib, db, fi, fd, n2, m)) /\ n2 \in Table
             /\ Whole(o, Img(ib, db, fi, fd, n, m), p) =>
                  Whole(o, Img(ib, db, fi, fd, n2, m), p)
<1> DEFINE n2 == CountedBy(n, p, 1)
           u == Img(ib, db, fi, fd, n, m)
           v == Img(ib, db, fi, fd, n2, m)
<1>1. p \in L /\ p \in Inodes
  BY DEF Before
<1>2. /\ n2 \in Table
      /\ n2[p].mode = n[p].mode /\ n2[p].ext_block = n[p].ext_block
      /\ n[p].dentry_count \in Int /\ n2[p].dentry_count = n[p].dentry_count + 1
      /\ \A x \in Inodes \ {p} : n2[x] = n[x]
  BY <1>1 DEF Table, Inode, CountedBy
<1>3. /\ u.inode_bitmap = ib /\ u.data_bitmap = db /\ u.inode = n /\ u.mem = m
      /\ v.inode_bitmap = ib /\ v.data_bitmap = db /\ v.inode = n2 /\ v.mem = m
  BY DEF Img
<1> HIDE DEF u, v, n2
<1>4. /\ Count(u, p) \in Int /\ Count(v, p) \in Int /\ Count(v, p) >= Count(u, p)
      /\ \A x : There(o, v, p, x) = There(o, u, p, x)
  BY <1>2, <1>3 DEF Count, There
<1>5. Count(o, p) \in Nat
  BY <1>1, OwnBlock
<1>6. /\ Whole(o, u, p) => Whole(o, v, p)
      /\ \A k : Shifted(o, u, p, k) => Shifted(o, v, p, k)
      /\ \A k, j : Shifting(o, u, p, k, j) => Shifting(o, v, p, k, j)
  BY <1>4, <1>5 DEF Whole, Shifted, Shifting
<1>7. Settled(o, c, u, p)
  BY DEF Ok, u
<1>8. Settled(o, c, v, p)
  BY <1>6, <1>7 DEF Settled
<1>9. Ok(o, L, c, v)
  BY <1>2, <1>3, <1>8, OkWorked DEF u
<1> QED BY <1>2, <1>6, <1>9 DEF u, v, n2

\* A count that is lowered when the entries have moved.
LEMMA OkLowered ==
  ASSUME NEW o, NEW L, NEW c, Before(o, L, c), NEW p \in Worked(c),
         NEW ib, NEW db, NEW fi, NEW fd, NEW n \in Table, NEW m,
         Ok(o, L, c, Img(ib, db, fi, fd, n, m)),
         NEW k \in 0 .. Count(o, p) - 1, Given(o, c, p, k),
         Shifted(o, Img(ib, db, fi, fd, n, m), p, k), n[p].dentry_count = Count(o, p)
  PROVE  LET n2 == CountedBy(n, p, -1)
         IN  /\ Ok(o, L, c, Img(ib, db, fi, fd, n2, m)) /\ n2 \in Table
             /\ Shifted(o, Img(ib, db, fi, fd, n2, m), p, k)
<1> DEFINE n2 == CountedBy(n, p, -1)
           u == Img(ib, db, fi, fd, n, m)
           v == Img(ib, db, fi, fd, n2, m)
<1>1. p \in L /\ p \in Inodes
  BY DEF Before
<1>2. /\ n2 \in Table
      /\ n2[p].mode = n[p].mode /\ n2[p].ext_block = n[p].ext_block
      /\ n[p].dentry_count \in Int /\ n2[p].dentry_count = n[p].dentry_count - 1
      /\ \A x \in Inodes \ {p} : n2[x] = n[x]
  BY <1>1 DEF Table, Inode, CountedBy
<1>3. /\ u.inode_bitmap = ib /\ u.data_bitmap = db /\ u.inode = n /\ u.mem = m
      /\ v.inode_bitmap = ib /\ v.data_bitmap = db /\ v.inode = n2 /\ v.mem = m
  BY DEF Img
<1> HIDE DEF u, v, n2
<1>4. /\ Count(v, p) \in Int /\ Count(v, p) = Count(o, p) - 1
      /\ \A x : There(o, v, p, x) = There(o, u, p, x)
  BY <1>2, <1>3 DEF Count, There
<1>5. Count(o, p) \in Nat
  BY <1>1, OwnBlock
<1>6. Shifted(o, v, p, k)
  BY <1>4, <1>5 DEF Shifted, u
<1>7. Settled(o, c, v, p)
  BY <1>6 DEF Settled
<1>8. Ok(o, L, c, v)
  BY <1>2, <1>3, <1>7, OkWorked DEF u
<1> QED BY <1>2, <1>6, <1>8 DEF u, v, n2

-----------------------------------------------------------------------------
(* A few stores at a time.                                                 *)

\* Two stores.
LEMMA LeadsTwo ==
  ASSUME NEW o, NEW L, NEW c, NEW s, NEW a1, NEW s1, NEW a2, NEW s2,
         s1 = Apply(s, a1), s2 = Apply(s1, a2),
         Ok(o, L, c, s), Ok(o, L, c, s1), Ok(o, L, c, s2)
  PROVE  Leads(o, L, c, s, <<a1, a2>>, s2)
<1>1. Leads(o, L, c, s, <<a1>>, s1) /\ Leads(o, L, c, s1, <<a2>>, s2)
  BY LeadsOne
<1>2. <<a1, a2>> = <<a1>> \o <<a2>>
  OBVIOUS
<1> QED BY <1>1, <1>2, LeadsOn

\* Three stores.
LEMMA LeadsThree ==
  ASSUME NEW o, NEW L, NEW c, NEW s, NEW a1, NEW s1, NEW a2, NEW s2, NEW a3, NEW s3,
         s1 = Apply(s, a1), s2 = Apply(s1, a2), s3 = Apply(s2, a3),
         Ok(o, L, c, s), Ok(o, L, c, s1), Ok(o, L, c, s2), Ok(o, L, c, s3)
  PROVE  Leads(o, L, c, s, <<a1, a2, a3>>, s3)
<1>1. Leads(o, L, c, s, <<a1, a2>>, s2) /\ Leads(o, L, c, s2, <<a3>>, s3)
  BY LeadsOne, LeadsTwo
<1>2. <<a1, a2, a3>> = <<a1, a2>> \o <<a3>>
  OBVIOUS
<1> QED BY <1>1, <1>2, LeadsOn

\* A cell that is written.
LEMMA CellSet ==
  ASSUME NEW m \in LooseMem, NEW b \in Blocks, NEW k \in Slots, NEW x \in LooseCell
  PROVE  /\ Store(m, b, k, x) \in LooseMem /\ Store(m, b, k, x)[b][k] = x
         /\ \A y \in Blocks \ {b} : Store(m, b, k, x)[y] = m[y]
         /\ \A y \in Slots \ {k} : Store(m, b, k, x)[b][y] = m[b][y]
         /\ \A z : Store(Store(m, b, k, x), b, k, z) = Store(m, b, k, z)
<1>1. \A f, z : Store(f, b, k, z) = [f EXCEPT ![b][k] = z]
  BY Sizes DEF Store, Slots
<1>2. Store(m, b, k, x) \in LooseMem
  <2>1. [m EXCEPT ![b][k] = x] \in LooseMem
    BY DEF LooseMem
  <2> QED BY <1>1, <2>1
<1>3. Store(m, b, k, x)[b][k] = x
  <2>1. [m EXCEPT ![b][k] = x][b][k] = x
    BY DEF LooseMem
  <2> QED BY <1>1, <2>1
<1>4. \A y \in Blocks \ {b} : Store(m, b, k, x)[y] = m[y]
  <2>1. \A y \in Blocks \ {b} : [m EXCEPT ![b][k] = x][y] = m[y]
    BY DEF LooseMem
  <2> QED BY <1>1, <2>1
<1>5. \A y \in Slots \ {k} : Store(m, b, k, x)[b][y] = m[b][y]
  <2>1. \A y \in Slots \ {k} : [m EXCEPT ![b][k] = x][b][y] = m[b][y]
    BY DEF LooseMem
  <2> QED BY <1>1, <2>1
<1>6. \A z : Store(Store(m, b, k, x), b, k, z) = Store(m, b, k, z)
  <2> SUFFICES ASSUME NEW z
               PROVE  Store(Store(m, b, k, x), b, k, z) = Store(m, b, k, z)
    OBVIOUS
  <2> DEFINE m2 == [m EXCEPT ![b][k] = x]
  <2>1. [m2 EXCEPT ![b][k] = z] = [m EXCEPT ![b][k] = z]
    BY DEF LooseMem
  <2> HIDE DEF m2
  <2>2. Store(m, b, k, x) = m2
    BY <1>1 DEF m2
  <2>3. Store(m2, b, k, z) = [m2 EXCEPT ![b][k] = z] /\ Store(m, b, k, z) = [m EXCEPT ![b][k] = z]
    BY <1>1
  <2> QED BY <2>1, <2>2, <2>3
<1> QED BY <1>2, <1>3, <1>4, <1>5, <1>6

\* A cell half of which is written.
LEMMA HalfSet ==
  ASSUME NEW m \in LooseMem, NEW b \in Blocks, NEW k \in Slots, NEW y
  PROVE  /\ WordPut(m, b, k, y) = Store(m, b, k, Dentry(y, m[b][k].tail))
         /\ TailPut(m, b, k, y) = Store(m, b, k, Dentry(m[b][k].word, y))
<1>1. m[b][k] \in LooseCell
  BY DEF LooseMem
<1>2. \A f, z : Store(f, b, k, z) = [f EXCEPT ![b][k] = z]
  BY Sizes DEF Store, Slots
<1>3. WordPut(m, b, k, y) = Store(m, b, k, Dentry(y, m[b][k].tail))
  <2>1. [m[b][k] EXCEPT !.word = y] = Dentry(y, m[b][k].tail)
    BY <1>1 DEF LooseCell, Dentry
  <2> QED BY <1>2, <2>1 DEF WordPut
<1>4. TailPut(m, b, k, y) = Store(m, b, k, Dentry(m[b][k].word, y))
  <2>1. [m[b][k] EXCEPT !.tail = y] = Dentry(m[b][k].word, y)
    BY <1>1 DEF LooseCell, Dentry
  <2> QED BY <1>2, <2>1 DEF TailPut
<1> QED BY <1>3, <1>4

\* A slot nobody relies on: of nobody's block, or after a worked directory's entries.
Spare(o, L, c, u, b, k) ==
  /\ k \in Slots /\ b \in Blocks
  /\ \/ Foreign(o, L, b)
     \/ \E p \in Worked(c) : b = DataBlock(o, p) /\ Open(o, c, u, p, k)

\* A store into a spare slot keeps an image good, and the slot spare.
LEMMA OkCell ==
  ASSUME NEW o, NEW L, NEW c, Before(o, L, c),
         NEW ib, NEW db, NEW fi, NEW fd, NEW n, NEW m \in LooseMem,
         Ok(o, L, c, Img(ib, db, fi, fd, n, m)),
         NEW b, NEW k, Spare(o, L, c, Img(ib, db, fi, fd, n, m), b, k), NEW x \in LooseCell
  PROVE  /\ Ok(o, L, c, Img(ib, db, fi, fd, n, Store(m, b, k, x)))
         /\ Spare(o, L, c, Img(ib, db, fi, fd, n, Store(m, b, k, x)), b, k)
<1> DEFINE m2 == Store(m, b, k, x)
<1>1. b \in Blocks /\ k \in Slots
  BY DEF Spare
<1>2. /\ \A y \in Blocks \ {b} : m2[y] = m[y]
      /\ \A y \in Slots \ {k} : m2[b][y] = m[b][y]
  BY <1>1, CellSet
<1> HIDE DEF m2
<1>3. CASE Foreign(o, L, b)
  <2>1. Ok(o, L, c, Img(ib, db, fi, fd, n, m2))
    BY <1>1, <1>2, <1>3, OkBlock
  <2> QED BY <1>1, <1>3, <2>1 DEF Spare, m2
<1>4. CASE ~ Foreign(o, L, b)
  <2>1. PICK p \in Worked(c) : b = DataBlock(o, p) /\ Open(o, c, Img(ib, db, fi, fd, n, m), p, k)
    BY <1>4 DEF Spare
  <2>2. /\ Ok(o, L, c, Img(ib, db, fi, fd, n, m2))
        /\ Open(o, c, Img(ib, db, fi, fd, n, m2), p, k)
    BY <1>2, <2>1, OkBeyond
  <2> QED BY <1>1, <2>1, <2>2 DEF Spare, m2
<1> QED BY <1>3, <1>4

\* An entry, or the first extent of a block, is stored: number, then name.
LEMMA HalvesLead ==
  ASSUME NEW o, NEW L, NEW c, Before(o, L, c),
         NEW ib, NEW db, NEW fi, NEW fd, NEW n, NEW m \in LooseMem,
         Ok(o, L, c, Img(ib, db, fi, fd, n, m)),
         NEW b, NEW k, Spare(o, L, c, Img(ib, db, fi, fd, n, m), b, k),
         NEW w \in Int, NEW t \in Names \cup {".", "..", "extent"}
  PROVE  LET m2 == Store(m, b, k, Dentry(w, t))
             s  == Img(ib, db, fi, fd, n, m)
             s2 == Img(ib, db, fi, fd, n, m2)
         IN  /\ Leads(o, L, c, s, EntryStores(b, k, w, t), s2)
             /\ Leads(o, L, c, s, <<WordTo(b, k, w), TailTo(b, k, t)>>, s2)
             /\ m2 \in LooseMem
<1> DEFINE c1 == Dentry(w, m[b][k].tail)
           c2 == Dentry(w, "torn")
           c3 == Dentry(w, t)
           m1 == Store(m, b, k, c1)
           m2 == Store(m, b, k, c2)
           m3 == Store(m, b, k, c3)
           s == Img(ib, db, fi, fd, n, m)
           s1 == Img(ib, db, fi, fd, n, m1)
           s2 == Img(ib, db, fi, fd, n, m2)
           s3 == Img(ib, db, fi, fd, n, m3)
<1>1. b \in Blocks /\ k \in Slots
  BY DEF Spare
<1>2. c1 \in LooseCell /\ c2 \in LooseCell /\ c3 \in LooseCell /\ c1.word = w /\ c2.word = w
  BY <1>1 DEF LooseCell, LooseMem, Dentry
<1>3. \A z, y : /\ Apply(Img(ib, db, fi, fd, n, z), WordTo(b, k, y)) =
                     Img(ib, db, fi, fd, n, WordPut(z, b, k, y))
               /\ Apply(Img(ib, db, fi, fd, n, z), TailTo(b, k, y)) =
                     Img(ib, db, fi, fd, n, TailPut(z, b, k, y))
  BY CellStores
<1>4. s1 = Apply(s, WordTo(b, k, w))
  <2>1. WordPut(m, b, k, w) = m1
    BY <1>1, HalfSet
  <2> HIDE DEF m1
  <2> QED BY <1>3, <2>1
<1>5. Ok(o, L, c, s1) /\ Ok(o, L, c, s2) /\ Ok(o, L, c, s3)
  <2> HIDE DEF c1, c2, c3
  <2> QED BY <1>2, OkCell
<1>6. m1 \in LooseMem /\ m2 \in LooseMem /\ m3 \in LooseMem /\ m1[b][k] = c1 /\ m2[b][k] = c2
  <2> HIDE DEF c1, c2, c3
  <2> QED BY <1>1, <1>2, CellSet
<1>7. Store(m1, b, k, c2) = m2 /\ Store(m1, b, k, c3) = m3 /\ Store(m2, b, k, c3) = m3
  <2> HIDE DEF c1, c2, c3
  <2> QED BY <1>1, <1>2, CellSet
<1> HIDE DEF m1, m2, m3
<1>8. TailPut(m1, b, k, "torn") = m2 /\ TailPut(m1, b, k, t) = m3
  <2>1. /\ TailPut(m1, b, k, "torn") = Store(m1, b, k, Dentry(m1[b][k].word, "torn"))
        /\ TailPut(m1, b, k, t) = Store(m1, b, k, Dentry(m1[b][k].word, t))
    BY <1>1, <1>6, HalfSet
  <2> QED BY <1>2, <1>6, <1>7, <2>1
<1>9. TailPut(m2, b, k, t) = m3
  <2>1. TailPut(m2, b, k, t) = Store(m2, b, k, Dentry(m2[b][k].word, t))
    BY <1>1, <1>6, HalfSet
  <2> QED BY <1>2, <1>6, <1>7, <2>1
<1>10. /\ s2 = Apply(s1, TailTo(b, k, "torn")) /\ s3 = Apply(s1, TailTo(b, k, t))
       /\ s3 = Apply(s2, TailTo(b, k, t))
  BY <1>3, <1>8, <1>9
<1> HIDE DEF s, s1, s2, s3
<1>11. Leads(o, L, c, s, EntryStores(b, k, w, t), s3)
  BY <1>4, <1>5, <1>10, LeadsThree DEF s, EntryStores
<1>12. Leads(o, L, c, s, <<WordTo(b, k, w), TailTo(b, k, t)>>, s3)
  BY <1>4, <1>5, <1>10, LeadsTwo DEF s
<1> QED BY <1>6, <1>11, <1>12 DEF s, s3, m3

-----------------------------------------------------------------------------
(* Moving the entries down.                                                *)

\* Data regions are the same when their slots are.
LEMMA SameMem ==
  ASSUME NEW m1 \in LooseMem, NEW m2 \in LooseMem,
         \A y \in Blocks, z \in Slots : m1[y][z] = m2[y][z]
  PROVE  m1 = m2
<1>1. \A y \in Blocks : m1[y] \in [Slots -> LooseCell] /\ m2[y] \in [Slots -> LooseCell]
  BY DEF LooseMem
<1>2. \A y \in Blocks : m1[y] = m2[y]
  BY <1>1
<1> QED BY <1>2 DEF LooseMem

\* Block b of region m when the entries after k are moved down to slot j, and r
\* stores of that one are made.
Moving(m, b, k, j, r) ==
  [y \in Blocks |-> [z \in Slots |->
     IF y = b /\ k <= z /\ z < j THEN m[b][z + 1]
     ELSE IF y = b /\ z = j /\ r > 0
     THEN Dentry(m[b][j + 1].word, IF r = 1 THEN m[b][j].tail ELSE "torn")
     ELSE m[y][z]]]

\* What all regions in which the entries between k and j have moved have in common.
SlotsMoved(m, b, k, j, v) ==
  /\ v \in LooseMem
  /\ \A y \in Blocks \ {b} : v[y] = m[y]
  /\ \A z \in Slots : /\ k <= z /\ z < j => v[b][z] = m[b][z + 1]
                      /\ z < k \/ z > j => v[b][z] = m[b][z]

\* Slot by slot, the block of a directory whose entries are on the move.
LEMMA MovingCells ==
  ASSUME NEW m \in LooseMem, NEW b \in Blocks, NEW k \in Nat, NEW j \in Slots, k <= j,
         NEW r \in 0 .. 2,
         r > 0 => j + 1 \in Slots
  PROVE  /\ SlotsMoved(m, b, k, j, Moving(m, b, k, j, r))
         /\ Moving(m, b, k, j, r)[b][j] =
              IF r = 0 THEN m[b][j]
              ELSE Dentry(m[b][j + 1].word, IF r = 1 THEN m[b][j].tail ELSE "torn")
<1> DEFINE half == Dentry(m[b][j + 1].word, IF r = 1 THEN m[b][j].tail ELSE "torn")
           cell(y, z) == IF y = b /\ k <= z /\ z < j THEN m[b][z + 1]
                         ELSE IF y = b /\ z = j /\ r > 0 THEN half
                         ELSE m[y][z]
           v == [y \in Blocks |-> [z \in Slots |-> cell(y, z)]]
<1>1. v = Moving(m, b, k, j, r)
  BY DEF Moving
<1>2. \A y \in Blocks, z \in Slots : m[y][z] \in LooseCell
  BY DEF LooseMem
<1>3. ASSUME r > 0
      PROVE  half \in LooseCell
  BY <1>2, <1>3 DEF LooseCell, Dentry
<1>4. \A z \in Slots : z < j => z + 1 \in Slots
  BY Sizes DEF Slots
<1>5. \A y \in Blocks, z \in Slots : cell(y, z) \in LooseCell
  <2> HIDE DEF half
  <2> QED BY <1>2, <1>3, <1>4
<1>6. \A y \in Blocks, z \in Slots : v[y][z] = cell(y, z)
  OBVIOUS
<1>7. v \in LooseMem
  <2> HIDE DEF cell
  <2> QED BY <1>5 DEF LooseMem
<1>8. \A y \in Blocks \ {b} : v[y] = m[y]
  <2> SUFFICES ASSUME NEW y \in Blocks, y # b
               PROVE  v[y] = m[y]
    OBVIOUS
  <2>1. \A z \in Slots : v[y][z] = m[y][z]
    BY <1>6
  <2>2. v[y] \in [Slots -> LooseCell] /\ m[y] \in [Slots -> LooseCell]
    BY <1>7 DEF LooseMem
  <2> HIDE DEF v
  <2> QED BY <2>1, <2>2
<1>9. \A z \in Slots : /\ k <= z /\ z < j => v[b][z] = m[b][z + 1]
                       /\ z < k \/ z > j => v[b][z] = m[b][z]
  <2> SUFFICES ASSUME NEW z \in Slots
               PROVE  /\ k <= z /\ z < j => v[b][z] = m[b][z + 1]
                      /\ z < k \/ z > j => v[b][z] = m[b][z]
    OBVIOUS
  <2>1. v[b][z] = cell(b, z)
    BY <1>6
  <2>2. z < k \/ z > j => ~ (k <= z /\ z < j) /\ z # j
    BY Sizes DEF Slots
  <2> HIDE DEF v, half
  <2> QED BY <2>1, <2>2
<1>10. v[b][j] = IF r = 0 THEN m[b][j] ELSE half
  <2> HIDE DEF v, half
  <2> QED BY <1>6, Sizes DEF Slots
<1> HIDE DEF v
<1> QED BY <1>1, <1>7, <1>8, <1>9, <1>10 DEF SlotsMoved

\* The region that differs in one slot.
LEMMA StoreIs ==
  ASSUME NEW m \in LooseMem, NEW b \in Blocks, NEW k \in Slots, NEW v \in LooseMem,
         \A y \in Blocks \ {b} : v[y] = m[y],
         \A y \in Slots \ {k} : v[b][y] = m[b][y]
  PROVE  v = Store(m, b, k, v[b][k])
<1> DEFINE x == v[b][k]
           w == Store(m, b, k, x)
<1>1. x \in LooseCell
  BY DEF LooseMem
<1>2. /\ w \in LooseMem /\ w[b][k] = x
      /\ \A y \in Blocks \ {b} : w[y] = m[y]
      /\ \A y \in Slots \ {k} : w[b][y] = m[b][y]
  BY <1>1, CellSet
<1> HIDE DEF w
<1>3. \A y \in Blocks, z \in Slots : v[y][z] = w[y][z]
  BY <1>2
<1>4. v = w
  BY <1>2, <1>3, SameMem
<1> QED BY <1>4 DEF w

\* The three stores that move one entry.
LEMMA MovingPuts ==
  ASSUME NEW m \in LooseMem, NEW b \in Blocks, NEW k \in Nat, NEW j \in Slots, k <= j,
         j + 1 \in Slots
  PROVE  LET v0 == Moving(m, b, k, j, 0)
             v1 == Moving(m, b, k, j, 1)
             v2 == Moving(m, b, k, j, 2)
         IN  /\ WordPut(v0, b, j, At(v0, b, j + 1).word) = v1
             /\ TailPut(v1, b, j, "torn") = v2
             /\ TailPut(v2, b, j, At(v2, b, j + 1).tail) = Moving(m, b, k, j + 1, 0)
<1> DEFINE v0 == Moving(m, b, k, j, 0)
           v1 == Moving(m, b, k, j, 1)
           v2 == Moving(m, b, k, j, 2)
           v3 == Moving(m, b, k, j + 1, 0)
           next == m[b][j + 1]
           old == m[b][j]
<1>0. \A r \in 0 .. 2, l \in {j, j + 1} :
        l = j \/ r = 0 =>
          /\ SlotsMoved(m, b, k, l, Moving(m, b, k, l, r))
          /\ Moving(m, b, k, l, r)[b][l] =
               IF r = 0 THEN m[b][l]
               ELSE Dentry(m[b][l + 1].word, IF r = 1 THEN m[b][l].tail ELSE "torn")
  <2> SUFFICES ASSUME NEW r \in 0 .. 2, NEW l \in {j, j + 1}, l = j \/ r = 0
               PROVE  /\ SlotsMoved(m, b, k, l, Moving(m, b, k, l, r))
                      /\ Moving(m, b, k, l, r)[b][l] =
                           IF r = 0 THEN m[b][l]
                           ELSE Dentry(m[b][l + 1].word,
                                 IF r = 1 THEN m[b][l].tail ELSE "torn")
    OBVIOUS
  <2>1. l \in Slots /\ k <= l
    BY Sizes DEF Slots
  <2>2. r > 0 => l + 1 \in Slots
    OBVIOUS
  <2>3. SlotsMoved(m, b, k, l, Moving(m, b, k, l, r))
    BY <2>1, <2>2, MovingCells
  <2>4. Moving(m, b, k, l, r)[b][l] =
          IF r = 0 THEN m[b][l]
          ELSE Dentry(m[b][l + 1].word, IF r = 1 THEN m[b][l].tail ELSE "torn")
    BY <2>1, <2>2, MovingCells
  <2> QED BY <2>3, <2>4
<1>1. /\ SlotsMoved(m, b, k, j, v0) /\ v0[b][j] = old
      /\ SlotsMoved(m, b, k, j, v1) /\ v1[b][j] = Dentry(next.word, old.tail)
      /\ SlotsMoved(m, b, k, j, v2) /\ v2[b][j] = Dentry(next.word, "torn")
  BY <1>0
<1>2. SlotsMoved(m, b, k, j + 1, v3) /\ v3[b][j + 1] = next
  BY <1>0
<1>3. next \in LooseCell /\ old \in LooseCell
  BY DEF LooseMem
<1>4. /\ j \in Int /\ j < j + 1 /\ k <= j /\ \A z \in Slots : z \in Int /\ (z # j => z < j \/ z > j)
      /\ \A z \in Slots : z > j => z = j + 1 \/ z > j + 1
  BY Sizes DEF Slots
<1>5. At(v0, b, j + 1) = v0[b][j + 1] /\ At(v2, b, j + 1) = v2[b][j + 1]
  BY Sizes DEF At, Slots
<1> HIDE DEF v0, v1, v2, v3, next, old
<1>6. v0[b][j + 1] = next /\ v2[b][j + 1] = next
  BY <1>1, <1>4 DEF next, SlotsMoved
<1>14. v0 \in LooseMem /\ v1 \in LooseMem /\ v2 \in LooseMem /\ v3 \in LooseMem
  BY <1>1, <1>2 DEF SlotsMoved
<1>7. /\ \A z \in Slots \ {j} : z < j => v3[b][z] = v2[b][z]
      /\ \A z \in Slots \ {j} : z > j => v3[b][z] = v2[b][z]
  <2>1. ASSUME NEW z \in Slots, z < j
        PROVE  v3[b][z] = v2[b][z]
    <3>1. CASE z < k
      BY <1>1, <1>2, <3>1, <1>4, <2>1 DEF SlotsMoved
    <3>2. CASE k <= z
      <4>1. z < j + 1
        BY <1>4, <2>1
      <4> QED BY <1>1, <1>2, <2>1, <3>2, <4>1 DEF SlotsMoved
    <3> QED BY <1>4, <3>1, <3>2
  <2>2. ASSUME NEW z \in Slots, z > j
        PROVE  v3[b][z] = v2[b][z]
    <3>1. CASE z = j + 1
      BY <1>2, <1>6, <3>1
    <3>2. CASE z > j + 1
      BY <1>1, <1>2, <1>4, <2>2, <3>2 DEF SlotsMoved
    <3> QED BY <1>4, <2>2, <3>1, <3>2
  <2> QED BY <2>1, <2>2
<1>8. v1 = Store(v0, b, j, v1[b][j]) /\ v2 = Store(v1, b, j, v2[b][j])
  <2>1. \A z \in Slots \ {j} : v1[b][z] = v0[b][z] /\ v2[b][z] = v1[b][z]
    <3> SUFFICES ASSUME NEW z \in Slots, z # j
                 PROVE  v1[b][z] = v0[b][z] /\ v2[b][z] = v1[b][z]
      OBVIOUS
    <3>1. (k <= z /\ z < j) \/ (z < k \/ z > j)
      BY <1>4
    <3> QED BY <1>1, <3>1 DEF SlotsMoved
  <2>2. \A y \in Blocks \ {b} : v1[y] = v0[y] /\ v2[y] = v1[y]
    BY <1>1 DEF SlotsMoved
  <2> QED BY <1>1, <1>14, <2>1, <2>2, StoreIs
<1>9. v3 = Store(v2, b, j, v3[b][j]) /\ v3[b][j] = next
  <2>1. \A z \in Slots \ {j} : v3[b][z] = v2[b][z]
    BY <1>4, <1>7
  <2>2. \A y \in Blocks \ {b} : v3[y] = v2[y]
    BY <1>1, <1>2 DEF SlotsMoved
  <2>3. v3[b][j] = next
    BY <1>2, <1>4 DEF next, SlotsMoved
  <2> QED BY <1>1, <1>2, <1>14, <2>1, <2>2, <2>3, StoreIs
<1>10. next = Dentry(next.word, next.tail)
  BY <1>3 DEF LooseCell, Dentry
<1>11. WordPut(v0, b, j, next.word) = v1
  <2>1. WordPut(v0, b, j, next.word) = Store(v0, b, j, Dentry(next.word, v0[b][j].tail))
    BY <1>14, HalfSet
  <2> QED BY <1>1, <1>8, <1>14, <2>1
<1>15. v1[b][j].word = next.word /\ v2[b][j].word = next.word
  BY <1>1 DEF Dentry
<1>12. TailPut(v1, b, j, "torn") = v2
  <2>1. TailPut(v1, b, j, "torn") = Store(v1, b, j, Dentry(v1[b][j].word, "torn"))
    BY <1>14, HalfSet
  <2> QED BY <1>1, <1>8, <1>14, <1>15, <2>1
<1>13. TailPut(v2, b, j, next.tail) = v3
  <2>1. TailPut(v2, b, j, next.tail) = Store(v2, b, j, Dentry(v2[b][j].word, next.tail))
    BY <1>14, HalfSet
  <2> QED BY <1>1, <1>9, <1>10, <1>15, <2>1
<1> QED BY <1>5, <1>6, <1>11, <1>12, <1>13 DEF v0, v1, v2, v3

\* Nothing has moved, and everything has.
LEMMA MovingEnds ==
  ASSUME NEW m \in LooseMem, NEW b \in Blocks, NEW c \in 1 .. DentriesPerBlock,
         NEW k \in 0 .. c - 1
  PROVE  /\ Moving(m, b, k, k, 0) = m
         /\ Moving(m, b, k, c - 1, 0) = forward_layback_extents(m, b, k, c)
<1>1. k \in Slots /\ k \in Nat /\ k <= k /\ c - 1 \in Slots
  BY Sizes DEF Slots
<1>2. Moving(m, b, k, k, 0) = m
  <2> DEFINE v == Moving(m, b, k, k, 0)
  <2>1. SlotsMoved(m, b, k, k, v) /\ v[b][k] = m[b][k]
    <3>1. ~ (0 > 0) /\ 0 \in 0 .. 2
      OBVIOUS
    <3> QED BY <1>1, <3>1, MovingCells
  <2> HIDE DEF v
  <2>2. \A z \in Slots : v[b][z] = m[b][z]
    <3>1. \A z \in Slots : z < k \/ z > k \/ z = k
      BY Sizes DEF Slots
    <3> QED BY <2>1, <3>1 DEF SlotsMoved
  <2>3. \A y \in Blocks, z \in Slots : v[y][z] = m[y][z]
    BY <2>1, <2>2 DEF SlotsMoved
  <2>4. v = m
    BY <2>1, <2>3, SameMem DEF SlotsMoved
  <2> QED BY <2>4 DEF v
<1>3. Moving(m, b, k, c - 1, 0) = forward_layback_extents(m, b, k, c)
  <2> DEFINE Pos(x, j) == IF x = b THEN j ELSE DentriesPerBlock + j
             moved(x, j) == IF x \in {b, b + 1} /\ Pos(x, j) \in k .. c - 2
                            THEN At(m, b, Pos(x, j) + 1) ELSE m[x][j]
             moving(y, z) == IF y = b /\ k <= z /\ z < c - 1 THEN m[b][z + 1] ELSE m[y][z]
  <2>1. ASSUME NEW y \in Blocks, NEW z \in Slots
        PROVE  moving(y, z) = moved(y, z)
    <3>1. CASE y = b
      <4>1. Pos(y, z) = z /\ (z \in k .. c - 2 <=> k <= z /\ z < c - 1)
        BY <3>1, Sizes DEF Slots
      <4>2. z \in k .. c - 2 => At(m, b, z + 1) = m[b][z + 1]
        BY Sizes DEF Slots, At
      <4> QED BY <3>1, <4>1, <4>2
    <3>2. CASE y # b
      <4>1. Pos(y, z) \notin k .. c - 2
        BY <3>2, Sizes DEF Slots
      <4> QED BY <3>2, <4>1
    <3> QED BY <3>1, <3>2
  <2>2. forward_layback_extents(m, b, k, c) = [y \in Blocks |-> [z \in Slots |-> moved(y, z)]]
    BY DEF forward_layback_extents
  <2>3. Moving(m, b, k, c - 1, 0) = [y \in Blocks |-> [z \in Slots |-> moving(y, z)]]
    <3>1. ~ (0 > 0)
      OBVIOUS
    <3> QED BY <3>1 DEF Moving
  <2> HIDE DEF moved, moving
  <2> QED BY <2>1, <2>2, <2>3
<1> QED BY <1>2, <1>3

\* A position in a sequence of triples.
LEMMA Thirds ==
  ASSUME NEW x \in Nat
  PROVE  x \div 3 \in Nat /\ x % 3 \in 0 .. 2 /\ x = 3 * (x \div 3) + (x % 3)
BY Z3

\* Each entry that moves takes three stores: the next one, and which of the three it is.
LEMMA NextThird ==
  ASSUME NEW x \in Nat, x >= 1
  PROVE  LET q == (x - 1) \div 3
             r == (x - 1) % 3
         IN  /\ q \in Nat /\ r \in 0 .. 2
             /\ r = 2  => x \div 3 = q + 1 /\ x % 3 = 0
             /\ r # 2 => x \div 3 = q /\ x % 3 = r + 1
             /\ \A n \in Nat : x <= 3 * n => q < n
<1> DEFINE q == (x - 1) \div 3
           r == (x - 1) % 3
           u == x \div 3
           v == x % 3
<1>1. q \in Nat /\ r \in 0 .. 2 /\ x - 1 = 3 * q + r
  BY Thirds
<1>2. u \in Nat /\ v \in 0 .. 2 /\ x = 3 * u + v
  BY Thirds
<1> HIDE DEF q, r, u, v
<1>3. /\ r = 2  => u = q + 1 /\ v = 0
      /\ r # 2 => u = q /\ v = r + 1
      /\ \A n \in Nat : x <= 3 * n => q < n
  BY <1>1, <1>2
<1> QED BY <1>1, <1>3 DEF q, r, u, v

\* Where a worked directory's entries are found does not change.
LEMMA OkBlockIn ==
  ASSUME NEW o, NEW L, NEW c, Before(o, L, c), NEW p \in L,
         NEW ib, NEW db, NEW fi, NEW fd, NEW n, NEW m, Ok(o, L, c, Img(ib, db, fi, fd, n, m))
  PROVE  BlockIn(n, m, p) = DataBlock(o, p)
<1> DEFINE u == Img(ib, db, fi, fd, n, m)
<1>1. u.inode = n /\ u.mem = m
  BY DEF Img
<1> HIDE DEF u
<1>2. LaidOut(o, p) /\ L \in SUBSET Inodes
  BY DEF Before, Sound
<1>3. ReadsIn(o, u, p)
  BY <1>2, ReadThere DEF Ok, u
<1> QED BY <1>1, <1>3 DEF ReadsIn, DataBlock, BlockIn

\* In the middle of moving.
LEMMA OkMoving ==
  ASSUME NEW o, NEW L, NEW c, Before(o, L, c), NEW p \in Worked(c),
         NEW ib, NEW db, NEW fi, NEW fd, NEW n, NEW m \in LooseMem,
         Ok(o, L, c, Img(ib, db, fi, fd, n, m)), Whole(o, Img(ib, db, fi, fd, n, m), p),
         NEW k \in 0 .. Count(o, p) - 1, Given(o, c, p, k),
         NEW j \in k .. Count(o, p) - 1, NEW r \in 0 .. 2, j = Count(o, p) - 1 => r = 0
  PROVE  LET v == Img(ib, db, fi, fd, n, Moving(m, DataBlock(o, p), k, j, r))
         IN  /\ Ok(o, L, c, v)
             /\ j = Count(o, p) - 1 => Shifted(o, v, p, k)
<1> DEFINE b == DataBlock(o, p)
           m2 == Moving(m, b, k, j, r)
           u == Img(ib, db, fi, fd, n, m)
           v == Img(ib, db, fi, fd, n, m2)
           total == Count(o, p)
<1>0. p \in L
  BY DEF Before
<1>1. b \in Blocks /\ total \in Nat /\ total >= 2 /\ total <= DentriesPerBlock
  BY <1>0, OwnBlock
<1>2. /\ k \in Nat /\ j \in Slots /\ k <= j /\ j \in Nat /\ j <= total - 1
      /\ r > 0 => j + 1 \in Slots
      /\ \A x \in 0 .. total - 1 : x \in Slots /\ x \in Nat /\ (x # total - 1 => x + 1 \in 0 .. total - 1)
  BY <1>1, Sizes DEF Slots
<1>3. /\ SlotsMoved(m, b, k, j, m2)
      /\ m2[b][j] = IF r = 0 THEN m[b][j]
                    ELSE Dentry(m[b][j + 1].word, IF r = 1 THEN m[b][j].tail ELSE "torn")
  <2>1. SlotsMoved(m, b, k, j, m2)
    BY <1>1, <1>2, MovingCells
  <2>2. m2[b][j] = IF r = 0 THEN m[b][j]
                   ELSE Dentry(m[b][j + 1].word, IF r = 1 THEN m[b][j].tail ELSE "torn")
    BY <1>1, <1>2, MovingCells
  <2> QED BY <2>1, <2>2
<1>4. /\ u.inode_bitmap = ib /\ u.data_bitmap = db /\ u.inode = n /\ u.mem = m
      /\ v.inode_bitmap = ib /\ v.data_bitmap = db /\ v.inode = n /\ v.mem = m2
  BY DEF Img
<1>5. Ok(o, L, c, u) /\ Whole(o, u, p)
  OBVIOUS
<1> HIDE DEF u, v, m2
<1>6. /\ Count(v, p) = Count(u, p) /\ Count(u, p) \in Int /\ Count(u, p) >= total
      /\ \A x \in 0 .. total - 1 : m[b][x] = Slot(o, p, x)
      /\ \A x : There(o, v, p, x) = m2[b][x]
  BY <1>4, <1>5 DEF Whole, Count, There
<1>7. \A x \in 0 .. total - 1 : /\ x < k \/ x > j => m2[b][x] = Slot(o, p, x)
                                /\ k <= x /\ x < j => m2[b][x] = Slot(o, p, x + 1)
  <2> SUFFICES ASSUME NEW x \in 0 .. total - 1
               PROVE  /\ x < k \/ x > j => m2[b][x] = Slot(o, p, x)
                      /\ k <= x /\ x < j => m2[b][x] = Slot(o, p, x + 1)
    OBVIOUS
  <2>1. x < k \/ x > j => m2[b][x] = m[b][x]
    BY <1>2, <1>3 DEF SlotsMoved
  <2>2. k <= x /\ x < j => m2[b][x] = m[b][x + 1]
    BY <1>2, <1>3 DEF SlotsMoved
  <2>3. x < j => x + 1 \in 0 .. total - 1
    BY <1>1, <1>2
  <2> QED BY <1>6, <2>1, <2>2, <2>3
<1>8. ASSUME j # total - 1
      PROVE  /\ m2[b][j].tail \in {Slot(o, p, j).tail, "torn"}
             /\ m2[b][j].tail = "torn" => m2[b][j].word = Slot(o, p, j + 1).word
  <2>1. m[b][j] = Slot(o, p, j) /\ m[b][j + 1] = Slot(o, p, j + 1)
    <3>1. j \in 0 .. total - 1 /\ j + 1 \in 0 .. total - 1
      BY <1>1, <1>2, <1>8
    <3> QED BY <1>6, <3>1
  <2>2. CASE r = 0
    <3>1. o \in ImageType /\ p \in Inodes /\ LaidOut(o, p)
      BY <1>0 DEF Before, Sound
    <3>2. Slot(o, p, j).tail # "torn"
      BY <1>2, <3>1, NoneTorn
    <3> QED BY <1>3, <2>1, <2>2, <3>2
  <2>3. CASE r # 0
    <3>1. m2[b][j] = Dentry(m[b][j + 1].word, IF r = 1 THEN m[b][j].tail ELSE "torn")
      BY <1>3, <2>3
    <3> QED BY <2>1, <3>1 DEF Dentry
  <2> QED BY <2>2, <2>3
<1>9. ASSUME j = total - 1
      PROVE  Shifted(o, v, p, k)
  <2>1. \A x \in 0 .. total - 2 : /\ x \in 0 .. total - 1
                                  /\ x < k  => m2[b][x] = Slot(o, p, x)
                                  /\ x >= k => m2[b][x] = Slot(o, p, x + 1)
    BY <1>1, <1>2, <1>7, <1>9
  <2> QED BY <1>1, <1>6, <2>1 DEF Shifted
<1>10. ASSUME j # total - 1
       PROVE  j \in k .. total - 2 /\ Shifting(o, v, p, k, j)
  <2>1. j \in k .. total - 2
    BY <1>1, <1>2, <1>10
  <2> QED BY <1>6, <1>7, <1>8, <1>10, <2>1 DEF Shifting
<1>11. Settled(o, c, v, p)
  BY <1>9, <1>10 DEF Settled
<1>12. Ok(o, L, c, v)
  <2>1. \A x \in Blocks \ {b} : v.mem[x] = u.mem[x]
    BY <1>3, <1>4 DEF SlotsMoved
  <2> QED BY <1>4, <1>5, <1>11, <2>1, OkWorked
<1> QED BY <1>9, <1>12 DEF v, m2

\* forward_layback_extents, store by store.
LEMMA ShiftLeads ==
  ASSUME NEW L, NEW c, Before(img, L, c), NEW p \in Worked(c),
         NEW ib, NEW db, NEW fi, NEW fd, NEW n, NEW m \in LooseMem,
         Ok(img, L, c, Img(ib, db, fi, fd, n, m)), Whole(img, Img(ib, db, fi, fd, n, m), p),
         NEW k \in 0 .. Count(img, p) - 1, Given(img, c, p, k)
  PROVE  LET m2 == forward_layback_extents(m, DataBlock(img, p), k, Count(img, p))
             v  == Img(ib, db, fi, fd, n, m2)
         IN  /\ Leads(img, L, c, Img(ib, db, fi, fd, n, m), ShiftStores(p, k), v)
             /\ Shifted(img, v, p, k)
             /\ m2 \in LooseMem /\ \A x \in Blocks \ {DataBlock(img, p)} : m2[x] = m[x]
<1> DEFINE b == DataBlock(img, p)
           total == Count(img, p)
           N == total - 1 - k
           M(j, r) == Moving(m, b, k, j, r)
           I(j, r) == Img(ib, db, fi, fd, n, M(j, r))
           f == [x \in 0 .. 3 * N |-> I(k + (x \div 3), x % 3)]
           m2 == forward_layback_extents(m, b, k, total)
           S == ShiftStores(p, k)
           at(x) == k + ((x - 1) \div 3)
           store(x) == <<CopyIno(p, at(x)), TearName(p, at(x)), CopyName(p, at(x))>>[1 + ((x - 1) % 3)]
<1>0. p \in L
  BY DEF Before
<1>1. /\ b \in Blocks /\ total \in Nat /\ total >= 2 /\ total <= DentriesPerBlock
      /\ k \in Nat /\ N \in Nat
  BY <1>0, OwnBlock
<1>2. M(k, 0) = m /\ M(total - 1, 0) = m2
  <2>1. total \in 1 .. DentriesPerBlock /\ k \in 0 .. total - 1
    BY <1>1
  <2> HIDE DEF total
  <2> QED BY <1>1, <2>1, MovingEnds
<1>3. ASSUME NEW j \in k .. total - 1, NEW r \in 0 .. 2, j = total - 1 => r = 0
      PROVE  /\ Ok(img, L, c, I(j, r))
             /\ BlockIn(n, M(j, r), p) = b
             /\ j = total - 1 => Shifted(img, I(j, r), p, k)
  <2>1. Ok(img, L, c, I(j, r)) /\ (j = total - 1 => Shifted(img, I(j, r), p, k))
    BY <1>3, OkMoving
  <2>2. BlockIn(n, M(j, r), p) = b
    BY <1>0, <2>1, OkBlockIn
  <2> QED BY <2>1, <2>2
<1>4. ASSUME NEW j \in k .. total - 2
      PROVE  /\ I(j, 1) = Apply(I(j, 0), CopyIno(p, j))
             /\ I(j, 2) = Apply(I(j, 1), TearName(p, j))
             /\ I(j + 1, 0) = Apply(I(j, 2), CopyName(p, j))
  <2>1. j \in Slots /\ j + 1 \in Slots /\ k <= j /\ j \in k .. total - 1 /\ j # total - 1
    BY <1>1, Sizes DEF Slots
  <2>2. /\ WordPut(M(j, 0), b, j, At(M(j, 0), b, j + 1).word) = M(j, 1)
        /\ TailPut(M(j, 1), b, j, "torn") = M(j, 2)
        /\ TailPut(M(j, 2), b, j, At(M(j, 2), b, j + 1).tail) = M(j + 1, 0)
    BY <1>1, <2>1, MovingPuts
  <2>3. \A r \in 0 .. 2 : BlockIn(n, M(j, r), p) = b
    BY <1>3, <2>1
  <2> HIDE DEF M
  <2>4. Apply(I(j, 0), CopyIno(p, j)) =
          Img(ib, db, fi, fd, n, WordPut(M(j, 0), b, j, At(M(j, 0), b, j + 1).word))
    BY <2>3, CopyStores
  <2>5. Apply(I(j, 1), TearName(p, j)) = Img(ib, db, fi, fd, n, TailPut(M(j, 1), b, j, "torn"))
    BY <2>3, CopyStores
  <2>6. Apply(I(j, 2), CopyName(p, j)) =
          Img(ib, db, fi, fd, n, TailPut(M(j, 2), b, j, At(M(j, 2), b, j + 1).tail))
    BY <2>3, CopyStores
  <2> QED BY <2>2, <2>4, <2>5, <2>6
<1> HIDE DEF M, I
<1>5. S = [x \in 1 .. 3 * N |-> store(x)]
  BY DEF ShiftStores, Count
<1>6. Len(S) = 3 * N /\ \E X : S \in Seq(X)
  <2> DEFINE X == {store(x) : x \in 1 .. 3 * N}
  <2> HIDE DEF S, N, store
  <2>0. 3 * N \in Nat
    BY <1>1
  <2>1. S \in [1 .. 3 * N -> X]
    BY <1>5
  <2> HIDE DEF X
  <2>2. S \in Seq(X) /\ Len(S) = 3 * N
    BY <2>0, <2>1
  <2> QED BY <2>2
<1>7. \A x \in 1 .. 3 * N : S[x] = store(x)
  BY <1>5
<1> HIDE DEF S
<1>8. f[0] = Img(ib, db, fi, fd, n, m) /\ f[Len(S)] = Img(ib, db, fi, fd, n, m2)
  <2>1. 0 \div 3 = 0 /\ 0 % 3 = 0 /\ (3 * N) \div 3 = N /\ (3 * N) % 3 = 0
    BY <1>1
  <2>2. f[0] = I(k + 0, 0) /\ f[3 * N] = I(k + N, 0)
    BY <1>1, <2>1
  <2>3. k + 0 = k /\ k + N = total - 1
    BY <1>1
  <2> QED BY <1>2, <1>6, <2>2, <2>3 DEF I
<1>9. \A x \in 0 .. Len(S) : Ok(img, L, c, f[x])
  <2> SUFFICES ASSUME NEW x \in 0 .. 3 * N
               PROVE  Ok(img, L, c, f[x])
    BY <1>6
  <2> DEFINE q == x \div 3
             r == x % 3
  <2>1. q \in Nat /\ r \in 0 .. 2 /\ x = 3 * q + r
    BY <1>1, Thirds
  <2>2. f[x] = I(k + q, r)
    OBVIOUS
  <2> HIDE DEF q, r, f
  <2>3. k + q \in k .. total - 1 /\ (k + q = total - 1 => r = 0)
    BY <1>1, <2>1
  <2> QED BY <1>3, <2>1, <2>2, <2>3
<1>10. \A x \in 1 .. Len(S) : f[x] = Apply(f[x - 1], S[x])
  <2> SUFFICES ASSUME NEW x \in 1 .. 3 * N
               PROVE  f[x] = Apply(f[x - 1], S[x])
    BY <1>6
  <2> DEFINE q == (x - 1) \div 3
             r == (x - 1) % 3
             u == x \div 3
             v == x % 3
             j == k + q
  <2>1. /\ q \in Nat /\ r \in 0 .. 2 /\ q < N
        /\ r = 2  => u = q + 1 /\ v = 0
        /\ r # 2 => u = q /\ v = r + 1
    BY <1>1, NextThird
  <2>2. f[x] = I(k + u, v) /\ f[x - 1] = I(j, r)
    <3> HIDE DEF N
    <3>1. x \in 0 .. 3 * N /\ x - 1 \in 0 .. 3 * N
      BY <1>1
    <3> QED BY <3>1
  <2>3. S[x] = <<CopyIno(p, j), TearName(p, j), CopyName(p, j)>>[1 + r]
    BY <1>7
  <2> HIDE DEF q, r, u, v, f
  <2>4. j \in k .. total - 2
    BY <1>1, <2>1
  <2>5. CASE r = 0
    <3>1. S[x] = CopyIno(p, j) /\ k + u = j /\ v = 1
      BY <2>1, <2>3, <2>5
    <3> QED BY <1>4, <2>2, <2>4, <2>5, <3>1
  <2>6. CASE r = 1
    <3>1. S[x] = TearName(p, j) /\ k + u = j /\ v = 2
      BY <2>1, <2>3, <2>6
    <3> QED BY <1>4, <2>2, <2>4, <2>6, <3>1
  <2>7. CASE r = 2
    <3>1. S[x] = CopyName(p, j) /\ k + u = j + 1 /\ v = 0
      BY <1>1, <2>1, <2>3, <2>7
    <3> QED BY <1>4, <2>2, <2>4, <2>7, <3>1
  <2> QED BY <2>1, <2>5, <2>6, <2>7
<1> HIDE DEF f, m2
<1>11. Leads(img, L, c, Img(ib, db, fi, fd, n, m), S, Img(ib, db, fi, fd, n, m2))
  BY <1>6, <1>8, <1>9, <1>10 DEF Leads
<1>12. Shifted(img, Img(ib, db, fi, fd, n, m2), p, k)
  <2>1. total - 1 \in k .. total - 1 /\ 0 \in 0 .. 2
    BY <1>1
  <2> QED BY <1>2, <1>3, <2>1 DEF I
<1>13. m2 \in LooseMem /\ \A x \in Blocks \ {b} : m2[x] = m[x]
  <2>1. total - 1 \in Slots /\ k <= total - 1 /\ 0 \in 0 .. 2 /\ ~ (0 > 0)
    BY <1>1, Sizes DEF Slots
  <2>2. SlotsMoved(m, b, k, total - 1, M(total - 1, 0))
    BY <1>1, <2>1, MovingCells DEF M
  <2> QED BY <1>2, <2>2 DEF SlotsMoved
<1> QED BY <1>11, <1>12, <1>13 DEF S, m2

-----------------------------------------------------------------------------
(* The calls, each a run of stores with the effect its action has.         *)

\* Before its first store.
LEMMA OkStart ==
  ASSUME NEW o, NEW L, NEW c, Before(o, L, c)
  PROVE  Ok(o, L, c, o) /\ \A d \in L : Whole(o, o, d)
<1>1. /\ \A d \in L : LaidOut(o, d) /\ d \in Inodes /\ d \in o.inode_bitmap
      /\ o.data_bitmap = UNION {Occupied(o, d) : d \in L}
      /\ Worked(c) \subseteq L
  BY DEF Before, Sound, Accounted
<1>2. Held(o, L, c, o)
  <2>1. \A d \in L : Occupied(o, d) \subseteq o.data_bitmap
    BY <1>1
  <2> QED BY <1>1, <2>1 DEF Held
<1>3. ASSUME NEW d \in L
      PROVE  Whole(o, o, d)
  <2>1. Count(o, d) \in Nat
    BY <1>1, LaidOutFacts DEF Count
  <2> QED BY <2>1 DEF Whole, There, Slot
<1> QED BY <1>1, <1>2, <1>3 DEF Ok, Settled

\* The bits of a node are its own.
LEMMA OwnBits ==
  ASSUME NEW o, NEW L, NEW c, Before(o, L, c), NEW t \in L, NEW d \in L, d # t
  PROVE  /\ Bit(o.inode[t].ext_block) \notin Occupied(o, d)
         /\ Bit(DataBlock(o, t)) \notin Occupied(o, d)
<1>1. /\ o.inode[t].ext_block \in Blocks /\ DataBlock(o, t) \in Blocks
      /\ o.inode[d].ext_block \in Blocks /\ DataBlock(o, d) \in Blocks
  BY OwnBlock
<1>2. /\ o.inode[t].ext_block # o.inode[d].ext_block /\ o.inode[t].ext_block # DataBlock(o, d)
      /\ DataBlock(o, t) # o.inode[d].ext_block /\ DataBlock(o, t) # DataBlock(o, d)
  BY DEF Before, Sound, Apart
<1>3. \A x, y \in Blocks : Bit(x) = Bit(y) => x = y
  BY Sizes DEF Blocks, Bit
<1> QED BY <1>1, <1>2, <1>3 DEF Occupied

\* A block whose bit is not set is nobody's.
LEMMA FreeIsForeign ==
  ASSUME NEW o, NEW L, NEW c, Before(o, L, c), NEW e \in DBits \ o.data_bitmap
  PROVE  Foreign(o, L, Block(e)) /\ Block(e) \in Blocks
<1>1. Block(e) \in Blocks /\ Bit(Block(e)) = e
  BY Sizes DEF Block, Blocks, DBits, Bit
<1>2. \A d \in L : Occupied(o, d) \subseteq o.data_bitmap
  BY DEF Before, Sound, Accounted
<1> QED BY <1>1, <1>2 DEF Foreign, Occupied

\* What the stores of a removal leave when it is done.
TakenOut(o, p, k, t) ==
  Img(o.inode_bitmap \ {t},
      (o.data_bitmap \ {Bit(DataBlock(o, t))}) \ {Bit(o.inode[t].ext_block)},
      o.free_inode_count + 1, o.free_dblock_count + 2, CountedBy(o.inode, p, -1),
      forward_layback_extents(o.mem, DataBlock(o, p), k, Count(o, p)))

\* The removal store by store ends in what Remove makes at once.
LEMMA TakenOutIs ==
  ASSUME NEW o \in ImageType, NEW p, NEW k, NEW t, DentryAt(o, p, k).word = t
  PROVE  TakenOut(o, p, k, t) = Remove(o, p, k)
<1> DEFINE ib == o.inode_bitmap
           db == o.data_bitmap
           fi == o.free_inode_count
           fd == o.free_dblock_count
           n == o.inode
           m == o.mem
           bits == BitsOf(n, m, t)
           shifted == forward_layback_extents(m, DataBlock(o, p), k, Count(o, p))
           f == FreeNode(o, t)
           g == MemPut(f, shifted)
<1>1. o = Img(ib, db, fi, fd, n, m)
  BY ImageFields
<1>2. BlockIn(n, m, t) = DataBlock(o, t)
  BY DEF BlockIn, DataBlock
<1>3. f = Img(ib \ {t}, db \ bits, fi + 1, fd + 2, n, m)
  <2> HIDE DEF f, bits, ib, db, fi, fd, n, m
  <2>1. FreeNode(Img(ib, db, fi, fd, n, m), t) = Img(ib \ {t}, db \ bits, fi + 1, fd + 2, n, m)
    BY ImageOperators DEF bits
  <2> QED BY <1>1, <2>1 DEF f
<1>4. f.inode = n /\ f.mem = m /\ DataBlock(f, p) = DataBlock(o, p)
  <2>1. f.inode = n /\ f.mem = m
    BY <1>3 DEF Img
  <2> QED BY <2>1 DEF DataBlock
<1>5. g = Img(ib \ {t}, db \ bits, fi + 1, fd + 2, n, shifted)
  <2> HIDE DEF f, bits, ib, db, fi, fd, n, m, shifted
  <2> QED BY <1>3, ImageOperators DEF g
<1>6. WithEntries(g, p, -1) =
        Img(ib \ {t}, db \ bits, fi + 1, fd + 2, CountedBy(n, p, -1), shifted)
  <2> HIDE DEF g, bits, ib, db, fi, fd, n, m, shifted
  <2> QED BY <1>5, ImageOperators
<1>7. Remove(o, p, k) = WithEntries(g, p, -1)
  <2>1. forward_layback_extents(f.mem, DataBlock(f, p), k, f.inode[p].dentry_count) = shifted
    BY <1>4 DEF Count
  <2> HIDE DEF f, shifted
  <2> QED BY <2>1 DEF Remove, DropEntry, f, MemPut
<1>8. db \ bits = (db \ {Bit(DataBlock(o, t))}) \ {Bit(n[t].ext_block)}
  BY <1>2 DEF BitsOf
<1> QED BY <1>6, <1>7, <1>8 DEF TakenOut

\* Entries are read the same whatever the bitmaps and counters are.
LEMMA BitsAside ==
  ASSUME NEW o, NEW c, NEW d, NEW n, NEW m, NEW ib, NEW db, NEW fi, NEW fd,
         NEW ib2, NEW db2, NEW fi2, NEW fd2
  PROVE  LET u == Img(ib, db, fi, fd, n, m)
             v == Img(ib2, db2, fi2, fd2, n, m)
         IN  /\ Whole(o, u, d) => Whole(o, v, d)
             /\ \A k : Shifted(o, u, d, k) => Shifted(o, v, d, k)
             /\ \A k : Open(o, c, u, d, k) => Open(o, c, v, d, k)
<1> DEFINE u == Img(ib, db, fi, fd, n, m)
           v == Img(ib2, db2, fi2, fd2, n, m)
<1>1. u.inode = n /\ u.mem = m /\ v.inode = n /\ v.mem = m
  BY DEF Img
<1> HIDE DEF u, v
<1>2. Count(v, d) = Count(u, d) /\ v.mem[DataBlock(o, d)] = u.mem[DataBlock(o, d)]
  BY <1>1 DEF Count
<1>3. \A k : Open(o, c, u, d, k) => Open(o, c, v, d, k)
  BY <1>2, OpenSame
<1>4. /\ Whole(o, u, d) => Whole(o, v, d)
      /\ \A k : Shifted(o, u, d, k) => Shifted(o, v, d, k)
  BY <1>2, SameStatus
<1> QED BY <1>3, <1>4 DEF u, v

\* The bits of what is removed may be cleared.
LEMMA OkCleared ==
  ASSUME NEW o, NEW L, NEW c, Before(o, L, c), o \in ImageType, NEW t \in c.gone,
         NEW fi, NEW fd
  PROVE  LET ib  == o.inode_bitmap
             db1 == o.data_bitmap \ {Bit(DataBlock(o, t))}
             db2 == db1 \ {Bit(o.inode[t].ext_block)}
         IN  /\ Ok(o, L, c, Img(ib, db1, fi, fd, o.inode, o.mem))
             /\ Ok(o, L, c, Img(ib, db2, fi, fd, o.inode, o.mem))
             /\ Ok(o, L, c, Img(ib \ {t}, db2, fi, fd, o.inode, o.mem))
<1> DEFINE ib  == o.inode_bitmap
           db  == o.data_bitmap
           db1 == db \ {Bit(DataBlock(o, t))}
           db2 == db1 \ {Bit(o.inode[t].ext_block)}
           off == ib \ {t}
<1>1. Ok(o, L, c, Img(ib, db, o.free_inode_count, o.free_dblock_count, o.inode, o.mem))
  <2>1. Ok(o, L, c, o)
    BY OkStart
  <2> QED BY <2>1, ImageFields
<1>2. ASSUME NEW d \in L \ c.gone
      PROVE  /\ Occupied(o, d) \subseteq db => Occupied(o, d) \subseteq db1
             /\ Occupied(o, d) \subseteq db => Occupied(o, d) \subseteq db2
             /\ d \in ib => d \in off
  <2>1. t \in L /\ d # t
    BY DEF Before
  <2> QED BY <2>1, OwnBits
<1> HIDE DEF ib, db, db1, db2, off
<1>3. Ok(o, L, c, Img(ib, db1, fi, fd, o.inode, o.mem))
  BY <1>1, <1>2, OkBits
<1>4. Ok(o, L, c, Img(ib, db2, fi, fd, o.inode, o.mem))
  BY <1>1, <1>2, OkBits
<1>5. Ok(o, L, c, Img(off, db2, fi, fd, o.inode, o.mem))
  BY <1>1, <1>2, OkBits
<1> QED BY <1>3, <1>4, <1>5 DEF ib, db, db1, db2, off

\* A removal, from when the bits are cleared to its last two stores.
LEMMA ShiftOut ==
  ASSUME NEW L, NEW c, Before(img, L, c), NEW p \in Worked(c),
         NEW k \in 0 .. Count(img, p) - 1, Given(img, c, p, k),
         NEW ib, NEW db, NEW fi, NEW fd, NEW fi2, NEW fd2,
         Ok(img, L, c, Img(ib, db, fi, fd, img.inode, img.mem))
  PROVE  LET n2 == CountedBy(img.inode, p, -1)
             m2 == forward_layback_extents(img.mem, DataBlock(img, p), k, Count(img, p))
         IN  /\ Leads(img, L, c, Img(ib, db, fi, fd, img.inode, img.mem), ShiftStores(p, k),
                      Img(ib, db, fi, fd, img.inode, m2))
             /\ Ok(img, L, c, Img(ib, db, fi, fd, img.inode, m2))
             /\ Ok(img, L, c, Img(ib, db, fi2, fd2, n2, m2))
             /\ Shifted(img, Img(ib, db, fi2, fd2, n2, m2), p, k)
             /\ n2 \in Table /\ m2 \in LooseMem
             /\ \A x \in Blocks \ {DataBlock(img, p)} : m2[x] = img.mem[x]
<1> DEFINE n == img.inode
           m == img.mem
           n2 == CountedBy(n, p, -1)
           m2 == forward_layback_extents(m, DataBlock(img, p), k, Count(img, p))
<1>1. n \in Table /\ m \in LooseMem /\ n[p].dentry_count = Count(img, p) /\ p \in L
  <2>1. img \in ImageType
    BY DEF Before
  <2> QED BY <2>1, ImageFields DEF Before, Count
<1>2. Whole(img, Img(ib, db, fi, fd, n, m), p)
  <2>1. Whole(img, img, p)
    BY <1>1, OkStart
  <2>2. img = Img(img.inode_bitmap, img.data_bitmap, img.free_inode_count,
                  img.free_dblock_count, n, m)
    <3>1. img \in ImageType
      BY DEF Before
    <3> QED BY <3>1, ImageFields
  <2> HIDE DEF n, m
  <2> QED BY <2>1, <2>2, BitsAside
<1>3. /\ Leads(img, L, c, Img(ib, db, fi, fd, n, m), ShiftStores(p, k),
               Img(ib, db, fi, fd, n, m2))
      /\ Shifted(img, Img(ib, db, fi, fd, n, m2), p, k)
      /\ m2 \in LooseMem /\ \A x \in Blocks \ {DataBlock(img, p)} : m2[x] = m[x]
  BY <1>1, <1>2, ShiftLeads
<1>4. Ok(img, L, c, Img(ib, db, fi, fd, n, m2))
  BY <1>3, LeadsEnds
<1>5. /\ Ok(img, L, c, Img(ib, db, fi, fd, n2, m2)) /\ n2 \in Table
      /\ Shifted(img, Img(ib, db, fi, fd, n2, m2), p, k)
  <2> HIDE DEF m2
  <2> QED BY <1>1, <1>3, <1>4, OkLowered
<1> HIDE DEF n2, m2, n, m
<1>6. Ok(img, L, c, Img(ib, db, fi2, fd2, n2, m2))
  BY <1>5, OkBits
<1>7. Shifted(img, Img(ib, db, fi2, fd2, n2, m2), p, k)
  BY <1>5, BitsAside
<1> QED BY <1>3, <1>4, <1>5, <1>6, <1>7 DEF n2, m2, n, m

\* rmdir.
LEMMA RmdirLeads ==
  ASSUME NEW L, NEW c, Before(img, L, c), NEW p \in Worked(c),
         NEW k \in 0 .. Count(img, p) - 1, Given(img, c, p, k),
         NEW t \in c.gone, DentryAt(img, p, k).word = t
  PROVE  Leads(img, L, c, img, RmdirStores(p, k, t), TakenOut(img, p, k, t))
<1> DEFINE ib == img.inode_bitmap
           db == img.data_bitmap
           fi == img.free_inode_count
           fd == img.free_dblock_count
           n == img.inode
           m == img.mem
           db1 == db \ {Bit(DataBlock(img, t))}
           db2 == db1 \ {Bit(n[t].ext_block)}
           off == ib \ {t}
           n2 == CountedBy(n, p, -1)
           m2 == forward_layback_extents(m, DataBlock(img, p), k, Count(img, p))
           s0 == Img(ib, db, fi, fd, n, m)
           s1 == Img(ib, db1, fi, fd, n, m)
           s2 == Img(ib, db2, fi, fd, n, m)
           s3 == Img(off, db2, fi, fd, n, m)
           s4 == Img(off, db2, fi, fd, n, m2)
           s5 == Img(off, db2, fi, fd, n2, m2)
           s6 == Img(off, db2, fi + 1, fd, n2, m2)
           s7 == Img(off, db2, fi + 1, fd + 2, n2, m2)
<1>1. img = s0 /\ img \in ImageType
  BY ImageFields DEF Before
<1>2. /\ BlockIn(n, m, t) = DataBlock(img, t)
      /\ At(m, BlockIn(n, m, p), k).word = t
  BY DEF BlockIn, DataBlock, DentryAt
<1>3. /\ Ok(img, L, c, s0) /\ Ok(img, L, c, s1) /\ Ok(img, L, c, s2) /\ Ok(img, L, c, s3)
  <2>1. Ok(img, L, c, s0)
    BY <1>1, OkStart
  <2>2. Ok(img, L, c, s1) /\ Ok(img, L, c, s2) /\ Ok(img, L, c, s3)
    BY <1>1, OkCleared
  <2> QED BY <2>1, <2>2
<1>4. /\ Leads(img, L, c, s3, ShiftStores(p, k), s4)
      /\ Ok(img, L, c, s4) /\ Ok(img, L, c, s5) /\ Ok(img, L, c, s6) /\ Ok(img, L, c, s7)
  BY <1>3, ShiftOut
<1> HIDE DEF n2, m2
<1>5. Apply(s0, DataOff(t)) = s1
  <2> HIDE DEF n, m, ib, db
  <2>1. BitOff(db, Bit(BlockIn(n, m, t))) = db1
    BY <1>2 DEF BitOff
  <2> HIDE DEF db1
  <2>2. Apply(s0, DataOff(t)) = Img(ib, BitOff(db, Bit(BlockIn(n, m, t))), fi, fd, n, m)
    BY BitStores
  <2> QED BY <2>1, <2>2
<1>6. Apply(s1, ExtentOff(t)) = s2
  <2> HIDE DEF n, m, ib, db1
  <2>1. BitOff(db1, Bit(n[t].ext_block)) = db2
    BY DEF BitOff
  <2> HIDE DEF db2
  <2>2. Apply(s1, ExtentOff(t)) = Img(ib, BitOff(db1, Bit(n[t].ext_block)), fi, fd, n, m)
    BY BitStores
  <2> QED BY <2>1, <2>2
<1>7. Apply(s2, InodeOff(p, k)) = s3
  <2> HIDE DEF n, m, ib, db2
  <2> QED BY <1>2, InodeOffStore DEF BitOff, off
<1> HIDE DEF n, m, ib, db, db1, db2, off
<1>8. Apply(s4, EntryCount(p, -1)) = s5
  BY InodeStores DEF n2
<1>9. Apply(s5, FreeInodes(1)) = s6 /\ Apply(s6, FreeBlocks(2)) = s7
  BY BitStores DEF Plus
<1> HIDE DEF s0, s1, s2, s3, s4, s5, s6, s7
<1>10. Leads(img, L, c, s0, <<DataOff(t), ExtentOff(t), InodeOff(p, k)>>, s3)
  BY <1>3, <1>5, <1>6, <1>7, LeadsThree
<1>11. Leads(img, L, c, s4, <<EntryCount(p, -1), FreeInodes(1), FreeBlocks(2)>>, s7)
  BY <1>4, <1>8, <1>9, LeadsThree
<1>12. Leads(img, L, c, s0, RmdirStores(p, k, t), s7)
  BY <1>4, <1>10, <1>11, LeadsOn DEF RmdirStores
<1>13. s7 = TakenOut(img, p, k, t)
  BY DEF s7, TakenOut, off, db2, db1, db, ib, fi, fd, n2, n, m2, m
<1> QED BY <1>1, <1>12, <1>13

\* Sequences, and tuples, put together.
LEMMA Joined ==
  ASSUME NEW X, NEW A \in Seq(X), NEW B \in Seq(X), NEW C \in Seq(X),
         Len(C) = Len(A) + Len(B),
         \A x \in 1 .. Len(A) : C[x] = A[x],
         \A x \in 1 .. Len(B) : C[Len(A) + x] = B[x]
  PROVE  A \o B = C
<1> DEFINE D == A \o B
<1>1. /\ D \in Seq(X) /\ Len(D) = Len(A) + Len(B)
      /\ \A x \in 1 .. Len(A) + Len(B) : D[x] = IF x <= Len(A) THEN A[x] ELSE B[x - Len(A)]
      /\ Len(A) \in Nat /\ Len(B) \in Nat
  OBVIOUS
<1> HIDE DEF D
<1>2. \A x \in 1 .. Len(C) : C[x] = D[x]
  <2> SUFFICES ASSUME NEW x \in 1 .. Len(C)
               PROVE  C[x] = D[x]
    OBVIOUS
  <2>1. CASE x <= Len(A)
    BY <1>1, <2>1
  <2>2. CASE x > Len(A)
    <3>1. x - Len(A) \in 1 .. Len(B) /\ Len(A) + (x - Len(A)) = x
      BY <1>1, <2>2
    <3>2. C[x] = B[x - Len(A)]
      BY <3>1
    <3>3. D[x] = B[x - Len(A)]
      BY <1>1, <2>2
    <3> QED BY <3>2, <3>3
  <2> QED BY <1>1, <2>1, <2>2
<1>3. C = D
  BY <1>1, <1>2
<1> QED BY <1>3 DEF D

\* Sequences of stores put one after the other.
LEMMA TwoAndTwo ==
  ASSUME NEW a1, NEW a2, NEW a3, NEW a4
  PROVE  <<a1, a2>> \o <<a3, a4>> = <<a1, a2, a3, a4>>
<1> DEFINE X == {a1, a2, a3, a4}
           A == <<a1, a2>>
           B == <<a3, a4>>
           C == <<a1, a2, a3, a4>>
<1>1. A \in Seq(X) /\ B \in Seq(X) /\ C \in Seq(X) /\ Len(A) = 2 /\ Len(B) = 2 /\ Len(C) = 4
  OBVIOUS
<1>2. (\A x \in 1 .. 2 : C[x] = A[x]) /\ (\A x \in 1 .. 2 : C[2 + x] = B[x])
  OBVIOUS
<1> HIDE DEF A, B, C, X
<1>3. Len(C) = Len(A) + Len(B)
  BY <1>1
<1>4. /\ \A x \in 1 .. Len(A) : C[x] = A[x]
      /\ \A x \in 1 .. Len(B) : C[Len(A) + x] = B[x]
  BY <1>1, <1>2
<1>5. A \o B = C
  BY <1>1, <1>3, <1>4, Joined
<1> QED BY <1>5 DEF A, B, C

\* The same for three and two of them.
LEMMA ThreeAndTwo ==
  ASSUME NEW a1, NEW a2, NEW a3, NEW a4, NEW a5
  PROVE  <<a1, a2, a3>> \o <<a4, a5>> = <<a1, a2, a3, a4, a5>>
<1> DEFINE X == {a1, a2, a3, a4, a5}
           A == <<a1, a2, a3>>
           B == <<a4, a5>>
           C == <<a1, a2, a3, a4, a5>>
<1>1. A \in Seq(X) /\ B \in Seq(X) /\ C \in Seq(X) /\ Len(A) = 3 /\ Len(B) = 2 /\ Len(C) = 5
  OBVIOUS
<1>2. (\A x \in 1 .. 3 : C[x] = A[x]) /\ (\A x \in 1 .. 2 : C[3 + x] = B[x])
  OBVIOUS
<1> HIDE DEF A, B, C, X
<1>3. Len(C) = Len(A) + Len(B)
  BY <1>1
<1>4. /\ \A x \in 1 .. Len(A) : C[x] = A[x]
      /\ \A x \in 1 .. Len(B) : C[Len(A) + x] = B[x]
  BY <1>1, <1>2
<1>5. A \o B = C
  BY <1>1, <1>3, <1>4, Joined
<1> QED BY <1>5 DEF A, B, C

\* The same for three and three.
LEMMA ThreeAndThree ==
  ASSUME NEW a1, NEW a2, NEW a3, NEW a4, NEW a5, NEW a6
  PROVE  <<a1, a2, a3>> \o <<a4, a5, a6>> = <<a1, a2, a3, a4, a5, a6>>
<1> DEFINE X == {a1, a2, a3, a4, a5, a6}
           A == <<a1, a2, a3>>
           B == <<a4, a5, a6>>
           C == <<a1, a2, a3, a4, a5, a6>>
<1>1. A \in Seq(X) /\ B \in Seq(X) /\ C \in Seq(X) /\ Len(A) = 3 /\ Len(B) = 3 /\ Len(C) = 6
  OBVIOUS
<1>2. (\A x \in 1 .. 3 : C[x] = A[x]) /\ (\A x \in 1 .. 3 : C[3 + x] = B[x])
  OBVIOUS
<1> HIDE DEF A, B, C, X
<1>3. Len(C) = Len(A) + Len(B)
  BY <1>1
<1>4. /\ \A x \in 1 .. Len(A) : C[x] = A[x]
      /\ \A x \in 1 .. Len(B) : C[Len(A) + x] = B[x]
  BY <1>1, <1>2
<1>5. A \o B = C
  BY <1>1, <1>3, <1>4, Joined
<1> QED BY <1>5 DEF A, B, C

\* The same for six and three.
LEMMA SixAndThree ==
  ASSUME NEW a1, NEW a2, NEW a3, NEW a4, NEW a5, NEW a6, NEW a7, NEW a8, NEW a9
  PROVE  <<a1, a2, a3, a4, a5, a6>> \o <<a7, a8, a9>> = <<a1, a2, a3, a4, a5, a6, a7, a8, a9>>
<1> DEFINE X == {a1, a2, a3, a4, a5, a6, a7, a8, a9}
           A == <<a1, a2, a3, a4, a5, a6>>
           B == <<a7, a8, a9>>
           C == <<a1, a2, a3, a4, a5, a6, a7, a8, a9>>
<1>1. A \in Seq(X) /\ B \in Seq(X) /\ C \in Seq(X) /\ Len(A) = 6 /\ Len(B) = 3 /\ Len(C) = 9
  OBVIOUS
<1>2. (\A x \in 1 .. 6 : C[x] = A[x]) /\ (\A x \in 1 .. 3 : C[6 + x] = B[x])
  OBVIOUS
<1> HIDE DEF A, B, C, X
<1>3. Len(C) = Len(A) + Len(B)
  BY <1>1
<1>4. /\ \A x \in 1 .. Len(A) : C[x] = A[x]
      /\ \A x \in 1 .. Len(B) : C[Len(A) + x] = B[x]
  BY <1>1, <1>2
<1>5. A \o B = C
  BY <1>1, <1>3, <1>4, Joined
<1> QED BY <1>5 DEF A, B, C

\* unlink.
LEMMA UnlinkLeads ==
  ASSUME NEW L, NEW c, Before(img, L, c), NEW p \in Worked(c),
         NEW k \in 0 .. Count(img, p) - 1, Given(img, c, p, k),
         NEW t \in c.gone, DentryAt(img, p, k).word = t
  PROVE  Leads(img, L, c, img, UnlinkStores(p, k, t), TakenOut(img, p, k, t))
<1> DEFINE ib == img.inode_bitmap
           db == img.data_bitmap
           fi == img.free_inode_count
           fd == img.free_dblock_count
           n == img.inode
           m == img.mem
           db1 == db \ {Bit(DataBlock(img, t))}
           db2 == db1 \ {Bit(n[t].ext_block)}
           off == ib \ {t}
           n2 == CountedBy(n, p, -1)
           m2 == forward_layback_extents(m, DataBlock(img, p), k, Count(img, p))
           s0 == Img(ib, db, fi, fd, n, m)
           s1 == Img(ib, db1, fi, fd, n, m)
           s2 == Img(ib, db1, fi, fd + 1, n, m)
           s3 == Img(ib, db2, fi, fd + 1, n, m)
           s4 == Img(off, db2, fi, fd + 1, n, m)
           s5 == Img(off, db2, fi, fd + 2, n, m)
           s6 == Img(off, db2, fi, fd + 2, n, m2)
           s7 == Img(off, db2, fi, fd + 2, n2, m2)
           s8 == Img(off, db2, fi + 1, fd + 2, n2, m2)
<1>1. img = s0 /\ img \in ImageType
  BY ImageFields DEF Before
<1>2. /\ BlockIn(n, m, t) = DataBlock(img, t)
      /\ At(m, BlockIn(n, m, p), k).word = t
      /\ Plus(fd, 1) = fd + 1 /\ Plus(fd + 1, 1) = fd + 2 /\ Plus(fi, 1) = fi + 1
  <2>1. fd \in Int /\ fi \in Int
    BY <1>1 DEF ImageType
  <2> QED BY <2>1 DEF BlockIn, DataBlock, DentryAt, Plus
<1>3. /\ Ok(img, L, c, s0) /\ Ok(img, L, c, s1) /\ Ok(img, L, c, s2) /\ Ok(img, L, c, s3)
      /\ Ok(img, L, c, s4) /\ Ok(img, L, c, s5)
  <2>1. Ok(img, L, c, s0)
    BY <1>1, OkStart
  <2>2. /\ Ok(img, L, c, s1) /\ Ok(img, L, c, s2) /\ Ok(img, L, c, s3)
        /\ Ok(img, L, c, s4) /\ Ok(img, L, c, s5)
    BY <1>1, OkCleared
  <2> QED BY <2>1, <2>2
<1>4. /\ Leads(img, L, c, s5, ShiftStores(p, k), s6)
      /\ Ok(img, L, c, s6) /\ Ok(img, L, c, s7) /\ Ok(img, L, c, s8)
  BY <1>3, ShiftOut
<1> HIDE DEF n2, m2, n, m, ib, db, fi, fd
<1>5. s1 = Apply(s0, DataOff(t))
  <2>1. BitOff(db, Bit(BlockIn(n, m, t))) = db1
    BY <1>2 DEF BitOff
  <2> HIDE DEF db1
  <2>2. Apply(s0, DataOff(t)) = Img(ib, BitOff(db, Bit(BlockIn(n, m, t))), fi, fd, n, m)
    BY BitStores
  <2> QED BY <2>1, <2>2
<1>6. s3 = Apply(s2, ExtentOff(t))
  <2>1. BitOff(db1, Bit(n[t].ext_block)) = db2
    BY DEF BitOff
  <2> HIDE DEF db1, db2
  <2>2. Apply(s2, ExtentOff(t)) = Img(ib, BitOff(db1, Bit(n[t].ext_block)), fi, fd + 1, n, m)
    BY BitStores
  <2> QED BY <2>1, <2>2
<1> HIDE DEF db1, db2
<1>7. s4 = Apply(s3, InodeOff(p, k))
  BY <1>2, InodeOffStore DEF BitOff, off
<1> HIDE DEF off
<1>8. s2 = Apply(s1, FreeBlocks(1)) /\ s5 = Apply(s4, FreeBlocks(1))
  BY <1>2, BitStores
<1>9. s7 = Apply(s6, EntryCount(p, -1))
  BY InodeStores DEF n2
<1>10. s8 = Apply(s7, FreeInodes(1))
  BY <1>2, BitStores
<1>11. s8 = TakenOut(img, p, k, t)
  BY DEF TakenOut, off, db2, db1, db, ib, fi, fd, n2, n, m2, m
<1> HIDE DEF s0, s1, s2, s3, s4, s5, s6, s7, s8
<1>12. Leads(img, L, c, s0, <<DataOff(t), FreeBlocks(1), ExtentOff(t)>>, s3)
  BY <1>3, <1>5, <1>6, <1>8, LeadsThree
<1>13. Leads(img, L, c, s3, <<InodeOff(p, k), FreeBlocks(1)>>, s5)
  BY <1>3, <1>7, <1>8, LeadsTwo
<1>14. Leads(img, L, c, s6, <<EntryCount(p, -1), FreeInodes(1)>>, s8)
  BY <1>4, <1>9, <1>10, LeadsTwo
<1>15. Leads(img, L, c, s0, UnlinkStores(p, k, t), s8)
  <2> DEFINE first == <<DataOff(t), FreeBlocks(1), ExtentOff(t)>>
             second == <<InodeOff(p, k), FreeBlocks(1)>>
             shift == ShiftStores(p, k)
             last == <<EntryCount(p, -1), FreeInodes(1)>>
  <2>1. first \o second = <<DataOff(t), FreeBlocks(1), ExtentOff(t), InodeOff(p, k), FreeBlocks(1)>>
    BY ThreeAndTwo
  <2>2. UnlinkStores(p, k, t) = ((first \o second) \o shift) \o last
    <3> HIDE DEF first, second
    <3> QED BY <2>1 DEF UnlinkStores, shift, last
  <2> HIDE DEF first, second, shift, last
  <2>3. Leads(img, L, c, s0, first \o second, s5)
    BY <1>12, <1>13, LeadsOn DEF first, second
  <2>4. Leads(img, L, c, s0, (first \o second) \o shift, s6)
    BY <1>4, <2>3, LeadsOn DEF shift
  <2>5. Leads(img, L, c, s0, ((first \o second) \o shift) \o last, s8)
    BY <1>14, <2>4, LeadsOn DEF last
  <2> QED BY <2>2, <2>5
<1> QED BY <1>1, <1>11, <1>15

\* A new inode, field by field and at once.
NodePut(n, i, mode, b) == [n EXCEPT ![i] = [mode |-> mode, dentry_count |-> 2, ext_block |-> b]]

\* The three stores into a new inode add up to one, and touch no other.
LEMMA NodePuts ==
  ASSUME NEW n \in Table, NEW i \in Inodes, NEW mode, NEW b
  PROVE  /\ ExtentsPut(CountPut(ModePut(n, i, mode), i), i, b) = NodePut(n, i, mode, b)
         /\ \A x \in Inodes \ {i} : /\ ModePut(n, i, mode)[x] = n[x]
                                    /\ CountPut(ModePut(n, i, mode), i)[x] = n[x]
                                    /\ NodePut(n, i, mode, b)[x] = n[x]
<1> DEFINE n1 == [n EXCEPT ![i].mode = mode]
           n2 == [n1 EXCEPT ![i].dentry_count = 2]
           n3 == [n2 EXCEPT ![i].ext_block = b]
           n4 == [n EXCEPT ![i] = [mode |-> mode, dentry_count |-> 2, ext_block |-> b]]
<1>1. n[i] = [mode |-> n[i].mode, dentry_count |-> n[i].dentry_count, ext_block |-> n[i].ext_block]
      /\ DOMAIN n = Inodes /\ n = [x \in Inodes |-> n[x]]
  BY DEF Table, Inode
<1>2. /\ DOMAIN n1 = Inodes /\ \A x \in Inodes \ {i} : n1[x] = n[x]
      /\ n1[i] = [mode |-> mode, dentry_count |-> n[i].dentry_count, ext_block |-> n[i].ext_block]
  BY <1>1
<1> HIDE DEF n1
<1>3. /\ DOMAIN n2 = Inodes /\ \A x \in Inodes \ {i} : n2[x] = n[x]
      /\ n2[i] = [mode |-> mode, dentry_count |-> 2, ext_block |-> n[i].ext_block]
  BY <1>2
<1> HIDE DEF n2
<1>4. /\ DOMAIN n3 = Inodes /\ \A x \in Inodes \ {i} : n3[x] = n[x]
      /\ n3[i] = [mode |-> mode, dentry_count |-> 2, ext_block |-> b]
  BY <1>3
<1>5. /\ DOMAIN n4 = Inodes /\ \A x \in Inodes \ {i} : n4[x] = n[x]
      /\ n4[i] = [mode |-> mode, dentry_count |-> 2, ext_block |-> b]
  BY <1>1
<1>6. n3 = n4
  <2>1. n3 = [x \in Inodes |-> n3[x]]
    BY <1>1 DEF n1, n2
  <2>2. n4 = [x \in Inodes |-> n4[x]]
    BY <1>1
  <2> HIDE DEF n3, n4
  <2>3. \A x \in Inodes : n3[x] = n4[x]
    BY <1>4, <1>5
  <2> QED BY <2>1, <2>2, <2>3
<1> QED BY <1>2, <1>3, <1>5, <1>6 DEF ExtentsPut, CountPut, ModePut, NodePut, n1, n2

\* mkdir and create, before the new entry and when its extent is written.
NewTable(p, mode, i, e) == NodePut(CountedBy(img.inode, p, 1), i, mode, Block(e))

EntryIn(p, w, i) == Store(img.mem, DataBlock(img, p), Count(img, p), Dentry(i, w))

Counted(p, mode, i, e, d, m) ==
  Img(img.inode_bitmap \cup {i}, (img.data_bitmap \cup {e}) \cup {d},
      img.free_inode_count - 1, img.free_dblock_count - 2, NewTable(p, mode, i, e), m)

NodeMade(p, w, mode, i, e, d) ==
  Counted(p, mode, i, e, d, Store(EntryIn(p, w, i), Block(e), 0, Dentry(Block(d), "extent")))

\* Bitmaps, counters and inodes.
LEMMA NodeBegins ==
  ASSUME NEW L, NEW c, Before(img, L, c), NEW p \in Worked(c),
         NEW i \in Inodes \ L, NEW mode, NEW e, NEW d
  PROVE  LET t == Counted(p, mode, i, e, d, img.mem)
         IN  /\ Leads(img, L, c, img,
                      <<FreeInodes(-1), InodeOn(i), BlockOn(e), BlockOn(d), FreeBlocks(-2),
                        EntryCount(p, 1), NewMode(i, mode), NewCount(i), NewExtents(i, Block(e))>>,
                      t)
             /\ Whole(img, t, p)
<1> DEFINE ib == img.inode_bitmap
           db == img.data_bitmap
           fi == img.free_inode_count
           fd == img.free_dblock_count
           n == img.inode
           m == img.mem
           on == ib \cup {i}
           db1 == db \cup {e}
           db2 == db1 \cup {d}
           n6 == CountedBy(n, p, 1)
           n7 == ModePut(n6, i, mode)
           n8 == CountPut(n7, i)
           n9 == NodePut(n6, i, mode, Block(e))
           s0 == Img(ib, db, fi, fd, n, m)
           s1 == Img(ib, db, fi - 1, fd, n, m)
           s2 == Img(on, db, fi - 1, fd, n, m)
           s3 == Img(on, db1, fi - 1, fd, n, m)
           s4 == Img(on, db2, fi - 1, fd, n, m)
           s5 == Img(on, db2, fi - 1, fd - 2, n, m)
           s6 == Img(on, db2, fi - 1, fd - 2, n6, m)
           s7 == Img(on, db2, fi - 1, fd - 2, n7, m)
           s8 == Img(on, db2, fi - 1, fd - 2, n8, m)
           s9 == Img(on, db2, fi - 1, fd - 2, n9, m)
<1>1. img = s0 /\ img \in ImageType /\ n \in Table /\ p \in L /\ p \in Inodes /\ i # p
  BY ImageFields DEF Before
<1>2. Plus(fi, -1) = fi - 1 /\ Plus(fd, -2) = fd - 2
  <2>1. fd \in Int /\ fi \in Int
    BY <1>1 DEF ImageType
  <2> QED BY <2>1 DEF Plus
<1>3. BitOn(ib, i) = on /\ BitOn(db, e) = db1 /\ BitOn(db1, d) = db2
  BY DEF BitOn
<1>4. /\ \A x \in L \ c.gone : x \in ib => x \in on
      /\ \A x \in L \ c.gone : Occupied(img, x) \subseteq db => Occupied(img, x) \subseteq db1
      /\ \A x \in L \ c.gone : Occupied(img, x) \subseteq db => Occupied(img, x) \subseteq db2
  OBVIOUS
<1>5. Ok(img, L, c, s0) /\ Whole(img, s0, p)
  BY <1>1, OkStart
<1> HIDE DEF ib, db, fi, fd, n, m, on, db1, db2
<1>6. /\ Ok(img, L, c, s1) /\ Ok(img, L, c, s2) /\ Ok(img, L, c, s3) /\ Ok(img, L, c, s4)
      /\ Ok(img, L, c, s5)
  <2>1. Ok(img, L, c, s1)
    BY <1>4, <1>5, OkBits
  <2>2. Ok(img, L, c, s2)
    BY <1>4, <1>5, OkBits
  <2>3. Ok(img, L, c, s3)
    BY <1>4, <1>5, OkBits
  <2>4. Ok(img, L, c, s4)
    BY <1>4, <1>5, OkBits
  <2>5. Ok(img, L, c, s5)
    BY <1>4, <1>5, OkBits
  <2> QED BY <2>1, <2>2, <2>3, <2>4, <2>5
<1>7. Whole(img, s5, p)
  BY <1>5, BitsAside
<1>8. Ok(img, L, c, s6) /\ n6 \in Table /\ Whole(img, s6, p)
  BY <1>1, <1>6, <1>7, OkRaised
<1>9. /\ ExtentsPut(n8, i, Block(e)) = n9
      /\ \A x \in Inodes \ {i} : n7[x] = n6[x] /\ n8[x] = n6[x] /\ n9[x] = n6[x]
  <2> HIDE DEF n6
  <2> QED BY <1>8, NodePuts
<1> HIDE DEF n6, n7, n8, n9
<1>10. Ok(img, L, c, s7) /\ Ok(img, L, c, s8) /\ Ok(img, L, c, s9)
  BY <1>8, <1>9, OkInode
<1>11. Whole(img, s9, p)
  <2>1. Count(s9, p) = Count(s6, p) /\ s9.mem[DataBlock(img, p)] = s6.mem[DataBlock(img, p)]
    BY <1>1, <1>9 DEF Count, Img
  <2> HIDE DEF s6, s9
  <2> QED BY <1>8, <2>1, SameStatus
<1>12. /\ s1 = Apply(s0, FreeInodes(-1)) /\ s2 = Apply(s1, InodeOn(i))
       /\ s3 = Apply(s2, BlockOn(e)) /\ s4 = Apply(s3, BlockOn(d))
       /\ s5 = Apply(s4, FreeBlocks(-2))
  BY <1>2, <1>3, BitStores
<1>13. /\ s6 = Apply(s5, EntryCount(p, 1)) /\ s7 = Apply(s6, NewMode(i, mode))
       /\ s8 = Apply(s7, NewCount(i)) /\ s9 = Apply(s8, NewExtents(i, Block(e)))
  BY <1>9, InodeStores DEF n6, n7, n8
<1>14. s9 = Counted(p, mode, i, e, d, img.mem)
  BY DEF Counted, NewTable, on, db2, db1, db, ib, fi, fd, n, m, n9, n6
<1> HIDE DEF s0, s1, s2, s3, s4, s5, s6, s7, s8, s9
<1> DEFINE first == <<FreeInodes(-1), InodeOn(i), BlockOn(e)>>
           second == <<BlockOn(d), FreeBlocks(-2), EntryCount(p, 1)>>
           third == <<NewMode(i, mode), NewCount(i), NewExtents(i, Block(e))>>
           half == <<FreeInodes(-1), InodeOn(i), BlockOn(e), BlockOn(d), FreeBlocks(-2),
                     EntryCount(p, 1)>>
           all == <<FreeInodes(-1), InodeOn(i), BlockOn(e), BlockOn(d), FreeBlocks(-2),
                    EntryCount(p, 1), NewMode(i, mode), NewCount(i), NewExtents(i, Block(e))>>
<1>15. first \o second = half /\ half \o third = all
  <2>1. first \o second = half
    BY ThreeAndThree
  <2>2. half \o third = all
    BY SixAndThree
  <2> QED BY <2>1, <2>2
<1>16. Leads(img, L, c, s0, first, s3)
  BY <1>5, <1>6, <1>12, LeadsThree
<1>17. Leads(img, L, c, s3, second, s6)
  BY <1>6, <1>8, <1>12, <1>13, LeadsThree
<1>18. Leads(img, L, c, s6, third, s9)
  BY <1>8, <1>10, <1>13, LeadsThree
<1> HIDE DEF first, second, third, half, all
<1>19. Leads(img, L, c, s0, half, s6)
  BY <1>15, <1>16, <1>17, LeadsOn
<1>20. Leads(img, L, c, s0, all, s9)
  BY <1>15, <1>18, <1>19, LeadsOn
<1> QED BY <1>1, <1>11, <1>14, <1>20 DEF all

\* These are the images of A1fs.
LEMMA NodeMadeIs ==
  ASSUME img \in ImageType, NEW p \in Inodes, NEW i \in Inodes, i # p,
         NEW w, NEW mode, NEW e, NEW d
  PROVE  NodeMade(p, w, mode, i, e, d) = WithFile(p, w, mode, i, e, d)
<1> DEFINE ib == img.inode_bitmap
           db == img.data_bitmap
           fi == img.free_inode_count
           fd == img.free_dblock_count
           n == img.inode
           m == img.mem
           on == ib \cup {i}
           bits == db \cup {e, d}
           n6 == CountedBy(n, p, 1)
           n9 == NodePut(n6, i, mode, Block(e))
           m1 == Store(m, DataBlock(img, p), Count(img, p), Dentry(i, w))
           m2 == Store(m1, Block(e), 0, Dentry(Block(d), "extent"))
           t1 == TakeInode(img, i)
           t2 == TakeBlocks(t1, e, d)
           t3 == WithEntries(t2, p, 1)
           t4 == TablePut(t3, NodePut(t3.inode, i, mode, Block(e)))
           t5 == MemPut(t4, Store(t4.mem, DataBlock(t4, p), Count(img, p), Dentry(i, w)))
           t6 == MemPut(t5, Store(t5.mem, Block(e), 0, Dentry(Block(d), "extent")))
<1>1. img = Img(ib, db, fi, fd, n, m) /\ n \in Table
  BY ImageFields
<1>2. n9[p].ext_block = n[p].ext_block
  <2>1. n6 \in Table /\ n6[p].ext_block = n[p].ext_block
    BY <1>1 DEF Table, Inode, CountedBy
  <2> HIDE DEF n6
  <2>2. n9[p] = n6[p]
    BY <2>1, NodePuts
  <2> QED BY <2>1, <2>2
<1>3. DataBlock(img, p) = BlockIn(n, m, p) /\ BlockIn(n9, m, p) = BlockIn(n, m, p)
  BY <1>2 DEF BlockIn, DataBlock
<1> HIDE DEF ib, db, fi, fd, n, m, n6, n9
<1>4. t1 = Img(on, db, fi - 1, fd, n, m)
  BY <1>1, ImageOperators
<1> HIDE DEF t1, on
<1>5. t2 = Img(on, bits, fi - 1, fd - 2, n, m)
  BY <1>4, ImageOperators
<1> HIDE DEF t2, bits
<1>6. t3 = Img(on, bits, fi - 1, fd - 2, n6, m)
  BY <1>5, ImageOperators DEF n6
<1> HIDE DEF t3
<1>7. t4 = Img(on, bits, fi - 1, fd - 2, n9, m)
  <2>1. NodePut(t3.inode, i, mode, Block(e)) = n9
    BY <1>6 DEF Img, n9
  <2> QED BY <1>6, <2>1, ImageOperators
<1> HIDE DEF t4
<1>8. t5 = Img(on, bits, fi - 1, fd - 2, n9, m1)
  <2>1. t4.mem = m /\ DataBlock(t4, p) = DataBlock(img, p)
    BY <1>3, <1>7 DEF Img, DataBlock, BlockIn
  <2> QED BY <1>7, <2>1, ImageOperators
<1> HIDE DEF t5, m1
<1>9. t6 = Img(on, bits, fi - 1, fd - 2, n9, m2)
  <2>1. t5.mem = m1
    BY <1>8 DEF Img
  <2> QED BY <1>8, <2>1, ImageOperators
<1>10. t6 = WithFile(p, w, mode, i, e, d)
  <2>1. WithNode(p, mode, i, e, d) = t4
    BY DEF WithNode, AddInode, TablePut, NodePut, t4, t3, t2, t1
  <2>2. AddEntry(WithNode(p, mode, i, e, d), p, img.inode[p].dentry_count, i, w) = t5
    BY <2>1 DEF AddEntry, MemPut, Count, t5
  <2>3. WithFile(p, w, mode, i, e, d) =
          AddExtent(AddEntry(WithNode(p, mode, i, e, d), p, img.inode[p].dentry_count, i, w), e, d)
    BY DEF WithFile
  <2> QED BY <2>2, <2>3 DEF AddExtent, MemPut, Extent, Dentry
<1>11. bits = (db \cup {e}) \cup {d}
  BY DEF bits
<1> HIDE DEF t6
<1> QED BY <1>9, <1>10, <1>11
        DEF NodeMade, Counted, NewTable, EntryIn, on, ib, db, fi, fd, n9, n6, n, m2, m1, m

\* mkdir and create, up to the new inode's extent.
LEMMA NodeLeads ==
  ASSUME NEW L, NEW c, Before(img, L, c), NEW p \in Worked(c), Count(img, p) < DentriesPerBlock,
         NEW i \in Inodes \ L, NEW mode, NEW e \in DBits \ img.data_bitmap,
         NEW d \in DBits \ img.data_bitmap, NEW w \in Names
  PROVE  LET t == NodeMade(p, w, mode, i, e, d)
         IN  /\ Leads(img, L, c, img, NodeStores(p, w, mode, i, e, d), t)
             /\ \E m \in LooseMem : t = Counted(p, mode, i, e, d, m)
<1> DEFINE ib == img.inode_bitmap \cup {i}
           db == (img.data_bitmap \cup {e}) \cup {d}
           fi == img.free_inode_count - 1
           fd == img.free_dblock_count - 2
           n == NewTable(p, mode, i, e)
           m == img.mem
           b == DataBlock(img, p)
           k == Count(img, p)
           x == Block(e)
           m1 == Store(m, b, k, Dentry(i, w))
           m2 == Store(m1, x, 0, Dentry(Block(d), "extent"))
           s0 == Img(ib, db, fi, fd, n, m)
           s1 == Img(ib, db, fi, fd, n, m1)
           s2 == Img(ib, db, fi, fd, n, m2)
           first == <<FreeInodes(-1), InodeOn(i), BlockOn(e), BlockOn(d), FreeBlocks(-2),
                      EntryCount(p, 1), NewMode(i, mode), NewCount(i), NewExtents(i, Block(e))>>
           second == EntryStores(b, k, i, w)
           third == <<WordTo(x, 0, Block(d)), TailTo(x, 0, "extent")>>
<1>1. p \in L /\ m \in LooseMem /\ b \in Blocks /\ k \in Nat
  <2>1. p \in L /\ img \in ImageType
    BY DEF Before
  <2> QED BY <2>1, ImageFields, OwnBlock
<1>2. k \in Slots /\ 0 \in Slots /\ i \in Int /\ Block(d) \in Int
  BY <1>1, Sizes DEF Slots, Inodes, DBits, Block
<1>3. Foreign(img, L, x) /\ x \in Blocks
  BY FreeIsForeign
<1>4. s0 = Counted(p, mode, i, e, d, m) /\ s2 = NodeMade(p, w, mode, i, e, d)
  BY DEF Counted, NodeMade, EntryIn
<1>5. Leads(img, L, c, img, first, s0) /\ Whole(img, s0, p)
  <2> HIDE DEF s0, first
  <2>1. /\ Leads(img, L, c, img, first, Counted(p, mode, i, e, d, m))
        /\ Whole(img, Counted(p, mode, i, e, d, m), p)
    BY NodeBegins DEF first
  <2> QED BY <1>4, <2>1
<1>6. NodeStores(p, w, mode, i, e, d) = (first \o second) \o third
  BY DEF NodeStores, Count
<1> HIDE DEF ib, db, fi, fd, n, m, b, k, x, first
<1>7. Ok(img, L, c, s0)
  BY <1>5, LeadsEnds
<1>8. Leads(img, L, c, s0, second, s1) /\ m1 \in LooseMem
  <2>1. Open(img, c, s0, p, k)
    BY <1>1, <1>2, <1>5 DEF Open, k
  <2>2. Spare(img, L, c, s0, b, k)
    BY <1>1, <1>2, <2>1 DEF Spare, b
  <2> QED BY <1>1, <1>2, <1>7, <2>2, HalvesLead
<1> HIDE DEF m1
<1>9. Ok(img, L, c, s1)
  BY <1>8, LeadsEnds
<1>10. Leads(img, L, c, s1, third, s2) /\ m2 \in LooseMem
  <2>1. Spare(img, L, c, s1, x, 0)
    BY <1>2, <1>3 DEF Spare
  <2> QED BY <1>2, <1>8, <1>9, <2>1, HalvesLead
<1>11. s2 = Counted(p, mode, i, e, d, m2)
  BY DEF Counted, ib, db, fi, fd, n
<1> HIDE DEF s0, s1, s2, second, third, m2
<1>12. Leads(img, L, c, img, (first \o second) \o third, s2)
  BY <1>5, <1>8, <1>10, LeadsOn
<1> QED BY <1>4, <1>6, <1>10, <1>11, <1>12

\* mkdir goes on with "." and "..".
LEMMA DotsLead ==
  ASSUME NEW L, NEW c, Before(img, L, c), NEW d \in DBits \ img.data_bitmap,
         NEW ib, NEW db, NEW fi, NEW fd, NEW n, NEW m \in LooseMem, NEW t,
         t = Img(ib, db, fi, fd, n, m), Ok(img, L, c, t), NEW i \in Int, NEW up \in Int
  PROVE  Leads(img, L, c, t, DotStores(d, i, up), AddDots(t, d, i, up))
<1> DEFINE b == Block(d)
           m1 == Store(m, b, 0, Dentry(i, "."))
           m2 == Store(m1, b, 1, Dentry(up, ".."))
           s1 == Img(ib, db, fi, fd, n, m1)
           s2 == Img(ib, db, fi, fd, n, m2)
           first == EntryStores(b, 0, i, ".")
           second == EntryStores(b, 1, up, "..")
<1>1. Foreign(img, L, b) /\ b \in Blocks /\ 0 \in Slots /\ 1 \in Slots
  BY FreeIsForeign, Sizes DEF Slots
<1> HIDE DEF b
<1>2. Leads(img, L, c, t, first, s1) /\ m1 \in LooseMem
  <2>1. Spare(img, L, c, t, b, 0)
    BY <1>1 DEF Spare
  <2> QED BY <2>1, HalvesLead
<1> HIDE DEF m1
<1>3. Ok(img, L, c, s1)
  BY <1>2, LeadsEnds
<1>4. Leads(img, L, c, s1, second, s2)
  <2>1. Spare(img, L, c, s1, b, 1)
    BY <1>1 DEF Spare
  <2> QED BY <1>2, <1>3, <2>1, HalvesLead
<1>5. s2 = AddDots(t, d, i, up)
  <2>1. MemPut(t, m2) = s2
    <3> HIDE DEF m2
    <3> QED BY ImageOperators
  <2>2. t.mem = m
    BY DEF Img
  <2> HIDE DEF s2
  <2> QED BY <2>1, <2>2 DEF AddDots, MemPut, m2, m1, b
<1> HIDE DEF s1, s2, first, second
<1>6. Leads(img, L, c, t, first \o second, s2)
  BY <1>2, <1>4, LeadsOn
<1> QED BY <1>5, <1>6 DEF DotStores, first, second, b

\* create.
LEMMA CreateLeads ==
  ASSUME NEW L, NEW c, Before(img, L, c), NEW p \in Worked(c), Count(img, p) < DentriesPerBlock,
         NEW i \in Inodes \ L, NEW e \in DBits \ img.data_bitmap,
         NEW d \in DBits \ img.data_bitmap, NEW w \in Names
  PROVE  Leads(img, L, c, img, NodeStores(p, w, "file", i, e, d),
               WithFile(p, w, "file", i, e, d))
<1>1. img \in ImageType /\ p \in Inodes /\ i # p
  BY DEF Before
<1>2. NodeMade(p, w, "file", i, e, d) = WithFile(p, w, "file", i, e, d)
  BY <1>1, NodeMadeIs
<1> QED BY <1>2, NodeLeads

\* mkdir.
LEMMA MkdirLeads ==
  ASSUME NEW L, NEW c, Before(img, L, c), NEW p \in Worked(c), Count(img, p) < DentriesPerBlock,
         NEW i \in Inodes \ L, NEW e \in DBits \ img.data_bitmap,
         NEW d \in DBits \ img.data_bitmap, NEW w \in Names, NEW up \in Int
  PROVE  Leads(img, L, c, img, NodeStores(p, w, "dir", i, e, d) \o DotStores(d, i, up),
               AddDots(WithFile(p, w, "dir", i, e, d), d, i, up))
<1> DEFINE t == NodeMade(p, w, "dir", i, e, d)
<1>1. img \in ImageType /\ p \in Inodes /\ i # p /\ i \in Int
  <2>1. Inodes \subseteq Int
    BY Sizes DEF Inodes
  <2> QED BY <2>1 DEF Before
<1>2. t = WithFile(p, w, "dir", i, e, d)
  BY <1>1, NodeMadeIs
<1>3. /\ Leads(img, L, c, img, NodeStores(p, w, "dir", i, e, d), t)
      /\ \E m \in LooseMem : t = Counted(p, "dir", i, e, d, m)
  BY NodeLeads
<1> HIDE DEF t
<1>4. Leads(img, L, c, t, DotStores(d, i, up), AddDots(t, d, i, up))
  <2>1. PICK m \in LooseMem : t = Counted(p, "dir", i, e, d, m)
    BY <1>3
  <2>2. PICK ib, db, fi, fd, n : t = Img(ib, db, fi, fd, n, m)
    BY <2>1 DEF Counted
  <2>3. Ok(img, L, c, t)
    BY <1>3, LeadsEnds
  <2> QED BY <1>1, <2>2, <2>3, DotsLead
<1> QED BY <1>2, <1>3, <1>4, LeadsOn

\* mkdir and create that find an inode and no blocks, or one.
LEMMA NoBlocksLead ==
  ASSUME NEW L, NEW c, Before(img, L, c), NEW i, NEW e
  PROVE  LET t == TakeInode(img, i)
         IN  /\ Leads(img, L, c, img, <<FreeInodes(-1), InodeOn(i)>>, t)
             /\ e \notin img.data_bitmap =>
                  Leads(img, L, c, img, <<FreeInodes(-1), InodeOn(i), BlockOn(e), BlockOff(e)>>, t)
<1> DEFINE ib == img.inode_bitmap
           db == img.data_bitmap
           fi == img.free_inode_count
           fd == img.free_dblock_count
           n == img.inode
           m == img.mem
           on == ib \cup {i}
           db1 == db \cup {e}
           s0 == Img(ib, db, fi, fd, n, m)
           s1 == Img(ib, db, fi - 1, fd, n, m)
           s2 == Img(on, db, fi - 1, fd, n, m)
           s3 == Img(on, db1, fi - 1, fd, n, m)
<1>1. img = s0 /\ img \in ImageType
  BY ImageFields DEF Before
<1>2. Plus(fi, -1) = fi - 1
  <2>1. fi \in Int
    BY <1>1 DEF ImageType
  <2> QED BY <2>1 DEF Plus
<1>3. BitOn(ib, i) = on /\ BitOn(db, e) = db1 /\ (e \notin db => BitOff(db1, e) = db)
  BY DEF BitOn, BitOff
<1>4. /\ \A x \in L \ c.gone : x \in ib => x \in on
      /\ \A x \in L \ c.gone : Occupied(img, x) \subseteq db => Occupied(img, x) \subseteq db1
  OBVIOUS
<1>5. Ok(img, L, c, s0)
  BY <1>1, OkStart
<1> HIDE DEF ib, db, fi, fd, n, m, on, db1
<1>6. Ok(img, L, c, s1) /\ Ok(img, L, c, s2) /\ Ok(img, L, c, s3)
  <2>1. Ok(img, L, c, s1)
    BY <1>4, <1>5, OkBits
  <2>2. Ok(img, L, c, s2)
    BY <1>4, <1>5, OkBits
  <2>3. Ok(img, L, c, s3)
    BY <1>4, <1>5, OkBits
  <2> QED BY <2>1, <2>2, <2>3
<1>7. /\ s1 = Apply(s0, FreeInodes(-1)) /\ s2 = Apply(s1, InodeOn(i))
      /\ s3 = Apply(s2, BlockOn(e)) /\ (e \notin db => s2 = Apply(s3, BlockOff(e)))
  BY <1>2, <1>3, BitStores
<1>8. s2 = TakeInode(img, i)
  BY <1>1, ImageOperators DEF on
<1> HIDE DEF s0, s1, s2, s3
<1>9. Leads(img, L, c, s0, <<FreeInodes(-1), InodeOn(i)>>, s2)
  BY <1>5, <1>6, <1>7, LeadsTwo
<1>10. e \notin db => Leads(img, L, c, s2, <<BlockOn(e), BlockOff(e)>>, s2)
  BY <1>6, <1>7, LeadsTwo
<1>11. <<FreeInodes(-1), InodeOn(i)>> \o <<BlockOn(e), BlockOff(e)>> =
         <<FreeInodes(-1), InodeOn(i), BlockOn(e), BlockOff(e)>>
  BY TwoAndTwo
<1>12. e \notin db =>
         Leads(img, L, c, s0, <<FreeInodes(-1), InodeOn(i), BlockOn(e), BlockOff(e)>>, s2)
  BY <1>9, <1>10, <1>11, LeadsOn
<1> QED BY <1>1, <1>8, <1>9, <1>12 DEF db

\* mkdir that finds no inode.
LEMMA DriftLeads ==
  ASSUME NEW L, NEW c, Before(img, L, c)
  PROVE  Leads(img, L, c, img, <<FreeInodes(-1)>>, [img EXCEPT !.free_inode_count = @ - 1])
<1> DEFINE t == [img EXCEPT !.free_inode_count = @ - 1]
<1>1. img \in ImageType
  BY DEF Before
<1>2. Apply(img, FreeInodes(-1)) = t
  <2>1. img.free_inode_count + (-1) = img.free_inode_count - 1
    BY <1>1 DEF ImageType
  <2> QED BY <2>1 DEF Apply, FreeInodes
<1>3. Ok(img, L, c, img)
  BY OkStart
<1>4. Ok(img, L, c, t)
  <2>1. /\ t.inode_bitmap = img.inode_bitmap /\ t.data_bitmap = img.data_bitmap
        /\ t.inode = img.inode /\ t.mem = img.mem
    BY <1>1 DEF ImageType
  <2> HIDE DEF t
  <2>2. Spares(img, L, c, img, t)
    BY <2>1 DEF Spares
  <2> QED BY <1>3, <2>2, OkSpared DEF Before
<1> HIDE DEF t
<1> QED BY <1>2, <1>3, <1>4, LeadsOne DEF t

\* The second half of rename, from the image it finds.
LEMMA MoveLeads ==
  ASSUME NEW L, NEW c, Before(img, L, c), NEW p \in Worked(c), NEW q \in Worked(c), p # q,
         NEW ib, NEW db, NEW fi, NEW fd, NEW n \in Table, NEW m \in LooseMem, NEW u,
         u = Img(ib, db, fi, fd, n, m), Ok(img, L, c, u),
         Whole(img, u, p), Count(u, p) = Count(img, p),
         NEW k \in 0 .. Count(img, p) - 1, Given(img, c, p, k), DentryAt(img, p, k).word \in Int,
         NEW total, Count(u, q) = total, Open(img, c, u, q, total), NEW w \in Names
  PROVE  Leads(img, L, c, u, MoveStores(p, k, q, total, w), Move(u, p, k, q, w))
<1> DEFINE a == DataBlock(img, q)
           b == DataBlock(img, p)
           x == DentryAt(img, p, k).word
           m1 == Store(m, a, total, Dentry(x, w))
           m2 == forward_layback_extents(m1, b, k, Count(img, p))
           n3 == CountedBy(n, p, -1)
           n4 == CountedBy(n3, q, 1)
           s1 == Img(ib, db, fi, fd, n, m1)
           s2 == Img(ib, db, fi, fd, n, m2)
           s3 == Img(ib, db, fi, fd, n3, m2)
           s4 == Img(ib, db, fi, fd, n4, m2)
           first == EntryStores(a, total, x, w)
           shift == ShiftStores(p, k)
           last == <<EntryCount(p, -1), EntryCount(q, 1)>>
<1>1. /\ p \in L /\ q \in L /\ L \in SUBSET Inodes /\ p \in Inodes
      /\ LaidOut(img, p) /\ LaidOut(img, q)
      /\ a \in Blocks /\ b \in Blocks /\ a # b /\ total \in Slots
  <2>1. p \in L /\ q \in L /\ L \in SUBSET Inodes
    BY DEF Before
  <2> QED BY <2>1, OwnBlock DEF Open
<1>2. /\ u.inode = n /\ u.mem = m
      /\ n[p].dentry_count = Count(img, p) /\ n[q].dentry_count = total
  BY DEF Img, Count
<1>3. DataBlock(u, p) = b /\ DataBlock(u, q) = a /\ DentryAt(u, p, k).word = x
  <2>1. Held(img, L, c, u)
    BY DEF Ok
  <2>2. ReadsIn(img, u, p) /\ ReadsIn(img, u, q)
    BY <1>1, <2>1, ReadThere
  <2>3. There(img, u, p, k) = Slot(img, p, k)
    BY DEF Whole
  <2> QED BY <2>2, <2>3 DEF ReadsIn
<1>4. MoveStores(p, k, q, total, w) = (first \o shift) \o last
  BY DEF MoveStores
<1> HIDE DEF a, b, x
<1>5. Leads(img, L, c, u, first, s1) /\ m1 \in LooseMem
  <2>1. Spare(img, L, c, u, a, total)
    BY <1>1 DEF Spare, a
  <2> QED BY <2>1, HalvesLead DEF x
<1>6. Ok(img, L, c, s1)
  BY <1>5, LeadsEnds
<1>7. Whole(img, s1, p)
  <2>1. m1[b] = m[b]
    <3>1. Dentry(x, w) \in LooseCell
      BY DEF x, Dentry, LooseCell
    <3> QED BY <1>1, <3>1, CellSet
  <2>2. Count(s1, p) = Count(u, p) /\ s1.mem[DataBlock(img, p)] = u.mem[DataBlock(img, p)]
    BY <1>2, <2>1 DEF Img, Count, b
  <2> HIDE DEF s1
  <2> QED BY <2>2, SameStatus
<1> HIDE DEF m1
<1>8. /\ Leads(img, L, c, s1, shift, s2) /\ Shifted(img, s2, p, k) /\ m2 \in LooseMem
  BY <1>5, <1>6, <1>7, ShiftLeads DEF b
<1>9. Ok(img, L, c, s2)
  BY <1>8, LeadsEnds
<1> HIDE DEF m2
<1>10. Ok(img, L, c, s3) /\ n3 \in Table
  BY <1>2, <1>8, <1>9, OkLowered
<1> HIDE DEF n3
<1>11. Ok(img, L, c, s4)
  BY <1>10, OkRaised
<1>12. s3 = Apply(s2, EntryCount(p, -1)) /\ s4 = Apply(s3, EntryCount(q, 1))
  BY InodeStores DEF n3
<1>13. s4 = Move(u, p, k, q, w)
  <2> DEFINE t1 == MemPut(u, Store(m, a, total, Dentry(x, w)))
             t2 == MemPut(t1, forward_layback_extents(t1.mem, b, k, Count(img, p)))
             t3 == WithEntries(t2, p, -1)
             t4 == WithEntries(t3, q, 1)
  <2>1. t1 = s1
    BY ImageOperators DEF m1
  <2>2. t1.mem = m1
    BY <2>1 DEF Img
  <2> HIDE DEF t1
  <2>3. t2 = s2
    BY <2>1, <2>2, ImageOperators DEF m2
  <2> HIDE DEF t2
  <2>4. t3 = s3
    BY <2>3, ImageOperators DEF n3
  <2> HIDE DEF t3
  <2>5. t4 = s4
    BY <2>4, ImageOperators
  <2>6. Move(u, p, k, q, w) = t4
    <3>1. AddEntry(u, q, u.inode[q].dentry_count, DentryAt(u, p, k).word, w) = t1
      BY <1>2, <1>3 DEF AddEntry, MemPut, t1
    <3>2. u.inode[p].dentry_count = Count(img, p)
      BY <1>2
    <3> QED BY <1>3, <3>1, <3>2 DEF Move, MemPut, t4, t3, t2
  <2> HIDE DEF t4
  <2> QED BY <2>5, <2>6
<1> HIDE DEF s1, s2, s3, s4
<1>14. Leads(img, L, c, s2, last, s4)
  BY <1>9, <1>10, <1>11, <1>12, LeadsTwo
<1> HIDE DEF first, shift, last
<1>15. Leads(img, L, c, u, (first \o shift) \o last, s4)
  BY <1>5, <1>8, <1>14, LeadsOn
<1> QED BY <1>4, <1>13, <1>15

\* rename to a name that is not there.
LEMMA RenameLeads ==
  ASSUME NEW L, NEW c, Before(img, L, c), NEW p \in Worked(c), NEW q \in Worked(c), p # q,
         NEW k \in 0 .. Count(img, p) - 1, Given(img, c, p, k), DentryAt(img, p, k).word \in Int,
         Count(img, q) < DentriesPerBlock, NEW w \in Names
  PROVE  Leads(img, L, c, img, MoveStores(p, k, q, img.inode[q].dentry_count, w),
               Move(img, p, k, q, w))
<1>1. p \in L /\ q \in L /\ img \in ImageType
  BY DEF Before
<1>2. /\ \E ib, db, fi, fd : img = Img(ib, db, fi, fd, img.inode, img.mem)
      /\ img.inode \in Table /\ img.mem \in LooseMem
  BY <1>1, ImageFields
<1>3. Ok(img, L, c, img) /\ Whole(img, img, p) /\ Whole(img, img, q)
  BY <1>1, OkStart
<1>4. Open(img, c, img, q, Count(img, q))
  <2>1. Count(img, q) \in Slots /\ Count(img, q) >= Count(img, q)
    BY <1>1, OwnBlock, Sizes DEF Slots
  <2> QED BY <1>3, <2>1 DEF Open
<1>5. Leads(img, L, c, img, MoveStores(p, k, q, Count(img, q), w), Move(img, p, k, q, w))
  BY <1>2, <1>3, <1>4, MoveLeads
<1> QED BY <1>5 DEF Count

\* rename to a name that is there: what had it is removed by then.
LEMMA ReplaceLeads ==
  ASSUME NEW L, NEW c, Before(img, L, c), NEW p \in Worked(c), NEW q \in Worked(c), p # q,
         NEW k \in 0 .. Count(img, p) - 1, Given(img, c, p, k), DentryAt(img, p, k).word \in Int,
         NEW l \in 0 .. Count(img, q) - 1, Given(img, c, q, l), NEW t \in c.gone,
         DentryAt(img, q, l).word = t, NEW w \in Names
  PROVE  Leads(img, L, c, TakenOut(img, q, l, t),
               MoveStores(p, k, q, img.inode[q].dentry_count - 1, w),
               Move(Remove(img, q, l), p, k, q, w))
<1> DEFINE ib0 == img.inode_bitmap
           db0 == img.data_bitmap
           fi0 == img.free_inode_count
           fd0 == img.free_dblock_count
           db1 == db0 \ {Bit(DataBlock(img, t))}
           ib == ib0 \ {t}
           db == db1 \ {Bit(img.inode[t].ext_block)}
           fi == fi0 + 1
           fd == fd0 + 2
           n == CountedBy(img.inode, q, -1)
           m == forward_layback_extents(img.mem, DataBlock(img, q), l, Count(img, q))
           u == Img(ib, db, fi, fd, n, m)
           total == Count(img, q) - 1
<1>1. /\ p \in L /\ q \in L /\ p \in Inodes /\ q \in Inodes /\ img \in ImageType
      /\ img.inode \in Table
  <2>1. p \in L /\ q \in L /\ p \in Inodes /\ q \in Inodes /\ img \in ImageType
    BY DEF Before
  <2> QED BY <2>1, ImageFields
<1>2. /\ Count(img, q) \in Nat /\ Count(img, q) >= 2 /\ Count(img, q) <= DentriesPerBlock
      /\ DataBlock(img, p) \in Blocks \ {DataBlock(img, q)}
  BY <1>1, OwnBlock
<1>3. u = TakenOut(img, q, l, t) /\ u = Remove(img, q, l)
  <2>1. u = TakenOut(img, q, l, t)
    BY DEF TakenOut
  <2> HIDE DEF u
  <2> QED BY <1>1, <2>1, TakenOutIs
<1>4. Ok(img, L, c, Img(ib, db, fi0, fd0, img.inode, img.mem))
  BY <1>1, OkCleared
<1>5. n[p] = img.inode[p] /\ n[q].dentry_count = Count(img, q) - 1
  BY <1>1 DEF CountedBy, Table, Inode, Count
<1> HIDE DEF ib, db
<1>6. /\ Ok(img, L, c, u) /\ Shifted(img, u, q, l) /\ n \in Table /\ m \in LooseMem
      /\ \A x \in Blocks \ {DataBlock(img, q)} : m[x] = img.mem[x]
  BY <1>4, ShiftOut
<1> HIDE DEF n, m, fi, fd
<1>7. Count(u, p) = Count(img, p) /\ Count(u, q) = total
  BY <1>5 DEF Img, Count
<1>8. Whole(img, u, p)
  <2>1. u.mem[DataBlock(img, p)] = img.mem[DataBlock(img, p)]
    BY <1>2, <1>6 DEF Img
  <2> HIDE DEF u
  <2>2. Whole(img, img, p)
    BY <1>1, OkStart
  <2> QED BY <1>7, <2>1, <2>2, SameStatus
<1>9. Open(img, c, u, q, total)
  <2>1. total \in Slots /\ total >= Count(img, q) - 1
    BY <1>2, Sizes DEF Slots
  <2> HIDE DEF u
  <2> QED BY <1>6, <2>1 DEF Open
<1> HIDE DEF total
<1>10. Leads(img, L, c, u, MoveStores(p, k, q, total, w), Move(u, p, k, q, w))
  BY <1>6, <1>7, <1>8, <1>9, MoveLeads
<1> HIDE DEF u
<1> QED BY <1>3, <1>10 DEF total, Count

-----------------------------------------------------------------------------
(* What a call is for.  T is the image it ends with, r its answer, g the   *)
(* branches it takes: as its action in A1fs, but before it has happened.   *)

NoBlocksEffect(T, r, g) ==
  /\ r = "1" /\ g = {"inode_leak"}
  /\ \E i \in Inodes :
       /\ IsFirstFree(img.inode_bitmap, InodeCount, i)
       /\ \/ NoneFree(img.data_bitmap, DBlockCount)
          \/ \E e \in DBits : /\ IsFirstFree(img.data_bitmap, DBlockCount, e)
                              /\ NoneFree(img.data_bitmap \cup {e}, DBlockCount)
       /\ T = TakeInode(img, i)

MkdirEffect(p, n, T, r, g) ==
  /\ MayAdd(p, n)
  /\ \/ /\ NoneFree(img.inode_bitmap, InodeCount)
        /\ T = [img EXCEPT !.free_inode_count = @ - 1] /\ r = "1" /\ g = {"counter_drift"}
     \/ NoBlocksEffect(T, r, g)
     \/ /\ img.inode[p].dentry_count < DentriesPerBlock /\ r = "0" /\ g = {}
        /\ \E i \in Inodes, e, d \in DBits :
             /\ Found(i, e, d)
             /\ T = AddDots(WithFile(p, n, "dir", i, e, d), d, i, DentryAt(img, p, 0).word)

CreateEffect(p, n, T, r, g) ==
  /\ MayAdd(p, n)
  /\ \/ NoneFree(img.inode_bitmap, InodeCount) /\ T = img /\ r = "1" /\ g = {}
     \/ NoBlocksEffect(T, r, g)
     \/ /\ img.inode[p].dentry_count < DentriesPerBlock /\ r = "0" /\ g = {}
        /\ \E i \in Inodes, e, d \in DBits :
             Found(i, e, d) /\ T = WithFile(p, n, "file", i, e, d)

RemoveEffect(p, n, T, r, g) ==
  /\ ret # "SIGSEGV" /\ g = {}
  /\ \E k \in 0 .. img.inode[p].dentry_count - 1, t \in Inodes :
       /\ EntryIs(p, n, k, t)
       /\ \/ IsDir(img, t) /\ img.inode[t].dentry_count > 2 /\ T = img /\ r = "-ENOTEMPTY"
          \/ /\ IsDir(img, t) => img.inode[t].dentry_count <= 2
             /\ T = Remove(img, p, k) /\ r = "0"

RenameEffect(p, n, q, m, T, r, g) ==
  /\ p # q /\ MayRename(p, n, q, m) /\ r = "0" /\ g = {}
  /\ \E k \in 0 .. img.inode[p].dentry_count - 1 :
       /\ IsAt(img, p, n, k)
       /\ \/ /\ ~ Holds(img, q, m) /\ img.inode[q].dentry_count < DentriesPerBlock
             /\ T = Move(img, p, k, q, m)
          \/ \E l \in 1 .. img.inode[q].dentry_count - 1, t \in Inodes :
               /\ EntryIs(q, m, l, t)
               /\ IsDir(img, t) => img.inode[t].dentry_count <= 2
               /\ T = Move(Remove(img, q, l), p, k, q, m)

Effect(T, r, g) ==
  /\ Bounded(T)
  /\ \E p \in Directories, n \in Names :
       \/ MkdirEffect(p, n, T, r, g)
       \/ CreateEffect(p, n, T, r, g)
       \/ RemoveEffect(p, n, T, r, g)
       \/ \E q \in Directories, m \in Names : RenameEffect(p, n, q, m, T, r, g)

\* A call answers something, and damages nothing.
LEMMA EffectMarks ==
  ASSUME NEW T, NEW r, NEW g, Effect(T, r, g)
  PROVE  r # "none" /\ g \cap Damage = {} /\ Bounded(T)
<1>1. r \in {"0", "1", "-ENOTEMPTY"} /\ g \in {{}, {"counter_drift"}, {"inode_leak"}}
  BY DEF Effect, MkdirEffect, CreateEffect, RemoveEffect, RenameEffect, NoBlocksEffect
<1>2. Bounded(T)
  BY DEF Effect
<1> QED BY <1>1, <1>2 DEF Damage

\* It does not change while the call makes its stores.
LEMMA EffectSame ==
  ASSUME NEW T, NEW r, NEW g, Effect(T, r, g), UNCHANGED <<img, ret, hit>>
  PROVE  Effect(T, r, g)'
<1>1. Bounded(T)'
  BY DEF Effect, Bounded, Intact
<1>2. Directories' = Directories
  BY DEF Directories, Reachable
<1>3. ASSUME NEW p, NEW n, MkdirEffect(p, n, T, r, g)
      PROVE  MkdirEffect(p, n, T, r, g)'
  BY <1>3 DEF MkdirEffect, NoBlocksEffect, MayAdd, Found, WithFile, WithNode
<1>4. ASSUME NEW p, NEW n, CreateEffect(p, n, T, r, g)
      PROVE  CreateEffect(p, n, T, r, g)'
  BY <1>4 DEF CreateEffect, NoBlocksEffect, MayAdd, Found, WithFile, WithNode
<1>5. ASSUME NEW p, NEW n, RemoveEffect(p, n, T, r, g)
      PROVE  RemoveEffect(p, n, T, r, g)'
  BY <1>5 DEF RemoveEffect, EntryIs
<1>6. ASSUME NEW p, NEW n, NEW q, NEW m, RenameEffect(p, n, q, m, T, r, g)
      PROVE  RenameEffect(p, n, q, m, T, r, g)'
  BY <1>6 DEF RenameEffect, MayRename, EntryIs
<1> QED BY <1>1, <1>2, <1>3, <1>4, <1>5, <1>6 DEF Effect

\* Taking an entry out of q leaves the scan of p where it was.
LEMMA ScanSame ==
  ASSUME NEW s \in ImageType, NEW L \in SUBSET Inodes, Sound(s, L),
         NEW p \in L, NEW q \in L, p # q, NEW l \in Listing(s, q), NEW n, NEW k, IsAt(s, p, n, k)
  PROVE  /\ IsAt(Remove(s, q, l), p, n, k)
         /\ Remove(s, q, l).inode[q].dentry_count = s.inode[q].dentry_count - 1
<1> DEFINE t == Remove(s, q, l)
<1>1. LaidOut(s, p) /\ LaidOut(s, q) /\ p \in Inodes /\ q \in Inodes
  BY DEF Sound
<1>2. Shrunk(s, t, q, l)
  BY <1>1, RemoveIsShrunk
<1> HIDE DEF t
<1>3. /\ t.inode[p] = s.inode[p] /\ t.inode[q].dentry_count = s.inode[q].dentry_count - 1
      /\ \A b \in Blocks \ {DataBlock(s, q)} : t.mem[b] = s.mem[b]
  BY <1>1, <1>2 DEF Shrunk
<1>4. /\ s.inode[p].ext_block \in Blocks \ {DataBlock(s, q)}
      /\ DataBlock(s, p) \in Blocks \ {DataBlock(s, q)}
  BY <1>1 DEF Sound, Apart, LaidOut
<1>5. DataBlock(t, p) = DataBlock(s, p) /\ t.mem[DataBlock(s, p)] = s.mem[DataBlock(s, p)]
  BY <1>3, <1>4 DEF DataBlock
<1>6. \A x \in 0 .. s.inode[p].dentry_count - 1 : DentryAt(t, p, x) = DentryAt(s, p, x)
  <2>1. \A x \in 0 .. s.inode[p].dentry_count - 1 : x < DentriesPerBlock
    BY <1>1, Sizes DEF LaidOut
  <2> QED BY <1>5, <2>1 DEF DentryAt, At
<1>7. \A x \in 0 .. k - 1 : x \in 0 .. s.inode[p].dentry_count - 1
  BY <1>1, Sizes DEF IsAt, LaidOut
<1> QED BY <1>3, <1>6, <1>7 DEF IsAt, t

\* The call that has its effect is a step of A1fs.
LEMMA EffectActs ==
  ASSUME IInv, SoundInv, Intact, NEW T, NEW r, NEW g, Effect(T, r, g),
         img' = T, ret' = r, hit' = hit \cup g
  PROVE  Next
<1>1. Return(T, r, g)
  <2>1. Bounded(T) /\ g \cap Damage = {}
    BY EffectMarks
  <2>2. Intact' /\ "astray" \notin hit'
    BY <2>1 DEF Intact, Damage
  <2>3. Bounded(img')
    BY <2>1, <2>2 DEF Bounded
  <2> QED BY <2>3 DEF Return
<1>2. \A k : k < DentriesPerBlock => \A b : Mapped(b, k) /\ Overrun(k) = {}
  BY DEF Mapped, Overrun
<1>3. ASSUME NoBlocksEffect(T, r, g)
      PROVE  \E i \in Inodes : NoBlocks(i)
  BY <1>1, <1>3 DEF NoBlocksEffect, NoBlocks
<1>4. ASSUME NEW i \in Inodes, NEW e \in DBits, NEW d \in DBits, Found(i, e, d)
      PROVE  /\ i \in FirstFree(img.inode_bitmap, InodeCount)
             /\ e \in FirstFree(img.data_bitmap, DBlockCount)
             /\ d \in FirstFree(img.data_bitmap \cup {e}, DBlockCount)
  BY <1>4 DEF Found, FirstFree, Inodes, DBits
<1>5. ASSUME NEW p, NEW n, MkdirEffect(p, n, T, r, g)
      PROVE  Mkdir(p, n)
  <2>1. MayAdd(p, n)
    BY <1>5 DEF MkdirEffect
  <2>2. CASE /\ NoneFree(img.inode_bitmap, InodeCount)
             /\ T = [img EXCEPT !.free_inode_count = @ - 1] /\ r = "1" /\ g = {"counter_drift"}
    BY <1>1, <2>1, <2>2 DEF Mkdir
  <2>3. CASE NoBlocksEffect(T, r, g)
    BY <1>3, <2>1, <2>3 DEF Mkdir
  <2>4. ASSUME img.inode[p].dentry_count < DentriesPerBlock, r = "0", g = {},
               NEW i \in Inodes, NEW e \in DBits, NEW d \in DBits, Found(i, e, d),
               T = AddDots(WithFile(p, n, "dir", i, e, d), d, i, DentryAt(img, p, 0).word)
        PROVE  Mkdir(p, n)
    BY <1>1, <1>2, <1>4, <2>1, <2>4 DEF Mkdir
  <2> QED BY <1>5, <2>2, <2>3, <2>4 DEF MkdirEffect
<1>6. ASSUME NEW p, NEW n, CreateEffect(p, n, T, r, g)
      PROVE  Create(p, n)
  <2>1. MayAdd(p, n)
    BY <1>6 DEF CreateEffect
  <2>2. CASE NoneFree(img.inode_bitmap, InodeCount) /\ T = img /\ r = "1" /\ g = {}
    BY <1>1, <2>1, <2>2 DEF Create
  <2>3. CASE NoBlocksEffect(T, r, g)
    BY <1>3, <2>1, <2>3 DEF Create
  <2>4. ASSUME img.inode[p].dentry_count < DentriesPerBlock, r = "0", g = {},
               NEW i \in Inodes, NEW e \in DBits, NEW d \in DBits, Found(i, e, d),
               T = WithFile(p, n, "file", i, e, d)
        PROVE  Create(p, n)
    BY <1>1, <1>2, <1>4, <2>1, <2>4 DEF Create
  <2> QED BY <1>6, <2>2, <2>3, <2>4 DEF CreateEffect
<1>7. ASSUME NEW p, NEW n, RemoveEffect(p, n, T, r, g)
      PROVE  Rmdir(p, n) \/ Unlink(p, n)
  BY <1>1, <1>7 DEF RemoveEffect, Rmdir, Unlink
<1>8. ASSUME NEW p \in Directories, NEW n \in Names, NEW q \in Directories, NEW m \in Names,
             RenameEffect(p, n, q, m, T, r, g)
      PROVE  Rename(p, n, q, m)
  <2>1. PICK k \in 0 .. img.inode[p].dentry_count - 1 :
          /\ IsAt(img, p, n, k)
          /\ \/ /\ ~ Holds(img, q, m) /\ img.inode[q].dentry_count < DentriesPerBlock
                /\ T = Move(img, p, k, q, m)
             \/ \E l \in 1 .. img.inode[q].dentry_count - 1, t \in Inodes :
                  /\ EntryIs(q, m, l, t)
                  /\ IsDir(img, t) => img.inode[t].dentry_count <= 2
                  /\ T = Move(Remove(img, q, l), p, k, q, m)
    BY <1>8 DEF RenameEffect
  <2>2. p # q /\ MayRename(p, n, q, m) /\ r = "0" /\ g = {}
    BY <1>8 DEF RenameEffect
  <2>3. ret # "SIGSEGV" /\ <<p, n>> # <<q, m>> /\ Holds(img, p, n)
    BY <2>1, <2>2 DEF MayRename, IsAt, Holds
  <2>4. ASSUME NEW s, IsAt(s, p, n, k), T = Move(s, p, k, q, m),
               s.inode[q].dentry_count < DentriesPerBlock
        PROVE  FinishRename(s, p, n, q, m, {})
    <3>1. k \in 0 .. s.inode[p].dentry_count - 1
      BY <2>4 DEF IsAt
    <3>2. /\ Mapped(DataBlock(s, q), s.inode[q].dentry_count)
          /\ Overrun(s.inode[q].dentry_count) = {}
      BY <1>2, <2>4
    <3>3. Return(Move(s, p, k, q, m), "0", {} \cup {} \cup {})
      BY <1>1, <2>2, <2>4
    <3> QED BY <2>2, <2>4, <3>1, <3>2, <3>3 DEF FinishRename
  <2>5. CASE /\ ~ Holds(img, q, m) /\ img.inode[q].dentry_count < DentriesPerBlock
             /\ T = Move(img, p, k, q, m)
    <3>1. \A x \in 0 .. img.inode[q].dentry_count - 1 : IsAt(img, q, m, x) => x = 0
      BY <2>5 DEF Holds, IsAt
    <3>2. FinishRename(img, p, n, q, m, {})
      BY <2>1, <2>4, <2>5
    <3> QED BY <2>2, <2>3, <3>1, <3>2 DEF Rename
  <2>6. ASSUME NEW l \in 1 .. img.inode[q].dentry_count - 1, NEW t \in Inodes,
               EntryIs(q, m, l, t), IsDir(img, t) => img.inode[t].dentry_count <= 2,
               T = Move(Remove(img, q, l), p, k, q, m)
        PROVE  Rename(p, n, q, m)
    <3>1. /\ img \in ImageType /\ Reachable \in SUBSET Inodes /\ Sound(img, Reachable)
          /\ p \in Reachable /\ q \in Reachable /\ LaidOut(img, q)
      BY SoundImage, SoundDirectory
    <3>2. l \in Listing(img, q)
      BY <2>6, EntryEdge
    <3>3. /\ IsAt(Remove(img, q, l), p, n, k)
          /\ Remove(img, q, l).inode[q].dentry_count = img.inode[q].dentry_count - 1
      BY <2>1, <2>2, <3>1, <3>2, ScanSame
    <3>4. Remove(img, q, l).inode[q].dentry_count < DentriesPerBlock
      BY <3>1, <3>3, Sizes DEF LaidOut
    <3>5. FinishRename(Remove(img, q, l), p, n, q, m, {})
      BY <2>4, <2>6, <3>3, <3>4
    <3>6. CASE IsDir(img, t)
      <4>1. ~ (img.inode[t].dentry_count > 2)
        <5>1. LaidOut(img, t)
          BY <2>6, <3>1, EntryEdge DEF Sound
        <5> QED BY <2>6, <3>6, <5>1, Sizes DEF LaidOut
      <4> QED BY <2>2, <2>6, <2>3, <3>5, <3>6, <4>1 DEF Rename
    <3>7. CASE ~ IsDir(img, t)
      BY <2>2, <2>6, <2>3, <3>5, <3>7 DEF Rename
    <3> QED BY <3>6, <3>7
  <2> QED BY <2>1, <2>5, <2>6
<1> QED BY <1>5, <1>6, <1>7, <1>8 DEF Effect, Next

\* What the counters of an intact image may be.
LEMMA CountersRoom ==
  ASSUME IInv, SoundInv, Intact
  PROVE  /\ img.free_inode_count \in Int /\ img.free_inode_count <= InodeCount - 1
         /\ img.free_dblock_count \in 0 .. DBlockCount - 2
         /\ \A e, d \in DBits \ img.data_bitmap : e # d => img.free_dblock_count >= 2
         /\ \A x \in Inodes : /\ img.inode[x].dentry_count \in Int
                              /\ img.inode[x].dentry_count < 2 * DentriesPerBlock
<1>1. /\ img \in ImageType /\ Sound(img, Reachable) /\ Reachable \in SUBSET Inodes
      /\ img.free_inode_count <= InodeCount - Cardinality(img.inode_bitmap)
  BY SoundImage DEF InodesExact
<1>2. /\ img.inode_bitmap \in SUBSET Inodes /\ img.data_bitmap \in SUBSET DBits
      /\ img.free_inode_count \in Int
  BY <1>1 DEF ImageType
<1>3. 0 \in Reachable /\ 0 \in img.inode_bitmap
  BY <1>1 DEF Sound, Graph
<1>4. Cardinality(img.inode_bitmap) \in Nat /\ Cardinality(img.inode_bitmap) # 0
  <2>1. IsFiniteSet(img.inode_bitmap)
    BY <1>2, BitmapsFinite, FS_Subset
  <2> QED BY <1>3, <2>1, FS_CardinalityType, FS_EmptySet
<1>5. Cardinality(img.data_bitmap) \in Nat /\ Cardinality(img.data_bitmap) >= 2
  <2>1. IsFiniteSet(Reachable) /\ IsFiniteSet(img.data_bitmap)
    BY <1>1, <1>2, BitmapsFinite, FS_Subset
  <2>2. Cardinality(Reachable) \in Nat /\ Cardinality(Reachable) # 0
    BY <1>3, <2>1, FS_CardinalityType, FS_EmptySet
  <2> QED BY <1>1, <2>1, <2>2, FS_CardinalityType DEF Sound, Accounted
<1>6. Cardinality(img.data_bitmap) <= DBlockCount
  BY <1>2, Capacity
<1>7. ASSUME NEW e \in DBits \ img.data_bitmap, NEW d \in DBits \ img.data_bitmap, e # d
      PROVE  Cardinality(img.data_bitmap) + 2 <= DBlockCount
  <2>1. Cardinality(img.data_bitmap \cup {e, d}) = Cardinality(img.data_bitmap) + 2
    BY <1>2, <1>7, BitmapsFinite, PairAdded
  <2>2. img.data_bitmap \cup {e, d} \subseteq DBits
    BY <1>2, <1>7
  <2> QED BY <2>1, <2>2, Capacity
<1>8. img.free_dblock_count = DBlockCount - Cardinality(img.data_bitmap)
  BY <1>1 DEF Sound, Accounted
<1>9. \A x \in Inodes : /\ img.inode[x].dentry_count \in Int
                        /\ img.inode[x].dentry_count < 2 * DentriesPerBlock
  BY Sizes DEF IInv, Typed
<1> QED BY <1>1, <1>2, <1>4, <1>5, <1>6, <1>7, <1>8, <1>9, Sizes

\* Where calls are followed to.
LEMMA BoundedBy ==
  ASSUME Intact, NEW s, s.free_inode_count \in Int, s.free_inode_count >= -CounterSlack,
         s.free_inode_count <= InodeCount, s.free_dblock_count \in 0 .. DBlockCount,
         \A x \in Inodes : s.inode[x].dentry_count < 2 * DentriesPerBlock
  PROVE  Bounded(s)
<1>1. s.free_inode_count \in -CounterSlack .. InodeCount + CounterSlack
  BY BoundAssumption, Sizes
<1>2. s.free_dblock_count \in -CounterSlack .. DBlockCount + CounterSlack
  BY BoundAssumption, Sizes
<1>3. "astray" \notin hit
  BY DEF Intact, Damage
<1> QED BY <1>1, <1>2, <1>3 DEF Bounded

\* Calls that add a node are followed to what they leave...
LEMMA GrownBounded ==
  ASSUME IInv, SoundInv, Intact, NEW p \in Inodes, MayBegin(p), NEW n, NEW mode,
         NEW i \in Inodes, NEW e \in DBits \ img.data_bitmap, NEW d \in DBits \ img.data_bitmap,
         e # d, NEW T, Grown(img, T, p, n, mode, i, e, d)
  PROVE  Bounded(T)
<1>1. /\ img.free_inode_count \in Int /\ img.free_inode_count <= InodeCount - 1
      /\ img.free_dblock_count \in 0 .. DBlockCount - 2 /\ img.free_dblock_count >= 2
      /\ \A x \in Inodes : /\ img.inode[x].dentry_count \in Int
                           /\ img.inode[x].dentry_count < 2 * DentriesPerBlock
  BY CountersRoom
<1>2. /\ T.free_inode_count = img.free_inode_count - 1
      /\ T.free_dblock_count = img.free_dblock_count - 2
      /\ T.inode[i].dentry_count = 2
      /\ T.inode[p].dentry_count = img.inode[p].dentry_count + 1
      /\ \A x \in Inodes \ {i, p} : T.inode[x] = img.inode[x]
  BY DEF Grown
<1>3. img.free_inode_count > -CounterSlack /\ img.inode[p].dentry_count < DentriesPerBlock
  BY DEF MayBegin
<1>4. T.free_inode_count \in Int /\ T.free_inode_count >= -CounterSlack /\ T.free_inode_count <= InodeCount
  BY <1>1, <1>2, <1>3, Sizes, BoundAssumption
<1>5. T.free_dblock_count \in 0 .. DBlockCount
  BY <1>1, <1>2, Sizes
<1>6. ASSUME NEW x \in Inodes
      PROVE  T.inode[x].dentry_count < 2 * DentriesPerBlock
  <2>1. CASE x = i
    BY <1>2, <2>1, Sizes
  <2>2. CASE x = p
    BY <1>1, <1>2, <1>3, <2>2, Sizes
  <2>3. CASE x # i /\ x # p
    BY <1>1, <1>2, <2>3
  <2> QED BY <2>1, <2>2, <2>3
<1> QED BY <1>4, <1>5, <1>6, BoundedBy

\* ... those that fail half way...
LEMMA LeakBounded ==
  ASSUME IInv, SoundInv, Intact, NEW p, MayBegin(p), NEW T,
         T.free_inode_count = img.free_inode_count - 1,
         T.free_dblock_count = img.free_dblock_count, T.inode = img.inode
  PROVE  Bounded(T)
<1>1. /\ img.free_inode_count \in Int /\ img.free_inode_count <= InodeCount - 1
      /\ img.free_dblock_count \in 0 .. DBlockCount - 2
      /\ \A x \in Inodes : img.inode[x].dentry_count < 2 * DentriesPerBlock
  BY CountersRoom
<1>2. T.free_inode_count \in Int /\ T.free_inode_count >= -CounterSlack /\ T.free_inode_count <= InodeCount
  BY <1>1, Sizes, BoundAssumption DEF MayBegin
<1>3. T.free_dblock_count \in 0 .. DBlockCount
  BY <1>1, Sizes
<1> QED BY <1>1, <1>2, <1>3, BoundedBy

\* ... those that remove one...
LEMMA ShrunkRoom ==
  ASSUME IInv, SoundInv, Intact, Bounded(img), NEW p \in Inodes, NEW k,
         NEW T, Shrunk(img, T, p, k)
  PROVE  /\ T.free_inode_count \in Int /\ T.free_inode_count >= -CounterSlack
         /\ T.free_inode_count <= InodeCount
         /\ T.free_dblock_count \in 0 .. DBlockCount
         /\ \A x \in Inodes : /\ T.inode[x].dentry_count \in Int
                              /\ T.inode[x].dentry_count < 2 * DentriesPerBlock
<1>1. /\ img.free_inode_count \in Int /\ img.free_inode_count <= InodeCount - 1
      /\ img.free_dblock_count \in 0 .. DBlockCount - 2
      /\ \A x \in Inodes : /\ img.inode[x].dentry_count \in Int
                           /\ img.inode[x].dentry_count < 2 * DentriesPerBlock
  BY CountersRoom
<1>2. /\ T.free_inode_count = img.free_inode_count + 1
      /\ T.free_dblock_count = img.free_dblock_count + 2
      /\ T.inode[p].dentry_count = img.inode[p].dentry_count - 1
      /\ \A x \in Inodes \ {p} : T.inode[x] = img.inode[x]
  BY DEF Shrunk
<1>3. img.free_inode_count >= -CounterSlack
  BY BoundAssumption, Sizes DEF Bounded
<1>4. T.free_inode_count \in Int /\ T.free_inode_count >= -CounterSlack /\ T.free_inode_count <= InodeCount
  BY <1>1, <1>2, <1>3, Sizes, BoundAssumption
<1>5. T.free_dblock_count \in 0 .. DBlockCount
  BY <1>1, <1>2, Sizes
<1>6. ASSUME NEW x \in Inodes
      PROVE  T.inode[x].dentry_count \in Int /\ T.inode[x].dentry_count < 2 * DentriesPerBlock
  <2>1. CASE x = p
    BY <1>1, <1>2, <2>1, Sizes
  <2>2. CASE x # p
    BY <1>1, <1>2, <2>2
  <2> QED BY <2>1, <2>2
<1> QED BY <1>4, <1>5, <1>6

\* ... and those that move one.
LEMMA MoveBounded ==
  ASSUME Intact, NEW s \in ImageType, NEW p \in Inodes, NEW q \in Inodes, p # q, NEW k, NEW m,
         s.free_inode_count \in Int, s.free_inode_count >= -CounterSlack,
         s.free_inode_count <= InodeCount, s.free_dblock_count \in 0 .. DBlockCount,
         \A x \in Inodes : /\ s.inode[x].dentry_count \in Int
                           /\ s.inode[x].dentry_count < 2 * DentriesPerBlock,
         s.inode[q].dentry_count < DentriesPerBlock
  PROVE  Bounded(Move(s, p, k, q, m))
<1> DEFINE m1 == Store(s.mem, DataBlock(s, q), s.inode[q].dentry_count,
                       Dentry(DentryAt(s, p, k).word, m))
           m2 == forward_layback_extents(m1, DataBlock(s, p), k, s.inode[p].dentry_count)
           u == [s EXCEPT !.mem = m1]
           v == [u EXCEPT !.mem = m2]
           w == WithEntries(v, p, -1)
           t == WithEntries(w, q, 1)
<1>1. Record(u) /\ SameBitmaps(s, u) /\ u.inode = s.inode /\ u.mem = m1
  BY ImageRecord, MemSet
<1>2. Move(s, p, k, q, m) = t
  BY <1>1 DEF Move, AddEntry
<1> HIDE DEF u
<1>3. Record(v) /\ SameBitmaps(u, v) /\ v.inode = u.inode
  BY <1>1, MemSet
<1> HIDE DEF v
<1>4. v.inode \in [Inodes -> Inode] /\ -1 \in Int /\ 1 \in Int
  BY <1>1, <1>3 DEF ImageType
<1>5. /\ Record(w) /\ SameBitmaps(v, w) /\ w.inode \in [Inodes -> Inode]
      /\ w.inode[p].dentry_count = v.inode[p].dentry_count + -1
      /\ \A y \in Inodes \ {p} : w.inode[y] = v.inode[y]
  BY <1>3, <1>4, CountSet
<1> HIDE DEF w
<1>6. /\ SameBitmaps(w, t)
      /\ t.inode[q].dentry_count = w.inode[q].dentry_count + 1
      /\ \A y \in Inodes \ {q} : t.inode[y] = w.inode[y]
  BY <1>4, <1>5, CountSet
<1> HIDE DEF t
<1>7. ASSUME NEW x \in Inodes
      PROVE  t.inode[x].dentry_count < 2 * DentriesPerBlock
  <2>1. CASE x = p
    BY <1>1, <1>3, <1>5, <1>6, <2>1, Sizes
  <2>2. CASE x = q
    BY <1>1, <1>3, <1>5, <1>6, <2>2, Sizes
  <2>3. CASE x # p /\ x # q
    BY <1>1, <1>3, <1>5, <1>6, <2>3
  <2> QED BY <2>1, <2>2, <2>3
<1>8. t.free_inode_count = s.free_inode_count /\ t.free_dblock_count = s.free_dblock_count
  BY <1>1, <1>3, <1>5, <1>6 DEF SameBitmaps
<1> QED BY <1>2, <1>7, <1>8, BoundedBy

-----------------------------------------------------------------------------
(* A call begins.                                                          *)

Ready == IInv /\ SoundInv /\ Intact /\ Bounded(img)

\* The stores S of the call c lead, through images where all is well, to its
\* effect.
Starts(c, S) ==
  /\ Before(img, Reachable, c)
  /\ \E T : Leads(img, Reachable, c, img, S, T) /\ Effect(T, c.ret, c.branches)

\* A call in one directory, and what it starts from.
OneCall(p, n, gone, r, g) == Call({<<p, n>>}, gone, r, g)

\* Such a call starts from a good image, and the name it was given is what it is about.
LEMMA OneName ==
  ASSUME Ready, NEW p \in Directories, NEW n \in Names, NEW gone \in SUBSET Reachable, NEW r, NEW g
  PROVE  LET c == OneCall(p, n, gone, r, g)
         IN  /\ Before(img, Reachable, c) /\ p \in Worked(c)
             /\ c.gone = gone /\ c.ret = r /\ c.branches = g
             /\ \A k : IsAt(img, p, n, k) => Given(img, c, p, k) /\ k \in 0 .. Count(img, p) - 1
<1> DEFINE c == OneCall(p, n, gone, r, g)
<1>1. img \in ImageType /\ Reachable \in SUBSET Inodes /\ Sound(img, Reachable)
  BY SoundImage DEF Ready
<1>2. p \in Inodes /\ p \in Reachable /\ LaidOut(img, p)
  BY SoundDirectory DEF Ready
<1>3. c.names = {<<p, n>>} /\ c.gone = gone /\ c.ret = r /\ c.branches = g
  BY DEF OneCall, Call
<1> HIDE DEF c
<1>4. p \in Worked(c) /\ \A x \in Worked(c) : x = p
  <2>1. <<p, n>>[1] = p
    OBVIOUS
  <2>2. \A x : x \in Worked(c) <=> \E y \in c.names : x = y[1]
    BY DEF Worked
  <2> QED BY <1>3, <2>1, <2>2
<1>5. ASSUME NEW k, IsAt(img, p, n, k)
      PROVE  Given(img, c, p, k) /\ k \in 0 .. Count(img, p) - 1
  <2>1. k \in 0 .. Count(img, p) - 1 /\ DentryAt(img, p, k).tail = n
    BY <1>5 DEF IsAt, Count
  <2>2. DentryAt(img, p, k) = Slot(img, p, k)
    BY <1>2, <2>1, LaidOutFacts DEF Count
  <2> QED BY <1>3, <2>1, <2>2 DEF Given
<1>6. Before(img, Reachable, c)
  BY <1>1, <1>2, <1>3, <1>4 DEF Before
<1> QED BY <1>3, <1>4, <1>5, <1>6 DEF c

\* The inode and the blocks of a new node are nobody's.
LEMMA FoundFacts ==
  ASSUME Ready, NEW p \in Directories, MayBegin(p),
         NEW i \in Inodes, NEW e \in DBits, NEW d \in DBits, Found(i, e, d)
  PROVE  /\ i \in Inodes \ Reachable /\ i # p /\ e # d
         /\ e \in DBits \ img.data_bitmap /\ d \in DBits \ img.data_bitmap
         /\ Count(img, p) < DentriesPerBlock
         /\ img.inode[p].dentry_count \in Slots
         /\ DataBlock(img, p) \in Blocks \ {Block(e), Block(d)}
<1>1. img.inode[p].dentry_count < DentriesPerBlock
  BY DEF MayBegin
<1>2. Overrun(img.inode[p].dentry_count) \cap Damage = {}
  BY <1>1 DEF Overrun
<1>3. Reachable \subseteq img.inode_bitmap
  BY SoundImage DEF Ready, Sound
<1>4. i \notin img.inode_bitmap /\ e \notin img.data_bitmap /\ d \notin img.data_bitmap
  BY DEF Found, IsFirstFree
<1> QED BY <1>1, <1>2, <1>3, <1>4, RoomFacts DEF Ready, Count

\* mkdir and create with an inode and no blocks for it.
LEMMA NoBlocksStarts ==
  ASSUME Ready, NEW p \in Directories, NEW n \in Names, MayBegin(p), MayAdd(p, n),
         NEW i \in Inodes, BeginNoBlocks(p, n, i)
  PROVE  Starts(call', todo')
<1> DEFINE c == OneCall(p, n, {}, "1", {"inode_leak"})
           T == TakeInode(img, i)
<1>1. Before(img, Reachable, c) /\ c.ret = "1" /\ c.branches = {"inode_leak"}
  <2>1. {} \in SUBSET Reachable
    OBVIOUS
  <2> QED BY <2>1, OneName
<1>2. call' = c
  BY DEF BeginNoBlocks, Begin, OneCall
<1> HIDE DEF c
<1>3. Leads(img, Reachable, c, img, todo', T)
  <2>1. CASE todo' = <<FreeInodes(-1), InodeOn(i)>>
    BY <1>1, <2>1, NoBlocksLead
  <2>2. CASE \E e \in DBits : e \notin img.data_bitmap /\
               todo' = <<FreeInodes(-1), InodeOn(i), BlockOn(e), BlockOff(e)>>
    <3>1. PICK e \in DBits : e \notin img.data_bitmap /\
            todo' = <<FreeInodes(-1), InodeOn(i), BlockOn(e), BlockOff(e)>>
      BY <2>2
    <3> QED BY <1>1, <3>1, NoBlocksLead
  <2> QED BY <2>1, <2>2 DEF BeginNoBlocks, Begin, IsFirstFree
<1>4. NoBlocksEffect(T, "1", {"inode_leak"})
  BY DEF BeginNoBlocks, NoBlocksEffect
<1>5. Bounded(T)
  <2>1. /\ T.free_inode_count = img.free_inode_count - 1
        /\ T.free_dblock_count = img.free_dblock_count /\ T.inode = img.inode
    <3>1. img \in ImageType
      BY SoundImage DEF Ready
    <3> QED BY <3>1 DEF TakeInode, ImageType
  <2> HIDE DEF T
  <2> QED BY <2>1, LeakBounded DEF Ready
<1> HIDE DEF T
<1>6. Effect(T, "1", {"inode_leak"})
  BY <1>4, <1>5 DEF Effect, CreateEffect
<1> QED BY <1>1, <1>2, <1>3, <1>6 DEF Starts

\* mkdir begins a call whose stores keep the others and end in its effect.
LEMMA MkdirStarts ==
  ASSUME Ready, NEW p \in Directories, NEW n \in Names, BeginMkdir(p, n)
  PROVE  Starts(call', todo')
<1>1. MayBegin(p) /\ MayAdd(p, n)
  BY DEF BeginMkdir
<1>2. CASE \E i \in Inodes : BeginNoBlocks(p, n, i)
  BY <1>1, <1>2, NoBlocksStarts
<1>3. CASE /\ NoneFree(img.inode_bitmap, InodeCount)
           /\ Begin(<<FreeInodes(-1)>>, Call({<<p, n>>}, {}, "1", {"counter_drift"}))
  <2> DEFINE c == OneCall(p, n, {}, "1", {"counter_drift"})
             T == [img EXCEPT !.free_inode_count = @ - 1]
  <2>1. Before(img, Reachable, c) /\ c.ret = "1" /\ c.branches = {"counter_drift"}
    <3>1. {} \in SUBSET Reachable
      OBVIOUS
    <3> QED BY <3>1, OneName
  <2>2. call' = c /\ todo' = <<FreeInodes(-1)>>
    BY <1>3 DEF Begin, OneCall
  <2> HIDE DEF c
  <2>3. Leads(img, Reachable, c, img, todo', T)
    BY <2>1, <2>2, DriftLeads
  <2>4. MkdirEffect(p, n, T, "1", {"counter_drift"})
    BY <1>1, <1>3 DEF MkdirEffect
  <2>5. Bounded(T)
    <3>1. /\ T.free_inode_count = img.free_inode_count - 1
          /\ T.free_dblock_count = img.free_dblock_count /\ T.inode = img.inode
      <4>1. img \in ImageType
        BY SoundImage DEF Ready
      <4> QED BY <4>1 DEF ImageType
    <3> HIDE DEF T
    <3> QED BY <1>1, <3>1, LeakBounded DEF Ready
  <2> HIDE DEF T
  <2>6. Effect(T, "1", {"counter_drift"})
    BY <2>4, <2>5 DEF Effect
  <2> QED BY <2>1, <2>2, <2>3, <2>6 DEF Starts
<1>4. ASSUME NEW i \in Inodes, NEW e \in DBits, NEW d \in DBits, Found(i, e, d),
             Begin(NodeStores(p, n, "dir", i, e, d) \o DotStores(d, i, DentryAt(img, p, 0).word),
                   Call({<<p, n>>}, {}, "0", {}))
      PROVE  Starts(call', todo')
  <2> DEFINE c == OneCall(p, n, {}, "0", {})
             up == DentryAt(img, p, 0).word
             T == AddDots(WithFile(p, n, "dir", i, e, d), d, i, up)
             S == NodeStores(p, n, "dir", i, e, d) \o DotStores(d, i, up)
  <2>1. /\ Before(img, Reachable, c) /\ c.ret = "0" /\ c.branches = {} /\ p \in Worked(c)
        /\ p \in Inodes /\ LaidOut(img, p) /\ IsDir(img, p)
    <3>1. {} \in SUBSET Reachable
      OBVIOUS
    <3>2. p \in Inodes /\ LaidOut(img, p) /\ IsDir(img, p)
      BY SoundDirectory DEF Ready
    <3> HIDE DEF T, S, up
    <3>3. /\ Before(img, Reachable, c) /\ c.ret = "0" /\ c.branches = {}
          /\ p \in Worked(c)
      BY <3>1, OneName
    <3> HIDE DEF c
    <3> QED BY <3>2, <3>3
  <2>2. call' = c /\ todo' = S
    BY <1>4 DEF Begin, OneCall
  <2> HIDE DEF c, S
  <2>3. /\ i \in Inodes \ Reachable /\ i # p /\ e # d
        /\ e \in DBits \ img.data_bitmap /\ d \in DBits \ img.data_bitmap
        /\ Count(img, p) < DentriesPerBlock
        /\ img.inode[p].dentry_count \in Slots
        /\ DataBlock(img, p) \in Blocks \ {Block(e), Block(d)}
    BY <1>1, <1>4, FoundFacts
  <2>4. up \in Inodes /\ up \in Int
    <3>1. up = p
      BY <2>1, LaidOutFacts DEF LaidOut, Listed, Dentry
    <3>2. Inodes \subseteq Int
      BY Sizes DEF Inodes
    <3> QED BY <2>1, <3>1, <3>2
  <2>5. Leads(img, Reachable, c, img, S, T)
    <3> HIDE DEF up, T
    <3>1. Leads(img, Reachable, c, img, NodeStores(p, n, "dir", i, e, d) \o DotStores(d, i, up),
                AddDots(WithFile(p, n, "dir", i, e, d), d, i, up))
      BY <2>1, <2>3, <2>4, MkdirLeads
    <3> QED BY <3>1 DEF S, T
  <2>6. MkdirEffect(p, n, T, "0", {})
    BY <1>1, <1>4 DEF MkdirEffect, MayBegin
  <2>7. Bounded(T)
    <3>1. img \in ImageType
      BY <2>1 DEF Before
    <3>2. Grown(img, T, p, n, "dir", i, e, d)
      BY <2>1, <2>3, <2>4, <3>1, WithDirShape
    <3> HIDE DEF T
    <3> QED BY <1>1, <2>1, <2>3, <3>2, GrownBounded DEF Ready
  <2> HIDE DEF T
  <2>8. Effect(T, "0", {})
    BY <2>6, <2>7 DEF Effect
  <2> QED BY <2>1, <2>2, <2>5, <2>8 DEF Starts
<1> QED BY <1>2, <1>3, <1>4 DEF BeginMkdir

\* So does create.
LEMMA CreateStarts ==
  ASSUME Ready, NEW p \in Directories, NEW n \in Names, BeginCreate(p, n)
  PROVE  Starts(call', todo')
<1>1. MayBegin(p) /\ MayAdd(p, n)
  BY DEF BeginCreate
<1>2. CASE \E i \in Inodes : BeginNoBlocks(p, n, i)
  BY <1>1, <1>2, NoBlocksStarts
<1>3. CASE /\ NoneFree(img.inode_bitmap, InodeCount)
           /\ Begin(<<>>, Call({<<p, n>>}, {}, "1", {}))
  <2> DEFINE c == OneCall(p, n, {}, "1", {})
  <2>1. Before(img, Reachable, c) /\ c.ret = "1" /\ c.branches = {}
    <3>1. {} \in SUBSET Reachable
      OBVIOUS
    <3> QED BY <3>1, OneName
  <2>2. call' = c /\ todo' = <<>>
    BY <1>3 DEF Begin, OneCall
  <2> HIDE DEF c
  <2>3. Leads(img, Reachable, c, img, <<>>, img)
    BY <2>1, OkStart, LeadsNowhere
  <2>4. CreateEffect(p, n, img, "1", {})
    BY <1>1, <1>3 DEF CreateEffect
  <2>5. Effect(img, "1", {})
    BY <2>4 DEF Effect, Ready
  <2> QED BY <2>1, <2>2, <2>3, <2>5 DEF Starts
<1>4. ASSUME NEW i \in Inodes, NEW e \in DBits, NEW d \in DBits, Found(i, e, d),
             Begin(NodeStores(p, n, "file", i, e, d), Call({<<p, n>>}, {}, "0", {}))
      PROVE  Starts(call', todo')
  <2> DEFINE c == OneCall(p, n, {}, "0", {})
             T == WithFile(p, n, "file", i, e, d)
             S == NodeStores(p, n, "file", i, e, d)
  <2>1. /\ Before(img, Reachable, c) /\ c.ret = "0" /\ c.branches = {} /\ p \in Worked(c)
        /\ p \in Inodes
    <3>1. {} \in SUBSET Reachable
      OBVIOUS
    <3>2. p \in Inodes
      BY SoundDirectory DEF Ready
    <3> HIDE DEF T, S
    <3> QED BY <3>1, <3>2, OneName
  <2>2. call' = c /\ todo' = S
    BY <1>4 DEF Begin, OneCall
  <2> HIDE DEF c, S
  <2>3. /\ i \in Inodes \ Reachable /\ i # p /\ e # d
        /\ e \in DBits \ img.data_bitmap /\ d \in DBits \ img.data_bitmap
        /\ Count(img, p) < DentriesPerBlock
        /\ img.inode[p].dentry_count \in Slots
        /\ DataBlock(img, p) \in Blocks \ {Block(e), Block(d)}
    BY <1>1, <1>4, FoundFacts
  <2>4. Leads(img, Reachable, c, img, S, T)
    BY <2>1, <2>3, CreateLeads DEF S
  <2>5. CreateEffect(p, n, T, "0", {})
    BY <1>1, <1>4 DEF CreateEffect, MayBegin
  <2>6. Bounded(T)
    <3>1. img \in ImageType /\ "file" \in {"file", "dir"}
      BY <2>1 DEF Before
    <3>2. Grown(img, T, p, n, "file", i, e, d)
      BY <2>1, <2>3, <3>1, WithFileShape
    <3> HIDE DEF T
    <3> QED BY <1>1, <2>1, <2>3, <3>2, GrownBounded DEF Ready
  <2> HIDE DEF T
  <2>7. Effect(T, "0", {})
    BY <2>5, <2>6 DEF Effect
  <2> QED BY <2>1, <2>2, <2>4, <2>7 DEF Starts
<1> QED BY <1>2, <1>3, <1>4 DEF BeginCreate

\* rmdir and unlink of an entry that may go.
LEMMA RemoveFacts ==
  ASSUME Ready, NEW p \in Directories, NEW n \in Names, NEW k, NEW t \in Inodes,
         EntryIs(p, n, k, t)
  PROVE  /\ t \in Reachable /\ {t} \in SUBSET Reachable
         /\ DentryAt(img, p, k).word = t /\ k \in 0 .. Count(img, p) - 1
         /\ TakenOut(img, p, k, t) = Remove(img, p, k)
         /\ Shrunk(img, Remove(img, p, k), p, k)
         /\ Bounded(Remove(img, p, k))
<1>1. k \in Listing(img, p) /\ t \in Reachable
  BY EntryEdge DEF Ready
<1>2. DentryAt(img, p, k).word = t /\ k \in 0 .. Count(img, p) - 1
  BY DEF EntryIs, IsAt, Count
<1>3. p \in Inodes /\ LaidOut(img, p) /\ img \in ImageType
  BY SoundDirectory, SoundImage DEF Ready
<1>4. TakenOut(img, p, k, t) = Remove(img, p, k)
  BY <1>2, <1>3, TakenOutIs
<1>5. Shrunk(img, Remove(img, p, k), p, k)
  BY <1>1, <1>3, RemoveIsShrunk
<1> DEFINE T == Remove(img, p, k)
<1> HIDE DEF T
<1>6. Bounded(T)
  <2>1. Shrunk(img, T, p, k)
    BY <1>5 DEF T
  <2>2. /\ T.free_inode_count \in Int /\ T.free_inode_count >= -CounterSlack
        /\ T.free_inode_count <= InodeCount
        /\ T.free_dblock_count \in 0 .. DBlockCount
        /\ \A x \in Inodes : T.inode[x].dentry_count < 2 * DentriesPerBlock
    BY <1>3, <2>1, ShrunkRoom DEF Ready
  <2> QED BY <2>2, BoundedBy DEF Ready
<1> QED BY <1>1, <1>2, <1>4, <1>5, <1>6 DEF T

\* So does rmdir.
LEMMA RmdirStarts ==
  ASSUME Ready, NEW p \in Directories, NEW n \in Names, BeginRmdir(p, n)
  PROVE  Starts(call', todo')
<1>1. PICK k \in 0 .. img.inode[p].dentry_count - 1, t \in Inodes :
        /\ EntryIs(p, n, k, t) /\ IsDir(img, t)
        /\ \/ /\ img.inode[t].dentry_count > 2
              /\ Begin(<<>>, Call({<<p, n>>}, {}, "-ENOTEMPTY", {}))
           \/ /\ img.inode[t].dentry_count <= 2
              /\ Begin(RmdirStores(p, k, t), Call({<<p, n>>}, {t}, "0", {}))
  BY DEF BeginRmdir
<1>2. CASE /\ img.inode[t].dentry_count > 2
           /\ Begin(<<>>, Call({<<p, n>>}, {}, "-ENOTEMPTY", {}))
  <2> DEFINE c == OneCall(p, n, {}, "-ENOTEMPTY", {})
  <2>1. Before(img, Reachable, c) /\ c.ret = "-ENOTEMPTY" /\ c.branches = {}
    <3>1. {} \in SUBSET Reachable
      OBVIOUS
    <3> QED BY <3>1, OneName
  <2>2. call' = c /\ todo' = <<>>
    BY <1>2 DEF Begin, OneCall
  <2> HIDE DEF c
  <2>3. Leads(img, Reachable, c, img, <<>>, img)
    BY <2>1, OkStart, LeadsNowhere
  <2>4. RemoveEffect(p, n, img, "-ENOTEMPTY", {})
    BY <1>1, <1>2 DEF RemoveEffect, BeginRmdir
  <2>5. Effect(img, "-ENOTEMPTY", {})
    BY <2>4 DEF Effect, Ready
  <2> QED BY <2>1, <2>2, <2>3, <2>5 DEF Starts
<1>3. CASE /\ img.inode[t].dentry_count <= 2
           /\ Begin(RmdirStores(p, k, t), Call({<<p, n>>}, {t}, "0", {}))
  <2> DEFINE c == OneCall(p, n, {t}, "0", {})
             T == Remove(img, p, k)
  <2>1. /\ t \in Reachable /\ {t} \in SUBSET Reachable
        /\ DentryAt(img, p, k).word = t /\ k \in 0 .. Count(img, p) - 1
        /\ TakenOut(img, p, k, t) = T /\ Bounded(T)
    BY <1>1, RemoveFacts
  <2>2. /\ Before(img, Reachable, c) /\ p \in Worked(c)
        /\ c.gone = {t} /\ c.ret = "0" /\ c.branches = {}
        /\ Given(img, c, p, k)
    <3>1. IsAt(img, p, n, k)
      BY <1>1 DEF EntryIs
    <3> HIDE DEF T
    <3>2. {t} \in SUBSET Reachable
      BY <2>1
    <3> QED BY <3>1, <3>2, OneName
  <2>3. call' = c /\ todo' = RmdirStores(p, k, t)
    BY <1>3 DEF Begin, OneCall
  <2> HIDE DEF c, T
  <2>4. Leads(img, Reachable, c, img, todo', T)
    BY <2>1, <2>2, <2>3, RmdirLeads
  <2>5. RemoveEffect(p, n, T, "0", {})
    BY <1>1, <1>3 DEF RemoveEffect, BeginRmdir, T
  <2>6. Effect(T, "0", {})
    BY <2>1, <2>5 DEF Effect
  <2> QED BY <2>2, <2>3, <2>4, <2>6 DEF Starts
<1> QED BY <1>1, <1>2, <1>3

\* So does unlink.
LEMMA UnlinkStarts ==
  ASSUME Ready, NEW p \in Directories, NEW n \in Names, BeginUnlink(p, n)
  PROVE  Starts(call', todo')
<1>1. PICK k \in 0 .. img.inode[p].dentry_count - 1, t \in Inodes :
        /\ EntryIs(p, n, k, t) /\ ~ IsDir(img, t)
        /\ Begin(UnlinkStores(p, k, t), Call({<<p, n>>}, {t}, "0", {}))
  BY DEF BeginUnlink
<1> DEFINE c == OneCall(p, n, {t}, "0", {})
           T == Remove(img, p, k)
<1>2. /\ t \in Reachable /\ {t} \in SUBSET Reachable
      /\ DentryAt(img, p, k).word = t /\ k \in 0 .. Count(img, p) - 1
      /\ TakenOut(img, p, k, t) = T /\ Bounded(T)
  BY <1>1, RemoveFacts
<1>3. /\ Before(img, Reachable, c) /\ p \in Worked(c)
      /\ c.gone = {t} /\ c.ret = "0" /\ c.branches = {}
      /\ Given(img, c, p, k)
  <2>1. IsAt(img, p, n, k)
    BY <1>1 DEF EntryIs
  <2> HIDE DEF T
  <2>2. {t} \in SUBSET Reachable
    BY <1>2
  <2> QED BY <2>1, <2>2, OneName
<1>4. call' = c /\ todo' = UnlinkStores(p, k, t)
  BY <1>1 DEF Begin, OneCall
<1> HIDE DEF c, T
<1>5. Leads(img, Reachable, c, img, todo', T)
  BY <1>2, <1>3, <1>4, UnlinkLeads
<1>6. RemoveEffect(p, n, T, "0", {})
  BY <1>1 DEF RemoveEffect, BeginUnlink, T
<1>7. Effect(T, "0", {})
  BY <1>2, <1>6 DEF Effect
<1> QED BY <1>3, <1>4, <1>5, <1>7 DEF Starts

\* rename, in two directories.
TwoCall(p, n, q, m, gone) == Call({<<p, n>>, <<q, m>>}, gone, "0", {})

\* Such a call starts from a good image, and both names are what it is about.
LEMMA TwoNames ==
  ASSUME Ready, NEW p \in Directories, NEW n \in Names, NEW q \in Directories, NEW m \in Names,
         NEW gone \in SUBSET Reachable
  PROVE  LET c == TwoCall(p, n, q, m, gone)
         IN  /\ Before(img, Reachable, c) /\ p \in Worked(c) /\ q \in Worked(c)
             /\ c.gone = gone /\ c.ret = "0" /\ c.branches = {}
             /\ \A k : IsAt(img, p, n, k) => Given(img, c, p, k) /\ k \in 0 .. Count(img, p) - 1
             /\ \A k : IsAt(img, q, m, k) => Given(img, c, q, k) /\ k \in 0 .. Count(img, q) - 1
<1> DEFINE c == TwoCall(p, n, q, m, gone)
<1>1. img \in ImageType /\ Reachable \in SUBSET Inodes /\ Sound(img, Reachable)
  BY SoundImage DEF Ready
<1>2. /\ p \in Inodes /\ p \in Reachable /\ LaidOut(img, p)
      /\ q \in Inodes /\ q \in Reachable /\ LaidOut(img, q)
  BY SoundDirectory DEF Ready
<1>3. c.names = {<<p, n>>, <<q, m>>} /\ c.gone = gone /\ c.ret = "0" /\ c.branches = {}
  BY DEF TwoCall, Call
<1> HIDE DEF c
<1>4. p \in Worked(c) /\ q \in Worked(c) /\ \A x \in Worked(c) : x = p \/ x = q
  <2>1. <<p, n>>[1] = p /\ <<q, m>>[1] = q
    OBVIOUS
  <2>2. \A x : x \in Worked(c) <=> \E y \in c.names : x = y[1]
    BY DEF Worked
  <2> QED BY <1>3, <2>1, <2>2
<1>5. ASSUME NEW d \in {p, q}, NEW w, <<d, w>> \in c.names, NEW k, IsAt(img, d, w, k)
      PROVE  Given(img, c, d, k) /\ k \in 0 .. Count(img, d) - 1
  <2>1. k \in 0 .. Count(img, d) - 1 /\ DentryAt(img, d, k).tail = w
    BY <1>5 DEF IsAt, Count
  <2>2. DentryAt(img, d, k) = Slot(img, d, k)
    BY <1>2, <2>1, LaidOutFacts DEF Count
  <2> QED BY <1>5, <2>1, <2>2 DEF Given
<1>6. Before(img, Reachable, c)
  BY <1>1, <1>2, <1>3, <1>4 DEF Before
<1>7. \A k : IsAt(img, p, n, k) => Given(img, c, p, k) /\ k \in 0 .. Count(img, p) - 1
  BY <1>3, <1>5
<1>8. \A k : IsAt(img, q, m, k) => Given(img, c, q, k) /\ k \in 0 .. Count(img, q) - 1
  BY <1>3, <1>5
<1> QED BY <1>3, <1>4, <1>6, <1>7, <1>8 DEF c

\* ... to a name that does not exist...
LEMMA RenameNewStarts ==
  ASSUME Ready, NEW p \in Directories, NEW n \in Names, NEW q \in Directories, NEW m \in Names,
         p # q, MayRename(p, n, q, m),
         NEW k \in 0 .. img.inode[p].dentry_count - 1, IsAt(img, p, n, k),
         DentryAt(img, p, k).word \in Int,
         ~ Holds(img, q, m), img.inode[q].dentry_count < DentriesPerBlock,
         Begin(MoveStores(p, k, q, img.inode[q].dentry_count, m), TwoCall(p, n, q, m, {}))
  PROVE  Starts(call', todo')
<1> DEFINE c == TwoCall(p, n, q, m, {})
           T == Move(img, p, k, q, m)
<1>1. /\ Before(img, Reachable, c) /\ p \in Worked(c) /\ q \in Worked(c)
      /\ c.ret = "0" /\ c.branches = {}
      /\ Given(img, c, p, k) /\ k \in 0 .. Count(img, p) - 1
  <2>1. {} \in SUBSET Reachable
    OBVIOUS
  <2> HIDE DEF T
  <2> QED BY <2>1, TwoNames
<1>2. call' = c /\ todo' = MoveStores(p, k, q, img.inode[q].dentry_count, m)
  BY DEF Begin
<1> HIDE DEF c, T
<1>3. Leads(img, Reachable, c, img, todo', T)
  BY <1>1, <1>2, RenameLeads DEF Count, T
<1>4. RenameEffect(p, n, q, m, T, "0", {})
  BY DEF RenameEffect, T
<1>5. Bounded(T)
  <2>1. p \in Inodes /\ q \in Inodes /\ img \in ImageType
    BY SoundDirectory, SoundImage DEF Ready
  <2>2. /\ img.free_inode_count \in Int /\ img.free_inode_count <= InodeCount
        /\ img.free_inode_count >= -CounterSlack
        /\ img.free_dblock_count \in 0 .. DBlockCount
        /\ \A x \in Inodes : /\ img.inode[x].dentry_count \in Int
                             /\ img.inode[x].dentry_count < 2 * DentriesPerBlock
    <3>1. img.free_inode_count >= -CounterSlack
      BY BoundAssumption, Sizes DEF Ready, Bounded
    <3> QED BY <3>1, CountersRoom, Sizes DEF Ready
  <2> QED BY <2>1, <2>2, MoveBounded DEF T, Ready
<1>6. Effect(T, "0", {})
  BY <1>4, <1>5 DEF Effect
<1> QED BY <1>1, <1>2, <1>3, <1>6 DEF Starts

\* ... or to one that does.
LEMMA RenameOverStarts ==
  ASSUME Ready, NEW p \in Directories, NEW n \in Names, NEW q \in Directories, NEW m \in Names,
         p # q, MayRename(p, n, q, m),
         NEW k \in 0 .. img.inode[p].dentry_count - 1, IsAt(img, p, n, k),
         DentryAt(img, p, k).word \in Int,
         NEW l \in 1 .. img.inode[q].dentry_count - 1, NEW t \in Inodes, EntryIs(q, m, l, t),
         IsDir(img, t) => img.inode[t].dentry_count <= 2,
         \/ Begin(RmdirStores(q, l, t) \o MoveStores(p, k, q, img.inode[q].dentry_count - 1, m),
                  TwoCall(p, n, q, m, {t}))
         \/ Begin(UnlinkStores(q, l, t) \o MoveStores(p, k, q, img.inode[q].dentry_count - 1, m),
                  TwoCall(p, n, q, m, {t}))
  PROVE  Starts(call', todo')
<1> DEFINE c == TwoCall(p, n, q, m, {t})
           s == Remove(img, q, l)
           T == Move(s, p, k, q, m)
           M == MoveStores(p, k, q, img.inode[q].dentry_count - 1, m)
<1>1. /\ t \in Reachable /\ {t} \in SUBSET Reachable
      /\ DentryAt(img, q, l).word = t /\ l \in 0 .. Count(img, q) - 1
      /\ TakenOut(img, q, l, t) = s /\ Shrunk(img, s, q, l)
  BY RemoveFacts
<1>2. IsAt(img, q, m, l)
  BY DEF EntryIs
<1>3. call' = c /\ (todo' = RmdirStores(q, l, t) \o M \/ todo' = UnlinkStores(q, l, t) \o M)
  BY DEF Begin
<1>4. /\ Before(img, Reachable, c) /\ p \in Worked(c) /\ q \in Worked(c)
      /\ c.gone = {t} /\ c.ret = "0" /\ c.branches = {}
      /\ Given(img, c, p, k) /\ k \in 0 .. Count(img, p) - 1
      /\ Given(img, c, q, l)
  <2>1. {t} \in SUBSET Reachable
    BY <1>1
  <2> HIDE DEF T, s, M
  <2> QED BY <1>2, <2>1, TwoNames
<1> HIDE DEF c, s, T, M
<1>5. /\ Leads(img, Reachable, c, img, RmdirStores(q, l, t), s)
      /\ Leads(img, Reachable, c, img, UnlinkStores(q, l, t), s)
  BY <1>1, <1>4, RmdirLeads, UnlinkLeads
<1>6. Leads(img, Reachable, c, s, M, T)
  <2>1. Leads(img, Reachable, c, TakenOut(img, q, l, t),
              MoveStores(p, k, q, img.inode[q].dentry_count - 1, m),
              Move(Remove(img, q, l), p, k, q, m))
    BY <1>1, <1>4, ReplaceLeads
  <2> QED BY <1>1, <2>1 DEF M, T, s
<1>7. Leads(img, Reachable, c, img, todo', T)
  BY <1>3, <1>5, <1>6, LeadsOn
<1>8. RenameEffect(p, n, q, m, T, "0", {})
  BY DEF RenameEffect, T, s
<1>9. Bounded(T)
  <2>1. p \in Inodes /\ q \in Inodes /\ img \in ImageType /\ LaidOut(img, q)
    BY SoundDirectory, SoundImage DEF Ready
  <2>2. s \in ImageType
    <3>1. Removed(Remove(img, q, l), q, m, t)
      BY RemoveSound DEF Ready
    <3> QED BY <3>1 DEF Removed, s
  <2>3. /\ s.free_inode_count \in Int /\ s.free_inode_count >= -CounterSlack
        /\ s.free_inode_count <= InodeCount
        /\ s.free_dblock_count \in 0 .. DBlockCount
        /\ \A x \in Inodes : /\ s.inode[x].dentry_count \in Int
                             /\ s.inode[x].dentry_count < 2 * DentriesPerBlock
    BY <1>1, <2>1, ShrunkRoom DEF Ready
  <2>4. s.inode[q].dentry_count < DentriesPerBlock
    <3>1. s.inode[q].dentry_count = img.inode[q].dentry_count - 1
      BY <1>1 DEF Shrunk
    <3> QED BY <2>1, <3>1, LaidOutFacts, Sizes
  <2> QED BY <2>1, <2>2, <2>3, <2>4, MoveBounded DEF T, Ready
<1>10. Effect(T, "0", {})
  BY <1>8, <1>9 DEF Effect
<1> QED BY <1>3, <1>4, <1>7, <1>10 DEF Starts

\* rename begins a call whose stores keep the others and end in its effect.
LEMMA RenameStarts ==
  ASSUME Ready, NEW p \in Directories, NEW n \in Names, NEW q \in Directories, NEW m \in Names,
         BeginRename(p, n, q, m)
  PROVE  Starts(call', todo')
<1>1. p # q /\ MayRename(p, n, q, m)
  BY DEF BeginRename
<1>2. PICK k \in 0 .. img.inode[p].dentry_count - 1 :
        /\ IsAt(img, p, n, k)
        /\ \/ /\ ~ Holds(img, q, m)
              /\ img.inode[q].dentry_count < DentriesPerBlock
              /\ Begin(MoveStores(p, k, q, img.inode[q].dentry_count, m), TwoCall(p, n, q, m, {}))
           \/ \E l \in 1 .. img.inode[q].dentry_count - 1, t \in Inodes :
                /\ EntryIs(q, m, l, t)
                /\ \/ /\ img.inode[t].dentry_count <= 2
                      /\ Begin(RmdirStores(q, l, t)
                               \o MoveStores(p, k, q, img.inode[q].dentry_count - 1, m),
                               TwoCall(p, n, q, m, {t}))
                   \/ /\ ~ IsDir(img, t)
                      /\ Begin(UnlinkStores(q, l, t)
                               \o MoveStores(p, k, q, img.inode[q].dentry_count - 1, m),
                               TwoCall(p, n, q, m, {t}))
  BY DEF BeginRename, TwoCall
<1>3. DentryAt(img, p, k).word \in Int
  <2>1. p \in Inodes /\ LaidOut(img, p) /\ img \in ImageType
    BY SoundDirectory, SoundImage DEF Ready
  <2>2. DentryAt(img, p, k) = Slot(img, p, k) /\ k \in Slots /\ DataBlock(img, p) \in Blocks
    BY <2>1, LaidOutFacts DEF LaidOut
  <2>3. img.mem \in LooseMem
    BY <2>1, ImageFields
  <2> QED BY <2>2, <2>3 DEF Slot, LooseMem, LooseCell
<1>4. CASE /\ ~ Holds(img, q, m)
           /\ img.inode[q].dentry_count < DentriesPerBlock
           /\ Begin(MoveStores(p, k, q, img.inode[q].dentry_count, m), TwoCall(p, n, q, m, {}))
  BY <1>1, <1>2, <1>3, <1>4, RenameNewStarts
<1>5. ASSUME NEW l \in 1 .. img.inode[q].dentry_count - 1, NEW t \in Inodes,
             EntryIs(q, m, l, t),
             \/ /\ img.inode[t].dentry_count <= 2
                /\ Begin(RmdirStores(q, l, t)
                         \o MoveStores(p, k, q, img.inode[q].dentry_count - 1, m),
                         TwoCall(p, n, q, m, {t}))
             \/ /\ ~ IsDir(img, t)
                /\ Begin(UnlinkStores(q, l, t)
                         \o MoveStores(p, k, q, img.inode[q].dentry_count - 1, m),
                         TwoCall(p, n, q, m, {t}))
      PROVE  Starts(call', todo')
  BY <1>1, <1>2, <1>3, <1>5, RenameOverStarts
<1> QED BY <1>2, <1>4, <1>5

-----------------------------------------------------------------------------
(* The invariant: between calls the mapping is the image, and a call's      *)
(* stores lead, through images where all is well, to its effect.            *)

Resting == call = Idle /\ now = img /\ todo = <<>>

Running ==
  /\ Before(img, Reachable, call)
  /\ \E T, r, g : /\ r = call.ret /\ g = call.branches
                  /\ Leads(img, Reachable, call, now, todo, T)
                  /\ Effect(T, r, g)

CrashInv == Ready /\ (Resting \/ Running)

\* A call that runs has stores to make or an answer to give.
LEMMA RunningIsNotIdle ==
  ASSUME Running
  PROVE  call # Idle
BY EffectMarks DEF Running, Idle, Call

\* The image that mkfs makes is good, and no call runs.
LEMMA CrashInitReady ==
  ASSUME CrashInit
  PROVE  CrashInv
<1>1. Init /\ IInv /\ SoundInv /\ Intact
  BY InitGood, InitSound DEF CrashInit, Init, Intact
<1>2. Bounded(img)
  <2>1. /\ img.free_inode_count = InodeCount - 1
        /\ img.free_dblock_count = DBlockCount - 2
    BY <1>1 DEF Init, Formatted
  <2>2. \A x \in Inodes : img.inode[x].dentry_count < 2 * DentriesPerBlock
    BY <1>1, CountersRoom
  <2> QED BY <1>1, <2>1, <2>2, Sizes, BoundAssumption, BoundedBy
<1>3. Resting
  BY DEF CrashInit, Resting
<1> QED BY <1>1, <1>2, <1>3 DEF CrashInv, Ready

\* Steps of A1fs, and those that are none of its, from where calls start.
LEMMA ReadyNext ==
  ASSUME Ready, [Next]_vars, Intact', Bounded(img)'
  PROVE  Ready'
BY NextKeeps, NextSound DEF Ready

\* What A1fs knows stays true while a call makes its stores.
LEMMA ReadySame ==
  ASSUME Ready, UNCHANGED <<img, ret, hit>>
  PROVE  Ready' /\ Reachable' = Reachable
<1>1. Intact' /\ Bounded(img)'
  BY DEF Ready, Intact, Bounded
<1>2. [Next]_vars
  BY DEF vars
<1> QED BY <1>1, <1>2, ReadyNext DEF Reachable

\* A call that begins has stored nothing.
LEMMA BeginStores ==
  ASSUME BeginCall
  PROVE  UNCHANGED <<img, ret, hit, now>>
<1> DEFINE Same == UNCHANGED <<img, ret, hit, now>>
<1>1. \A S, c : Begin(S, c) => Same
  BY DEF Begin
<1> HIDE DEF Same
<1>2. ASSUME NEW p, NEW n, NEW i, BeginNoBlocks(p, n, i)
      PROVE  Same
  BY <1>1, <1>2 DEF BeginNoBlocks
<1>3. ASSUME NEW p, NEW n, BeginMkdir(p, n)
      PROVE  Same
  BY <1>1, <1>2, <1>3 DEF BeginMkdir
<1>4. ASSUME NEW p, NEW n, BeginCreate(p, n)
      PROVE  Same
  BY <1>1, <1>2, <1>4 DEF BeginCreate
<1>5. ASSUME NEW p, NEW n, BeginRmdir(p, n)
      PROVE  Same
  BY <1>1, <1>5 DEF BeginRmdir
<1>6. ASSUME NEW p, NEW n, BeginUnlink(p, n)
      PROVE  Same
  BY <1>1, <1>6 DEF BeginUnlink
<1>7. ASSUME NEW p, NEW n, NEW q, NEW m, BeginRename(p, n, q, m)
      PROVE  Same
  BY <1>1, <1>7 DEF BeginRename
<1>8. Same
  BY <1>3, <1>4, <1>5, <1>6, <1>7 DEF BeginCall
<1> QED BY <1>8 DEF Same

\* The invariant when a call begins...
LEMMA BeginCallKeeps ==
  ASSUME CrashInv, BeginCall
  PROVE  CrashInv'
<1>1. call = Idle /\ Ready /\ now = img
  BY RunningIsNotIdle DEF BeginCall, CrashInv, Resting
<1>2. Starts(call', todo')
  <2>1. CASE \E p \in Directories, n \in Names : BeginMkdir(p, n)
    BY <1>1, <2>1, MkdirStarts
  <2>2. CASE \E p \in Directories, n \in Names : BeginCreate(p, n)
    BY <1>1, <2>2, CreateStarts
  <2>3. CASE \E p \in Directories, n \in Names : BeginRmdir(p, n)
    BY <1>1, <2>3, RmdirStarts
  <2>4. CASE \E p \in Directories, n \in Names : BeginUnlink(p, n)
    BY <1>1, <2>4, UnlinkStarts
  <2>5. CASE \E p, q \in Directories, n, m \in Names : BeginRename(p, n, q, m)
    BY <1>1, <2>5, RenameStarts
  <2> QED BY <2>1, <2>2, <2>3, <2>4, <2>5 DEF BeginCall
<1>3. UNCHANGED <<img, ret, hit, now>>
  BY BeginStores
<1>4. Ready' /\ Reachable' = Reachable
  BY <1>1, <1>3, ReadySame
<1>5. PICK T, r, g : /\ r = call'.ret /\ g = call'.branches
                     /\ Leads(img, Reachable, call', img, todo', T)
                     /\ Effect(T, r, g)
  BY <1>2 DEF Starts
<1>6. Effect(T, r, g)'
  BY <1>3, <1>5, EffectSame
<1>7. Leads(img, Reachable, call, now, todo, T)'
  BY <1>1, <1>3, <1>4, <1>5
<1>8. Before(img, Reachable, call)'
  BY <1>2, <1>3, <1>4 DEF Starts
<1>9. Running'
  BY <1>5, <1>6, <1>7, <1>8 DEF Running
<1> QED BY <1>4, <1>9 DEF CrashInv

\* ... when it makes a store...
LEMMA MakeStoreKeeps ==
  ASSUME CrashInv, MakeStore
  PROVE  CrashInv'
<1>1. /\ Ready /\ Running /\ todo # <<>>
      /\ now' = Apply(now, Head(todo)) /\ todo' = Tail(todo)
      /\ UNCHANGED <<img, ret, hit, call>>
  BY DEF CrashInv, Resting, MakeStore
<1>2. Ready' /\ Reachable' = Reachable
  BY <1>1, ReadySame
<1>3. PICK T, r, g : /\ r = call.ret /\ g = call.branches
                     /\ Leads(img, Reachable, call, now, todo, T)
                     /\ Effect(T, r, g)
  BY <1>1 DEF Running
<1>4. Effect(T, r, g)'
  BY <1>1, <1>3, EffectSame
<1>5. Leads(img, Reachable, call, now, todo, T)'
  BY <1>1, <1>2, <1>3, LeadsFrom
<1>6. Before(img, Reachable, call)'
  BY <1>1, <1>2 DEF Running
<1>7. Running'
  BY <1>1, <1>3, <1>4, <1>5, <1>6 DEF Running
<1> QED BY <1>2, <1>7 DEF CrashInv

\* The answer: the call's action in A1fs.
LEMMA AnswerActs ==
  ASSUME CrashInv, Answer
  PROVE  Next /\ CrashInv'
<1>1. Ready /\ Running /\ todo = <<>>
  BY DEF CrashInv, Resting, Answer
<1>2. PICK T, r, g : /\ r = call.ret /\ g = call.branches
                     /\ Leads(img, Reachable, call, now, todo, T)
                     /\ Effect(T, r, g)
  BY <1>1 DEF Running
<1>3. now = T
  BY <1>1, <1>2, LeadsEnds
<1>4. img' = T /\ ret' = r /\ hit' = hit \cup g
  BY <1>2, <1>3 DEF Answer
<1>5. Next
  BY <1>1, <1>2, <1>4, EffectActs DEF Ready
<1>6. Bounded(T) /\ g \cap Damage = {}
  BY <1>2, EffectMarks
<1>7. Intact' /\ Bounded(img)'
  <2>1. Intact'
    BY <1>1, <1>4, <1>6 DEF Ready, Intact
  <2>2. "astray" \notin hit'
    BY <2>1 DEF Intact, Damage
  <2> QED BY <1>4, <1>6, <2>1, <2>2 DEF Bounded
<1>8. Ready'
  BY <1>1, <1>5, <1>7, ReadyNext
<1>9. Resting'
  BY <1>1 DEF Answer, Resting, Idle, Call
<1> QED BY <1>5, <1>8, <1>9 DEF CrashInv

\* ... when the image is mounted again...
LEMMA MountAgainKeeps ==
  ASSUME CrashInv, MountAgain
  PROVE  Next /\ CrashInv'
<1>1. Ready /\ Resting
  BY RunningIsNotIdle DEF CrashInv, MountAgain
<1>2. Next
  BY DEF MountAgain, Next
<1>3. Intact' /\ Bounded(img)'
  BY <1>1 DEF MountAgain, Remount, Ready, Intact, Bounded
<1>4. Resting'
  BY <1>1 DEF MountAgain, Remount, Resting, Idle, Call
<1> QED BY <1>1, <1>2, <1>3, <1>4, ReadyNext DEF CrashInv

\* ... and so in every step.
LEMMA CrashNextKeeps ==
  ASSUME CrashInv, [CrashNext]_crashVars
  PROVE  CrashInv'
<1>1. CASE UNCHANGED crashVars
  <2>1. UNCHANGED <<img, ret, hit>> /\ UNCHANGED <<now, todo, call>>
    BY <1>1 DEF crashVars, vars
  <2>2. Ready' /\ Reachable' = Reachable
    BY <2>1, ReadySame DEF CrashInv
  <2>3. CASE Resting
    BY <2>1, <2>2, <2>3 DEF CrashInv, Resting, Idle, Call
  <2>4. CASE Running
    <3>1. PICK T, r, g : /\ r = call.ret /\ g = call.branches
                         /\ Leads(img, Reachable, call, now, todo, T)
                         /\ Effect(T, r, g)
      BY <2>4 DEF Running
    <3>2. Effect(T, r, g)'
      BY <2>1, <3>1, EffectSame
    <3>3. Leads(img, Reachable, call, now, todo, T)' /\ Before(img, Reachable, call)'
      BY <2>1, <2>2, <2>4, <3>1 DEF Running
    <3>4. Running'
      BY <2>1, <3>1, <3>2, <3>3 DEF Running
    <3> QED BY <2>2, <3>4 DEF CrashInv
  <2> QED BY <2>3, <2>4 DEF CrashInv
<1> QED BY <1>1, BeginCallKeeps, MakeStoreKeeps, AnswerActs, MountAgainKeeps DEF CrashNext

\* The invariant of every run of the handlers' stores.
THEOREM CrashInvariant == CrashSpec => []CrashInv
BY CrashInitReady, CrashNextKeeps, PTL DEF CrashSpec

\* What the mapping is at a store of a call, or between calls.
LEMMA MappingOk ==
  ASSUME CrashInv
  PROVE  Before(img, Reachable, call) /\ Ok(img, Reachable, call, now)
<1>1. CASE Resting
  <2>1. img \in ImageType /\ Reachable \in SUBSET Inodes /\ Sound(img, Reachable)
    BY SoundImage DEF CrashInv, Ready
  <2>2. call.names = {} /\ call.gone = {}
    BY <1>1 DEF Resting, Idle, Call
  <2>3. Before(img, Reachable, call)
    BY <2>1, <2>2 DEF Before, Worked
  <2> QED BY <1>1, <2>3, OkStart DEF Resting
<1>2. CASE Running
  BY <1>2, LeadsEnds DEF Running
<1> QED BY <1>1, <1>2 DEF CrashInv

\* A process that dies at any store of mkdir, create, rmdir, unlink or rename, or
\* half way through copying a name, leaves every name the call was not given its
\* entry, and nothing before it where a scan for that name stops but a half name
\* with the inode number of the entry after it.
THEOREM DeathKeepsOthers == CrashSpec => []OthersKept
<1>1. ASSUME CrashInv
      PROVE  OthersKept
  <2>1. OthersKeptIn(img, Reachable, call, now)
    BY <1>1, MappingOk, OkKept
  <2> QED BY <2>1 DEF OthersKeptIn, OthersKept
<1> QED BY <1>1, CrashInvariant, PTL

\* ... and what a path led to, and the call was not to remove, allocated, with
\* its kind and its blocks and, outside the call's directories, its entries.
THEOREM DeathTouchesNoOthers == CrashSpec => []OthersUntouched
<1>1. ASSUME CrashInv
      PROVE  OthersUntouched
  <2>1. OthersUntouchedIn(img, Reachable, call, now)
    BY <1>1, MappingOk, OkUntouched
  <2> QED BY <2>1 DEF OthersUntouchedIn, OthersUntouched, BlocksOf, Occupied
<1> QED BY <1>1, CrashInvariant, PTL

\* The stores of a call that nobody interrupts add up to the handler's action in
\* A1fs, answer included.
THEOREM StoresImplementA1fs == CrashSpec => ImplementsA1fs
<1>1. CrashInit => Init
  BY DEF CrashInit
<1>2. ASSUME CrashInv, [CrashNext]_crashVars
      PROVE  [vars' = vars \/ Next]_vars
  <2>1. CASE BeginCall
    BY <2>1, BeginStores DEF vars
  <2>2. CASE MakeStore
    BY <2>2 DEF MakeStore, vars
  <2>3. CASE Answer
    BY <1>2, <2>3, AnswerActs
  <2>4. CASE MountAgain
    BY <1>2, <2>4, MountAgainKeeps
  <2>5. CASE UNCHANGED crashVars
    BY <2>5 DEF crashVars, vars
  <2> QED BY <1>2, <2>1, <2>2, <2>3, <2>4, <2>5 DEF CrashNext
<1> QED BY <1>1, <1>2, CrashInvariant, PTL DEF CrashSpec, ImplementsA1fs

=============================================================================

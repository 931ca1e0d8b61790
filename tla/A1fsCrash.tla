----------------------------- MODULE A1fsCrash -----------------------------
(***************************************************************************)
(* The handlers of A1fs store by store.  The image is a shared mapping, so *)
(* a process that is killed leaves every store it has made in the file,    *)
(* and the next mount takes the image as it is: there is no journal and no *)
(* check.  So every value of the mapping is one a mount may begin with, and *)
(* what is said of it here is said of crashes.  The Makefile does not      *)
(* optimise: stores are made in the order of the source.                   *)
(*                                                                         *)
(* Calls are those that do not damage the image by themselves: the entry   *)
(* has room in its directory's block, rename is between two directories    *)
(* and removes what it replaces.                                           *)
(***************************************************************************)
EXTENDS A1fs, Sequences

\* The mark of a name that is half copied, which is not one of the names.
ASSUME TornAssumption == "torn" \notin Names

VARIABLES
  now,   \* the mapping
  todo,  \* the stores that the running call has still to make
  call   \* the running call

crashVars == <<vars, now, todo, call>>

(***************************************************************************)
(* What a call is for: the directories it works in, the names it was given,*)
(* the inodes it removes; and its answer.                                  *)
(***************************************************************************)
Call(names, gone, r, branches) ==
  [names |-> names, gone |-> gone, ret |-> r, branches |-> branches]

Idle == Call({}, {}, "none", {})

-----------------------------------------------------------------------------
(* One store each.  What a store reads, it reads when it is made.  A name  *)
(* is copied byte by byte, over other bytes: in between it is marked       *)
(* "torn", and may read as any name, another entry's too (when "ab" is     *)
(* copied over "b", as "a").                                               *)

InodeOn(i)      == [at |-> "inode on", inode |-> i]
InodeOff(p, k)  == [at |-> "inode off", inode |-> p, slot |-> k]
BlockOn(e)      == [at |-> "block on", bit |-> e]
BlockOff(e)     == [at |-> "block off", bit |-> e]
DataOff(t)      == [at |-> "data off", inode |-> t]
ExtentOff(t)    == [at |-> "extent off", inode |-> t]
FreeInodes(n)   == [at |-> "free_inode_count", by |-> n]
FreeBlocks(n)   == [at |-> "free_dblock_count", by |-> n]
EntryCount(p, n) == [at |-> "dentry_count", inode |-> p, by |-> n]
NewMode(i, m)   == [at |-> "new mode", inode |-> i, to |-> m]
NewCount(i)     == [at |-> "new count", inode |-> i]
NewExtents(i, b) == [at |-> "new ext_block", inode |-> i, to |-> b]
WordTo(b, k, w)   == [at |-> "word", block |-> b, slot |-> k, to |-> w]
TailTo(b, k, t)  == [at |-> "tail", block |-> b, slot |-> k, to |-> t]
CopyIno(p, k)   == [at |-> "copy ino", inode |-> p, slot |-> k]
TearName(p, k)  == [at |-> "tear name", inode |-> p, slot |-> k]
CopyName(p, k)  == [at |-> "copy name", inode |-> p, slot |-> k]

Apply(s, o) ==
  CASE o.at = "inode on"   -> [s EXCEPT !.inode_bitmap = @ \cup {o.inode}]
    [] o.at = "inode off"  -> [s EXCEPT !.inode_bitmap = @ \ {DentryAt(s, o.inode, o.slot).word}]
    [] o.at = "block on"   -> [s EXCEPT !.data_bitmap = @ \cup {o.bit}]
    [] o.at = "block off"  -> [s EXCEPT !.data_bitmap = @ \ {o.bit}]
    [] o.at = "data off"   -> [s EXCEPT !.data_bitmap = @ \ {Bit(DataBlock(s, o.inode))}]
    [] o.at = "extent off" -> [s EXCEPT !.data_bitmap = @ \ {Bit(s.inode[o.inode].ext_block)}]
    [] o.at = "free_inode_count"  -> [s EXCEPT !.free_inode_count = @ + o.by]
    [] o.at = "free_dblock_count" -> [s EXCEPT !.free_dblock_count = @ + o.by]
    [] o.at = "dentry_count"  -> WithEntries(s, o.inode, o.by)
    [] o.at = "new mode"      -> [s EXCEPT !.inode[o.inode].mode = o.to]
    [] o.at = "new count"     -> [s EXCEPT !.inode[o.inode].dentry_count = 2]
    [] o.at = "new ext_block" -> [s EXCEPT !.inode[o.inode].ext_block = o.to]
    [] o.at = "word" -> [s EXCEPT !.mem[o.block][o.slot].word = o.to]
    [] o.at = "tail" -> [s EXCEPT !.mem[o.block][o.slot].tail = o.to]
    [] o.at = "copy ino" ->
         [s EXCEPT !.mem[DataBlock(s, o.inode)][o.slot].word = DentryAt(s, o.inode, o.slot + 1).word]
    [] o.at = "tear name" ->
         [s EXCEPT !.mem[DataBlock(s, o.inode)][o.slot].tail = "torn"]
    [] o.at = "copy name" ->
         [s EXCEPT !.mem[DataBlock(s, o.inode)][o.slot].tail = DentryAt(s, o.inode, o.slot + 1).tail]

-----------------------------------------------------------------------------
(* The stores of each handler, in order, from the image img.               *)

\* An entry's inode number, then its name.
EntryStores(b, k, i, n) == <<WordTo(b, k, i), TailTo(b, k, "torn"), TailTo(b, k, n)>>

\* mkdir and create: bitmaps and counters, the parent's count, the new inode,
\* its entry, its extent.
NodeStores(p, n, mode, i, e, d) ==
  <<FreeInodes(-1), InodeOn(i), BlockOn(e), BlockOn(d), FreeBlocks(-2),
    EntryCount(p, 1), NewMode(i, mode), NewCount(i), NewExtents(i, Block(e))>>
  \o EntryStores(DataBlock(img, p), img.inode[p].dentry_count, i, n)
  \o <<WordTo(Block(e), 0, Block(d)), TailTo(Block(e), 0, "extent")>>

DotStores(d, self, parent) ==
  EntryStores(Block(d), 0, self, ".") \o EntryStores(Block(d), 1, parent, "..")

\* Mutant: the name is copied before the inode number.
ShiftNamesFirst(p, k) ==
  [x \in 1 .. 3 * (img.inode[p].dentry_count - 1 - k) |->
     LET j == k + ((x - 1) \div 3)
     IN  <<TearName(p, j), CopyName(p, j), CopyIno(p, j)>>[1 + ((x - 1) % 3)]]

\* The entries after index k of directory p each move down one.
ShiftStores(p, k) ==
  [x \in 1 .. 3 * (img.inode[p].dentry_count - 1 - k) |->
     LET j == k + ((x - 1) \div 3)
     IN  <<CopyIno(p, j), TearName(p, j), CopyName(p, j)>>[1 + ((x - 1) % 3)]]

RmdirStores(p, k, t) ==
  <<DataOff(t), ExtentOff(t), InodeOff(p, k)>>
  \o ShiftStores(p, k)
  \o <<EntryCount(p, -1), FreeInodes(1), FreeBlocks(2)>>

\* Mutants: the inode's bit is cleared, through its entry, when the entries
\* have moved; a block is not counted.
UnlinkShiftFirst(p, k, t) ==
  <<DataOff(t), FreeBlocks(1), ExtentOff(t)>>
  \o ShiftStores(p, k)
  \o <<InodeOff(p, k), FreeBlocks(1), EntryCount(p, -1), FreeInodes(1)>>

UnlinkOneBlock(p, k, t) ==
  <<DataOff(t), FreeBlocks(1), ExtentOff(t), InodeOff(p, k)>>
  \o ShiftStores(p, k)
  \o <<EntryCount(p, -1), FreeInodes(1)>>

UnlinkStores(p, k, t) ==
  <<DataOff(t), FreeBlocks(1), ExtentOff(t), InodeOff(p, k), FreeBlocks(1)>>
  \o ShiftStores(p, k)
  \o <<EntryCount(p, -1), FreeInodes(1)>>

\* rename, once what it replaces is removed: the new entry, at the index that
\* is q's count by then, the old one, and the counts.
MoveStores(p, k, q, c, m) ==
  EntryStores(DataBlock(img, q), c, DentryAt(img, p, k).word, m)
  \o ShiftStores(p, k)
  \o <<EntryCount(p, -1), EntryCount(q, 1)>>

-----------------------------------------------------------------------------
(* Calls begin, make their stores one by one, and answer.                  *)

Begin(stores, c) ==
  /\ todo' = stores
  /\ call' = c
  /\ UNCHANGED <<img, ret, hit, now>>

\* Bounds: calls are not followed in a directory without room, and the
\* counter that mkdir lowers in vain is followed CounterSlack below 0.
MayBegin(p) ==
  /\ img.inode[p].dentry_count < DentriesPerBlock
  /\ img.free_inode_count > -CounterSlack

BeginNoBlocks(p, n, i) ==
  /\ IsFirstFree(img.inode_bitmap, InodeCount, i)
  /\ \/ /\ NoneFree(img.data_bitmap, DBlockCount)
        /\ Begin(<<FreeInodes(-1), InodeOn(i)>>, Call({<<p, n>>}, {}, "1", {"inode_leak"}))
     \/ \E e \in DBits :
          /\ IsFirstFree(img.data_bitmap, DBlockCount, e)
          /\ NoneFree(img.data_bitmap \cup {e}, DBlockCount)
          /\ Begin(<<FreeInodes(-1), InodeOn(i), BlockOn(e), BlockOff(e)>>,
                   Call({<<p, n>>}, {}, "1", {"inode_leak"}))

BeginMkdir(p, n) ==
  /\ MayBegin(p) /\ MayAdd(p, n)
  /\ \/ /\ NoneFree(img.inode_bitmap, InodeCount)
        /\ Begin(<<FreeInodes(-1)>>, Call({<<p, n>>}, {}, "1", {"counter_drift"}))
     \/ \E i \in Inodes : BeginNoBlocks(p, n, i)
     \/ \E i \in Inodes, e, d \in DBits :
          /\ Found(i, e, d)
          /\ Begin(NodeStores(p, n, "dir", i, e, d) \o DotStores(d, i, DentryAt(img, p, 0).word),
                   Call({<<p, n>>}, {}, "0", {}))

BeginCreate(p, n) ==
  /\ MayBegin(p) /\ MayAdd(p, n)
  /\ \/ /\ NoneFree(img.inode_bitmap, InodeCount)
        /\ Begin(<<>>, Call({<<p, n>>}, {}, "1", {}))
     \/ \E i \in Inodes : BeginNoBlocks(p, n, i)
     \/ \E i \in Inodes, e, d \in DBits :
          /\ Found(i, e, d)
          /\ Begin(NodeStores(p, n, "file", i, e, d), Call({<<p, n>>}, {}, "0", {}))

BeginRmdir(p, n) ==
  /\ ret # "SIGSEGV"
  /\ \E k \in 0 .. img.inode[p].dentry_count - 1, t \in Inodes :
       /\ EntryIs(p, n, k, t)
       /\ IsDir(img, t)
       /\ \/ /\ img.inode[t].dentry_count > 2
             /\ Begin(<<>>, Call({<<p, n>>}, {}, "-ENOTEMPTY", {}))
          \/ /\ img.inode[t].dentry_count <= 2
             /\ Begin(RmdirStores(p, k, t), Call({<<p, n>>}, {t}, "0", {}))

BeginUnlink(p, n) ==
  /\ ret # "SIGSEGV"
  /\ \E k \in 0 .. img.inode[p].dentry_count - 1, t \in Inodes :
       /\ EntryIs(p, n, k, t)
       /\ ~ IsDir(img, t)
       /\ Begin(UnlinkStores(p, k, t), Call({<<p, n>>}, {t}, "0", {}))

\* What is replaced may be removed by either handler, as in A1fs; when it is,
\* q has room.
BeginRename(p, n, q, m) ==
  /\ p # q
  /\ MayRename(p, n, q, m)
  /\ \E k \in 0 .. img.inode[p].dentry_count - 1 :
       /\ IsAt(img, p, n, k)
       /\ \/ /\ ~ Holds(img, q, m)
             /\ img.inode[q].dentry_count < DentriesPerBlock
             /\ Begin(MoveStores(p, k, q, img.inode[q].dentry_count, m),
                      Call({<<p, n>>, <<q, m>>}, {}, "0", {}))
          \/ \E l \in 1 .. img.inode[q].dentry_count - 1, t \in Inodes :
               /\ EntryIs(q, m, l, t)
               /\ \/ /\ img.inode[t].dentry_count <= 2
                     /\ Begin(RmdirStores(q, l, t)
                              \o MoveStores(p, k, q, img.inode[q].dentry_count - 1, m),
                              Call({<<p, n>>, <<q, m>>}, {t}, "0", {}))
                  \/ /\ ~ IsDir(img, t)
                     /\ Begin(UnlinkStores(q, l, t)
                              \o MoveStores(p, k, q, img.inode[q].dentry_count - 1, m),
                              Call({<<p, n>>, <<q, m>>}, {t}, "0", {}))

MakeStore ==
  /\ todo # <<>>
  /\ now' = Apply(now, Head(todo))
  /\ todo' = Tail(todo)
  /\ UNCHANGED <<img, ret, hit, call>>

Answer ==
  /\ call # Idle /\ todo = <<>>
  /\ img' = now
  /\ ret' = call.ret
  /\ hit' = hit \cup call.branches
  /\ call' = Idle
  /\ UNCHANGED <<now, todo>>

MountAgain ==
  /\ call = Idle
  /\ Remount
  /\ UNCHANGED <<now, todo, call>>

CrashInit == Init /\ now = img /\ todo = <<>> /\ call = Idle

\* A call begins: the kernel makes one at a time.
BeginCall ==
  /\ call = Idle
  /\ \/ \E p \in Directories, n \in Names : BeginMkdir(p, n)
     \/ \E p \in Directories, n \in Names : BeginCreate(p, n)
     \/ \E p \in Directories, n \in Names : BeginRmdir(p, n)
     \/ \E p \in Directories, n \in Names : BeginUnlink(p, n)
     \/ \E p, q \in Directories, n, m \in Names : BeginRename(p, n, q, m)

CrashNext == BeginCall \/ MakeStore \/ Answer \/ MountAgain

CrashSpec == CrashInit /\ [][CrashNext]_crashVars

-----------------------------------------------------------------------------
(* Properties.  What a death leaves, and the next mount finds, is the value *)
(* of now when it comes; img is the image before the call.                 *)

\* Every name the running call was not given keeps its entry at every store,
\* also in the directory whose entries are being moved down, inode number and
\* name apart; and the scan for it stops nowhere before that entry, but maybe at
\* a name that is half copied, which then leads where the entry after it does:
\* never to what the call removes.
OthersKept ==
  \A d \in Reachable, n \in Names : \A k \in Slots :
    /\ IsDir(img, d) /\ <<d, n>> \notin call.names /\ IsAt(img, d, n, k)
    => \E j \in Slots :
         /\ j < now.inode[d].dentry_count
         /\ DentryAt(now, d, j) = DentryAt(img, d, k)
         /\ \A x \in 0 .. j - 1 :
              /\ DentryAt(now, d, x).tail # n
              /\ DentryAt(now, d, x).tail = "torn" =>
                   DentryAt(now, d, x).word = DentryAt(now, d, x + 1).word

\* What a path led to before the call, and the call does not remove, stays
\* allocated with its kind, its blocks and, but for the directories the call
\* works in, its entries: at no store is something in use free, or given to the
\* new inode.
OthersUntouched ==
  \A d \in Reachable \ call.gone :
    /\ d \in now.inode_bitmap
    /\ BlocksOf(d) \subseteq now.data_bitmap
    /\ now.inode[d].mode = img.inode[d].mode
    /\ now.inode[d].ext_block = img.inode[d].ext_block
    /\ DataBlock(now, d) = DataBlock(img, d)
    /\ (\A c \in call.names : c[1] # d) =>
         /\ now.inode[d] = img.inode[d]
         /\ \A k \in 0 .. img.inode[d].dentry_count - 1 :
              DentryAt(now, d, k) = DentryAt(img, d, k)

\* Store by store, a call that nobody interrupts has the effect and the answer
\* of the handler's action in A1fs.  (This is Spec; the stores, which change
\* none of its variables, are looked at first.)
ImplementsA1fs == Init /\ [][vars' = vars \/ Next]_vars

=============================================================================

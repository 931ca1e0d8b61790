# a1fs in TLA+

A verification project for **a1fs**, a FUSE file system of about 1800 lines of C
(`src/a1fs.c`) that keeps a whole file system in one memory-mapped image file,
and for the image that its formatter `src/mkfs.c` makes.

The code is a set of handlers that follow raw pointers through an untyped image.
What is hard to get right in it is not concurrency (the mount is
single-threaded, `src/options.c:94`) but what long sequences of calls do to the
image: handlers that fail half way, inodes and blocks that are freed and handed
out again with their old contents, directory entries shifted in place under
pointers computed before, and stores past the end of a directory's block.

## 1. The system: an inventory

| part | state | operations | source |
|---|---|---|---|
| image format | superblock with two free counters, two bitmaps, inode table, data region of extent blocks and entry blocks | – | `a1fs.h` |
| directory operations | the image, through `fs->image` | `a1fs_mkdir`, `a1fs_create`, `a1fs_rmdir`, `a1fs_unlink`, `a1fs_rename` and their helpers `find_free_from_bitmap`, `setBitOn/Off`, `forward_layback_extents`, `get_ext_index_from_inode` | `a1fs.c` |
| path helpers | none | `num_entry_name`, `get_parent_path`, `get_last_entry`, `find_inode_from_path`, and a copy of the walk in most handlers | `a1fs.c` |
| attributes | the image (only `mtime` is written) | `a1fs_getattr`, `a1fs_readdir`, `a1fs_statfs`, `a1fs_utimens` | `a1fs.c` |
| file contents | – | `a1fs_truncate`, `a1fs_read`, `a1fs_write`: stubs, `-ENOSYS` | `a1fs.c` |
| mount | `fs_ctx` (image pointer, size, options) | `a1fs_init`, `a1fs_destroy`, `map_file`, `fs_ctx_init` | `a1fs.c`, `map.c`, `fs_ctx.c` |
| formatter | the image | `mkfs`, `init_super`, `init_inode`, `init_root`, `parse_args`, `a1fs_is_present` | `mkfs.c` |
| options | `a1fs_opts` | `a1fs_opt_parse` | `options.c` |
| tools, tests | – | image dump; three programs with older copies of handlers | `readimage.c`, `*_test.c` |

How they interact: `mkfs` writes an image file and ends. `a1fs` maps the same
file (`MAP_SHARED`) and gives the kernel, through libfuse, a table of handlers.
The kernel resolves a path component by component with `getattr`, so that a
handler is called only when what its "Assumptions" comment lists holds; the
handler walks the path again from the root, inode by inode. Nothing is cached:
every store goes to the mapping, which outlives the process. `rename` calls
`rmdir` or `unlink` to remove what it replaces and drops their answer. Unmounting
flushes the mapping only with `--sync`.

Every file or directory has one inode and two blocks: one that holds its only
extent, and the one block that extent names. A directory's entries are in that
one block, `dentry_count` of them, starting with "." and "..".

What makes each part correct:

* directory operations: bitmaps, counters and the tree of names agree after
  every call, also one that fails; no inode or block is handed out twice; each
  call changes the tree of names in the one way it is for; the root survives.
* bitmaps: setting and clearing one bit touches no other, and the search finds
  the first clear one.
* path helpers: splitting a path and walking it agree on what the parent and the
  last component are.
* formatter: what it writes is an image the handlers can work on, whatever was in
  the file before, or it says no.
* mount: it refuses what is no a1fs image; what was stored is found again.

`PROJECT.json` lists the hazards line by line, with the properties aimed at each.

## 2. The modules

```
Image            the image; reading and writing it (constant operators only)
  A1fs           the handlers as actions; invariants; refinement mapping
    A1fs_proofs  types and safety of the root, checked by TLAPS
    Intact       the invariant of undamaged images
      Intact_proofs  what holds of them, and the refinement of Namespace
    A1fsCrash    the same handlers store by store; implements A1fs
      A1fsCrash_proofs  what a death leaves, and that refinement, by TLAPS
    PathWalk     from a path to an inode: splitting and walking paths
      PathWalk_proofs  where walks end, on paths of any length, by TLAPS
      Attr       getattr, readdir, statfs, utimens and the stubs, on top of A1fs
        Attr_proofs  what they answer, and what statfs foretells, by TLAPS
Namespace        abstract specification: a tree of names; A1fs implements it
Bitmap           bitmaps as arrays of 32-bit words; Bitmap_proofs its theorems
BitSet           abstract specification: a set of bits; Bitmap implements it
Mkfs             the formatter, run again and again on one file; Mkfs_proofs
Mount            the image file and the processes on it; Mount_proofs its theorems
StableFile       abstract specification: what sync promises; Mount implements it
MC...            instances for TLC; MC...From start with given calls
```

### Image

An image is a record. The bitmaps are sets of the bits that are 1, the counters
integers (they can go below zero, and do), `inode` is the inode table, and `mem`
is the data region: blocks cut into slots of one directory entry (256 bytes,
`a1fs.h:183`). The region is *untyped*: a slot is a first word and a tail, the
same bytes whether they are read as an entry (inode number, name) or as the
first extent of a block (start, count). So an entry stored past its directory's
block, at `At`/`Store` with an index of `DentriesPerBlock` or more, overwrites
whatever the next block holds, and what was there is then read as what it was
not. Extents always have count 1; the count, read as a name, is one nobody uses.

The writing operators are named runs of stores, in the order of the code:

| operator | code |
|---|---|
| `TakeInode`, `TakeBlocks` | `a1fs.c:1161-1183`, counters and bits |
| `AddInode` | `:783-796`, the parent's count is raised first |
| `AddEntry`, `AddExtent`, `AddDots` | `:808-827` |
| `FreeNode`, `DropEntry`, `Remove` | `:985-1035`, `:1363-1413` |
| `forward_layback_extents` | `:142-161`, and its copies in `rmdir` and `unlink` |
| `Move` | `:1531-1558` |

Left out: inode `size` (no handler reads it), `mtime` and `links` (they are in
`Attr`; no control flow reads them) and `ext_count` (always 1; so `rename`'s test for
more than 512 is never true).

### A1fs

`img` is the image, `ret` what the last call returned (`"SIGSEGV"`: the process
died), `hit` a history of branches that were taken (below). One action per
handler, `Mkdir(p, n)`, `Create(p, n)`, `Rmdir(p, n)`, `Unlink(p, n)`,
`Rename(p, n, q, m)`, and `Remount`. A handler gets its parent directory as an
inode a path leads to (`Directories`) and the last component as a name. Its
returns are its disjuncts: no inode, no blocks, killed by the store outside the
mapping, success. `Rename` reads the mode that chooses between `rmdir` and
`unlink` from the wrong base, as the code does (`a1fs.c:1504`); as those bytes can
be anything, the model lets them be a directory's, not a directory's, or
unmapped.

The initial state is what `mkfs` makes of a zeroed file. `Remount` stands for
unmounting, or for starting again after the process died, and mounting: the file
has every store, and `a1fs_init` looks at none of it.

**The caller.** Handlers are called by the kernel, which has looked the path up.
`mkdir` and `create` get a name that is not there; `rmdir`, `unlink` and `rename`
one that is; `rename` never gets a directory and a place below it, nor a file and
a directory to replace each other (`MayRename`). `rmdir` gets a directory and
`unlink` something that is none.

**Bounds**, all in guards:

* `Bounded`: counts of entries stay below `2 * DentriesPerBlock`, so that an entry
  lies in its block or the next; counters stay within `CounterSlack` of their
  range. The second is there because `mkdir` on a full inode table lowers
  `free_inode_count` every time, without end.
* `FollowDamage`: when FALSE, no call follows a call that may have damaged the
  image, but one that goes astray.

**`Astray`.** In a damaged image some path may lead to a directory that was freed, or to
a node whose extent block or entries an overrun has overwritten (not `Readable`). The
kernel goes on calling, and the handlers follow what lies there: `rmdir` of a directory
whose extent block was overwritten by a neighbour's 17th entry reads that entry's inode
number as the first block to free and the first bytes of its name as the number of
blocks (`a1fs.c:990-1005`), root's blocks and bits beyond the bitmap included. The
actions of the handlers describe calls to nodes that are as they were written
(`Directories`, `EntryIs`); any other call is the action `Astray`, after which nothing
is known of the image and no further call is followed. In an intact image it cannot
happen: that is what `Consistent` says.

**`hit`** remembers six branches. Two are harmless to the tree of names
(`counter_drift`, `inode_leak`); three may damage the image (`overrun`,
`in_place`, `target_kept`: they are the defects listed in section 5); the last is
`astray`. `Intact` says that none of these four was taken. Properties about consistency
are claimed for intact images only; `TypeOK` and `RootSafe` for damaged ones too, until
a call goes astray. After that nothing is claimed, and nothing is true.

### Intact

No new state and no new step: what an image is like as long as nothing damaged it, as
the one invariant `SoundInv` from which the properties of `A1fs` follow. `Sound(s, L)` says
it of an image `s` and the set `L` of its nodes: they are laid out as the handlers expect
(`LaidOut`), share no block (`Apart`), hang together as a tree (`Graph`), and are what the
data bitmap and its counter account for (`Accounted`). `InodesExact` says what is left of
the same for inodes after each of the two harmless branches: whatever drifted or leaked,
the counter never promises more inodes than are free. `FilesNameless` is a second
invariant, about what lies in the blocks that are no directory's. They are in a module of
their own so that TLC checks them and `Intact_proofs` proves them.

### Namespace

What a caller is promised: a set of edges *(directory, name, node)*, and one action for
each call with the directory and name it was given: `Mkdir(d, n)`, `Create(d, n)`,
`Rmdir(d, n)`, `Unlink(d, n)`, `Rename(d, n, e, m)`, `Remount`. Each ties the answer to
the change: `"0"` to exactly the call's own (`mkdir` adds the edge *(d, n, i)* to a node
`i` that was not there and makes it a directory, `rmdir` takes the edge to an empty
directory out, `rename` moves one, in place of an empty node of the same kind if there is
one, to another directory), and each other answer to no change and, for `-ENOTEMPTY`, to
its reason. A call that does nothing must not answer `"0"`.

`A1fs` defines the mapping: the edges are the entries from index 2 of every directory a
path leads to, `dirs` those directories, `ok` is `Intact`. Once the caller is let down
(`ok` is FALSE; `rename` inside one directory, `rename` that keeps what it was to replace,
an overrun) nothing more is promised. `ImplementsNamespace` says that the handler's
steps with given arguments are steps of the call of `Namespace` with the same ones;
that `A1fs` then implements `Namespace` as a whole is the theorem `Refines`.

### Mkfs

`A1fs` starts from a file of zeros with a sensible layout. `Mkfs` asks what the
formatter does with any file and any number of inodes: the state is the file (its
size, the superblock, and every bit behind it), `Mkfs(o)` is one run of the program
with options `o`. It refuses (no number of inodes; an image that is there and no
`-f`; `Refuse` changes nothing), or it clears the file if `-z` was given, computes a
superblock (`Superblock`, in ints of `IntMod` values, with C's division) and stores
what `Stores` lists, in order: the two loops over the bitmaps, root's inode and its
bit, root's extent, its entries and their bits. The first of these runs of bits that lies
outside the mapping kills the process (`Killed`) and leaves those before it (`Made`), the
magic number among them; a bit is then what the last run that covers it made of it
(`BitsAfter`).

Between two runs the image is used: `Make`, `Leak`, `Drift` and `Unmake` are the mount as far
as the formatter can tell (bits, counters, and inodes and blocks that are no longer
zeros), and `nodes` remembers what is in use, `drift` how many `mkdir`s lowered the inode counter
without finding an inode (`a1fs.c:752`). The inodes, extents and entries of the
image are bits too, since with another number of inodes the next format lays its
bitmaps over them; what a store leaves there is taken to be all ones.

A block's number becomes an address by a product in an int (`IntAddress`, `mkfs.c:294`),
for the block root's extent names in an unsigned int (`UIntAddress`, `mkfs.c:228`), and the
arguments of `-i` are narrowed as in `mkfs.c:264`, any of them. `Addressable` says that all
bytes of the file have numbers that are ints (files below 2 GB). mkfs itself runs on any
file; the mount, and with it the claims, are followed for addressable images in which root
has room (`Usable`). Bound: `MaxDrift`. Left out: `-s` (it is in
`Mount`), messages, root's mode, links and size, and what a1fs itself does wrong to an
image.

### A1fsCrash

In `A1fs` a handler is one step. Here it begins (`BeginMkdir`, ...: the tests before its
first store, which choose the stores it will make), makes its stores one at a time in
the order of the source (`MakeStore`; the Makefile does not ask for optimisation), and
answers. `now` is the mapping, `img` the image before the running call. What a store
reads, it reads when it is made: `InodeOff` clears the bit of the inode that the slot
names *then*, and each step of a shift copies from the slot above. A name is copied
byte by byte, so between two names there is a half-copied one. What it reads as depends on
the two names: of `ab` over `b` the half is `a`, which may be a third entry's name. The
model marks such a slot `"torn"`, a mark apart from the names (`TornAssumption`), and lets a
torn name match *any* name: `OthersKept` says what a scan that stops there comes to.

There is no recovery code to model: a killed process leaves `now` as it is, and the next
mount takes it as it is. So a property of every value of `now` is a property of every
crash of the process. (A power failure may lose some of the stores: `Mount`.) Calls that
damage the image without a crash are not begun: an entry beyond its block, a rename
inside one directory, a rename that keeps what it should replace. The calls after a
death are not followed.

What is claimed of a crash is that *others* are safe. Of the names and nodes the call is
about, nothing is: after a death

* `mkdir` and `create` may leave an inode and two blocks marked and not in the tree, or a
  name that leads to a node whose extent block was not written yet, so that it shows
  what an older one left there; or, with the count raised and the entry not yet written,
  bring back whatever entry was last in that slot;
* `rmdir` and `unlink` may leave the removed name on a node whose inode and blocks are
  free, on the node of the next entry (moved down, number first), or counted twice; and a
  half-copied name, which, if it reads as the name of an entry not yet moved, leads
  that name to the node of the entry after the half-copied one;
* `rename` may leave the node under both names, or, between the two counts, under none;
* the counters may be behind the bitmaps.

### Bitmap, BitSet

`A` is the array of words, a word the set of its bits. `setBitOn`, `setBitOff` and
`checkBit` compute word and bit number as the code does; `find_free_from_bitmap` is a
loop, one bit a step (`FindBegin`, `FindStep`, `FindReturn`), and its callers mark what it
found (`MarkFound`) or free a bit that is marked (`FreeOne`). `BitSet` is what `Image`
takes bitmaps for: a set, with one member put in or taken out at a time, and the least
member of `0 .. Size - 1` that is not in it. `Bitmap` implements it with the marked bits
for the set. (The word holds bit 31 in its sign: `1 << 31` on a 32-bit int gives that bit
with the compilers the code is built with.)

### PathWalk

Paths are sequences of characters. `num_entry_name`, `get_parent_path` and
`get_last_entry` follow their loops; `Tokens` is what `strtok` gives. A walk is at an
inode (`cur`) and at a component (`index`); `Scan` is the loop over the entries that all
walks share: it looks at `dentry_count` slots of any inode, also of a file. The three
kinds differ in when they test for a directory and where they stop:
`find_inode_from_path` (readdir, rename), `StatWalk` (getattr, utimens), `ParentWalk`
(mkdir, create, rmdir, unlink). `A1fs` hands its actions a directory and a name; this
module justifies that on every image `A1fs` reaches. Each loop of the code is a `Fold` of
the operator that is one turn of it (`UpToLast`, `AfterLast`, `Tokenize`, `FindStep`,
`StatStep`, `ParentStep`); a turn after the loop has been left changes nothing.

### Attr

`A1fs` with the inode fields only these handlers read: `links` and `mtime`, which `mkdir`
and `create` fill in (`Fill`) and `utimens` sets. `stat`, `readdir` and `statfs` are what
the reading handlers answer; `Stub` stands for `truncate`, `read` and `write`. The clock
counts calls; `stamp` and `moved` are histories. Left out: `UTIME_NOW` and `UTIME_OMIT`
(the code stores what it is given), the constants of `statfs`, and a `filler` that is out
of memory (libfuse keeps that error itself).

### Mount, StableFile

The image file as a number of blocks, each standing for the store it last got, in the page
cache (`cache`) and on the disk (`disk`). Any number of processes run `a1fs`
(`A1fsMain`, `Serve`, `a1fs_destroy`) or `mkfs` (`MkfsMain`, `ZeroBlock`, `InitSuper`,
`FormatBlock`, `MkfsReturn`), with every combination of options: refused ones, help, a
path that cannot be mapped, `--sync`, `-s`, `-f`, `-z`. Nothing in the code keeps two of
them off one file. Around them the kernel writes blocks back when it likes, `msync` may
fail with some of them written, a process may be killed, and a power failure leaves what
is on the disk. `promised` remembers what the last sync that reported no error covered.
`StableFile` says what that is worth: blocks get newer only, except that a power failure
takes back stores made after the last such sync. Bounds: `MaxStores`, `MaxCuts`. A block
reaches the disk whole or not at all.

## 3. What the runs check

| run | instance | checks |
|---|---|---|
| `tree` | 4 inodes, 7 blocks, 4 slots a block | `SoundInv`, `Consistent`, `NamedOnce`, `BlocksAccounted`, `InodesAccounted`, `CountersExact`, `FilesNameless`, `ImplementsNamespace` |
| `nested` | 5 inodes, 10 blocks, 4 slots, from `/a/a/a` and `/b`, 3 calls; paths of up to 4 of the names "a" and "ab" | `StatIsTree`, `WalksAgree` |
| `last_block` | as `nested` with 3 names and `FollowDamage`, from a full directory in the last block, 4 calls | `TypeOK`, `RootSafe` |
| `stores` | 5 inodes, 9 blocks, 5 slots, 3 names, from `/a`, `/b`, `/c`, 4 calls | `OthersKept`, `OthersUntouched`, `ImplementsA1fs` |
| `words` | 2 words, 34 bits in use | `TypeOK`, `SearchSound`, `ImplementsBitSet`, `SearchEnds` |
| `attr` | 4 inodes, 7 blocks, 4 slots, 5 calls | `StatShowsOwnTime`, `ReaddirIsTree`, `DotDotOfBirth`, `RoomIsRoom` |
| `again` | files of 8 and 13 blocks, 10 arguments of `-i`, 2 mkdirs without an inode | `LayoutSound`, `BitmapsCoverUse`, `FreeCountsExact` |
| `mount` | 2 blocks, 2 processes, 4 stores, 1 power failure | `TypeOK`, `SyncedSurvives`, `ImplementsStableFile` |
| `rename`, `overrun` | 3 inodes, 6 blocks, 4 slots; `overrun` 4 inodes, 8 blocks, 3 slots | one statement of the repository each, which TLC finds violated (section 5) |
| `unfit`, `reformat` | as `again`; `reformat` one size, one argument | the same |

* **SoundInv**: an undamaged image is a tree of nodes with blocks of their own, and the
  bitmaps and counters are exact: what the next five properties have in common, in the
  form that a call preserves (section 4).
* **Consistent**: whatever a path leads to is allocated and readable; a directory
  starts with "." and "..", and "." is right. Freed inodes keep their contents and
  are handed out again, so this is about every field that reuse must rewrite.
* **NamedOnce**: no inode has two names and no directory one name twice. `unlink`
  and `rmdir` free at once what they remove; this is what makes that right.
* **ImplementsNamespace**: refinement, call by call. Every call answers 0 and makes the
  change to the tree of names that it, its directory and its name stand for, or answers
  one of its errors and makes none.
* **BlocksAccounted, InodesAccounted**: the bits that are 1 are those of the inodes
  paths lead to and of their blocks, two each, none shared; except inodes that a
  `mkdir` or `create` without blocks left marked (`inode_leak`).
* **CountersExact**: the superblock's counters say what the bitmaps say, except
  after a `mkdir` that found no inode (`counter_drift`).
* **FilesNameless**: no block has a name in the two slots that a walk reads when it takes a
  file for a directory; shifts and new entries stay behind them.
* **TypeOK, RootSafe** (`last_block`): overruns, entries of one name and deaths leave
  extents, inodes and bitmaps in their types, and root with its inode, blocks and extent,
  through all calls to nodes that are as they were written. A call to another node ends
  the claim (`Astray`).
* **LayoutSound**: when root has room, the areas of the superblock fill the file from
  block 1 to its end without gap or overlap, each large enough.
* **BitmapsCoverUse**: whatever the file held before, nothing in use is unmarked or
  used twice and no inode is marked in vain. The loop over the inode bitmap stores
  one *word* per inode and runs on into the data bitmap; this says it does no harm.
* **FreeCountsExact**: after formatting zeros and through any use of the image the block
  counter is that of the bitmap, and the inode counter is behind its bitmap by exactly the
  `mkdir`s that found no inode.
* **OthersKept**: at every store, so after a death there, every name the running call was
  not given still has its entry, below the count, with its inode number, also in the
  directory whose entries are moving; before that entry no slot has its whole name, and a
  slot with a half-copied one, which may read as it, has the number of the entry after: it
  never leads to the node the call has freed. A
  shift that copies names before numbers breaks it, and so does a count changed before
  the entries are moved.
* **OthersUntouched**: at every store, what a path led to and the call does not remove is
  allocated, has its kind and blocks, and its entries unless the call works in it.
* **ImplementsA1fs**: refinement. Taken store by store a handler does, when it answers,
  exactly what its action in `A1fs` does.
* **SearchSound, ImplementsBitSet**: the search has passed over marked bits only, and words
  with these four functions are a set of bits. **SearchEnds**: a search returns.
* **StatIsTree**: on an intact image getattr finds the paths of the tree of names and no
  others, although it reads the block of a file as if it held entries.
* **WalksAgree**: a path means the same inode, the same parent directory and the same last
  component to every handler, and to `rename`, which cuts the path itself.
* **StatShowsOwnTime**: getattr shows the time a file was made or was given by utimens, not
  the one of an older node in its inode; moving it does not change it. Of a directory: a
  time no older than that, since a change of its entries may set a later one (`a1fs.h:137`).
* **ReaddirIsTree**: readdir lists ".", ".." and each entry of the tree once.
* **DotDotOfBirth**: ".." is right in every directory that was not moved.
* **RoomIsRoom**: statfs's counters decide whether the next mkdir or create makes a node.
* **SyncedSurvives**: what an unmount with `--sync`, or `mkfs -s`, reported as done is on
  the disk, and stays there, whatever other processes, the kernel and the power do.
* **ImplementsStableFile**: refinement. No process takes back a store by ending, and a
  power failure none that was synced.

The bounds. `tree` is explored to the end. Two names, four inodes and four slots a
block (two entries beside "." and "..") are enough for the cases its properties are
about: an empty, a partly filled and a full directory, the entry removed being first or
last, each of the searches failing, blocks and inodes reused after a file by a directory
and the other way round. Seven blocks are one more than three nodes need, so that the
search for the second block fails; the inodes such failures leak use up the table, so
that the search for an inode fails too. Names are interchangeable, so `SYMMETRY` over
them is sound there (no liveness is checked).

With five inodes the images reachable from a new one are too many, because freed
blocks keep their contents. `MCA1fsFrom` starts with calls that lead to an
interesting image (`Prefix`, themselves steps of the model) and explores `MaxCalls`
calls from there: chains of directories moved and replaced across levels
(`nested`), and a full directory in the last block, where `mkdir` and `create` are
killed (`last_block`). There the calls go on after the damage until one goes astray, and an
overrun of the root meets a next block that is in use or free. In `nested` one name is the beginning of
the other; the walks have components before, at and after the ones they treat apart, and
paths go through a file, past it, and through names that are not there.

`again` is explored to the end too, and both its sizes are addressable. A block is 8 bytes of one bit, a word two bits, an
inode a block: in 13 blocks 3 inodes leave room for nodes whose blocks lie
beyond the words the second loop clears, 5 and 7 inodes make the first loop run past
its bitmap, 7 just fits, 8 leaves one block for the root directory, and for 14, 21
and 27 the size of the inode table in bytes overflows: to a negative number of
blocks, to a layout whose root extent replaces the magic number, and to none. A file
of 8 blocks has no room, or none but root's, for most of them.

`stores` begins with three entries, so that an entry moves with others on both sides of
it, and a rename goes into one directory while the other is shifted. Four nodes and the
root do not fit in nine blocks: the calls that fail for want of a block, then of an
inode, are there. `words` takes bitmaps that were filled up to just before, at and after
the boundary of the two words and the end of the bits in use, and clears bits next to
those places; all of that is explored to the end. Five calls in `attr` are enough to make, remove and make again, with
an inode reused, and to move a directory. In `mount` two processes, four stores and a power
failure let one process sync while the other stores, the power fail in between, and
the file be formatted, synced and formatted again. `MountAssumption`, `BitmapAssumption`,
`SpellingAssumption` and the others are evaluated in these runs.

Not reached by any instance: `rename` returning 1 because it no longer finds
`from` after it removed the target. The theorems cover it.

**Fairness**: `Bitmap` only, weak fairness of the search's own steps and of the caller's
marking: a handler, once called, runs; the process has one thread and nothing in the
loop blocks. No call ever has to be made, and nothing else in the system must happen
of its own accord: the kernel need not write back, nor a process be unmounted. All other
properties are safety properties. Deadlock is checked (a mounted or dead system can
always be mounted again; `Attr` has `Stop` for the end of a behaviour of `MaxCalls` calls).

## 4. What is proved

**A1fs_proofs** proves, for every number of inodes and blocks, block size, set of
names and bound, from `ImageAssumption` and `BoundAssumption` alone:

* `TypeCorrect`: `Spec => []TypeOK`
* `RootIsSafe`: `Spec => []RootSafe`

They hold through overruns, bad renames and deaths, until a call goes astray (section 2);
what the code does to the image after that breaks all of them, and neither says anything
of it. The argument: neither is inductive alone. That root's blocks are not freed needs
that no other inode's extent names
them, for every cell of the data region, also those in free blocks and past a
directory's count, because an overrun or a reused block may make any of them
live again (`MemSpares`, a lemma of the proof and no claim about the code's reads); that
extents stay block numbers of the region needs the
types; so the inductive invariant `IInv` is the conjunction of these three. It is about the image
as it stands when no call has gone astray: `Astray` records that one did and leaves `img` as
it was, so nothing is claimed of the bytes such a call writes.
`Good(s)` says the same of an image value. Each writing operator of `Image` has a
lemma that it keeps `Good` (`StoreKeeps`, `ShiftKeeps`, `TakeInodeKeeps`, ...,
`RemoveKeeps`, `MoveKeeps`), each action a lemma built from those
(`MkdirStep`, ..., `RenameStep`), and `NextKeeps` collects them. The lemma that is
not routine is `RemoveReadable`: `rename` goes on using two directories after
`Remove` has moved entries, and a move down replaces entries by entries only, so
what was readable stays so.

**Bitmap_proofs** proves, for every number of words and of bits in use, from
`BitmapAssumption`:

* `TypeCorrect`: `Spec => []TypeOK`; `SearchIsSound`: `Spec => []SearchSound`
* `WordsAreSet`: `Spec => ImplementsBitSet`

`TypeOK /\ SearchSound` is inductive. The lemmas that carry it are about the functions:
`WordOf` (division and remainder by 32 name each bit once), `OnMarks` and `OffClears` (a
bit set or cleared changes what `checkBit` says of that bit and of no other). Then each step
of the words is a step of the set or a stutter: `FindReturnMaps` needs `SearchSound` to
know that the bit is the least one. So the sets in `Image` stand for the code's arrays.

**Mount_proofs** proves, for every number of blocks and set of processes, from
`MountAssumption`:

* `TypeCorrect`: `Spec => []TypeOK`; `SyncIsKept`: `Spec => []SyncedSurvives`
* `FileIsStable`: `Spec => ImplementsStableFile`

`StepKinds` reduces the many actions to what they do to the file: a store inside the
mapping, a sync, a write by the kernel, a power failure, or nothing. The invariant is that
per block the promised store is no later than the one on the disk, that no later than
the cached one, and that no later than the last one made; each kind of step keeps it
(`FileStepKeeps`), and maps to a step of `StableFile` (`StepMaps`). That `ZeroBlock` stores inside
the mapping needs the second half, about processes (`ProcStepKeeps`).

**Intact_proofs** proves, again for every size and set of names and from the same two
assumptions, what the `tree` run checks of undamaged images:

* `SoundInvariant`: `Spec => []SoundInv`, and from it `IntactIsConsistent`, `NamesAreUnique`,
  `BlocksAreAccounted`, `InodesAreAccounted` and `CountersAreExact`
* `Implements`: `Spec => ImplementsNamespace`, and `Refines`: `Spec => Tree!Spec`

None of these is inductive: that a directory's first entries are right needs that no other
node has its block, that a block handed out is unused needs the bitmap to be exact, that
`rmdir` frees what nobody else names needs unique names, and each of these needs the others.
`SoundInv` is their conjunction, over the nodes rather than over paths. It is inductive with
`IInv` of `A1fs_proofs`. "Some path leads to" is a fixed point, which the prover cannot
unfold; so `Rooted` says it by closed sets, `ReachableIs` shows that the nodes of a sound
image are `Reachable`, and the lemmas `GraphGrown`, `GraphShrunk`, `GraphMoved` say what
putting in, taking out and moving an edge does to a tree. `SoundGrown`, `SoundShrunk` and
`SoundMoved` lift them to images, where reuse shows: a new node may get the inode and
blocks of an old one, with its entries still in them. The writing operators of `Image` are
then shown to have those shapes (`WithDirShape`, `RemoveIsShrunk`, `MoveIsMoved`, ...), and
each call to be one of them (`MkdirSounds`, ..., `RenameSounds`). `NextSounds` says for
every call which change of the tree it made (`TreeStep`); the refinement is read off that.
`RenameOverSounds`, a rename that removes what it replaces, has the hardest case: the two
directories may be one or nested, and the removal moves the entry to be renamed.

**A1fsCrash_proofs** proves, for every size and set of names and from the same assumptions
and `TornAssumption`, what the `stores` run checks:

* `DeathKeepsOthers`: `CrashSpec => []OthersKept`;
  `DeathTouchesNoOthers`: `CrashSpec => []OthersUntouched`
* `StoresImplementA1fs`: `CrashSpec => ImplementsA1fs`

The invariant `CrashInv` looks both ways from the middle of a call. The image before it has
all that `A1fs_proofs` and `Intact_proofs` know (`Ready`). The mapping *leads* by the
stores still to be made to an image `T` (`Leads`), every image on the way is one in which
the others are safe (`Ok`), and `T` with the answer is the effect of the call's action in
`A1fs` (`Effect`). So a store only goes one step along (`MakeStoreKeeps`), an answer is a
step of `A1fs` (`AnswerActs`), and the work is at the beginning of each call: what its
list of stores leads to (`MkdirLeads`, `CreateLeads`, `RmdirLeads`, `UnlinkLeads`,
`RenameLeads`, `ReplaceLeads`), although some stores copy what earlier ones left.

`Ok` says that nothing of the others is freed or written (`Held`) and that each directory
the call works in is `Settled`: its entries are `Whole`, or those from the removed one on
have moved (`Shifted`), or are moving (`Shifting`), up to a slot that has one entry's number
and, for now, no entry's name. `ShiftLeads` takes the shift through those three, store by
store (`Moving` is the block after the entry `j` and `r` of its three stores), and in each
of them the scan for another name stops where it should (`ScanStops`). A
new entry goes into a slot behind the count or of a block of nobody (`Spare`); that blocks
handed out are nobody's is `SoundInv`. `EffectActs` needs the bounds on the counters to
hold of `T`, hence the part of `InodesExact` about the counter.

**Attr_proofs** proves, for every size, set of names and number of calls:

* `DotDotIsOfBirth`: `AttrSpec => []DotDotOfBirth`; `RoomDecides`: `AttrSpec => RoomIsRoom`

All stand on `SoundInv`, which the steps of `Attr` keep too. For the first, `NextSounds` also
says of every call what it did to the second entry of directories (`Backs`): a directory
that was one keeps its "..", since entries are only moved behind it (`ShrunkSteady`,
`MovedSteady`) and new nodes get blocks of nobody; a new one's is the inode its only edge
comes from, because the "." it was copied from names that directory (`GrownBacks`). In a
sound image the parents of a node are where its edges come from, and that is one
(`OneParent`). A directory's parent may change to another and back, hence the history
`moved` in the claim. For the second, the counters are what the bitmaps leave
(`RoomCounted`), so that each way the searches end says how many bits there were
(`FoundRoom`, `NoneFreeNoRoom`); that `rename` never answers 1 needs that its second scan
finds the old entry again after it has removed the new name's (`RenameEnds`).

* `StatIsOfNode`: `AttrSpec => []StatShowsOwnTime`; `ReaddirListsTree`: `AttrSpec => []ReaddirIsTree`

For these a path is first an inode (`PathWalk_proofs`). `StatShowsOwnTime` is about paths and
not inductive: `TimesOwn` is, which says of every node of an intact image that its time is
its own. Calls keep it since a node that appears is one `Fill` fills in, and a node that
stays is not (`CallKeepsTimes`, again from what `NextSounds` says of the tree); utimens, since
the inode its walk ends at is a node (`UtimensKeepsTimes`). Readdir reads slots; `NamesListed`
makes of them a bijection with the tree's names, so that none is missed or listed twice.

**PathWalk_proofs** proves, for every size, set of names, spelling, length and depth of
paths, from `SpellingAssumption` and `PathAssumption` besides:

* `StatFindsTree`: `Spec => []StatIsTree`; `WalksAllAgree`: `Spec => []WalksAgree`

No step of the system is hard here, the functions are: a loop over the characters inside
loops over components, on an image of any size. Induction comes from `WFMin` over the
natural numbers, which takes a set where the other induction theorems take an operator
(`LeastOf`, `UpTo`); from it, every `Fold` has a sequence of states in which each follows from
the one before by one turn (`LoopRuns`), and with those in hand all that follows is about
one turn. `PathSpells` says where in `PathOf(ns)` each name lies, `NameByName` is
induction along that: at a "/", and at the next character of a name. By it `NamesCounted`,
`ParentCut`, `LastCopied` and `NamesCut` say what the four helpers make of such a path; together
(`PathTaken`) that they give back the names it was made of.

Then the walks. `Follows` is their invariant: after some components the walk is at the
inode those names lead to in the tree, or it has failed and they lead to none. One turn
keeps it in each of the three kinds (`StatTurn`, `FindTurn`, `ParentTurn`), because a scan of a
directory stops at the tree's edge of that name (`ScanFollows`, from the unique names and
untorn entries of `Sound`) and a scan of a file stops nowhere (`Nameless`). `StatEnds`,
`FindEnds` and `ParentEnds` say where they come to; `WalksAgree` compares those.

`Nameless` is an invariant of its own, `FilesAreNameless` in `Intact_proofs`: `Spec =>
[]FilesNameless`. It is inductive with `SoundInv`: in an intact image entries are stored and
moved behind a directory's first two slots and inside its block; the blocks of a new node get
an extent, or "." and "..", in those slots, or keep what they had there; and files have a count
of 2 from `create` on.

**Mkfs_proofs** proves, for every block, word and inode size, every file size and every
option, from `MkfsAssumption`:

* `LayoutIsSound`: `Spec => []LayoutSound`; `BitmapsCover`: `Spec => []BitmapsCoverUse`;
  `FreeCountsAreExact`: `Spec => []FreeCountsExact`

All are about `Usable` images, so about files whose bytes an int can number; for larger ones
they claim nothing, and `LayoutSound` would be false (section 5). `AddressIsStart` says that
there an address is the block's. `RoomDivides` is about `Superblock`: where root has room,
the product `mkfs.c:269` narrows is bounded by the bytes of the file, so the narrowing is the identity, and each
area is the least number of blocks that is enough. Hence every store of `Stores` lies inside
the file (`StoresLieInside`), mkfs is not killed, and `FormatMarks` reads off the last run
that covers each bit that the run of the first loop past its bitmap clears nothing that is
not set again, or stays clear rightly. For what follows a format, `IInv` adds that nodes in
use have inodes and blocks of their own (`NodesApart`), without which a removal could clear
a bit another needs. `AsFormatted` says that the superblock of a usable image is still the
one the last mkfs computed.

Model-checked only: `SearchEnds`, since liveness under fairness is out of the prover's
reach. The theorems about paths assume of spellings what `SpellingAssumption` says: names
are not empty, not "." or "..", have no "/", are told apart, and none is the one character
with code 1 (an extent's count, read as a string where a file's block held an extent
before; the code does not exclude that name, the model does, in `Image` already). `MaxDepth`
is any number, so the paths are all that are shorter than `PathMax`.

## 5. Where the code and the repository's own words differ

* **rename inside one directory loses the entry** (run `rename`). The new entry is
  stored at index `dentry_count`, outside what is shifted and counted
  (`a1fs.c:1532-1558`): the call answers 0 and the new name is not there.
* **directories overflow their block** (run `overrun`): nothing compares
  `dentry_count` with the 16 entries a block holds (`a1fs.c:809`, `:1207`, `:1532`).
* **mkfs never refuses for want of room** (run `unfit`): it is killed after it has
  stored the magic number (the next mkfs then says that the image already contains
  a1fs), or formats with an inode table of no blocks and answers success
  (`mkfs.c:264-281`).
* **mkfs clears words where it means blocks** (run `reformat`): formatting over an
  older file without `-z` leaves blocks marked for good (`mkfs.c:302`).

Seen while modelling, and stated by no run:

* no room is reported as 1, not as `-ENOSPC` (`a1fs.c:1170` against `:649`, `:653`);
* `free_inode_count` drifts: `mkdir` lowers it before it knows whether there is an inode
  (`a1fs.c:752` against `a1fs.h:72`; `CountersExact` and `RoomIsRoom` hold up to there,
  branch `counter_drift`);
* below a file getattr answers `-ENOENT`, not `-ENOTDIR`, unless two or more components
  follow the file (`a1fs.c:518` against `:446`);
* only the whole path is measured, never a component (`a1fs.c:469` against `:444`), and
  `mkdir` and `create` copy a name that is too long past its entry;
* a file with one name has 2 links (`a1fs.c:1191` against `a1fs.h:129`);
* a directory's mtime stays when its entries change (`a1fs.h:137-138`: it "must be updated"
  then), and the root's is never stored by mkfs (`mkfs.c:206` against `:245`). So
  `StatShowsOwnTime` does not say that a directory's time stays: it asks of directories only
  that the time shown is not older than the one they were made or last set at;
* in a file of 2 GB or more with room for it, the size of the inode table in bytes may not
  be an int (`mkfs.c:269`), and neither are the addresses of blocks behind the 2 GB
  (`mkfs.c:202`, `:294`, `a1fs.c:296`): nothing is said of such files;
* any file can be mounted: `fs_ctx_init` looks at nothing (`fs_ctx.c:28` against
  `fs_ctx.h:48`).

Two more shape the model, though no line of the repository says otherwise: a
`mkdir` or `create` that finds no blocks leaks the inode it has taken
(`inode_leak`), and `rename` onto an existing name may keep the entry it was to
replace (`target_kept`), because it reads a mode at the wrong address.

## 6. Plan

Done: `Image`, `A1fs`, `Namespace`; `A1fs_proofs`; `Intact`, `Intact_proofs`; `Mkfs`, `Mkfs_proofs`;
`Bitmap` with its refinement and proofs; `PathWalk`, `PathWalk_proofs`; `A1fsCrash`,
`A1fsCrash_proofs`; `Attr`, `Attr_proofs`; `Mount` with its refinement and proofs. Left:

* `A1fsCrash`: the calls after a death, to say which of the leftovers listed in section 2
  later calls make worse.

## 7. Not modelled

* The parsing of options, messages and logs: libfuse's, `getopt`'s and `printf`'s.
* `readimage.c`: prints an image. `mkdir_test.c`, `getattr_test.c`, `readdir_test.c`: older
  copies of handlers. `ext2.h`: used by nothing.
* The sizes of the fixed buffers that hold a path or a name, and what a name that is too
  long overwrites after it was copied.
* Calls the kernel's own lookup rules out, and what becomes of an image once a call goes to
  a node that is no longer as it was written (`Astray`).
* Two programs changing one image at once, beyond what `Mount` says of syncing: mkfs tests for
  an image and formats later without a lock, and nothing in the repository promises
  anything about it.

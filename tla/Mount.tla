------------------------------- MODULE Mount --------------------------------
(***************************************************************************)
(* The life of an image file: programs map it (map.c), store into it and   *)
(* leave; a1fs serves handlers between a1fs_init and a1fs_destroy, mkfs    *)
(* formats.  The mapping is shared, so a store is in the page cache, from  *)
(* where the kernel writes a block to the disk whenever it likes, and msync*)
(* writes them all.  A block is what stored it last (the number of the     *)
(* store), and whether it starts with the magic number.  A block is written*)
(* whole: A1FS_BLOCK_SIZE is the size of a page.                           *)
(***************************************************************************)
EXTENDS Integers

CONSTANTS
  N,         \* blocks of the image file; block 0 is the superblock
  Procs,     \* processes, running one program after the other
  MaxStores, \* bound: stores in a behaviour
  MaxCuts    \* bound: power failures in a behaviour

ASSUME MountAssumption == N \in Nat \ {0} /\ MaxStores \in Nat /\ MaxCuts \in Nat

VARIABLES
  cache,    \* the page cache: what every mapping shows
  disk,     \* what a power failure leaves
  procs,    \* per process: where it is, its options, and its last exit status
  clock,    \* history: number of the last store
  promised, \* history: per block the store that the last sync reported done covers
  cuts      \* history: number of power failures

file == <<cache, disk, clock, promised, cuts>>
vars == <<cache, disk, procs, clock, promised, cuts>>

Blocks == 0 .. N - 1
Content == [at : Nat, a1fs : BOOLEAN]
\* No path; a file that is missing, empty or no whole number of blocks; the image.
Paths == {"none", "unfit", "image"}

\* a1fs_opts and mkfs_opts.  "bad": an argument that parsing refuses; "info":
\* help, or version, is all that is asked for.
A1fsOpts == [bad : BOOLEAN, info : BOOLEAN, path : Paths, sync : BOOLEAN]
MkfsOpts == [bad : BOOLEAN, info : BOOLEAN, path : Paths, sync : BOOLEAN,
             force : BOOLEAN, zero : BOOLEAN]

\* A process that runs no program, after an exit status (-1: killed).
Exited(status) == [pc |-> "exited", sync |-> FALSE, next |-> 0, status |-> status]
Running(pc, sync, next) == [pc |-> pc, sync |-> sync, next |-> next, status |-> 0]

At(p, pc) == procs[p].pc = pc
Become(p, r) == procs' = [procs EXCEPT ![p] = r]

\* open, fstat and mmap may fail on any file.
map_file(path) == {FALSE} \cup IF path = "image" THEN {TRUE} ELSE {}

a1fs_opt_parse(o) == ~ o.bad /\ (o.info \/ o.path # "none")
parse_args(o) == ~ o.bad /\ (o.info \/ o.path # "none")
a1fs_is_present == cache[0].a1fs

\* fs_ctx_init looks at nothing; a1fs_init maps nothing for help or version.
fs_ctx_init == TRUE
a1fs_init(o) ==
  IF o.info THEN {TRUE} ELSE {mapped /\ fs_ctx_init : mapped \in map_file(o.path)}

Init ==
  /\ \E formatted \in BOOLEAN :
       cache = [b \in Blocks |-> [at |-> 0, a1fs |-> formatted /\ b = 0]]
  /\ disk = cache
  /\ procs = [p \in Procs |-> Exited(0)]
  /\ clock = 0 /\ promised = [b \in Blocks |-> 0] /\ cuts = 0

(***************************************************************************)
(* Stores and msync                                                        *)

Store(b, a1fs) ==
  /\ clock < MaxStores /\ clock' = clock + 1
  /\ cache' = [cache EXCEPT ![b] = [at |-> clock', a1fs |-> a1fs]]
  /\ UNCHANGED <<disk, promised, cuts>>

\* msync succeeded: what the caller was asked to sync is on the disk.
Synced ==
  /\ disk' = cache
  /\ promised' = [b \in Blocks |-> cache[b].at]
  /\ UNCHANGED <<cache, clock, cuts>>

-----------------------------------------------------------------------------
(* a1fs                                                                    *)

\* main up to fuse_main, which for help or version prints and returns.
A1fsMain(p, o) ==
  /\ At(p, "exited")
  /\ \/ ~ a1fs_opt_parse(o) /\ Become(p, Exited(1))
     \/ a1fs_opt_parse(o) /\ FALSE \in a1fs_init(o) /\ Become(p, Exited(1))
     \/ /\ a1fs_opt_parse(o) /\ TRUE \in a1fs_init(o)
        /\ \/ o.info /\ \E s \in {0, 1} : Become(p, Exited(s))
           \/ ~ o.info /\ Become(p, Running("serving", o.sync, 0))
  /\ UNCHANGED file

\* A store of a handler, into any block; none touches the magic number.
Serve(p, b) ==
  /\ At(p, "serving")
  /\ Store(b, cache[b].a1fs)
  /\ UNCHANGED procs

\* Mutant: the image is unmapped without a look at --sync, success reported.
a1fs_destroyUnsynced(p) ==
  /\ At(p, "serving")
  /\ Become(p, Exited(0))
  /\ \/ ~ procs[p].sync /\ UNCHANGED file
     \/ /\ procs[p].sync
        /\ promised' = [b \in Blocks |-> cache[b].at]
        /\ UNCHANGED <<cache, disk, clock, cuts>>

\* Mutant: the mapping is MAP_PRIVATE, and what is not written goes with it.
a1fs_destroyPrivate(p) ==
  /\ At(p, "serving")
  /\ Become(p, Exited(0))
  /\ \/ ~ procs[p].sync /\ cache' = disk /\ UNCHANGED <<disk, clock, promised, cuts>>
     \/ procs[p].sync /\ Synced

\* Unmounting.  When msync fails, fuse_main's status is 0 all the same.
a1fs_destroy(p) ==
  /\ At(p, "serving")
  /\ Become(p, Exited(0))
  /\ \/ ~ procs[p].sync /\ UNCHANGED file
     \/ procs[p].sync /\ Synced
     \/ procs[p].sync /\ UNCHANGED file

-----------------------------------------------------------------------------
(* mkfs                                                                    *)

MkfsMain(p, o) ==
  /\ At(p, "exited")
  /\ \/ ~ parse_args(o) /\ Become(p, Exited(1))
     \/ parse_args(o) /\ o.info /\ Become(p, Exited(0))
     \/ /\ parse_args(o) /\ ~ o.info
        /\ \E mapped \in map_file(o.path) :
             Become(p, IF ~ mapped \/ (~ o.force /\ a1fs_is_present) THEN Exited(1)
                       ELSE Running(IF o.zero THEN "zeroing" ELSE "formatting", o.sync, 0))
  /\ UNCHANGED file

\* Mutant: the memset is one block too long.
ZeroBlockPast(p) ==
  /\ At(p, "zeroing")
  /\ Store(procs[p].next, FALSE)
  /\ LET next == procs[p].next + 1
     IN  Become(p, Running(IF next > N THEN "formatting" ELSE "zeroing", procs[p].sync, next))

\* memset, block by block.
ZeroBlock(p) ==
  /\ At(p, "zeroing")
  /\ Store(procs[p].next, FALSE)
  /\ LET next == procs[p].next + 1
     IN  Become(p, Running(IF next = N THEN "formatting" ELSE "zeroing", procs[p].sync, next))

\* init_super stores the magic number before anything else.
InitSuper(p) ==
  /\ At(p, "formatting")
  /\ Store(0, TRUE)
  /\ Become(p, Running("bitmaps", procs[p].sync, 0))

\* The stores after it: bitmaps, root's inode, extent and entries.
FormatBlock(p, b) ==
  /\ At(p, "bitmaps")
  /\ Store(b, cache[b].a1fs)
  /\ UNCHANGED procs

\* Mutant: mkfs forgets msync, and returns 0.
MkfsReturnUnsynced(p) ==
  /\ At(p, "bitmaps")
  /\ \/ ~ procs[p].sync /\ Become(p, Exited(0)) /\ UNCHANGED file
     \/ /\ procs[p].sync /\ Become(p, Exited(0))
        /\ promised' = [b \in Blocks |-> cache[b].at]
        /\ UNCHANGED <<cache, disk, clock, cuts>>

MkfsReturn(p) ==
  /\ At(p, "bitmaps")
  /\ \/ ~ procs[p].sync /\ Become(p, Exited(0)) /\ UNCHANGED file
     \/ procs[p].sync /\ Become(p, Exited(0)) /\ Synced
     \/ procs[p].sync /\ Become(p, Exited(1)) /\ UNCHANGED file

-----------------------------------------------------------------------------
(* What else happens                                                       *)

\* A process is killed (SIGSEGV of an overrun, SIGKILL), or fuse_main returns
\* without having mounted: the mapping goes, without msync.
Kill(p) ==
  /\ ~ At(p, "exited")
  /\ Become(p, Exited(-1))
  /\ UNCHANGED file

\* The kernel writes a block, also in the middle of an msync that will fail.
Writeback(b) ==
  /\ disk[b] # cache[b]
  /\ disk' = [disk EXCEPT ![b] = cache[b]]
  /\ UNCHANGED <<cache, procs, clock, promised, cuts>>

PowerFailure ==
  /\ cuts < MaxCuts /\ cuts' = cuts + 1
  /\ cache' = disk
  /\ procs' = [p \in Procs |-> Exited(-1)]
  /\ UNCHANGED <<disk, clock, promised>>

Next ==
  \/ \E p \in Procs :
       \/ \E o \in A1fsOpts : A1fsMain(p, o)
       \/ \E o \in MkfsOpts : MkfsMain(p, o)
       \/ \E b \in Blocks : Serve(p, b) \/ FormatBlock(p, b)
       \/ a1fs_destroy(p)
       \/ ZeroBlock(p)
       \/ InitSuper(p)
       \/ MkfsReturn(p)
       \/ Kill(p)
  \/ \E b \in Blocks : Writeback(b)
  \/ PowerFailure

Spec == Init /\ [][Next]_vars

-----------------------------------------------------------------------------
(* Properties                                                              *)

Process == [pc : {"exited", "serving", "zeroing", "formatting", "bitmaps"},
            sync : BOOLEAN, next : Nat, status : -1 .. 1]

\* Types; and the memset of mkfs -z stays in the mapping.
TypeOK ==
  /\ cache \in [Blocks -> Content] /\ disk \in [Blocks -> Content]
  /\ promised \in [Blocks -> Nat] /\ clock \in Nat /\ cuts \in Nat
  /\ procs \in [Procs -> Process]
  /\ \A p \in Procs : At(p, "zeroing") => procs[p].next \in Blocks

\* After an unmount with --sync or an mkfs -s that reported no error, whatever
\* happens, the disk holds no block older than at that moment, and a mapping
\* shows none older than the disk; with several processes on one file too.
SyncedSurvives ==
  \A b \in Blocks : promised[b] <= disk[b].at /\ disk[b].at <= cache[b].at

\* The file is a stable file: processes that end, end early, are killed or fail
\* to sync take no store back; a power failure only those after the last sync.
Stable == INSTANCE StableFile WITH
  now <- [b \in Blocks |-> cache[b].at], floor <- promised, cuts <- cuts
ImplementsStableFile == Stable!Spec

=============================================================================

---------------------------- MODULE Mount_proofs ----------------------------
(***************************************************************************)
(* For any number of blocks and processes: what was reported as synced     *)
(* survives, and the image file is a stable file.                          *)
(***************************************************************************)
EXTENDS Mount, TLAPS

\* What a store leaves of the file: types, and which copy is newer.
FileInv ==
  /\ cache \in [Blocks -> Content] /\ disk \in [Blocks -> Content]
  /\ promised \in [Blocks -> Nat] /\ clock \in Nat /\ cuts \in Nat
  /\ \A b \in Blocks : cache[b].at <= clock
  /\ SyncedSurvives

ProcInv ==
  /\ procs \in [Procs -> Process]
  /\ \A p \in Procs : At(p, "zeroing") => procs[p].next \in Blocks

IInv == FileInv /\ ProcInv

-----------------------------------------------------------------------------
(* What each kind of step does to the file.                                *)

LEMMA StoreKeeps ==
  ASSUME FileInv, NEW b \in Blocks, NEW a \in BOOLEAN, Store(b, a)
  PROVE  FileInv'
<1>1. clock' = clock + 1 /\ clock' \in Nat
  BY DEF Store, FileInv
<1>2. cache' \in [Blocks -> Content]
  BY <1>1 DEF Store, FileInv, Content
<1>3. \A c \in Blocks : cache[c].at <= cache'[c].at /\ cache'[c].at <= clock'
  BY <1>1 DEF Store, FileInv, Content
<1>4. \A c \in Blocks : promised'[c] <= disk'[c].at /\ disk'[c].at <= cache'[c].at
  BY <1>2, <1>3 DEF Store, FileInv, Content, SyncedSurvives
<1> QED BY <1>1, <1>2, <1>3, <1>4 DEF Store, FileInv, SyncedSurvives

LEMMA SyncedKeeps ==
  ASSUME FileInv, Synced
  PROVE  FileInv'
BY DEF FileInv, Synced, SyncedSurvives, Content

LEMMA FileKeeps ==
  ASSUME FileInv, UNCHANGED file
  PROVE  FileInv'
BY DEF FileInv, file, SyncedSurvives

LEMMA WritebackKeeps ==
  ASSUME FileInv, NEW b \in Blocks, Writeback(b)
  PROVE  FileInv'
<1>1. disk' \in [Blocks -> Content]
  BY DEF Writeback, FileInv
<1>2. \A c \in Blocks : promised'[c] <= disk'[c].at /\ disk'[c].at <= cache'[c].at
  BY DEF Writeback, FileInv, Content, SyncedSurvives
<1> QED BY <1>1, <1>2 DEF Writeback, FileInv, SyncedSurvives

LEMMA PowerFailureKeeps ==
  ASSUME FileInv, PowerFailure
  PROVE  FileInv'
<1>1. \A c \in Blocks : disk[c].at <= clock
  BY DEF FileInv, SyncedSurvives, Content
<1> QED BY <1>1 DEF PowerFailure, FileInv, SyncedSurvives, Content

\* A step is a store inside the mapping, a sync, a write by the kernel, a power
\* failure, or leaves the file alone.
FileStep ==
  \/ \E b \in Blocks, a \in BOOLEAN : Store(b, a)
  \/ Synced
  \/ \E b \in Blocks : Writeback(b)
  \/ PowerFailure
  \/ UNCHANGED file

LEMMA StepKinds ==
  ASSUME IInv, [Next]_vars
  PROVE  FileStep
<1> USE DEF FileStep
<1>1. \A b \in Blocks : cache[b].a1fs \in BOOLEAN
  BY DEF IInv, FileInv, Content
<1>2. 0 \in Blocks
  BY MountAssumption DEF Blocks
<1>3. CASE UNCHANGED vars
  BY <1>3 DEF vars, file
<1>4. ASSUME NEW p \in Procs, NEW o \in A1fsOpts, A1fsMain(p, o)
      PROVE  FileStep
  BY <1>4 DEF A1fsMain
<1>5. ASSUME NEW p \in Procs, NEW o \in MkfsOpts, MkfsMain(p, o)
      PROVE  FileStep
  BY <1>5 DEF MkfsMain
<1>6. ASSUME NEW p \in Procs, NEW b \in Blocks, Serve(p, b) \/ FormatBlock(p, b)
      PROVE  FileStep
  BY <1>1, <1>6 DEF Serve, FormatBlock
<1>7. ASSUME NEW p \in Procs, a1fs_destroy(p) \/ MkfsReturn(p)
      PROVE  FileStep
  BY <1>7 DEF a1fs_destroy, MkfsReturn
<1>8. ASSUME NEW p \in Procs, InitSuper(p) \/ ZeroBlock(p)
      PROVE  FileStep
  BY <1>2, <1>8 DEF InitSuper, ZeroBlock, IInv, ProcInv
<1>9. ASSUME NEW p \in Procs, Kill(p)
      PROVE  FileStep
  BY <1>9 DEF Kill
<1> QED BY <1>3, <1>4, <1>5, <1>6, <1>7, <1>8, <1>9 DEF Next

LEMMA FileStepKeeps ==
  ASSUME FileInv, FileStep
  PROVE  FileInv'
BY StoreKeeps, SyncedKeeps, WritebackKeeps, PowerFailureKeeps, FileKeeps DEF FileStep

-----------------------------------------------------------------------------
(* What each step does to the processes.                                   *)

LEMMA BecomeKeeps ==
  ASSUME ProcInv, NEW p \in Procs, NEW r \in Process,
         r.pc = "zeroing" => r.next \in Blocks, Become(p, r)
  PROVE  ProcInv'
BY DEF ProcInv, Become, At

LEMMA ExitedOK ==
  ASSUME NEW s \in -1 .. 1
  PROVE  Exited(s) \in Process /\ Exited(s).pc = "exited"
BY DEF Exited, Process

LEMMA RunningOK ==
  ASSUME NEW pc \in {"serving", "zeroing", "formatting", "bitmaps"},
         NEW sync \in BOOLEAN, NEW next \in Nat
  PROVE  /\ Running(pc, sync, next) \in Process
         /\ Running(pc, sync, next).pc = pc
         /\ Running(pc, sync, next).next = next
BY DEF Running, Process

LEMMA ProcStepKeeps ==
  ASSUME ProcInv, [Next]_vars
  PROVE  ProcInv'
<1>0. 0 \in Blocks
  BY MountAssumption DEF Blocks
<1>1. ASSUME NEW p \in Procs, NEW s \in -1 .. 1, Become(p, Exited(s))
      PROVE  ProcInv'
  BY <1>1, ExitedOK, BecomeKeeps
<1>2. ASSUME NEW p \in Procs, NEW pc \in {"serving", "zeroing", "formatting", "bitmaps"},
             NEW sync \in BOOLEAN, NEW next \in Nat,
             pc = "zeroing" => next \in Blocks, Become(p, Running(pc, sync, next))
      PROVE  ProcInv'
  BY <1>2, RunningOK, BecomeKeeps
<1>3. ASSUME UNCHANGED procs PROVE ProcInv'
  BY <1>3 DEF ProcInv, At
<1>4. ASSUME NEW p \in Procs, NEW o \in A1fsOpts, A1fsMain(p, o)
      PROVE  ProcInv'
  <2>1. o.sync \in BOOLEAN
    BY DEF A1fsOpts
  <2>2. \/ \E s \in -1 .. 1 : Become(p, Exited(s))
        \/ Become(p, Running("serving", o.sync, 0))
    <3>1. \A s \in {0, 1} : s \in -1 .. 1
      OBVIOUS
    <3> QED BY <1>4, <3>1 DEF A1fsMain
  <2> QED BY <1>0, <1>1, <1>2, <2>1, <2>2
<1>5. ASSUME NEW p \in Procs, NEW o \in MkfsOpts, MkfsMain(p, o)
      PROVE  ProcInv'
  <2>1. o.sync \in BOOLEAN
    BY DEF MkfsOpts
  <2>2. \/ \E s \in -1 .. 1 : Become(p, Exited(s))
        \/ Become(p, Running("zeroing", o.sync, 0))
        \/ Become(p, Running("formatting", o.sync, 0))
    BY <1>5 DEF MkfsMain
  <2> QED BY <1>0, <1>1, <1>2, <2>1, <2>2
<1>6. ASSUME NEW p \in Procs, ZeroBlock(p)
      PROVE  ProcInv'
  <2> DEFINE next == procs[p].next + 1
             pc == IF next = N THEN "formatting" ELSE "zeroing"
  <2>1. procs[p].next \in 0 .. N - 1 /\ procs[p].sync \in BOOLEAN
    BY <1>6 DEF ZeroBlock, ProcInv, Process, Blocks
  <2>2. next \in Nat /\ (pc = "zeroing" => next \in Blocks)
    BY <2>1, MountAssumption DEF Blocks
  <2>3. Become(p, Running(pc, procs[p].sync, next))
    BY <1>6 DEF ZeroBlock
  <2> QED BY <1>2, <2>1, <2>2, <2>3
<1>7. ASSUME NEW p \in Procs, InitSuper(p)
      PROVE  ProcInv'
  <2>1. procs[p].sync \in BOOLEAN
    BY DEF ProcInv, Process
  <2> QED BY <1>2, <1>7, <2>1 DEF InitSuper
<1>8. ASSUME NEW p \in Procs, a1fs_destroy(p) \/ MkfsReturn(p) \/ Kill(p)
      PROVE  ProcInv'
  <2>1. \E s \in -1 .. 1 : Become(p, Exited(s))
    BY <1>8 DEF a1fs_destroy, MkfsReturn, Kill
  <2> QED BY <1>1, <2>1
<1>9. ASSUME PowerFailure PROVE ProcInv'
  BY <1>9, ExitedOK DEF PowerFailure, ProcInv, At
<1>10. CASE UNCHANGED vars
  BY <1>3, <1>10 DEF vars
<1>11. ASSUME NEW p \in Procs, NEW b \in Blocks, Serve(p, b) \/ FormatBlock(p, b)
       PROVE  ProcInv'
  BY <1>3, <1>11 DEF Serve, FormatBlock
<1>12. ASSUME NEW b \in Blocks, Writeback(b) PROVE ProcInv'
  BY <1>3, <1>12 DEF Writeback
<1> QED BY <1>4, <1>5, <1>6, <1>7, <1>8, <1>9, <1>10, <1>11, <1>12 DEF Next

-----------------------------------------------------------------------------

LEMMA InitInv == Init => IInv
<1> SUFFICES ASSUME Init PROVE IInv
  OBVIOUS
<1>1. FileInv
  BY DEF Init, FileInv, Content, SyncedSurvives
<1>2. ProcInv
  BY ExitedOK DEF Init, ProcInv, At
<1> QED BY <1>1, <1>2 DEF IInv

LEMMA NextInv == IInv /\ [Next]_vars => IInv'
  BY StepKinds, FileStepKeeps, ProcStepKeeps DEF IInv

LEMMA Inductive == Spec => []IInv
  BY InitInv, NextInv, PTL DEF Spec

\* For any number of blocks and processes the state keeps its types, and mkfs -z
\* clears nothing outside the mapping.
THEOREM TypeCorrect == Spec => []TypeOK
<1>1. IInv => TypeOK
  BY DEF IInv, FileInv, ProcInv, TypeOK
<1> QED BY <1>1, Inductive, PTL

\* For any number of blocks and processes: an unmount with --sync, or an mkfs -s,
\* that reported no error is not undone, whatever happens.
THEOREM SyncIsKept == Spec => []SyncedSurvives
<1>1. IInv => SyncedSurvives
  BY DEF IInv, FileInv
<1> QED BY <1>1, Inductive, PTL

-----------------------------------------------------------------------------
(* The image file is a stable file.                                        *)

Seen == [b \in Blocks |-> cache[b].at]

LEMMA InitMaps == Init => Stable!Init
  BY DEF Init, Stable!Init

LEMMA StoreMaps ==
  ASSUME FileInv, NEW b \in Blocks, NEW a \in BOOLEAN, Store(b, a)
  PROVE  Stable!Write
<1>1. cache'[b].at > cache[b].at
  BY DEF Store, FileInv, Content
<1>2. \A c \in Blocks \ {b} : cache'[c] = cache[c]
  BY DEF Store, FileInv
<1>3. Seen'[b] > Seen[b] /\ Seen' = [Seen EXCEPT ![b] = Seen'[b]]
  BY <1>1, <1>2 DEF Seen
<1> QED BY <1>3 DEF Stable!Write, Store, Seen

LEMMA PowerFailureMaps ==
  ASSUME FileInv, PowerFailure
  PROVE  Stable!Cut
BY DEF FileInv, SyncedSurvives, PowerFailure, Stable!Cut

LEMMA StepMaps == IInv /\ [Next]_vars => [Stable!Next]_<<Seen, promised, cuts>>
<1> SUFFICES ASSUME IInv, [Next]_vars PROVE [Stable!Next]_<<Seen, promised, cuts>>
  OBVIOUS
<1>1. FileInv /\ FileStep
  BY StepKinds DEF IInv
<1>2. ASSUME NEW b \in Blocks, NEW a \in BOOLEAN, Store(b, a)
      PROVE  Stable!Next
  BY <1>1, <1>2, StoreMaps DEF Stable!Next
<1>3. CASE Synced
  BY <1>3 DEF Synced, Stable!Sync, Stable!Next
<1>4. ASSUME NEW b \in Blocks, Writeback(b)
      PROVE  UNCHANGED <<Seen, promised, cuts>>
  BY <1>4 DEF Writeback, Seen
<1>5. CASE PowerFailure
  BY <1>1, <1>5, PowerFailureMaps DEF Stable!Next
<1>6. CASE UNCHANGED file
  BY <1>6 DEF file, Seen
<1> QED BY <1>1, <1>2, <1>3, <1>4, <1>5, <1>6 DEF FileStep

\* For any number of blocks and processes: no process takes back a store by
\* ending, however it ends, and a power failure none before the last sync.
THEOREM FileIsStable == Spec => ImplementsStableFile
<1>1. IInv /\ [Next]_vars => [Stable!Next]_Stable!vars
  BY StepMaps DEF Seen, Stable!vars
<1> QED BY <1>1, InitMaps, Inductive, PTL DEF Spec, ImplementsStableFile, Stable!Spec

=============================================================================

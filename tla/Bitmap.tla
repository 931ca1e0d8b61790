------------------------------- MODULE Bitmap -------------------------------
(***************************************************************************)
(* A bitmap as a1fs.c keeps it, an array of 32-bit words, and the functions*)
(* that work on it.  A word is the set of its bits that are 1.  The search *)
(* is a loop over the bits, one iteration a step; its callers mark the bit *)
(* it finds (create, mkdir), and clear bits that are marked (unlink, rmdir,*)
(* and mkdir and create when the second search finds nothing).             *)
(***************************************************************************)
EXTENDS Integers

CONSTANTS
  Words,  \* words in the bitmap's blocks
  Size,   \* its bits in use: inode_count or dblock_count
  Filled, \* instances: how many leading bits earlier calls may have marked
  Freed   \* instances: the bits whose owner may be removed

ASSUME BitmapAssumption ==
  /\ Words \in Nat
  /\ Size \in 0 .. 32 * Words
  /\ Filled \subseteq 0 .. Size
  /\ Freed \subseteq 0 .. Size - 1

VARIABLES
  A,     \* the words
  i,     \* the search's loop variable
  found, \* what the last search returned
  pc     \* "search", "mark" when its caller has what it found, else "idle"

vars == <<A, i, found, pc>>

WordIndex == 0 .. Words - 1
Bits == 0 .. 32 * Words - 1

\* Mutant: the bit's number within its word is taken from 31.
setBitOn31(B, k) == [B EXCEPT ![k \div 32] = @ \cup {k % 31}]

setBitOn(B, k) == [B EXCEPT ![k \div 32] = @ \cup {k % 32}]

\* Mutant: the mask is not inverted, and clears the rest of the word.
setBitOffMask(B, k) == [B EXCEPT ![k \div 32] = @ \cap {k % 32}]

setBitOff(B, k) == [B EXCEPT ![k \div 32] = @ \ {k % 32}]

checkBit(B, k) == IF k % 32 \in B[k \div 32] THEN 1 ELSE 0

\* The words after the first n bits were marked.
FirstBits(n) == [w \in WordIndex |-> {b \in 0 .. 31 : 32 * w + b < n}]

Init ==
  /\ A \in {FirstBits(n) : n \in Filled}
  /\ i = 0 /\ found = -1 /\ pc = "idle"

\* Mutant: bit 0, root's, is not looked at.
FindBeginAtOne ==
  /\ pc = "idle" /\ pc' = "search"
  /\ i' = 1
  /\ UNCHANGED <<A, found>>

FindBegin ==
  /\ pc = "idle" /\ pc' = "search"
  /\ i' = 0
  /\ UNCHANGED <<A, found>>

\* Mutant: a full word is looked at again.
FindStepStays ==
  /\ pc = "search" /\ i < Size
  /\ checkBit(A, i) = 1
  /\ i' = IF A[i \div 32] = 0 .. 31 THEN i ELSE i + 1
  /\ UNCHANGED <<A, found, pc>>

FindStep ==
  /\ pc = "search" /\ i < Size
  /\ checkBit(A, i) = 1
  /\ i' = i + 1
  /\ UNCHANGED <<A, found, pc>>

\* Mutant: the loop's test is i <= size.
FindReturnPast ==
  /\ pc = "search"
  /\ \/ i <= Size /\ checkBit(A, i) = 0 /\ found' = i /\ pc' = "mark"
     \/ i > Size /\ found' = -1 /\ pc' = "idle"
  /\ UNCHANGED <<A, i>>

FindReturn ==
  /\ pc = "search"
  /\ \/ i < Size /\ checkBit(A, i) = 0 /\ found' = i /\ pc' = "mark"
     \/ i >= Size /\ found' = -1 /\ pc' = "idle"
  /\ UNCHANGED <<A, i>>

MarkFound ==
  /\ pc = "mark" /\ pc' = "idle"
  /\ A' = setBitOn(A, found)
  /\ UNCHANGED <<i, found>>

FreeOne(k) ==
  /\ pc = "idle"
  /\ checkBit(A, k) = 1
  /\ A' = setBitOff(A, k)
  /\ UNCHANGED <<i, found, pc>>

Next ==
  \/ FindBegin
  \/ FindStep
  \/ FindReturn
  \/ MarkFound
  \/ \E k \in Freed : FreeOne(k)

\* A call that has begun is run to its end.
Spec == Init /\ [][Next]_vars /\ WF_vars(FindStep \/ FindReturn \/ MarkFound)

-----------------------------------------------------------------------------
(* Properties.                                                             *)

Marked == {k \in Bits : checkBit(A, k) = 1}

TypeOK ==
  /\ A \in [WordIndex -> SUBSET (0 .. 31)]
  /\ i \in 0 .. Size
  /\ found \in -1 .. Size - 1
  /\ pc \in {"idle", "search", "mark"}
  /\ pc = "mark" => found >= 0

\* The search has passed over marked bits only, and what it found is not
\* marked until its caller does.
SearchSound ==
  /\ pc = "search" => \A k \in 0 .. i - 1 : checkBit(A, k) = 1
  /\ pc = "mark" => checkBit(A, found) = 0

Pending == IF pc = "mark" THEN {found} ELSE {}

Set == INSTANCE BitSet
         WITH marked <- Marked, answer <- found, pending <- Pending

\* The words behave as the set of bits that the handlers' models use: marking
\* and clearing touch one bit, in words and in numbers of bits that are no
\* multiple of 32, and the search returns the first clear bit or -1.
ImplementsBitSet == Set!Spec

\* Every search comes to an answer, on a full bitmap too.
SearchEnds == pc = "search" ~> pc # "search"

=============================================================================

--------------------------- MODULE Bitmap_proofs ---------------------------
(***************************************************************************)
(* For every number of words and bits: the search returns a bit that is    *)
(* clear, and the array of words is the set of bits of BitSet.             *)
(***************************************************************************)
EXTENDS Bitmap, TLAPS

IInv == TypeOK /\ SearchSound

\* What a word and a number within it say of the bit's index.
LEMMA WordOf ==
  ASSUME NEW k \in Bits
  PROVE  /\ k \div 32 \in WordIndex
         /\ k % 32 \in 0 .. 31
         /\ k = 32 * (k \div 32) + (k % 32)
  BY BitmapAssumption DEF Bits, WordIndex

LEMMA SizeFits == 0 .. Size - 1 \subseteq Bits
  BY BitmapAssumption DEF Bits

\* setBitOn and setBitOff change what checkBit says of one bit only.
LEMMA OnMarks ==
  ASSUME NEW B \in [WordIndex -> SUBSET (0 .. 31)], NEW k \in Bits
  PROVE  /\ setBitOn(B, k) \in [WordIndex -> SUBSET (0 .. 31)]
         /\ checkBit(setBitOn(B, k), k) = 1
         /\ \A j \in Bits \ {k} : checkBit(setBitOn(B, k), j) = checkBit(B, j)
<1>1. k \div 32 \in WordIndex /\ k % 32 \in 0 .. 31 /\ k = 32 * (k \div 32) + (k % 32)
  BY WordOf
<1>2. setBitOn(B, k) \in [WordIndex -> SUBSET (0 .. 31)]
  BY <1>1 DEF setBitOn
<1>3. checkBit(setBitOn(B, k), k) = 1
  BY <1>1 DEF setBitOn, checkBit
<1>4. ASSUME NEW j \in Bits \ {k}
      PROVE  checkBit(setBitOn(B, k), j) = checkBit(B, j)
  <2>1. j \div 32 \in WordIndex /\ j % 32 \in 0 .. 31 /\ j = 32 * (j \div 32) + (j % 32)
    BY WordOf
  <2>2. CASE j \div 32 = k \div 32
    <3>1. j % 32 # k % 32
      BY <1>1, <2>1, <2>2
    <3> QED BY <1>1, <2>1, <2>2, <3>1 DEF setBitOn, checkBit
  <2>3. CASE j \div 32 # k \div 32
    BY <1>1, <2>1, <2>3 DEF setBitOn, checkBit
  <2> QED BY <2>2, <2>3
<1> QED BY <1>2, <1>3, <1>4

LEMMA OffClears ==
  ASSUME NEW B \in [WordIndex -> SUBSET (0 .. 31)], NEW k \in Bits
  PROVE  /\ setBitOff(B, k) \in [WordIndex -> SUBSET (0 .. 31)]
         /\ checkBit(setBitOff(B, k), k) = 0
         /\ \A j \in Bits \ {k} : checkBit(setBitOff(B, k), j) = checkBit(B, j)
<1>1. k \div 32 \in WordIndex /\ k % 32 \in 0 .. 31 /\ k = 32 * (k \div 32) + (k % 32)
  BY WordOf
<1>2. setBitOff(B, k) \in [WordIndex -> SUBSET (0 .. 31)]
  BY <1>1 DEF setBitOff
<1>3. checkBit(setBitOff(B, k), k) = 0
  BY <1>1 DEF setBitOff, checkBit
<1>4. ASSUME NEW j \in Bits \ {k}
      PROVE  checkBit(setBitOff(B, k), j) = checkBit(B, j)
  <2>1. j \div 32 \in WordIndex /\ j % 32 \in 0 .. 31 /\ j = 32 * (j \div 32) + (j % 32)
    BY WordOf
  <2>2. CASE j \div 32 = k \div 32
    <3>1. j % 32 # k % 32
      BY <1>1, <2>1, <2>2
    <3> QED BY <1>1, <2>1, <2>2, <3>1 DEF setBitOff, checkBit
  <2>3. CASE j \div 32 # k \div 32
    BY <1>1, <2>1, <2>3 DEF setBitOff, checkBit
  <2> QED BY <2>2, <2>3
<1> QED BY <1>2, <1>3, <1>4

LEMMA CheckIsBit ==
  ASSUME NEW B, NEW k
  PROVE  checkBit(B, k) \in {0, 1}
  BY DEF checkBit

LEMMA InitInv == Init => IInv
<1> SUFFICES ASSUME Init PROVE IInv
  OBVIOUS
<1>1. PICK n \in Filled : A = FirstBits(n)
  BY DEF Init
<1>2. A \in [WordIndex -> SUBSET (0 .. 31)]
  BY <1>1 DEF FirstBits
<1> QED BY <1>2, BitmapAssumption DEF Init, IInv, TypeOK, SearchSound

LEMMA NextInv == IInv /\ [Next]_vars => IInv'
<1> SUFFICES ASSUME IInv, [Next]_vars PROVE IInv'
  OBVIOUS
<1> USE BitmapAssumption DEF IInv, TypeOK
<1>1. CASE FindBegin
  BY <1>1 DEF FindBegin, SearchSound
<1>2. CASE FindStep
  <2>1. \A k \in 0 .. i' - 1 : checkBit(A', k) = 1
    BY <1>2 DEF FindStep, SearchSound
  <2> QED BY <1>2, <2>1 DEF FindStep, SearchSound
<1>3. CASE FindReturn
  <2>1. CASE i < Size /\ checkBit(A, i) = 0 /\ found' = i /\ pc' = "mark"
    BY <1>3, <2>1 DEF FindReturn, SearchSound
  <2>2. CASE i >= Size /\ found' = -1 /\ pc' = "idle"
    BY <1>3, <2>2 DEF FindReturn, SearchSound
  <2> QED BY <1>3, <2>1, <2>2 DEF FindReturn
<1>4. CASE MarkFound
  <2>1. found \in Bits
    BY <1>4, SizeFits DEF MarkFound
  <2>2. A' \in [WordIndex -> SUBSET (0 .. 31)]
    BY <1>4, <2>1, OnMarks DEF MarkFound
  <2> QED BY <1>4, <2>2 DEF MarkFound, SearchSound
<1>5. ASSUME NEW k \in Freed, FreeOne(k) PROVE IInv'
  <2>1. k \in Bits
    BY SizeFits
  <2>2. A' \in [WordIndex -> SUBSET (0 .. 31)]
    BY <1>5, <2>1, OffClears DEF FreeOne
  <2> QED BY <1>5, <2>2 DEF FreeOne, SearchSound
<1>6. CASE UNCHANGED vars
  BY <1>6 DEF vars, SearchSound
<1> QED BY <1>1, <1>2, <1>3, <1>4, <1>5, <1>6 DEF Next

LEMMA Inductive == Spec => []IInv
  BY InitInv, NextInv, PTL DEF Spec

\* For every size the words keep their types, and the search returns -1 or the
\* number of a bit in use.
THEOREM TypeCorrect == Spec => []TypeOK
<1>1. IInv => TypeOK
  BY DEF IInv
<1> QED BY <1>1, Inductive, PTL

\* For every size: what the search passed over is marked and what it returned
\* is not, until its caller marks it.
THEOREM SearchIsSound == Spec => []SearchSound
<1>1. IInv => SearchSound
  BY DEF IInv
<1> QED BY <1>1, Inductive, PTL

-----------------------------------------------------------------------------
(* The words implement the set: each step of the words is a step of the set*)
(* or leaves it alone.                                                     *)

LEMMA InitMaps == Init => Set!Init
  BY DEF Init, Set!Init, Marked, Pending

LEMMA FindBeginMaps == FindBegin => UNCHANGED <<Marked, found, Pending>>
  BY DEF FindBegin, Marked, Pending

LEMMA FindStepMaps == FindStep => UNCHANGED <<Marked, found, Pending>>
  BY DEF FindStep, Marked, Pending

LEMMA FindReturnMaps == IInv /\ FindReturn => Set!Find
<1> SUFFICES ASSUME IInv, FindReturn PROVE Set!Find
  OBVIOUS
<1> USE BitmapAssumption DEF IInv, TypeOK
<1>1. Marked' = Marked /\ Pending = {}
  BY DEF FindReturn, Marked, Pending
<1>2. CASE i < Size /\ checkBit(A, i) = 0 /\ found' = i /\ pc' = "mark"
  <2>1. i \notin Marked
    BY <1>2 DEF Marked
  <2>2. \A j \in 0 .. i - 1 : j \in Marked
    BY <1>2, SizeFits DEF FindReturn, Marked, SearchSound
  <2>3. Pending' = {found'}
    BY <1>2 DEF Pending
  <2> QED BY <1>1, <1>2, <2>1, <2>2, <2>3 DEF Set!Find, Set!IsLeastFree
<1>3. CASE i >= Size /\ found' = -1 /\ pc' = "idle"
  <2>1. 0 .. Size - 1 \subseteq Marked
    BY <1>3, SizeFits DEF FindReturn, Marked, SearchSound
  <2>2. Pending' = {}
    BY <1>3 DEF Pending
  <2> QED BY <1>1, <1>3, <2>1, <2>2 DEF Set!Find
<1> QED BY <1>2, <1>3 DEF FindReturn

LEMMA MarkFoundMaps == IInv /\ MarkFound => Set!Mark
<1> SUFFICES ASSUME IInv, MarkFound PROVE Set!Mark
  OBVIOUS
<1> USE DEF IInv, TypeOK
<1>1. found \in Bits
  BY BitmapAssumption, SizeFits DEF MarkFound
<1>2. /\ checkBit(A', found) = 1
      /\ \A j \in Bits \ {found} : checkBit(A', j) = checkBit(A, j)
  BY <1>1, OnMarks DEF MarkFound
<1>3. Marked' = Marked \cup {found}
  BY <1>1, <1>2 DEF Marked
<1>4. Pending = {found} /\ Pending' = {}
  BY DEF MarkFound, Pending
<1> QED BY <1>3, <1>4 DEF MarkFound, Set!Mark

LEMMA FreeOneMaps ==
  ASSUME IInv, NEW k \in Freed, FreeOne(k)
  PROVE  Set!Clear(k) /\ k \in Bits
<1> USE DEF IInv, TypeOK
<1>1. k \in Bits
  BY BitmapAssumption, SizeFits
<1>2. /\ checkBit(A', k) = 0
      /\ \A j \in Bits \ {k} : checkBit(A', j) = checkBit(A, j)
  BY <1>1, OffClears DEF FreeOne
<1>3. k \in Marked /\ Marked' = Marked \ {k}
  BY <1>1, <1>2 DEF Marked, FreeOne
<1>4. Pending' = Pending
  BY DEF FreeOne, Pending
<1> QED BY <1>1, <1>3, <1>4 DEF FreeOne, Set!Clear

LEMMA StepMaps == IInv /\ [Next]_vars => [Set!Next]_<<Marked, found, Pending>>
<1> SUFFICES ASSUME IInv, [Next]_vars PROVE [Set!Next]_<<Marked, found, Pending>>
  OBVIOUS
<1>1. CASE FindBegin
  BY <1>1, FindBeginMaps
<1>2. CASE FindStep
  BY <1>2, FindStepMaps
<1>3. CASE FindReturn
  BY <1>3, FindReturnMaps DEF Set!Next
<1>4. CASE MarkFound
  BY <1>4, MarkFoundMaps DEF Set!Next
<1>5. ASSUME NEW k \in Freed, FreeOne(k) PROVE Set!Next
  BY <1>5, FreeOneMaps DEF Set!Next
<1>6. CASE UNCHANGED vars
  BY <1>6 DEF vars, Marked, Pending
<1> QED BY <1>1, <1>2, <1>3, <1>4, <1>5, <1>6 DEF Next

\* For every size, marking and clearing in the words change one bit of the set
\* and no other, and the search answers with its least clear bit, or -1.
THEOREM WordsAreSet == Spec => ImplementsBitSet
  BY InitMaps, StepMaps, Inductive, PTL DEF Spec, ImplementsBitSet, Set!Spec, Set!vars

=============================================================================

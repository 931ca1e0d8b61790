------------------------------- MODULE BitSet -------------------------------
(***************************************************************************)
(* What a bitmap promises the handlers: a set of indices, of which one is  *)
(* marked or cleared at a time, and a search for the least index below a   *)
(* bound that is not marked.  Image works on these sets.                   *)
(***************************************************************************)
EXTENDS Integers

CONSTANTS
  Bits, \* the indices
  Size  \* the bound of the search

VARIABLES
  marked,  \* the indices whose bit is 1
  answer,  \* what the last search found; -1 for nothing
  pending  \* the index found, until it is marked

vars == <<marked, answer, pending>>

Init == marked \subseteq Bits /\ answer = -1 /\ pending = {}

IsLeastFree(i) ==
  /\ i \in (0 .. Size - 1) \ marked
  /\ \A j \in 0 .. i - 1 : j \in marked

Find ==
  /\ pending = {}
  /\ \/ IsLeastFree(answer') /\ pending' = {answer'}
     \/ 0 .. Size - 1 \subseteq marked /\ answer' = -1 /\ pending' = {}
  /\ UNCHANGED marked

Mark ==
  /\ pending # {} /\ pending' = {}
  /\ marked' = marked \cup pending
  /\ UNCHANGED answer

Clear(i) ==
  /\ i \in marked
  /\ marked' = marked \ {i}
  /\ UNCHANGED <<answer, pending>>

Next == Find \/ Mark \/ \E i \in Bits : Clear(i)

Spec == Init /\ [][Next]_vars

=============================================================================

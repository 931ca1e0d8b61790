----------------------------- MODULE StableFile -----------------------------
(***************************************************************************)
(* What a user who asks for "sync" may rely on: a file whose blocks only   *)
(* get newer, but for a power failure, which takes back no store older     *)
(* than the last sync that was reported as done.                           *)
(***************************************************************************)
EXTENDS Integers

CONSTANTS Blocks

VARIABLES
  now,   \* per block, the number of the store whose contents a program sees
  floor, \* per block, what the last sync made safe
  cuts   \* how often the power failed

vars == <<now, floor, cuts>>

Init == now = floor /\ cuts = 0

Write ==
  /\ \E b \in Blocks :
       /\ now'[b] > now[b]
       /\ now' = [now EXCEPT ![b] = now'[b]]
  /\ UNCHANGED <<floor, cuts>>

Sync ==
  /\ floor' = now
  /\ UNCHANGED <<now, cuts>>

Cut ==
  /\ cuts' = cuts + 1
  /\ now' = [b \in Blocks |-> now'[b]]
  /\ \A b \in Blocks : floor[b] <= now'[b] /\ now'[b] <= now[b]
  /\ UNCHANGED floor

Next == Write \/ Sync \/ Cut

Spec == Init /\ [][Next]_vars

=============================================================================

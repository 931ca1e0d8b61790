-------------------------- MODULE MCA1fsCrashFrom --------------------------
(***************************************************************************)
(* Instances of A1fsCrash for TLC that start with given calls, so that     *)
(* directories have more entries to move than the calls from a new image   *)
(* would give them; MaxCalls calls of any kind follow.                     *)
(***************************************************************************)
EXTENDS A1fsCrash, TLC

CONSTANTS
  n1, n2, n3, \* names
  Prefix,     \* the first calls: the handler, the directory's inode, the name
  MaxCalls    \* bound on the calls after them

VARIABLE calls \* the calls begun so far

FromVars == <<crashVars, calls>>

Three == {n1, n2, n3}

\* /a, /b and /c in the root, /a a directory.
Wide == << <<"mkdir", 0, n1>>, <<"create", 0, n2>>, <<"create", 0, n3>> >>

BeginThis(c) ==
  /\ call = Idle
  /\ \/ c[1] = "mkdir"  /\ BeginMkdir(c[2], c[3])
     \/ c[1] = "create" /\ BeginCreate(c[2], c[3])

FromInit == CrashInit /\ calls = 0

FromNext ==
  \/ /\ calls < Len(Prefix)
     /\ BeginThis(Prefix[calls + 1])
     /\ calls' = calls + 1
  \/ /\ calls \in Len(Prefix) .. Len(Prefix) + MaxCalls - 1
     /\ BeginCall
     /\ calls' = calls + 1
  \/ (MakeStore \/ Answer \/ MountAgain) /\ UNCHANGED calls

FromSpec == FromInit /\ [][FromNext]_FromVars

=============================================================================

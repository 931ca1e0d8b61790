----------------------------- MODULE MCA1fsFrom -----------------------------
(***************************************************************************)
(* Instances of A1fs for TLC that start with given calls: images too large *)
(* to be explored from the first call on.  After the calls of Prefix, any  *)
(* MaxCalls calls follow.                                                  *)
(***************************************************************************)
EXTENDS A1fs, Sequences, TLC

CONSTANTS
  n1, n2, n3, \* names
  Prefix,   \* the first calls: the handler, the directory's inode, the name
  MaxCalls  \* bound on the calls after them

VARIABLE calls \* the calls so far

FromVars == <<img, ret, hit, calls>>

Three == {n1, n2, n3}
Two   == {n1, n2}

\* /a, /a/a, /a/a/a and /b, all directories: five inodes with root's.
Nested == << <<"mkdir", 0, n1>>, <<"mkdir", 1, n1>>, <<"mkdir", 2, n1>>, <<"mkdir", 0, n2>> >>

\* /b is in the last block of the image, everything before it is free again
\* and then taken by two entries of /b, but for an inode and two blocks: with
\* four slots a block, the next entry of /b is outside the image.
LastBlock == << <<"mkdir", 0, n1>>, <<"create", 1, n1>>, <<"create", 1, n2>>,
                <<"mkdir", 0, n2>>, <<"unlink", 1, n1>>, <<"unlink", 1, n2>>,
                <<"create", 4, n1>>, <<"create", 4, n2>>, <<"rmdir", 0, n1>> >>

Do(call) ==
  \/ call[1] = "mkdir"  /\ Mkdir(call[2], call[3])
  \/ call[1] = "create" /\ Create(call[2], call[3])
  \/ call[1] = "rmdir"  /\ Rmdir(call[2], call[3])
  \/ call[1] = "unlink" /\ Unlink(call[2], call[3])

FromInit == Init /\ calls = 0

FromNext ==
  \/ /\ calls < Len(Prefix)
     /\ Do(Prefix[calls + 1])
     /\ calls' = calls + 1
  \/ /\ calls \in Len(Prefix) .. Len(Prefix) + MaxCalls - 1
     /\ Next
     /\ calls' = calls + 1
  \/ Remount /\ UNCHANGED calls

FromSpec == FromInit /\ [][FromNext]_FromVars

=============================================================================

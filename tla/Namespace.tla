------------------------------ MODULE Namespace ------------------------------
(***************************************************************************)
(* What the five handlers promise their caller: a tree of names.  An edge  *)
(* <<d, n, i>> says that directory d has an entry n for node i.  There is  *)
(* one action per call, for the directory and the name it was given, and   *)
(* it ties the answer to the change: "0" to exactly the call's own, any    *)
(* other answer to none.  The promise holds until the caller is let down   *)
(* (ok is FALSE from then on): the comments in A1fs list when that is.     *)
(***************************************************************************)
CONSTANTS
  Root,
  Nodes, \* what directories and files are told apart by
  Names

VARIABLES
  edges, \* the entries, "." and ".." left out
  dirs,  \* the nodes that are directories
  ok,    \* the caller was never let down
  ret    \* what the last call returned

vars == <<edges, dirs, ok, ret>>

Init == edges = {} /\ dirs = {Root} /\ ok = TRUE /\ ret = "0"

Live     == {Root} \cup {e[3] : e \in edges}
Empty(i) == \A e \in edges : e[1] # i
Named(d, n) == {e \in edges : e[1] = d /\ e[2] = n}

Unchanged == UNCHANGED <<edges, dirs>>

\* mkdir and create add the entry n to d, for a node that was not there, or
\* find no room.
Add(d, n, i) ==
  /\ d \in dirs /\ Named(d, n) = {}
  /\ i \notin Live
  /\ edges' = edges \cup {<<d, n, i>>}

Mkdir(d, n) ==
  ok' => ok /\ \/ ret' = "1" /\ Unchanged
               \/ ret' = "0" /\ \E i \in Nodes : Add(d, n, i) /\ dirs' = dirs \cup {i}

Create(d, n) ==
  ok' => ok /\ \/ ret' = "1" /\ Unchanged
               \/ ret' = "0" /\ \E i \in Nodes \ dirs : Add(d, n, i) /\ dirs' = dirs

\* rmdir takes an empty directory out, and refuses one that is not empty.
Rmdir(d, n) ==
  ok' => ok /\ \E i \in dirs :
    /\ Named(d, n) = {<<d, n, i>>}
    /\ \/ ret' = "-ENOTEMPTY" /\ ~ Empty(i) /\ Unchanged
       \/ /\ ret' = "0" /\ Empty(i)
          /\ edges' = edges \ {<<d, n, i>>}
          /\ dirs' = dirs \ {i}

\* unlink takes a file out.
Unlink(d, n) ==
  ok' => ok /\ \E i \in Nodes \ dirs :
    /\ Named(d, n) = {<<d, n, i>>}
    /\ ret' = "0"
    /\ edges' = edges \ {<<d, n, i>>}
    /\ dirs' = dirs

\* rename gives the node of entry n of d the name m in another directory e, in
\* place of an empty node of the same kind if e has one by that name; or the
\* process dies before it changes anything.
Rename(d, n, e, m) ==
  ok' => ok /\
    \/ ret' = "SIGSEGV" /\ Unchanged
    \/ /\ ret' = "0"
       /\ e \in dirs \ {d}
       /\ \E i \in Nodes :
            LET old == Named(e, m)
            IN  /\ Named(d, n) = {<<d, n, i>>}
                /\ \A o \in old : Empty(o[3]) /\ (o[3] \in dirs <=> i \in dirs)
                /\ edges' = (edges \ (old \cup {<<d, n, i>>})) \cup {<<e, m, i>>}
                /\ dirs' = dirs \ {o[3] : o \in old}

\* Being mounted again changes nothing.
Remount == ok' => ok /\ ret' = "0" /\ Unchanged

Next ==
  \/ \E d \in dirs, n \in Names :
       Mkdir(d, n) \/ Create(d, n) \/ Rmdir(d, n) \/ Unlink(d, n)
  \/ \E d, e \in dirs, n, m \in Names : Rename(d, n, e, m)
  \/ Remount

Spec == Init /\ [][Next]_vars

=============================================================================

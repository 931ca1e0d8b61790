-------------------------- MODULE PathWalk_proofs --------------------------
(* That every walk finds what the tree of names has, and that the walks     *)
(* agree, for every size of the image, every spelling and every path.       *)
EXTENDS PathWalk, Intact_proofs, WellFoundedInduction, SequenceTheorems

-----------------------------------------------------------------------------
(* Induction and loops.                                                    *)

\* A set of numbers that is not empty has a least one.
LEMMA LeastOf ==
  ASSUME NEW T \in SUBSET Nat, T # {}
  PROVE  \E n \in T : \A k \in T : n <= k
<1>1. PICK n \in T : \A k \in T : ~ (<<k, n>> \in OpToRel(<, Nat))
  BY NatLessThanWellFounded, WFMin
<1>2. \A k \in T : ~ (k < n)
  BY <1>1 DEF OpToRel
<1> QED BY <1>2

\* Induction up to n, with a set in place of the predicate.
LEMMA UpTo ==
  ASSUME NEW n \in Nat, NEW T, 0 \in T, \A k \in 0 .. n - 1 : k \in T => k + 1 \in T
  PROVE  \A k \in 0 .. n : k \in T
<1> DEFINE U == {k \in 0 .. n : k \notin T}
<1> SUFFICES ASSUME U # {} PROVE FALSE
  OBVIOUS
<1>1. PICK m \in U : \A k \in U : m <= k
  <2>1. U \in SUBSET Nat
    OBVIOUS
  <2> HIDE DEF U
  <2> QED BY <2>1, LeastOf
<1>2. m # 0 /\ m - 1 \in 0 .. n - 1 /\ m - 1 \notin U
  BY <1>1
<1>3. m - 1 \in T
  BY <1>2
<1>4. (m - 1) + 1 \in T
  BY <1>2, <1>3
<1>5. (m - 1) + 1 = m
  BY <1>1
<1> QED BY <1>1, <1>4, <1>5

\* g is what a loop of n turns, with body h[k] in turn k, makes of a.
Loops(g, n, A, a, h) ==
  /\ g = [k \in 0 .. n |-> g[k]]
  /\ g[0] = a
  /\ \A k \in 1 .. n : g[k] = h[k][g[k - 1]] /\ g[k - 1] \in A

\* There is such a g.
LEMMA LoopRuns ==
  ASSUME NEW n \in Nat, NEW A, NEW a \in A, NEW h \in [1 .. n -> [A -> A]]
  PROVE  \E g : Loops(g, n, A, a, h)
<1> DEFINE Runs(m, g) == g[0] = a /\ \A k \in 1 .. m : g[k] = h[k][g[k - 1]]
           T == {m \in 0 .. n : \E g \in [0 .. n -> A] : Runs(m, g)}
<1>1. 0 \in T
  <2>1. [k \in 0 .. n |-> a] \in [0 .. n -> A] /\ Runs(0, [k \in 0 .. n |-> a])
    OBVIOUS
  <2> HIDE DEF Runs
  <2>2. \E g \in [0 .. n -> A] : Runs(0, g)
    BY <2>1
  <2> QED BY <2>2
<1>2. ASSUME NEW m \in 0 .. n - 1, m \in T
      PROVE  m + 1 \in T
  <2>1. PICK g \in [0 .. n -> A] : Runs(m, g)
    BY <1>2
  <2> DEFINE f == [g EXCEPT ![m + 1] = h[m + 1][g[m]]]
  <2>2. m + 1 \in 1 .. n /\ m \in 0 .. n /\ m + 1 \in 0 .. n
    OBVIOUS
  <2>3. f \in [0 .. n -> A]
    BY <2>2
  <2>4. Runs(m + 1, f)
    <3>1. f[0] = a
      BY <2>1
    <3>2. ASSUME NEW k \in 1 .. m + 1, k # m + 1
          PROVE  f[k] = h[k][f[k - 1]]
      <4>1. k \in 1 .. m /\ f[k] = g[k] /\ f[k - 1] = g[k - 1]
        BY <3>2
      <4> QED BY <2>1, <4>1
    <3>3. f[m + 1] = h[m + 1][f[(m + 1) - 1]]
      <4>1. (m + 1) - 1 = m /\ f[m] = g[m] /\ f[m + 1] = h[m + 1][g[m]]
        BY <2>2
      <4> QED BY <4>1
    <3> QED BY <3>1, <3>2, <3>3
  <2> HIDE DEF f, Runs
  <2>5. \E u \in [0 .. n -> A] : Runs(m + 1, u)
    BY <2>3, <2>4
  <2> QED BY <2>2, <2>5
<1>3. n \in T
  <2>1. \A m \in 0 .. n - 1 : m \in T => m + 1 \in T
    BY <1>2
  <2> HIDE DEF T
  <2>2. \A m \in 0 .. n : m \in T
    BY <1>1, <2>1, UpTo
  <2> QED BY <2>2
<1>4. PICK g \in [0 .. n -> A] : Runs(n, g)
  BY <1>3
<1>5. g = [k \in 0 .. n |-> g[k]] /\ \A k \in 1 .. n : k - 1 \in 0 .. n
  OBVIOUS
<1>6. \A k \in 1 .. n : g[k - 1] \in A
  BY <1>5
<1> QED BY <1>4, <1>5, <1>6 DEF Loops

-----------------------------------------------------------------------------
(* A path as its names spell it.                                           *)

\* q[k] is the path of the first k names of ns.
Prefixes(q, ns) ==
  /\ q[0] = <<>>
  /\ \A k \in 1 .. Len(ns) : q[k] = q[k - 1] \o <<"/">> \o Spelling[ns[k]]

\* The characters of a path.
PathChars == Chars \cup {"/"}

\* What the assumptions say of a spelling.
LEMMA Spellings ==
  /\ \A n \in Names : /\ Spelling[n] \in Seq(PathChars)
                      /\ Len(Spelling[n]) \in Nat \ {0}
                      /\ \A x \in 1 .. Len(Spelling[n]) : Spelling[n][x] # "/"
  /\ <<"/">> \in Seq(PathChars)
<1>1. ASSUME NEW n \in Names
      PROVE  /\ Spelling[n] \in Seq(PathChars)
             /\ Len(Spelling[n]) \in Nat \ {0}
             /\ \A x \in 1 .. Len(Spelling[n]) : Spelling[n][x] # "/"
  <2>1. Spelling[n] \in Seq(Chars) /\ Spelling[n] # <<>> /\ "/" \notin Chars
    BY SpellingAssumption
  <2>2. Spelling[n] \in Seq(PathChars)
    BY <2>1, SeqMonotonic DEF PathChars
  <2> QED BY <2>1, <2>2, EmptySeq
<1>2. "/" \in PathChars
  BY DEF PathChars
<1> QED BY <1>1, <1>2

\* PathOf adds the names one by one.
LEMMA PathRuns ==
  ASSUME NEW ns \in Seq(Names)
  PROVE  \E q : Prefixes(q, ns) /\ (ns # <<>> => PathOf(ns) = q[Len(ns)])
<1> DEFINE n == Len(ns)
           Body(k, w) == w \o <<"/">> \o Spelling[ns[k]]
           Eq(f) == f = [k \in 0 .. n |-> IF k = 0 THEN <<>> ELSE Body(k, f[k - 1])]
           after == CHOOSE f : Eq(f)
           A == Seq(PathChars)
           h == [k \in 1 .. n |-> [w \in A |-> Body(k, w)]]
<1>1. n \in Nat /\ <<>> \in A /\ h \in [1 .. n -> [A -> A]]
  <2>1. ASSUME NEW k \in 1 .. n, NEW w \in A PROVE Body(k, w) \in A
    <3>1. ns[k] \in Names
      OBVIOUS
    <3>2. /\ w \in Seq(PathChars) /\ <<"/">> \in Seq(PathChars)
          /\ Spelling[ns[k]] \in Seq(PathChars)
      BY <3>1, Spellings
    <3>3. w \o <<"/">> \in Seq(PathChars)
      BY <3>2, ConcatProperties
    <3> QED BY <3>2, <3>3, ConcatProperties
  <2> HIDE DEF Body
  <2> QED BY <2>1
<1>2. PICK g : Loops(g, n, A, <<>>, h)
  <2> HIDE DEF h, n, A
  <2> QED BY <1>1, LoopRuns
<1>3. Eq(g)
  <2>1. ASSUME NEW k \in 1 .. n
        PROVE  g[k] = Body(k, g[k - 1])
    <3>1. g[k] = h[k][g[k - 1]] /\ g[k - 1] \in A
      BY <1>2 DEF Loops
    <3> HIDE DEF Body
    <3> QED BY <3>1
  <2>2. g = [k \in 0 .. n |-> g[k]] /\ g[0] = <<>>
    BY <1>2 DEF Loops
  <2> HIDE DEF Body
  <2> QED BY <1>1, <2>1, <2>2
<1>4. Eq(after)
  <2> HIDE DEF Eq
  <2> QED BY <1>3
<1>5. after[0] = <<>> /\ \A k \in 1 .. n : after[k] = Body(k, after[k - 1])
  <2> HIDE DEF after, Body
  <2> QED BY <1>1, <1>4
<1>6. ns # <<>> => PathOf(ns) = after[n]
  BY DEF PathOf, Fold
<1> HIDE DEF after
<1> QED BY <1>5, <1>6 DEF Prefixes

\* r is path p and one more name, spelled t.
Continues(r, p, t) ==
  /\ Len(r) = Len(p) + 1 + Len(t)
  /\ \A x \in 1 .. Len(p) : r[x] = p[x]
  /\ r[Len(p) + 1] = "/"
  /\ \A o \in 1 .. Len(t) : r[Len(p) + 1 + o] = t[o]

\* So does each step of PathOf.
LEMMA OneName ==
  ASSUME NEW ns \in Seq(Names), NEW q, Prefixes(q, ns), NEW k \in 1 .. Len(ns),
         q[k - 1] \in Seq(PathChars)
  PROVE  q[k] \in Seq(PathChars) /\ Continues(q[k], q[k - 1], Spelling[ns[k]])
<1> DEFINE b == Len(q[k - 1])
           t == Spelling[ns[k]]
           r == q[k - 1] \o <<"/">>
<1>1. t \in Seq(PathChars) /\ Len(t) \in Nat /\ b \in Nat /\ <<"/">> \in Seq(PathChars)
  <2>1. ns[k] \in Names
    OBVIOUS
  <2> QED BY <2>1, Spellings
<1>2. q[k] = r \o t
  BY DEF Prefixes
<1>3. /\ r \in Seq(PathChars) /\ Len(r) = b + 1
      /\ \A x \in 1 .. b : r[x] = q[k - 1][x]
      /\ r[b + 1] = "/"
  BY <1>1, ConcatProperties
<1> HIDE DEF r, t, b
<1>4. /\ r \o t \in Seq(PathChars) /\ Len(r \o t) = b + 1 + Len(t)
      /\ \A x \in 1 .. b + 1 : (r \o t)[x] = r[x]
      /\ \A o \in 1 .. Len(t) : (r \o t)[b + 1 + o] = t[o]
  <2>1. /\ r \o t \in Seq(PathChars) /\ Len(r \o t) = Len(r) + Len(t)
        /\ \A x \in 1 .. Len(r) + Len(t) :
             (r \o t)[x] = IF x <= Len(r) THEN r[x] ELSE t[x - Len(r)]
    BY <1>1, <1>3, ConcatProperties
  <2>2. ASSUME NEW o \in 1 .. Len(t)
        PROVE  (r \o t)[b + 1 + o] = t[o]
    <3>1. b + 1 + o \in 1 .. Len(r) + Len(t) /\ ~ (b + 1 + o <= Len(r))
          /\ (b + 1 + o) - Len(r) = o
      BY <1>1, <1>3
    <3> QED BY <2>1, <3>1
  <2> QED BY <1>1, <1>3, <2>1, <2>2
<1>5. \A x \in 1 .. b : (r \o t)[x] = q[k - 1][x]
  <2>1. \A x \in 1 .. b : x \in 1 .. b + 1
    BY <1>1
  <2> QED BY <1>3, <1>4, <2>1
<1>6. (r \o t)[b + 1] = "/"
  <2>1. b + 1 \in 1 .. b + 1
    BY <1>1
  <2> QED BY <1>3, <1>4, <2>1
<1>7. /\ q[k] \in Seq(PathChars) /\ Len(q[k]) = b + 1 + Len(t)
      /\ \A x \in 1 .. b : q[k][x] = q[k - 1][x]
      /\ q[k][b + 1] = "/"
      /\ \A o \in 1 .. Len(t) : q[k][b + 1 + o] = t[o]
  BY <1>2, <1>4, <1>5, <1>6
<1> QED BY <1>7 DEF t, b, Continues

\* All are sequences of characters.
LEMMA PrefixChars ==
  ASSUME NEW ns \in Seq(Names), NEW q, Prefixes(q, ns)
  PROVE  \A k \in 0 .. Len(ns) : q[k] \in Seq(PathChars) /\ Len(q[k]) \in Nat
<1> DEFINE T == {k \in 0 .. Len(ns) : q[k] \in Seq(PathChars)}
<1>1. 0 \in T /\ Len(ns) \in Nat
  <2>1. Len(ns) \in Nat
    OBVIOUS
  <2>2. q[0] \in Seq(PathChars)
    <3>1. q[0] = <<>>
      BY DEF Prefixes
    <3> QED BY <3>1
  <2>3. 0 \in 0 .. Len(ns)
    BY <2>1
  <2> QED BY <2>1, <2>2, <2>3
<1>2. ASSUME NEW k \in 0 .. Len(ns) - 1, k \in T
      PROVE  k + 1 \in T
  <2>1. k + 1 \in 1 .. Len(ns) /\ (k + 1) - 1 = k
    BY <1>1
  <2>2. q[k + 1] \in Seq(PathChars)
    BY <1>2, <2>1, OneName
  <2> QED BY <2>1, <2>2
<1>3. \A k \in 0 .. Len(ns) - 1 : k \in T => k + 1 \in T
  BY <1>2
<1>4. \A k \in 0 .. Len(ns) : k \in T
  <2> HIDE DEF T
  <2> QED BY <1>1, <1>3, UpTo
<1> QED BY <1>4

\* The path begins with each of them.
LEMMA PathBegins ==
  ASSUME NEW ns \in Seq(Names), NEW q, Prefixes(q, ns)
  PROVE  \A k \in 0 .. Len(ns) :
           /\ Len(q[k]) <= Len(q[Len(ns)])
           /\ \A x \in 1 .. Len(q[k]) : q[Len(ns)][x] = q[k][x]
<1> DEFINE n == Len(ns)
           Begins(k) == /\ Len(q[k]) <= Len(q[n])
                        /\ \A x \in 1 .. Len(q[k]) : q[n][x] = q[k][x]
           T == {j \in 0 .. n : Begins(n - j)}
<1>1. n \in Nat /\ \A k \in 0 .. n : q[k] \in Seq(PathChars) /\ Len(q[k]) \in Nat
  BY PrefixChars
<1> HIDE DEF n
<1>2. 0 \in T
  BY <1>1
<1>3. ASSUME NEW j \in 0 .. n - 1, j \in T
      PROVE  j + 1 \in T
  <2> DEFINE k == n - j
  <2>1. k \in 1 .. n /\ k \in 0 .. n /\ k - 1 \in 0 .. n /\ n - (j + 1) = k - 1 /\ j + 1 \in 0 .. n
    BY <1>1
  <2>2. Begins(k)
    BY <1>3
  <2> HIDE DEF k
  <2>3. Len(q[k - 1]) <= Len(q[k]) /\ \A x \in 1 .. Len(q[k - 1]) : q[k][x] = q[k - 1][x]
    <3>1. ns[k] \in Names
      BY <2>1 DEF n
    <3>2. Len(Spelling[ns[k]]) \in Nat
      BY <3>1, Spellings
    <3>3. q[k - 1] \in Seq(PathChars) /\ Len(q[k - 1]) \in Nat
      BY <1>1, <2>1
    <3>4. Continues(q[k], q[k - 1], Spelling[ns[k]])
      BY <2>1, <3>3, OneName DEF n
    <3>5. Len(q[k]) = Len(q[k - 1]) + 1 + Len(Spelling[ns[k]])
          /\ \A x \in 1 .. Len(q[k - 1]) : q[k][x] = q[k - 1][x]
      BY <3>4 DEF Continues
    <3>6. \A a, b \in Nat : a <= a + 1 + b
      OBVIOUS
    <3>7. Len(q[k - 1]) <= Len(q[k])
      BY <3>2, <3>3, <3>5, <3>6
    <3> QED BY <3>5, <3>7
  <2>4. Begins(k - 1)
    BY <1>1, <2>1, <2>2, <2>3
  <2> QED BY <2>1, <2>4
<1>4. \A j \in 0 .. n - 1 : j \in T => j + 1 \in T
  BY <1>3
<1>5. \A j \in 0 .. n : j \in T
  <2> HIDE DEF T
  <2> QED BY <1>1, <1>2, <1>4, UpTo
<1>6. ASSUME NEW k \in 0 .. n
      PROVE  Begins(k)
  <2>1. n - k \in 0 .. n /\ n - (n - k) = k
    BY <1>1
  <2>2. n - k \in T
    BY <1>5, <2>1
  <2> QED BY <2>1, <2>2
<1> QED BY <1>6 DEF n

\* p is a path of names ns, and its first k names fill e[k] characters.
Spells(p, e, ns) ==
  /\ p \in Seq(PathChars)
  /\ e[0] = 0 /\ e[Len(ns)] = Len(p)
  /\ \A k \in 0 .. Len(ns) : e[k] \in 0 .. Len(p)
  /\ \A k \in 1 .. Len(ns) :
       /\ e[k] = e[k - 1] + 1 + Len(Spelling[ns[k]])
       /\ p[e[k - 1] + 1] = "/"
       /\ \A o \in 1 .. Len(Spelling[ns[k]]) : p[e[k - 1] + 1 + o] = Spelling[ns[k]][o]

\* PathOf gives such a path, and the same characters for the first names.
LEMMA PathSpells ==
  ASSUME NEW ns \in Seq(Names), NEW q, Prefixes(q, ns)
  PROVE  LET e == [k \in 0 .. Len(ns) |-> Len(q[k])]
         IN  /\ Spells(q[Len(ns)], e, ns)
             /\ \A k \in 0 .. Len(ns) : SubSeq(q[Len(ns)], 1, e[k]) = q[k]
<1> DEFINE n == Len(ns)
           p == q[n]
           e == [k \in 0 .. n |-> Len(q[k])]
<1>1. n \in Nat /\ \A k \in 0 .. n : q[k] \in Seq(PathChars) /\ Len(q[k]) \in Nat
  BY PrefixChars
<1>2. \A k \in 0 .. n : Len(q[k]) <= Len(p) /\ \A x \in 1 .. Len(q[k]) : p[x] = q[k][x]
  BY PathBegins
<1> HIDE DEF n
<1>3. q[0] = <<>> /\ Len(q[0]) = 0
  BY DEF Prefixes
<1> HIDE DEF p
<1>4. p \in Seq(PathChars) /\ Len(p) \in Nat
  BY <1>1 DEF p
<1>5. ASSUME NEW k \in 1 .. n
      PROVE  /\ e[k] = e[k - 1] + 1 + Len(Spelling[ns[k]])
             /\ p[e[k - 1] + 1] = "/"
             /\ \A o \in 1 .. Len(Spelling[ns[k]]) :
                  p[e[k - 1] + 1 + o] = Spelling[ns[k]][o]
  <2>1. k \in 0 .. n /\ k - 1 \in 0 .. n
    BY <1>1
  <2> DEFINE b == Len(q[k - 1])
             t == Spelling[ns[k]]
  <2>2. b \in Nat /\ Len(t) \in Nat /\ e[k] = Len(q[k]) /\ e[k - 1] = b
    <3>1. ns[k] \in Names
      BY DEF n
    <3> QED BY <1>1, <2>1, <3>1, Spellings
  <2>3. /\ Len(q[k]) = b + 1 + Len(t)
        /\ q[k][b + 1] = "/"
        /\ \A o \in 1 .. Len(t) : q[k][b + 1 + o] = t[o]
    <3>1. q[k - 1] \in Seq(PathChars)
      BY <1>1, <2>1
    <3>2. Continues(q[k], q[k - 1], Spelling[ns[k]])
      BY <2>1, <3>1, OneName DEF n
    <3> QED BY <3>2 DEF Continues
  <2> HIDE DEF b, t, e
  <2>4. b + 1 \in 1 .. Len(q[k]) /\ \A o \in 1 .. Len(t) : b + 1 + o \in 1 .. Len(q[k])
    BY <2>2, <2>3
  <2>5. \A x \in 1 .. Len(q[k]) : p[x] = q[k][x]
    BY <1>2, <2>1
  <2> QED BY <2>2, <2>3, <2>4, <2>5 DEF t
<1>6. ASSUME NEW k \in 0 .. n
      PROVE  SubSeq(p, 1, e[k]) = q[k] /\ e[k] \in 0 .. Len(p)
  <2>1. e[k] = Len(q[k]) /\ e[k] \in 0 .. Len(p)
    BY <1>1, <1>2, <1>4
  <2> HIDE DEF e
  <2>2. \A x \in 1 .. e[k] : p[x] = q[k][x] /\ p[x] \in PathChars
    BY <1>2, <1>4, <2>1
  <2>3. /\ SubSeq(p, 1, e[k]) \in Seq(PathChars)
        /\ Len(SubSeq(p, 1, e[k])) = e[k]
        /\ \A x \in 1 .. e[k] : SubSeq(p, 1, e[k])[x] = p[x]
    BY <2>1, <2>2, <1>4, SubSeqProperties
  <2>4. q[k] \in Seq(PathChars)
    BY <1>1
  <2> QED BY <2>1, <2>2, <2>3, <2>4, SeqEqual
<1>7. e[0] = 0 /\ e[n] = Len(p)
  BY <1>1, <1>3 DEF p
<1> HIDE DEF e
<1> QED BY <1>4, <1>5, <1>6, <1>7 DEF Spells, n, p, e

-----------------------------------------------------------------------------
(* The loops along a path, turn by turn.                                   *)

\* The state of a loop that copies, before and after the last "/".
Before(count, out) == Copy(count, FALSE, out)
After(count, out) == Copy(count, TRUE, out)

\* g[l] is the state after l characters of p.
UpToLastRun(g, p, total) ==
  g[0] = Before(0, <<>>) /\ \A k \in 1 .. Len(p) : g[k] = UpToLast(total, g[k - 1], p[k])

AfterLastRun(g, p, total) ==
  g[0] = Before(0, <<>>) /\ \A k \in 1 .. Len(p) : g[k] = AfterLast(total, g[k - 1], p[k])

\* The state of strtok's calls, at a "/" and in a component.
Between(out) == [cut |-> TRUE, out |-> out]
Within(out) == [cut |-> FALSE, out |-> out]

TokenRun(g, p) ==
  g[0] = Between(<<>>) /\ \A k \in 1 .. Len(p) : g[k] = Tokenize(g[k - 1], p[k])

\* The loop of num_entry_name.
LEMMA SlashRuns ==
  ASSUME NEW p \in Seq(PathChars), Len(p) > 1
  PROVE  \E g : /\ g[0] = 1
              /\ \A k \in 1 .. Len(p) - 1 : g[k] = g[k - 1] + Slash(Tail(p)[k])
              /\ num_entry_name(p) = g[Len(p) - 1]
<1> DEFINE n == Len(p) - 1
           Body(k, w) == w + Slash(Tail(p)[k])
           first == 1
           Eq(f) == f = [k \in 0 .. n |-> IF k = 0 THEN first ELSE Body(k, f[k - 1])]
           after == CHOOSE f : Eq(f)
           A == Nat
           h == [k \in 1 .. n |-> [w \in A |-> Body(k, w)]]
<1>1. n \in Nat /\ first \in A /\ h \in [1 .. n -> [A -> A]]
  BY DEF Slash
<1>2. PICK g : Loops(g, n, A, first, h)
  <2> HIDE DEF h, n, A, first
  <2> QED BY <1>1, LoopRuns
<1>3. Eq(g)
  <2>1. ASSUME NEW k \in 1 .. n
        PROVE  g[k] = Body(k, g[k - 1])
    <3>1. g[k] = h[k][g[k - 1]] /\ g[k - 1] \in A
      BY <1>2 DEF Loops
    <3> HIDE DEF Body, A, n
    <3> QED BY <3>1
  <2>2. g = [k \in 0 .. n |-> g[k]] /\ g[0] = first
    BY <1>2 DEF Loops
  <2> HIDE DEF Body, first, n, h, A
  <2>3. ASSUME NEW k \in 0 .. n
        PROVE  g[k] = IF k = 0 THEN first ELSE Body(k, g[k - 1])
    <3>1. k = 0 \/ k \in 1 .. n
      BY <1>1
    <3> QED BY <2>1, <2>2, <3>1
  <2>4. [k \in 0 .. n |-> g[k]] = [k \in 0 .. n |-> IF k = 0 THEN first ELSE Body(k, g[k - 1])]
    BY <2>3
  <2> QED BY <2>2, <2>4
<1>4. Eq(after)
  <2> HIDE DEF Eq
  <2> QED BY <1>3
<1>5. after[0] = first /\ \A k \in 1 .. n : after[k] = Body(k, after[k - 1])
  <2> HIDE DEF after, Body, first, n, h, A
  <2> QED BY <1>1, <1>4
<1>6. num_entry_name(p) = after[n]
  <2>1. Len(Tail(p)) = Len(p) - 1 /\ ~ (Len(p) <= 1)
    BY HeadTailProperties, EmptySeq
  <2> QED BY <2>1 DEF num_entry_name, Fold
<1> HIDE DEF after
<1> QED BY <1>5, <1>6

\* The loop of get_parent_path.
LEMMA ParentRuns ==
  ASSUME NEW p \in Seq(PathChars), NEW total, total = num_entry_name(p), total # 1
  PROVE  \E g : UpToLastRun(g, p, total) /\ get_parent_path(p) = g[Len(p)].out
<1> DEFINE n == Len(p)
           Body(k, w) == UpToLast(total, w, p[k])
           first == Before(0, <<>>)
           Eq(f) == f = [k \in 0 .. n |-> IF k = 0 THEN first ELSE Body(k, f[k - 1])]
           after == CHOOSE f : Eq(f)
           A == [count : Nat, done : BOOLEAN, out : Seq(PathChars)]
           h == [k \in 1 .. n |-> [w \in A |-> Body(k, w)]]
<1>1. n \in Nat /\ first \in A /\ h \in [1 .. n -> [A -> A]]
  <2>0. first \in A
    BY DEF Before, Copy
  <2>1. ASSUME NEW k \in 1 .. n, NEW w \in A PROVE Body(k, w) \in A
    <3>1. p[k] \in PathChars /\ Slash(p[k]) \in Nat
      BY DEF Slash
    <3>2. Append(w.out, p[k]) \in Seq(PathChars)
      BY <3>1
    <3> QED BY <3>1, <3>2 DEF UpToLast, Copy
  <2> HIDE DEF Body, A, first
  <2>2. h \in [1 .. n -> [A -> A]]
    BY <2>1
  <2>3. n \in Nat
    OBVIOUS
  <2> QED BY <2>0, <2>2, <2>3
<1>2. PICK g : Loops(g, n, A, first, h)
  <2> HIDE DEF h, n, A, first
  <2> QED BY <1>1, LoopRuns
<1>3. Eq(g)
  <2>1. ASSUME NEW k \in 1 .. n
        PROVE  g[k] = Body(k, g[k - 1])
    <3>1. g[k] = h[k][g[k - 1]] /\ g[k - 1] \in A
      BY <1>2 DEF Loops
    <3> HIDE DEF Body, A, n
    <3> QED BY <3>1
  <2>2. g = [k \in 0 .. n |-> g[k]] /\ g[0] = first
    BY <1>2 DEF Loops
  <2> HIDE DEF Body, first, n, h, A
  <2>3. ASSUME NEW k \in 0 .. n
        PROVE  g[k] = IF k = 0 THEN first ELSE Body(k, g[k - 1])
    <3>1. k = 0 \/ k \in 1 .. n
      BY <1>1
    <3> QED BY <2>1, <2>2, <3>1
  <2>4. [k \in 0 .. n |-> g[k]] = [k \in 0 .. n |-> IF k = 0 THEN first ELSE Body(k, g[k - 1])]
    BY <2>3
  <2> QED BY <2>2, <2>4
<1>4. Eq(after)
  <2> HIDE DEF Eq
  <2> QED BY <1>3
<1>5. after[0] = first /\ \A k \in 1 .. n : after[k] = Body(k, after[k - 1])
  <2> HIDE DEF after, Body, first, n, h, A
  <2> QED BY <1>1, <1>4
<1>6. get_parent_path(p) = after[n].out
  BY DEF get_parent_path, Fold, Before
<1> HIDE DEF after
<1> QED BY <1>5, <1>6 DEF UpToLastRun

\* The loop of get_last_entry.
LEMMA LastRuns ==
  ASSUME NEW p \in Seq(PathChars), NEW total, total = num_entry_name(p)
  PROVE  \E g : AfterLastRun(g, p, total) /\ get_last_entry(p) = g[Len(p)].out
<1> DEFINE n == Len(p)
           Body(k, w) == AfterLast(total, w, p[k])
           first == Before(0, <<>>)
           Eq(f) == f = [k \in 0 .. n |-> IF k = 0 THEN first ELSE Body(k, f[k - 1])]
           after == CHOOSE f : Eq(f)
           A == [count : Nat, done : BOOLEAN, out : Seq(PathChars)]
           h == [k \in 1 .. n |-> [w \in A |-> Body(k, w)]]
<1>1. n \in Nat /\ first \in A /\ h \in [1 .. n -> [A -> A]]
  <2>0. first \in A
    BY DEF Before, Copy
  <2>1. ASSUME NEW k \in 1 .. n, NEW w \in A PROVE Body(k, w) \in A
    <3>1. p[k] \in PathChars /\ Slash(p[k]) \in Nat
      BY DEF Slash
    <3>2. Append(w.out, p[k]) \in Seq(PathChars)
      BY <3>1
    <3> QED BY <3>1, <3>2 DEF AfterLast, Copy
  <2> HIDE DEF Body, A, first
  <2>2. h \in [1 .. n -> [A -> A]]
    BY <2>1
  <2>3. n \in Nat
    OBVIOUS
  <2> QED BY <2>0, <2>2, <2>3
<1>2. PICK g : Loops(g, n, A, first, h)
  <2> HIDE DEF h, n, A, first
  <2> QED BY <1>1, LoopRuns
<1>3. Eq(g)
  <2>1. ASSUME NEW k \in 1 .. n
        PROVE  g[k] = Body(k, g[k - 1])
    <3>1. g[k] = h[k][g[k - 1]] /\ g[k - 1] \in A
      BY <1>2 DEF Loops
    <3> HIDE DEF Body, A, n
    <3> QED BY <3>1
  <2>2. g = [k \in 0 .. n |-> g[k]] /\ g[0] = first
    BY <1>2 DEF Loops
  <2> HIDE DEF Body, first, n, h, A
  <2>3. ASSUME NEW k \in 0 .. n
        PROVE  g[k] = IF k = 0 THEN first ELSE Body(k, g[k - 1])
    <3>1. k = 0 \/ k \in 1 .. n
      BY <1>1
    <3> QED BY <2>1, <2>2, <3>1
  <2>4. [k \in 0 .. n |-> g[k]] = [k \in 0 .. n |-> IF k = 0 THEN first ELSE Body(k, g[k - 1])]
    BY <2>3
  <2> QED BY <2>2, <2>4
<1>4. Eq(after)
  <2> HIDE DEF Eq
  <2> QED BY <1>3
<1>5. after[0] = first /\ \A k \in 1 .. n : after[k] = Body(k, after[k - 1])
  <2> HIDE DEF after, Body, first, n, h, A
  <2> QED BY <1>1, <1>4
<1>6. get_last_entry(p) = after[n].out
  BY DEF get_last_entry, Fold, Before
<1> HIDE DEF after
<1> QED BY <1>5, <1>6 DEF AfterLastRun

\* The calls of strtok.
LEMMA TokenRuns ==
  ASSUME NEW p \in Seq(PathChars)
  PROVE  \E g : TokenRun(g, p) /\ Tokens(p) = g[Len(p)].out
<1> DEFINE n == Len(p)
           Body(k, w) == Tokenize(w, p[k])
           first == Between(<<>>)
           Eq(f) == f = [k \in 0 .. n |-> IF k = 0 THEN first ELSE Body(k, f[k - 1])]
           after == CHOOSE f : Eq(f)
           A == [cut : BOOLEAN, out : Seq(Seq(PathChars))]
           h == [k \in 1 .. n |-> [w \in A |-> Body(k, w)]]
<1>1. n \in Nat /\ first \in A /\ h \in [1 .. n -> [A -> A]]
  <2>0. first \in A
    BY DEF Between
  <2>1. ASSUME NEW k \in 1 .. n, NEW w \in A PROVE Body(k, w) \in A
    <3>1. p[k] \in PathChars /\ <<p[k]>> \in Seq(PathChars)
      OBVIOUS
    <3>2. w.out \in Seq(Seq(PathChars)) /\ Append(w.out, <<p[k]>>) \in Seq(Seq(PathChars))
      BY <3>1
    <3>3. [w.out EXCEPT ![Len(w.out)] = Append(@, p[k])] \in Seq(Seq(PathChars))
      <4>1. CASE Len(w.out) \in 1 .. Len(w.out)
        <5>1. Append(w.out[Len(w.out)], p[k]) \in Seq(PathChars)
          BY <3>1, <3>2, <4>1
        <5> QED BY <3>2, <4>1, <5>1, ExceptSeq
      <4>2. CASE Len(w.out) \notin 1 .. Len(w.out)
        <5>1. [w.out EXCEPT ![Len(w.out)] = Append(@, p[k])] = w.out
          BY <3>2, <4>2
        <5> QED BY <3>2, <5>1
      <4> QED BY <4>1, <4>2
    <3> QED BY <3>1, <3>2, <3>3 DEF Tokenize
  <2> HIDE DEF Body, first, A
  <2>2. h \in [1 .. n -> [A -> A]]
    BY <2>1
  <2>3. n \in Nat
    OBVIOUS
  <2> QED BY <2>0, <2>2, <2>3
<1>2. PICK g : Loops(g, n, A, first, h)
  <2> HIDE DEF h, n, A, first
  <2> QED BY <1>1, LoopRuns
<1>3. Eq(g)
  <2>1. ASSUME NEW k \in 1 .. n
        PROVE  g[k] = Body(k, g[k - 1])
    <3>1. g[k] = h[k][g[k - 1]] /\ g[k - 1] \in A
      BY <1>2 DEF Loops
    <3> HIDE DEF Body, A, n
    <3> QED BY <3>1
  <2>2. g = [k \in 0 .. n |-> g[k]] /\ g[0] = first
    BY <1>2 DEF Loops
  <2> HIDE DEF Body, first, n, h, A
  <2>3. ASSUME NEW k \in 0 .. n
        PROVE  g[k] = IF k = 0 THEN first ELSE Body(k, g[k - 1])
    <3>1. k = 0 \/ k \in 1 .. n
      BY <1>1
    <3> QED BY <2>1, <2>2, <3>1
  <2>4. [k \in 0 .. n |-> g[k]] = [k \in 0 .. n |-> IF k = 0 THEN first ELSE Body(k, g[k - 1])]
    BY <2>3
  <2> QED BY <2>2, <2>4
<1>4. Eq(after)
  <2> HIDE DEF Eq
  <2> QED BY <1>3
<1>5. after[0] = first /\ \A k \in 1 .. n : after[k] = Body(k, after[k - 1])
  <2> HIDE DEF after, Body, first, n, h, A
  <2> QED BY <1>1, <1>4
<1>6. Tokens(p) = after[n].out
  BY DEF Tokens, Fold, Between
<1> HIDE DEF after
<1> QED BY <1>5, <1>6 DEF TokenRun

\* After b characters p has a name spelled t, up to character l.
OneSpelled(p, b, t, l) ==
  /\ t \in Seq(PathChars) /\ Len(t) \in Nat \ {0}
  /\ b \in Nat /\ Len(p) \in Nat /\ l = b + 1 + Len(t) /\ l <= Len(p)
  /\ p[b + 1] = "/"
  /\ \A o \in 1 .. Len(t) : p[b + 1 + o] = t[o] /\ t[o] # "/" /\ t[o] \in PathChars

\* Each name of a path is so spelled in it.
LEMMA NameSpelled ==
  ASSUME NEW ns \in Seq(Names), NEW p, NEW e, Spells(p, e, ns), NEW k \in 1 .. Len(ns),
         NEW b, b = e[k - 1], NEW t, t = Spelling[ns[k]]
  PROVE  OneSpelled(p, b, t, e[k])
<1>1. ns[k] \in Names /\ k \in 0 .. Len(ns) /\ k - 1 \in 0 .. Len(ns)
  OBVIOUS
<1>2. t \in Seq(PathChars) /\ Len(t) \in Nat \ {0} /\ \A o \in 1 .. Len(t) : t[o] # "/"
  BY <1>1, Spellings
<1>3. /\ p \in Seq(PathChars)
      /\ e[k - 1] \in 0 .. Len(p) /\ e[k] \in 0 .. Len(p)
  BY <1>1 DEF Spells
<1>4. /\ e[k] = e[k - 1] + 1 + Len(t)
      /\ p[e[k - 1] + 1] = "/"
      /\ \A o \in 1 .. Len(t) : p[e[k - 1] + 1 + o] = t[o]
  BY DEF Spells
<1>5. Len(p) \in Nat
  BY <1>3
<1>6. \A o \in 1 .. Len(t) : t[o] \in PathChars
  BY <1>2
<1> QED BY <1>2, <1>3, <1>4, <1>5, <1>6 DEF OneSpelled

\* num_entry_name counts the names.
LEMMA NamesCounted ==
  ASSUME NEW ns \in Seq(Names), ns # <<>>, NEW p, NEW e, Spells(p, e, ns)
  PROVE  num_entry_name(p) = Len(ns)
<1> DEFINE n == Len(ns)
<1>1. n \in Nat \ {0} /\ p \in Seq(PathChars) /\ e[0] = 0 /\ e[n] = Len(p) /\ Len(p) \in Nat
  BY EmptySeq DEF Spells
<1>2. ASSUME NEW k \in 1 .. n
      PROVE  /\ e[k] \in Nat /\ e[k] > 1 /\ e[k] <= Len(p)
             /\ k - 1 # 0 => e[k - 1] > 1
  <2>1. e[k] \in Nat /\ e[k] > 1 /\ e[k] <= Len(p)
    BY NameSpelled DEF OneSpelled
  <2>2. ASSUME k - 1 # 0
        PROVE  e[k - 1] > 1
    <3>1. k - 1 \in 1 .. n
      BY <1>1, <2>2
    <3>2. PICK j : j = k - 1
      OBVIOUS
    <3>3. j \in 1 .. n
      BY <3>1, <3>2
    <3>4. PICK b, t : b = e[j - 1] /\ t = Spelling[ns[j]]
      OBVIOUS
    <3>5. b \in Nat /\ Len(t) \in Nat \ {0} /\ e[j] = b + 1 + Len(t)
      BY <3>3, <3>4, NameSpelled DEF OneSpelled
    <3> QED BY <3>2, <3>5
  <2> QED BY <2>1, <2>2
<1>3. Len(p) > 1
  BY <1>1, <1>2
<1>4. PICK g : /\ g[0] = 1
               /\ \A k \in 1 .. Len(p) - 1 : g[k] = g[k - 1] + Slash(Tail(p)[k])
               /\ num_entry_name(p) = g[Len(p) - 1]
  BY <1>1, <1>3, SlashRuns
<1>5. ASSUME NEW x \in 1 .. Len(p) - 1
      PROVE  g[x] = g[x - 1] + Slash(p[x + 1])
  <2>1. p # <<>> /\ Len(Tail(p)) = Len(p) - 1 /\ \A i \in 1 .. Len(Tail(p)) : Tail(p)[i] = p[i + 1]
    BY <1>1, <1>3, HeadTailProperties, EmptySeq
  <2> QED BY <1>4, <2>1
<1> DEFINE T == {k \in 0 .. n : k = 0 \/ g[e[k] - 1] = k}
<1>6. ASSUME NEW j \in 0 .. n - 1, j \in T
      PROVE  j + 1 \in T
  <2>1. PICK k \in 1 .. n : k = j + 1 /\ k - 1 = j /\ k \in 0 .. n
    BY <1>1
  <2>1a. PICK b, t : b = e[k - 1] /\ t = Spelling[ns[k]]
    OBVIOUS
  <2> DEFINE U == {o \in 0 .. Len(t) : g[b + o] = k}
  <2>2. /\ t \in Seq(PathChars) /\ Len(t) \in Nat \ {0}
        /\ b \in Nat /\ Len(p) \in Nat /\ e[k] = b + 1 + Len(t) /\ e[k] <= Len(p)
        /\ p[b + 1] = "/"
        /\ \A o \in 1 .. Len(t) : p[b + 1 + o] = t[o] /\ t[o] # "/" /\ t[o] \in PathChars
    <3>1. OneSpelled(p, b, t, e[k])
      BY <2>1a, NameSpelled
    <3> QED BY <3>1 DEF OneSpelled
  <2>3. 0 \in U
    <3>1. CASE j = 0
      <4>1. b = 0 /\ k = 1 /\ b + 0 = 0
        BY <1>1, <2>1a, <2>1, <3>1
      <4> QED BY <1>4, <2>2, <4>1
    <3>2. CASE j # 0
      <4>1. g[b - 1] = j /\ b > 1
        BY <1>2, <1>6, <2>1a, <2>1, <3>2
      <4>2. b \in 1 .. Len(p) - 1
        BY <2>2, <4>1
      <4>3. g[b] = g[b - 1] + 1
        BY <1>5, <2>2, <4>2 DEF Slash
      <4> QED BY <2>1, <2>2, <4>1, <4>3
    <3> QED BY <3>1, <3>2
  <2>4. ASSUME NEW o \in 0 .. Len(t) - 1, o \in U
        PROVE  o + 1 \in U
    <3>1. b + o + 1 \in 1 .. Len(p) - 1 /\ o + 1 \in 1 .. Len(t) /\ o + 1 \in 0 .. Len(t)
      BY <2>2
    <3>2. p[b + 1 + (o + 1)] # "/"
      BY <2>2, <3>1
    <3>3. p[(b + o + 1) + 1] # "/" /\ (b + o + 1) - 1 = b + o /\ b + (o + 1) = b + o + 1
      <4>1. (b + o + 1) + 1 = b + 1 + (o + 1)
        BY <2>2
      <4> QED BY <2>2, <3>2, <4>1
    <3>4. g[b + o + 1] = g[b + o] + 0
      BY <1>5, <3>1, <3>3 DEF Slash
    <3> QED BY <2>1, <2>4, <3>1, <3>3, <3>4
  <2>5. Len(t) \in U
    <3>1. \A o \in 0 .. Len(t) - 1 : o \in U => o + 1 \in U
      BY <2>4
    <3> HIDE DEF U
    <3>2. \A o \in 0 .. Len(t) : o \in U
      BY <2>2, <2>3, <3>1, UpTo
    <3> QED BY <2>2, <3>2
  <2>6. e[k] - 1 = b + Len(t)
    BY <2>2
  <2> QED BY <2>1, <2>5, <2>6
<1>7. n \in T
  <2>1. 0 \in T
    BY <1>1
  <2>2. \A j \in 0 .. n - 1 : j \in T => j + 1 \in T
    BY <1>6
  <2> HIDE DEF T
  <2>3. \A j \in 0 .. n : j \in T
    BY <1>1, <2>1, <2>2, UpTo
  <2> QED BY <1>1, <2>3
<1> QED BY <1>1, <1>4, <1>7

\* Induction along a path: first "/", then the characters of a name, and so on.
\* G has pairs of a number of names begun and a number of characters.
LEMMA NameByName ==
  ASSUME NEW ns \in Seq(Names), NEW p, NEW e, Spells(p, e, ns), NEW m \in 0 .. Len(ns),
         NEW G, <<0, 0>> \in G,
         \A k \in 1 .. m : <<k - 1, e[k - 1]>> \in G => <<k, e[k - 1] + 1>> \in G,
         \A k \in 1 .. m : \A o \in 1 .. Len(Spelling[ns[k]]) :
           <<k, e[k - 1] + o>> \in G => <<k, e[k - 1] + o + 1>> \in G
  PROVE  <<m, e[m]>> \in G
<1> DEFINE T == {k \in 0 .. m : <<k, e[k]>> \in G}
<1>1. m \in Nat /\ Len(ns) \in Nat /\ e[0] = 0
  BY DEF Spells
<1>2. ASSUME NEW j \in 0 .. m - 1, j \in T
      PROVE  j + 1 \in T
  <2>1. PICK k \in 1 .. m : k = j + 1 /\ k - 1 = j /\ k \in 0 .. m /\ k \in 1 .. Len(ns)
    BY <1>1
  <2>2. PICK b, t : b = e[k - 1] /\ t = Spelling[ns[k]]
    OBVIOUS
  <2>3. OneSpelled(p, b, t, e[k])
    BY <2>1, <2>2, NameSpelled
  <2>4. Len(t) \in Nat \ {0} /\ b \in Nat /\ e[k] = b + 1 + Len(t)
    BY <2>3 DEF OneSpelled
  <2> DEFINE U == {o \in 0 .. Len(t) : <<k, b + o + 1>> \in G}
  <2>5. 0 \in U
    <3>1. <<k - 1, e[k - 1]>> \in G
      BY <1>2, <2>1
    <3>2. <<k, b + 1>> \in G /\ b + 0 + 1 = b + 1
      BY <2>2, <2>4, <3>1
    <3> QED BY <2>4, <3>2
  <2>6. ASSUME NEW o \in 0 .. Len(t) - 1, o \in U
        PROVE  o + 1 \in U
    <3>1. <<k, b + o + 1>> \in G
      BY <2>6
    <3>2. b + o + 1 = b + (o + 1) /\ o + 1 \in 1 .. Len(t) /\ o + 1 \in 0 .. Len(t)
      BY <2>4
    <3>3. <<k, b + (o + 1)>> \in G => <<k, b + (o + 1) + 1>> \in G
      BY <2>2, <3>2
    <3> QED BY <3>1, <3>2, <3>3
  <2>7. Len(t) \in U
    <3>1. \A o \in 0 .. Len(t) - 1 : o \in U => o + 1 \in U
      BY <2>6
    <3> HIDE DEF U
    <3>2. \A o \in 0 .. Len(t) : o \in U
      BY <2>4, <2>5, <3>1, UpTo
    <3> QED BY <2>4, <3>2
  <2>8. e[k] = b + Len(t) + 1
    BY <2>4
  <2> QED BY <2>1, <2>7, <2>8
<1>3. m \in T
  <2>1. 0 \in T
    BY <1>1
  <2>2. \A j \in 0 .. m - 1 : j \in T => j + 1 \in T
    BY <1>2
  <2> HIDE DEF T
  <2>3. \A j \in 0 .. m : j \in T
    BY <1>1, <2>1, <2>2, UpTo
  <2> QED BY <1>1, <2>3
<1> QED BY <1>3

\* What is copied so far, and one character more.
LEMMA Copied ==
  ASSUME NEW S, NEW p \in Seq(S), NEW x \in Nat, x + 1 <= Len(p)
  PROVE  Append(SubSeq(p, 1, x), p[x + 1]) = SubSeq(p, 1, x + 1)
<1>1. Len(p) \in Nat
  OBVIOUS
<1>2. /\ SubSeq(p, 1, x) \in Seq(S) /\ Len(SubSeq(p, 1, x)) = x
      /\ \A i \in 1 .. x : SubSeq(p, 1, x)[i] = p[i]
  <2>1. \A i \in 1 .. x : p[i] \in S
    BY <1>1
  <2> QED BY <2>1, SubSeqProperties
<1>3. /\ SubSeq(p, 1, x + 1) \in Seq(S) /\ Len(SubSeq(p, 1, x + 1)) = x + 1
      /\ \A i \in 1 .. x + 1 : SubSeq(p, 1, x + 1)[i] = p[i]
  <2>1. \A i \in 1 .. x + 1 : p[i] \in S
    BY <1>1
  <2> QED BY <2>1, SubSeqProperties
<1> DEFINE s == SubSeq(p, 1, x)
<1>4. p[x + 1] \in S
  BY <1>1
<1> HIDE DEF s
<1>5. /\ Append(s, p[x + 1]) \in Seq(S) /\ Len(Append(s, p[x + 1])) = x + 1
      /\ \A i \in 1 .. x + 1 : Append(s, p[x + 1])[i] = IF i = x + 1 THEN p[x + 1] ELSE s[i]
  <2>1. s \in Seq(S) /\ Len(s) = x
    BY <1>2 DEF s
  <2> QED BY <1>4, <2>1
<1>6. \A i \in 1 .. x + 1 : Append(s, p[x + 1])[i] = p[i]
  BY <1>2, <1>5 DEF s
<1>7. Append(s, p[x + 1]) = SubSeq(p, 1, x + 1)
  BY <1>3, <1>5, <1>6, SeqEqual
<1> QED BY <1>7 DEF s

\* A turn of the two loops that copy, before and after the last "/".
LEMMA Copying ==
  ASSUME NEW total, NEW k, NEW x, NEW c, NEW l, l = k + Slash(c)
  PROVE  /\ l # total => UpToLast(total, Before(k, x), c) = Before(l, Append(x, c))
         /\ l = total => UpToLast(total, Before(k, x), c) = After(l, x)
         /\ UpToLast(total, After(k, x), c) = After(l, x)
         /\ l # total => AfterLast(total, Before(k, x), c) = Before(l, x)
         /\ l = total => AfterLast(total, Before(k, x), c) = After(l, x)
         /\ AfterLast(total, After(k, x), c) = After(l, Append(x, c))
<1>1. /\ l # total => UpToLast(total, Before(k, x), c) = Before(l, Append(x, c))
      /\ l = total => UpToLast(total, Before(k, x), c) = After(l, x)
  BY DEF UpToLast, Copy, Before, After
<1>2. UpToLast(total, After(k, x), c) = After(l, x)
  BY DEF UpToLast, Copy, After
<1>3. /\ l # total => AfterLast(total, Before(k, x), c) = Before(l, x)
      /\ l = total => AfterLast(total, Before(k, x), c) = After(l, x)
  BY DEF AfterLast, Copy, Before, After
<1>4. AfterLast(total, After(k, x), c) = After(l, Append(x, c))
  BY DEF AfterLast, Copy, After
<1> QED BY <1>1, <1>2, <1>3, <1>4

\* What the loops have copied when they end.
LEMMA CopiedOut ==
  ASSUME NEW k, NEW x
  PROVE  After(k, x).out = x
BY DEF After, Copy

\* get_parent_path cuts the last name off.
LEMMA ParentCut ==
  ASSUME NEW ns \in Seq(Names), Len(ns) > 1, NEW p, NEW e, Spells(p, e, ns)
  PROVE  get_parent_path(p) = SubSeq(p, 1, e[Len(ns) - 1])
<1>1. PICK n, m : n = Len(ns) /\ m = n - 1
  OBVIOUS
<1>2. /\ n \in Nat \ {0} /\ m \in 1 .. n /\ m \in 0 .. n /\ n # 1 /\ ns # <<>>
      /\ p \in Seq(PathChars) /\ e[0] = 0 /\ e[n] = Len(p) /\ Len(p) \in Nat
  BY <1>1, EmptySeq DEF Spells
<1>3. n = num_entry_name(p)
  BY <1>1, <1>2, NamesCounted
<1>4. PICK g : UpToLastRun(g, p, n) /\ get_parent_path(p) = g[Len(p)].out
  BY <1>2, <1>3, ParentRuns
<1>4a. g[0] = Before(0, <<>>) /\ \A k \in 1 .. Len(p) : g[k] = UpToLast(n, g[k - 1], p[k])
  BY <1>4 DEF UpToLastRun
<1> DEFINE G == {y \in (0 .. n) \X (0 .. Len(p)) :
                   g[y[2]] = Before(y[1], SubSeq(p, 1, y[2]))}
<1>5. ASSUME NEW k \in 0 .. n, NEW x \in Nat, NEW l \in 0 .. n, <<k, x>> \in G,
             x + 1 <= Len(p), l = k + Slash(p[x + 1]), l # n
      PROVE  <<l, x + 1>> \in G
  <2>1. g[x] = Before(k, SubSeq(p, 1, x))
    BY <1>5
  <2>2. x + 1 \in 1 .. Len(p) /\ (x + 1) - 1 = x /\ x + 1 \in 0 .. Len(p)
    BY <1>2, <1>5
  <2>3. g[x + 1] = UpToLast(n, g[x], p[x + 1])
    BY <1>4a, <2>2
  <2>4. g[x + 1] = Before(l, Append(SubSeq(p, 1, x), p[x + 1]))
    BY <1>5, <2>1, <2>3, Copying
  <2>5. Append(SubSeq(p, 1, x), p[x + 1]) = SubSeq(p, 1, x + 1)
    BY <1>2, <1>5, Copied
  <2> QED BY <2>2, <2>4, <2>5
<1>6. <<0, 0>> \in G
  <2>1. SubSeq(p, 1, 0) = <<>>
    BY SubSeqEmpty
  <2>2. g[0] = Before(0, SubSeq(p, 1, 0))
    BY <1>4a, <2>1
  <2>3. 0 \in 0 .. n /\ 0 \in 0 .. Len(p)
    BY <1>2
  <2> QED BY <2>2, <2>3
<1> HIDE DEF G
<1>7. ASSUME NEW k \in 1 .. m
      PROVE  /\ <<k - 1, e[k - 1]>> \in G => <<k, e[k - 1] + 1>> \in G
             /\ \A o \in 1 .. Len(Spelling[ns[k]]) :
                  <<k, e[k - 1] + o>> \in G => <<k, e[k - 1] + o + 1>> \in G
  <2>1. PICK b, t : b = e[k - 1] /\ t = Spelling[ns[k]]
    OBVIOUS
  <2>2. k \in 1 .. Len(ns) /\ k \in 0 .. n /\ k - 1 \in 0 .. n /\ k # n /\ (k - 1) + 1 = k
        /\ k + 0 = k
    BY <1>1, <1>2
  <2>3. OneSpelled(p, b, t, e[k])
    BY <2>1, <2>2, NameSpelled
  <2>4. <<k - 1, b>> \in G => <<k, b + 1>> \in G
    <3>1. b \in Nat /\ b + 1 <= Len(p) /\ Slash(p[b + 1]) = 1
      BY <2>3 DEF OneSpelled, Slash
    <3> QED BY <1>5, <2>2, <3>1
  <2>5. ASSUME NEW o \in 1 .. Len(t), <<k, b + o>> \in G
        PROVE  <<k, b + o + 1>> \in G
    <3>1. b + o \in Nat /\ b + o + 1 <= Len(p) /\ b + 1 + o = b + o + 1
      BY <2>3 DEF OneSpelled
    <3>2. Slash(p[b + 1 + o]) = 0
      BY <2>3 DEF OneSpelled, Slash
    <3> QED BY <1>5, <2>2, <2>5, <3>1, <3>2
  <2> QED BY <2>1, <2>4, <2>5
<1>8. <<m, e[m]>> \in G
  BY <1>1, <1>2, <1>6, <1>7, NameByName
<1>9. PICK b, t : b = e[n - 1] /\ t = Spelling[ns[n]]
  OBVIOUS
<1>10. /\ b \in Nat /\ Len(t) \in Nat \ {0} /\ Len(p) = b + 1 + Len(t) /\ p[b + 1] = "/"
       /\ b + 1 \in 1 .. Len(p)
       /\ \A o \in 1 .. Len(t) : p[b + 1 + o] # "/"
  <2>1. n \in 1 .. Len(ns)
    BY <1>1, <1>2
  <2>2. OneSpelled(p, b, t, e[n])
    BY <1>9, <2>1, NameSpelled
  <2> QED BY <1>2, <2>2 DEF OneSpelled
<1> DEFINE U == {o \in 0 .. Len(t) : g[b + 1 + o] = After(n, SubSeq(p, 1, b))}
<1>11. 0 \in U
  <2>1. g[b] = Before(m, SubSeq(p, 1, b))
    BY <1>1, <1>8, <1>9 DEF G
  <2>2. g[b + 1] = UpToLast(n, g[b], p[b + 1])
    BY <1>4a, <1>10
  <2>3. m + Slash(p[b + 1]) = n
    BY <1>1, <1>2, <1>10 DEF Slash
  <2>4. g[b + 1] = After(n, SubSeq(p, 1, b))
    BY <2>1, <2>2, <2>3, Copying
  <2>5. b + 1 + 0 = b + 1
    BY <1>10
  <2> QED BY <1>10, <2>4, <2>5
<1>12. ASSUME NEW o \in 0 .. Len(t) - 1, o \in U
       PROVE  o + 1 \in U
  <2>1. PICK x : x = b + 1 + (o + 1)
    OBVIOUS
  <2>2. x \in 1 .. Len(p) /\ x - 1 = b + 1 + o /\ o + 1 \in 0 .. Len(t)
    BY <1>10, <2>1
  <2>3. g[x] = UpToLast(n, g[x - 1], p[x])
    BY <1>4a, <2>2
  <2>4. g[x - 1] = After(n, SubSeq(p, 1, b))
    BY <1>12, <2>2
  <2>5. g[x] = After(n, SubSeq(p, 1, b))
    <3>1. n + Slash(p[x]) = n
      BY <1>2, <1>10, <2>1, <2>2 DEF Slash
    <3> QED BY <2>3, <2>4, <3>1, Copying
  <2> QED BY <2>1, <2>2, <2>5
<1>13. Len(t) \in U
  <2>1. \A o \in 0 .. Len(t) - 1 : o \in U => o + 1 \in U
    BY <1>12
  <2> HIDE DEF U
  <2>2. \A o \in 0 .. Len(t) : o \in U
    BY <1>10, <1>11, <2>1, UpTo
  <2> QED BY <1>10, <2>2
<1>14. g[Len(p)] = After(n, SubSeq(p, 1, b))
  <2>1. b + 1 + Len(t) = Len(p)
    BY <1>10
  <2> QED BY <1>13, <2>1
<1>15. g[Len(p)].out = SubSeq(p, 1, b)
  BY <1>14, CopiedOut
<1> QED BY <1>1, <1>4, <1>9, <1>15

\* get_last_entry copies it.
LEMMA LastCopied ==
  ASSUME NEW ns \in Seq(Names), ns # <<>>, NEW p, NEW e, Spells(p, e, ns)
  PROVE  get_last_entry(p) = Spelling[ns[Len(ns)]]
<1>1. PICK n, m : n = Len(ns) /\ m = n - 1
  OBVIOUS
<1>2. /\ n \in Nat \ {0} /\ m \in Nat /\ m \in 0 .. n
      /\ p \in Seq(PathChars) /\ e[0] = 0 /\ e[n] = Len(p) /\ Len(p) \in Nat
  BY <1>1, EmptySeq DEF Spells
<1>3. n = num_entry_name(p)
  BY <1>1, NamesCounted
<1>4. PICK g : AfterLastRun(g, p, n) /\ get_last_entry(p) = g[Len(p)].out
  BY <1>2, <1>3, LastRuns
<1>4a. g[0] = Before(0, <<>>) /\ \A k \in 1 .. Len(p) : g[k] = AfterLast(n, g[k - 1], p[k])
  BY <1>4 DEF AfterLastRun
<1> DEFINE G == {y \in (0 .. n) \X (0 .. Len(p)) :
                   g[y[2]] = Before(y[1], <<>>)}
<1>5. ASSUME NEW k \in 0 .. n, NEW x \in Nat, NEW l \in 0 .. n, <<k, x>> \in G,
             x + 1 <= Len(p), l = k + Slash(p[x + 1]), l # n
      PROVE  <<l, x + 1>> \in G
  <2>1. g[x] = Before(k, <<>>)
    BY <1>5
  <2>2. x + 1 \in 1 .. Len(p) /\ (x + 1) - 1 = x /\ x + 1 \in 0 .. Len(p)
    BY <1>2, <1>5
  <2>3. g[x + 1] = AfterLast(n, g[x], p[x + 1])
    BY <1>4a, <2>2
  <2>4. g[x + 1] = Before(l, <<>>)
    BY <1>5, <2>1, <2>3, Copying
  <2> QED BY <2>2, <2>4
<1>6. <<0, 0>> \in G
  BY <1>2, <1>4a
<1> HIDE DEF G
<1>7. ASSUME NEW k \in 1 .. m
      PROVE  /\ <<k - 1, e[k - 1]>> \in G => <<k, e[k - 1] + 1>> \in G
             /\ \A o \in 1 .. Len(Spelling[ns[k]]) :
                  <<k, e[k - 1] + o>> \in G => <<k, e[k - 1] + o + 1>> \in G
  <2>1. PICK b, t : b = e[k - 1] /\ t = Spelling[ns[k]]
    OBVIOUS
  <2>2. k \in 1 .. Len(ns) /\ k \in 0 .. n /\ k - 1 \in 0 .. n /\ k # n /\ (k - 1) + 1 = k
        /\ k + 0 = k
    BY <1>1, <1>2
  <2>3. OneSpelled(p, b, t, e[k])
    BY <2>1, <2>2, NameSpelled
  <2>4. <<k - 1, b>> \in G => <<k, b + 1>> \in G
    <3>1. b \in Nat /\ b + 1 <= Len(p) /\ Slash(p[b + 1]) = 1
      BY <2>3 DEF OneSpelled, Slash
    <3> QED BY <1>5, <2>2, <3>1
  <2>5. ASSUME NEW o \in 1 .. Len(t), <<k, b + o>> \in G
        PROVE  <<k, b + o + 1>> \in G
    <3>1. b + o \in Nat /\ b + o + 1 <= Len(p) /\ b + 1 + o = b + o + 1
      BY <2>3 DEF OneSpelled
    <3>2. Slash(p[b + 1 + o]) = 0
      BY <2>3 DEF OneSpelled, Slash
    <3> QED BY <1>5, <2>2, <2>5, <3>1, <3>2
  <2> QED BY <2>1, <2>4, <2>5
<1>8. <<m, e[m]>> \in G
  BY <1>1, <1>2, <1>6, <1>7, NameByName
<1>9. PICK b, t : b = e[n - 1] /\ t = Spelling[ns[n]]
  OBVIOUS
<1>10. /\ b \in Nat /\ Len(t) \in Nat \ {0} /\ Len(p) = b + 1 + Len(t) /\ p[b + 1] = "/"
       /\ b + 1 \in 1 .. Len(p) /\ t \in Seq(PathChars)
       /\ \A o \in 1 .. Len(t) : p[b + 1 + o] = t[o] /\ t[o] # "/"
  <2>1. n \in 1 .. Len(ns)
    BY <1>1, <1>2
  <2>2. OneSpelled(p, b, t, e[n])
    BY <1>9, <2>1, NameSpelled
  <2> QED BY <1>2, <2>2 DEF OneSpelled
<1> DEFINE U == {o \in 0 .. Len(t) : g[b + 1 + o] = After(n, SubSeq(t, 1, o))}
<1>11. 0 \in U
  <2>1. g[b] = Before(m, <<>>)
    BY <1>1, <1>8, <1>9 DEF G
  <2>2. g[b + 1] = AfterLast(n, g[b], p[b + 1])
    BY <1>4a, <1>10
  <2>3. m + Slash(p[b + 1]) = n
    BY <1>1, <1>2, <1>10 DEF Slash
  <2>4. g[b + 1] = After(n, <<>>)
    BY <2>1, <2>2, <2>3, Copying
  <2>5. b + 1 + 0 = b + 1 /\ 0 \in 0 .. Len(t)
    BY <1>10
  <2>6. SubSeq(t, 1, 0) = <<>>
    BY SubSeqEmpty
  <2> QED BY <2>4, <2>5, <2>6
<1>12. ASSUME NEW o \in 0 .. Len(t) - 1, o \in U
       PROVE  o + 1 \in U
  <2>1. PICK x : x = b + 1 + (o + 1)
    OBVIOUS
  <2>2. x \in 1 .. Len(p) /\ x - 1 = b + 1 + o /\ o + 1 \in 0 .. Len(t) /\ o + 1 \in 1 .. Len(t)
    BY <1>10, <2>1
  <2>3. g[x] = AfterLast(n, g[x - 1], p[x])
    BY <1>4a, <2>2
  <2>4. g[x - 1] = After(n, SubSeq(t, 1, o))
    BY <1>12, <2>2
  <2>5. p[x] = t[o + 1]
    BY <1>10, <2>1, <2>2
  <2>6. g[x] = After(n, Append(SubSeq(t, 1, o), t[o + 1]))
    <3>1. n + Slash(p[x]) = n
      BY <1>2, <1>10, <2>2, <2>5 DEF Slash
    <3> QED BY <2>3, <2>4, <2>5, <3>1, Copying
  <2>7. o \in Nat /\ o + 1 <= Len(t)
    BY <1>10
  <2>8. Append(SubSeq(t, 1, o), t[o + 1]) = SubSeq(t, 1, o + 1)
    BY <1>10, <2>7, Copied
  <2> QED BY <2>1, <2>2, <2>6, <2>8
<1>13. Len(t) \in U
  <2>1. \A o \in 0 .. Len(t) - 1 : o \in U => o + 1 \in U
    BY <1>12
  <2> HIDE DEF U
  <2>2. \A o \in 0 .. Len(t) : o \in U
    BY <1>10, <1>11, <2>1, UpTo
  <2> QED BY <1>10, <2>2
<1>14. SubSeq(t, 1, Len(t)) = t
  BY <1>10, SubSeqFull
<1>15. g[Len(p)] = After(n, t)
  <2>1. b + 1 + Len(t) = Len(p)
    BY <1>10
  <2> QED BY <1>13, <1>14, <2>1
<1>16. g[Len(p)].out = t
  BY <1>15, CopiedOut
<1> QED BY <1>1, <1>4, <1>9, <1>16

\* A turn of strtok's.
LEMMA Tokenizing ==
  ASSUME NEW w, NEW x, NEW c
  PROVE  /\ Between(x).out = x /\ Within(x).out = x
         /\ c = "/" => Tokenize(w, c) = Between(w.out)
         /\ c # "/" => Tokenize(Between(x), c) = Within(Append(x, <<c>>))
         /\ c # "/" => Tokenize(Within(x), c) = Within([x EXCEPT ![Len(x)] = Append(@, c)])
<1>1. Between(x).out = x
  BY DEF Between
<1>2. Within(x).out = x
  BY DEF Within
<1>3. c = "/" => Tokenize(w, c) = Between(w.out)
  BY DEF Tokenize, Between
<1>4. c # "/" => Tokenize(Between(x), c) = Within(Append(x, <<c>>))
  BY DEF Tokenize, Between, Within
<1>5. c # "/" => Tokenize(Within(x), c) = Within([x EXCEPT ![Len(x)] = Append(@, c)])
  BY DEF Tokenize, Within
<1> QED BY <1>1, <1>2, <1>3, <1>4, <1>5

\* The names as they are spelled.
Spelt(ns, m) == [j \in 1 .. m |-> Spelling[ns[j]]]

\* They are a sequence of components, ...
LEMMA SpeltSeq ==
  ASSUME NEW ns \in Seq(Names), NEW m \in 0 .. Len(ns)
  PROVE  Spelt(ns, m) \in Seq(Seq(PathChars)) /\ Len(Spelt(ns, m)) = m
<1>1. m \in Nat /\ \A j \in 1 .. m : Spelling[ns[j]] \in Seq(PathChars)
  <2>1. m \in Nat /\ \A j \in 1 .. m : ns[j] \in Names
    OBVIOUS
  <2> QED BY <2>1, Spellings
<1>2. Spelt(ns, m) \in [1 .. m -> Seq(PathChars)]
  BY <1>1 DEF Spelt
<1> QED BY <1>1, <1>2, IsASeq

\* ... and one name more is one component more.
LEMMA SpeltMore ==
  ASSUME NEW ns \in Seq(Names), NEW k \in 1 .. Len(ns)
  PROVE  Append(Spelt(ns, k - 1), Spelling[ns[k]]) = Spelt(ns, k)
<1>1. PICK m : m = k - 1
  OBVIOUS
<1>2. m \in 0 .. Len(ns) /\ k \in 0 .. Len(ns) /\ k = m + 1 /\ m \in Nat
  BY <1>1
<1>3. PICK s, t : s = Spelt(ns, m) /\ t = Spelling[ns[k]]
  OBVIOUS
<1>4. s \in Seq(Seq(PathChars)) /\ Len(s) = m /\ t \in Seq(PathChars)
  <2>1. ns[k] \in Names
    OBVIOUS
  <2> QED BY <1>2, <1>3, <2>1, SpeltSeq, Spellings
<1>5. /\ Append(s, t) \in Seq(Seq(PathChars)) /\ Len(Append(s, t)) = m + 1
      /\ \A j \in 1 .. m : Append(s, t)[j] = s[j]
      /\ Append(s, t)[m + 1] = t
  BY <1>4, AppendProperties
<1>6. Spelt(ns, k) \in Seq(Seq(PathChars)) /\ Len(Spelt(ns, k)) = k
  BY <1>2, SpeltSeq
<1>7. ASSUME NEW j \in 1 .. k
      PROVE  Append(s, t)[j] = Spelt(ns, k)[j]
  <2>1. j \in 1 .. m \/ j = m + 1
    BY <1>2
  <2>2. Spelt(ns, k)[j] = Spelling[ns[j]]
    BY DEF Spelt
  <2>3. j \in 1 .. m => s[j] = Spelling[ns[j]]
    BY <1>3 DEF Spelt
  <2> QED BY <1>2, <1>3, <1>5, <2>1, <2>2, <2>3
<1>8. Append(s, t) = Spelt(ns, k)
  BY <1>2, <1>5, <1>6, <1>7, SeqEqual
<1> QED BY <1>1, <1>3, <1>8

\* One character more in the last of a sequence of components.
LEMMA LastGrows ==
  ASSUME NEW x \in Seq(Seq(PathChars)), NEW t \in Seq(PathChars),
         NEW o \in 1 .. Len(t) - 1, NEW l, l = o + 1
  PROVE  LET y == Append(x, SubSeq(t, 1, o))
         IN  [y EXCEPT ![Len(y)] = Append(@, t[l])] = Append(x, SubSeq(t, 1, l))
<1>1. PICK u, y, v : u = SubSeq(t, 1, o) /\ y = Append(x, u) /\ v = SubSeq(t, 1, l)
  OBVIOUS
<1>2. u \in Seq(PathChars) /\ v \in Seq(PathChars)
  <2>1. Len(t) \in Nat /\ \A i \in 1 .. l : t[i] \in PathChars
    OBVIOUS
  <2>2. o <= Len(t) /\ l <= Len(t) /\ o \in Int /\ l \in Int
    BY <2>1
  <2> QED BY <1>1, <2>1, <2>2, SubSeqProperties
<1>3. v = Append(u, t[l])
  <2>1. o \in Nat /\ o + 1 <= Len(t)
    OBVIOUS
  <2> QED BY <1>1, <2>1, Copied
<1>4. /\ y \in Seq(Seq(PathChars)) /\ Len(y) = Len(x) + 1 /\ Len(x) \in Nat
      /\ \A i \in 1 .. Len(x) : y[i] = x[i]
      /\ y[Len(x) + 1] = u
  BY <1>1, <1>2, AppendProperties
<1>5. PICK z : z = [y EXCEPT ![Len(y)] = v]
  OBVIOUS
<1>6. /\ z \in Seq(Seq(PathChars)) /\ Len(z) = Len(y)
      /\ \A i \in 1 .. Len(y) : z[i] = IF i = Len(y) THEN v ELSE y[i]
  BY <1>2, <1>4, <1>5, ExceptSeq
<1>7. /\ Append(x, v) \in Seq(Seq(PathChars)) /\ Len(Append(x, v)) = Len(x) + 1
      /\ \A i \in 1 .. Len(x) : Append(x, v)[i] = x[i]
      /\ Append(x, v)[Len(x) + 1] = v
  BY <1>2, AppendProperties
<1>8. ASSUME NEW i \in 1 .. Len(z)
      PROVE  z[i] = Append(x, v)[i]
  <2>1. CASE i = Len(x) + 1
    BY <1>4, <1>6, <1>7, <2>1
  <2>2. CASE i # Len(x) + 1
    <3>1. i \in 1 .. Len(x) /\ i # Len(y) /\ i \in 1 .. Len(y)
      BY <1>4, <1>6, <2>2
    <3>2. z[i] = y[i]
      BY <1>6, <3>1
    <3> QED BY <1>4, <1>7, <3>1, <3>2
  <2> QED BY <2>1, <2>2
<1>9. z = Append(x, v)
  BY <1>4, <1>6, <1>7, <1>8, SeqEqual
<1>10. y[Len(y)] = u
  BY <1>4
<1> QED BY <1>1, <1>3, <1>5, <1>9, <1>10

\* strtok gives the names as they are spelled.
LEMMA NamesCut ==
  ASSUME NEW ns \in Seq(Names), NEW p, NEW e, Spells(p, e, ns)
  PROVE  Tokens(p) = Spelt(ns, Len(ns))
<1>1. PICK n : n = Len(ns)
  OBVIOUS
<1>2. n \in Nat /\ p \in Seq(PathChars) /\ e[0] = 0 /\ e[n] = Len(p) /\ Len(p) \in Nat
  BY <1>1 DEF Spells
<1>3. PICK g : TokenRun(g, p) /\ Tokens(p) = g[Len(p)].out
  BY <1>2, TokenRuns
<1>4. g[0] = Between(<<>>) /\ \A k \in 1 .. Len(p) : g[k] = Tokenize(g[k - 1], p[k])
  BY <1>3 DEF TokenRun
<1> DEFINE T == {k \in 0 .. n : g[e[k]].out = Spelt(ns, k)}
<1>5. 0 \in T
  <2>1. Spelt(ns, 0) = <<>>
    BY DEF Spelt
  <2>2. g[e[0]].out = <<>>
    BY <1>2, <1>4, Tokenizing
  <2>3. 0 \in 0 .. n
    BY <1>2
  <2> QED BY <2>1, <2>2, <2>3
<1>6. ASSUME NEW j \in 0 .. n - 1, j \in T
      PROVE  j + 1 \in T
  <2>1. PICK k : k = j + 1
    OBVIOUS
  <2>2. k \in 1 .. n /\ k \in 0 .. n /\ k - 1 = j
    BY <1>2, <2>1
  <2>3. PICK b, t, x : b = e[k - 1] /\ t = Spelling[ns[k]] /\ x = Spelt(ns, k - 1)
    OBVIOUS
  <2>4. OneSpelled(p, b, t, e[k])
    BY <1>1, <2>2, <2>3, NameSpelled
  <2>5. /\ t \in Seq(PathChars) /\ Len(t) \in Nat \ {0}
        /\ b \in Nat /\ e[k] = b + 1 + Len(t) /\ e[k] <= Len(p)
        /\ p[b + 1] = "/"
        /\ \A o \in 1 .. Len(t) : p[b + 1 + o] = t[o] /\ t[o] # "/" /\ t[o] \in PathChars
    BY <2>4 DEF OneSpelled
  <2>6. x \in Seq(Seq(PathChars))
    <3>1. k - 1 \in 0 .. Len(ns)
      BY <1>1, <2>2
    <3> QED BY <2>3, <3>1, SpeltSeq
  <2>7. g[b].out = x
    BY <1>6, <2>2, <2>3
  <2>8. g[b + 1] = Between(x)
    <3>1. b + 1 \in 1 .. Len(p) /\ (b + 1) - 1 = b
      BY <1>2, <2>5
    <3>2. g[b + 1] = Tokenize(g[b], p[b + 1])
      BY <1>4, <3>1
    <3> QED BY <2>5, <2>7, <3>2, Tokenizing
  <2> DEFINE U == {i \in 0 .. Len(t) - 1 : g[b + 1 + (i + 1)] = Within(Append(x, SubSeq(t, 1, i + 1)))}
  <2>9. ASSUME NEW o \in 1 .. Len(t)
        PROVE  g[b + 1 + o] = Tokenize(g[b + o], t[o]) /\ t[o] # "/"
    <3>1. b + 1 + o \in 1 .. Len(p) /\ (b + 1 + o) - 1 = b + o
      BY <1>2, <2>5
    <3> QED BY <1>4, <2>5, <3>1
  <2>10. 0 \in U
    <3>1. 1 \in 1 .. Len(t) /\ 0 \in 0 .. Len(t) - 1
      BY <2>5
    <3>2. g[b + 1 + 1] = Within(Append(x, <<t[1]>>))
      <4>1. g[b + 1 + 1] = Tokenize(Between(x), t[1]) /\ t[1] # "/"
        BY <2>8, <2>9, <3>1
      <4> QED BY <4>1, Tokenizing
    <3>3. SubSeq(t, 1, 1) = <<t[1]>>
      <4>1. SubSeq(t, 1, 1) \in Seq(PathChars) /\ Len(SubSeq(t, 1, 1)) = 1 /\ \A i \in 1 .. 1 : SubSeq(t, 1, 1)[i] = t[i]
        <5>1. \A i \in 1 .. 1 : t[i] \in PathChars
          BY <2>5
        <5> QED BY <2>5, <5>1, SubSeqProperties
      <4>2. <<t[1]>> \in Seq(PathChars) /\ Len(<<t[1]>>) = 1 /\ \A i \in 1 .. 1 : <<t[1]>>[i] = t[i]
        BY <2>5, <3>1
      <4> QED BY <4>1, <4>2, SeqEqual
    <3>4. 0 + 1 = 1
      OBVIOUS
    <3> QED BY <3>1, <3>2, <3>3, <3>4
  <2>11. ASSUME NEW i \in 0 .. (Len(t) - 1) - 1, i \in U
         PROVE  i + 1 \in U
    <3>1. PICK o, l : o = i + 1 /\ l = o + 1
      OBVIOUS
    <3>2. o \in 1 .. Len(t) - 1 /\ l \in 1 .. Len(t) /\ i + 1 \in 0 .. Len(t) - 1 /\ b + l = b + 1 + o
          /\ l = (i + 1) + 1
      BY <2>5, <3>1
    <3>3. g[b + 1 + o] = Within(Append(x, SubSeq(t, 1, o)))
      BY <2>11, <3>1
    <3>4. PICK y : y = Append(x, SubSeq(t, 1, o))
      OBVIOUS
    <3>5. g[b + 1 + l] = Tokenize(Within(y), t[l]) /\ t[l] # "/"
      BY <2>9, <3>2, <3>3, <3>4
    <3>6. g[b + 1 + l] = Within([y EXCEPT ![Len(y)] = Append(@, t[l])])
      BY <3>5, Tokenizing
    <3>7. [y EXCEPT ![Len(y)] = Append(@, t[l])] = Append(x, SubSeq(t, 1, l))
      BY <2>5, <2>6, <3>1, <3>2, <3>4, LastGrows
    <3> QED BY <3>2, <3>6, <3>7
  <2>12. PICK m : m = Len(t) - 1
    OBVIOUS
  <2>13. m \in U
    <3>1. \A i \in 0 .. m - 1 : i \in U => i + 1 \in U
      BY <2>11, <2>12
    <3>2. m \in Nat
      BY <2>5, <2>12
    <3> HIDE DEF U
    <3>3. \A i \in 0 .. m : i \in U
      BY <2>10, <3>1, <3>2, UpTo
    <3> QED BY <3>2, <3>3
  <2>14. m + 1 = Len(t) /\ b + 1 + (m + 1) = e[k]
    BY <2>5, <2>12
  <2>15. g[e[k]] = Within(Append(x, t))
    <3>1. SubSeq(t, 1, Len(t)) = t
      BY <2>5, SubSeqFull
    <3> QED BY <2>13, <2>14, <3>1
  <2>16. g[e[k]].out = Append(x, t)
    BY <2>15, Tokenizing
  <2>17. Append(x, t) = Spelt(ns, k)
    BY <1>1, <2>2, <2>3, SpeltMore
  <2> QED BY <2>1, <2>2, <2>16, <2>17
<1>7. n \in T
  <2>1. \A j \in 0 .. n - 1 : j \in T => j + 1 \in T
    BY <1>6
  <2> HIDE DEF T
  <2>2. \A j \in 0 .. n : j \in T
    BY <1>2, <1>5, <2>1, UpTo
  <2> QED BY <1>2, <2>2
<1> QED BY <1>1, <1>2, <1>3, <1>7

-----------------------------------------------------------------------------
(* What the helpers make of the path of names.                             *)

\* The path of the first names is what the path of all begins with.
LEMMA PathOfFirst ==
  ASSUME NEW ns \in Seq(Names), NEW q, Prefixes(q, ns), NEW m \in 1 .. Len(ns)
  PROVE  SubSeq(ns, 1, m) \in Seq(Names) /\ PathOf(SubSeq(ns, 1, m)) = q[m]
<1>1. PICK ms : ms = SubSeq(ns, 1, m)
  OBVIOUS
<1>2. ms \in Seq(Names) /\ Len(ms) = m /\ \A i \in 1 .. m : ms[i] = ns[i]
  <2>1. Len(ns) \in Nat /\ \A i \in 1 .. m : ns[i] \in Names
    OBVIOUS
  <2> QED BY <1>1, <2>1, SubSeqProperties
<1>3. m \in Nat /\ m <= Len(ns) /\ ms # <<>> /\ Len(ns) \in Nat
  <2>1. m \in Nat /\ m # 0 /\ m <= Len(ns) /\ Len(ns) \in Nat
    OBVIOUS
  <2> QED BY <1>2, <2>1
<1>4. PICK r : Prefixes(r, ms) /\ PathOf(ms) = r[m]
  BY <1>2, <1>3, PathRuns
<1> DEFINE T == {k \in 0 .. m : r[k] = q[k]}
<1>5. 0 \in T
  <2>1. r[0] = q[0]
    BY <1>4 DEF Prefixes
  <2> QED BY <1>3, <2>1
<1>6. ASSUME NEW j \in 0 .. m - 1, j \in T
      PROVE  j + 1 \in T
  <2>1. PICK k : k = j + 1
    OBVIOUS
  <2>2. k \in 1 .. m /\ k \in 1 .. Len(ns) /\ k \in 1 .. Len(ms) /\ k - 1 = j /\ k \in 0 .. m
    BY <1>2, <1>3, <2>1
  <2>3. r[k] = r[k - 1] \o <<"/">> \o Spelling[ms[k]]
    BY <1>4, <2>2 DEF Prefixes
  <2>4. q[k] = q[k - 1] \o <<"/">> \o Spelling[ns[k]]
    BY <2>2 DEF Prefixes
  <2>5. r[k - 1] = q[k - 1] /\ ms[k] = ns[k]
    BY <1>2, <1>6, <2>2
  <2> QED BY <2>1, <2>2, <2>3, <2>4, <2>5
<1>7. m \in T
  <2>1. \A j \in 0 .. m - 1 : j \in T => j + 1 \in T
    BY <1>6
  <2> HIDE DEF T
  <2>2. \A j \in 0 .. m : j \in T
    BY <1>3, <1>5, <2>1, UpTo
  <2> QED BY <1>3, <2>2
<1> QED BY <1>1, <1>2, <1>4, <1>7

\* A path taken apart is the names it was made of.
LEMMA PathTaken ==
  ASSUME NEW ns \in Seq(Names), ns # <<>>, NEW p, p = PathOf(ns)
  PROVE  /\ num_entry_name(p) = Len(ns)
         /\ Tokens(p) = Spelt(ns, Len(ns))
         /\ get_last_entry(p) = Spelling[ns[Len(ns)]]
         /\ get_parent_path(p) = PathOf(SubSeq(ns, 1, Len(ns) - 1))
<1>1. PICK n : n = Len(ns)
  OBVIOUS
<1>2. n \in Nat \ {0}
  BY <1>1, EmptySeq
<1>3. PICK q : Prefixes(q, ns) /\ p = q[n]
  BY <1>1, PathRuns
<1>4. PICK e : e = [k \in 0 .. n |-> Len(q[k])]
  OBVIOUS
<1>5. Spells(p, e, ns) /\ \A k \in 0 .. n : SubSeq(p, 1, e[k]) = q[k]
  BY <1>1, <1>3, <1>4, PathSpells
<1>6. num_entry_name(p) = n
  BY <1>1, <1>5, NamesCounted
<1>7. get_parent_path(p) = PathOf(SubSeq(ns, 1, n - 1))
  <2>1. CASE n = 1
    <3>1. get_parent_path(p) = <<"/">>
      BY <1>6, <2>1 DEF get_parent_path
    <3>2. n - 1 = 0 /\ SubSeq(ns, 1, 0) = <<>>
      BY <2>1, SubSeqEmpty
    <3>3. SubSeq(ns, 1, n - 1) = <<>>
      BY <3>2
    <3> QED BY <3>1, <3>3 DEF PathOf
  <2>2. CASE n # 1
    <3>1. PICK m : m = n - 1
      OBVIOUS
    <3>2. m \in 1 .. Len(ns) /\ m \in 0 .. n /\ Len(ns) > 1 /\ m = Len(ns) - 1
      BY <1>1, <1>2, <2>2, <3>1
    <3>3. get_parent_path(p) = q[m]
      BY <1>5, <3>2, ParentCut
    <3>4. PathOf(SubSeq(ns, 1, m)) = q[m]
      BY <1>3, <3>2, PathOfFirst
    <3> QED BY <3>1, <3>3, <3>4
  <2> QED BY <2>1, <2>2
<1>8. get_last_entry(p) = Spelling[ns[n]]
  BY <1>1, <1>5, LastCopied
<1>9. Tokens(p) = Spelt(ns, n)
  BY <1>1, <1>5, NamesCut
<1> QED BY <1>1, <1>6, <1>7, <1>8, <1>9

\* The root's has no component.
LEMMA RootTaken ==
  /\ PathOf(<<>>) = <<"/">>
  /\ num_entry_name(<<"/">>) = 0
  /\ Tokens(<<"/">>) = <<>>
<1>1. PathOf(<<>>) = <<"/">>
  BY DEF PathOf
<1>2. <<"/">> \in Seq(PathChars) /\ Len(<<"/">>) = 1 /\ <<"/">>[1] = "/"
  BY Spellings
<1>3. num_entry_name(<<"/">>) = 0
  BY <1>2 DEF num_entry_name, Fold
<1>4. PICK p : p = <<"/">>
  OBVIOUS
<1>5. PICK g : TokenRun(g, p) /\ Tokens(p) = g[Len(p)].out
  BY <1>2, <1>4, TokenRuns
<1>6. g[0] = Between(<<>>) /\ g[1] = Tokenize(g[0], p[1])
  <2>1. 1 \in 1 .. Len(p) /\ 1 - 1 = 0
    BY <1>2, <1>4
  <2> QED BY <1>5, <2>1 DEF TokenRun
<1>7. g[1] = Between(g[0].out) /\ g[0].out = <<>>
  BY <1>2, <1>4, <1>6, Tokenizing
<1>8. Tokens(p) = <<>>
  BY <1>2, <1>4, <1>5, <1>7, Tokenizing
<1> QED BY <1>1, <1>3, <1>4, <1>8

-----------------------------------------------------------------------------
(* One turn of a walk.                                                     *)

\* An image to walk on, with nodes L.
Walkable(s, L) ==
  /\ s.mem \in MemType /\ L \in SUBSET Inodes
  /\ Sound(s, L) /\ Nameless(s, L) /\ IsDir(s, 0)

\* The states of a walk.
Errors == {"-1", "-ENOENT", "-ENOTDIR"}

Walks(L) == [cur : L, index : Nat, err : Errors \cup {"0"}, stop : BOOLEAN]

\* A name is compared to what is in a slot as the tree has them.
LEMMA NameCompared ==
  ASSUME NEW n \in Names, NEW tail \in Names \cup {".", "..", "zeros", "extent"}
  PROVE  SameName(tail, Spelling[n]) <=> tail = n
<1>1. \A x \in {".", "..", "zeros", "extent"} : x \notin Names
  BY ImageAssumption
<1>2. CASE tail \in Names
  <2>1. Spelled(tail) = Spelling[tail]
    BY <1>1, <1>2 DEF Spelled
  <2> QED BY <1>2, <2>1, SpellingAssumption DEF SameName
<1>3. CASE tail \notin Names
  <2>1. Spelled(tail) \in {<<>>, <<".">>, <<".", ".">>, <<"^A">>}
    BY <1>3 DEF Spelled
  <2>2. Spelling[n] \notin {<<>>, <<".">>, <<".", ".">>, <<"^A">>}
    BY SpellingAssumption
  <2> QED BY <1>3, <2>1, <2>2 DEF SameName
<1> QED BY <1>2, <1>3

\* The entries that a scan of node d for name n stops at.
Matches(s, d, n) ==
  {k \in 0 .. s.inode[d].dentry_count - 1 : Slot(s, d, k).tail = n}

\* They are entries of a directory: at most one.
LEMMA MatchesListed ==
  ASSUME NEW s, NEW L, Walkable(s, L), NEW d \in L, NEW n \in Names
  PROVE  /\ Matches(s, d, n) = {k \in Listing(s, d) : Slot(s, d, k).tail = n}
         /\ \A j, k \in Matches(s, d, n) : j = k
<1>1. d \in Inodes /\ LaidOut(s, d)
  BY DEF Walkable, Sound
<1>2. s.inode[d].dentry_count \in Nat /\ s.inode[d].dentry_count >= 2 /\ DataBlock(s, d) \in Blocks
  BY <1>1, LaidOutFacts DEF LaidOut
<1>3. Slot(s, d, 0).tail # n /\ Slot(s, d, 1).tail # n
  BY <1>2 DEF Walkable, Nameless, NoNameFirst, Slot
<1>4. CASE IsDir(s, d)
  <2>1. Listing(s, d) = 2 .. s.inode[d].dentry_count - 1
    BY <1>4 DEF Listing
  <2>2. \A k \in 0 .. s.inode[d].dentry_count - 1 :
          k \in 2 .. s.inode[d].dentry_count - 1 \/ k = 0 \/ k = 1
    BY <1>2
  <2>3. Matches(s, d, n) = {k \in Listing(s, d) : Slot(s, d, k).tail = n}
    BY <1>2, <1>3, <2>1, <2>2 DEF Matches
  <2> QED BY <1>1, <1>4, <2>3 DEF LaidOut, Listed
<1>5. CASE ~ IsDir(s, d)
  <2>1. s.inode[d].dentry_count = 2 /\ Listing(s, d) = {}
    BY <1>5 DEF Walkable, Nameless, Listing
  <2>2. \A k \in 0 .. s.inode[d].dentry_count - 1 : k = 0 \/ k = 1
    BY <2>1
  <2> QED BY <1>3, <2>1, <2>2 DEF Matches
<1> QED BY <1>4, <1>5

\* v has followed the edge of that name from w, or has found none.
Scanned(v, s, L, w, n, missing) ==
  /\ v \in Walks(L) /\ v.stop = w.stop
  /\ \/ Under(EdgeSet(s, L), {w.cur}, n) = {} /\ v.err = missing
     \/ /\ Under(EdgeSet(s, L), {w.cur}, n) = {v.cur}
        /\ v.err = w.err /\ v.index = w.index + 1

\* A scan does.
LEMMA ScanFollows ==
  ASSUME NEW s, NEW L, Walkable(s, L), NEW w \in Walks(L), NEW n \in Names,
         NEW missing \in Errors
  PROVE  Scanned(Scan(s, w, Spelling[n], missing), s, L, w, n, missing)
<1> DEFINE c == w.cur
           count == s.inode[c].dentry_count
           t == Spelling[n]
           E == EdgeSet(s, L)
           ds == Under(E, {c}, n)
           at == {k \in 0 .. count - 1 :
                    /\ SameName(DentryAt(s, c, k).tail, t)
                    /\ \A j \in 0 .. k - 1 : ~ SameName(DentryAt(s, c, j).tail, t)}
           v == Scan(s, w, t, missing)
<1>1. c \in L /\ c \in Inodes /\ LaidOut(s, c) /\ w.index \in Nat
  BY DEF Walkable, Sound, Walks
<1>2. /\ count \in Nat
      /\ \A k \in 0 .. count - 1 : k \in Slots /\ DentryAt(s, c, k) = Slot(s, c, k)
      /\ DataBlock(s, c) \in Blocks
  BY <1>1, LaidOutFacts DEF LaidOut
<1>3. ASSUME NEW k \in 0 .. count - 1
      PROVE  SameName(DentryAt(s, c, k).tail, t) <=> k \in Matches(s, c, n)
  <2>1. Slot(s, c, k) \in Cell
    BY <1>2 DEF Walkable, MemType, Slot
  <2>2. Slot(s, c, k).tail \in Names \cup {".", "..", "zeros", "extent"}
    BY <2>1 DEF Cell, ZeroCell
  <2>3. SameName(Slot(s, c, k).tail, t) <=> Slot(s, c, k).tail = n
    BY <2>2, NameCompared
  <2> QED BY <1>2, <2>3 DEF Matches
<1>4. \A j, k \in Matches(s, c, n) : j = k
  BY <1>1, MatchesListed
<1>5. at = Matches(s, c, n)
  <2>1. Matches(s, c, n) \subseteq 0 .. count - 1
    BY DEF Matches
  <2>2. ASSUME NEW k \in Matches(s, c, n), NEW j \in 0 .. k - 1
        PROVE  j \in 0 .. count - 1 /\ j \notin Matches(s, c, n)
    <3>1. k \in 0 .. count - 1 /\ j # k /\ j \in 0 .. count - 1
      BY <1>2, <2>1, <2>2
    <3> QED BY <1>4, <3>1
  <2> HIDE DEF count
  <2> QED BY <1>3, <2>1, <2>2
<1>6. v = IF at = {} THEN [w EXCEPT !.err = missing]
          ELSE [w EXCEPT !.cur = DentryAt(s, c, CHOOSE k \in at : TRUE).word, !.index = @ + 1]
  BY DEF Scan
<1>7. ds = {Slot(s, c, k).word : k \in at}
  <2>1. ASSUME NEW k \in at
        PROVE  Slot(s, c, k).word \in ds
    <3>1. k \in Listing(s, c) /\ Slot(s, c, k).tail = n
      BY <1>1, <1>5, <2>1, MatchesListed
    <3>2. Edge(s, c, k) \in E
      BY <1>1, <3>1 DEF EdgeSet, EdgesOf
    <3>3. Edge(s, c, k)[1] = c /\ Edge(s, c, k)[2] = n /\ Edge(s, c, k)[3] = Slot(s, c, k).word
      BY <3>1 DEF Edge
    <3> HIDE DEF E, c
    <3> QED BY <3>2, <3>3 DEF Under
  <2>2. ASSUME NEW x \in ds
        PROVE  \E k \in at : x = Slot(s, c, k).word
    <3>1. PICK f \in E : f[1] = c /\ f[2] = n /\ x = f[3]
      BY <2>2 DEF Under
    <3>2. PICK k \in Listing(s, c) : f = Edge(s, c, k)
      BY <3>1, EdgeOrigin
    <3>3. Slot(s, c, k).tail = n /\ x = Slot(s, c, k).word
      BY <3>1, <3>2 DEF Edge
    <3>4. k \in at
      BY <1>1, <1>5, <3>2, <3>3, MatchesListed
    <3> QED BY <3>3, <3>4
  <2> HIDE DEF at, ds
  <2> QED BY <2>1, <2>2
<1>8. PICK x : x = Slot(s, c, CHOOSE j \in at : TRUE).word
  OBVIOUS
<1>9. at # {} => /\ ds = {x}
                 /\ v = [w EXCEPT !.cur = x, !.index = @ + 1]
  <2> SUFFICES ASSUME at # {}
               PROVE  ds = {x} /\ v = [w EXCEPT !.cur = x, !.index = @ + 1]
    OBVIOUS
  <2>1. PICK k \in at : k = CHOOSE j \in at : TRUE
    OBVIOUS
  <2>2. DentryAt(s, c, k) = Slot(s, c, k) /\ x = Slot(s, c, k).word
    BY <1>2, <1>8, <2>1
  <2>3. v = [w EXCEPT !.cur = x, !.index = @ + 1]
    BY <1>6, <2>1, <2>2
  <2>4. \A j \in at : j = k
    BY <1>4, <1>5, <2>1
  <2> HIDE DEF at, ds, v
  <2> QED BY <1>7, <2>1, <2>2, <2>3, <2>4
<1>10. E \subseteq L \X Names \X (L \ {0})
  BY DEF Walkable, Sound, Graph
<1>11. at = {} => v = [w EXCEPT !.err = missing] /\ ds = {}
  BY <1>6, <1>7
<1>12. ds \subseteq L
  <2> HIDE DEF E
  <2> QED BY <1>10 DEF Under
<1> HIDE DEF v, ds, at, E, t, count
<1>13. CASE at = {}
  <2>1. v \in Walks(L) /\ v.stop = w.stop /\ v.err = missing
    BY <1>11, <1>13 DEF Walks
  <2> QED BY <1>11, <1>13, <2>1 DEF Scanned, v, ds, E, t
<1>14. CASE at # {}
  <2>1. v = [w EXCEPT !.cur = x, !.index = w.index + 1] /\ x \in L /\ w.index + 1 \in Nat
    BY <1>1, <1>9, <1>12, <1>14
  <2>2. v \in Walks(L) /\ v.stop = w.stop /\ v.cur = x /\ v.err = w.err /\ v.index = w.index + 1
    BY <2>1 DEF Walks
  <2> QED BY <1>9, <1>14, <2>2 DEF Scanned, v, ds, E, t
<1> QED BY <1>13, <1>14

\* After i - 1 names the walk is at the node ds that they lead to, or has failed
\* and they lead to none.
Follows(w, ds, i) ==
  IF w.err = "0" THEN ds = {w.cur} /\ w.index = i /\ ~ w.stop ELSE ds = {}

\* The walk is over, and has found ds.
EndsAt(w, ds) == IF w.err = "0" THEN ds = {w.cur} ELSE ds = {}

\* Nothing is below nothing, or below a file.
LEMMA NothingBelow ==
  ASSUME NEW s, NEW L, NEW n
  PROVE  /\ Under(EdgeSet(s, L), {}, n) = {}
         /\ \A c : ~ IsDir(s, c) => Under(EdgeSet(s, L), {c}, n) = {}
<1> DEFINE E == EdgeSet(s, L)
<1>1. \A f \in E : IsDir(s, f[1])
  BY EdgeOrigin
<1> HIDE DEF E
<1>2. ASSUME NEW c, ~ IsDir(s, c)
      PROVE  Under(E, {c}, n) = {}
  BY <1>1, <1>2 DEF Under
<1>3. Under(E, {}, n) = {}
  BY DEF Under
<1> QED BY <1>2, <1>3 DEF E

\* The three ways a turn may go: nothing is left to do, a file is in the way, or
\* the entries are scanned.
LEMMA Turns ==
  ASSUME NEW s, NEW L, Walkable(s, L), NEW w \in Walks(L), NEW n \in Names
  PROVE  /\ \A e \in Errors : [w EXCEPT !.err = e] \in Walks(L) /\ [w EXCEPT !.err = e].err = e
         /\ \A ds, i : /\ Follows(w, ds, i) /\ ~ GoesOn(w) => w.err # "0" /\ Under(EdgeSet(s, L), ds, n) = {}
                       /\ Follows(w, ds, i) /\ GoesOn(w) => ds = {w.cur} /\ w.index = i
                       /\ Follows(w, ds, i) /\ GoesOn(w) /\ ~ IsDir(s, w.cur) =>
                            Under(EdgeSet(s, L), ds, n) = {}
         /\ \A e \in Errors : e # "0"
<1>1. \A e \in Errors : e # "0"
  BY DEF Errors
<1>2. \A e \in Errors : [w EXCEPT !.err = e] \in Walks(L) /\ [w EXCEPT !.err = e].err = e
  BY DEF Walks
<1>3. \A ds, i : /\ Follows(w, ds, i) /\ ~ GoesOn(w) => w.err # "0" /\ ds = {}
                 /\ Follows(w, ds, i) /\ GoesOn(w) => ds = {w.cur} /\ w.index = i
  BY DEF Follows, GoesOn
<1> QED BY <1>1, <1>2, <1>3, NothingBelow

\* A component of getattr's walk.
LEMMA StatTurn ==
  ASSUME NEW s, NEW L, Walkable(s, L), NEW w \in Walks(L), NEW n \in Names, NEW total
  PROVE  /\ StatStep(s, total, w, Spelling[n]) \in Walks(L)
         /\ \A ds, i : Follows(w, ds, i) =>
              Follows(StatStep(s, total, w, Spelling[n]), Under(EdgeSet(s, L), ds, n), i + 1)
<1>1. PICK v : v = StatStep(s, total, w, Spelling[n])
  OBVIOUS
<1>2. "-ENOTDIR" \in Errors /\ "-ENOENT" \in Errors
  BY DEF Errors
<1>3. CASE ~ GoesOn(w)
  <2>1. v = w
    BY <1>1, <1>3 DEF StatStep
  <2> QED BY <1>1, <1>3, <2>1, Turns DEF Follows
<1>4. CASE GoesOn(w) /\ ~ IsDir(s, w.cur) /\ total # w.index
  <2>1. v = [w EXCEPT !.err = "-ENOTDIR"]
    BY <1>1, <1>4 DEF StatStep
  <2>2. v \in Walks(L) /\ v.err # "0"
    BY <1>2, <2>1, Turns
  <2> QED BY <1>1, <1>4, <2>2, Turns DEF Follows
<1>5. CASE GoesOn(w) /\ ~ (~ IsDir(s, w.cur) /\ total # w.index)
  <2>1. v = Scan(s, w, Spelling[n], "-ENOENT")
    BY <1>1, <1>5 DEF StatStep
  <2>2. /\ v \in Walks(L) /\ v.stop = w.stop
        /\ \/ Under(EdgeSet(s, L), {w.cur}, n) = {} /\ v.err = "-ENOENT"
           \/ Under(EdgeSet(s, L), {w.cur}, n) = {v.cur} /\ v.err = w.err /\ v.index = w.index + 1
    <3>1. Scanned(v, s, L, w, n, "-ENOENT")
      BY <1>2, <2>1, ScanFollows
    <3> QED BY <3>1 DEF Scanned
  <2>3. w.err = "0" /\ ~ w.stop
    BY <1>5 DEF GoesOn
  <2>4. \A ds, i : Follows(w, ds, i) => ds = {w.cur} /\ w.index = i
    BY <1>5, Turns
  <2> QED BY <1>1, <2>2, <2>3, <2>4 DEF Follows
<1> QED BY <1>3, <1>4, <1>5

\* One of find_inode_from_path's, and its last.
LEMMA FindTurn ==
  ASSUME NEW s, NEW L, Walkable(s, L), NEW w \in Walks(L), NEW n \in Names, NEW total
  PROVE  LET v == FindStep(s, total, w, Spelling[n])
         IN  /\ v \in Walks(L)
             /\ \A ds, i : Follows(w, ds, i) =>
                  /\ total # i => Follows(v, Under(EdgeSet(s, L), ds, n), i + 1)
                  /\ total = i => EndsAt(v, Under(EdgeSet(s, L), ds, n))
<1>1. PICK v : v = FindStep(s, total, w, Spelling[n])
  OBVIOUS
<1>2. "-ENOTDIR" \in Errors /\ "-1" \in Errors
  BY DEF Errors
<1>3. CASE ~ GoesOn(w)
  <2>1. v = w
    BY <1>1, <1>3 DEF FindStep
  <2> QED BY <1>1, <1>3, <2>1, Turns DEF Follows, EndsAt
<1>4. CASE GoesOn(w) /\ ~ IsDir(s, w.cur) /\ total # w.index
  <2>1. v = [w EXCEPT !.err = "-ENOTDIR"]
    BY <1>1, <1>4 DEF FindStep
  <2>2. v \in Walks(L) /\ v.err # "0"
    BY <1>2, <2>1, Turns
  <2> QED BY <1>1, <1>4, <2>2, Turns DEF Follows, EndsAt
<1>5. CASE GoesOn(w) /\ ~ (~ IsDir(s, w.cur) /\ total # w.index)
  <2>1. PICK u : u = Scan(s, w, Spelling[n], "-1")
    OBVIOUS
  <2>2. v = [u EXCEPT !.stop = total = w.index]
    BY <1>1, <1>5, <2>1 DEF FindStep
  <2>3. /\ u \in Walks(L) /\ u.stop = w.stop
        /\ \/ Under(EdgeSet(s, L), {w.cur}, n) = {} /\ u.err = "-1"
           \/ Under(EdgeSet(s, L), {w.cur}, n) = {u.cur} /\ u.err = w.err /\ u.index = w.index + 1
    <3>1. Scanned(u, s, L, w, n, "-1")
      BY <1>2, <2>1, ScanFollows
    <3> QED BY <3>1 DEF Scanned
  <2>4. /\ v \in Walks(L) /\ v.err = u.err /\ v.cur = u.cur /\ v.index = u.index
        /\ v.stop <=> total = w.index
    BY <2>2, <2>3 DEF Walks
  <2>5. w.err = "0" /\ "-1" # "0"
    BY <1>5 DEF GoesOn
  <2>6. \A ds, i : Follows(w, ds, i) => ds = {w.cur} /\ w.index = i
    BY <1>5, Turns
  <2> QED BY <1>1, <2>3, <2>4, <2>5, <2>6 DEF Follows, EndsAt
<1> QED BY <1>3, <1>4, <1>5

\* The walk has ended at the one directory of ds, or has failed and ds is none.
EndsIn(w, s, ds) ==
  IF w.err = "0" THEN ds = {w.cur} /\ IsDir(s, w.cur) ELSE \A d \in ds : ~ IsDir(s, d)

\* One of the walk to the parent directory, and the last.
LEMMA ParentTurn ==
  ASSUME NEW s, NEW L, Walkable(s, L), NEW w \in Walks(L), NEW n \in Names, NEW total
  PROVE  LET v == ParentStep(s, total, w, Spelling[n])
         IN  /\ v \in Walks(L)
             /\ \A ds, i : Follows(w, ds, i) =>
                  /\ total # i => Follows(v, Under(EdgeSet(s, L), ds, n), i + 1)
                  /\ total = i => EndsIn(v, s, ds)
<1>1. PICK v : v = ParentStep(s, total, w, Spelling[n])
  OBVIOUS
<1>2. "-ENOTDIR" \in Errors /\ "-ENOENT" \in Errors
  BY DEF Errors
<1>3. CASE ~ GoesOn(w)
  <2>1. v = w
    BY <1>1, <1>3 DEF ParentStep
  <2>2. \A ds, i : Follows(w, ds, i) => ds = {} /\ w.err # "0"
    BY <1>3 DEF Follows, GoesOn
  <2> QED BY <1>1, <1>3, <2>1, <2>2, Turns DEF Follows, EndsIn
<1>4. CASE GoesOn(w) /\ ~ IsDir(s, w.cur)
  <2>1. v = [w EXCEPT !.err = "-ENOTDIR"]
    BY <1>1, <1>4 DEF ParentStep
  <2>2. v \in Walks(L) /\ v.err # "0"
    BY <1>2, <2>1, Turns
  <2>3. \A ds, i : Follows(w, ds, i) => ds = {w.cur} /\ Under(EdgeSet(s, L), ds, n) = {}
    BY <1>4, Turns
  <2> QED BY <1>1, <1>4, <2>2, <2>3 DEF Follows, EndsIn
<1>5. CASE GoesOn(w) /\ IsDir(s, w.cur) /\ total = w.index
  <2>1. v = [w EXCEPT !.stop = TRUE]
    BY <1>1, <1>5 DEF ParentStep
  <2>2. v \in Walks(L) /\ v.err = w.err /\ v.cur = w.cur
    BY <2>1 DEF Walks
  <2>3. w.err = "0" /\ \A ds, i : Follows(w, ds, i) => ds = {w.cur} /\ w.index = i
    BY <1>5, Turns DEF GoesOn
  <2> QED BY <1>1, <1>5, <2>2, <2>3 DEF EndsIn
<1>6. CASE GoesOn(w) /\ IsDir(s, w.cur) /\ total # w.index
  <2>1. v = Scan(s, w, Spelling[n], "-ENOENT")
    BY <1>1, <1>6 DEF ParentStep
  <2>2. /\ v \in Walks(L) /\ v.stop = w.stop
        /\ \/ Under(EdgeSet(s, L), {w.cur}, n) = {} /\ v.err = "-ENOENT"
           \/ Under(EdgeSet(s, L), {w.cur}, n) = {v.cur} /\ v.err = w.err /\ v.index = w.index + 1
    <3>1. Scanned(v, s, L, w, n, "-ENOENT")
      BY <1>2, <2>1, ScanFollows
    <3> QED BY <3>1 DEF Scanned
  <2>3. w.err = "0" /\ ~ w.stop
    BY <1>6 DEF GoesOn
  <2>4. \A ds, i : Follows(w, ds, i) => ds = {w.cur} /\ w.index = i
    BY <1>6, Turns
  <2> QED BY <1>1, <1>6, <2>2, <2>3, <2>4 DEF Follows
<1> QED BY <1>3, <1>4, <1>5, <1>6

-----------------------------------------------------------------------------
(* The walks, turn by turn.                                                *)

\* r[k] is where the first k names lead from d.
Trail(r, E, d, ns) ==
  r[0] = {d} /\ \A k \in 1 .. Len(ns) : r[k] = Under(E, r[k - 1], ns[k])

\* g[k] is the state of a walk after k components.
StatRun(g, s, total, ns) ==
  /\ g[0] = Start
  /\ \A k \in 1 .. Len(ns) : g[k] = StatStep(s, total, g[k - 1], Spelling[ns[k]])

\* What find_inode_from_path returns after its loop.
FromRoot(s, ns, w) ==
  IF w.err = "0" /\ ns = <<>> THEN [w EXCEPT !.cur = DentryAt(s, 0, 0).word] ELSE w

FindRun(g, s, total, ns) ==
  /\ g[0] = Start
  /\ \A k \in 1 .. Len(ns) : g[k] = FindStep(s, total, g[k - 1], Spelling[ns[k]])

ParentRun(g, s, total, ns) ==
  /\ g[0] = Start
  /\ \A k \in 1 .. Len(ns) : g[k] = ParentStep(s, total, g[k - 1], Spelling[ns[k]])

\* Along follows the trail.
LEMMA AlongRuns ==
  ASSUME NEW ns \in Seq(Names), NEW E, NEW d
  PROVE  \E r : Trail(r, E, d, ns) /\ Along(E, d, ns) = r[Len(ns)]
<1> DEFINE n == Len(ns)
           Body(k, w) == Under(E, w, ns[k])
           first == {d}
           Eq(f) == f = [k \in 0 .. n |-> IF k = 0 THEN first ELSE Body(k, f[k - 1])]
           after == CHOOSE f : Eq(f)
           A == SUBSET ({d} \cup {e[3] : e \in E})
           h == [k \in 1 .. n |-> [w \in A |-> Body(k, w)]]
<1>1. n \in Nat /\ first \in A /\ h \in [1 .. n -> [A -> A]]
  BY DEF Under
<1>2. PICK g : Loops(g, n, A, first, h)
  <2> HIDE DEF h, n, A, first
  <2> QED BY <1>1, LoopRuns
<1>3. Eq(g)
  <2>1. ASSUME NEW k \in 1 .. n
        PROVE  g[k] = Body(k, g[k - 1])
    <3>1. g[k] = h[k][g[k - 1]] /\ g[k - 1] \in A
      BY <1>2 DEF Loops
    <3> HIDE DEF Body, A, n
    <3> QED BY <3>1
  <2>2. g = [k \in 0 .. n |-> g[k]] /\ g[0] = first
    BY <1>2 DEF Loops
  <2> HIDE DEF Body, first, n, h, A
  <2>3. ASSUME NEW k \in 0 .. n
        PROVE  g[k] = IF k = 0 THEN first ELSE Body(k, g[k - 1])
    <3>1. k = 0 \/ k \in 1 .. n
      BY <1>1
    <3> QED BY <2>1, <2>2, <3>1
  <2>4. [k \in 0 .. n |-> g[k]] = [k \in 0 .. n |-> IF k = 0 THEN first ELSE Body(k, g[k - 1])]
    BY <2>3
  <2> QED BY <2>2, <2>4
<1>4. Eq(after)
  <2> HIDE DEF Eq
  <2> QED BY <1>3
<1>5. after[0] = first /\ \A k \in 1 .. n : after[k] = Body(k, after[k - 1])
  <2> HIDE DEF after, Body, first, n, h, A
  <2> QED BY <1>1, <1>4
<1>6. Along(E, d, ns) = after[n]
  BY DEF Along, Fold
<1> HIDE DEF after
<1> QED BY <1>5, <1>6 DEF Trail

\* The walk of getattr.
LEMMA StatRuns ==
  ASSUME NEW s, NEW L, Walkable(s, L), NEW ns \in Seq(Names), NEW p, NEW total,
         Tokens(p) = Spelt(ns, Len(ns)), total = num_entry_name(p)
  PROVE  \E g : StatRun(g, s, total, ns) /\ StatWalk(s, p) = g[Len(ns)]
<1> DEFINE n == Len(Tokens(p))
           Body(k, w) == StatStep(s, total, w, Tokens(p)[k])
           first == Start
           Eq(f) == f = [k \in 0 .. n |-> IF k = 0 THEN first ELSE Body(k, f[k - 1])]
           after == CHOOSE f : Eq(f)
           A == Walks(L)
           h == [k \in 1 .. n |-> [w \in A |-> Body(k, w)]]
<1>1. n \in Nat /\ first \in A /\ h \in [1 .. n -> [A -> A]]
  <2>1. Start \in Walks(L)
    BY DEF Start, Walks, Walkable, Sound, Graph
  <2>2. n = Len(ns) /\ n \in Nat /\ \A k \in 1 .. n : Tokens(p)[k] = Spelling[ns[k]] /\ ns[k] \in Names
    BY SpeltSeq DEF Spelt
  <2> HIDE DEF n
  <2>3. ASSUME NEW k \in 1 .. n, NEW w \in A
        PROVE  Body(k, w) \in A
    BY <2>2, <2>3, StatTurn
  <2> HIDE DEF Body, A
  <2>4. h \in [1 .. n -> [A -> A]]
    BY <2>3
  <2> QED BY <2>1, <2>2, <2>4 DEF A
<1>2. PICK g : Loops(g, n, A, first, h)
  <2> HIDE DEF h, n, A, first
  <2> QED BY <1>1, LoopRuns
<1>3. Eq(g)
  <2>1. ASSUME NEW k \in 1 .. n
        PROVE  g[k] = Body(k, g[k - 1])
    <3>1. g[k] = h[k][g[k - 1]] /\ g[k - 1] \in A
      BY <1>2 DEF Loops
    <3> HIDE DEF Body, A, n
    <3> QED BY <3>1
  <2>2. g = [k \in 0 .. n |-> g[k]] /\ g[0] = first
    BY <1>2 DEF Loops
  <2> HIDE DEF Body, first, n, h, A
  <2>3. ASSUME NEW k \in 0 .. n
        PROVE  g[k] = IF k = 0 THEN first ELSE Body(k, g[k - 1])
    <3>1. k = 0 \/ k \in 1 .. n
      BY <1>1
    <3> QED BY <2>1, <2>2, <3>1
  <2>4. [k \in 0 .. n |-> g[k]] = [k \in 0 .. n |-> IF k = 0 THEN first ELSE Body(k, g[k - 1])]
    BY <2>3
  <2> QED BY <2>2, <2>4
<1>4. Eq(after)
  <2> HIDE DEF Eq
  <2> QED BY <1>3
<1>5. after[0] = first /\ \A k \in 1 .. n : after[k] = Body(k, after[k - 1])
  <2> HIDE DEF after, Body, first, n, h, A
  <2> QED BY <1>1, <1>4
<1>6. StatWalk(s, p) = after[n]
  BY DEF StatWalk, Fold
<1>7. n = Len(ns) /\ \A k \in 1 .. n : Tokens(p)[k] = Spelling[ns[k]]
  BY SpeltSeq DEF Spelt
<1> HIDE DEF after, n
<1> QED BY <1>5, <1>6, <1>7 DEF StatRun

\* That of find_inode_from_path.
LEMMA FindRuns ==
  ASSUME NEW s, NEW L, Walkable(s, L), NEW ns \in Seq(Names), NEW p, NEW total,
         Tokens(p) = Spelt(ns, Len(ns)), total = num_entry_name(p)
  PROVE  \E g : FindRun(g, s, total, ns) /\ find_inode_from_path(s, p) = FromRoot(s, ns, g[Len(ns)])
<1> DEFINE n == Len(Tokens(p))
           Body(k, w) == FindStep(s, total, w, Tokens(p)[k])
           first == Start
           Eq(f) == f = [k \in 0 .. n |-> IF k = 0 THEN first ELSE Body(k, f[k - 1])]
           after == CHOOSE f : Eq(f)
           A == Walks(L)
           h == [k \in 1 .. n |-> [w \in A |-> Body(k, w)]]
<1>1. n \in Nat /\ first \in A /\ h \in [1 .. n -> [A -> A]]
  <2>1. Start \in Walks(L)
    BY DEF Start, Walks, Walkable, Sound, Graph
  <2>2. n = Len(ns) /\ n \in Nat /\ \A k \in 1 .. n : Tokens(p)[k] = Spelling[ns[k]] /\ ns[k] \in Names
    BY SpeltSeq DEF Spelt
  <2> HIDE DEF n
  <2>3. ASSUME NEW k \in 1 .. n, NEW w \in A
        PROVE  Body(k, w) \in A
    BY <2>2, <2>3, FindTurn
  <2> HIDE DEF Body, A
  <2>4. h \in [1 .. n -> [A -> A]]
    BY <2>3
  <2> QED BY <2>1, <2>2, <2>4 DEF A
<1>2. PICK g : Loops(g, n, A, first, h)
  <2> HIDE DEF h, n, A, first
  <2> QED BY <1>1, LoopRuns
<1>3. Eq(g)
  <2>1. ASSUME NEW k \in 1 .. n
        PROVE  g[k] = Body(k, g[k - 1])
    <3>1. g[k] = h[k][g[k - 1]] /\ g[k - 1] \in A
      BY <1>2 DEF Loops
    <3> HIDE DEF Body, A, n
    <3> QED BY <3>1
  <2>2. g = [k \in 0 .. n |-> g[k]] /\ g[0] = first
    BY <1>2 DEF Loops
  <2> HIDE DEF Body, first, n, h, A
  <2>3. ASSUME NEW k \in 0 .. n
        PROVE  g[k] = IF k = 0 THEN first ELSE Body(k, g[k - 1])
    <3>1. k = 0 \/ k \in 1 .. n
      BY <1>1
    <3> QED BY <2>1, <2>2, <3>1
  <2>4. [k \in 0 .. n |-> g[k]] = [k \in 0 .. n |-> IF k = 0 THEN first ELSE Body(k, g[k - 1])]
    BY <2>3
  <2> QED BY <2>2, <2>4
<1>4. Eq(after)
  <2> HIDE DEF Eq
  <2> QED BY <1>3
<1>5. after[0] = first /\ \A k \in 1 .. n : after[k] = Body(k, after[k - 1])
  <2> HIDE DEF after, Body, first, n, h, A
  <2> QED BY <1>1, <1>4
<1>6. find_inode_from_path(s, p) = FromRoot(s, ns, after[n])
  <2>1. ns = <<>> <=> Tokens(p) = <<>>
    <3>1. Spelt(ns, Len(ns)) \in Seq(Seq(PathChars)) /\ Len(Spelt(ns, Len(ns))) = Len(ns)
      BY SpeltSeq
    <3> QED BY <3>1, EmptySeq
  <2> QED BY <2>1 DEF find_inode_from_path, Fold, FromRoot
<1>7. n = Len(ns) /\ \A k \in 1 .. n : Tokens(p)[k] = Spelling[ns[k]]
  BY SpeltSeq DEF Spelt
<1> HIDE DEF after, n
<1> QED BY <1>5, <1>6, <1>7 DEF FindRun

\* That to the parent directory.
LEMMA ParentWalkRuns ==
  ASSUME NEW s, NEW L, Walkable(s, L), NEW ns \in Seq(Names), NEW p, NEW total,
         Tokens(p) = Spelt(ns, Len(ns)), total = num_entry_name(p)
  PROVE  \E g : ParentRun(g, s, total, ns) /\ ParentWalk(s, p) = g[Len(ns)]
<1> DEFINE n == Len(Tokens(p))
           Body(k, w) == ParentStep(s, total, w, Tokens(p)[k])
           first == Start
           Eq(f) == f = [k \in 0 .. n |-> IF k = 0 THEN first ELSE Body(k, f[k - 1])]
           after == CHOOSE f : Eq(f)
           A == Walks(L)
           h == [k \in 1 .. n |-> [w \in A |-> Body(k, w)]]
<1>1. n \in Nat /\ first \in A /\ h \in [1 .. n -> [A -> A]]
  <2>1. Start \in Walks(L)
    BY DEF Start, Walks, Walkable, Sound, Graph
  <2>2. n = Len(ns) /\ n \in Nat /\ \A k \in 1 .. n : Tokens(p)[k] = Spelling[ns[k]] /\ ns[k] \in Names
    BY SpeltSeq DEF Spelt
  <2> HIDE DEF n
  <2>3. ASSUME NEW k \in 1 .. n, NEW w \in A
        PROVE  Body(k, w) \in A
    BY <2>2, <2>3, ParentTurn
  <2> HIDE DEF Body, A
  <2>4. h \in [1 .. n -> [A -> A]]
    BY <2>3
  <2> QED BY <2>1, <2>2, <2>4 DEF A
<1>2. PICK g : Loops(g, n, A, first, h)
  <2> HIDE DEF h, n, A, first
  <2> QED BY <1>1, LoopRuns
<1>3. Eq(g)
  <2>1. ASSUME NEW k \in 1 .. n
        PROVE  g[k] = Body(k, g[k - 1])
    <3>1. g[k] = h[k][g[k - 1]] /\ g[k - 1] \in A
      BY <1>2 DEF Loops
    <3> HIDE DEF Body, A, n
    <3> QED BY <3>1
  <2>2. g = [k \in 0 .. n |-> g[k]] /\ g[0] = first
    BY <1>2 DEF Loops
  <2> HIDE DEF Body, first, n, h, A
  <2>3. ASSUME NEW k \in 0 .. n
        PROVE  g[k] = IF k = 0 THEN first ELSE Body(k, g[k - 1])
    <3>1. k = 0 \/ k \in 1 .. n
      BY <1>1
    <3> QED BY <2>1, <2>2, <3>1
  <2>4. [k \in 0 .. n |-> g[k]] = [k \in 0 .. n |-> IF k = 0 THEN first ELSE Body(k, g[k - 1])]
    BY <2>3
  <2> QED BY <2>2, <2>4
<1>4. Eq(after)
  <2> HIDE DEF Eq
  <2> QED BY <1>3
<1>5. after[0] = first /\ \A k \in 1 .. n : after[k] = Body(k, after[k - 1])
  <2> HIDE DEF after, Body, first, n, h, A
  <2> QED BY <1>1, <1>4
<1>6. ParentWalk(s, p) = after[n]
  BY DEF ParentWalk, Fold
<1>7. n = Len(ns) /\ \A k \in 1 .. n : Tokens(p)[k] = Spelling[ns[k]]
  BY SpeltSeq DEF Spelt
<1> HIDE DEF after, n
<1> QED BY <1>5, <1>6, <1>7 DEF ParentRun

-----------------------------------------------------------------------------
(* Where the walks end.                                                    *)

\* Where the first names of ns lead.
LEMMA AlongFirst ==
  ASSUME NEW ns \in Seq(Names), NEW E, NEW d, NEW r, Trail(r, E, d, ns), NEW m \in 0 .. Len(ns)
  PROVE  SubSeq(ns, 1, m) \in Seq(Names) /\ Along(E, d, SubSeq(ns, 1, m)) = r[m]
<1>1. PICK ms : ms = SubSeq(ns, 1, m)
  OBVIOUS
<1>2. ms \in Seq(Names) /\ Len(ms) = m /\ m \in Nat /\ \A k \in 1 .. m : ms[k] = ns[k]
  <2>1. m \in Nat /\ Len(ns) \in Nat /\ m <= Len(ns)
    OBVIOUS
  <2>2. CASE m = 0
    <3>1. ms = <<>>
      BY <1>1, <2>2, SubSeqEmpty
    <3> QED BY <2>2, <3>1
  <2>3. CASE m # 0
    <3>1. \A k \in 1 .. m : ns[k] \in Names
      BY <2>1
    <3> QED BY <1>1, <2>1, <2>3, <3>1, SubSeqProperties
  <2> QED BY <2>2, <2>3
<1>3. PICK f : Trail(f, E, d, ms) /\ Along(E, d, ms) = f[m]
  BY <1>2, AlongRuns
<1> DEFINE T == {k \in 0 .. m : f[k] = r[k]}
<1>4. 0 \in T
  <2>1. f[0] = r[0]
    BY <1>3 DEF Trail
  <2> QED BY <1>2, <2>1
<1>5. ASSUME NEW j \in 0 .. m - 1, j \in T
      PROVE  j + 1 \in T
  <2>1. PICK k : k = j + 1
    OBVIOUS
  <2>2. k \in 1 .. m /\ k \in 1 .. Len(ms) /\ k \in 1 .. Len(ns) /\ k - 1 = j /\ k \in 0 .. m
    BY <1>2, <2>1
  <2>3. f[k] = Under(E, f[k - 1], ms[k]) /\ r[k] = Under(E, r[k - 1], ns[k])
    BY <1>3, <2>2 DEF Trail
  <2>4. f[k - 1] = r[k - 1] /\ ms[k] = ns[k]
    BY <1>2, <1>5, <2>2
  <2> QED BY <2>1, <2>2, <2>3, <2>4
<1>6. m \in T
  <2>1. \A j \in 0 .. m - 1 : j \in T => j + 1 \in T
    BY <1>5
  <2> HIDE DEF T
  <2>2. \A j \in 0 .. m : j \in T
    BY <1>2, <1>4, <2>1, UpTo
  <2> QED BY <1>2, <2>2
<1> QED BY <1>1, <1>2, <1>3, <1>6

\* What the walks take from a path, the root's too.
LEMMA Taken ==
  ASSUME NEW ns \in Seq(Names), NEW p, p = PathOf(ns)
  PROVE  num_entry_name(p) = Len(ns) /\ Tokens(p) = Spelt(ns, Len(ns))
<1>1. CASE ns # <<>>
  BY <1>1, PathTaken
<1>2. CASE ns = <<>>
  <2>1. Len(ns) = 0 /\ p = <<"/">>
    BY <1>2, RootTaken
  <2>2. Spelt(ns, 0) = <<>>
    BY DEF Spelt
  <2> QED BY <2>1, <2>2, RootTaken
<1> QED BY <1>1, <1>2

\* Nothing is behind no name; and a walk begins at the root.
LEMMA StartFollows ==
  ASSUME NEW s, NEW L, Walkable(s, L)
  PROVE  Start \in Walks(L) /\ Follows(Start, {0}, 1)
BY DEF Start, Walks, Walkable, Sound, Graph, Follows

\* getattr's walk ends where the names lead.
LEMMA StatEnds ==
  ASSUME NEW s, NEW L, Walkable(s, L), NEW ns \in Seq(Names)
  PROVE  /\ EndsAt(StatWalk(s, PathOf(ns)), Along(EdgeSet(s, L), 0, ns))
         /\ StatWalk(s, PathOf(ns)) \in Walks(L)
<1>1. PICK p, n, E : p = PathOf(ns) /\ n = Len(ns) /\ E = EdgeSet(s, L)
  OBVIOUS
<1>2. n \in Nat /\ num_entry_name(p) = n /\ Tokens(p) = Spelt(ns, n)
  BY <1>1, Taken
<1>3. PICK g : StatRun(g, s, n, ns) /\ StatWalk(s, p) = g[n]
  BY <1>1, <1>2, StatRuns
<1>4. PICK r : Trail(r, E, 0, ns) /\ Along(E, 0, ns) = r[n]
  BY <1>1, AlongRuns
<1> DEFINE T == {k \in 0 .. n : g[k] \in Walks(L) /\ Follows(g[k], r[k], k + 1)}
<1>5. 0 \in T
  <2>1. g[0] = Start /\ r[0] = {0}
    BY <1>3, <1>4 DEF StatRun, Trail
  <2>2. 0 + 1 = 1 /\ 0 \in 0 .. n
    BY <1>2
  <2> QED BY <2>1, <2>2, StartFollows
<1>6. ASSUME NEW j \in 0 .. n - 1, j \in T
      PROVE  j + 1 \in T
  <2>1. PICK k : k = j + 1
    OBVIOUS
  <2>2. k \in 1 .. n /\ k \in 0 .. n /\ k - 1 = j /\ ns[k] \in Names
    BY <1>1, <1>2, <2>1
  <2>3. g[k] = StatStep(s, n, g[j], Spelling[ns[k]]) /\ r[k] = Under(E, r[j], ns[k])
    BY <1>1, <1>3, <1>4, <2>2 DEF StatRun, Trail
  <2>4. g[j] \in Walks(L) /\ Follows(g[j], r[j], k)
    BY <1>6, <2>1
  <2>5. g[k] \in Walks(L) /\ Follows(g[k], r[k], k + 1)
    BY <1>1, <2>2, <2>3, <2>4, StatTurn
  <2> QED BY <2>1, <2>2, <2>5
<1>7. n \in T
  <2>1. \A j \in 0 .. n - 1 : j \in T => j + 1 \in T
    BY <1>6
  <2> HIDE DEF T
  <2>2. \A j \in 0 .. n : j \in T
    BY <1>2, <1>5, <2>1, UpTo
  <2> QED BY <1>2, <2>2
<1>8. g[n] \in Walks(L) /\ Follows(g[n], r[n], n + 1)
  BY <1>7
<1> QED BY <1>1, <1>3, <1>4, <1>8 DEF Follows, EndsAt

\* Up to the last name the two others do as getattr's does.
LEMMA UpToParent ==
  ASSUME NEW s, NEW L, Walkable(s, L), NEW ns \in Seq(Names), ns # <<>>, NEW r, NEW g,
         Trail(r, EdgeSet(s, L), 0, ns),
         FindRun(g, s, Len(ns), ns) \/ ParentRun(g, s, Len(ns), ns)
  PROVE  g[Len(ns) - 1] \in Walks(L) /\ Follows(g[Len(ns) - 1], r[Len(ns) - 1], Len(ns))
<1>1. PICK n, m, E : n = Len(ns) /\ m = n - 1 /\ E = EdgeSet(s, L)
  OBVIOUS
<1>2. n \in Nat /\ m \in Nat /\ n = m + 1
  <2>1. n \in Nat \ {0}
    BY <1>1, EmptySeq
  <2> QED BY <1>1, <2>1
<1> DEFINE T == {k \in 0 .. m : g[k] \in Walks(L) /\ Follows(g[k], r[k], k + 1)}
<1>3. 0 \in T
  <2>1. g[0] = Start /\ r[0] = {0}
    BY DEF FindRun, ParentRun, Trail
  <2>2. 0 + 1 = 1 /\ 0 \in 0 .. m
    BY <1>2
  <2> QED BY <2>1, <2>2, StartFollows
<1>4. ASSUME NEW j \in 0 .. m - 1, j \in T
      PROVE  j + 1 \in T
  <2>1. PICK k : k = j + 1
    OBVIOUS
  <2>2. k \in 1 .. n /\ k \in 0 .. m /\ k - 1 = j /\ ns[k] \in Names /\ n # k
    BY <1>1, <1>2, <2>1
  <2>3. /\ \/ g[k] = FindStep(s, n, g[j], Spelling[ns[k]])
           \/ g[k] = ParentStep(s, n, g[j], Spelling[ns[k]])
        /\ r[k] = Under(E, r[j], ns[k])
    BY <1>1, <2>2 DEF FindRun, ParentRun, Trail
  <2>4. g[j] \in Walks(L) /\ Follows(g[j], r[j], k)
    BY <1>4, <2>1
  <2>5. g[k] \in Walks(L) /\ Follows(g[k], r[k], k + 1)
    <3>1. CASE g[k] = FindStep(s, n, g[j], Spelling[ns[k]])
      BY <1>1, <2>2, <2>3, <2>4, <3>1, FindTurn
    <3>2. CASE g[k] = ParentStep(s, n, g[j], Spelling[ns[k]])
      BY <1>1, <2>2, <2>3, <2>4, <3>2, ParentTurn
    <3> QED BY <2>3, <3>1, <3>2
  <2> QED BY <2>1, <2>2, <2>5
<1>5. m \in T
  <2>1. \A j \in 0 .. m - 1 : j \in T => j + 1 \in T
    BY <1>4
  <2> HIDE DEF T
  <2>2. \A j \in 0 .. m : j \in T
    BY <1>2, <1>3, <2>1, UpTo
  <2> QED BY <1>2, <2>2
<1> QED BY <1>1, <1>2, <1>5

\* find_inode_from_path's ends there too; for "/", at the root's ".".
LEMMA FindEnds ==
  ASSUME NEW s, NEW L, Walkable(s, L), NEW ns \in Seq(Names)
  PROVE  EndsAt(find_inode_from_path(s, PathOf(ns)), Along(EdgeSet(s, L), 0, ns))
<1>1. PICK p, n, E : p = PathOf(ns) /\ n = Len(ns) /\ E = EdgeSet(s, L)
  OBVIOUS
<1>2. n \in Nat /\ num_entry_name(p) = n /\ Tokens(p) = Spelt(ns, n)
  BY <1>1, Taken
<1>3. PICK r : Trail(r, E, 0, ns) /\ Along(E, 0, ns) = r[n]
  BY <1>1, AlongRuns
<1> PICK g : FindRun(g, s, n, ns) /\ find_inode_from_path(s, p) = FromRoot(s, ns, g[n])
  BY <1>1, <1>2, FindRuns
<1>4. CASE ns # <<>>
  <2>1. FindRun(g, s, n, ns) /\ find_inode_from_path(s, p) = g[n]
    BY <1>4 DEF FromRoot
  <2>2. n \in 1 .. n /\ n - 1 \in Nat /\ ns[n] \in Names
    <3>1. n # 0
      BY <1>1, <1>4, EmptySeq
    <3> QED BY <1>1, <1>2, <3>1
  <2>3. PICK m : m = n - 1
    OBVIOUS
  <2>4. g[m] \in Walks(L) /\ Follows(g[m], r[m], n)
    BY <1>1, <1>3, <1>4, <2>1, <2>3, UpToParent
  <2>5. g[n] = FindStep(s, n, g[m], Spelling[ns[n]]) /\ r[n] = Under(E, r[m], ns[n])
    BY <1>1, <1>3, <2>1, <2>2, <2>3 DEF FindRun, Trail
  <2>6. EndsAt(g[n], r[n])
    BY <1>1, <2>2, <2>4, <2>5, FindTurn
  <2> QED BY <1>1, <1>3, <2>1, <2>6
<1>5. CASE ns = <<>>
  <2>1. n = 0 /\ g[0] = Start
    BY <1>1, <1>5 DEF FindRun
  <2>2. r[0] = {0}
    BY <1>3 DEF Trail
  <2>3. 0 \in Inodes /\ LaidOut(s, 0) /\ IsDir(s, 0)
    BY DEF Walkable, Sound, Graph
  <2>4. DentryAt(s, 0, 0).word = 0
    BY <2>3, LaidOutFacts DEF LaidOut, Listed, Dentry
  <2>5. find_inode_from_path(s, p) = [Start EXCEPT !.cur = DentryAt(s, 0, 0).word]
    <3>1. Start.err = "0"
      BY DEF Start
    <3> QED BY <1>5, <2>1, <3>1 DEF FromRoot
  <2>6. find_inode_from_path(s, p).cur = 0 /\ find_inode_from_path(s, p).err = "0"
    BY <2>4, <2>5 DEF Start
  <2> QED BY <1>1, <1>3, <2>1, <2>2, <2>6 DEF EndsAt
<1> QED BY <1>4, <1>5

\* The walk to the parent directory ends where all names but the last lead.
LEMMA ParentEnds ==
  ASSUME NEW s, NEW L, Walkable(s, L), NEW ns \in Seq(Names), ns # <<>>
  PROVE  EndsIn(ParentWalk(s, PathOf(ns)), s,
                Along(EdgeSet(s, L), 0, SubSeq(ns, 1, Len(ns) - 1)))
<1>1. PICK p, n, E, m : p = PathOf(ns) /\ n = Len(ns) /\ E = EdgeSet(s, L) /\ m = n - 1
  OBVIOUS
<1>2. n \in Nat /\ num_entry_name(p) = n /\ Tokens(p) = Spelt(ns, n)
  BY <1>1, Taken
<1>3. n \in 1 .. n /\ m \in 0 .. Len(ns) /\ ns[n] \in Names
  <2>1. n # 0
    BY <1>1, EmptySeq
  <2> QED BY <1>1, <1>2, <2>1
<1>4. PICK r : Trail(r, E, 0, ns)
  BY <1>1, AlongRuns
<1>5. Along(E, 0, SubSeq(ns, 1, m)) = r[m]
  BY <1>3, <1>4, AlongFirst
<1>6. PICK g : ParentRun(g, s, n, ns) /\ ParentWalk(s, p) = g[n]
  BY <1>1, <1>2, ParentWalkRuns
<1>7. g[m] \in Walks(L) /\ Follows(g[m], r[m], n)
  BY <1>1, <1>4, <1>6, UpToParent
<1>8. g[n] = ParentStep(s, n, g[m], Spelling[ns[n]])
  BY <1>1, <1>3, <1>6 DEF ParentRun
<1>9. EndsIn(g[n], s, r[m])
  BY <1>3, <1>7, <1>8, ParentTurn
<1> QED BY <1>1, <1>5, <1>6, <1>9

-----------------------------------------------------------------------------
(* The walks of a run.                                                     *)

\* An intact image is one to walk on, and its edges are those of the tree.
LEMMA WalkableImage ==
  ASSUME IInv, SoundInv, FilesNameless, Intact
  PROVE  /\ Walkable(img, Reachable)
         /\ \A d, ns : InTree(d, ns) = Along(EdgeSet(img, Reachable), d, ns)
<1>1. Sound(img, Reachable) /\ Reachable \in SUBSET Inodes /\ img \in ImageType
  BY SoundImage
<1>2. IsDir(img, 0)
  BY DEF IInv, RootKept, IsDir
<1>3. Nameless(img, Reachable)
  BY DEF FilesNameless
<1>4. Edges = EdgeSet(img, Reachable)
  BY <1>1, EdgesSeen DEF Edges
<1>5. Walkable(img, Reachable)
  BY <1>1, <1>2, <1>3 DEF Walkable, ImageType
<1> QED BY <1>4, <1>5 DEF InTree

\* The paths the properties look at.
LEMMA NamePath ==
  ASSUME NEW ns \in NamePaths
  PROVE  ns \in Seq(Names) /\ ns # <<>> /\ ~ (Len(PathOf(ns)) >= PathMax)
<1>1. PICK l \in 1 .. MaxDepth : ns \in [1 .. l -> Names]
  BY DEF NamePaths
<1>2. ns \in Seq(Names) /\ ns # <<>>
  <2>1. l \in Nat /\ l # 0
    BY <1>1, PathAssumption
  <2>2. ns \in Seq(Names) /\ Len(ns) = l
    BY <1>1, <2>1, LenProperties, IsASeq
  <2> QED BY <2>1, <2>2, EmptySeq
<1>3. PICK q : Prefixes(q, ns) /\ PathOf(ns) = q[Len(ns)]
  BY <1>2, PathRuns
<1>4. Len(PathOf(ns)) \in Nat
  <2>1. Len(ns) \in 0 .. Len(ns)
    BY <1>2
  <2> QED BY <1>2, <1>3, <2>1, PrefixChars
<1> QED BY <1>2, <1>4, PathAssumption DEF NamePaths

\* A node the walks come to.
LEMMA NodeFound ==
  ASSUME IInv, SoundInv, FilesNameless, Intact, NEW ns \in Seq(Names), NEW i \in InTree(0, ns)
  PROVE  /\ i \in Reachable /\ InTree(0, ns) = {i}
         /\ StatWalk(img, PathOf(ns)).err = "0" /\ StatWalk(img, PathOf(ns)).cur = i
         /\ find_inode_from_path(img, PathOf(ns)).cur = i
<1>1. /\ EndsAt(StatWalk(img, PathOf(ns)), InTree(0, ns))
      /\ StatWalk(img, PathOf(ns)) \in Walks(Reachable)
      /\ EndsAt(find_inode_from_path(img, PathOf(ns)), InTree(0, ns))
  BY WalkableImage, StatEnds, FindEnds
<1>2. /\ StatWalk(img, PathOf(ns)).err = "0" /\ InTree(0, ns) = {StatWalk(img, PathOf(ns)).cur}
      /\ InTree(0, ns) = {find_inode_from_path(img, PathOf(ns)).cur}
  BY <1>1 DEF EndsAt
<1>3. StatWalk(img, PathOf(ns)).cur \in Reachable
  BY <1>1 DEF Walks
<1> QED BY <1>2, <1>3

\* getattr finds what the tree has at a path of names, and nothing else, however
\* deep the tree and long the path.
THEOREM StatFindsTree == Spec => []StatIsTree
<1>1. ASSUME IInv, SoundInv, FilesNameless
      PROVE  StatIsTree
  <2> SUFFICES ASSUME Intact, NEW ns \in NamePaths
               PROVE  LET w == getattr(img, PathOf(ns))
                      IN  InTree(0, ns) = IF w.err = "0" THEN {w.cur} ELSE {}
    BY DEF StatIsTree
  <2>1. ns \in Seq(Names) /\ getattr(img, PathOf(ns)) = StatWalk(img, PathOf(ns))
    BY NamePath DEF getattr
  <2>2. EndsAt(StatWalk(img, PathOf(ns)), InTree(0, ns))
    BY <1>1, <2>1, WalkableImage, StatEnds
  <2> QED BY <2>1, <2>2 DEF EndsAt
<1> QED BY <1>1, Invariant, SoundInvariant, FilesAreNameless, PTL

\* The three walks, over the whole path or over what get_parent_path leaves of
\* it, come to the same inode, or all to none, however deep the tree.
THEOREM WalksAllAgree == Spec => []WalksAgree
<1>1. ASSUME IInv, SoundInv, FilesNameless
      PROVE  WalksAgree
  <2> SUFFICES ASSUME Intact, NEW ns \in NamePaths
               PROVE  LET path   == PathOf(ns)
                          stat   == getattr(img, path)
                          find   == find_inode_from_path(img, path)
                          parent == ParentWalk(img, path)
                          above  == find_inode_from_path(img, get_parent_path(path))
                      IN  /\ stat.err = "0" <=> find.err = "0"
                          /\ stat.err = "0" => find.cur = stat.cur
                          /\ parent.err = "0" <=> above.err = "0" /\ IsDir(img, above.cur)
                          /\ parent.err = "0" => above.cur = parent.cur
                          /\ get_last_entry(path) = Tokens(path)[Len(Tokens(path))]
    BY DEF WalksAgree
  <2>1. PICK n, p, up : n = Len(ns) /\ p = PathOf(ns) /\ up = SubSeq(ns, 1, n - 1)
    OBVIOUS
  <2>2. ns \in Seq(Names) /\ ns # <<>> /\ getattr(img, p) = StatWalk(img, p)
    BY <2>1, NamePath DEF getattr
  <2>3. n \in 1 .. n /\ n \in 0 .. n /\ n - 1 \in 0 .. n
    <3>1. n \in Nat /\ n # 0
      BY <2>1, <2>2, EmptySeq
    <3> QED BY <3>1
  <2>4. up \in Seq(Names)
    <3>1. PICK r : Trail(r, {}, 0, ns)
      BY <2>2, AlongRuns
    <3> QED BY <2>1, <2>2, <2>3, <3>1, AlongFirst
  <2>5. /\ EndsAt(StatWalk(img, p), InTree(0, ns))
        /\ EndsAt(find_inode_from_path(img, p), InTree(0, ns))
        /\ EndsIn(ParentWalk(img, p), img, InTree(0, up))
        /\ EndsAt(find_inode_from_path(img, PathOf(up)), InTree(0, up))
    BY <1>1, <2>1, <2>2, <2>4, WalkableImage, StatEnds, FindEnds, ParentEnds
  <2>6. /\ get_parent_path(p) = PathOf(up)
        /\ get_last_entry(p) = Spelling[ns[n]]
        /\ Tokens(p) = Spelt(ns, n)
    BY <2>1, <2>2, PathTaken
  <2>7. get_last_entry(p) = Tokens(p)[Len(Tokens(p))]
    <3>1. Len(Tokens(p)) = n /\ Tokens(p)[n] = Spelling[ns[n]]
      BY <2>1, <2>2, <2>3, <2>6, SpeltSeq DEF Spelt
    <3> QED BY <2>6, <3>1
  <2>8. PICK stat, find, parent, above :
          /\ stat = StatWalk(img, p) /\ find = find_inode_from_path(img, p)
          /\ parent = ParentWalk(img, p) /\ above = find_inode_from_path(img, PathOf(up))
    OBVIOUS
  <2>9. /\ stat.err = "0" <=> find.err = "0"
        /\ stat.err = "0" => find.cur = stat.cur
    BY <2>5, <2>8 DEF EndsAt
  <2>10. /\ parent.err = "0" <=> above.err = "0" /\ IsDir(img, above.cur)
         /\ parent.err = "0" => above.cur = parent.cur
    BY <2>5, <2>8 DEF EndsAt, EndsIn
  <2> QED BY <2>1, <2>2, <2>6, <2>7, <2>8, <2>9, <2>10
<1> QED BY <1>1, Invariant, SoundInvariant, FilesAreNameless, PTL

=============================================================================

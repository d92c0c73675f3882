------------------------------ MODULE LayoutProofs ------------------------------
(***************************************************************************)
(* FolderInv and PageOK are an inductive invariant of PaneLayout, for any  *)
(* folders and any number of workspaces, threads, panes and asynchronous   *)
(* calls.                                                                  *)
(*                                                                         *)
(* The first part is about lists: induction, for which a set stands for    *)
(* the induction hypothesis, and what Keep leaves of a list.  The second   *)
(* is about the functions that lay out the panes, the third about the      *)
(* steps of the page.                                                      *)
(***************************************************************************)
EXTENDS LayoutInv, Integers, FiniteSetTheorems, WellFoundedInduction, TLAPS

----------------------------------------------------------------------------
\* Lists.

\* The well-foundedness of < on Nat, without an operator as an argument.
LEMMA NatWellFounded == \E R : /\ R = {p \in Nat \X Nat : p[1] < p[2]}
                               /\ IsWellFoundedOn(R, Nat)
  BY NatLessThanWellFounded, Zenon DEF OpToRel

LEMMA Least ==
  ASSUME NEW T, T \subseteq Nat, T # {}
  PROVE \E n \in T : \A m \in T : n <= m
<1>1. PICK R : R = {p \in Nat \X Nat : p[1] < p[2]} /\ IsWellFoundedOn(R, Nat)
  BY NatWellFounded
<1>2. PICK x \in T : \A y \in T : ~(<<y, x>> \in R)
  BY <1>1, WFMin, Zenon
<1>3. ASSUME NEW y \in T PROVE x <= y
  <2>1. x \in Nat /\ y \in Nat
    OBVIOUS
  <2>2. ~(<<y, x>> \in {p \in Nat \X Nat : p[1] < p[2]})
    BY <1>1, <1>2
  <2> QED BY <2>1, <2>2
<1> QED BY <1>3

\* Induction over n, with the set S of the numbers that the claim holds for.
LEMMA Induction ==
  ASSUME NEW S, 0 \in S, \A n \in Nat : n \in S => n + 1 \in S
  PROVE  \A n \in Nat : n \in S
<1> SUFFICES ASSUME Nat \ S # {} PROVE FALSE
  OBVIOUS
<1>1. PICK n \in Nat \ S : \A m \in Nat \ S : n <= m
  <2>1. Nat \ S \subseteq Nat
    OBVIOUS
  <2> QED BY <2>1, Least
<1>2. n # 0 /\ n - 1 \in Nat /\ n - 1 < n /\ (n - 1) + 1 = n
  BY <1>1
<1>3. n - 1 \in S
  BY <1>1, <1>2
<1> QED BY <1>1, <1>2, <1>3

\* f is what N steps make of v0: a recursive function exists.
Iterates(f, N, V, v0, step) ==
    /\ f \in [0 .. N -> V] /\ f[0] = v0
    /\ \A n \in 1 .. N : f[n] = step[n][f[n - 1]]

LEMMA Recursion ==
  ASSUME NEW N \in Nat, NEW V, NEW v0 \in V, NEW step \in [1 .. N -> [V -> V]]
  PROVE  \E f : Iterates(f, N, V, v0, step)
<1> DEFINE Upto(n, f) == f \in [0 .. n -> V] /\ f[0] = v0 /\ \A m \in 1 .. n : f[m] = step[m][f[m - 1]]
           S == {n \in Nat : n <= N => \E f : Upto(n, f)}
<1>1. 0 \in S
  <2>1. Upto(0, [i \in 0 .. 0 |-> v0])
    OBVIOUS
  <2> QED BY <2>1
<1>2. ASSUME NEW n \in Nat, n \in S PROVE n + 1 \in S
  <2> SUFFICES ASSUME n + 1 <= N PROVE \E f : Upto(n + 1, f)
    OBVIOUS
  <2>1. PICK f : Upto(n, f)
    BY <1>2
  <2> DEFINE g == [i \in 0 .. n + 1 |-> IF i = n + 1 THEN step[n + 1][f[n]] ELSE f[i]]
  <2>2. step[n + 1][f[n]] \in V
    BY <2>1
  <2>3. g \in [0 .. n + 1 -> V] /\ g[0] = v0
    BY <2>1, <2>2
  <2>4. ASSUME NEW m \in 1 .. n + 1 PROVE g[m] = step[m][g[m - 1]]
    BY <2>1
  <2>5. Upto(n + 1, g)
    BY <2>3, <2>4
  <2> HIDE DEF Upto, g
  <2> QED BY <2>5
<1> HIDE DEF S
<1>3. N \in S
  BY <1>1, <1>2, Induction
<1>4. PICK f : Upto(N, f)
  BY <1>3 DEF S
<1> QED BY <1>4 DEF Iterates

\* f[n] is what Keep leaves of the first n elements of s.
Keeps(f, X, s, S) ==
    /\ f \in [0 .. Len(s) -> Seq(X)]
    /\ f[0] = <<>> /\ f[Len(s)] = Keep(s, S)
    /\ \A n \in 1 .. Len(s) : f[n] = IF s[n] \in S THEN Append(f[n - 1], s[n]) ELSE f[n - 1]

LEMMA KeepSteps ==
  ASSUME NEW X, NEW s \in Seq(X), NEW S
  PROVE  \E f : Keeps(f, X, s, S)
<1> DEFINE N == Len(s)
           V == Seq(X)
           StepTo(n, v) == IF s[n] \in S THEN Append(v, s[n]) ELSE v
           step == [n \in 1 .. N |-> [v \in V |-> StepTo(n, v)]]
           Def(g) == [n \in 0 .. N |-> IF n = 0 THEN <<>>
                        ELSE IF s[n] \in S THEN Append(g[n - 1], s[n]) ELSE g[n - 1]]
<1>0. N \in Nat /\ <<>> \in V /\ \A n \in 1 .. N : \A v \in V : StepTo(n, v) \in V
  OBVIOUS
<1>1. step \in [1 .. N -> [V -> V]] /\ \A n \in 1 .. N : \A v \in V : step[n][v] = StepTo(n, v)
  <2> HIDE DEF StepTo, V, N
  <2> QED BY <1>0
<1>2. PICK f : Iterates(f, N, V, <<>>, step)
  <2> HIDE DEF step, N, V
  <2> QED BY <1>0, <1>1, Recursion
<1>2a. f \in [0 .. N -> V] /\ f[0] = <<>> /\ \A n \in 1 .. N : f[n] = step[n][f[n - 1]]
  BY <1>2 DEF Iterates
<1>3. \A n \in 1 .. N : f[n - 1] \in V /\ f[n] = StepTo(n, f[n - 1])
  <2> HIDE DEF step, V, StepTo
  <2> SUFFICES ASSUME NEW n \in 1 .. N PROVE f[n - 1] \in V /\ f[n] = StepTo(n, f[n - 1])
    OBVIOUS
  <2>1. n - 1 \in 0 .. N
    BY <1>0
  <2> HIDE DEF N
  <2>2. f[n - 1] \in V
    BY <2>1, <1>2a
  <2> QED BY <2>2, <1>1, <1>2a
<1>4. f = Def(f)
  <2> HIDE DEF step, V, N
  <2>1. \A n \in 0 .. N : n # 0 => n \in 1 .. N
    BY <1>0
  <2>2. \A n \in 0 .. N : f[n] = Def(f)[n]
    BY <1>2a, <1>3, <2>1
  <2> QED BY <2>2, <1>2a
<1> DEFINE g == CHOOSE h : h = Def(h)
<1>5. g = Def(g) /\ Keep(s, S) = g[N]
  BY <1>4 DEF Keep
<1> HIDE DEF g
<1>6. \A n \in Nat : n \in {m \in Nat : m <= N => g[m] = f[m]}
  <2>1. g[0] = f[0]
    BY <1>0, <1>2a, <1>5
  <2>2. ASSUME NEW n \in Nat, n + 1 <= N, g[n] = f[n] PROVE g[n + 1] = f[n + 1]
    <3> HIDE DEF N, V
    <3>1. n + 1 \in 1 .. N /\ n + 1 \in 0 .. N /\ n + 1 # 0 /\ (n + 1) - 1 = n
      BY <1>0, <2>2
    <3>2. f[n + 1] = StepTo(n + 1, f[n])
      <4> HIDE DEF StepTo
      <4> QED BY <1>3, <3>1
    <3>3. Def(g)[n + 1] = StepTo(n + 1, g[n])
      BY <3>1
    <3>4. g[n + 1] = Def(g)[n + 1]
      BY <1>5
    <3> QED BY <2>2, <3>2, <3>3, <3>4
  <2> DEFINE M == {m \in Nat : m <= N => g[m] = f[m]}
  <2>3. 0 \in M /\ \A n \in Nat : n \in M => n + 1 \in M
    <3> HIDE DEF N
    <3> QED BY <1>0, <2>1, <2>2
  <2> HIDE DEF M
  <2>4. \A n \in Nat : n \in M
    BY <2>3, Induction
  <2> QED BY <2>4 DEF M
<1>7. g[N] = f[N]
  BY <1>0, <1>6
<1> QED BY <1>0, <1>2a, <1>3, <1>5, <1>7 DEF Keeps

\* What Keep leaves: the elements that are in S, no more often than before, and
\* all of the list if all of them are.
LEMMA KeepFacts ==
  ASSUME NEW X, NEW s \in Seq(X), NEW S
  PROVE  /\ Keep(s, S) \in Seq(X)
         /\ ToSet(Keep(s, S)) = ToSet(s) \cap S
         /\ IsInjective(s) => IsInjective(Keep(s, S))
         /\ ToSet(s) \subseteq S => Keep(s, S) = s
<1>0. PICK f : Keeps(f, X, s, S)
  BY KeepSteps
<1>1. /\ f \in [0 .. Len(s) -> Seq(X)]
      /\ f[0] = <<>> /\ f[Len(s)] = Keep(s, S)
      /\ \A n \in 1 .. Len(s) : f[n] = IF s[n] \in S THEN Append(f[n - 1], s[n]) ELSE f[n - 1]
  BY <1>0 DEF Keeps
<1> DEFINE Q(n) == /\ \A x : x \in ToSet(f[n]) <=> x \in S /\ \E i \in 1 .. n : s[i] = x
                   /\ IsInjective(s) => IsInjective(f[n])
                   /\ ToSet(s) \subseteq S => f[n] = SubSeq(s, 1, n)
           M == {n \in Nat : n <= Len(s) => Q(n)}
<1>2. 0 \in M
  BY <1>1 DEF ToSet, IsInjective
<1>3. ASSUME NEW n \in Nat, n \in M PROVE n + 1 \in M
  <2> SUFFICES ASSUME n + 1 <= Len(s) PROVE Q(n + 1)
    OBVIOUS
  <2>1. /\ Q(n) /\ f[n] \in Seq(X) /\ s[n + 1] \in X /\ n + 1 \in DOMAIN s
        /\ f[n + 1] = IF s[n + 1] \in S THEN Append(f[n], s[n + 1]) ELSE f[n]
    BY <1>1, <1>3
  <2>2. \A x : x \in ToSet(Append(f[n], s[n + 1])) <=> x \in ToSet(f[n]) \/ x = s[n + 1]
    <3> DEFINE t == f[n]  y == s[n + 1]
    <3>1. t \in Seq(X) /\ y \in X
      BY <2>1
    <3> HIDE DEF t, y
    <3>2. /\ DOMAIN Append(t, y) = DOMAIN t \cup {Len(t) + 1} /\ Append(t, y)[Len(t) + 1] = y
          /\ \A i \in DOMAIN t : Append(t, y)[i] = t[i]
      BY <3>1
    <3>3. \A x : x \in ToSet(Append(t, y)) <=> x \in ToSet(t) \/ x = y
      BY <3>2 DEF ToSet
    <3> QED BY <3>3 DEF t, y
  <2>3. \A x : x \in ToSet(f[n + 1]) <=> x \in S /\ \E i \in 1 .. n + 1 : s[i] = x
    <3>1. \A x : (\E i \in 1 .. n + 1 : s[i] = x) <=> (\E i \in 1 .. n : s[i] = x) \/ x = s[n + 1]
      OBVIOUS
    <3> QED BY <2>1, <2>2, <3>1
  <2>4. ASSUME IsInjective(s) PROVE IsInjective(f[n + 1])
    <3>1. CASE s[n + 1] \notin S
      BY <2>1, <2>4, <3>1
    <3>2. CASE s[n + 1] \in S
      <4>1. s[n + 1] \notin ToSet(f[n])
        BY <2>1, <2>4 DEF IsInjective
      <4> DEFINE t == f[n]  y == s[n + 1]
      <4>2. t \in Seq(X) /\ y \in X /\ IsInjective(t) /\ y \notin ToSet(t)
        BY <2>1, <2>4, <4>1
      <4> HIDE DEF t, y
      <4>3. IsInjective(Append(t, y))
        BY <4>2 DEF ToSet, IsInjective
      <4> QED BY <2>1, <3>2, <4>3 DEF t, y
    <3> QED BY <3>1, <3>2
  <2>5. ASSUME ToSet(s) \subseteq S PROVE f[n + 1] = SubSeq(s, 1, n + 1)
    <3>1. s[n + 1] \in S
      BY <2>1, <2>5 DEF ToSet
    <3>2. f[n + 1] = Append(SubSeq(s, 1, n), s[n + 1])
      BY <2>1, <2>5, <3>1
    <3>3. Append(SubSeq(s, 1, n), s[n + 1]) = SubSeq(s, 1, n + 1)
      OBVIOUS
    <3> QED BY <3>2, <3>3
  <2> QED BY <2>3, <2>4, <2>5
<1>4. Q(Len(s))
  <2> HIDE DEF Q
  <2>1. 0 \in M /\ \A n \in Nat : n \in M => n + 1 \in M
    BY <1>2, <1>3
  <2> HIDE DEF M
  <2>2. Len(s) \in M
    BY <2>1, Induction
  <2> QED BY <2>2 DEF M
<1>5. \A x : x \in ToSet(s) <=> \E i \in 1 .. Len(s) : s[i] = x
  BY DEF ToSet
<1>6. SubSeq(s, 1, Len(s)) = s
  OBVIOUS
<1> QED BY <1>1, <1>4, <1>5, <1>6

\* And Keep moves no element to the right.
LEMMA KeepPlaces ==
  ASSUME NEW X, NEW s \in Seq(X), NEW S
  PROVE  \A i \in DOMAIN s : s[i] \in S => \E k \in DOMAIN Keep(s, S) : k <= i /\ Keep(s, S)[k] = s[i]
<1>0. PICK f : Keeps(f, X, s, S)
  BY KeepSteps
<1>1. /\ f \in [0 .. Len(s) -> Seq(X)]
      /\ f[0] = <<>> /\ f[Len(s)] = Keep(s, S)
      /\ \A n \in 1 .. Len(s) : f[n] = IF s[n] \in S THEN Append(f[n - 1], s[n]) ELSE f[n - 1]
  BY <1>0 DEF Keeps
<1> DEFINE Q(n) == /\ Len(f[n]) <= n
                   /\ \A i \in 1 .. n : s[i] \in S => \E k \in DOMAIN f[n] : k <= i /\ f[n][k] = s[i]
           M == {n \in Nat : n <= Len(s) => Q(n)}
<1>2. 0 \in M
  BY <1>1
<1>3. ASSUME NEW n \in Nat, n \in M PROVE n + 1 \in M
  <2> SUFFICES ASSUME n + 1 <= Len(s) PROVE Q(n + 1)
    OBVIOUS
  <2> DEFINE t == f[n]  y == s[n + 1]  u == f[n + 1]
  <2>1. /\ Q(n) /\ t \in Seq(X) /\ y \in X
        /\ u = IF y \in S THEN Append(t, y) ELSE t
    BY <1>1, <1>3
  <2> HIDE DEF t, y, u
  <2>2. CASE y \notin S
    <3>1. u = t /\ Len(t) \in Nat
      BY <2>1, <2>2
    <3>2. \A i \in 1 .. n + 1 : s[i] \in S => i \in 1 .. n
      BY <2>2 DEF y
    <3>3. Len(t) <= n + 1
      BY <2>1, <3>1 DEF t
    <3> QED BY <2>1, <3>1, <3>2, <3>3 DEF t, u
  <2>3. CASE y \in S
    <3>1. /\ u = Append(t, y) /\ Len(t) \in Nat /\ Len(u) = Len(t) + 1
          /\ DOMAIN u = DOMAIN t \cup {Len(t) + 1} /\ u[Len(t) + 1] = y
          /\ \A k \in DOMAIN t : u[k] = t[k]
      BY <2>1, <2>3
    <3>2. Len(t) <= n
      BY <2>1 DEF t
    <3>3. ASSUME NEW i \in 1 .. n + 1, s[i] \in S PROVE \E k \in DOMAIN u : k <= i /\ u[k] = s[i]
      <4>1. CASE i = n + 1
        BY <3>1, <3>2, <4>1 DEF y
      <4>2. CASE i # n + 1
        <5>1. i \in 1 .. n
          BY <4>2
        <5>2. PICK k \in DOMAIN t : k <= i /\ t[k] = s[i]
          BY <2>1, <3>3, <5>1 DEF t
        <5> QED BY <3>1, <5>2
      <4> QED BY <4>1, <4>2
    <3> QED BY <3>1, <3>2, <3>3 DEF u
  <2> QED BY <2>2, <2>3
<1>4. Q(Len(s))
  <2> HIDE DEF Q
  <2>1. 0 \in M /\ \A n \in Nat : n \in M => n + 1 \in M
    BY <1>2, <1>3
  <2> HIDE DEF M
  <2>2. Len(s) \in M
    BY <2>1, Induction
  <2> QED BY <2>2 DEF M
<1> QED BY <1>1, <1>4

LEMMA Members == \A s, x : x \in ToSet(s) <=> \E i \in DOMAIN s : s[i] = x
  BY DEF ToSet

\* A list without repetitions is no longer than one that has all its elements.
LEMMA SameLength ==
  ASSUME NEW s \in Seq(Nat), NEW t \in Seq(Nat), IsInjective(s), ToSet(s) \subseteq ToSet(t)
  PROVE  Len(s) <= Len(t)
<1> SUFFICES ASSUME Len(t) < Len(s) PROVE FALSE
  OBVIOUS
<1> DEFINE S == 1 .. Len(s)  T == 1 .. Len(t)
           f == [i \in S |-> CHOOSE j \in T : t[j] = s[i]]
<1>1. ASSUME NEW i \in S PROVE \E j \in T : t[j] = s[i]
  <2>1. i \in DOMAIN s /\ DOMAIN t = T
    OBVIOUS
  <2>2. s[i] \in ToSet(t)
    BY <2>1, Members
  <2> QED BY <2>1, <2>2, Members
<1>2. \A i \in S : f[i] \in T /\ t[f[i]] = s[i]
  BY <1>1
<1>3. IsFiniteSet(S) /\ IsFiniteSet(T) /\ Cardinality(S) = Len(s) /\ Cardinality(T) = Len(t)
  <2>1. ASSUME NEW n \in Nat PROVE IsFiniteSet(1 .. n) /\ Cardinality(1 .. n) = n
    <3>1. 1 \in Int /\ n \in Int /\ (IF 1 > n THEN 0 ELSE n - 1 + 1) = n
      OBVIOUS
    <3> QED BY <3>1, FS_Interval
  <2> QED BY <2>1
<1>4. f \in [S -> T]
  BY <1>2
<1>5. \E x, y \in S : x # y /\ f[x] = f[y]
  <2> HIDE DEF S, T, f
  <2>1. Cardinality(T) < Cardinality(S)
    BY <1>3
  <2> QED BY <1>3, <1>4, <2>1, FS_PigeonHole
<1>6. \A x, y \in S : f[x] = f[y] => x = y
  <2> HIDE DEF f
  <2>1. \A x, y \in S : f[x] = f[y] => s[x] = s[y]
    BY <1>2
  <2> QED BY <2>1 DEF IsInjective
<1> QED BY <1>5, <1>6

\* What NormalizePaneIds takes the first elements of.
IsFilled(q, panes, open) ==
    /\ q \in Seq(Nat) /\ IsInjective(q)
    /\ ToSet(q) = ToSet(open) /\ Len(q) = Len(open)
    /\ IsInjective(panes) /\ ToSet(panes) \subseteq ToSet(open)
         => Len(panes) <= Len(q) /\ \A i \in DOMAIN panes : q[i] = panes[i]
    /\ IsInjective(panes)
         => \A i \in DOMAIN panes :
              panes[i] \in ToSet(open) => \E k \in DOMAIN q : k <= i /\ q[k] = panes[i]
    /\ \A n \in Nat : NormalizePaneIds(panes, open, n)
                        = SubSeq(q, 1, Smaller(Larger(1, n), Len(open)))

LEMMA Concat ==
  ASSUME NEW s \in Seq(Nat), NEW t \in Seq(Nat), IsInjective(s), IsInjective(t),
         ToSet(s) \cap ToSet(t) = {}
  PROVE  /\ s \o t \in Seq(Nat) /\ IsInjective(s \o t)
         /\ ToSet(s \o t) = ToSet(s) \cup ToSet(t)
         /\ Len(s) <= Len(s \o t) /\ \A i \in DOMAIN s : (s \o t)[i] = s[i]
<1> DEFINE q == s \o t
<1>1. q \in Seq(Nat) /\ Len(q) = Len(s) + Len(t) /\ DOMAIN q = 1 .. Len(s) + Len(t)
  OBVIOUS
<1>2. \A i \in DOMAIN q : /\ i <= Len(s) => i \in DOMAIN s /\ q[i] = s[i]
                          /\ i > Len(s) => i - Len(s) \in DOMAIN t /\ q[i] = t[i - Len(s)]
  OBVIOUS
<1>3. \A i \in DOMAIN s : i \in DOMAIN q /\ i <= Len(s)
  BY <1>1
<1>4. \A i \in DOMAIN t : i + Len(s) \in DOMAIN q /\ i + Len(s) > Len(s) /\ (i + Len(s)) - Len(s) = i
  BY <1>1
<1> HIDE DEF q
<1>5. ToSet(q) = ToSet(s) \cup ToSet(t)
  <2>1. ToSet(q) \subseteq ToSet(s) \cup ToSet(t)
    <3> SUFFICES ASSUME NEW i \in DOMAIN q PROVE q[i] \in ToSet(s) \cup ToSet(t)
      BY Members
    <3>1. i \in Nat /\ Len(s) \in Nat
      BY <1>1
    <3>2. CASE i <= Len(s)
      BY <1>2, <3>2, Members
    <3>3. CASE i > Len(s)
      BY <1>2, <3>3, Members
    <3> QED BY <3>1, <3>2, <3>3
  <2>2. ToSet(s) \subseteq ToSet(q)
    BY <1>2, <1>3, Members
  <2>3. ToSet(t) \subseteq ToSet(q)
    BY <1>2, <1>4, Members
  <2> QED BY <2>1, <2>2, <2>3
<1>6. IsInjective(q)
  <2> SUFFICES ASSUME NEW i \in DOMAIN q, NEW j \in DOMAIN q, q[i] = q[j] PROVE i = j
    BY DEF IsInjective
  <2>0. i \in Nat /\ j \in Nat /\ Len(s) \in Nat
    BY <1>1
  <2>1. CASE i <= Len(s) /\ j <= Len(s)
    BY <1>2, <2>1 DEF IsInjective
  <2>2. CASE i > Len(s) /\ j > Len(s)
    <3>1. i - Len(s) = j - Len(s)
      BY <1>2, <2>2 DEF IsInjective
    <3> QED BY <2>0, <3>1
  <2>3. CASE i <= Len(s) /\ j > Len(s)
    BY <1>2, <2>3, Members
  <2>4. CASE i > Len(s) /\ j <= Len(s)
    BY <1>2, <2>4, Members
  <2> QED BY <2>0, <2>1, <2>2, <2>3, <2>4
<1> QED BY <1>1, <1>2, <1>3, <1>5, <1>6 DEF q

LEMMA Filled ==
  ASSUME NEW panes \in Seq(Nat), NEW open \in Seq(Nat), IsInjective(open)
  PROVE  \E q : IsFilled(q, panes, open)
<1> DEFINE ids == [i \in DOMAIN panes |-> i]
           new == {i \in DOMAIN panes :
                    Contains(open, panes[i]) /\ \A j \in 1 .. i - 1 : panes[j] /= panes[i]}
           first == Keep(ids, new)
           unique == [i \in DOMAIN first |-> panes[first[i]]]
           rest == Keep(open, ToSet(open) \ ToSet(unique))
           q == unique \o rest
<1>1. ids \in Seq(Nat) /\ IsInjective(ids) /\ ToSet(ids) = DOMAIN panes
  <2>1. DOMAIN ids = DOMAIN panes /\ \A i \in DOMAIN panes : ids[i] = i
    OBVIOUS
  <2>2. ids \in Seq(Nat)
    OBVIOUS
  <2> HIDE DEF ids
  <2>3. ASSUME NEW x PROVE x \in ToSet(ids) <=> x \in DOMAIN panes
    BY <2>1, Members
  <2> QED BY <2>1, <2>2, <2>3 DEF IsInjective
<1>2. /\ first \in Seq(Nat) /\ IsInjective(first) /\ ToSet(first) = new
      /\ new = DOMAIN panes => first = ids
  <2>1. new \subseteq DOMAIN panes
    OBVIOUS
  <2> HIDE DEF ids, new
  <2>2. /\ Keep(ids, new) \in Seq(Nat) /\ ToSet(Keep(ids, new)) = ToSet(ids) \cap new
        /\ IsInjective(ids) => IsInjective(Keep(ids, new))
        /\ ToSet(ids) \subseteq new => Keep(ids, new) = ids
    BY <1>1, KeepFacts
  <2> QED BY <1>1, <2>1, <2>2
<1>3. \A i \in DOMAIN first : first[i] \in new
  <2> HIDE DEF new, first
  <2> QED BY <1>2 DEF ToSet
<1>4. unique \in Seq(Nat) /\ DOMAIN unique = DOMAIN first
  <2> HIDE DEF first
  <2>1. \A i \in DOMAIN first : panes[first[i]] \in Nat
    BY <1>3
  <2>2. DOMAIN first = 1 .. Len(first) /\ Len(first) \in Nat
    BY <1>2
  <2> QED BY <2>1, <2>2
<1>5. IsInjective(unique) /\ ToSet(unique) \subseteq ToSet(open)
  <2>1. \A i, j \in new : panes[i] = panes[j] => i = j
    <3> SUFFICES ASSUME NEW i \in new, NEW j \in new, panes[i] = panes[j], i < j PROVE FALSE
      OBVIOUS
    <3> QED OBVIOUS
  <2>2. \A i \in new : panes[i] \in ToSet(open)
    BY DEF Contains, ToSet
  <2>3. \A i \in DOMAIN first : unique[i] = panes[first[i]]
    OBVIOUS
  <2> HIDE DEF new, first, unique
  <2>4. ToSet(unique) \subseteq ToSet(open)
    <3> SUFFICES ASSUME NEW i \in DOMAIN unique PROVE unique[i] \in ToSet(open)
      BY Members
    <3> QED BY <1>3, <1>4, <2>2, <2>3
  <2>5. ASSUME NEW i \in DOMAIN unique, NEW j \in DOMAIN unique, unique[i] = unique[j] PROVE i = j
    <3>1. first[i] \in new /\ first[j] \in new
      BY <1>3, <1>4
    <3>2. unique[i] = panes[first[i]] /\ unique[j] = panes[first[j]]
      BY <1>4, <2>3
    <3>3. first[i] = first[j]
      BY <2>1, <2>5, <3>1, <3>2
    <3> QED BY <1>2, <1>4, <3>3 DEF IsInjective
  <2> QED BY <2>4, <2>5 DEF IsInjective
<1>6. /\ rest \in Seq(Nat) /\ IsInjective(rest)
      /\ ToSet(rest) = ToSet(open) \ ToSet(unique)
  <2> HIDE DEF unique
  <2> QED BY KeepFacts
<1>7. /\ q \in Seq(Nat) /\ IsInjective(q) /\ ToSet(q) = ToSet(open)
      /\ Len(unique) <= Len(q) /\ \A i \in DOMAIN unique : q[i] = unique[i]
  <2> HIDE DEF unique, rest
  <2> QED BY <1>4, <1>5, <1>6, Concat
<1>8. Len(q) = Len(open)
  <2> HIDE DEF q
  <2>1. Len(q) <= Len(open) /\ Len(open) <= Len(q)
    BY <1>7, SameLength
  <2> QED BY <1>7, <2>1
<1>9. ASSUME IsInjective(panes), ToSet(panes) \subseteq ToSet(open) PROVE unique = panes
  <2>1. new = DOMAIN panes
    <3> SUFFICES ASSUME NEW i \in DOMAIN panes
                 PROVE  Contains(open, panes[i]) /\ \A j \in 1 .. i - 1 : panes[j] /= panes[i]
      OBVIOUS
    <3>1. panes[i] \in ToSet(open)
      BY <1>9, Members
    <3>2. Contains(open, panes[i])
      BY <3>1, Members DEF Contains
    <3>3. \A j \in 1 .. i - 1 : j \in DOMAIN panes /\ j /= i
      OBVIOUS
    <3> QED BY <1>9, <3>2, <3>3 DEF IsInjective
  <2>2. first = ids
    BY <1>2, <2>1
  <2>3. unique = [i \in DOMAIN ids |-> panes[ids[i]]]
    <3> HIDE DEF first, ids
    <3> QED BY <2>2
  <2>4. [i \in DOMAIN ids |-> panes[ids[i]]] = panes
    OBVIOUS
  <2> QED BY <2>3, <2>4
<1>10. ASSUME NEW n \in Nat
       PROVE NormalizePaneIds(panes, open, n) = SubSeq(q, 1, Smaller(Larger(1, n), Len(open)))
  <2> DEFINE target == Smaller(Larger(1, n), Larger(1, Len(open)))
  <2>1. NormalizePaneIds(panes, open, n) = SubSeq(q, 1, Smaller(target, Len(q)))
    BY DEF NormalizePaneIds
  <2>2. Smaller(target, Len(open)) = Smaller(Larger(1, n), Len(open))
    BY DEF Smaller, Larger
  <2> HIDE DEF q, target
  <2> QED BY <1>8, <2>1, <2>2
<1>11. ASSUME IsInjective(panes), NEW i \in DOMAIN panes, panes[i] \in ToSet(open)
       PROVE  \E k \in DOMAIN q : k <= i /\ q[k] = panes[i]
  <2>1. i \in new
    <3>1. Contains(open, panes[i])
      BY <1>11, Members DEF Contains
    <3>2. \A j \in 1 .. i - 1 : j \in DOMAIN panes /\ j /= i
      OBVIOUS
    <3> QED BY <1>11, <3>1, <3>2 DEF IsInjective
  <2>2. i \in DOMAIN ids /\ ids[i] = i
    OBVIOUS
  <2> HIDE DEF ids, new
  <2>3. PICK k \in DOMAIN first : k <= i /\ first[k] = i
    BY <1>1, <2>1, <2>2, KeepPlaces
  <2> HIDE DEF first
  <2>4. k \in DOMAIN unique /\ unique[k] = panes[i]
    BY <1>4, <2>3
  <2> HIDE DEF q, unique
  <2>5. k \in DOMAIN q
    <3>1. DOMAIN unique = 1 .. Len(unique) /\ DOMAIN q = 1 .. Len(q) /\ Len(unique) \in Nat /\ Len(q) \in Nat
      BY <1>4, <1>7
    <3> QED BY <1>7, <2>4, <3>1
  <2> QED BY <1>7, <2>3, <2>4, <2>5
<1> HIDE DEF q, unique
<1>12. IsFilled(q, panes, open)
  BY <1>7, <1>8, <1>9, <1>10, <1>11 DEF IsFilled
<1> QED BY <1>12

----------------------------------------------------------------------------
\* Panes.

LEMMA ContainsMembers == ASSUME NEW s \in Seq(Nat), NEW x PROVE Contains(s, x) <=> x \in ToSet(s)
<1>1. DOMAIN s = 1 .. Len(s)
  OBVIOUS
<1> QED BY <1>1, Members DEF Contains

LEMMA Prefix ==
  ASSUME NEW q \in Seq(Nat), IsInjective(q), NEW n \in Nat, n <= Len(q)
  PROVE  /\ SubSeq(q, 1, n) \in Seq(Nat) /\ IsInjective(SubSeq(q, 1, n))
         /\ Len(SubSeq(q, 1, n)) = n /\ \A i \in 1 .. n : SubSeq(q, 1, n)[i] = q[i]
         /\ ToSet(SubSeq(q, 1, n)) \subseteq ToSet(q)
<1> DEFINE p == SubSeq(q, 1, n)
<1>1. /\ p \in Seq(Nat) /\ Len(p) = n /\ DOMAIN p = 1 .. n
      /\ \A i \in 1 .. n : p[i] = q[i] /\ i \in DOMAIN q
  OBVIOUS
<1> HIDE DEF p
<1>2. IsInjective(p)
  BY <1>1 DEF IsInjective
<1>3. ToSet(p) \subseteq ToSet(q)
  <2> SUFFICES ASSUME NEW i \in DOMAIN p PROVE p[i] \in ToSet(q)
    BY Members
  <2> QED BY <1>1, Members
<1> QED BY <1>1, <1>2, <1>3 DEF p

LEMMA Joined ==
  ASSUME NEW s \in Seq(Nat), NEW t \in Seq(Nat)
  PROVE  /\ s \o t \in Seq(Nat) /\ Len(s \o t) = Len(s) + Len(t)
         /\ DOMAIN (s \o t) = 1 .. Len(s) + Len(t)
         /\ \A i \in 1 .. Len(s) : (s \o t)[i] = s[i]
         /\ \A i \in 1 .. Len(t) : (s \o t)[Len(s) + i] = t[i]
OBVIOUS

\* assignToPane: one more thread in the panes, where it was asked for or before.
LEMMA Assigned ==
  ASSUME NEW panes \in Seq(Nat), IsInjective(panes), NEW id \in Nat, NEW index \in Nat
  PROVE  LET a == AssignToPane(panes, id, index) IN
         /\ a \in Seq(Nat) /\ IsInjective(a) /\ ToSet(a) = ToSet(panes) \cup {id}
         /\ \E k \in DOMAIN a : a[k] = id /\ k <= index + 1
<1> DEFINE others == Keep(panes, ToSet(panes) \ {id})
           n == Smaller(index, Len(others))
           left == SubSeq(others, 1, n)
           right == SubSeq(others, n + 1, Len(others))
           a == left \o <<id>> \o right
<1>1. /\ others \in Seq(Nat) /\ IsInjective(others)
      /\ ToSet(others) = ToSet(panes) \ {id}
  <2>1. ToSet(panes) \cap (ToSet(panes) \ {id}) = ToSet(panes) \ {id}
    OBVIOUS
  <2> QED BY <2>1, KeepFacts
<1> HIDE DEF others
<1>2. AssignToPane(panes, id, index) = a
  <2>1. n \in Nat
    BY <1>1 DEF Smaller
  <2>2. AssignToPane(panes, id, index) = InsertAt(others, n + 1, id)
    BY DEF AssignToPane, others
  <2> HIDE DEF n
  <2> DEFINE k == n + 1
  <2>3. k - 1 = n
    BY <2>1
  <2>4. SubSeq(others, k, Len(others)) = right
    OBVIOUS
  <2> HIDE DEF k
  <2>5. InsertAt(others, k, id) = SubSeq(others, 1, k - 1) \o <<id>> \o SubSeq(others, k, Len(others))
    BY DEF InsertAt
  <2>6. InsertAt(others, k, id) = a
    BY <2>3, <2>4, <2>5
  <2> QED BY <2>2, <2>6 DEF k
<1>3. n \in Nat /\ n <= Len(others) /\ n <= index
  BY <1>1 DEF Smaller
<1> HIDE DEF n
<1>4. /\ a \in Seq(Nat) /\ Len(a) = Len(others) + 1 /\ DOMAIN a = 1 .. Len(others) + 1
      /\ a[n + 1] = id
      /\ \A i \in 1 .. n : a[i] = others[i] /\ i \in DOMAIN others
      /\ \A i \in n + 2 .. Len(others) + 1 : a[i] = others[i - 1] /\ i - 1 \in DOMAIN others
  <2>1. /\ left \in Seq(Nat) /\ Len(left) = n /\ \A i \in 1 .. n : left[i] = others[i]
        /\ right \in Seq(Nat) /\ Len(right) = Len(others) - n
        /\ \A i \in 1 .. Len(others) - n : right[i] = others[n + i]
    BY <1>1, <1>3
  <2> HIDE DEF left, right
  <2> DEFINE b == left \o <<id>>
  <2>2. /\ b \in Seq(Nat) /\ Len(b) = n + 1 /\ b[n + 1] = id
        /\ \A i \in 1 .. n : b[i] = others[i]
    BY <1>3, <2>1
  <2> HIDE DEF b
  <2>3. /\ b \o right \in Seq(Nat) /\ Len(b \o right) = Len(others) + 1
        /\ DOMAIN (b \o right) = 1 .. Len(others) + 1
        /\ \A i \in 1 .. n + 1 : (b \o right)[i] = b[i]
        /\ \A i \in 1 .. Len(others) - n : (b \o right)[n + 1 + i] = right[i]
    <3>1. Len(b) + Len(right) = Len(others) + 1
      BY <1>1, <1>3, <2>1, <2>2
    <3>2. /\ b \o right \in Seq(Nat) /\ Len(b \o right) = Len(b) + Len(right)
          /\ DOMAIN (b \o right) = 1 .. Len(b) + Len(right)
          /\ \A i \in 1 .. Len(b) : (b \o right)[i] = b[i]
          /\ \A i \in 1 .. Len(right) : (b \o right)[Len(b) + i] = right[i]
      BY <2>1, <2>2, Joined
    <3>3. \A i \in 1 .. Len(others) - n : (b \o right)[n + 1 + i] = right[i]
      BY <2>1, <2>2, <3>2
    <3> QED BY <2>2, <3>1, <3>2, <3>3
  <2>4. a = b \o right
    BY DEF b
  <2> HIDE DEF a
  <2>5. ASSUME NEW i \in 1 .. n PROVE a[i] = others[i] /\ i \in DOMAIN others
    <3>1. i \in 1 .. n + 1 /\ i \in DOMAIN others
      BY <1>1, <1>3
    <3> QED BY <2>2, <2>3, <2>4, <3>1
  <2>6. ASSUME NEW i \in n + 2 .. Len(others) + 1 PROVE a[i] = others[i - 1] /\ i - 1 \in DOMAIN others
    <3> DEFINE k == i - (n + 1)
    <3>1. /\ k \in 1 .. Len(others) - n /\ n + 1 + k = i /\ n + k = i - 1
          /\ i - 1 \in DOMAIN others
      BY <1>1, <1>3
    <3> HIDE DEF k
    <3>2. a[i] = right[k]
      BY <2>3, <2>4, <3>1
    <3>3. right[k] = others[i - 1]
      BY <2>1, <3>1
    <3> QED BY <3>1, <3>2, <3>3
  <2>7. n + 1 \in 1 .. n + 1
    BY <1>3
  <2>8. a[n + 1] = id
    BY <2>2, <2>3, <2>4, <2>7
  <2> QED BY <2>3, <2>4, <2>5, <2>6, <2>8
<1> HIDE DEF a
<1> DEFINE at(i) == IF i <= n THEN i ELSE i - 1
<1>5. \A i \in DOMAIN a : i # n + 1 => at(i) \in DOMAIN others /\ a[i] = others[at(i)]
  BY <1>1, <1>3, <1>4
<1>6. \A i \in DOMAIN others : \E j \in DOMAIN a : a[j] = others[i]
  <2> SUFFICES ASSUME NEW i \in DOMAIN others PROVE \E j \in DOMAIN a : a[j] = others[i]
    OBVIOUS
  <2>1. CASE i <= n
    <3>1. i \in 1 .. n /\ i \in DOMAIN a
      BY <1>1, <1>3, <1>4, <2>1
    <3>2. a[i] = others[i]
      BY <1>4, <3>1
    <3> QED BY <3>1, <3>2
  <2>2. CASE i > n
    <3> DEFINE j == i + 1
    <3>1. i \in Int /\ j - 1 = i
      BY <1>1
    <3>2. j \in n + 2 .. Len(others) + 1
      BY <1>1, <1>3, <2>2
    <3> HIDE DEF j
    <3>3. j \in DOMAIN a
      BY <1>3, <1>4, <3>2
    <3>4. a[j] = others[i]
      BY <1>4, <3>1, <3>2
    <3> QED BY <3>3, <3>4
  <2> QED BY <1>1, <1>3, <2>1, <2>2
<1>7. \A i \in DOMAIN a : i # n + 1 => a[i] \in ToSet(others)
  BY <1>5, Members
<1>8. n + 1 \in DOMAIN a
  BY <1>3, <1>4
<1>9. ToSet(a) = ToSet(panes) \cup {id}
  <2>1. ToSet(a) \subseteq ToSet(others) \cup {id}
    <3> SUFFICES ASSUME NEW i \in DOMAIN a PROVE a[i] \in ToSet(others) \cup {id}
      BY Members
    <3> QED BY <1>4, <1>7
  <2>2. ToSet(others) \subseteq ToSet(a)
    <3> SUFFICES ASSUME NEW i \in DOMAIN others PROVE others[i] \in ToSet(a)
      BY Members
    <3> QED BY <1>6, Members
  <2>3. id \in ToSet(a)
    BY <1>4, <1>8, Members
  <2> QED BY <1>1, <2>1, <2>2, <2>3
<1>10. IsInjective(a)
  <2> SUFFICES ASSUME NEW i \in DOMAIN a, NEW j \in DOMAIN a, a[i] = a[j] PROVE i = j
    BY DEF IsInjective
  <2>1. CASE i = n + 1 \/ j = n + 1
    BY <1>1, <1>4, <1>7, <2>1
  <2>2. CASE i # n + 1 /\ j # n + 1
    <3>1. at(i) = at(j)
      <4> HIDE DEF at
      <4> QED BY <1>1, <1>5, <2>2 DEF IsInjective
    <3>2. i \in Nat /\ j \in Nat
      BY <1>1, <1>4
    <3> QED BY <1>3, <2>2, <3>1, <3>2
  <2> QED BY <2>1, <2>2
<1>11. \E k \in DOMAIN a : a[k] = id /\ k <= index + 1
  <2>1. n + 1 \in DOMAIN a /\ a[n + 1] = id /\ n + 1 <= index + 1
    BY <1>3, <1>4, <1>8
  <2> QED BY <2>1
<1> QED BY <1>2, <1>4, <1>9, <1>10, <1>11

LEMMA Counts ==
  ASSUME NEW r \in Nat \ {0}, NEW room \in Nat \ {0}, NEW len \in Nat
  PROVE  LET count == Smaller(r, Smaller(room, Larger(1, len)))
             n == Smaller(Larger(1, count), len)
         IN count \in Nat /\ n \in Nat /\ n <= len /\ n = Smaller(Smaller(r, room), len)
BY DEF Smaller, Larger

\* What the window shows of a layout that fits: as many threads as asked for, as
\* there is room for and as are open, those in their panes first.
LEMMA Visible ==
  ASSUME NEW l, Fits(l), NEW shot \in Snapshots \ {Nothing}, NEW room \in Nat \ {0},
         ToSet(l.open) \subseteq 1 .. shot.threads
  PROVE  LET visible == VisibleThreads(l, shot, room) IN
         /\ OpenThreads(l, shot) = l.open
         /\ visible = PaneIds(l, shot, room)
         /\ Len(visible) = Smaller(Smaller(l.requested, room), Len(l.open))
         /\ visible \in Seq(Nat) /\ ToSet(visible) \subseteq ToSet(l.open)
         /\ room >= l.requested
              => /\ visible = NormalizePaneIds(l.panes, l.open, l.requested)
                 /\ \A k \in DOMAIN l.panes : k <= l.requested => l.panes[k] \in ToSet(visible)
<1>1. /\ l.open \in Seq(Nat) /\ l.panes \in Seq(Nat) /\ l.requested \in Nat \ {0}
      /\ IsInjective(l.open) /\ IsInjective(l.panes)
      /\ ToSet(l.panes) \subseteq ToSet(l.open)
  BY DEF Fits, Layouts
<1>2. OpenThreads(l, shot) = l.open
  BY <1>1, KeepFacts DEF OpenThreads
<1> DEFINE count == Smaller(l.requested, Smaller(room, Larger(1, Len(l.open))))
           n == Smaller(Larger(1, count), Len(l.open))
<1>3. PaneIds(l, shot, room) = NormalizePaneIds(l.panes, l.open, count)
  BY <1>2 DEF PaneIds, MaxSplitCount
<1>4. PICK q : IsFilled(q, l.panes, l.open)
  BY <1>1, Filled
<1>5. /\ q \in Seq(Nat) /\ IsInjective(q) /\ Len(q) = Len(l.open) /\ ToSet(q) = ToSet(l.open)
      /\ Len(l.panes) <= Len(q) /\ \A i \in DOMAIN l.panes : q[i] = l.panes[i]
      /\ \A m \in Nat : NormalizePaneIds(l.panes, l.open, m)
                          = SubSeq(q, 1, Smaller(Larger(1, m), Len(l.open)))
  BY <1>1, <1>4 DEF IsFilled
<1>6. count \in Nat /\ n \in Nat /\ n <= Len(q) /\ n = Smaller(Smaller(l.requested, room), Len(l.open))
  <2>1. Len(l.open) \in Nat /\ l.requested \in Nat \ {0}
    BY <1>1
  <2> QED BY <1>5, <2>1, Counts
<1>7. PaneIds(l, shot, room) = SubSeq(q, 1, n)
  <2> HIDE DEF count
  <2> QED BY <1>3, <1>5, <1>6
<1> HIDE DEF count, n
<1> DEFINE p == SubSeq(q, 1, n)
<1>8. /\ p \in Seq(Nat) /\ Len(p) = n /\ ToSet(p) \subseteq ToSet(l.open)
      /\ \A i \in 1 .. n : p[i] = q[i]
  BY <1>5, <1>6, Prefix
<1> HIDE DEF p
<1>9. VisibleThreads(l, shot, room) = p
  <2>1. VisibleThreads(l, shot, room) = Keep(p, ToSet(l.open))
    BY <1>2, <1>7 DEF VisibleThreads, p
  <2> QED BY <1>8, <2>1, KeepFacts
<1>10. ASSUME room >= l.requested
       PROVE /\ p = NormalizePaneIds(l.panes, l.open, l.requested)
             /\ \A k \in DOMAIN l.panes : k <= l.requested => l.panes[k] \in ToSet(p)
  <2>1. Smaller(Larger(1, l.requested), Len(l.open)) = n /\ n = Smaller(l.requested, Len(l.open))
    BY <1>1, <1>6, <1>10 DEF Smaller, Larger
  <2>2. p = NormalizePaneIds(l.panes, l.open, l.requested)
    BY <1>1, <1>5, <2>1 DEF p
  <2>3. ASSUME NEW k \in DOMAIN l.panes, k <= l.requested PROVE l.panes[k] \in ToSet(p)
    <3>1. k \in 1 .. n
      <4>1. k \in Nat /\ 1 <= k /\ k <= Len(l.panes) /\ Len(l.open) \in Nat /\ Len(l.panes) \in Nat
        BY <1>1
      <4>2. k <= Len(l.open)
        BY <1>5, <4>1
      <4>3. k <= n
        BY <2>1, <2>3, <4>2 DEF Smaller
      <4> QED BY <1>6, <4>1, <4>3
    <3>2. p[k] = l.panes[k]
      BY <1>5, <1>8, <2>3, <3>1
    <3>3. k \in DOMAIN p
      BY <1>8, <3>1
    <3> QED BY <3>2, <3>3, Members
  <2> QED BY <2>2, <2>3
<1> QED BY <1>2, <1>6, <1>7, <1>8, <1>9, <1>10 DEF p

LEMMA NormalizedPanes ==
  ASSUME NEW panes \in Seq(Nat), NEW open \in Seq(Nat), IsInjective(open), NEW n \in Nat
  PROVE  LET p == NormalizePaneIds(panes, open, n) IN
         /\ p \in Seq(Nat) /\ IsInjective(p) /\ ToSet(p) \subseteq ToSet(open)
         /\ Len(p) = Smaller(Larger(1, n), Len(open))
<1>1. PICK q : IsFilled(q, panes, open)
  BY Filled
<1> DEFINE m == Smaller(Larger(1, n), Len(open))
<1>2. /\ q \in Seq(Nat) /\ IsInjective(q) /\ Len(q) = Len(open) /\ ToSet(q) = ToSet(open)
      /\ NormalizePaneIds(panes, open, n) = SubSeq(q, 1, m)
  BY <1>1 DEF IsFilled
<1>3. m \in Nat /\ m <= Len(q)
  BY <1>2 DEF Smaller, Larger
<1> HIDE DEF m
<1>4. /\ SubSeq(q, 1, m) \in Seq(Nat) /\ IsInjective(SubSeq(q, 1, m))
      /\ Len(SubSeq(q, 1, m)) = m /\ ToSet(SubSeq(q, 1, m)) \subseteq ToSet(q)
  BY <1>2, <1>3, Prefix
<1> QED BY <1>2, <1>4 DEF m

\* What stays open keeps its pane or moves to the left.
LEMMA PanesStay ==
  ASSUME NEW panes \in Seq(Nat), NEW open \in Seq(Nat), IsInjective(panes), IsInjective(open),
         NEW n \in Nat \ {0}, NEW i \in DOMAIN panes, i <= n, panes[i] \in ToSet(open)
  PROVE  LET p == NormalizePaneIds(panes, open, n)
         IN \E k \in DOMAIN p : k <= n /\ p[k] = panes[i]
<1>1. PICK q : IsFilled(q, panes, open)
  BY Filled
<1> DEFINE m == Smaller(Larger(1, n), Len(open))
<1>2. /\ q \in Seq(Nat) /\ IsInjective(q) /\ Len(q) = Len(open)
      /\ NormalizePaneIds(panes, open, n) = SubSeq(q, 1, m)
  BY <1>1 DEF IsFilled
<1>3. PICK k \in DOMAIN q : k <= i /\ q[k] = panes[i]
  BY <1>1 DEF IsFilled
<1>4. /\ m \in Nat /\ m <= Len(q) /\ k \in 1 .. m /\ k <= n
  <2>1. k \in Nat /\ 1 <= k /\ k <= Len(q) /\ i \in Nat /\ Len(q) \in Nat
    BY <1>2
  <2> QED BY <1>2, <1>3, <2>1 DEF Smaller, Larger
<1> HIDE DEF m
<1>5. /\ Len(SubSeq(q, 1, m)) = m /\ SubSeq(q, 1, m) \in Seq(Nat)
      /\ SubSeq(q, 1, m)[k] = q[k]
  BY <1>2, <1>4, Prefix
<1>6. k \in DOMAIN SubSeq(q, 1, m)
  BY <1>4, <1>5
<1> QED BY <1>2, <1>3, <1>4, <1>5, <1>6

LEMMA OnlyOne ==
  ASSUME NEW c \in Nat \cup {Nothing}
  PROVE  /\ Only(c) \in Seq(Nat) /\ IsInjective(Only(c))
         /\ ToSet(Only(c)) = IF c = Nothing THEN {} ELSE {c}
         /\ Only(c) = <<>> <=> c = Nothing
         /\ c # Nothing => Only(c) = <<c>>
<1> USE LayoutAssumption
<1>1. CASE c = Nothing
  BY <1>1, Members DEF Only, IsInjective
<1>2. CASE c # Nothing
  <2>1. Only(c) = <<c>> /\ c \in Nat
    BY <1>2 DEF Only
  <2>2. <<c>> \in Seq(Nat) /\ DOMAIN <<c>> = {1} /\ <<c>>[1] = c /\ <<c>> # <<>>
    BY <2>1
  <2>3. \A x : x \in ToSet(<<c>>) <=> x = c
    BY <2>2, Members
  <2>4. IsInjective(<<c>>)
    BY <2>2 DEF IsInjective
  <2> QED BY <1>2, <2>1, <2>2, <2>3, <2>4
<1> QED BY <1>1, <1>2

LEMMA FirstIs == ASSUME NEW list, NEW c \in FirstOf(list) PROVE c = Nothing \/ c \in list
BY DEF FirstOf

\* selectWorkspace, activateConversation and normalizeUi: the layout fits again.
LEMMA Selected ==
  ASSUME NEW l, Fits(l), NEW shot \in Snapshots, NEW w \in Subjects,
         NEW m \in SelectWorkspace(l, shot, w)
  PROVE  /\ Fits(m) /\ m.requested = l.requested /\ m.panes = m.open
         /\ ToSet(m.open) \subseteq IF shot = Nothing THEN {} ELSE 1 .. shot.threads
         /\ m.active # Nothing => m.open = <<m.active>>
<1> USE LayoutAssumption
<1>1. PICK c \in FirstOf(IF shot = Nothing THEN {} ELSE ThreadsOf(shot, w)) :
         m = [l EXCEPT !.selected = w, !.active = c, !.open = Only(c), !.panes = Only(c)]
  BY DEF SelectWorkspace
<1>2. c = Nothing \/ (shot # Nothing /\ c \in 1 .. shot.threads)
  <2> DEFINE list == IF shot = Nothing THEN {} ELSE ThreadsOf(shot, w)
  <2>1. c = Nothing \/ c \in list
    <3> HIDE DEF list
    <3>1. c \in FirstOf(list)
      BY <1>1 DEF list
    <3> QED BY <3>1, FirstIs
  <2>2. ThreadsOf(shot, w) \subseteq 1 .. shot.threads
    BY DEF ThreadsOf
  <2>3. CASE shot = Nothing
    <3>1. list = {}
      BY <2>3
    <3> HIDE DEF list
    <3> QED BY <2>1, <3>1
  <2>4. CASE shot # Nothing
    <3>1. list = ThreadsOf(shot, w)
      BY <2>4
    <3> HIDE DEF list
    <3> QED BY <2>1, <2>2, <2>4, <3>1
  <2> QED BY <2>3, <2>4
<1>3. c \in Nat \cup {Nothing}
  BY <1>2 DEF Snapshots
<1>4. l \in Layouts
  BY DEF Fits
<1>5. /\ m \in Layouts /\ m.requested = l.requested /\ m.active = c
      /\ m.open = Only(c) /\ m.panes = Only(c)
  BY <1>1, <1>3, <1>4, OnlyOne DEF Layouts
<1>6. Fits(m)
  BY <1>3, <1>5, OnlyOne DEF Fits
<1> QED BY <1>2, <1>3, <1>5, <1>6, OnlyOne

\* The position that SelectInSeq finds.
LEMMA MinIsNat == ASSUME NEW I, I \subseteq Nat PROVE (IF I # {} THEN Min(I) ELSE 0) \in Nat
<1>1. ASSUME I # {} PROVE Min(I) \in Nat
  <2>1. \E i \in I : \A j \in I : i <= j
    BY <1>1, Least
  <2>2. Min(I) \in I
    BY <2>1 DEF Min
  <2> QED BY <2>2
<1> QED BY <1>1

LEMMA Activated ==
  ASSUME NEW l, Fits(l), NEW c \in DOMAIN threads, threads \in Seq(Nat)
  PROVE  LET m == ActivateConversation(l, c) IN
         /\ Fits(m) /\ m.requested = l.requested /\ m.active = c
         /\ ToSet(m.open) = ToSet(l.open) \cup {c}
         /\ \E k \in DOMAIN m.panes : k <= m.requested /\ m.panes[k] = c
<1> DEFINE open == IF Contains(l.open, c) THEN l.open ELSE Append(l.open, c)
           at == SelectInSeq(l.panes, LAMBDA id : id = l.active)
           index == Smaller(IF at = 0 THEN 0 ELSE at - 1, l.requested - 1)
           shown == NormalizePaneIds(l.panes, open, l.requested)
           panes == AssignToPane(shown, c, index)
           m == ActivateConversation(l, c)
<1>1. /\ l \in Layouts /\ l.open \in Seq(Nat) /\ l.panes \in Seq(Nat) /\ l.requested \in Nat \ {0}
      /\ IsInjective(l.open)
  BY DEF Fits, Layouts
<1>2. c \in Nat /\ threads[c] \in Nat
  OBVIOUS
<1>3. open \in Seq(Nat) /\ IsInjective(open) /\ ToSet(open) = ToSet(l.open) \cup {c}
  <2> DEFINE s == l.open
  <2>1. s \in Seq(Nat) /\ IsInjective(s)
    BY <1>1
  <2> HIDE DEF s
  <2>2. CASE Contains(s, c)
    BY <2>1, <2>2, ContainsMembers DEF s
  <2>3. CASE ~Contains(s, c)
    <3>1. c \notin ToSet(s)
      BY <2>1, <2>3, ContainsMembers
    <3>2. /\ Append(s, c) \in Seq(Nat) /\ DOMAIN Append(s, c) = DOMAIN s \cup {Len(s) + 1}
          /\ Append(s, c)[Len(s) + 1] = c /\ \A i \in DOMAIN s : Append(s, c)[i] = s[i]
      BY <1>2, <2>1
    <3>3. \A x : x \in ToSet(Append(s, c)) <=> x \in ToSet(s) \/ x = c
      BY <3>2 DEF ToSet
    <3>4. IsInjective(Append(s, c))
      BY <2>1, <3>1, <3>2, Members DEF IsInjective
    <3> QED BY <2>3, <3>2, <3>3, <3>4 DEF s
  <2> QED BY <2>2, <2>3
<1>4. at \in Nat
  <2> DEFINE I == {i \in 1 .. Len(l.panes) : l.panes[i] = l.active}
  <2>1. at = IF I # {} THEN Min(I) ELSE 0
    BY DEF SelectInSeq
  <2>2. I \subseteq Nat
    OBVIOUS
  <2> HIDE DEF I, at
  <2> QED BY <2>1, <2>2, MinIsNat
<1> HIDE DEF at, open
<1>5. index \in Nat /\ index + 1 <= l.requested
  BY <1>1, <1>4 DEF Smaller
<1> HIDE DEF index
<1>6. shown \in Seq(Nat) /\ IsInjective(shown) /\ ToSet(shown) \subseteq ToSet(open)
  BY <1>1, <1>3, NormalizedPanes
<1> HIDE DEF shown
<1>7. /\ panes \in Seq(Nat) /\ IsInjective(panes) /\ ToSet(panes) = ToSet(shown) \cup {c}
      /\ \E k \in DOMAIN panes : panes[k] = c /\ k <= index + 1
  BY <1>2, <1>5, <1>6, Assigned
<1>8. m = [l EXCEPT !.selected = threads[c], !.active = c, !.open = open, !.panes = panes]
  BY DEF ActivateConversation, open, at, index, shown
<1> HIDE DEF panes, m
<1>9. /\ m \in Layouts /\ m.requested = l.requested /\ m.active = c /\ m.open = open
      /\ m.panes = panes
  BY <1>1, <1>2, <1>3, <1>7, <1>8 DEF Layouts, Subjects
<1>10. Fits(m)
  <2>1. ToSet(panes) \subseteq ToSet(open) /\ c \in ToSet(open)
    BY <1>3, <1>6, <1>7
  <2>2. open # <<>>
    BY <2>1, Members
  <2> QED BY <1>3, <1>7, <1>9, <2>1, <2>2 DEF Fits
<1>11. \E k \in DOMAIN panes : k <= l.requested /\ panes[k] = c
  <2>1. PICK k \in DOMAIN panes : panes[k] = c /\ k <= index + 1
    BY <1>7
  <2>2. k \in Nat
    BY <1>7
  <2>3. k <= l.requested
    BY <1>1, <1>5, <2>1, <2>2
  <2> QED BY <2>1, <2>3
<1> QED BY <1>3, <1>9, <1>10, <1>11 DEF m

LEMMA Corrected ==
  ASSUME NEW l, Fits(l), NEW shot \in Snapshots \ {Nothing}, NEW m \in NormalizeUi(l, shot)
  PROVE  /\ Fits(m) /\ m.requested = l.requested
         /\ ToSet(m.open) \subseteq 1 .. shot.threads
         /\ l.active \in ToSet(m.open) => m.active = l.active
<1> USE LayoutAssumption
<1>0. PICK w \in SelectedIn(l, shot) :
         m \in {[l EXCEPT !.selected = w,
                      !.active = CASE Contains(open, l.active) -> l.active
                                   [] open = <<>>              -> Nothing
                                   [] OTHER                    -> Head(open),
                      !.open = open,
                      !.panes = NormalizePaneIds(l.panes, open, l.requested)] :
               open \in OpenIn(l, shot, w)}
  BY DEF NormalizeUi
<1>1. PICK open \in OpenIn(l, shot, w) :
         m = [l EXCEPT !.selected = w,
                       !.active = CASE Contains(open, l.active) -> l.active
                                    [] open = <<>>              -> Nothing
                                    [] OTHER                    -> Head(open),
                       !.open = open,
                       !.panes = NormalizePaneIds(l.panes, open, l.requested)]
  BY <1>0
<1>2. /\ l \in Layouts /\ l.open \in Seq(Nat) /\ l.panes \in Seq(Nat) /\ l.requested \in Nat \ {0}
      /\ IsInjective(l.open) /\ l.selected \in Subjects
  BY DEF Fits, Layouts
<1>3. w \in Subjects
  BY <1>2 DEF SelectedIn, FirstOf, Subjects
<1>4. shot.threads \in Nat
  BY DEF Snapshots
<1>5. open \in Seq(Nat) /\ IsInjective(open) /\ ToSet(open) \subseteq 1 .. shot.threads
  <2> DEFINE kept == Keep(l.open, ThreadsOf(shot, w))
  <2>1. kept \in Seq(Nat) /\ IsInjective(kept) /\ ToSet(kept) \subseteq ThreadsOf(shot, w)
    BY <1>2, KeepFacts
  <2>2. ThreadsOf(shot, w) \subseteq 1 .. shot.threads
    BY DEF ThreadsOf
  <2>3. open = kept \/ \E c \in FirstOf(ThreadsOf(shot, w)) : open = Only(c)
    BY <1>1 DEF OpenIn
  <2>4. ASSUME NEW c \in FirstOf(ThreadsOf(shot, w)), open = Only(c)
        PROVE open \in Seq(Nat) /\ IsInjective(open) /\ ToSet(open) \subseteq 1 .. shot.threads
    <3>1. c = Nothing \/ c \in 1 .. shot.threads
      BY <2>2 DEF FirstOf
    <3>2. c \in Nat \cup {Nothing}
      BY <1>4, <3>1
    <3> QED BY <2>4, <3>1, <3>2, OnlyOne
  <2> HIDE DEF kept
  <2> QED BY <2>1, <2>2, <2>3, <2>4
<1> DEFINE panes == NormalizePaneIds(l.panes, open, l.requested)
           active == CASE Contains(open, l.active) -> l.active
                       [] open = <<>>              -> Nothing
                       [] OTHER                    -> Head(open)
<1>6. panes \in Seq(Nat) /\ IsInjective(panes) /\ ToSet(panes) \subseteq ToSet(open)
  BY <1>2, <1>5, NormalizedPanes
<1>7. /\ active \in IF open = <<>> THEN {Nothing} ELSE ToSet(open)
      /\ l.active \in ToSet(open) => active = l.active
      /\ active \in Nat \cup {Nothing}
  <2>1. Contains(open, l.active) <=> l.active \in ToSet(open)
    BY <1>5, ContainsMembers
  <2>2. CASE Contains(open, l.active)
    <3>1. l.active \in ToSet(open)
      BY <2>1, <2>2
    <3>2. open # <<>> /\ l.active \in Nat
      BY <1>5, <3>1, Members
    <3>3. active = l.active
      BY <2>2, <3>2
    <3> HIDE DEF active
    <3> QED BY <3>1, <3>2, <3>3
  <2>3. CASE ~Contains(open, l.active) /\ open = <<>>
    <3>1. active = Nothing
      BY <2>3
    <3> QED BY <2>1, <2>3, <3>1
  <2>4. CASE ~Contains(open, l.active) /\ open # <<>>
    <3>1. active = Head(open)
      BY <2>4
    <3>2. Head(open) = open[1] /\ 1 \in DOMAIN open /\ Head(open) \in Nat
      BY <1>5, <2>4
    <3>3. Head(open) \in ToSet(open)
      BY <3>2, Members
    <3> HIDE DEF active
    <3> QED BY <2>1, <2>4, <3>1, <3>2, <3>3
  <2> QED BY <2>2, <2>3, <2>4
<1>8. m = [l EXCEPT !.selected = w, !.active = active, !.open = open, !.panes = panes]
  BY <1>1
<1> HIDE DEF panes, active
<1>9. /\ m \in Layouts /\ m.requested = l.requested /\ m.active = active /\ m.open = open
      /\ m.panes = panes
  BY <1>2, <1>3, <1>5, <1>6, <1>7, <1>8 DEF Layouts
<1> QED BY <1>5, <1>6, <1>7, <1>9 DEF Fits

\* The active thread stays in its pane if the snapshot knows it and it is in its own
\* workspace.
LEMMA ActiveStays ==
  ASSUME NEW l, Fits(l), NEW shot \in Snapshots \ {Nothing}, NEW m \in NormalizeUi(l, shot),
         l.active \in 1 .. shot.threads, threads[l.active] = l.selected,
         l.selected \in 1 .. shot.workspaces,
         NEW i \in DOMAIN l.panes, i <= l.requested, l.panes[i] = l.active
  PROVE  /\ m.active = l.active
         /\ \E k \in DOMAIN m.panes : k <= m.requested /\ m.panes[k] = m.active
<1> DEFINE w == l.selected
           kept == Keep(l.open, ThreadsOf(shot, w))
           panes == NormalizePaneIds(l.panes, kept, l.requested)
<1>1. /\ l \in Layouts /\ l.open \in Seq(Nat) /\ l.panes \in Seq(Nat) /\ l.requested \in Nat \ {0}
      /\ IsInjective(l.open) /\ IsInjective(l.panes) /\ ToSet(l.panes) \subseteq ToSet(l.open)
  BY DEF Fits, Layouts
<1>2. SelectedIn(l, shot) = {w}
  BY DEF SelectedIn
<1>3. /\ kept \in Seq(Nat) /\ IsInjective(kept) /\ ToSet(kept) = ToSet(l.open) \cap ThreadsOf(shot, w)
  BY <1>1, KeepFacts
<1>4. l.active \in ToSet(kept)
  <2>1. l.active \in ToSet(l.open)
    BY <1>1, Members
  <2>2. l.active \in ThreadsOf(shot, w)
    BY DEF ThreadsOf
  <2> HIDE DEF kept, w
  <2> QED BY <1>3, <2>1, <2>2
<1>5. kept /= <<>>
  <2> HIDE DEF kept
  <2> QED BY <1>4, Members
<1>6. OpenIn(l, shot, w) = {kept}
  BY <1>5 DEF OpenIn
<1>7. /\ m.open = kept /\ m.panes = panes
  <2> HIDE DEF kept, w
  <2>1. PICK v \in SelectedIn(l, shot) :
           m \in {[l EXCEPT !.selected = v,
                      !.active = CASE Contains(open, l.active) -> l.active
                                   [] open = <<>>              -> Nothing
                                   [] OTHER                    -> Head(open),
                      !.open = open,
                      !.panes = NormalizePaneIds(l.panes, open, l.requested)] :
                   open \in OpenIn(l, shot, v)}
    BY DEF NormalizeUi
  <2>2. PICK open \in OpenIn(l, shot, v) :
           m = [l EXCEPT !.selected = v,
                         !.active = CASE Contains(open, l.active) -> l.active
                                      [] open = <<>>              -> Nothing
                                      [] OTHER                    -> Head(open),
                         !.open = open,
                         !.panes = NormalizePaneIds(l.panes, open, l.requested)]
    BY <2>1
  <2>3. open = kept
    BY <1>2, <1>6
  <2> QED BY <1>1, <2>2, <2>3 DEF Layouts
<1>8. \E k \in DOMAIN panes : k <= l.requested /\ panes[k] = l.panes[i]
  <2> HIDE DEF kept
  <2> DEFINE s == l.panes  n == l.requested  p == NormalizePaneIds(s, kept, n)
  <2>1. /\ s \in Seq(Nat) /\ IsInjective(s) /\ kept \in Seq(Nat) /\ IsInjective(kept)
        /\ n \in Nat \ {0} /\ i \in DOMAIN s /\ i <= n /\ s[i] \in ToSet(kept)
    BY <1>1, <1>3, <1>4
  <2> HIDE DEF s, n
  <2>2. \E k \in DOMAIN p : k <= n /\ p[k] = s[i]
    BY <2>1, PanesStay
  <2> QED BY <2>2 DEF s, n
<1> HIDE DEF kept, panes
<1>9. m.active = l.active /\ m.requested = l.requested
  BY <1>4, <1>7, Corrected
<1> QED BY <1>7, <1>8, <1>9

----------------------------------------------------------------------------
\* Folders and the calls of the page.

\* What leaves the tables, the choice and the calls alone.
LEMMA FoldersStay ==
  ASSUME FolderInv, UNCHANGED <<tables, authorizer, calls, snapshot, error>>
  PROVE  FolderInv'
  BY DEF tables, authorizer, calls, FolderInv, TablesOK, CallsOK, ChoiceIsUnused, FoldersAreChosen

\* An asynchronous function goes on with something else.
LEMMA CallsGo ==
  ASSUME FolderInv, NEW k \in Calls, NEW step \in Steps, NEW about \in Subjects,
         Goes(k, step, about), mail' \in Seq(Replies), snapshot' \in Snapshots,
         error' \in BOOLEAN,
         step = "workspace" => about \in Folder,
         k = "folder" /\ step = "chosen" => about \in Folders
  PROVE  CallsOK'
<1> USE DEF FolderInv, CallsOK
<1>1. call' \in [Calls -> Steps] /\ subject' \in [Calls -> Subjects]
  BY DEF Goes
<1>2. \A j \in Calls : call'[j] = "workspace" => subject'[j] \in Folder
  BY DEF Goes
<1>3. call'["folder"] = "chosen" => subject'["folder"] \in Folders
  BY DEF Goes, Calls
<1> QED BY <1>1, <1>2, <1>3

LEMMA AskStep ==
  ASSUME FolderInv, NewRefresh \/ NewWorkspace \/ NewRequest
                    \/ NewThread("conversation") \/ NewThread("agent")
  PROVE  FolderInv'
<1>1. ASSUME NEW k \in Calls, NEW step \in Steps, NEW about \in Subjects, Ask(k, step, about),
             step = "workspace" => about \in Folder,
             k = "folder" /\ step = "chosen" => about \in Folders, UNCHANGED authorizer
      PROVE FolderInv'
  <2>1. /\ mail' \in Seq(Replies) /\ snapshot' \in Snapshots /\ error' \in BOOLEAN
        /\ Goes(k, step, about)
    BY <1>1 DEF Ask, FolderInv, CallsOK
  <2>2. CallsOK'
    BY <1>1, <2>1, CallsGo
  <2> QED BY <1>1, <2>2 DEF Ask, tables, authorizer, FolderInv, TablesOK, ChoiceIsUnused,
             FoldersAreChosen
<1>2. CASE NewRefresh
  BY <1>1, <1>2 DEF NewRefresh, Steps, Subjects, Calls
<1>3. CASE NewWorkspace
  BY <1>1, <1>3 DEF NewWorkspace, Steps, Subjects, Calls, Folder
<1>4. CASE NewRequest
  BY <1>1, <1>4 DEF NewRequest, Steps, Subjects, Calls, Folder
<1>5. ASSUME NEW k \in {"conversation", "agent"}, NewThread(k) PROVE FolderInv'
  <2>1. PICK w \in SelectedWorkspaces \ {Nothing} : Ask(k, k, w)
    BY <1>5 DEF NewThread
  <2>2. w \in Nat
    BY <2>1 DEF SelectedWorkspaces, SelectedIn, FirstOf, Snapshots, FolderInv, CallsOK
  <2> QED BY <1>1, <1>5, <2>1, <2>2 DEF NewThread, Steps, Subjects, Calls
<1> QED BY <1>2, <1>3, <1>4, <1>5

\* The dialog and the main process's record of what was chosen in it.
LEMMA ChoiceStep ==
  ASSUME FolderInv, \/ NewFolder \/ DialogEnds \/ TakeChoice
                    \/ Expire /\ UNCHANGED <<calls, snapshot, error>>
  PROVE  FolderInv'
<1> USE WorkspacesAssumption DEF FolderInv, TablesOK, CallsOK, ChoiceIsUnused, FoldersAreChosen
<1>1. CASE NewFolder
  <2>1. CallsOK'
    BY <1>1, CallsGo DEF NewFolder, Ask, Steps, Subjects, Calls
  <2> QED BY <1>1, <2>1 DEF NewFolder, Ask, Revoke, tables
<1>2. CASE DialogEnds
  <2>1. /\ mail' \in Seq(Replies) /\ snapshot' \in Snapshots /\ error' \in BOOLEAN
        /\ UNCHANGED tables
    BY <1>2 DEF DialogEnds
  <2>2. ASSUME NEW f \in Folders, Authorize(f) PROVE
          /\ choices' \in [Folders -> 0 .. MaxChoices]
          /\ ChoiceIsUnused'
    BY <2>2 DEF Authorize
  <2>3. ASSUME NEW f \in Folders, Goes("folder", "chosen", f) PROVE CallsOK'
    BY <2>1, <2>3, CallsGo DEF Steps, Subjects, Folder, Calls
  <2>4. ASSUME Goes("folder", "idle", Nothing) PROVE CallsOK'
    BY <2>1, <2>4, CallsGo DEF Steps, Subjects, Calls
  <2>5. CallsOK'
    BY <1>2, <2>3, <2>4 DEF DialogEnds
  <2>6. choices' \in [Folders -> 0 .. MaxChoices] /\ ChoiceIsUnused'
    BY <1>2, <2>2 DEF DialogEnds, authorizer
  <2> QED BY <2>1, <2>5, <2>6 DEF tables
<1>3. CASE TakeChoice
  <2>1. /\ mail' \in Seq(Replies) /\ snapshot' \in Snapshots /\ error' \in BOOLEAN
        /\ UNCHANGED tables /\ subject["folder"] \in Folders
    BY <1>3 DEF TakeChoice
  <2>2. CallsOK'
    <3>1. CASE Goes("folder", "workspace", subject["folder"])
      BY <2>1, <3>1, CallsGo DEF Steps, Subjects, Folder, Calls
    <3>2. CASE Goes("folder", "idle", Nothing)
      BY <2>1, <3>2, CallsGo DEF Steps, Subjects, Calls
    <3> QED BY <1>3, <3>1, <3>2 DEF TakeChoice
  <2>3. choices' \in [Folders -> 0 .. MaxChoices] /\ ChoiceIsUnused'
    <3>1. CASE Consume(subject["folder"])
      BY <2>1, <3>1 DEF Consume
    <3>2. CASE Revoke
      BY <3>2 DEF Revoke
    <3> QED BY <1>3, <3>1, <3>2 DEF TakeChoice
  <2> QED BY <2>1, <2>2, <2>3 DEF tables
<1>4. CASE Expire /\ UNCHANGED <<calls, snapshot, error>>
  BY <1>4 DEF Expire, tables, calls
<1> QED BY <1>1, <1>2, <1>3, <1>4

\* The host creates what it is asked for, and answers.
LEMMA AnswerStep ==
  ASSUME FolderInv, NEW k \in Calls, Answer(k) PROVE FolderInv'
<1> USE WorkspacesAssumption DEF FolderInv, TablesOK, CallsOK, ChoiceIsUnused, FoldersAreChosen
<1>1. ASSUME NEW next \in {"snapshot", "conversation", "idle"}, NEW about \in Subjects,
             NEW shot \in Snapshots, Post(k, next, about, shot)
      PROVE  CallsOK' /\ UNCHANGED authorizer
  <2>1. [call |-> k, next |-> next, about |-> about, shot |-> shot] \in Replies
    BY DEF Replies
  <2>2. UNCHANGED <<snapshot, error, authorizer>>
    BY <1>1 DEF Post
  <2>2a. error' \in BOOLEAN
    BY <2>2
  <2>2b. mail' \in Seq(Replies)
    <3> HIDE DEF FolderInv, TablesOK, ChoiceIsUnused, FoldersAreChosen
    <3>1. mail \in Seq(Replies)
      BY DEF FolderInv
    <3> QED BY <1>1, <2>1, <3>1 DEF Post
  <2>3. \/ Goes(k, "posted", subject[k]) /\ subject[k] \in Subjects
        \/ Goes(k, "idle", Nothing)
    BY <1>1 DEF Post, Goes
  <2> QED BY <2>2, <2>2a, <2>2b, <2>3, CallsGo DEF Steps, Subjects
<1>2. CASE AnswerWorkspace(k)
  <2>1. PICK w \in 1 .. MaxWorkspaces :
           CreateWorkspace(subject[k], w) /\ Post(k, "snapshot", w, Nothing)
    BY <1>2 DEF AnswerWorkspace
  <2>2. subject[k] \in Folder /\ w \in Nat
    BY <1>2 DEF AnswerWorkspace
  <2>3. CallsOK' /\ UNCHANGED authorizer
    BY <1>1, <2>1, <2>2 DEF Subjects, Snapshots
  <2>4. /\ folders' \in Seq(Folder)
        /\ \A u, v \in DOMAIN folders' : folders'[u] = folders'[v] /\ folders'[u] /= NoFolder => u = v
        /\ DOMAIN folders \subseteq DOMAIN folders'
    <3> DEFINE old == {v \in DOMAIN folders : subject[k] /= NoFolder /\ folders[v] = subject[k]}
    <3>1. CASE old = {}
      <4>1. folders' = Append(folders, subject[k])
        BY <2>1, <3>1 DEF CreateWorkspace
      <4>2. \A v \in DOMAIN folders : subject[k] = NoFolder \/ folders[v] /= subject[k]
        BY <3>1
      <4>3. /\ DOMAIN folders' = DOMAIN folders \cup {Len(folders) + 1}
            /\ folders'[Len(folders) + 1] = subject[k]
            /\ \A v \in DOMAIN folders : folders'[v] = folders[v]
        BY <4>1, <2>2
      <4> QED BY <2>2, <4>1, <4>2, <4>3
    <3>2. CASE old /= {}
      BY <2>1, <3>2 DEF CreateWorkspace
    <3> QED BY <3>1, <3>2
  <2> QED BY <2>1, <2>3, <2>4 DEF CreateWorkspace, authorizer
<1>3. CASE AnswerAgent(k)
  <2>1. CallsOK' /\ UNCHANGED authorizer
    BY <1>1, <1>3 DEF AnswerAgent, Snapshots
  <2> QED BY <1>3, <2>1 DEF AnswerAgent, CreateAgent, authorizer
<1>4. CASE AnswerConversation(k)
  <2>1. Len(threads) + 1 \in Subjects
    BY DEF Subjects
  <2>2. CallsOK' /\ UNCHANGED authorizer
    BY <1>1, <1>4, <2>1 DEF AnswerConversation, Snapshots
  <2>3. /\ UNCHANGED <<folders, homes>>
        /\ threads' = Append(threads, subject[k]) /\ subject[k] \in DOMAIN folders
    BY <1>4 DEF AnswerConversation, CreateConversation
  <2>4. DOMAIN folders \subseteq Nat
    OBVIOUS
  <2>5. threads' \in Seq(Nat) /\ \A c \in DOMAIN threads' : threads'[c] \in DOMAIN folders
    BY <2>3, <2>4
  <2> QED BY <2>2, <2>3, <2>5 DEF authorizer
<1>5. CASE AnswerSnapshot(k)
  <2>1. [workspaces |-> Len(folders), threads |-> Len(threads)] \in Snapshots
    BY DEF Snapshots
  <2>2. CallsOK' /\ UNCHANGED authorizer
    BY <1>1, <1>5, <2>1 DEF AnswerSnapshot
  <2> QED BY <1>5, <2>2 DEF AnswerSnapshot, tables, authorizer
<1> QED BY <1>2, <1>3, <1>4, <1>5 DEF Answer

\* A request is rejected.
LEMMA FailStep ==
  ASSUME FolderInv, NEW k \in Calls, Fail(k) PROVE FolderInv'
<1>1. /\ UNCHANGED <<tables, authorizer, mail, snapshot>>
      /\ error' \in BOOLEAN
      /\ Goes(k, "idle", Nothing) \/ UNCHANGED <<call, subject>>
  BY DEF Fail, FolderInv, CallsOK
<1>2. CallsOK'
  <2>1. CASE Goes(k, "idle", Nothing)
    BY <1>1, <2>1, CallsGo DEF Steps, Subjects, FolderInv, CallsOK
  <2>2. CASE UNCHANGED <<call, subject>>
    BY <1>1, <2>2 DEF FolderInv, CallsOK
  <2> QED BY <1>1, <2>1, <2>2
<1> QED BY <1>1, <1>2 DEF tables, authorizer, FolderInv, TablesOK, ChoiceIsUnused, FoldersAreChosen

\* The page takes a reply, or is loaded again.
LEMMA PageStep ==
  ASSUME FolderInv, Receive \/ Reload PROVE FolderInv'
<1> USE WorkspacesAssumption DEF FolderInv, TablesOK, CallsOK, ChoiceIsUnused, FoldersAreChosen, tables, authorizer
<1>1. CASE Receive
  <2> DEFINE m == Head(mail)
  <2>1. m \in Replies /\ mail' \in Seq(Replies)
    BY <1>1 DEF Receive
  <2>2. Goes(m.call, m.next, IF m.next = "idle" THEN Nothing ELSE m.about)
    BY <1>1 DEF Receive
  <2>3. snapshot' \in Snapshots /\ error' \in BOOLEAN
    BY <1>1, <2>1 DEF Receive, Replies
  <2>4. CallsOK'
    <3> DEFINE about == IF m.next = "idle" THEN Nothing ELSE m.about
    <3>1. m.call \in Calls /\ m.next \in {"snapshot", "conversation", "idle"} /\ m.about \in Subjects
      BY <2>1 DEF Replies
    <3>2. about \in Subjects /\ m.next \in Steps /\ m.next \notin {"workspace", "chosen"}
      BY <3>1 DEF Subjects, Steps
    <3> HIDE DEF m, about
    <3> QED BY <2>1, <2>2, <2>3, <3>1, <3>2, CallsGo DEF about
  <2> QED BY <1>1, <2>4 DEF Receive
<1>2. CASE Reload
  <2>1. CallsOK'
    <3>1. /\ call' = [k \in Calls |-> CASE k = "refresh"                      -> "snapshot"
                                         [] call[k] \in {"dialog", "orphaned"} -> "orphaned"
                                         [] OTHER                             -> "idle"]
          /\ subject' = [k \in Calls |-> Nothing]
          /\ mail' = <<>> /\ snapshot' = Nothing /\ error' = FALSE
      BY <1>2 DEF Reload
    <3>2. \A k \in Calls : call'[k] \in {"snapshot", "orphaned", "idle"}
      BY <3>1
    <3>3. call' \in [Calls -> Steps] /\ subject' \in [Calls -> Subjects]
      BY <3>1, <3>2 DEF Steps, Subjects
    <3>4. mail' \in Seq(Replies) /\ snapshot' \in Snapshots
      BY <3>1 DEF Snapshots
    <3>4a. error' \in BOOLEAN
      BY <3>1, Zenon
    <3>5. "folder" \in Calls
      BY DEF Calls
    <3> QED BY <3>2, <3>3, <3>4, <3>4a, <3>5 DEF CallsOK
  <2> QED BY <1>2, <2>1 DEF Reload
<1> QED BY <1>1, <1>2

LEMMA FolderInit == Init => FolderInv
<1> SUFFICES ASSUME Init PROVE FolderInv
  OBVIOUS
<1> USE WorkspacesAssumption, LayoutAssumption
<1>1. TablesOK /\ ChoiceIsUnused /\ FoldersAreChosen
  BY DEF Init, StoreInit, TablesOK, Folder, ChoiceIsUnused, FoldersAreChosen
<1>2. CallsOK
  <2>1. \A k \in Calls : call[k] \in {"snapshot", "idle"}
    BY DEF Init
  <2>2. call \in [Calls -> Steps] /\ subject \in [Calls -> Subjects]
    BY <2>1 DEF Init, Steps, Subjects
  <2>3. mail \in Seq(Replies) /\ snapshot \in Snapshots
    BY DEF Init, Snapshots
  <2>4. error \in BOOLEAN
    BY Zenon DEF Init
  <2>5. "folder" \in Calls
    BY DEF Calls
  <2> QED BY <2>1, <2>2, <2>3, <2>4, <2>5 DEF CallsOK
<1> QED BY <1>1, <1>2 DEF FolderInv

LEMMA FolderStep == FolderInv /\ [Next]_vars => FolderInv'
<1> SUFFICES ASSUME FolderInv, [Next]_vars PROVE FolderInv'
  OBVIOUS
<1>1. ASSUME NEW w \in DOMAIN folders, SelectProject(w) PROVE FolderInv'
  BY <1>1, FoldersStay DEF SelectProject, Click
<1>2. ASSUME NEW c \in DOMAIN threads, OpenThread(c) PROVE FolderInv'
  BY <1>2, FoldersStay DEF OpenThread, Click
<1>3. ASSUME NEW n \in 1 .. MaxPanes, SelectPane(n) \/ SetRequestedSplitCount(n) \/ Resize(n)
      PROVE FolderInv'
  BY <1>3, FoldersStay DEF SelectPane, SetRequestedSplitCount, Resize, Click
<1>4. CASE UNCHANGED vars
  BY <1>4, FoldersStay DEF vars
<1>5. CASE Expire /\ UNCHANGED <<calls, snapshot, error, layout, capacity>>
  BY <1>5, ChoiceStep
<1>6. ASSUME NEW k \in Calls, Answer(k) \/ Fail(k) PROVE FolderInv'
  BY <1>6, AnswerStep, FailStep
<1> QED BY <1>1, <1>2, <1>3, <1>4, <1>5, <1>6, AskStep, ChoiceStep, PageStep DEF Next

----------------------------------------------------------------------------
\* The layout and the threads the page knows.

LEMMA PageInit == Init => PageOK
<1> SUFFICES ASSUME Init PROVE PageOK
  OBVIOUS
<1> USE WorkspacesAssumption, LayoutAssumption
<1>1. LayoutOK
  <2>1. /\ layout \in Layouts /\ layout.open = <<>> /\ layout.panes = <<>>
        /\ layout.active = Nothing /\ capacity \in Nat \ {0}
    BY DEF Init, Layouts, Subjects
  <2>2. IsInjective(<<>>) /\ ToSet(<<>>) = {}
    BY DEF IsInjective, ToSet
  <2> QED BY <2>1, <2>2 DEF LayoutOK, Fits
<1>2. ThreadsAreKnown
  BY Members DEF Init, ThreadsAreKnown
<1>3. ThreadIsCreated /\ MailIsOrdered
  BY DEF Init, Calls, ThreadIsCreated, ThreadCalls, MailIsOrdered
<1> QED BY <1>1, <1>2, <1>3 DEF PageOK

\* The threads that the page lists or has open, and those that it will open.
Listed == IF snapshot = Nothing THEN {} ELSE 1 .. snapshot.threads
Waiting == {subject[k] : k \in {j \in ThreadCalls : call[j] = "snapshot"}}

\* The page shows something else of the threads it knows, or, after a failure, of
\* those it was about to know.
LEMMA ShowStep ==
  ASSUME FolderInv, PageOK, UNCHANGED <<tables, mail, snapshot>>,
         Fits(layout'), capacity' \in Nat \ {0},
         ToSet(layout'.open) \subseteq ToSet(layout.open) \cup Listed \cup Waiting,
         ~error' => ~error /\ ToSet(layout'.open) \subseteq ToSet(layout.open) \cup Listed,
         \A j \in ThreadCalls :
           /\ call'[j] # "workspace"
           /\ call'[j] = "snapshot" => call[j] = "snapshot" /\ subject'[j] = subject[j]
  PROVE  PageOK'
<1> USE DEF IsSnapshot, IsCreated
<1>1. /\ UNCHANGED threads /\ threads \in Seq(Nat) /\ mail \in Seq(Replies)
      /\ snapshot # Nothing => snapshot.threads \in Nat /\ snapshot.threads <= Len(threads)
      /\ Len(threads) \in Nat
  BY DEF tables, FolderInv, TablesOK, CallsOK, Snapshots, PageOK, ThreadsAreKnown
<1>2. Waiting \subseteq 1 .. Len(threads)
  BY DEF PageOK, ThreadIsCreated, Waiting
<1>3. ThreadsAreKnown'
  <2>1. /\ ToSet(layout.open) \subseteq 1 .. Len(threads) /\ Listed \subseteq 1 .. Len(threads)
        /\ snapshot # Nothing /\ ~error => ToSet(layout.open) \subseteq 1 .. snapshot.threads
    BY <1>1 DEF PageOK, ThreadsAreKnown, Listed
  <2>2. ToSet(layout'.open) \subseteq 1 .. Len(threads)
    BY <1>2, <2>1
  <2>3. snapshot # Nothing /\ ~error' => ToSet(layout'.open) \subseteq 1 .. snapshot.threads
    BY <2>1 DEF Listed
  <2> QED BY <1>1, <2>2, <2>3 DEF ThreadsAreKnown
<1>4. LayoutOK'
  BY DEF LayoutOK, Fits, Layouts, Subjects
<1>5. ThreadIsCreated'
  BY <1>1 DEF PageOK, ThreadIsCreated
<1>6. ASSUME NEW r \in Replies, ReplyIsSound(r) PROVE ReplyIsSound(r)'
  <2>1. ASSUME IsSnapshot(r) PROVE ToSet(layout'.open) \subseteq 1 .. r.shot.threads
    <3>1. r.shot.threads \in Nat
      BY <1>6, <2>1 DEF ReplyIsSound, Replies, Snapshots
    <3>2. Listed \subseteq 1 .. r.shot.threads
      BY <1>1, <1>6, <2>1, <3>1 DEF ReplyIsSound, Listed
    <3>3. Waiting \subseteq 1 .. r.shot.threads
      BY <1>2, <1>6, <2>1, <3>1 DEF ReplyIsSound, Waiting
    <3>4. ToSet(layout.open) \subseteq 1 .. r.shot.threads
      BY <1>6, <2>1 DEF ReplyIsSound
    <3> QED BY <3>2, <3>3, <3>4
  <2> QED BY <1>1, <1>6, <2>1 DEF ReplyIsSound
<1>7. MailIsOrdered'
  <2>1. ASSUME NEW i \in DOMAIN mail' PROVE ReplyIsSound(mail[i])'
    <3>1. PICK r \in Replies : r = mail'[i] /\ ReplyIsSound(r)
      BY <1>1 DEF PageOK, MailIsOrdered
    <3> QED BY <1>6, <3>1 DEF ReplyIsSound
  <2> QED BY <2>1 DEF PageOK, MailIsOrdered
<1> QED BY <1>3, <1>4, <1>5, <1>7 DEF PageOK

\* What the calls are about stays.
LEMMA ClicksShow ==
  ASSUME FolderInv, PageOK, UNCHANGED <<tables, calls, snapshot, error>>,
         Fits(layout'), capacity' \in Nat \ {0},
         ToSet(layout'.open) \subseteq ToSet(layout.open) \cup Listed
  PROVE  PageOK'
<1>1. /\ UNCHANGED <<call, subject, mail, error>>
      /\ \A j \in ThreadCalls : call[j] # "workspace"
  BY DEF calls, PageOK, ThreadIsCreated
<1> QED BY <1>1, ShowStep

LEMMA ClickStep ==
  ASSUME FolderInv, PageOK,
         \/ \E w \in DOMAIN folders : SelectProject(w)
         \/ \E c \in DOMAIN threads : OpenThread(c)
         \/ \E n \in 1 .. MaxPanes : SelectPane(n) \/ SetRequestedSplitCount(n) \/ Resize(n)
  PROVE  PageOK'
<1> USE LayoutAssumption
<1>1. /\ Fits(layout) /\ capacity \in Nat \ {0} /\ threads \in Seq(Nat) /\ snapshot \in Snapshots
      /\ snapshot # Nothing => snapshot.threads \in Nat /\ Listed = 1 .. snapshot.threads
  BY DEF PageOK, LayoutOK, ThreadsAreKnown, FolderInv, TablesOK, CallsOK, Snapshots, Listed
<1>2. /\ layout \in Layouts /\ layout.open \in Seq(Nat) /\ layout.panes \in Seq(Nat)
      /\ layout.requested \in Nat \ {0} /\ IsInjective(layout.open)
  BY <1>1 DEF Fits, Layouts
<1>3. ASSUME NEW w \in DOMAIN folders, SelectProject(w) PROVE PageOK'
  <2>1. w \in Subjects
    BY DEF FolderInv, TablesOK, Subjects
  <2>2. /\ layout' \in SelectWorkspace(layout, snapshot, w) /\ snapshot # Nothing
        /\ UNCHANGED <<tables, calls, snapshot, error, capacity>>
    BY <1>3 DEF SelectProject, Click
  <2>3. Fits(layout') /\ ToSet(layout'.open) \subseteq 1 .. snapshot.threads
    BY <1>1, <2>1, <2>2, Selected
  <2> QED BY <1>1, <2>2, <2>3, ClicksShow
<1>4. ASSUME NEW c \in DOMAIN threads, OpenThread(c) PROVE PageOK'
  <2>1. /\ layout' = ActivateConversation(layout, c) /\ snapshot # Nothing
        /\ c <= snapshot.threads /\ UNCHANGED <<tables, calls, snapshot, error, capacity>>
    BY <1>4 DEF OpenThread, Click
  <2>2. Fits(layout') /\ ToSet(layout'.open) = ToSet(layout.open) \cup {c}
    BY <1>1, <2>1, Activated
  <2>3. c \in 1 .. snapshot.threads
    BY <1>1, <2>1
  <2> QED BY <1>1, <2>1, <2>2, <2>3, ClicksShow
<1>5. ASSUME NEW n \in 1 .. MaxPanes, SelectPane(n) PROVE PageOK'
  <2> DEFINE panes == NormalizePaneIds(layout.panes, layout.open, layout.requested)
  <2>1. /\ layout' = [layout EXCEPT !.active = panes[n]] /\ snapshot # Nothing
        /\ n \in DOMAIN panes
        /\ UNCHANGED <<tables, calls, snapshot, error, capacity>>
    BY <1>5 DEF SelectPane, Click
  <2>2. panes \in Seq(Nat) /\ ToSet(panes) \subseteq ToSet(layout.open)
    BY <1>2, NormalizedPanes
  <2> HIDE DEF panes
  <2>5. panes[n] \in ToSet(layout.open) /\ panes[n] \in Nat
    BY <2>1, <2>2, Members
  <2>6. layout.open # <<>>
    BY <2>5, Members
  <2>7. /\ layout' \in Layouts /\ layout'.open = layout.open /\ layout'.panes = layout.panes
        /\ layout'.active = panes[n]
    BY <1>2, <2>1, <2>5 DEF Layouts
  <2>8. Fits(layout')
    BY <1>1, <2>5, <2>6, <2>7 DEF Fits
  <2> QED BY <1>1, <2>1, <2>7, <2>8, ClicksShow
<1>6. ASSUME NEW n \in 1 .. MaxPanes, SetRequestedSplitCount(n) PROVE PageOK'
  <2> DEFINE panes == NormalizePaneIds(layout.panes, layout.open, n)
  <2>0. n \in Nat \ {0}
    OBVIOUS
  <2>1. /\ layout' = [layout EXCEPT !.requested = n, !.panes = panes] /\ snapshot # Nothing
        /\ UNCHANGED <<tables, calls, snapshot, error, capacity>>
    BY <1>6 DEF SetRequestedSplitCount, Click
  <2>2. panes \in Seq(Nat) /\ IsInjective(panes) /\ ToSet(panes) \subseteq ToSet(layout.open)
    BY <1>2, <2>0, NormalizedPanes
  <2> HIDE DEF panes
  <2>3. /\ layout' \in Layouts /\ layout'.open = layout.open /\ layout'.panes = panes
        /\ layout'.active = layout.active
    BY <1>2, <2>0, <2>1, <2>2 DEF Layouts
  <2>4. Fits(layout')
    BY <1>1, <2>2, <2>3 DEF Fits
  <2> QED BY <1>1, <2>1, <2>3, <2>4, ClicksShow
<1>7. ASSUME NEW n \in 1 .. MaxPanes, Resize(n) PROVE PageOK'
  <2>1. capacity' \in Nat \ {0} /\ UNCHANGED <<tables, calls, snapshot, error, layout>>
    BY <1>7 DEF Resize
  <2>2. Fits(layout')
    BY <1>1, <2>1 DEF Fits, Layouts, Subjects
  <2> QED BY <1>1, <2>1, <2>2, ClicksShow
<1> QED BY <1>3, <1>4, <1>5, <1>6, <1>7

\* An asynchronous function goes on without the page showing anything else.
LEMMA AwaitStep ==
  ASSUME FolderInv, PageOK, NEW k \in Calls, NEW step, NEW about, Goes(k, step, about),
         UNCHANGED <<tables, mail, snapshot, error, layout, capacity>>,
         k \in ThreadCalls => step \notin {"workspace", "snapshot"}
  PROVE  PageOK'
<1>1. call \in [Calls -> Steps] /\ subject \in [Calls -> Subjects]
  BY DEF FolderInv, CallsOK
<1>2. ASSUME NEW j \in ThreadCalls
      PROVE  /\ call'[j] # "workspace"
             /\ call'[j] = "snapshot" => call[j] = "snapshot" /\ subject'[j] = subject[j]
  <2>1. call[j] # "workspace" /\ j \in Calls
    BY DEF PageOK, ThreadIsCreated, ThreadCalls, Calls
  <2> QED BY <1>1, <2>1 DEF Goes
<1>3. Fits(layout') /\ capacity' \in Nat \ {0}
  BY DEF PageOK, LayoutOK, Fits, Layouts, Subjects
<1> QED BY <1>2, <1>3, ShowStep

LEMMA CallStep ==
  ASSUME FolderInv, PageOK,
         \/ NewRefresh \/ NewWorkspace \/ NewFolder \/ NewRequest
         \/ NewThread("conversation") \/ NewThread("agent") \/ DialogEnds \/ TakeChoice
  PROVE  PageOK'
<1>1. ASSUME NEW k \in Calls, NEW step, NEW about, Ask(k, step, about),
             k \in ThreadCalls => step \notin {"workspace", "snapshot"}
      PROVE  PageOK'
  BY <1>1, AwaitStep DEF Ask
<1>2. {"refresh", "workspace", "folder"} \subseteq Calls \ ThreadCalls /\ ThreadCalls \subseteq Calls
  BY DEF Calls, ThreadCalls
<1>3. CASE NewRefresh
  BY <1>1, <1>2, <1>3 DEF NewRefresh
<1>4. CASE NewWorkspace
  BY <1>1, <1>2, <1>4 DEF NewWorkspace
<1>5. CASE NewFolder
  BY <1>1, <1>2, <1>5 DEF NewFolder
<1>6. CASE NewRequest
  BY <1>1, <1>2, <1>6 DEF NewRequest
<1>7. CASE NewThread("conversation") \/ NewThread("agent")
  BY <1>1, <1>2, <1>7 DEF NewThread, ThreadCalls
<1>8. ASSUME NEW step, NEW about, Goes("folder", step, about),
             UNCHANGED <<tables, mail, snapshot, error, layout, capacity>>
      PROVE  PageOK'
  BY <1>2, <1>8, AwaitStep
<1>9. CASE DialogEnds
  BY <1>8, <1>9 DEF DialogEnds
<1>10. CASE TakeChoice
  BY <1>8, <1>10 DEF TakeChoice
<1> QED BY <1>3, <1>4, <1>5, <1>6, <1>7, <1>9, <1>10

\* The host answers: a snapshot knows every thread that there is.
LEMMA AnswersStep ==
  ASSUME FolderInv, PageOK, NEW k \in Calls, Answer(k) PROVE PageOK'
<1> USE DEF IsSnapshot, IsCreated
<1>1. /\ call \in [Calls -> Steps] /\ subject \in [Calls -> Subjects] /\ mail \in Seq(Replies)
      /\ threads \in Seq(Nat) /\ folders \in Seq(Folder) /\ snapshot \in Snapshots
  BY DEF FolderInv, CallsOK, TablesOK
<1>2. ASSUME NEW next \in {"snapshot", "conversation", "idle"}, NEW about, NEW shot,
             Post(k, next, about, shot),
             threads' \in Seq(Nat), Len(threads) <= Len(threads'),
             \A c \in 1 .. Len(threads) : threads'[c] = threads[c],
             next = "idle" =>
               /\ shot \in Snapshots \ {Nothing} /\ shot.threads = Len(threads)
               /\ shot.workspaces = Len(folders)
               /\ UNCHANGED <<threads, folders>>
               /\ k \in ThreadCalls => about \in 1 .. shot.threads,
             k \in ThreadCalls /\ next = "snapshot" => about \in 1 .. Len(threads')
      PROVE  PageOK'
  <2> DEFINE m == [call |-> k, next |-> next, about |-> about, shot |-> shot]
  <2>1. /\ m.call = k /\ m.next = next /\ m.about = about /\ m.shot = shot
        /\ UNCHANGED <<snapshot, error, layout, capacity>>
        /\ \/ Goes(k, "idle", Nothing) /\ UNCHANGED mail
           \/ Goes(k, "posted", subject[k]) /\ mail' = Append(mail, m)
    BY <1>2 DEF Post
  <2> HIDE DEF m
  <2>2. LayoutOK'
    BY <2>1 DEF PageOK, LayoutOK, Fits, Layouts, Subjects
  <2>3. snapshot # Nothing => snapshot.threads \in Nat /\ snapshot.threads <= Len(threads)
    BY <1>1 DEF PageOK, ThreadsAreKnown, Snapshots
  <2>4. /\ Len(threads) \in Nat /\ Len(threads') \in Nat
        /\ 1 .. Len(threads) \subseteq 1 .. Len(threads')
    BY <1>1, <1>2
  <2>5. ThreadsAreKnown'
    BY <1>2, <2>1, <2>3, <2>4 DEF PageOK, ThreadsAreKnown
  <2>6. ASSUME NEW j \in ThreadCalls
        PROVE  /\ call'[j] # "workspace"
               /\ call'[j] = "snapshot" => call[j] = "snapshot" /\ subject'[j] = subject[j]
               /\ call[j] = "snapshot" => subject[j] \in 1 .. Len(threads)
    <3>1. call[j] # "workspace" /\ (call[j] = "snapshot" => subject[j] \in 1 .. Len(threads)) /\ j \in Calls
      BY DEF PageOK, ThreadIsCreated, ThreadCalls, Calls
    <3>2. CASE Goes(k, "idle", Nothing)
      BY <1>1, <3>1, <3>2 DEF Goes
    <3>3. CASE Goes(k, "posted", subject[k])
      BY <1>1, <3>1, <3>3 DEF Goes
    <3> QED BY <2>1, <3>1, <3>2, <3>3
  <2>7. ThreadIsCreated'
    BY <2>4, <2>6 DEF ThreadIsCreated
  <2>8. \A i \in DOMAIN mail : mail[i] \in Replies /\ ReplyIsSound(mail[i])
    BY <1>1 DEF PageOK, MailIsOrdered
  <2>9. ASSUME NEW r \in Replies, ReplyIsSound(r)
        PROVE  /\ ReplyIsSound(r)'
               /\ IsSnapshot(r) => r.shot.threads \in Nat /\ r.shot.threads <= Len(threads)
               /\ IsCreated(r) => r.about \in 1 .. Len(threads)
    <3>1. IsSnapshot(r) => r.shot \in Snapshots \ {Nothing} /\ r.shot.threads \in Nat
      BY <2>9 DEF ReplyIsSound, Replies, Snapshots
    <3>2. IsSnapshot(r) => r.shot.threads <= Len(threads) /\ r.shot.threads <= Len(threads')
      BY <1>2, <2>4, <2>9, <3>1 DEF ReplyIsSound
    <3>3. IsCreated(r) => r.about \in 1 .. Len(threads)
      BY <2>9 DEF ReplyIsSound
    <3>4. ASSUME IsSnapshot(r), NEW c \in 1 .. r.shot.threads
          PROVE  threads'[c] \in 1 .. r.shot.workspaces
      <4>1. c \in 1 .. Len(threads)
        BY <2>4, <3>1, <3>2, <3>4
      <4> QED BY <1>2, <2>9, <3>4, <4>1 DEF ReplyIsSound
    <3>5. ReplyIsSound(r)'
      <4>1. IsSnapshot(r) => \A j \in ThreadCalls : call'[j] = "snapshot" => subject'[j] <= r.shot.threads
        BY <2>6, <2>9 DEF ReplyIsSound
      <4>2. IsSnapshot(r) =>
              /\ r.shot /= Nothing /\ r.shot.threads <= Len(threads')
              /\ snapshot' /= Nothing => snapshot'.threads <= r.shot.threads
              /\ ToSet(layout'.open) \subseteq 1 .. r.shot.threads
              /\ r.call \in ThreadCalls => r.about \in 1 .. r.shot.threads
        BY <2>1, <2>9, <3>1, <3>2 DEF ReplyIsSound
      <4>3. IsCreated(r) => r.about \in 1 .. Len(threads')
        BY <2>4, <3>3
      <4> QED BY <3>4, <4>1, <4>2, <4>3 DEF ReplyIsSound
    <3> QED BY <3>1, <3>2, <3>3, <3>5
  <2>10. ReplyIsSound(m)'
    <3>1. ASSUME next = "idle"
          PROVE  /\ shot /= Nothing /\ shot.threads <= Len(threads')
                 /\ \A c \in 1 .. shot.threads : threads'[c] \in 1 .. shot.workspaces
                 /\ snapshot' /= Nothing => snapshot'.threads <= shot.threads
                 /\ ToSet(layout'.open) \subseteq 1 .. shot.threads
                 /\ \A j \in ThreadCalls : call'[j] = "snapshot" => subject'[j] <= shot.threads
      <4>1. /\ shot # Nothing /\ shot.threads = Len(threads) /\ shot.workspaces = Len(folders)
            /\ threads' = threads
        BY <1>2, <3>1
      <4>2. \A c \in 1 .. Len(threads) : threads[c] \in 1 .. Len(folders)
        <5>1. DOMAIN threads = 1 .. Len(threads) /\ DOMAIN folders = 1 .. Len(folders)
          BY <1>1
        <5> QED BY <5>1 DEF FolderInv, TablesOK
      <4>3. ToSet(layout'.open) \subseteq 1 .. Len(threads)
        BY <2>1 DEF PageOK, ThreadsAreKnown
      <4>4. \A j \in ThreadCalls : call'[j] = "snapshot" => subject'[j] <= Len(threads)
        BY <2>4, <2>6
      <4> QED BY <2>1, <2>3, <2>4, <4>1, <4>2, <4>3, <4>4
    <3> QED BY <1>2, <2>1, <3>1 DEF ReplyIsSound
  <2>11. CASE UNCHANGED mail
    <3>1. ASSUME NEW i \in DOMAIN mail' PROVE ReplyIsSound(mail[i])'
      <4>1. PICK r \in Replies : r = mail'[i] /\ ReplyIsSound(r)
        BY <2>8, <2>11
      <4> QED BY <2>9, <4>1 DEF ReplyIsSound
    <3>2. MailIsOrdered'
      BY <2>11, <3>1 DEF PageOK, MailIsOrdered
    <3> QED BY <2>2, <2>5, <2>7, <3>2 DEF PageOK
  <2>12. CASE mail' = Append(mail, m)
    <3>0. /\ DOMAIN mail' = DOMAIN mail \cup {Len(mail) + 1} /\ mail'[Len(mail) + 1] = m
          /\ \A i \in DOMAIN mail : mail'[i] = mail[i] /\ i < Len(mail) + 1
          /\ DOMAIN mail \subseteq Nat /\ Len(mail) \in Nat
      BY <1>1, <2>12
    <3>1. ASSUME NEW i \in DOMAIN mail' PROVE ReplyIsSound(mail[i])'
      <4>1. CASE i \in DOMAIN mail
        <5>1. PICK r \in Replies : r = mail'[i] /\ ReplyIsSound(r)
          BY <2>8, <3>0, <4>1
        <5> QED BY <2>9, <5>1 DEF ReplyIsSound
      <4>2. CASE i = Len(mail) + 1
        <5>1. mail'[i] = m
          BY <3>0, <4>2
        <5> QED BY <2>10, <5>1 DEF ReplyIsSound
      <4> QED BY <3>0, <4>1, <4>2
    <3>2. ASSUME NEW i \in DOMAIN mail', NEW j \in DOMAIN mail', i < j, IsSnapshot(mail'[j])
          PROVE  /\ IsSnapshot(mail'[i]) => mail'[i].shot.threads <= mail'[j].shot.threads
                 /\ IsCreated(mail'[i]) => mail'[i].about <= mail'[j].shot.threads
      <4>1. i \in DOMAIN mail /\ mail'[i] = mail[i]
        BY <3>0, <3>2
      <4>2. CASE j \in DOMAIN mail
        <5>1. mail'[j] = mail[j]
          BY <3>0, <4>2
        <5> QED BY <3>2, <4>1, <4>2, <5>1 DEF PageOK, MailIsOrdered
      <4>3. CASE j = Len(mail) + 1
        <5>1. /\ IsSnapshot(mail[i]) => mail[i].shot.threads <= Len(threads)
              /\ IsCreated(mail[i]) => mail[i].about \in 1 .. Len(threads)
          BY <2>8, <2>9, <4>1
        <5>2. mail'[j].shot.threads = Len(threads)
          BY <1>2, <2>1, <3>0, <3>2, <4>3
        <5> QED BY <2>4, <4>1, <5>1, <5>2
      <4> QED BY <3>0, <4>2, <4>3
    <3>3. MailIsOrdered'
      BY <3>1, <3>2 DEF MailIsOrdered
    <3> QED BY <2>2, <2>5, <2>7, <3>3 DEF PageOK
  <2> QED BY <2>1, <2>11, <2>12
<1>3. CASE AnswerWorkspace(k)
  <2>1. k \notin ThreadCalls
    BY <1>3 DEF AnswerWorkspace, PageOK, ThreadIsCreated
  <2>2. PICK w \in 1 .. MaxWorkspaces : UNCHANGED threads /\ Post(k, "snapshot", w, Nothing)
    BY <1>3 DEF AnswerWorkspace, CreateWorkspace
  <2> QED BY <1>1, <1>2, <2>1, <2>2
<1>4. CASE AnswerAgent(k)
  <2>1. UNCHANGED threads /\ Post(k, "conversation", subject[k], Nothing)
    BY <1>4 DEF AnswerAgent, CreateAgent
  <2> QED BY <1>1, <1>2, <2>1
<1>5. CASE AnswerConversation(k)
  <2>1. /\ threads' = Append(threads, subject[k]) /\ subject[k] \in DOMAIN folders
        /\ Post(k, "snapshot", Len(threads) + 1, Nothing)
    BY <1>5 DEF AnswerConversation, CreateConversation
  <2>2. /\ threads' \in Seq(Nat) /\ Len(threads') = Len(threads) + 1
        /\ \A c \in 1 .. Len(threads) : threads'[c] = threads[c]
    BY <1>1, <2>1
  <2>3. Len(threads) <= Len(threads') /\ Len(threads) + 1 \in 1 .. Len(threads')
    BY <1>1, <2>2
  <2> QED BY <1>2, <2>1, <2>2, <2>3
<1>6. CASE AnswerSnapshot(k)
  <2> DEFINE shot == [workspaces |-> Len(folders), threads |-> Len(threads)]
  <2>1. Post(k, "idle", subject[k], shot) /\ UNCHANGED tables /\ call[k] = "snapshot"
    BY <1>6 DEF AnswerSnapshot
  <2>2. shot \in Snapshots \ {Nothing} /\ shot.threads = Len(threads) /\ shot.workspaces = Len(folders)
    <3>1. /\ shot \in [workspaces : Nat, threads : Nat] /\ shot.threads = Len(threads)
          /\ shot.workspaces = Len(folders)
      BY <1>1
    <3>2. Nothing \notin [workspaces : Nat, threads : Nat]
      BY LayoutAssumption
    <3> QED BY <3>1, <3>2 DEF Snapshots
  <2>3. k \in ThreadCalls => subject[k] \in 1 .. shot.threads
    BY <2>1, <2>2 DEF PageOK, ThreadIsCreated
  <2> HIDE DEF shot
  <2>4. UNCHANGED <<threads, folders>> /\ threads' \in Seq(Nat) /\ Len(threads) <= Len(threads')
    BY <1>1, <2>1 DEF tables
  <2> QED BY <1>2, <2>1, <2>2, <2>3, <2>4
<1> QED BY <1>3, <1>4, <1>5, <1>6 DEF Answer

\* A request is rejected: a thread that was created, or a workspace, is shown all the
\* same.
LEMMA FailsStep ==
  ASSUME FolderInv, PageOK, NEW k \in Calls, Fail(k) PROVE PageOK'
<1>1. /\ call \in [Calls -> Steps] /\ subject \in [Calls -> Subjects]
      /\ threads \in Seq(Nat) /\ snapshot \in Snapshots
      /\ Fits(layout) /\ capacity \in Nat \ {0} /\ error \in BOOLEAN
      /\ UNCHANGED <<tables, mail, snapshot, capacity>>
  BY DEF FolderInv, CallsOK, TablesOK, PageOK, LayoutOK, Fail
<1>2. ASSUME NEW j \in ThreadCalls
      PROVE  /\ call'[j] # "workspace"
             /\ call'[j] = "snapshot" => call[j] = "snapshot" /\ subject'[j] = subject[j]
  <2>1. call[j] # "workspace" /\ j \in Calls
    BY DEF PageOK, ThreadIsCreated, ThreadCalls, Calls
  <2>2. Goes(k, "idle", Nothing) \/ UNCHANGED <<call, subject>>
    BY DEF Fail
  <2> QED BY <1>1, <2>1, <2>2 DEF Goes
<1>3. CASE UNCHANGED <<error, layout>>
  <2>1. Fits(layout')
    BY <1>1, <1>3 DEF Fits, Layouts, Subjects
  <2> QED BY <1>1, <1>2, <1>3, <2>1, ShowStep
<1>4. CASE /\ call[k] = "snapshot" /\ error' = TRUE
           /\ layout' \in Finished(k, subject[k], layout)
  <2>1. layout \in Layouts /\ subject[k] \in Subjects
    BY <1>1 DEF Fits
  <2>2. CASE k = "workspace"
    <3>1. layout' \in SelectWorkspace(layout, snapshot, subject[k])
      BY <1>4, <2>2 DEF Finished
    <3>2. Fits(layout') /\ ToSet(layout'.open) \subseteq Listed
      BY <1>1, <2>1, <3>1, Selected DEF Listed
    <3> QED BY <1>1, <1>2, <1>4, <3>2, ShowStep
  <2>3. CASE k = "folder"
    <3>1. layout' = [layout EXCEPT !.selected = subject[k]]
      BY <1>4, <2>3 DEF Finished
    <3>2. /\ layout' \in Layouts /\ layout'.active = layout.active /\ layout'.open = layout.open
          /\ layout'.panes = layout.panes
      BY <2>1, <3>1 DEF Layouts
    <3>3. Fits(layout')
      BY <1>1, <3>2 DEF Fits
    <3> QED BY <1>1, <1>2, <1>4, <3>2, <3>3, ShowStep
  <2>4. CASE k = "refresh"
    <3>1. layout' = layout
      BY <1>4, <2>4 DEF Finished
    <3>2. Fits(layout')
      BY <1>1, <3>1 DEF Fits, Layouts, Subjects
    <3> QED BY <1>1, <1>2, <1>4, <3>1, <3>2, ShowStep
  <2>5. CASE k \in ThreadCalls
    <3> DEFINE c == subject[k]
    <3>1. layout' = ActivateConversation(layout, c)
      BY <1>4, <2>5 DEF Finished, ThreadCalls
    <3>2. c \in DOMAIN threads /\ c \in Waiting
      BY <1>1, <1>4, <2>5 DEF PageOK, ThreadIsCreated, Waiting
    <3> HIDE DEF c
    <3>3. Fits(layout') /\ ToSet(layout'.open) = ToSet(layout.open) \cup {c}
      BY <1>1, <3>1, <3>2, Activated
    <3>4. ToSet(layout'.open) \subseteq ToSet(layout.open) \cup Listed \cup Waiting
      BY <3>2, <3>3
    <3> QED BY <1>1, <1>2, <1>4, <3>3, <3>4, ShowStep
  <2> QED BY <2>2, <2>3, <2>4, <2>5 DEF Calls, ThreadCalls
<1> QED BY <1>3, <1>4 DEF Fail

\* The last step of a call, on the layout that the snapshot of its refresh has
\* corrected: the active thread stays, or the new one has a pane.
LEMMA Ends ==
  ASSUME FolderInv, PageOK, NEW m \in Replies, ReplyIsSound(m), IsSnapshot(m),
         NEW l \in NormalizeUi(layout, m.shot), NEW n \in Finished(m.call, m.about, l)
  PROVE  /\ Fits(n) /\ ToSet(n.open) \subseteq 1 .. m.shot.threads /\ n.requested = l.requested
         /\ \/ n.active = Nothing
            \/ n.active = l.active /\ n.open = l.open
            \/ \E k \in DOMAIN n.panes : k <= n.requested /\ n.panes[k] = n.active
<1> USE DEF IsSnapshot, IsCreated
<1> DEFINE shot == m.shot
<1>1. /\ shot \in Snapshots \ {Nothing} /\ m.call \in Calls /\ m.about \in Subjects
      /\ shot.threads \in Nat /\ shot.threads <= Len(threads)
      /\ snapshot # Nothing => snapshot.threads <= shot.threads
      /\ m.call \in ThreadCalls => m.about \in 1 .. shot.threads
  BY DEF ReplyIsSound, Replies, Snapshots
<1>2. /\ threads \in Seq(Nat) /\ snapshot \in Snapshots
      /\ snapshot # Nothing => snapshot.threads \in Nat
  BY DEF FolderInv, TablesOK, CallsOK, Snapshots
<1> HIDE DEF shot
<1>3. Fits(l) /\ ToSet(l.open) \subseteq 1 .. shot.threads
  <2>1. Fits(layout) /\ l \in NormalizeUi(layout, shot)
    BY DEF PageOK, LayoutOK, shot
  <2> QED BY <1>1, <2>1, Corrected
<1>4. CASE m.call = "workspace"
  <2>1. n \in SelectWorkspace(l, snapshot, m.about)
    BY <1>4 DEF Finished
  <2>2. /\ Fits(n) /\ n.panes = n.open /\ n.requested = l.requested
        /\ ToSet(n.open) \subseteq IF snapshot = Nothing THEN {} ELSE 1 .. snapshot.threads
        /\ n.active # Nothing => n.open = <<n.active>>
    BY <1>1, <1>2, <1>3, <2>1, Selected
  <2>3. ToSet(n.open) \subseteq 1 .. shot.threads
    <3>1. snapshot # Nothing => 1 .. snapshot.threads \subseteq 1 .. shot.threads
      BY <1>1, <1>2
    <3> QED BY <2>2, <3>1
  <2>4. n.requested \in Nat \ {0}
    BY <2>2 DEF Fits, Layouts
  <2>5. n.active # Nothing => 1 \in DOMAIN n.panes /\ 1 <= n.requested /\ n.panes[1] = n.active
    BY <2>2, <2>4
  <2> QED BY <2>2, <2>3, <2>5 DEF shot
<1>5. CASE m.call = "folder"
  <2>1. n = [l EXCEPT !.selected = m.about] /\ l \in Layouts
    BY <1>3, <1>5 DEF Finished, Fits
  <2>2. /\ n \in Layouts /\ n.active = l.active /\ n.open = l.open /\ n.panes = l.panes
        /\ n.requested = l.requested
    BY <1>1, <2>1 DEF Layouts
  <2>3. Fits(n)
    BY <1>3, <2>2 DEF Fits
  <2> QED BY <1>3, <2>2, <2>3 DEF shot
<1>6. CASE m.call = "refresh"
  <2>1. n = l
    BY <1>6 DEF Finished
  <2> QED BY <1>3, <2>1 DEF shot
<1>7. CASE m.call \in ThreadCalls
  <2> DEFINE c == m.about
  <2>1. n = ActivateConversation(l, c)
    BY <1>7 DEF Finished, ThreadCalls
  <2>2. c \in DOMAIN threads /\ c \in 1 .. shot.threads
    BY <1>1, <1>2, <1>7
  <2> HIDE DEF c
  <2>3. /\ Fits(n) /\ n.active = c /\ n.requested = l.requested /\ ToSet(n.open) = ToSet(l.open) \cup {c}
        /\ \E k \in DOMAIN n.panes : k <= n.requested /\ n.panes[k] = c
    BY <1>2, <1>3, <2>1, <2>2, Activated
  <2> QED BY <1>3, <2>2, <2>3 DEF shot
<1> QED BY <1>1, <1>4, <1>5, <1>6, <1>7 DEF Calls, ThreadCalls

LEMMA ReceiveStep ==
  ASSUME FolderInv, PageOK, Receive PROVE PageOK'
<1> USE DEF IsSnapshot, IsCreated
<1> DEFINE m == Head(mail)
<1>1. /\ call \in [Calls -> Steps] /\ subject \in [Calls -> Subjects] /\ mail \in Seq(Replies)
      /\ snapshot \in Snapshots /\ threads \in Seq(Nat)
  BY DEF FolderInv, CallsOK, TablesOK
<1>2. /\ m = mail[1] /\ 1 \in DOMAIN mail /\ m \in Replies
      /\ mail' = Tail(mail) /\ Len(mail') = Len(mail) - 1 /\ DOMAIN mail' = 1 .. Len(mail) - 1
      /\ \A i \in DOMAIN mail' : mail'[i] = mail[i + 1] /\ i + 1 \in DOMAIN mail /\ 1 < i + 1
  BY <1>1 DEF Receive
<1>3. ReplyIsSound(m)
  BY <1>2 DEF PageOK, MailIsOrdered
<1> HIDE DEF m
<1>4. /\ Goes(m.call, m.next, IF m.next = "idle" THEN Nothing ELSE m.about)
      /\ UNCHANGED <<tables, authorizer, capacity>>
      /\ IF m.next = "idle"
         THEN /\ snapshot' = m.shot /\ error' = FALSE
              /\ \E l \in NormalizeUi(layout, m.shot) : layout' \in Finished(m.call, m.about, l)
         ELSE UNCHANGED <<snapshot, error, layout>>
  BY DEF Receive, m
<1>5. UNCHANGED threads /\ UNCHANGED capacity
  BY <1>4 DEF tables
<1>6. ThreadIsCreated'
  <2>1. m.call \in Calls /\ m.next \in {"snapshot", "conversation", "idle"}
    BY <1>2 DEF Replies
  <2>2. m.call \in ThreadCalls /\ m.next = "snapshot" => m.about \in 1 .. Len(threads)
    BY <1>3 DEF ReplyIsSound
  <2> SUFFICES ASSUME NEW k \in ThreadCalls
               PROVE  call'[k] # "workspace" /\ (call'[k] = "snapshot" => subject'[k] \in 1 .. Len(threads))
    BY <1>5 DEF ThreadIsCreated
  <2>3. call[k] # "workspace" /\ (call[k] = "snapshot" => subject[k] \in 1 .. Len(threads)) /\ k \in Calls
    BY DEF PageOK, ThreadIsCreated, ThreadCalls, Calls
  <2>4. CASE k = m.call
    <3>1. call'[k] = m.next /\ subject'[k] = IF m.next = "idle" THEN Nothing ELSE m.about
      BY <1>1, <1>4, <2>1, <2>4 DEF Goes
    <3> QED BY <2>1, <2>2, <2>4, <3>1
  <2>5. CASE k # m.call
    <3>1. call'[k] = call[k] /\ subject'[k] = subject[k]
      BY <1>1, <1>4, <2>1, <2>3, <2>5 DEF Goes
    <3> QED BY <2>3, <3>1
  <2> QED BY <2>4, <2>5
<1>6a. ASSUME NEW r \in Replies, ReplyIsSound(r), IsSnapshot(r),
              IsCreated(m) => m.about <= r.shot.threads
       PROVE  \A k \in ThreadCalls : call'[k] = "snapshot" => subject'[k] <= r.shot.threads
  <2> SUFFICES ASSUME NEW k \in ThreadCalls, call'[k] = "snapshot" PROVE subject'[k] <= r.shot.threads
    OBVIOUS
  <2>1. k \in Calls /\ m.call \in Calls
    BY <1>2 DEF ThreadCalls, Calls, Replies
  <2>2. CASE k = m.call
    <3>1. call'[k] = m.next /\ subject'[k] = IF m.next = "idle" THEN Nothing ELSE m.about
      BY <1>1, <1>4, <2>1, <2>2 DEF Goes
    <3> QED BY <1>6a, <2>2, <3>1
  <2>3. CASE k # m.call
    <3>1. call'[k] = call[k] /\ subject'[k] = subject[k]
      BY <1>1, <1>4, <2>1, <2>3 DEF Goes
    <3> QED BY <1>6a, <3>1 DEF ReplyIsSound
  <2> QED BY <2>2, <2>3
<1>7. ASSUME NEW i \in DOMAIN mail'
      PROVE  \E r \in Replies :
               /\ r = mail'[i] /\ ReplyIsSound(r)
               /\ IsSnapshot(r) => /\ IsSnapshot(m) => m.shot.threads <= r.shot.threads
                                   /\ IsCreated(m) => m.about <= r.shot.threads
  <2>1. i + 1 \in DOMAIN mail /\ 1 < i + 1 /\ mail'[i] = mail[i + 1]
    BY <1>2
  <2>2. mail[i + 1] \in Replies
    BY <1>1, <2>1
  <2> QED BY <1>2, <2>1, <2>2 DEF PageOK, MailIsOrdered
<1>8. \A i, j \in DOMAIN mail' :
         i < j /\ IsSnapshot(mail'[j]) =>
           /\ IsSnapshot(mail'[i]) => mail'[i].shot.threads <= mail'[j].shot.threads
           /\ IsCreated(mail'[i]) => mail'[i].about <= mail'[j].shot.threads
  <2> SUFFICES ASSUME NEW i \in DOMAIN mail', NEW j \in DOMAIN mail', i < j, IsSnapshot(mail'[j])
               PROVE  /\ IsSnapshot(mail'[i]) => mail'[i].shot.threads <= mail'[j].shot.threads
                      /\ IsCreated(mail'[i]) => mail'[i].about <= mail'[j].shot.threads
    OBVIOUS
  <2>1. /\ i + 1 \in DOMAIN mail /\ j + 1 \in DOMAIN mail /\ i + 1 < j + 1
        /\ mail'[i] = mail[i + 1] /\ mail'[j] = mail[j + 1]
    BY <1>2
  <2> QED BY <2>1 DEF PageOK, MailIsOrdered
<1>9. CASE m.next = "idle"
  <2>1. PICK l \in NormalizeUi(layout, m.shot) : layout' \in Finished(m.call, m.about, l)
    BY <1>4, <1>9
  <2>2. Fits(layout') /\ ToSet(layout'.open) \subseteq 1 .. m.shot.threads
    BY <1>2, <1>3, <1>9, <2>1, Ends
  <2>3. /\ snapshot' = m.shot /\ m.shot # Nothing /\ m.shot.threads <= Len(threads)
        /\ m.shot.threads \in Nat /\ Len(threads) \in Nat
    BY <1>1, <1>2, <1>3, <1>4, <1>9 DEF ReplyIsSound, Replies, Snapshots
  <2>4. LayoutOK'
    BY <1>5, <2>2 DEF LayoutOK, PageOK, Fits, Layouts, Subjects
  <2>5. ThreadsAreKnown'
    <3>1. ToSet(layout'.open) \subseteq 1 .. Len(threads)
      BY <2>2, <2>3
    <3> QED BY <1>5, <2>2, <2>3, <3>1 DEF ThreadsAreKnown
  <2>6. ASSUME NEW i \in DOMAIN mail' PROVE ReplyIsSound(mail[i])'
    <3>1. PICK r \in Replies :
            /\ r = mail'[i] /\ ReplyIsSound(r)
            /\ IsSnapshot(r) => /\ IsSnapshot(m) => m.shot.threads <= r.shot.threads
                                /\ IsCreated(m) => m.about <= r.shot.threads
      BY <1>7
    <3>2. IsSnapshot(r) =>
            /\ r.shot.threads \in Nat /\ m.shot.threads <= r.shot.threads
            /\ ToSet(layout'.open) \subseteq 1 .. r.shot.threads
      <4> SUFFICES ASSUME IsSnapshot(r)
                   PROVE  /\ r.shot.threads \in Nat /\ m.shot.threads <= r.shot.threads
                          /\ ToSet(layout'.open) \subseteq 1 .. r.shot.threads
        OBVIOUS
      <4>1. r.shot.threads \in Nat
        BY <3>1 DEF Replies, Snapshots, ReplyIsSound
      <4>2. m.shot.threads <= r.shot.threads
        BY <1>9, <3>1
      <4> QED BY <2>2, <2>3, <4>1, <4>2
    <3>3. IsSnapshot(r) => \A k \in ThreadCalls : call'[k] = "snapshot" => subject'[k] <= r.shot.threads
      BY <1>6a, <1>9, <3>1
    <3>4. ReplyIsSound(r)'
      BY <1>5, <2>3, <3>1, <3>2, <3>3 DEF ReplyIsSound
    <3> QED BY <3>1, <3>4 DEF ReplyIsSound
  <2> QED BY <1>6, <1>8, <2>4, <2>5, <2>6 DEF PageOK, MailIsOrdered
<1>10. CASE m.next # "idle"
  <2>1. UNCHANGED <<snapshot, error, layout, capacity>>
    BY <1>4, <1>10
  <2>2. LayoutOK' /\ ThreadsAreKnown'
    BY <1>5, <2>1 DEF LayoutOK, ThreadsAreKnown, PageOK, Fits, Layouts, Subjects
  <2>3. ASSUME NEW i \in DOMAIN mail' PROVE ReplyIsSound(mail[i])'
    <3>1. PICK r \in Replies :
            /\ r = mail'[i] /\ ReplyIsSound(r)
            /\ IsSnapshot(r) => /\ IsSnapshot(m) => m.shot.threads <= r.shot.threads
                                /\ IsCreated(m) => m.about <= r.shot.threads
      BY <1>7
    <3>2. IsSnapshot(r) => \A k \in ThreadCalls : call'[k] = "snapshot" => subject'[k] <= r.shot.threads
      BY <1>6a, <3>1
    <3>3. ReplyIsSound(r)'
      BY <1>5, <2>1, <3>1, <3>2 DEF ReplyIsSound
    <3> QED BY <3>1, <3>3 DEF ReplyIsSound
  <2> QED BY <1>6, <1>8, <2>2, <2>3 DEF PageOK, MailIsOrdered
<1> QED BY <1>9, <1>10

LEMMA ReloadStep == ASSUME FolderInv, PageOK, Reload PROVE PageOK'
<1>0. /\ UNCHANGED <<threads, layout, capacity>>
      /\ mail' = <<>> /\ snapshot' = Nothing
  BY DEF Reload, tables
<1>1. LayoutOK' /\ ThreadsAreKnown' /\ MailIsOrdered'
  BY <1>0 DEF LayoutOK, ThreadsAreKnown, MailIsOrdered, PageOK, Fits, Layouts, Subjects
<1>2. ThreadIsCreated'
  <2> SUFFICES ASSUME NEW k \in ThreadCalls PROVE call'[k] \notin {"workspace", "snapshot"}
    BY DEF ThreadIsCreated
  <2>1. k \in Calls /\ k # "refresh"
    BY DEF ThreadCalls, Calls
  <2> QED BY <2>1 DEF Reload
<1> QED BY <1>1, <1>2 DEF PageOK

LEMMA PageKept == FolderInv /\ PageOK /\ [Next]_vars => PageOK'
<1> SUFFICES ASSUME FolderInv, PageOK, [Next]_vars PROVE PageOK'
  OBVIOUS
<1>1. ASSUME UNCHANGED <<tables, calls, snapshot, error, layout, capacity>> PROVE PageOK'
  <2>1. Fits(layout') /\ capacity' \in Nat \ {0}
    BY <1>1 DEF PageOK, LayoutOK, Fits, Layouts, Subjects
  <2> QED BY <1>1, <2>1, ClicksShow
<1>2. CASE UNCHANGED vars
  BY <1>1, <1>2 DEF vars
<1>3. CASE Expire /\ UNCHANGED <<calls, snapshot, error, layout, capacity>>
  BY <1>1, <1>3 DEF Expire
<1>4. ASSUME NEW k \in Calls, Answer(k) \/ Fail(k) PROVE PageOK'
  BY <1>4, AnswersStep, FailsStep
<1> QED BY <1>2, <1>3, <1>4, ClickStep, CallStep, ReceiveStep, ReloadStep DEF Next

LEMMA Sound == FolderInv /\ PageOK => LayoutIsSound
<1> SUFFICES ASSUME FolderInv, PageOK PROVE LayoutIsSound
  OBVIOUS
<1>1. Fits(layout) /\ capacity \in Nat \ {0} /\ snapshot \in Snapshots
  BY DEF PageOK, LayoutOK, FolderInv, CallsOK
<1>2. ASSUME snapshot # Nothing, ~error
      PROVE  /\ OpenThreads(layout, snapshot) = layout.open
             /\ VisibleThreads(layout, snapshot, capacity) = PaneIds(layout, snapshot, capacity)
             /\ Len(VisibleThreads(layout, snapshot, capacity))
                  = Smaller(Smaller(layout.requested, capacity), Len(layout.open))
  <2>1. ToSet(layout.open) \subseteq 1 .. snapshot.threads
    BY <1>2 DEF PageOK, ThreadsAreKnown
  <2> QED BY <1>1, <1>2, <2>1, Visible
<1>3. /\ IsInjective(layout.open) /\ IsInjective(layout.panes) /\ layout.open \in Seq(Nat)
      /\ layout.active \in IF layout.open = <<>> THEN {Nothing} ELSE ToSet(layout.open)
  BY <1>1 DEF Fits, Layouts
<1>4. IF layout.open = <<>> THEN layout.active = Nothing ELSE Contains(layout.open, layout.active)
  BY <1>3, ContainsMembers
<1> QED BY <1>2, <1>3, <1>4 DEF LayoutIsSound

\* A thread in one of the first panes is shown, if the window has room for them.
LEMMA InItsPane ==
  ASSUME FolderInv', PageOK', snapshot' # Nothing, ~error', capacity' >= layout'.requested,
         NEW k \in DOMAIN layout'.panes, k <= layout'.requested, layout'.panes[k] = layout'.active
  PROVE  Contains(VisibleThreads(layout', snapshot', capacity'), layout'.active)
<1>1. /\ Fits(layout') /\ capacity' \in Nat \ {0} /\ snapshot' \in Snapshots \ {Nothing}
      /\ ToSet(layout'.open) \subseteq 1 .. snapshot'.threads
  BY DEF PageOK, LayoutOK, ThreadsAreKnown, FolderInv, CallsOK, Fits, Layouts, Subjects, Snapshots
<1>2. /\ VisibleThreads(layout', snapshot', capacity') \in Seq(Nat)
      /\ layout'.panes[k] \in ToSet(VisibleThreads(layout', snapshot', capacity'))
  BY <1>1, Visible
<1> QED BY <1>2, ContainsMembers

LEMMA Shown ==
  ASSUME FolderInv, PageOK, FolderInv', PageOK', Next, ~error',
         layout'.active \notin {layout.active, Nothing}, capacity >= layout.requested,
         mail' = mail \/ Contains(layout'.open, layout.active)
  PROVE  Contains(VisibleThreads(layout', snapshot', capacity'), layout'.active)
<1> USE LayoutAssumption
<1>1. /\ Fits(layout) /\ capacity \in Nat \ {0} /\ threads \in Seq(Nat) /\ snapshot \in Snapshots
      /\ snapshot # Nothing /\ ~error => ToSet(layout.open) \subseteq 1 .. snapshot.threads
  BY DEF PageOK, LayoutOK, ThreadsAreKnown, FolderInv, TablesOK, CallsOK
<1>2. /\ layout \in Layouts /\ layout.open \in Seq(Nat) /\ layout.panes \in Seq(Nat)
      /\ layout.requested \in Nat \ {0} /\ IsInjective(layout.open)
  BY <1>1 DEF Fits, Layouts
<1>3. ASSUME NEW w \in DOMAIN folders, SelectProject(w)
      PROVE Contains(VisibleThreads(layout', snapshot', capacity'), layout'.active)
  <2>1. w \in Subjects
    BY DEF FolderInv, TablesOK, Subjects
  <2>2. /\ layout' \in SelectWorkspace(layout, snapshot, w) /\ snapshot # Nothing
        /\ UNCHANGED <<snapshot, error, capacity>>
    BY <1>3 DEF SelectProject, Click
  <2>3. /\ layout'.requested = layout.requested /\ layout'.panes = layout'.open
        /\ layout'.open = <<layout'.active>>
    BY <1>1, <2>1, <2>2, Selected
  <2>4. 1 \in DOMAIN layout'.panes /\ 1 <= layout'.requested /\ layout'.panes[1] = layout'.active
    BY <1>2, <2>3
  <2>5. snapshot' # Nothing /\ capacity' >= layout'.requested
    BY <2>2, <2>3
  <2> QED BY <2>4, <2>5, InItsPane
<1>4. ASSUME NEW c \in DOMAIN threads, OpenThread(c)
      PROVE Contains(VisibleThreads(layout', snapshot', capacity'), layout'.active)
  <2>1. /\ layout' = ActivateConversation(layout, c) /\ snapshot # Nothing
        /\ UNCHANGED <<snapshot, error, capacity>>
    BY <1>4 DEF OpenThread, Click
  <2>2. /\ layout'.requested = layout.requested /\ layout'.active = c
        /\ \E k \in DOMAIN layout'.panes : k <= layout'.requested /\ layout'.panes[k] = c
    BY <1>1, <2>1, Activated
  <2> QED BY <2>1, <2>2, InItsPane
<1>5. ASSUME NEW n \in 1 .. MaxPanes, SelectPane(n)
      PROVE Contains(VisibleThreads(layout', snapshot', capacity'), layout'.active)
  <2> DEFINE panes == NormalizePaneIds(layout.panes, layout.open, layout.requested)
  <2>1. /\ layout' = [layout EXCEPT !.active = panes[n]] /\ snapshot # Nothing
        /\ n \in DOMAIN VisibleThreads(layout, snapshot, capacity)
        /\ UNCHANGED <<snapshot, error, capacity>>
    BY <1>5 DEF SelectPane, Click
  <2>2. VisibleThreads(layout, snapshot, capacity) = panes
    BY <1>1, <2>1, Visible
  <2>3. panes \in Seq(Nat)
    BY <1>2, NormalizedPanes
  <2>4. /\ layout'.open = layout.open /\ layout'.panes = layout.panes
        /\ layout'.requested = layout.requested /\ layout'.active = panes[n]
    BY <1>2, <2>1 DEF Layouts
  <2>5. /\ Fits(layout') /\ capacity' \in Nat \ {0} /\ snapshot' \in Snapshots \ {Nothing}
        /\ ToSet(layout'.open) \subseteq 1 .. snapshot'.threads
    <3>1. Fits(layout')
      BY DEF PageOK, LayoutOK, Fits, Layouts, Subjects
    <3> QED BY <1>1, <2>1, <2>4, <3>1
  <2>6. VisibleThreads(layout', snapshot', capacity')
          = NormalizePaneIds(layout'.panes, layout'.open, layout'.requested)
    BY <2>1, <2>4, <2>5, Visible
  <2>7. VisibleThreads(layout', snapshot', capacity') = panes
    BY <2>4, <2>6
  <2> HIDE DEF panes
  <2>8. n \in DOMAIN panes
    BY <2>1, <2>2
  <2>9. panes[n] \in ToSet(panes)
    BY <2>8, Members
  <2> QED BY <2>3, <2>4, <2>7, <2>9, ContainsMembers
<1>6. ASSUME NEW n \in 1 .. MaxPanes, SetRequestedSplitCount(n) PROVE FALSE
  <2>1. layout' = [layout EXCEPT !.requested = n,
                                 !.panes = NormalizePaneIds(layout.panes, layout.open, n)]
    BY <1>6 DEF SetRequestedSplitCount, Click
  <2>2. layout'.active = layout.active
    BY <1>2, <2>1 DEF Layouts
  <2> QED BY <2>2
<1>7. ASSUME UNCHANGED layout PROVE FALSE
  BY <1>7
<1>8. CASE Receive
  <2> DEFINE m == Head(mail)
  <2>1. mail \in Seq(Replies)
    BY DEF FolderInv, CallsOK
  <2>2. mail # <<>> /\ mail' = Tail(mail)
    BY <1>8 DEF Receive
  <2>3. m \in Replies /\ m = mail[1] /\ 1 \in DOMAIN mail /\ Len(mail') # Len(mail)
    BY <2>1, <2>2
  <2>4. ReplyIsSound(m)
    BY <2>3 DEF PageOK, MailIsOrdered
  <2>5. Contains(layout'.open, layout.active)
    BY <2>3
  <2>6. /\ m.next # "idle" => UNCHANGED layout
        /\ m.next = "idle" => /\ snapshot' = m.shot
                              /\ \E l \in NormalizeUi(layout, m.shot) :
                                   layout' \in Finished(m.call, m.about, l)
        /\ UNCHANGED capacity
    BY <1>8 DEF Receive
  <2> USE DEF IsSnapshot, IsCreated
  <2> HIDE DEF m
  <2>7. m.next = "idle"
    BY <1>7, <2>6
  <2>8. PICK l \in NormalizeUi(layout, m.shot) : layout' \in Finished(m.call, m.about, l)
    BY <2>6, <2>7
  <2>9. \/ layout'.active = l.active /\ layout'.open = l.open
        \/ \E k \in DOMAIN layout'.panes : k <= layout'.requested /\ layout'.panes[k] = layout'.active
    BY <2>3, <2>4, <2>7, <2>8, Ends
  <2>10. m.shot \in Snapshots \ {Nothing}
    BY <2>3, <2>4, <2>7 DEF ReplyIsSound, Replies
  <2>11. /\ l.requested = layout.requested /\ l.open \in Seq(Nat)
         /\ layout.active \in ToSet(l.open) => l.active = layout.active
    <3>1. /\ Fits(l) /\ l.requested = layout.requested
          /\ layout.active \in ToSet(l.open) => l.active = layout.active
      BY <1>1, <2>8, <2>10, Corrected
    <3> QED BY <3>1 DEF Fits, Layouts
  <2>12. ~(layout'.active = l.active /\ layout'.open = l.open)
    <3> SUFFICES ASSUME layout'.active = l.active, layout'.open = l.open PROVE FALSE
      OBVIOUS
    <3>1. layout.active \in ToSet(l.open)
      BY <2>5, <2>11, ContainsMembers
    <3> QED BY <2>11, <3>1
  <2>13. layout'.requested = layout.requested
    BY <2>3, <2>4, <2>7, <2>8, <2>11, Ends
  <2>14. PICK k \in DOMAIN layout'.panes : k <= layout'.requested /\ layout'.panes[k] = layout'.active
    BY <2>9, <2>12
  <2>15. snapshot' # Nothing /\ capacity' >= layout'.requested
    BY <2>6, <2>7, <2>10, <2>13
  <2> QED BY <2>14, <2>15, InItsPane
<1>9. CASE NewRefresh \/ NewWorkspace \/ NewFolder \/ NewRequest \/ NewThread("conversation") \/ NewThread("agent")
  BY <1>7, <1>9 DEF NewRefresh, NewWorkspace, NewFolder, NewRequest, NewThread, Ask
<1>10. CASE DialogEnds \/ TakeChoice \/ Reload
  BY <1>7, <1>10 DEF DialogEnds, TakeChoice, Reload
<1>11. ASSUME NEW k \in Calls, Answer(k) PROVE FALSE
  BY <1>7, <1>11 DEF Answer, AnswerWorkspace, AnswerAgent, AnswerConversation, AnswerSnapshot, Post
<1>12. ASSUME NEW n \in 1 .. MaxPanes, Resize(n) PROVE FALSE
  BY <1>7, <1>12 DEF Resize
<1>13. ASSUME NEW k \in Calls, Fail(k) PROVE FALSE
  BY <1>7, <1>13 DEF Fail
<1> QED BY <1>3, <1>4, <1>5, <1>6, <1>7, <1>8, <1>9, <1>10, <1>11, <1>12, <1>13 DEF Next

\* A refresh that succeeds after one that failed leaves the active thread in its pane.
LEMMA StillShown ==
  ASSUME FolderInv, PageOK, FolderInv', PageOK', Next, error, ~error', snapshot' # Nothing,
         capacity >= layout.requested, Head(mail).call = "refresh", HasPane
  PROVE  /\ layout'.active = layout.active
         /\ Contains(VisibleThreads(layout', snapshot', capacity'), layout.active)
<1> USE DEF IsSnapshot, IsCreated
<1>1. Receive
  <2>1. ~UNCHANGED error
    OBVIOUS
  <2>2. ~Reload
    BY DEF Reload
  <2>3. ASSUME NEW w, SelectProject(w) PROVE FALSE
    BY <2>1, <2>3 DEF SelectProject, Click
  <2>4. ASSUME NEW c, OpenThread(c) PROVE FALSE
    BY <2>1, <2>4 DEF OpenThread, Click
  <2>5. ASSUME NEW n, SelectPane(n) \/ SetRequestedSplitCount(n) \/ Resize(n) PROVE FALSE
    BY <2>1, <2>5 DEF SelectPane, SetRequestedSplitCount, Resize, Click
  <2>6. ~(NewRefresh \/ NewWorkspace \/ NewFolder \/ NewRequest \/ NewThread("conversation") \/ NewThread("agent"))
    BY <2>1 DEF NewRefresh, NewWorkspace, NewFolder, NewRequest, NewThread, Ask
  <2>7. ~(DialogEnds \/ TakeChoice)
    BY <2>1 DEF DialogEnds, TakeChoice
  <2>8. ASSUME NEW k, Answer(k) PROVE FALSE
    BY <2>1, <2>8 DEF Answer, AnswerWorkspace, AnswerAgent, AnswerConversation, AnswerSnapshot, Post
  <2>9. ASSUME NEW k, Fail(k) PROVE FALSE
    BY <2>1, <2>9 DEF Fail
  <2> QED BY <2>1, <2>2, <2>3, <2>4, <2>5, <2>6, <2>7, <2>8, <2>9 DEF Next
<1> DEFINE m == Head(mail)
<1>2. mail \in Seq(Replies) /\ mail # <<>>
  BY <1>1 DEF FolderInv, CallsOK, Receive
<1>3. m \in Replies /\ m = mail[1] /\ 1 \in DOMAIN mail
  BY <1>2
<1>4. ReplyIsSound(m)
  BY <1>3 DEF PageOK, MailIsOrdered
<1>5. /\ m.next # "idle" => UNCHANGED error
      /\ m.next = "idle" => /\ snapshot' = m.shot
                            /\ \E l \in NormalizeUi(layout, m.shot) :
                                 layout' \in Finished(m.call, m.about, l)
      /\ UNCHANGED capacity
  BY <1>1 DEF Receive
<1>6. m.call = "refresh"
  OBVIOUS
<1> HIDE DEF m
<1>7. m.next = "idle"
  BY <1>5
<1>8. layout' \in NormalizeUi(layout, m.shot)
  BY <1>5, <1>6, <1>7 DEF Finished
<1>9. PICK i \in DOMAIN layout.panes : i <= layout.requested /\ layout.panes[i] = layout.active
  BY DEF HasPane
<1>10. Fits(layout) /\ m.shot \in Snapshots \ {Nothing}
  BY <1>3, <1>4, <1>7 DEF PageOK, LayoutOK, ReplyIsSound, Replies
<1>11. layout.active \in 1 .. m.shot.threads
  <2>1. layout.active \in ToSet(layout.panes)
    BY <1>9, Members
  <2>2. ToSet(layout.panes) \subseteq ToSet(layout.open) /\ ToSet(layout.open) \subseteq 1 .. m.shot.threads
    BY <1>4, <1>7, <1>10 DEF Fits, ReplyIsSound
  <2> QED BY <2>1, <2>2
<1>12. threads[layout.active] = layout.selected /\ layout.selected \in 1 .. m.shot.workspaces
  BY <1>4, <1>7, <1>11 DEF HasPane, ReplyIsSound
<1>13. layout'.requested = layout.requested
  BY <1>8, <1>10, Corrected
<1>14. /\ layout'.active = layout.active
       /\ \E k \in DOMAIN layout'.panes : k <= layout'.requested /\ layout'.panes[k] = layout'.active
  BY <1>8, <1>9, <1>10, <1>11, <1>12, ActiveStays
<1>15. capacity' >= layout'.requested
  BY <1>5, <1>13
<1> QED BY <1>14, <1>15, InItsPane

\* FoldersAreChosen for any folders and any order of dialogs, reloads, requests and
\* failures: a folder becomes a workspace once for each time it was chosen in the
\* dialog, and no two workspaces have one folder (ProjectDirectoryAuthorizer,
\* createWorkspace).
THEOREM FoldersStayChosen == Spec => []FoldersAreChosen
<1>1. FolderInv => FoldersAreChosen
  BY DEF FolderInv
<1> QED BY <1>1, FolderInit, FolderStep, PTL DEF Spec

\* LayoutIsSound for any number of threads, panes and calls, and for any order of
\* clicks, reloads, resizing, replies and requests that are rejected: the active
\* thread is an open one and no thread is open or shown twice; and unless the last
\* refresh failed, the page knows every open thread and shows as many as asked for,
\* as are open and as there is room for (normalizeUi, selectWorkspace,
\* normalizePaneIds, assignToPane, refresh).
THEOREM LayoutStaysSound == Spec => []LayoutIsSound
<1>1. FolderInv /\ PageOK => LayoutIsSound
  BY Sound
<1>2. Init => FolderInv /\ PageOK
  BY FolderInit, PageInit
<1>3. FolderInv /\ PageOK /\ [Next]_vars => (FolderInv /\ PageOK)'
  BY FolderStep, PageKept
<1> QED BY <1>1, <1>2, <1>3, PTL DEF Spec

\* ActiveThreadIsShown for the same: unless the last refresh failed, whatever makes a
\* thread the active one puts it in a pane that the window shows
\* (activateConversation, selectPane, selectWorkspace); and a thread that was opened
\* while a refresh failed is still the active one and shown once one succeeds
\* (refresh, normalizeUi), however many threads and panes there are.
THEOREM ActiveThreadStaysShown == Spec => ActiveThreadIsShown
<1> DEFINE A == capacity >= layout.requested /\ ~error' =>
                  /\ /\ layout'.active \notin {layout.active, Nothing}
                     /\ mail' = mail \/ Contains(layout'.open, layout.active)
                     => Shows(layout', snapshot', capacity')
                  /\ error /\ snapshot' /= Nothing /\ Head(mail).call = "refresh" /\ HasPane
                     => layout'.active = layout.active /\ Shows(layout', snapshot', capacity')
<1>1. Init => FolderInv /\ PageOK
  BY FolderInit, PageInit
<1>2. FolderInv /\ PageOK /\ [Next]_vars => (FolderInv /\ PageOK)'
  BY FolderStep, PageKept
<1>3. FolderInv /\ PageOK /\ (FolderInv /\ PageOK)' /\ [Next]_vars => [A]_vars
  <2> SUFFICES ASSUME FolderInv, PageOK, FolderInv', PageOK', Next PROVE A
    OBVIOUS
  <2> SUFFICES ASSUME capacity >= layout.requested, ~error'
               PROVE  /\ /\ layout'.active \notin {layout.active, Nothing}
                         /\ mail' = mail \/ Contains(layout'.open, layout.active)
                         => Shows(layout', snapshot', capacity')
                      /\ error /\ snapshot' /= Nothing /\ Head(mail).call = "refresh" /\ HasPane
                         => layout'.active = layout.active /\ Shows(layout', snapshot', capacity')
    OBVIOUS
  <2>1. ASSUME layout'.active \notin {layout.active, Nothing},
               mail' = mail \/ Contains(layout'.open, layout.active)
        PROVE  Shows(layout', snapshot', capacity')
    <3>1. Contains(VisibleThreads(layout', snapshot', capacity'), layout'.active)
      BY <2>1, Shown
    <3> QED BY <3>1 DEF Shows
  <2>2. ASSUME error, snapshot' /= Nothing, Head(mail).call = "refresh", HasPane
        PROVE  layout'.active = layout.active /\ Shows(layout', snapshot', capacity')
    <3>1. /\ layout'.active = layout.active
          /\ Contains(VisibleThreads(layout', snapshot', capacity'), layout'.active)
      BY <2>2, StillShown
    <3> QED BY <3>1 DEF Shows
  <2> QED BY <2>1, <2>2
<1>4. ActiveThreadIsShown <=> [][A]_vars
  BY DEF ActiveThreadIsShown
<1> QED BY <1>1, <1>2, <1>3, <1>4, PTL DEF Spec
=============================================================================

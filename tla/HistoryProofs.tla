------------------------------ MODULE HistoryProofs ------------------------------
(***************************************************************************)
(* HistInv is an inductive invariant of ModelHistory, for any ids, sizes,  *)
(* windows and numbers of messages and calls, and the three properties of  *)
(* what the provider is told follow from it.                               *)
(*                                                                         *)
(* The first part is about functions that go over a list: what they make   *)
(* of a list that grows by one element.  The second is about the           *)
(* projection of any well-formed transcript, the third about the steps.    *)
(***************************************************************************)
EXTENDS HistoryInv, Integers, FiniteSetTheorems, WellFoundedInduction, TLAPS

----------------------------------------------------------------------------
\* Functions over lists.

\* The well-foundedness of < on Nat, without an operator as an argument.
LEMMA NatWellFounded == \E R : /\ R = {p \in Nat \X Nat : p[1] < p[2]}
                               /\ IsWellFoundedOn(R, Nat)
  BY NatLessThanWellFounded, Zenon DEF OpToRel

\* Every set of numbers that has one has a least one.
LEMMA Least ==
  ASSUME NEW T, T \subseteq Nat, T # {}
  PROVE \E n \in T : \A m \in T : n <= m
<1>1. PICK R : R = {p \in Nat \X Nat : p[1] < p[2]} /\ IsWellFoundedOn(R, Nat)
  BY NatWellFounded
<1>2. PICK x \in T : \A y \in T : ~(<<y, x>> \in R)
  BY <1>1, WFMin, Zenon
<1>3. ASSUME NEW y \in T PROVE x <= y
  <2>1. x \in Nat /\ y \in Nat
    OBVIOUS
  <2>2. ~(<<y, x>> \in {p \in Nat \X Nat : p[1] < p[2]})
    BY <1>1, <1>2
  <2> QED BY <2>1, <2>2
<1> QED BY <1>3

\* Induction over the numbers up to N, with the set S of those that the claim
\* holds for.
LEMMA Induction ==
  ASSUME NEW N \in Nat, NEW S, 0 \in S, \A n \in 0 .. N - 1 : n \in S => n + 1 \in S
  PROVE  \A n \in 0 .. N : n \in S
<1> SUFFICES ASSUME (0 .. N) \ S # {} PROVE FALSE
  OBVIOUS
<1>1. PICK n \in (0 .. N) \ S : \A m \in (0 .. N) \ S : n <= m
  <2>1. (0 .. N) \ S \subseteq Nat
    OBVIOUS
  <2> QED BY <2>1, Least
<1>2. n # 0 /\ n - 1 \in 0 .. N - 1 /\ n - 1 \in 0 .. N /\ n - 1 < n /\ (n - 1) + 1 = n
  BY <1>1
<1>3. n - 1 \in S
  BY <1>1, <1>2
<1> QED BY <1>1, <1>2, <1>3

\* f[n] is what F makes of v0 and the first n elements of s, one by one.
IsFold(f, s, X, V, v0, F) ==
    /\ s \in Seq(X) /\ v0 \in V /\ F \in [V -> [X -> V]]
    /\ f \in [0 .. Len(s) -> V] /\ f[0] = v0
    /\ \A n \in 1 .. Len(s) : f[n] = F[f[n - 1]][s[n]]

\* A function that goes over a list exists, and its values stay in V.
LEMMA FoldExists ==
  ASSUME NEW X, NEW s \in Seq(X), NEW V, NEW v0 \in V, NEW F \in [V -> [X -> V]]
  PROVE  \E f : IsFold(f, s, X, V, v0, F)
<1> DEFINE N == Len(s)
           Upto(n, f) == f \in [0 .. n -> V] /\ f[0] = v0 /\ \A m \in 1 .. n : f[m] = F[f[m - 1]][s[m]]
           S == {n \in Nat : \E f : Upto(n, f)}
<1>0. N \in Nat /\ \A n \in 1 .. N : s[n] \in X
  OBVIOUS
<1>1. 0 \in S
  <2>1. Upto(0, [i \in 0 .. 0 |-> v0])
    OBVIOUS
  <2> QED BY <2>1
<1>2. ASSUME NEW n \in 0 .. N - 1, n \in S PROVE n + 1 \in S
  <2>1. PICK f : Upto(n, f)
    BY <1>2
  <2> DEFINE g == [i \in 0 .. n + 1 |-> IF i = n + 1 THEN F[f[n]][s[n + 1]] ELSE f[i]]
  <2>2. n + 1 \in 1 .. N /\ n \in 0 .. n
    BY <1>0
  <2> HIDE DEF N
  <2>3. F[f[n]][s[n + 1]] \in V
    BY <1>0, <2>1, <2>2
  <2>4. g \in [0 .. n + 1 -> V] /\ g[0] = v0
    BY <1>0, <2>1, <2>3
  <2>5. ASSUME NEW m \in 1 .. n + 1 PROVE g[m] = F[g[m - 1]][s[m]]
    <3>1. CASE m = n + 1
      BY <2>1, <3>1
    <3>2. CASE m \in 1 .. n
      BY <2>1, <3>2
    <3> QED BY <3>1, <3>2
  <2>6. Upto(n + 1, g)
    BY <2>4, <2>5
  <2> HIDE DEF Upto, g
  <2> QED BY <2>6
<1> HIDE DEF S, N
<1>3. N \in S
  <2>1. \A n \in 0 .. N - 1 : n \in S => n + 1 \in S
    BY <1>2
  <2>2. \A n \in 0 .. N : n \in S
    BY <1>0, <1>1, <2>1, Induction
  <2> QED BY <1>0, <2>2
<1>4. PICK f : Upto(N, f)
  BY <1>3 DEF S
<1> QED BY <1>4 DEF IsFold, N

\* What makes the same N steps is the same.
Follows(g, N, s, V, v0, F) ==
    g[0] = v0 /\ \A n \in 1 .. N : g[n - 1] \in V => g[n] = F[g[n - 1]][s[n]]

\* Whatever follows the list as it does has its values.
LEMMA FoldUnique ==
  ASSUME NEW X, NEW s, NEW V, NEW v0, NEW F, NEW f, NEW N, NEW g,
         IsFold(f, s, X, V, v0, F), N \in 0 .. Len(s), Follows(g, N, s, V, v0, F)
  PROVE  g[N] = f[N]
<1> DEFINE S == {n \in 0 .. N : g[n] = f[n]}
<1>0. Len(s) \in Nat
  BY DEF IsFold
<1>1. 0 \in S
  BY <1>0 DEF IsFold, Follows
<1>2. ASSUME NEW n \in 0 .. N - 1, n \in S PROVE n + 1 \in S
  <2>1. n + 1 \in 1 .. N /\ n + 1 \in 1 .. Len(s) /\ (n + 1) - 1 = n /\ n \in 0 .. Len(s)
    BY <1>0
  <2>2. f[n] \in V /\ f[n + 1] = F[f[n]][s[n + 1]]
    BY <2>1 DEF IsFold
  <2>3. g[n] = f[n] /\ n + 1 \in 0 .. N
    BY <1>2
  <2>4. g[(n + 1) - 1] \in V
    BY <2>1, <2>2, <2>3
  <2>5. g[n + 1] = F[g[(n + 1) - 1]][s[n + 1]]
    BY <2>1, <2>4 DEF Follows
  <2> QED BY <2>1, <2>2, <2>3, <2>5
<1> HIDE DEF S
<1>3. N \in S
  <2>1. \A n \in 0 .. N - 1 : n \in S => n + 1 \in S
    BY <1>2
  <2>2. N \in Nat /\ N \in 0 .. N
    BY <1>0
  <2>3. \A n \in 0 .. N : n \in S
    BY <1>1, <2>1, <2>2, Induction
  <2> QED BY <2>2, <2>3
<1> QED BY <1>3 DEF S

\* A list with one element more takes one step more.
LEMMA FoldAppend ==
  ASSUME NEW X, NEW s, NEW x, NEW V, NEW v0, NEW F, NEW f, NEW h,
         x \in X, IsFold(f, s, X, V, v0, F), IsFold(h, Append(s, x), X, V, v0, F)
  PROVE  h[Len(Append(s, x))] = F[f[Len(s)]][x]
<1> DEFINE N == Len(s)
           t == Append(s, x)
<1>0. s \in Seq(X)
  BY DEF IsFold
<1>1. /\ Len(t) = N + 1 /\ t[N + 1] = x
      /\ \A n \in 1 .. N : t[n] = s[n] /\ n \in 1 .. N + 1
      /\ N + 1 \in 1 .. N + 1 /\ N + 1 - 1 = N /\ N \in 0 .. N
  BY <1>0
<1>2. h[0] = v0 /\ \A n \in 1 .. Len(t) : h[n] = F[h[n - 1]][t[n]]
  BY DEF IsFold
<1> HIDE DEF t
<1>3. N \in 0 .. Len(s)
  BY <1>1
<1>4. Follows(h, N, s, V, v0, F)
  BY <1>1, <1>2 DEF Follows
<1> HIDE DEF N
<1>5. h[N] = f[N]
  BY <1>3, <1>4, FoldUnique
<1> DEFINE k == N + 1
<1>6. k \in 1 .. Len(t) /\ k - 1 = N /\ t[k] = x /\ Len(t) = k
  BY <1>1
<1> HIDE DEF k
<1>7. h[k] = F[h[k - 1]][t[k]]
  BY <1>2, <1>6, Zenon
<1> QED BY <1>5, <1>6, <1>7 DEF N, t

\* What Keep makes of a list and one more element.
KeepStep(X, S) == [v \in Seq(X) |-> [x \in X |-> IF x \in S THEN Append(v, x) ELSE v]]

\* Keep is such a function.
LEMMA KeepFolds ==
  ASSUME NEW X, NEW S, NEW s \in Seq(X), NEW f, IsFold(f, s, X, Seq(X), <<>>, KeepStep(X, S))
  PROVE  Keep(s, S) = f[Len(s)]
<1> DEFINE N == Len(s)
           W == Seq(X)
           Def(h) == [n \in 0 .. N |-> IF n = 0 THEN <<>> ELSE IF s[n] \in S THEN Append(h[n - 1], s[n]) ELSE h[n - 1]]
           g == CHOOSE h : h = Def(h)
<1>1. /\ f \in [0 .. N -> W] /\ f[0] = <<>>
      /\ \A n \in 1 .. N : f[n] = KeepStep(X, S)[f[n - 1]][s[n]]
  BY DEF IsFold
<1>2. N \in Nat /\ N \in 0 .. N /\ \A n \in 1 .. N : s[n] \in X /\ n - 1 \in 0 .. N /\ n \in 0 .. N /\ n # 0
  OBVIOUS
<1>3. \A v \in W : \A x \in X : KeepStep(X, S)[v][x] = IF x \in S THEN Append(v, x) ELSE v
  BY DEF KeepStep
<1> HIDE DEF N, W
<1>4. ASSUME NEW n \in 0 .. N PROVE f[n] = Def(f)[n]
  <2>1. CASE n = 0
    BY <1>1, <2>1
  <2>2. CASE n # 0
    <3>1. n \in 1 .. N
      BY <1>2, <2>2
    <3>2. f[n] = KeepStep(X, S)[f[n - 1]][s[n]] /\ f[n - 1] \in W /\ s[n] \in X
      BY <1>1, <1>2, <3>1
    <3>3. f[n] = IF s[n] \in S THEN Append(f[n - 1], s[n]) ELSE f[n - 1]
      BY <1>3, <3>2
    <3> QED BY <2>2, <3>3
  <2> QED BY <2>1, <2>2
<1>5. f = Def(f)
  <2> DEFINE d == Def(f)
  <2>1. \A n \in 0 .. N : f[n] = d[n]
    BY <1>4
  <2>2. DOMAIN d = 0 .. N /\ d = [n \in 0 .. N |-> d[n]]
    OBVIOUS
  <2> HIDE DEF d
  <2>3. f = d
    BY <1>1, <2>1, <2>2
  <2> QED BY <2>3 DEF d
<1>6. g = Def(g) /\ Keep(s, S) = g[N]
  BY <1>5 DEF Keep, N
<1> HIDE DEF g
<1>7. Follows(g, N, s, W, <<>>, KeepStep(X, S))
  <2>1. g[0] = <<>>
    BY <1>2, <1>6
  <2>2. ASSUME NEW n \in 1 .. N, g[n - 1] \in W PROVE g[n] = KeepStep(X, S)[g[n - 1]][s[n]]
    <3>1. g[n] = IF s[n] \in S THEN Append(g[n - 1], s[n]) ELSE g[n - 1]
      BY <1>2, <1>6
    <3>2. s[n] \in X
      BY <1>2
    <3> QED BY <1>3, <2>2, <3>1, <3>2
  <2> QED BY <2>1, <2>2 DEF Follows
<1>8. N \in 0 .. Len(s)
  BY <1>2 DEF N
<1>9. g[N] = f[N]
  BY <1>7, <1>8, FoldUnique DEF W
<1> QED BY <1>6, <1>9 DEF N

\* What Keep makes of a list that grows.
LEMMA KeepLaws ==
  ASSUME NEW X, NEW S, NEW s \in Seq(X), NEW y \in X
  PROVE  /\ Keep(s, S) \in Seq(X) /\ Keep(<<>>, S) = <<>>
         /\ Keep(Append(s, y), S) = IF y \in S THEN Append(Keep(s, S), y) ELSE Keep(s, S)
<1> DEFINE V == Seq(X)
<1>1. <<>> \in V /\ <<>> \in Seq(X) /\ Append(s, y) \in Seq(X)
  OBVIOUS
<1>2. KeepStep(X, S) \in [V -> [X -> V]]
  BY DEF KeepStep
<1> HIDE DEF V
<1>3. PICK f : IsFold(f, s, X, V, <<>>, KeepStep(X, S))
  BY <1>1, <1>2, FoldExists
<1>4. PICK h : IsFold(h, Append(s, y), X, V, <<>>, KeepStep(X, S))
  BY <1>1, <1>2, FoldExists
<1>5. PICK e : IsFold(e, <<>>, X, V, <<>>, KeepStep(X, S))
  BY <1>1, <1>2, FoldExists
<1>6. Keep(s, S) = f[Len(s)] /\ Keep(Append(s, y), S) = h[Len(Append(s, y))] /\ Keep(<<>>, S) = e[Len(<<>>)]
  BY <1>1, <1>3, <1>4, <1>5, KeepFolds DEF V
<1>7. h[Len(Append(s, y))] = KeepStep(X, S)[f[Len(s)]][y]
  BY <1>3, <1>4, FoldAppend
<1>8. f[Len(s)] \in V /\ e[Len(<<>>)] = <<>>
  <2>1. Len(s) \in 0 .. Len(s) /\ Len(<<>>) = 0
    OBVIOUS
  <2> QED BY <1>3, <1>5, <2>1 DEF IsFold
<1> QED BY <1>6, <1>7, <1>8 DEF V, KeepStep

\* Nothing is kept of nothing.
LEMMA EmptyKeep == \A S : Keep(<<>>, S) = <<>>
<1> SUFFICES ASSUME NEW S PROVE Keep(<<>>, S) = <<>>
  OBVIOUS
<1>1. <<>> \in Seq({0}) /\ 0 \in {0}
  OBVIOUS
<1> QED BY <1>1, KeepLaws

\* The members of a list are its elements.
LEMMA Members == \A s, x : x \in ToSet(s) <=> \E i \in DOMAIN s : s[i] = x
  BY DEF ToSet

\* The prefixes of a list grow by one element at a time.
LEMMA Prefix ==
  ASSUME NEW X, NEW s \in Seq(X)
  PROVE  /\ SubSeq(s, 1, 0) = <<>> /\ SubSeq(s, 1, Len(s)) = s
         /\ \A n \in 0 .. Len(s) - 1 :
              /\ s[n + 1] \in X
              /\ SubSeq(s, 1, n) \in Seq(X) /\ SubSeq(s, 1, n + 1) = Append(SubSeq(s, 1, n), s[n + 1])
  OBVIOUS

\* The elements of a list that grows.
LEMMA AppendParts ==
  ASSUME NEW X, NEW s \in Seq(X), NEW x \in X
  PROVE  /\ Append(s, x) \in Seq(X)
         /\ DOMAIN Append(s, x) = DOMAIN s \cup {Len(s) + 1} /\ Append(s, x)[Len(s) + 1] = x
         /\ \A i \in DOMAIN s : Append(s, x)[i] = s[i]
  OBVIOUS

\* The members of a list that grows.
LEMMA AppendMembers ==
  ASSUME NEW X, NEW s \in Seq(X), NEW x \in X
  PROVE  ToSet(Append(s, x)) = ToSet(s) \cup {x}
<1> DEFINE t == Append(s, x)
<1>1. /\ DOMAIN t = DOMAIN s \cup {Len(s) + 1} /\ t[Len(s) + 1] = x
      /\ \A i \in DOMAIN s : t[i] = s[i]
  BY AppendParts
<1> HIDE DEF t
<1>2. \A y : y \in ToSet(t) <=> y \in ToSet(s) \/ y = x
  BY <1>1 DEF ToSet
<1> QED BY <1>2 DEF t

\* A list without repetition stays one if the new element is no member.
LEMMA AppendOnce ==
  ASSUME NEW X, NEW s \in Seq(X), NEW x \in X
  PROVE  IsInjective(s) /\ x \notin ToSet(s) => IsInjective(Append(s, x))
<1> SUFFICES ASSUME IsInjective(s), x \notin ToSet(s) PROVE IsInjective(Append(s, x))
  OBVIOUS
<1> DEFINE t == Append(s, x)
<1>1. /\ DOMAIN t = DOMAIN s \cup {Len(s) + 1} /\ t[Len(s) + 1] = x
      /\ \A i \in DOMAIN s : t[i] = s[i]
  BY AppendParts
<1> HIDE DEF t
<1>2. \A i \in DOMAIN s : s[i] # x
  BY Members
<1>3. IsInjective(t)
  BY <1>1, <1>2 DEF IsInjective
<1>4. Append(s, x) = t
  BY DEF t
<1> QED BY <1>3, <1>4

\* What Keep leaves: the elements that are in S, no more often than before.
LEMMA KeepFacts ==
  ASSUME NEW X, NEW s \in Seq(X), NEW S
  PROVE  /\ Keep(s, S) \in Seq(X)
         /\ ToSet(Keep(s, S)) = ToSet(s) \cap S
         /\ IsInjective(s) => IsInjective(Keep(s, S))
<1> DEFINE p(n) == SubSeq(s, 1, n)
           k(n) == Keep(p(n), S)
           Q(n) == /\ k(n) \in Seq(X) /\ ToSet(k(n)) = ToSet(p(n)) \cap S
                   /\ IsInjective(s) => IsInjective(k(n))
           M == {n \in 0 .. Len(s) : Q(n)}
<1>0. p(0) = <<>> /\ p(Len(s)) = s /\ Len(s) \in Nat
  BY Prefix
<1>1. 0 \in M
  <2>2. ToSet(<<>>) = {} /\ IsInjective(<<>>) /\ <<>> \in Seq(X)
    BY DEF ToSet, IsInjective
  <2>3. k(0) = <<>>
    BY <1>0, EmptyKeep
  <2>4. Q(0)
    BY <1>0, <2>2, <2>3
  <2> QED BY <1>0, <2>4
<1>2. ASSUME NEW n \in 0 .. Len(s) - 1, n \in M PROVE n + 1 \in M
  <2> DEFINE q == p(n)  x == s[n + 1]
  <2>1. q \in Seq(X) /\ x \in X /\ p(n + 1) = Append(q, x) /\ n + 1 \in 0 .. Len(s)
    BY Prefix
  <2>2. IsInjective(s) => x \notin ToSet(q)
    BY DEF ToSet, IsInjective
  <2>3. Keep(q, S) \in Seq(X) /\ ToSet(Keep(q, S)) = ToSet(q) \cap S /\ (IsInjective(s) => IsInjective(Keep(q, S)))
    BY <1>2
  <2> HIDE DEF q, x, p
  <2>4. k(n + 1) = IF x \in S THEN Append(Keep(q, S), x) ELSE Keep(q, S)
    <3>1. Keep(Append(q, x), S) = IF x \in S THEN Append(Keep(q, S), x) ELSE Keep(q, S)
      BY <2>1, KeepLaws
    <3> QED BY <2>1, <3>1
  <2>5. ToSet(p(n + 1)) = ToSet(q) \cup {x}
    <3>1. ToSet(Append(q, x)) = ToSet(q) \cup {x}
      BY <2>1, AppendMembers
    <3> QED BY <2>1, <3>1
  <2>6. Q(n + 1)
    <3>1. CASE x \in S
      <4> DEFINE z == Keep(q, S)
      <4>0. z \in Seq(X) /\ k(n + 1) = Append(z, x) /\ (IsInjective(s) => x \notin ToSet(z) /\ IsInjective(z))
        BY <2>2, <2>3, <2>4, <3>1
      <4> HIDE DEF z, k
      <4>1. ToSet(k(n + 1)) = ToSet(z) \cup {x}
        BY <2>1, <4>0, AppendMembers, ZenonT(60)
      <4>2. IsInjective(s) => IsInjective(k(n + 1))
        <5>1. IsInjective(z) /\ x \notin ToSet(z) => IsInjective(Append(z, x))
          BY <2>1, <4>0, AppendOnce
        <5> QED BY <4>0, <5>1
      <4>3. k(n + 1) \in Seq(X)
        <5>1. Append(z, x) \in Seq(X)
          BY <2>1, <4>0, AppendParts
        <5> QED BY <4>0, <5>1
      <4> QED BY <2>3, <2>5, <3>1, <4>1, <4>2, <4>3 DEF z
    <3>2. CASE x \notin S
      BY <2>3, <2>4, <2>5, <3>2
    <3> QED BY <3>1, <3>2
  <2> HIDE DEF Q
  <2> QED BY <2>1, <2>6
<1> HIDE DEF M
<1>3. \A n \in 0 .. Len(s) - 1 : n \in M => n + 1 \in M
  BY <1>2
<1>4. Len(s) \in M
  <2>1. Len(s) \in 0 .. Len(s)
    BY <1>0
  <2>2. \A n \in 0 .. Len(s) : n \in M
    BY <1>0, <1>1, <1>3, Induction
  <2> QED BY <2>1, <2>2
<1> QED BY <1>0, <1>4 DEF M

\* Without its first element, a list without repetitions is its tail.
LEMMA KeepTail ==
  ASSUME NEW X, NEW s \in Seq(X), s # <<>>, IsInjective(s)
  PROVE  Keep(s, X \ {Head(s)}) = Tail(s)
<1> DEFINE S == X \ {Head(s)}
           p(n) == SubSeq(s, 1, n)
           M == {n \in 0 .. Len(s) : n > 0 => Keep(p(n), S) = SubSeq(s, 2, n)}
<1>0. p(0) = <<>> /\ p(Len(s)) = s /\ Len(s) \in Nat /\ Len(s) > 0 /\ Tail(s) = SubSeq(s, 2, Len(s))
  OBVIOUS
<1>1. 0 \in M
  BY <1>0
<1>2. ASSUME NEW n \in 0 .. Len(s) - 1, n \in M PROVE n + 1 \in M
  <2> DEFINE q == p(n)  x == s[n + 1]
  <2>0. n > 0 => Keep(q, S) = SubSeq(s, 2, n)
    BY <1>2, Zenon
  <2>1. q \in Seq(X) /\ x \in X /\ p(n + 1) = Append(q, x) /\ n + 1 \in 0 .. Len(s)
    BY Prefix
  <2>2. CASE n = 0
    <3>1. x = Head(s) /\ q = <<>> /\ SubSeq(s, 2, n + 1) = <<>>
      BY <2>2
    <3> HIDE DEF p, q, x
    <3>2. Keep(Append(q, x), S) = Keep(q, S)
      <4>1. x \notin S
        BY <3>1
      <4> HIDE DEF S
      <4> QED BY <2>1, <4>1, KeepLaws
    <3>3. Keep(q, S) = <<>>
      BY <3>1, EmptyKeep
    <3> QED BY <2>1, <3>1, <3>2, <3>3
  <2>3. CASE n # 0
    <3>1. x \in S /\ SubSeq(s, 2, n + 1) = Append(SubSeq(s, 2, n), x)
      BY <2>1, <2>3 DEF IsInjective
    <3>2. Keep(q, S) = SubSeq(s, 2, n)
      <4> HIDE DEF q, S
      <4> QED BY <2>0, <2>3
    <3> HIDE DEF p, q, x, S
    <3>3. Keep(Append(q, x), S) = Append(Keep(q, S), x)
      BY <2>1, <3>1, KeepLaws
    <3> QED BY <2>1, <3>1, <3>2, <3>3
  <2> QED BY <2>2, <2>3
<1> HIDE DEF M
<1>3. \A n \in 0 .. Len(s) - 1 : n \in M => n + 1 \in M
  BY <1>2
<1>4. Len(s) \in M
  <2>1. Len(s) \in 0 .. Len(s)
    BY <1>0
  <2>2. \A n \in 0 .. Len(s) : n \in M
    BY <1>0, <1>1, <1>3, Induction
  <2> QED BY <2>1, <2>2
<1> QED BY <1>0, <1>4 DEF M

\* Sizes are numbers.
LEMMA MessageSize == \A m \in Messages : m.size \in Nat
<1>1. Sizes \cup {1} \subseteq Nat
  BY ModelHistoryAssumption
<1> QED BY <1>1 DEF Messages

\* What SizeOf makes of a list of messages and one more.
SizeStep == [v \in Nat |-> [m \in Messages |-> v + m.size]]

\* SizeOf is a function over the list.
LEMMA SizeFolds ==
  ASSUME NEW s \in Seq(Messages), NEW f, IsFold(f, s, Messages, Nat, 0, SizeStep)
  PROVE  SizeOf(s) = f[Len(s)]
<1> DEFINE N == Len(s)
           W == Nat
           Def(h) == [n \in 0 .. N |-> IF n = 0 THEN 0 ELSE h[n - 1] + s[n].size]
           g == CHOOSE h : h = Def(h)
<1>1. /\ f \in [0 .. N -> W] /\ f[0] = 0
      /\ \A n \in 1 .. N : f[n] = SizeStep[f[n - 1]][s[n]]
  BY DEF IsFold
<1>2. N \in Nat /\ N \in 0 .. N /\ \A n \in 1 .. N : s[n] \in Messages /\ n - 1 \in 0 .. N /\ n \in 0 .. N /\ n # 0
  OBVIOUS
<1>3. \A v \in W : \A x \in Messages : SizeStep[v][x] = v + x.size
  BY DEF SizeStep
<1> HIDE DEF N, W
<1>4. ASSUME NEW n \in 0 .. N PROVE f[n] = Def(f)[n]
  <2>1. CASE n = 0
    BY <1>1, <2>1
  <2>2. CASE n # 0
    <3>1. n \in 1 .. N
      BY <1>2, <2>2
    <3>2. f[n] = SizeStep[f[n - 1]][s[n]] /\ f[n - 1] \in W /\ s[n] \in Messages
      BY <1>1, <1>2, <3>1
    <3>3. f[n] = f[n - 1] + s[n].size
      BY <1>3, <3>2
    <3> QED BY <2>2, <3>3
  <2> QED BY <2>1, <2>2
<1>5. f = Def(f)
  <2> DEFINE d == Def(f)
  <2>1. \A n \in 0 .. N : f[n] = d[n]
    BY <1>4
  <2>2. DOMAIN d = 0 .. N /\ d = [n \in 0 .. N |-> d[n]]
    OBVIOUS
  <2> HIDE DEF d
  <2>3. f = d
    BY <1>1, <2>1, <2>2
  <2> QED BY <2>3 DEF d
<1>6. g = Def(g) /\ SizeOf(s) = g[N]
  BY <1>5 DEF SizeOf, N
<1> HIDE DEF g
<1>7. Follows(g, N, s, W, 0, SizeStep)
  <2>1. g[0] = 0
    BY <1>2, <1>6
  <2>2. ASSUME NEW n \in 1 .. N, g[n - 1] \in W PROVE g[n] = SizeStep[g[n - 1]][s[n]]
    <3>1. g[n] = g[n - 1] + s[n].size
      BY <1>2, <1>6
    <3>2. s[n] \in Messages
      BY <1>2
    <3> QED BY <1>3, <2>2, <3>1, <3>2
  <2> QED BY <2>1, <2>2 DEF Follows
<1>8. N \in 0 .. Len(s)
  BY <1>2 DEF N
<1>9. g[N] = f[N]
  BY <1>7, <1>8, FoldUnique DEF W
<1> QED BY <1>6, <1>9 DEF N

\* The size of a transcript that grows.
LEMMA SizeLaws ==
  ASSUME NEW s \in Seq(Messages), NEW y \in Messages
  PROVE  /\ SizeOf(s) \in Nat /\ SizeOf(<<>>) = 0
         /\ SizeOf(Append(s, y)) = SizeOf(s) + y.size
<1> DEFINE V == Nat
<1>1. 0 \in V /\ <<>> \in Seq(Messages) /\ Append(s, y) \in Seq(Messages)
  OBVIOUS
<1>2. SizeStep \in [V -> [Messages -> V]]
  BY MessageSize DEF SizeStep
<1> HIDE DEF V
<1>3. PICK f : IsFold(f, s, Messages, V, 0, SizeStep)
  BY <1>1, <1>2, FoldExists
<1>4. PICK h : IsFold(h, Append(s, y), Messages, V, 0, SizeStep)
  BY <1>1, <1>2, FoldExists
<1>5. PICK e : IsFold(e, <<>>, Messages, V, 0, SizeStep)
  BY <1>1, <1>2, FoldExists
<1>6. SizeOf(s) = f[Len(s)] /\ SizeOf(Append(s, y)) = h[Len(Append(s, y))] /\ SizeOf(<<>>) = e[Len(<<>>)]
  BY <1>1, <1>3, <1>4, <1>5, SizeFolds DEF V
<1>7. h[Len(Append(s, y))] = SizeStep[f[Len(s)]][y]
  BY <1>3, <1>4, FoldAppend
<1>8. f[Len(s)] \in V /\ e[Len(<<>>)] = 0
  <2>1. Len(s) \in 0 .. Len(s) /\ Len(<<>>) = 0
    OBVIOUS
  <2> QED BY <1>3, <1>5, <2>1 DEF IsFold
<1> QED BY <1>6, <1>7, <1>8 DEF V, SizeStep

\* The size of a transcript is a number.
LEMMA SizeNat == \A s \in Seq(Messages) : SizeOf(s) \in Nat
<1> SUFFICES ASSUME NEW s \in Seq(Messages) PROVE SizeOf(s) \in Nat
  OBVIOUS
<1>1. User(1) \in Messages
  BY DEF User, Message, Messages
<1> QED BY <1>1, SizeLaws

\* An empty transcript has no size.
LEMMA EmptySize == SizeOf(<<>>) = 0
<1>1. User(1) \in Messages /\ <<>> \in Seq(Messages)
  BY DEF User, Message, Messages
<1> QED BY <1>1, SizeLaws

----------------------------------------------------------------------------
\* The window.

\* What the window keeps is no larger than the transcript.
LEMMA SuffixSize ==
  ASSUME NEW s \in Seq(Messages), NEW a \in 1 .. Len(s) + 1
  PROVE  SizeOf(SubSeq(s, a, Len(s))) <= SizeOf(s)
<1> DEFINE p(n) == SubSeq(s, 1, n)
           q(n) == SubSeq(s, a, n)
           M == {n \in 0 .. Len(s) : SizeOf(q(n)) <= SizeOf(p(n))}
<1>0. p(0) = <<>> /\ q(0) = <<>> /\ p(Len(s)) = s /\ Len(s) \in Nat
  OBVIOUS
<1>1. 0 \in M
  <2>1. SizeOf(q(0)) = 0 /\ SizeOf(p(0)) = 0
    <3> HIDE DEF p, q
    <3> QED BY <1>0, EmptySize
  <2>2. SizeOf(q(0)) <= SizeOf(p(0))
    <3> HIDE DEF p, q
    <3> QED BY <2>1
  <2> QED BY <1>0, <2>2
<1>2. ASSUME NEW n \in 0 .. Len(s) - 1, n \in M PROVE n + 1 \in M
  <2> DEFINE u == p(n)  v == q(n)  x == s[n + 1]
  <2>0. SizeOf(v) <= SizeOf(u) /\ n + 1 \in 0 .. Len(s)
    BY <1>2
  <2>1. u \in Seq(Messages) /\ x \in Messages /\ p(n + 1) = Append(u, x)
    BY Prefix
  <2>2. v \in Seq(Messages) /\ (n + 1 >= a => q(n + 1) = Append(v, x)) /\ (n + 1 < a => q(n + 1) = <<>>)
    OBVIOUS
  <2> HIDE DEF u, v, x, p, q
  <2>3. SizeOf(u) \in Nat /\ SizeOf(Append(u, x)) = SizeOf(u) + x.size
    BY <2>1, SizeLaws
  <2>4. SizeOf(v) \in Nat /\ SizeOf(Append(v, x)) = SizeOf(v) + x.size
    BY <2>1, <2>2, SizeLaws
  <2>5. x.size \in Nat /\ SizeOf(<<>>) = 0
    BY <2>1, MessageSize, EmptySize
  <2>6. SizeOf(q(n + 1)) <= SizeOf(p(n + 1))
    <3>0. SizeOf(p(n + 1)) = SizeOf(u) + x.size
      BY <2>1, <2>3, Zenon
    <3>1. CASE n + 1 >= a
      <4>1. SizeOf(q(n + 1)) = SizeOf(v) + x.size
        BY <2>2, <2>4, <3>1, Zenon
      <4> QED BY <2>0, <2>3, <2>4, <2>5, <3>0, <4>1
    <3>2. CASE n + 1 < a
      <4>1. SizeOf(q(n + 1)) = 0
        BY <2>2, <2>5, <3>2, Zenon
      <4> QED BY <2>3, <2>5, <3>0, <4>1
    <3>3. n + 1 >= a \/ n + 1 < a
      OBVIOUS
    <3> QED BY <3>1, <3>2, <3>3
  <2> QED BY <2>0, <2>6
<1> HIDE DEF M
<1>3. \A n \in 0 .. Len(s) - 1 : n \in M => n + 1 \in M
  BY <1>2
<1>4. Len(s) \in M
  <2>1. Len(s) \in 0 .. Len(s)
    BY <1>0
  <2>2. \A n \in 0 .. Len(s) : n \in M
    BY <1>0, <1>1, <1>3, Induction
  <2> QED BY <2>1, <2>2
<1> QED BY <1>0, <1>4 DEF M

\* The number of messages that TakeRecent chooses.
IsWindow(s, n) ==
    /\ n \in 0 .. Len(s) /\ TakeRecent(s) = LastOf(s, n)
    /\ Fits(s, n) /\ (n = Len(s) \/ ~Fits(s, n + 1))

\* TakeRecent has a number of messages to choose.
LEMMA WindowExists ==
  ASSUME NEW s \in Seq(Messages)
  PROVE  \E n \in 0 .. Len(s) : IsWindow(s, n)
<1> DEFINE N == Len(s)
           C(n) == Fits(s, n) /\ (n = N \/ ~Fits(s, n + 1))
<1>0. N \in Nat /\ N \in 0 .. N /\ 0 \in 0 .. N
  OBVIOUS
<1>1. Fits(s, 0)
  BY ModelHistoryAssumption DEF Fits
<1> HIDE DEF N
<1>2. \E n \in 0 .. N : C(n)
  <2> SUFFICES ASSUME \A n \in 0 .. N : ~C(n) PROVE FALSE
    OBVIOUS
  <2> DEFINE M == {n \in 0 .. N : Fits(s, n)}
  <2>1. 0 \in M
    BY <1>0, <1>1
  <2>2. \A n \in 0 .. N - 1 : n \in M => n + 1 \in M
    BY <1>0
  <2>3. ~(N \in M)
    BY <1>0
  <2> HIDE DEF M
  <2>4. \A n \in 0 .. N : n \in M
    BY <1>0, <2>1, <2>2, Induction
  <2> QED BY <1>0, <2>3, <2>4
<1> DEFINE k == CHOOSE n \in 0 .. N : C(n)
<1>3. k \in 0 .. N /\ C(k)
  BY <1>2
<1>4. TakeRecent(s) = LastOf(s, k)
  BY DEF TakeRecent, N
<1> HIDE DEF k
<1> QED BY <1>3, <1>4 DEF IsWindow, N

\* The newest message is always in the window.
LEMMA WindowIsNotEmpty ==
  ASSUME NEW s \in Seq(Messages), s # <<>>, NEW n, IsWindow(s, n)
  PROVE  n > 0
<1>1. Fits(s, 1) /\ Len(s) > 0 /\ Len(s) \in Nat
  BY ModelHistoryAssumption DEF Fits
<1>2. n \in Nat /\ (n = Len(s) \/ ~Fits(s, n + 1))
  BY DEF IsWindow
<1>3. n = 0 => n + 1 = 1
  OBVIOUS
<1> QED BY <1>1, <1>2, <1>3

\* Within the limits, all of the transcript is in the window.
LEMMA WindowIsAll ==
  ASSUME NEW s \in Seq(Messages), WithinLimits(s)
  PROVE  TakeRecent(s) = s
<1>1. PICK n \in 0 .. Len(s) : IsWindow(s, n)
  BY WindowExists
<1>2. n = Len(s)
  <2> SUFFICES ASSUME n # Len(s) PROVE Fits(s, n + 1)
    BY <1>1 DEF IsWindow
  <2> DEFINE a == Len(s) - (n + 1) + 1
  <2>1. a \in 1 .. Len(s) + 1 /\ n + 1 <= Len(s)
    OBVIOUS
  <2>2. SizeOf(SubSeq(s, a, Len(s))) <= SizeOf(s)
    <3> HIDE DEF a
    <3> QED BY <2>1, SuffixSize
  <2>3. SizeOf(LastOf(s, n + 1)) <= SizeOf(s)
    BY <2>2 DEF LastOf
  <2>4. SubSeq(s, a, Len(s)) \in Seq(Messages)
    BY <2>1
  <2>5. SizeOf(LastOf(s, n + 1)) \in Nat /\ SizeOf(s) \in Nat
    BY <2>4, SizeNat DEF LastOf
  <2>6. SizeOf(s) <= Budget /\ Len(s) <= CountLimit /\ Budget \in Nat /\ CountLimit \in Nat
    BY ModelHistoryAssumption DEF WithinLimits
  <2> QED BY <2>1, <2>3, <2>5, <2>6 DEF Fits
<1>3. LastOf(s, Len(s)) = s
  BY DEF LastOf
<1> QED BY <1>1, <1>2, <1>3 DEF IsWindow

----------------------------------------------------------------------------
\* The projection of a transcript.

Projections == [out : Seq(Messages), pending : Seq(Ids)]

\* The ids of calls.
LEMMA IdsType ==
  ASSUME NEW calls \in Seq(Calls)
  PROVE  IdsOf(calls) \in Seq(Ids) /\ Len(IdsOf(calls)) = Len(calls)
<1>1. \A i \in 1 .. Len(calls) : calls[i].id \in Ids
  <2>1. \A i \in 1 .. Len(calls) : calls[i] \in Calls
    OBVIOUS
  <2> QED BY <2>1 DEF Calls
<1> QED BY <1>1 DEF IdsOf

\* The result that the projection makes up for a call is a result.
LEMMA CancelledType == \A id \in Ids : Cancelled(id) \in Results /\ Cancelled(id).answers = id
  BY DEF Cancelled, Result, Message, Results, Messages

\* Lists with the same elements are the same.
LEMMA SameList ==
  ASSUME NEW X, NEW s \in Seq(X), NEW t \in Seq(X),
         Len(s) = Len(t), \A i \in 1 .. Len(s) : s[i] = t[i]
  PROVE  s = t
<1>1. s = [i \in 1 .. Len(s) |-> s[i]] /\ t = [i \in 1 .. Len(t) |-> t[i]]
  OBVIOUS
<1>2. [i \in 1 .. Len(s) |-> s[i]] = [i \in 1 .. Len(t) |-> t[i]]
  OBVIOUS
<1> QED BY <1>1, <1>2

\* The suffixes of a list lose their head one at a time.
LEMMA SuffixParts ==
  ASSUME NEW X, NEW q \in Seq(X), NEW k \in 1 .. Len(q)
  PROVE  /\ q[k] \in X
         /\ SubSeq(q, k, Len(q)) # <<>> /\ Head(SubSeq(q, k, Len(q))) = q[k]
         /\ SubSeq(q, k + 1, Len(q)) = Tail(SubSeq(q, k, Len(q)))
<1> DEFINE r == SubSeq(q, k, Len(q))  z == SubSeq(q, k + 1, Len(q))
<1>1. r \in Seq(X) /\ Len(r) = Len(q) - k + 1 /\ \A i \in 1 .. Len(r) : r[i] = q[k + i - 1]
  OBVIOUS
<1>2. z \in Seq(X) /\ Len(z) = Len(q) - k /\ \A i \in 1 .. Len(z) : z[i] = q[k + 1 + i - 1]
  OBVIOUS
<1> HIDE DEF r, z
<1>3. r # <<>> /\ Head(r) = q[k]
  BY <1>1
<1>4. Tail(r) \in Seq(X) /\ Len(Tail(r)) = Len(q) - k /\ \A i \in 1 .. Len(Tail(r)) : Tail(r)[i] = r[i + 1]
  BY <1>1
<1>5. \A i \in 1 .. Len(q) - k : z[i] = Tail(r)[i]
  <2> SUFFICES ASSUME NEW i \in 1 .. Len(q) - k PROVE z[i] = Tail(r)[i]
    OBVIOUS
  <2> DEFINE e == i + 1
  <2>1. e \in 1 .. Len(r) /\ k + e - 1 = k + i /\ k + 1 + i - 1 = k + i
        /\ i \in 1 .. Len(z) /\ i \in 1 .. Len(Tail(r))
    BY <1>1, <1>2, <1>4
  <2>2. Tail(r)[i] = r[e]
    BY <1>4, <2>1
  <2> HIDE DEF e
  <2>3. r[e] = q[k + i]
    BY <1>1, <2>1
  <2>4. z[i] = q[k + i]
    BY <1>2, <2>1
  <2> QED BY <2>2, <2>3, <2>4
<1>6. z = Tail(r)
  <2> DEFINE u == Tail(r)
  <2>1. u \in Seq(X) /\ Len(z) = Len(u) /\ \A i \in 1 .. Len(z) : z[i] = u[i]
    BY <1>2, <1>4, <1>5
  <2> HIDE DEF u
  <2>2. z = u
    BY <1>2, <2>1, SameList
  <2> QED BY <2>2 DEF u
<1> QED BY <1>3, <1>6 DEF r, z

\* The projection after n of the pending calls have been cancelled.
Closing(p, n) ==
    [out     |-> p.out \o [i \in 1 .. n |-> Cancelled(p.pending[i])],
     pending |-> SubSeq(p.pending, n + 1, Len(p.pending))]

\* Closing leads from p to its closed form, one cancelled call at a time.
LEMMA ClosingSteps ==
  ASSUME NEW p \in Projections
  PROVE  /\ Closing(p, 0) = p /\ Closing(p, Len(p.pending)) = ClosePending(p)
         /\ ClosePending(p).pending = <<>>
         /\ \A n \in 0 .. Len(p.pending) : Closing(p, n) \in Projections
         /\ \A n \in 0 .. Len(p.pending) - 1 :
              /\ p.pending[n + 1] \in Ids
              /\ Closing(p, n).pending # <<>> /\ Head(Closing(p, n).pending) = p.pending[n + 1]
              /\ Closing(p, n + 1).pending = Tail(Closing(p, n).pending)
              /\ Closing(p, n + 1).out = Append(Closing(p, n).out, Cancelled(p.pending[n + 1]))
<1> DEFINE P == p.out  q == p.pending
           c(n) == [i \in 1 .. n |-> Cancelled(q[i])]
<1>1. P \in Seq(Messages) /\ q \in Seq(Ids) /\ p = [out |-> P, pending |-> q] /\ Len(q) \in Nat
  BY DEF Projections
<1>2. \A n \in 0 .. Len(q) : c(n) \in Seq(Messages) /\ Len(c(n)) = n
  <2> SUFFICES ASSUME NEW n \in 0 .. Len(q) PROVE c(n) \in Seq(Messages) /\ Len(c(n)) = n
    OBVIOUS
  <2>1. \A i \in 1 .. n : Cancelled(q[i]) \in Messages
    BY <1>1, CancelledType DEF Results
  <2> QED BY <2>1
<1>3. \A n \in 0 .. Len(q) - 1 : c(n + 1) = Append(c(n), Cancelled(q[n + 1])) /\ Cancelled(q[n + 1]) \in Messages
  <2> SUFFICES ASSUME NEW n \in 0 .. Len(q) - 1
               PROVE c(n + 1) = Append(c(n), Cancelled(q[n + 1])) /\ Cancelled(q[n + 1]) \in Messages
    OBVIOUS
  <2>1. \A i \in 1 .. n + 1 : Cancelled(q[i]) \in Messages
    BY <1>1, CancelledType DEF Results
  <2> DEFINE e(i) == Cancelled(q[i])
  <2> HIDE DEF e
  <2>2. \A i \in 1 .. n + 1 : e(i) \in Messages
    BY <2>1 DEF e
  <2>3. [i \in 1 .. n + 1 |-> e(i)] = Append([i \in 1 .. n |-> e(i)], e(n + 1))
    BY <1>1, <2>2
  <2> QED BY <1>1, <2>1, <2>3 DEF e
<1>4. c(0) = <<>>
  OBVIOUS
<1> HIDE DEF c
<1>5. \A n \in 0 .. Len(q) : P \o c(n) \in Seq(Messages) /\ SubSeq(q, n + 1, Len(q)) \in Seq(Ids)
  BY <1>1, <1>2
<1>6. \A n \in 0 .. Len(q) - 1 : P \o c(n + 1) = Append(P \o c(n), Cancelled(q[n + 1]))
  <2> SUFFICES ASSUME NEW n \in 0 .. Len(q) - 1 PROVE P \o c(n + 1) = Append(P \o c(n), Cancelled(q[n + 1]))
    OBVIOUS
  <2> DEFINE x == Cancelled(q[n + 1])  d == c(n)
  <2>1. d \in Seq(Messages) /\ x \in Messages /\ c(n + 1) = Append(d, x)
    BY <1>1, <1>2, <1>3
  <2> HIDE DEF x, d
  <2>2. P \o Append(d, x) = Append(P \o d, x)
    BY <1>1, <2>1
  <2> QED BY <2>1, <2>2 DEF x, d
<1>7. P \o <<>> = P /\ SubSeq(q, 1, Len(q)) = q /\ SubSeq(q, Len(q) + 1, Len(q)) = <<>>
  BY <1>1
<1>8. \A n \in 0 .. Len(q) - 1 :
        /\ q[n + 1] \in Ids
        /\ SubSeq(q, n + 1, Len(q)) # <<>> /\ Head(SubSeq(q, n + 1, Len(q))) = q[n + 1]
        /\ SubSeq(q, n + 1 + 1, Len(q)) = Tail(SubSeq(q, n + 1, Len(q)))
  <2> HIDE DEF q
  <2> SUFFICES ASSUME NEW n \in 0 .. Len(q) - 1
               PROVE  /\ q[n + 1] \in Ids
                      /\ SubSeq(q, n + 1, Len(q)) # <<>> /\ Head(SubSeq(q, n + 1, Len(q))) = q[n + 1]
                      /\ SubSeq(q, n + 1 + 1, Len(q)) = Tail(SubSeq(q, n + 1, Len(q)))
    OBVIOUS
  <2> DEFINE k == n + 1
  <2>1. k \in 1 .. Len(q)
    BY <1>1
  <2> HIDE DEF k
  <2> QED BY <1>1, <2>1, SuffixParts DEF k
<1>9. \A n : Closing(p, n).out = P \o c(n) /\ Closing(p, n).pending = SubSeq(q, n + 1, Len(q))
             /\ Closing(p, n) = [out |-> P \o c(n), pending |-> SubSeq(q, n + 1, Len(q))]
  BY DEF Closing, c
<1>10. ClosePending(p) = [out |-> P \o c(Len(q)), pending |-> <<>>]
  BY DEF ClosePending, c
<1>11. Closing(p, 0) = p /\ Closing(p, Len(q)) = ClosePending(p) /\ ClosePending(p).pending = <<>>
  <2> HIDE DEF P, q
  <2>1. 0 + 1 = 1
    OBVIOUS
  <2>2. Closing(p, 0) = [out |-> P, pending |-> q]
    BY <1>4, <1>7, <1>9, <2>1
  <2>3. Closing(p, Len(q)) = [out |-> P \o c(Len(q)), pending |-> <<>>]
    BY <1>7, <1>9
  <2> QED BY <1>1, <1>10, <2>2, <2>3
<1>12. \A n \in 0 .. Len(q) : Closing(p, n) \in Projections
  <2> HIDE DEF P, q
  <2> SUFFICES ASSUME NEW n \in 0 .. Len(q) PROVE Closing(p, n) \in Projections
    OBVIOUS
  <2>1. [out |-> P \o c(n), pending |-> SubSeq(q, n + 1, Len(q))] \in Projections
    BY <1>5 DEF Projections
  <2> QED BY <1>9, <2>1
<1> HIDE DEF P, q
<1> QED BY <1>6, <1>8, <1>9, <1>11, <1>12 DEF P, q

\* A closed projection is one that waits for nothing.
LEMMA ClosedType == \A p \in Projections : ClosePending(p) \in Projections /\ ClosePending(p).pending = <<>>
<1> SUFFICES ASSUME NEW p \in Projections
             PROVE ClosePending(p) \in Projections /\ ClosePending(p).pending = <<>>
  OBVIOUS
<1>1. Len(p.pending) \in 0 .. Len(p.pending)
  BY DEF Projections
<1> QED BY <1>1, ClosingSteps

\* A message makes a projection of a projection.
LEMMA ProjectMessageType ==
  ASSUME NEW p \in Projections, NEW m \in Messages
  PROVE  ProjectMessage(p, m) \in Projections
<1> DEFINE P == p.out  q == p.pending  C == ClosePending(p).out
<1>1. P \in Seq(Messages) /\ q \in Seq(Ids) /\ C \in Seq(Messages)
  BY ClosedType DEF Projections
<1>2. m.calls \in Seq(Calls) /\ m.role \in {"user", "assistant", "tool"}
  BY DEF Messages
<1>3. Keep(q, Ids \ {m.answers}) \in Seq(Ids) /\ IdsOf(m.calls) \in Seq(Ids)
  BY <1>1, <1>2, KeepFacts, IdsType
<1> HIDE DEF P, q, C
<1>4. Append(P, m) \in Seq(Messages) /\ Append(C, m) \in Seq(Messages) /\ <<>> \in Seq(Ids)
  BY <1>1
<1>5. CASE m.role = "assistant"
  BY <1>3, <1>4, <1>5 DEF ProjectMessage, ProjectAssistant, Projections, C
<1>6. CASE m.role = "user"
  BY <1>4, <1>6 DEF ProjectMessage, ProjectUser, Projections, C
<1>7. CASE m.role = "tool"
  BY <1>3, <1>4, <1>7 DEF ProjectMessage, ProjectResult, Projections, P, q
<1> QED BY <1>2, <1>5, <1>6, <1>7

\* What the projection makes of a transcript and one more message.
NoProjection == [out |-> <<>>, pending |-> <<>>]
ProjectStep == [p \in Projections |-> [m \in Messages |-> ProjectMessage(p, m)]]

\* Projected is a function over the transcript.
LEMMA ProjectedFolds ==
  ASSUME NEW s \in Seq(Messages), NEW f, IsFold(f, s, Messages, Projections, NoProjection, ProjectStep)
  PROVE  Projected(s) = f[Len(s)]
<1> DEFINE N == Len(s)
           W == Projections
           Def(h) == [n \in 0 .. N |-> IF n = 0 THEN NoProjection ELSE ProjectMessage(h[n - 1], s[n])]
           g == CHOOSE h : h = Def(h)
<1>1. /\ f \in [0 .. N -> W] /\ f[0] = NoProjection
      /\ \A n \in 1 .. N : f[n] = ProjectStep[f[n - 1]][s[n]]
  BY DEF IsFold
<1>2. N \in Nat /\ N \in 0 .. N /\ \A n \in 1 .. N : s[n] \in Messages /\ n - 1 \in 0 .. N /\ n \in 0 .. N /\ n # 0
  OBVIOUS
<1>3. \A v \in W : \A x \in Messages : ProjectStep[v][x] = ProjectMessage(v, x)
  BY DEF ProjectStep
<1> HIDE DEF N, W
<1>4. ASSUME NEW n \in 0 .. N PROVE f[n] = Def(f)[n]
  <2>1. CASE n = 0
    BY <1>1, <2>1
  <2>2. CASE n # 0
    <3>1. n \in 1 .. N
      BY <1>2, <2>2
    <3>2. f[n] = ProjectStep[f[n - 1]][s[n]] /\ f[n - 1] \in W /\ s[n] \in Messages
      BY <1>1, <1>2, <3>1
    <3>3. f[n] = ProjectMessage(f[n - 1], s[n])
      BY <1>3, <3>2
    <3> QED BY <2>2, <3>3
  <2> QED BY <2>1, <2>2
<1>5. f = Def(f)
  <2> DEFINE d == Def(f)
  <2>1. \A n \in 0 .. N : f[n] = d[n]
    BY <1>4
  <2>2. DOMAIN d = 0 .. N /\ d = [n \in 0 .. N |-> d[n]]
    OBVIOUS
  <2> HIDE DEF d
  <2>3. f = d
    BY <1>1, <2>1, <2>2
  <2> QED BY <2>3 DEF d
<1>6. g = Def(g) /\ Projected(s) = g[N]
  BY <1>5 DEF Projected, NoProjection, N
<1> HIDE DEF g
<1>7. Follows(g, N, s, W, NoProjection, ProjectStep)
  <2>1. g[0] = NoProjection
    BY <1>2, <1>6
  <2>2. ASSUME NEW n \in 1 .. N, g[n - 1] \in W PROVE g[n] = ProjectStep[g[n - 1]][s[n]]
    <3>1. g[n] = ProjectMessage(g[n - 1], s[n])
      BY <1>2, <1>6
    <3>2. s[n] \in Messages
      BY <1>2
    <3> QED BY <1>3, <2>2, <3>1, <3>2
  <2> QED BY <2>1, <2>2 DEF Follows
<1>8. N \in 0 .. Len(s)
  BY <1>2 DEF N
<1>9. g[N] = f[N]
  BY <1>7, <1>8, FoldUnique DEF W
<1> QED BY <1>6, <1>9 DEF N

\* The projection of a transcript that grows.
LEMMA ProjectedLaws ==
  ASSUME NEW s \in Seq(Messages), NEW y \in Messages
  PROVE  /\ Projected(s) \in Projections /\ Projected(<<>>) = NoProjection
         /\ Projected(Append(s, y)) = ProjectMessage(Projected(s), y)
<1> DEFINE V == Projections
<1>1. NoProjection \in V /\ <<>> \in Seq(Messages) /\ Append(s, y) \in Seq(Messages)
  BY DEF NoProjection, Projections
<1>2. ProjectStep \in [V -> [Messages -> V]]
  BY ProjectMessageType DEF ProjectStep
<1> HIDE DEF V
<1>3. PICK f : IsFold(f, s, Messages, V, NoProjection, ProjectStep)
  BY <1>1, <1>2, FoldExists
<1>4. PICK h : IsFold(h, Append(s, y), Messages, V, NoProjection, ProjectStep)
  BY <1>1, <1>2, FoldExists
<1>5. PICK e : IsFold(e, <<>>, Messages, V, NoProjection, ProjectStep)
  BY <1>1, <1>2, FoldExists
<1>6. Projected(s) = f[Len(s)] /\ Projected(Append(s, y)) = h[Len(Append(s, y))] /\ Projected(<<>>) = e[Len(<<>>)]
  BY <1>1, <1>3, <1>4, <1>5, ProjectedFolds DEF V
<1>7. h[Len(Append(s, y))] = ProjectStep[f[Len(s)]][y]
  BY <1>3, <1>4, FoldAppend
<1>8. f[Len(s)] \in V /\ e[Len(<<>>)] = NoProjection
  <2>1. Len(s) \in 0 .. Len(s) /\ Len(<<>>) = 0
    OBVIOUS
  <2> QED BY <1>3, <1>5, <2>1 DEF IsFold
<1> QED BY <1>6, <1>7, <1>8 DEF V, ProjectStep

\* Nothing is told of an empty transcript.
LEMMA EmptyProjection == Projected(<<>>) = NoProjection
<1>1. User(1) \in Messages /\ <<>> \in Seq(Messages)
  BY DEF User, Message, Messages
<1> QED BY <1>1, ProjectedLaws


----------------------------------------------------------------------------
\* Calls and results of a projection.

\* Nothing but results follows message i.
IsLastTurn(P, i) == \A n \in (i + 1) .. Len(P) : P[n].role = "tool"

\* The results that follow turn i answer different calls of it: all of them, but
\* for those of the last turn that are pending.
IsAnswered(P, i, id) == \E j \in AnswersTo(P, i) : P[j].answers = id
TurnPaired(P, q, i) ==
    /\ CallsOK(P[i])
    /\ \A j, k \in AnswersTo(P, i) : P[j].answers = P[k].answers => j = k
    /\ \A id : IsAnswered(P, i, id) <=>
                 id \in ToSet(IdsOf(P[i].calls)) /\ ~(IsLastTurn(P, i) /\ id \in ToSet(q))
    /\ IsLastTurn(P, i) => ToSet(q) \subseteq ToSet(IdsOf(P[i].calls))
HasTurn(P, j) == \E i \in DOMAIN P : P[i].role = "assistant" /\ j \in AnswersTo(P, i)
Paired(P, q) ==
    /\ P \in Seq(Messages) /\ q \in Seq(Ids) /\ IsInjective(q)
    /\ \A i \in DOMAIN P : P[i].role = "assistant" => TurnPaired(P, q, i)
    /\ \A j \in DOMAIN P : P[j].role = "tool" => HasTurn(P, j)
    /\ q # <<>> => \E i \in DOMAIN P : P[i].role = "assistant" /\ IsLastTurn(P, i)

\* What a new message adds to the answers of the turns before it.
LEMMA AnswersAppend ==
  ASSUME NEW P \in Seq(Messages), NEW m \in Messages
  PROVE  /\ \A i \in DOMAIN P :
              /\ Append(P, m)[i] = P[i]
              /\ m.role = "tool" /\ IsLastTurn(P, i)
                   => AnswersTo(Append(P, m), i) = AnswersTo(P, i) \cup {Len(P) + 1}
              /\ ~(m.role = "tool" /\ IsLastTurn(P, i)) => AnswersTo(Append(P, m), i) = AnswersTo(P, i)
              /\ IsLastTurn(Append(P, m), i) <=> m.role = "tool" /\ IsLastTurn(P, i)
              /\ AnswersTo(P, i) \subseteq DOMAIN P
         /\ Append(P, m)[Len(P) + 1] = m /\ Len(P) + 1 \notin DOMAIN P
         /\ DOMAIN Append(P, m) = DOMAIN P \cup {Len(P) + 1}
         /\ AnswersTo(Append(P, m), Len(P) + 1) = {} /\ IsLastTurn(Append(P, m), Len(P) + 1)
<1> DEFINE t == Append(P, m)
           L == Len(P) + 1
<1>1. /\ t \in Seq(Messages) /\ Len(t) = L /\ DOMAIN t = 1 .. L /\ DOMAIN P = 1 .. Len(P)
      /\ DOMAIN t = DOMAIN P \cup {L} /\ t[L] = m /\ L \notin DOMAIN P /\ Len(P) \in Nat
      /\ \A i \in DOMAIN P : t[i] = P[i]
  OBVIOUS
<1> HIDE DEF t
<1>2. ASSUME NEW i \in DOMAIN P PROVE IsLastTurn(t, i) <=> m.role = "tool" /\ IsLastTurn(P, i)
  <2>1. (i + 1) .. L = ((i + 1) .. Len(P)) \cup {L} /\ (i + 1) .. Len(P) \subseteq DOMAIN P
    BY <1>1
  <2> HIDE DEF L
  <2> QED BY <1>1, <2>1 DEF IsLastTurn
<1>3. ASSUME NEW i \in DOMAIN P, NEW j \in DOMAIN P PROVE j \in AnswersTo(t, i) <=> j \in AnswersTo(P, i)
  <2>1. (i + 1) .. j \subseteq DOMAIN P /\ j \in DOMAIN t
    BY <1>1
  <2> HIDE DEF L
  <2> QED BY <1>1, <2>1 DEF AnswersTo
<1>4. ASSUME NEW i \in DOMAIN P PROVE L \in AnswersTo(t, i) <=> IsLastTurn(t, i)
  BY <1>1 DEF AnswersTo, IsLastTurn
<1>5. \A i : AnswersTo(t, i) \subseteq DOMAIN t /\ AnswersTo(P, i) \subseteq DOMAIN P
  BY DEF AnswersTo
<1>6. AnswersTo(t, L) = {} /\ IsLastTurn(t, L)
  BY <1>1 DEF AnswersTo, IsLastTurn
<1> HIDE DEF L
<1>7. ASSUME NEW i \in DOMAIN P PROVE
        /\ m.role = "tool" /\ IsLastTurn(P, i) => AnswersTo(t, i) = AnswersTo(P, i) \cup {L}
        /\ ~(m.role = "tool" /\ IsLastTurn(P, i)) => AnswersTo(t, i) = AnswersTo(P, i)
  <2>1. L \in AnswersTo(t, i) <=> m.role = "tool" /\ IsLastTurn(P, i)
    BY <1>2, <1>4
  <2>2. AnswersTo(t, i) \subseteq DOMAIN P \cup {L} /\ AnswersTo(P, i) \subseteq DOMAIN P
    BY <1>1, <1>5
  <2>3. \A j \in DOMAIN P : j \in AnswersTo(t, i) <=> j \in AnswersTo(P, i)
    BY <1>3
  <2> QED BY <2>1, <2>2, <2>3
<1> QED BY <1>1, <1>2, <1>5, <1>6, <1>7 DEF t, L

\* A result of a pending call.
LEMMA AnswerPairs ==
  ASSUME NEW P, NEW q, NEW m \in Messages, NEW r \in Seq(Ids),
         Paired(P, q), m.role = "tool", m.answers \in ToSet(q),
         IsInjective(r), ToSet(r) = ToSet(q) \ {m.answers}
  PROVE  Paired(Append(P, m), r)
<1> DEFINE t == Append(P, m)
           L == Len(P) + 1
<1>1. P \in Seq(Messages) /\ t \in Seq(Messages)
  BY DEF Paired
<1>2. /\ \A i \in DOMAIN P :
           /\ t[i] = P[i]
           /\ IsLastTurn(P, i) => AnswersTo(t, i) = AnswersTo(P, i) \cup {L}
           /\ ~IsLastTurn(P, i) => AnswersTo(t, i) = AnswersTo(P, i)
           /\ IsLastTurn(t, i) <=> IsLastTurn(P, i)
           /\ AnswersTo(P, i) \subseteq DOMAIN P
      /\ t[L] = m /\ DOMAIN t = DOMAIN P \cup {L} /\ L \notin DOMAIN P
  BY <1>1, AnswersAppend
<1> HIDE DEF t, L
<1>3. q # <<>>
  BY DEF ToSet
<1>4. PICK e \in DOMAIN P : P[e].role = "assistant" /\ IsLastTurn(P, e)
  BY <1>3 DEF Paired
<1>5. ASSUME NEW i \in DOMAIN P, P[i].role = "assistant" PROVE TurnPaired(t, r, i)
  <2>1. TurnPaired(P, q, i)
    BY <1>5 DEF Paired
  <2>2. CASE IsLastTurn(P, i)
    <3>1. ~IsAnswered(P, i, m.answers) /\ m.answers \in ToSet(IdsOf(P[i].calls))
      BY <2>1, <2>2 DEF TurnPaired
    <3>2. \A id : IsAnswered(t, i, id) <=> IsAnswered(P, i, id) \/ id = m.answers
      BY <1>2, <2>2 DEF IsAnswered
    <3>3. ASSUME NEW j \in AnswersTo(t, i), NEW k \in AnswersTo(t, i), t[j].answers = t[k].answers
          PROVE j = k
      <4>1. j \in AnswersTo(P, i) \/ j = L
        BY <1>2, <2>2
      <4>2. k \in AnswersTo(P, i) \/ k = L
        BY <1>2, <2>2
      <4>3. \A n \in AnswersTo(P, i) : t[n] = P[n] /\ P[n].answers # m.answers
        BY <1>2, <3>1 DEF IsAnswered
      <4> QED BY <1>2, <2>1, <3>3, <4>1, <4>2, <4>3 DEF TurnPaired
    <3>4. \A id : IsAnswered(t, i, id) <=> id \in ToSet(IdsOf(P[i].calls)) /\ id \notin ToSet(r)
      BY <2>1, <2>2, <3>1, <3>2 DEF TurnPaired
    <3>5. CallsOK(P[i]) /\ ToSet(r) \subseteq ToSet(IdsOf(P[i].calls))
      BY <2>1, <2>2 DEF TurnPaired
    <3> QED BY <1>2, <2>2, <3>3, <3>4, <3>5 DEF TurnPaired
  <2>3. CASE ~IsLastTurn(P, i)
    <3>1. \A n \in AnswersTo(P, i) : t[n] = P[n]
      BY <1>2
    <3>2. \A id : IsAnswered(t, i, id) <=> IsAnswered(P, i, id)
      BY <1>2, <2>3, <3>1 DEF IsAnswered
    <3> QED BY <1>2, <2>1, <2>3, <3>1, <3>2 DEF TurnPaired
  <2> QED BY <2>2, <2>3
<1>6. ASSUME NEW j \in DOMAIN t, t[j].role = "tool" PROVE HasTurn(t, j)
  <2>1. CASE j = L
    BY <1>2, <1>4, <2>1 DEF HasTurn
  <2>2. CASE j \in DOMAIN P
    <3>1. PICK i \in DOMAIN P : P[i].role = "assistant" /\ j \in AnswersTo(P, i)
      BY <1>2, <1>6, <2>2 DEF Paired, HasTurn
    <3>2. j \in AnswersTo(t, i)
      BY <1>2, <3>1
    <3> QED BY <1>2, <3>1, <3>2 DEF HasTurn
  <2> QED BY <1>2, <2>1, <2>2
<1>7. ASSUME NEW i \in DOMAIN t, t[i].role = "assistant" PROVE TurnPaired(t, r, i)
  <2>1. i \in DOMAIN P /\ P[i].role = "assistant"
    BY <1>2, <1>7
  <2> QED BY <1>5, <2>1
<1>8. \E i \in DOMAIN t : t[i].role = "assistant" /\ IsLastTurn(t, i)
  BY <1>2, <1>4
<1>9. Paired(t, r)
  BY <1>1, <1>6, <1>7, <1>8 DEF Paired
<1>10. Append(P, m) = t
  BY DEF t
<1> QED BY <1>9, <1>10

\* Whoever else speaks, when nothing is pending.
LEMMA SpeakerPairs ==
  ASSUME NEW P, NEW m \in Messages, NEW r \in Seq(Ids),
         Paired(P, <<>>), m.role # "tool", CallsOK(m), IsInjective(r),
         m.role = "assistant" => r = IdsOf(m.calls),
         m.role # "assistant" => r = <<>>
  PROVE  Paired(Append(P, m), r)
<1> DEFINE t == Append(P, m)
           L == Len(P) + 1
<1>1. P \in Seq(Messages) /\ t \in Seq(Messages)
  BY DEF Paired
<1>2. /\ \A i \in DOMAIN P :
           /\ t[i] = P[i]
           /\ AnswersTo(t, i) = AnswersTo(P, i)
           /\ ~IsLastTurn(t, i)
           /\ AnswersTo(P, i) \subseteq DOMAIN P
      /\ t[L] = m /\ DOMAIN t = DOMAIN P \cup {L} /\ L \notin DOMAIN P
      /\ AnswersTo(t, L) = {} /\ IsLastTurn(t, L)
  BY <1>1, AnswersAppend
<1> HIDE DEF t, L
<1>3. ToSet(<<>>) = {}
  BY DEF ToSet
<1>4. ASSUME NEW i \in DOMAIN P, P[i].role = "assistant" PROVE TurnPaired(t, r, i)
  <2>1. TurnPaired(P, <<>>, i)
    BY <1>4 DEF Paired
  <2>2. \A n \in AnswersTo(P, i) : t[n] = P[n]
    BY <1>2
  <2>3. \A id : IsAnswered(t, i, id) <=> IsAnswered(P, i, id)
    BY <1>2, <2>2 DEF IsAnswered
  <2>4. \A id : IsAnswered(t, i, id) <=> id \in ToSet(IdsOf(P[i].calls))
    BY <1>3, <2>1, <2>3 DEF TurnPaired
  <2> QED BY <1>2, <2>1, <2>2, <2>4 DEF TurnPaired
<1>5. m.role = "assistant" => TurnPaired(t, r, L)
  BY <1>2 DEF TurnPaired, IsAnswered
<1>6. ASSUME NEW j \in DOMAIN t, t[j].role = "tool" PROVE HasTurn(t, j)
  <2>1. j \in DOMAIN P /\ P[j].role = "tool"
    BY <1>2, <1>6
  <2>2. PICK i \in DOMAIN P : P[i].role = "assistant" /\ j \in AnswersTo(P, i)
    BY <2>1 DEF Paired, HasTurn
  <2> QED BY <1>2, <2>2 DEF HasTurn
<1>7. ASSUME NEW i \in DOMAIN t, t[i].role = "assistant" PROVE TurnPaired(t, r, i)
  <2>1. CASE i = L
    BY <1>2, <1>5, <1>7, <2>1
  <2>2. CASE i \in DOMAIN P
    BY <1>2, <1>4, <1>7, <2>2
  <2> QED BY <1>2, <2>1, <2>2
<1>8. r # <<>> => \E i \in DOMAIN t : t[i].role = "assistant" /\ IsLastTurn(t, i)
  BY <1>2
<1>9. Paired(t, r)
  BY <1>1, <1>6, <1>7, <1>8 DEF Paired
<1>10. Append(P, m) = t
  BY DEF t
<1> QED BY <1>9, <1>10

\* The tail of a list without repetition lacks exactly its head.
LEMMA TailOnce ==
  ASSUME NEW X, NEW s \in Seq(X), s # <<>>
  PROVE  /\ Tail(s) \in Seq(X) /\ Head(s) \in X /\ Head(s) \in ToSet(s)
         /\ IsInjective(s) => IsInjective(Tail(s)) /\ ToSet(Tail(s)) = ToSet(s) \ {Head(s)}
<1> DEFINE t == Tail(s)  h == Head(s)  N == Len(s)
<1>1. /\ t \in Seq(X) /\ h \in X /\ N \in Nat /\ N > 0 /\ Len(t) = N - 1 /\ h = s[1]
      /\ DOMAIN s = 1 .. N /\ DOMAIN t = 1 .. N - 1 /\ \A i \in 1 .. N - 1 : t[i] = s[i + 1]
  OBVIOUS
<1>2. \A i \in DOMAIN t : i + 1 \in DOMAIN s /\ i + 1 # 1 /\ t[i] = s[i + 1]
  BY <1>1
<1>3. \A i \in DOMAIN s : i # 1 => \E k \in DOMAIN t : t[k] = s[i]
  <2> SUFFICES ASSUME NEW i \in DOMAIN s, i # 1 PROVE \E k \in DOMAIN t : t[k] = s[i]
    OBVIOUS
  <2> DEFINE k == i - 1
  <2>1. k \in 1 .. N - 1 /\ k + 1 = i
    BY <1>1
  <2> HIDE DEF k
  <2> QED BY <1>1, <2>1
<1>4. 1 \in DOMAIN s /\ h = s[1]
  BY <1>1
<1> HIDE DEF t, h, N
<1>5. h \in ToSet(s)
  BY <1>4, Members
<1>6. ASSUME IsInjective(s) PROVE IsInjective(t)
  <2> SUFFICES ASSUME NEW i \in DOMAIN t, NEW k \in DOMAIN t, t[i] = t[k] PROVE i = k
    BY DEF IsInjective
  <2>1. i + 1 = k + 1
    BY <1>2, <1>6 DEF IsInjective
  <2> QED BY <1>1, <2>1
<1>7. ASSUME IsInjective(s) PROVE ToSet(t) = ToSet(s) \ {h}
  <2>1. \A x : x \in ToSet(t) => x \in ToSet(s) \ {h}
    BY <1>2, <1>4, <1>7 DEF IsInjective, ToSet
  <2>2. \A x : x \in ToSet(s) \ {h} => x \in ToSet(t)
    BY <1>3, <1>4 DEF ToSet
  <2> QED BY <2>1, <2>2
<1> QED BY <1>1, <1>5, <1>6, <1>7 DEF t, h

\* Cancelling what is pending answers it.
LEMMA ClosedPairs ==
  ASSUME NEW p \in Projections, Paired(p.out, p.pending)
  PROVE  Paired(ClosePending(p).out, <<>>)
<1> DEFINE N == Len(p.pending)
           M == {n \in 0 .. N : Paired(Closing(p, n).out, Closing(p, n).pending)}
<1>0. N \in Nat /\ N \in 0 .. N
  BY DEF Projections
<1>1. 0 \in M
  BY <1>0, ClosingSteps
<1>2. ASSUME NEW n \in 0 .. N - 1, n \in M PROVE n + 1 \in M
  <2> DEFINE P == Closing(p, n).out  q == Closing(p, n).pending  m == Cancelled(p.pending[n + 1])
  <2>1. n \in 0 .. N /\ n + 1 \in 0 .. N /\ Paired(P, q)
    BY <1>0, <1>2
  <2>2. /\ Closing(p, n + 1).out = Append(P, m) /\ Closing(p, n + 1).pending = Tail(q)
        /\ q # <<>> /\ Head(q) = p.pending[n + 1] /\ p.pending[n + 1] \in Ids
    BY <1>2, ClosingSteps
  <2>3. m \in Messages /\ m.role = "tool" /\ m.answers = Head(q)
    BY <2>2, CancelledType DEF Results
  <2>4. q \in Seq(Ids) /\ IsInjective(q)
    BY <2>1 DEF Paired
  <2> HIDE DEF P, q, m
  <2>5. Tail(q) \in Seq(Ids) /\ IsInjective(Tail(q)) /\ ToSet(Tail(q)) = ToSet(q) \ {m.answers} /\ m.answers \in ToSet(q)
    BY <2>2, <2>3, <2>4, TailOnce
  <2>6. Paired(Append(P, m), Tail(q))
    BY <2>1, <2>3, <2>5, AnswerPairs
  <2> QED BY <2>1, <2>2, <2>6
<1> HIDE DEF M
<1>3. \A n \in 0 .. N - 1 : n \in M => n + 1 \in M
  BY <1>2
<1>4. N \in M
  <2> HIDE DEF N
  <2>1. \A n \in 0 .. N : n \in M
    BY <1>0, <1>1, <1>3, Induction
  <2> QED BY <1>0, <2>1
<1> QED BY <1>4, ClosingSteps DEF M

\* A list contains its members.
LEMMA ContainsMember ==
  ASSUME NEW X, NEW s \in Seq(X), NEW x
  PROVE  Contains(s, x) <=> x \in ToSet(s)
<1>1. DOMAIN s = 1 .. Len(s)
  OBVIOUS
<1> QED BY <1>1, Members DEF Contains

\* An empty list repeats nothing.
LEMMA EmptyOnce == IsInjective(<<>>) /\ <<>> \in Seq(Ids)
  BY DEF IsInjective

\* Every message of a well-formed transcript keeps calls and answers paired.
LEMMA StepPairs ==
  ASSUME NEW p \in Projections, NEW m \in Messages, Paired(p.out, p.pending), CallsOK(m)
  PROVE  Paired(ProjectMessage(p, m).out, ProjectMessage(p, m).pending)
<1> DEFINE P == p.out  q == p.pending  C == ClosePending(p).out  k == Keep(q, Ids \ {m.answers})
<1>1. m.role \in {"user", "assistant", "tool"} /\ m.calls \in Seq(Calls)
  BY DEF Messages
<1>2. Paired(C, <<>>)
  BY ClosedPairs
<1>3. IdsOf(m.calls) \in Seq(Ids) /\ IsInjective(IdsOf(m.calls))
  BY <1>1, IdsType DEF CallsOK
<1>4. q \in Seq(Ids) /\ IsInjective(q) /\ Paired(P, q)
  BY DEF Paired
<1>5. k \in Seq(Ids) /\ IsInjective(k) /\ ToSet(k) = ToSet(q) \cap (Ids \ {m.answers})
  <2> HIDE DEF q
  <2> QED BY <1>4, KeepFacts
<1>6. ToSet(q) \subseteq Ids
  BY <1>4 DEF ToSet
<1>7. ToSet(k) = ToSet(q) \ {m.answers}
  BY <1>5, <1>6
<1> HIDE DEF P, q, C, k
<1>8. CASE m.role = "assistant"
  <2>1. Paired(Append(C, m), IdsOf(m.calls))
    BY <1>2, <1>3, <1>8, SpeakerPairs
  <2> QED BY <1>8, <2>1 DEF ProjectMessage, ProjectAssistant, C
<1>9. CASE m.role = "user"
  <2>1. Paired(Append(C, m), <<>>)
    BY <1>2, <1>9, EmptyOnce, SpeakerPairs
  <2> QED BY <1>9, <2>1 DEF ProjectMessage, ProjectUser, C
<1>12. Contains(q, m.answers) <=> m.answers \in ToSet(q)
  BY <1>4, ContainsMember
<1>10. CASE m.role = "tool" /\ m.answers \in ToSet(q)
  <2>1. Paired(Append(P, m), k)
    BY <1>4, <1>5, <1>7, <1>10, AnswerPairs
  <2>2. ProjectMessage(p, m) = [out |-> Append(P, m), pending |-> k]
    BY <1>10, <1>12 DEF ProjectMessage, ProjectResult, P, q, k
  <2> QED BY <2>1, <2>2
<1>11. CASE m.role = "tool" /\ m.answers \notin ToSet(q)
  <2>1. ProjectMessage(p, m) = p
    BY <1>11, <1>12 DEF ProjectMessage, ProjectResult, P, q, k
  <2> QED BY <2>1
<1> QED BY <1>1, <1>8, <1>9, <1>10, <1>11

\* The projection of a well-formed transcript has them paired.
LEMMA ProjectionPaired ==
  ASSUME NEW s \in Seq(Messages), \A i \in DOMAIN s : CallsOK(s[i])
  PROVE  Projected(s) \in Projections /\ Paired(Projected(s).out, Projected(s).pending)
<1> DEFINE pre(n) == SubSeq(s, 1, n)
           p(n) == Projected(pre(n))
           M == {n \in 0 .. Len(s) : p(n) \in Projections /\ Paired(p(n).out, p(n).pending)}
<1>0. pre(0) = <<>> /\ pre(Len(s)) = s /\ Len(s) \in Nat /\ Len(s) \in 0 .. Len(s)
  OBVIOUS
<1>1. 0 \in M
  <2>1. NoProjection \in Projections /\ Paired(<<>>, <<>>)
    BY DEF NoProjection, Projections, Paired, IsInjective
  <2>2. p(0) = NoProjection
    BY <1>0, EmptyProjection
  <2> HIDE DEF p
  <2> QED BY <1>0, <2>1, <2>2 DEF NoProjection
<1>2. ASSUME NEW n \in 0 .. Len(s) - 1, n \in M PROVE n + 1 \in M
  <2> DEFINE u == pre(n)  x == s[n + 1]
  <2>1. u \in Seq(Messages) /\ x \in Messages /\ pre(n + 1) = Append(u, x) /\ n + 1 \in DOMAIN s /\ n + 1 \in 0 .. Len(s)
    BY Prefix
  <2>2. CallsOK(x) /\ Projected(u) \in Projections /\ Paired(Projected(u).out, Projected(u).pending)
    BY <1>2, <2>1
  <2> HIDE DEF u, x, pre
  <2>3. Projected(Append(u, x)) = ProjectMessage(Projected(u), x)
    BY <2>1, ProjectedLaws
  <2> DEFINE z == ProjectMessage(Projected(u), x)
  <2>4. z \in Projections /\ Paired(z.out, z.pending)
    BY <2>1, <2>2, ProjectMessageType, StepPairs
  <2>5. p(n + 1) = z
    BY <2>1, <2>3
  <2> HIDE DEF z, p
  <2> QED BY <2>1, <2>4, <2>5
<1> HIDE DEF M
<1>3. \A n \in 0 .. Len(s) - 1 : n \in M => n + 1 \in M
  BY <1>2
<1>4. Len(s) \in M
  <2>1. \A n \in 0 .. Len(s) : n \in M
    BY <1>0, <1>1, <1>3, Induction
  <2> QED BY <1>0, <2>1
<1> QED BY <1>0, <1>4 DEF M

\* If nothing is pending, every call of a turn has one result.
LEMMA PairedCounts ==
  ASSUME NEW P, Paired(P, <<>>), NEW i \in DOMAIN P, P[i].role = "assistant"
  PROVE  /\ Cardinality(AnswersTo(P, i)) = Len(P[i].calls)
         /\ {P[j].answers : j \in AnswersTo(P, i)} = ToSet(IdsOf(P[i].calls))
<1> DEFINE A == AnswersTo(P, i)  S == ToSet(IdsOf(P[i].calls))  N == Len(P[i].calls)
           D == 1 .. N
           f == [j \in A |-> P[j].answers]
           g == [k \in D |-> IdsOf(P[i].calls)[k]]
<1>1. TurnPaired(P, <<>>, i) /\ P \in Seq(Messages) /\ ToSet(<<>>) = {}
  BY DEF Paired, ToSet
<1>2. /\ \A j, k \in A : P[j].answers = P[k].answers => j = k
      /\ \A id : (\E j \in A : P[j].answers = id) <=> id \in S
  BY <1>1 DEF TurnPaired, IsAnswered
<1>3. N \in Nat /\ IdsOf(P[i].calls) \in Seq(Ids) /\ Len(IdsOf(P[i].calls)) = N /\ IsInjective(IdsOf(P[i].calls))
  <2>1. P[i].calls \in Seq(Calls)
    <3>1. P[i] \in Messages
      BY <1>1
    <3> QED BY <3>1 DEF Messages
  <2> QED BY <1>1, <2>1, IdsType DEF TurnPaired, CallsOK
<1>4. IsFiniteSet(A)
  <2>1. A \subseteq 1 .. Len(P) /\ Len(P) \in Nat
    BY <1>1 DEF AnswersTo
  <2>2. 1 \in Int /\ Len(P) \in Int
    BY <2>1
  <2> QED BY <2>1, <2>2, FS_Interval, FS_Subset
<1>5. IsFiniteSet(D) /\ Cardinality(D) = N
  <2>1. 1 \in Int /\ N \in Int /\ (IF 1 > N THEN 0 ELSE N - 1 + 1) = N
    BY <1>3
  <2> HIDE DEF N
  <2> QED BY <2>1, FS_Interval
<1>6. {P[j].answers : j \in A} = S
  <2> HIDE DEF A, S
  <2> QED BY <1>2
<1>7. f \in Bijection(A, S)
  <2> HIDE DEF A, S
  <2> QED BY <1>2 DEF Bijection, Injection, Surjection, IsInjective
<1>8. g \in Bijection(D, S)
  <2>1. \A x : x \in S <=> \E k \in D : IdsOf(P[i].calls)[k] = x
    BY <1>3, Members
  <2>2. \A j, k \in D : IdsOf(P[i].calls)[j] = IdsOf(P[i].calls)[k] => j = k
    BY <1>3 DEF IsInjective
  <2> HIDE DEF S, D
  <2> QED BY <2>1, <2>2 DEF Bijection, Injection, Surjection, IsInjective
<1> HIDE DEF A, S, N, D, f, g
<1>9. Cardinality(A) = Cardinality(S)
  BY <1>4, <1>7, FS_Bijection DEF ExistsBijection
<1>10. Cardinality(D) = Cardinality(S)
  BY <1>5, <1>8, FS_Bijection DEF ExistsBijection
<1> QED BY <1>5, <1>6, <1>9, <1>10 DEF A, S, N

----------------------------------------------------------------------------
\* The news of a projection.

\* The news of messages that grow.
LEMMA NewsLaws ==
  ASSUME NEW s \in Seq(Messages), NEW m \in Messages
  PROVE  News(Append(s, m)) = IF m \in Outcomes THEN Append(News(s), m) ELSE News(s)
  BY KeepLaws DEF News

\* A call that is cancelled is no news.
LEMMA NewsClosed ==
  ASSUME NEW p \in Projections
  PROVE  News(ClosePending(p).out) = News(p.out)
<1> DEFINE N == Len(p.pending)
           M == {n \in 0 .. N : News(Closing(p, n).out) = News(p.out)}
<1>0. N \in Nat /\ N \in 0 .. N
  BY DEF Projections
<1>1. 0 \in M
  BY <1>0, ClosingSteps
<1>2. ASSUME NEW n \in 0 .. N - 1, n \in M PROVE n + 1 \in M
  <2> DEFINE P == Closing(p, n).out  m == Cancelled(p.pending[n + 1])
  <2>1. n \in 0 .. N /\ n + 1 \in 0 .. N
    BY <1>0
  <2>2. P \in Seq(Messages) /\ Closing(p, n + 1).out = Append(P, m) /\ p.pending[n + 1] \in Ids
    BY <1>2, <2>1, ClosingSteps DEF Projections
  <2>3. m \in Messages /\ m \notin Outcomes
    BY <2>2, CancelledType DEF Results, Outcomes, Cancelled, Result, Message
  <2>4. News(P) = News(p.out)
    BY <1>2
  <2> HIDE DEF P, m
  <2>5. News(Append(P, m)) = News(P)
    BY <2>2, <2>3, NewsLaws
  <2> QED BY <2>1, <2>2, <2>4, <2>5
<1> HIDE DEF M
<1>3. \A n \in 0 .. N - 1 : n \in M => n + 1 \in M
  BY <1>2
<1>4. N \in M
  <2> HIDE DEF N
  <2>1. \A n \in 0 .. N : n \in M
    BY <1>0, <1>1, <1>3, Induction
  <2> QED BY <1>0, <2>1
<1> QED BY <1>4, ClosingSteps DEF M

\* Message k answers a call of a turn before it that nothing else has answered.
HasCall(W, k) ==
    \E i \in 1 .. k - 1 :
      /\ W[i].role = "assistant" /\ W[k].answers \in ToSet(IdsOf(W[i].calls))
      /\ \A j \in (i + 1) .. (k - 1) : W[j].role = "tool" /\ W[j].answers # W[k].answers

\* q has the ids of the last turn of the first n messages that none of them has
\* answered.
Pends(W, n, q) ==
    \A i \in 1 .. n :
      W[i].role = "assistant" /\ (\A j \in (i + 1) .. n : W[j].role = "tool") =>
        \A id : id \in ToSet(q) <=>
          id \in ToSet(IdsOf(W[i].calls)) /\ \A j \in (i + 1) .. n : W[j].answers # id

\* The pending list follows the last turn through every message.
LEMMA PendsStep ==
  ASSUME NEW W \in Seq(Messages), NEW n \in 0 .. Len(W) - 1, NEW p \in Projections,
         Pends(W, n, p.pending)
  PROVE  Pends(W, n + 1, ProjectMessage(p, W[n + 1]).pending)
<1> DEFINE m == W[n + 1]  q == p.pending  r == ProjectMessage(p, m).pending
           k == Keep(q, Ids \ {m.answers})
<1>1. m \in Messages /\ m.role \in {"user", "assistant", "tool"}
  <2>1. m \in Messages
    OBVIOUS
  <2> QED BY <2>1 DEF Messages
<1>2. q \in Seq(Ids)
  BY DEF Projections
<1>3. ToSet(q) \subseteq Ids
  BY <1>2 DEF ToSet
<1>4. ToSet(k) = ToSet(q) \ {m.answers}
  <2>1. ToSet(k) = ToSet(q) \cap (Ids \ {m.answers})
    <3> HIDE DEF q, m
    <3> QED BY <1>2, KeepFacts
  <2> QED BY <1>3, <2>1
<1>5. \A i \in 1 .. n : (i + 1) .. (n + 1) = ((i + 1) .. n) \cup {n + 1}
  OBVIOUS
<1>6. (n + 1 + 1) .. (n + 1) = {} /\ n + 1 \in Nat
  OBVIOUS
<1>7. Contains(q, m.answers) <=> m.answers \in ToSet(q)
  BY <1>2, ContainsMember
<1>8. CASE m.role = "assistant"
  <2>1. r = IdsOf(m.calls)
    BY <1>8 DEF ProjectMessage, ProjectAssistant
  <2> HIDE DEF r
  <2>2. ASSUME NEW i \in 1 .. n + 1, \A j \in (i + 1) .. (n + 1) : W[j].role = "tool" PROVE i = n + 1
    BY <1>8, <2>2
  <2>3. ASSUME NEW id PROVE id \in ToSet(r) <=>
          id \in ToSet(IdsOf(m.calls)) /\ \A j \in (n + 1 + 1) .. (n + 1) : W[j].answers # id
    BY <1>6, <2>1
  <2> QED BY <2>2, <2>3 DEF Pends, r
<1>9. CASE m.role = "user"
  <2>2. ASSUME NEW i \in 1 .. n + 1, W[i].role = "assistant",
               \A j \in (i + 1) .. (n + 1) : W[j].role = "tool" PROVE FALSE
    <3>1. CASE i = n + 1
      BY <1>9, <2>2, <3>1
    <3>2. CASE i # n + 1
      BY <1>9, <2>2, <3>2
    <3> QED BY <3>1, <3>2
  <2> QED BY <2>2 DEF Pends
<1>10. CASE m.role = "tool"
  <2>1. ToSet(r) = ToSet(q) \ {m.answers}
    <3>1. CASE m.answers \in ToSet(q)
      <4>1. r = k
        BY <1>7, <1>10, <3>1 DEF ProjectMessage, ProjectResult
      <4> QED BY <1>4, <4>1
    <3>2. CASE m.answers \notin ToSet(q)
      <4>1. r = q
        BY <1>7, <1>10, <3>2 DEF ProjectMessage, ProjectResult
      <4> QED BY <3>2, <4>1
    <3> QED BY <3>1, <3>2
  <2> HIDE DEF r, q
  <2> SUFFICES ASSUME NEW i \in 1 .. n + 1, W[i].role = "assistant",
                      \A j \in (i + 1) .. (n + 1) : W[j].role = "tool",
                      NEW id
               PROVE id \in ToSet(r) <=> id \in ToSet(IdsOf(W[i].calls))
                                          /\ \A j \in (i + 1) .. (n + 1) : W[j].answers # id
    BY DEF Pends, r
  <2>2. i \in 1 .. n
    BY <1>10
  <2> HIDE DEF m
  <2>3. \A j \in (i + 1) .. n : W[j].role = "tool"
    BY <1>5, <2>2
  <2>4. id \in ToSet(q) <=> id \in ToSet(IdsOf(W[i].calls)) /\ \A j \in (i + 1) .. n : W[j].answers # id
    BY <2>2, <2>3 DEF Pends, q
  <2>5. (\A j \in (i + 1) .. (n + 1) : W[j].answers # id)
          <=> (\A j \in (i + 1) .. n : W[j].answers # id) /\ m.answers # id
    BY <1>5, <2>2 DEF m
  <2> QED BY <2>1, <2>4, <2>5
<1> QED BY <1>1, <1>8, <1>9, <1>10

\* F is where the first turn of W is, or behind its end.
IsFirst(W, F) ==
    /\ F \in 1 .. Len(W) + 1 /\ FromFirstTurn(W) = SubSeq(W, F, Len(W))
    /\ \A i \in 1 .. F - 1 : W[i].role # "assistant"
    /\ F <= Len(W) => W[F].role = "assistant"

\* There is a first turn, or none and F is behind the end.
LEMMA FirstExists ==
  ASSUME NEW W \in Seq(Messages)
  PROVE  \E F \in 1 .. Len(W) + 1 : IsFirst(W, F)
<1> DEFINE T == {i \in DOMAIN W : W[i].role = "assistant"}
<1>0. DOMAIN W = 1 .. Len(W) /\ Len(W) \in Nat
  OBVIOUS
<1>1. CASE T = {}
  <2>1. FromFirstTurn(W) = <<>> /\ SubSeq(W, Len(W) + 1, Len(W)) = <<>>
    BY <1>1 DEF FromFirstTurn
  <2>2. IsFirst(W, Len(W) + 1)
    BY <1>0, <1>1, <2>1 DEF IsFirst
  <2> QED BY <1>0, <2>2
<1>2. CASE T # {}
  <2>0. T \subseteq Nat
    BY <1>0
  <2>1. \E n \in T : \A m \in T : n <= m
    <3> HIDE DEF T
    <3> QED BY <1>2, <2>0, Least
  <2> DEFINE F == Min(T)
  <2>2. F \in T /\ \A m \in T : F <= m
    BY <2>1 DEF Min
  <2>3. FromFirstTurn(W) = SubSeq(W, F, Len(W))
    BY <1>2 DEF FromFirstTurn
  <2> HIDE DEF F
  <2>4. \A i \in 1 .. F - 1 : W[i].role # "assistant"
    <3> SUFFICES ASSUME NEW i \in 1 .. F - 1, W[i].role = "assistant" PROVE FALSE
      OBVIOUS
    <3>1. i \in DOMAIN W /\ i < F
      BY <1>0, <2>0, <2>2
    <3> QED BY <2>0, <2>2, <3>1
  <2>5. F \in 1 .. Len(W) + 1 /\ W[F].role = "assistant"
    BY <1>0, <2>2
  <2> QED BY <2>3, <2>4, <2>5 DEF IsFirst
<1> QED BY <1>1, <1>2

\* What the projection of the first n messages tells.
Tells(W, F, n, p) ==
    /\ p \in Projections /\ Pends(W, n, p.pending)
    /\ n < F => p.pending = <<>>
    /\ News(p.out) = News(SubSeq(W, F, n))

\* What is behind F grows with the prefix once that has reached F.
LEMMA StretchParts ==
  ASSUME NEW X, NEW s \in Seq(X), NEW F \in 1 .. Len(s) + 1, NEW n \in 0 .. Len(s) - 1
  PROVE  /\ SubSeq(s, F, n) \in Seq(X)
         /\ n + 1 >= F => SubSeq(s, F, n + 1) = Append(SubSeq(s, F, n), s[n + 1])
         /\ n + 1 < F => SubSeq(s, F, n + 1) = <<>> /\ SubSeq(s, F, n) = <<>>
<1>1. SubSeq(s, F, n) \in Seq(X)
  OBVIOUS
<1>2. n + 1 >= F => SubSeq(s, F, n + 1) = Append(SubSeq(s, F, n), s[n + 1])
  OBVIOUS
<1>3. n + 1 < F => SubSeq(s, F, n + 1) = <<>> /\ SubSeq(s, F, n) = <<>>
  OBVIOUS
<1> QED BY <1>1, <1>2, <1>3

\* Every message is told if it is news and its call still waits for it.
LEMMA TellsStep ==
  ASSUME NEW W \in Seq(Messages), NEW F, IsFirst(W, F), NEW n \in 0 .. Len(W) - 1, NEW p,
         Tells(W, F, n, p),
         \A k \in F .. Len(W) : W[k] \in Outcomes => HasCall(W, k)
  PROVE  Tells(W, F, n + 1, ProjectMessage(p, W[n + 1]))
<1> DEFINE m == W[n + 1]  z == ProjectMessage(p, m)  C == ClosePending(p).out
           s == SubSeq(W, F, n)  t == SubSeq(W, F, n + 1)
<1>1. m \in Messages /\ m.role \in {"user", "assistant", "tool"}
  <2>1. m \in Messages
    OBVIOUS
  <2> QED BY <2>1 DEF Messages
<1>2. p \in Projections /\ Pends(W, n, p.pending) /\ (n < F => p.pending = <<>>) /\ News(p.out) = News(s)
  BY DEF Tells
<1>3. z \in Projections /\ Pends(W, n + 1, z.pending)
  <2>1. Pends(W, n + 1, ProjectMessage(p, W[n + 1]).pending)
    BY <1>2, PendsStep
  <2> QED BY <1>1, <1>2, <2>1, ProjectMessageType
<1>4. p.out \in Seq(Messages) /\ p.pending \in Seq(Ids) /\ C \in Seq(Messages) /\ News(C) = News(p.out)
  BY <1>2, ClosedType, NewsClosed DEF Projections
<1>5. /\ F \in 1 .. Len(W) + 1 /\ \A i \in 1 .. F - 1 : W[i].role # "assistant"
      /\ F <= Len(W) => W[F].role = "assistant"
  BY DEF IsFirst
<1>6. s \in Seq(Messages) /\ (n + 1 >= F => t = Append(s, m)) /\ (n + 1 < F => t = <<>> /\ s = <<>>)
  BY <1>1, <1>5, StretchParts
<1>7. Contains(p.pending, m.answers) <=> m.answers \in ToSet(p.pending)
  BY <1>4, ContainsMember
<1>8. n + 1 < F => m.role # "assistant"
  BY <1>5
<1>9. m \in Outcomes => m.role = "tool"
  BY DEF Outcomes
<1>10. ASSUME n + 1 >= F, m \in Outcomes PROVE m.answers \in ToSet(p.pending)
  <2>1. HasCall(W, n + 1)
    BY <1>5, <1>10
  <2>2. PICK i \in 1 .. n + 1 - 1 :
          /\ W[i].role = "assistant" /\ W[n + 1].answers \in ToSet(IdsOf(W[i].calls))
          /\ \A j \in (i + 1) .. (n + 1 - 1) : W[j].role = "tool" /\ W[j].answers # W[n + 1].answers
    BY <2>1 DEF HasCall
  <2>3. i \in 1 .. n /\ \A j \in (i + 1) .. n : W[j].role = "tool" /\ W[j].answers # W[n + 1].answers
    BY <2>2
  <2> HIDE DEF m
  <2>4. W[n + 1].answers \in ToSet(p.pending)
    BY <1>2, <2>2, <2>3 DEF Pends
  <2> QED BY <2>4 DEF m
<1> HIDE DEF m, z, C, s, t
<1>11. CASE m.role # "tool"
  <2>1. z.out = Append(C, m)
    BY <1>1, <1>11 DEF ProjectMessage, ProjectAssistant, ProjectUser, z, C
  <2>2. News(z.out) = News(s)
    BY <1>1, <1>2, <1>4, <1>9, <1>11, <2>1, NewsLaws
  <2>3. News(t) = News(s)
    <3>1. CASE n + 1 >= F
      BY <1>1, <1>6, <1>9, <1>11, <3>1, NewsLaws
    <3>2. CASE n + 1 < F
      BY <1>6, <3>2
    <3> QED BY <1>5, <3>1, <3>2
  <2>4. n + 1 < F => z.pending = <<>>
    BY <1>1, <1>8, <1>11 DEF ProjectMessage, ProjectUser, z
  <2> QED BY <1>3, <2>2, <2>3, <2>4 DEF Tells, t, z, m
<1>12. CASE m.role = "tool" /\ m.answers \in ToSet(p.pending)
  <2>1. z.out = Append(p.out, m)
    BY <1>7, <1>12 DEF ProjectMessage, ProjectResult, z
  <2>2. ~(n < F)
    BY <1>2, <1>12 DEF ToSet
  <2>3. n + 1 >= F /\ ~(n + 1 < F)
    BY <1>5, <2>2
  <2>4. t = Append(s, m)
    BY <1>6, <2>3
  <2>5. News(z.out) = IF m \in Outcomes THEN Append(News(p.out), m) ELSE News(p.out)
    BY <1>1, <1>4, <2>1, NewsLaws
  <2>6. News(t) = IF m \in Outcomes THEN Append(News(s), m) ELSE News(s)
    BY <1>1, <1>6, <2>4, NewsLaws
  <2>7. News(z.out) = News(t)
    BY <1>2, <2>5, <2>6
  <2> QED BY <1>3, <2>3, <2>7 DEF Tells, t, z, m
<1>13. CASE m.role = "tool" /\ m.answers \notin ToSet(p.pending)
  <2>1. z = p
    BY <1>7, <1>13 DEF ProjectMessage, ProjectResult, z
  <2>2. News(t) = News(s)
    <3>1. CASE n + 1 >= F
      <4>1. m \notin Outcomes
        BY <1>10, <1>13, <3>1
      <4>2. t = Append(s, m)
        BY <1>6, <3>1
      <4>3. News(Append(s, m)) = News(s)
        BY <1>1, <1>6, <4>1, NewsLaws
      <4> QED BY <4>2, <4>3
    <3>2. CASE n + 1 < F
      BY <1>6, <3>2
    <3> QED BY <1>5, <3>1, <3>2
  <2>3. n + 1 < F => n < F
    BY <1>5
  <2>4. z \in Projections /\ Pends(W, n + 1, z.pending) /\ (n + 1 < F => z.pending = <<>>) /\ News(z.out) = News(t)
    BY <1>2, <1>3, <2>1, <2>2, <2>3
  <2> QED BY <2>4 DEF Tells, t, z, m
<1> QED BY <1>11, <1>12, <1>13

\* If every result behind the first turn has its call, all of them are told.
LEMMA NewsTold ==
  ASSUME NEW W \in Seq(Messages), NEW F, IsFirst(W, F),
         \A k \in F .. Len(W) : W[k] \in Outcomes => HasCall(W, k)
  PROVE  News(ClosePending(Projected(W)).out) = News(FromFirstTurn(W))
<1> DEFINE pre(n) == SubSeq(W, 1, n)
           p(n) == Projected(pre(n))
           N == Len(W)
           M == {n \in 0 .. N : Tells(W, F, n, p(n))}
<1>0. pre(0) = <<>> /\ pre(N) = W /\ N \in Nat /\ N \in 0 .. N
  OBVIOUS
<1>1. 0 \in M
  <2>1. NoProjection \in Projections /\ NoProjection.pending = <<>> /\ NoProjection.out = <<>>
    BY DEF NoProjection, Projections
  <2>2. p(0) = NoProjection
    BY <1>0, EmptyProjection
  <2>3. Pends(W, 0, <<>>)
    BY DEF Pends
  <2>4. SubSeq(W, F, 0) = <<>>
    BY DEF IsFirst
  <2>5. Tells(W, F, 0, NoProjection)
    BY <2>1, <2>3, <2>4 DEF Tells
  <2> HIDE DEF p
  <2> QED BY <1>0, <2>2, <2>5
<1>2. ASSUME NEW n \in 0 .. N - 1, n \in M PROVE n + 1 \in M
  <2> DEFINE u == pre(n)  x == W[n + 1]
  <2>1. u \in Seq(Messages) /\ x \in Messages /\ pre(n + 1) = Append(u, x) /\ n + 1 \in 0 .. N
    BY Prefix
  <2>2. Tells(W, F, n, Projected(u))
    BY <1>2
  <2>3. Tells(W, F, n + 1, ProjectMessage(Projected(u), x))
    <3> HIDE DEF u
    <3> QED BY <2>2, TellsStep
  <2> HIDE DEF u, x, pre
  <2>4. Projected(Append(u, x)) = ProjectMessage(Projected(u), x)
    BY <2>1, ProjectedLaws
  <2>5. p(n + 1) = ProjectMessage(Projected(u), x)
    BY <2>1, <2>4
  <2> HIDE DEF p
  <2> QED BY <2>1, <2>3, <2>5
<1> HIDE DEF M
<1>3. \A n \in 0 .. N - 1 : n \in M => n + 1 \in M
  BY <1>2
<1>4. N \in M
  <2> HIDE DEF N
  <2>1. \A n \in 0 .. N : n \in M
    BY <1>0, <1>1, <1>3, Induction
  <2> QED BY <1>0, <2>1
<1>5. Tells(W, F, N, Projected(W))
  BY <1>0, <1>4 DEF M
<1>6. News(Projected(W).out) = News(SubSeq(W, F, N)) /\ Projected(W) \in Projections
  BY <1>5 DEF Tells
<1>7. SubSeq(W, F, N) = FromFirstTurn(W)
  BY DEF IsFirst
<1> QED BY <1>6, <1>7, NewsClosed

----------------------------------------------------------------------------
\* The window of a transcript.

\* The messages of the window are the last n of the transcript.
LEMMA WindowParts ==
  ASSUME NEW s \in Seq(Messages), NEW n, IsWindow(s, n)
  PROVE  /\ TakeRecent(s) \in Seq(Messages) /\ Len(TakeRecent(s)) = n
         /\ n \in 0 .. Len(s) /\ Len(s) - n \in 0 .. Len(s)
         /\ \A k \in 1 .. n : TakeRecent(s)[k] = s[k + (Len(s) - n)] /\ k + (Len(s) - n) \in DOMAIN s
<1>1. n \in 0 .. Len(s) /\ TakeRecent(s) = SubSeq(s, Len(s) - n + 1, Len(s))
  BY DEF IsWindow, LastOf
<1>2. \A k \in 1 .. n : SubSeq(s, Len(s) - n + 1, Len(s))[k] = s[k + (Len(s) - n)]
  BY <1>1
<1>3. SubSeq(s, Len(s) - n + 1, Len(s)) \in Seq(Messages) /\ Len(SubSeq(s, Len(s) - n + 1, Len(s))) = n
  BY <1>1
<1>4. \A k \in 1 .. n : k + (Len(s) - n) \in DOMAIN s
  BY <1>1
<1> QED BY <1>1, <1>2, <1>3, <1>4

\* The results of the window have their calls there, if those of the transcript
\* have theirs and no turn of the window asks the user.
LEMMA WindowHasCalls ==
  ASSUME NEW s \in Seq(Messages), ResultsHaveCalls(s), NobodyAsks(TakeRecent(s)),
         NEW F, IsFirst(TakeRecent(s), F)
  PROVE  \A k \in F .. Len(TakeRecent(s)) :
            TakeRecent(s)[k] \in Outcomes => HasCall(TakeRecent(s), k)
<1> DEFINE W == TakeRecent(s)
<1>1. PICK n \in 0 .. Len(s) : IsWindow(s, n)
  BY WindowExists
<1> DEFINE d == Len(s) - n
<1>2. /\ W \in Seq(Messages) /\ Len(W) = n /\ d \in 0 .. Len(s) /\ Len(s) = n + d /\ Len(s) \in Nat
      /\ \A k \in 1 .. n : W[k] = s[k + d] /\ k + d \in DOMAIN s
  BY <1>1, WindowParts
<1>3. F \in 1 .. n + 1 /\ (F <= n => W[F].role = "assistant")
  BY <1>2 DEF IsFirst
<1> HIDE DEF W, d
<1> SUFFICES ASSUME NEW k \in F .. n, W[k] \in Outcomes PROVE HasCall(W, k)
  BY <1>2 DEF W
<1>4. k \in 1 .. n /\ F <= n /\ W[k].role = "tool" /\ W[F].role = "assistant"
  BY <1>3 DEF Outcomes
<1> DEFINE K == k + d  B == Before(s, K)  id == W[k].answers
<1>5. K \in DOMAIN s /\ s[K] = W[k] /\ IsOpen(B, id)
  BY <1>2, <1>4 DEF ResultsHaveCalls
<1>6. DOMAIN B = 1 .. K - 1 /\ Len(B) = K - 1 /\ \A j \in 1 .. K - 1 : B[j] = s[j]
  BY <1>5 DEF Before
<1>7. PICK i \in 1 .. K - 1 : IsOpenAt(B, i, id)
  BY <1>5, <1>6 DEF IsOpen
<1> HIDE DEF B, id
<1>8. /\ s[i].role = "assistant" /\ id \in ToSet(IdsOf(s[i].calls))
      /\ \A j \in (i + 1) .. (K - 1) :
           /\ s[j].role # "assistant"
           /\ Asks(s[i]) \/ (s[j].role = "tool" /\ s[j].answers # id)
  BY <1>6, <1>7 DEF IsOpenAt
<1>9. F < k
  BY <1>3, <1>4
<1>10. F + d <= i
  <2> SUFFICES ASSUME i < F + d PROVE FALSE
    BY <1>2, <1>3
  <2>1. F + d \in (i + 1) .. (K - 1)
    BY <1>2, <1>3, <1>9
  <2>2. W[F] = s[F + d]
    BY <1>2, <1>3, <1>4
  <2> QED BY <1>4, <1>8, <2>1, <2>2
<1> DEFINE e == i - d
<1>11. e \in 1 .. k - 1 /\ e \in 1 .. n /\ e + d = i
  BY <1>2, <1>3, <1>4, <1>10
<1> HIDE DEF e
<1>12. W[e] = s[i] /\ e \in DOMAIN W
  BY <1>2, <1>11
<1>13. ~Asks(s[i])
  BY <1>12 DEF NobodyAsks, Asks, W
<1>14. \A j \in (e + 1) .. (k - 1) : W[j].role = "tool" /\ W[j].answers # id
  <2> SUFFICES ASSUME NEW j \in (e + 1) .. (k - 1) PROVE W[j].role = "tool" /\ W[j].answers # id
    OBVIOUS
  <2>1. j \in 1 .. n /\ j + d \in (i + 1) .. (K - 1)
    BY <1>2, <1>4, <1>11
  <2>2. W[j] = s[j + d]
    BY <1>2, <2>1
  <2> QED BY <1>8, <1>13, <2>1, <2>2
<1> QED BY <1>8, <1>11, <1>12, <1>14 DEF HasCall, id

\* What the provider is told: every call once answered, and all the news.
LEMMA WindowPaired ==
  ASSUME NEW s \in Seq(Messages), \A i \in DOMAIN s : CallsOK(s[i])
  PROVE  Projected(TakeRecent(s)) \in Projections /\ Paired(Project(s), <<>>)
<1>1. PICK n \in 0 .. Len(s) : IsWindow(s, n)
  BY WindowExists
<1> DEFINE W == TakeRecent(s)
<1>2. W \in Seq(Messages) /\ \A k \in DOMAIN W : CallsOK(W[k])
  <2>1. /\ W \in Seq(Messages) /\ Len(W) = n
        /\ \A k \in 1 .. n : W[k] = s[k + (Len(s) - n)] /\ k + (Len(s) - n) \in DOMAIN s
    BY <1>1, WindowParts
  <2> HIDE DEF W
  <2>2. DOMAIN W = 1 .. n
    BY <2>1
  <2> QED BY <2>1, <2>2
<1> HIDE DEF W
<1>3. Projected(W) \in Projections /\ Paired(Projected(W).out, Projected(W).pending)
  BY <1>2, ProjectionPaired
<1>4. Paired(ClosePending(Projected(W)).out, <<>>)
  BY <1>3, ClosedPairs
<1> QED BY <1>3, <1>4 DEF Project, W

\* All the results behind the first turn of the window are told.
LEMMA WindowTold ==
  ASSUME NEW s \in Seq(Messages), ResultsHaveCalls(s), NobodyAsks(TakeRecent(s))
  PROVE  News(Project(s)) = News(FromFirstTurn(TakeRecent(s)))
<1>1. PICK n \in 0 .. Len(s) : IsWindow(s, n)
  BY WindowExists
<1> DEFINE W == TakeRecent(s)
<1>2. W \in Seq(Messages)
  BY <1>1, WindowParts
<1>3. PICK F \in 1 .. Len(W) + 1 : IsFirst(W, F)
  BY <1>2, FirstExists
<1>4. \A k \in F .. Len(W) : W[k] \in Outcomes => HasCall(W, k)
  BY <1>3, WindowHasCalls
<1> HIDE DEF W
<1>5. News(ClosePending(Projected(W)).out) = News(FromFirstTurn(W))
  BY <1>2, <1>3, <1>4, NewsTold
<1> QED BY <1>5 DEF Project, W

----------------------------------------------------------------------------
\* The messages that a run stores, and what appending one does.

\* The prompt, or the answer, of a user is a well-formed message.
LEMMA UserType ==
  ASSUME NEW size \in Sizes \cup {1}
  PROVE  /\ User(size) \in Messages /\ User(size) \notin Outcomes /\ CallsOK(User(size))
         /\ User(size).role = "user" /\ ~Asks(User(size))
<1>1. IsInjective(IdsOf(<<>>))
  BY DEF IsInjective, IdsOf
<1> QED BY <1>1 DEF User, Message, Messages, Outcomes, CallsOK, Asks, ToSet

\* So is a turn whose calls have different ids.
LEMMA AssistantType ==
  ASSUME NEW calls \in Seq(Calls), IsInjective(IdsOf(calls))
  PROVE  /\ Assistant(calls) \in Messages /\ Assistant(calls) \notin Outcomes
         /\ CallsOK(Assistant(calls))
         /\ Assistant(calls).role = "assistant" /\ Assistant(calls).calls = calls
BY DEF Assistant, Message, Messages, Outcomes, CallsOK

\* So is a result; a cancellation is none that has to be told.
LEMMA ResultType ==
  ASSUME NEW id \in Ids, NEW said \in {"actual", "cancelled", "unknown"}, NEW size \in Sizes \cup {1}
  PROVE  /\ Result(id, said, size) \in Results /\ Result(id, said, size).answers = id
         /\ said = "cancelled" => Result(id, said, size) \notin Outcomes
BY DEF Result, Message, Messages, Results, Outcomes

\* What every result is.
LEMMA ResultFacts ==
  ASSUME NEW m \in Results
  PROVE  m \in Messages /\ CallsOK(m) /\ m.role = "tool" /\ ~Asks(m) /\ m.answers \in Ids
<1>1. IsInjective(IdsOf(<<>>))
  BY DEF IsInjective, IdsOf
<1> QED BY <1>1 DEF Results, CallsOK, Asks, ToSet

\* The type of a transcript.
IsTranscript(s) == s \in Seq(Messages) /\ \A i \in DOMAIN s : CallsOK(s[i])

\* A transcript grows by well-formed messages.
LEMMA TranscriptAppend ==
  ASSUME NEW s, IsTranscript(s), NEW m \in Messages, CallsOK(m)
  PROVE  IsTranscript(Append(s, m))
<1>1. s \in Seq(Messages)
  BY DEF IsTranscript
<1>2. ASSUME NEW i \in DOMAIN Append(s, m) PROVE CallsOK(Append(s, m)[i])
  BY <1>1, <1>2, AppendParts DEF IsTranscript
<1> QED BY <1>1, <1>2, AppendParts DEF IsTranscript

\* A new message changes nothing of what was before the others.
LEMMA BeforeAppend ==
  ASSUME NEW s \in Seq(Messages), NEW m \in Messages
  PROVE  /\ \A n \in DOMAIN s : Before(Append(s, m), n) = Before(s, n)
         /\ Before(Append(s, m), Len(s) + 1) = s
<1>1. ASSUME NEW n \in DOMAIN s PROVE Before(Append(s, m), n) = Before(s, n)
  <2> DEFINE a == Before(Append(s, m), n)  b == Before(s, n)
  <2>1. /\ a \in Seq(Messages) /\ b \in Seq(Messages) /\ Len(a) = Len(b)
        /\ \A i \in 1 .. Len(a) : a[i] = b[i]
    BY DEF Before
  <2> HIDE DEF a, b
  <2>2. a = b
    BY <2>1, SameList
  <2> QED BY <2>2 DEF a, b
<1>2. Before(Append(s, m), Len(s) + 1) = s
  <2> DEFINE a == Before(Append(s, m), Len(s) + 1)
  <2>1. a \in Seq(Messages) /\ Len(a) = Len(s) /\ \A i \in 1 .. Len(a) : a[i] = s[i]
    BY DEF Before
  <2> HIDE DEF a
  <2>2. a = s
    BY <2>1, SameList
  <2> QED BY <2>2 DEF a
<1> QED BY <1>1, <1>2

\* A new result that has to be told must answer an open call.
LEMMA ResultsAppend ==
  ASSUME NEW s \in Seq(Messages), NEW m \in Messages, ResultsHaveCalls(s),
         m \in Outcomes => IsOpen(s, m.answers)
  PROVE  ResultsHaveCalls(Append(s, m))
<1> DEFINE t == Append(s, m)
<1>1. DOMAIN t = DOMAIN s \cup {Len(s) + 1} /\ t[Len(s) + 1] = m /\ \A i \in DOMAIN s : t[i] = s[i]
  BY AppendParts
<1>2. (\A n \in DOMAIN s : Before(t, n) = Before(s, n)) /\ Before(t, Len(s) + 1) = s
  BY BeforeAppend
<1> HIDE DEF t
<1> SUFFICES ASSUME NEW n \in DOMAIN t, t[n] \in Outcomes PROVE IsOpen(Before(t, n), t[n].answers)
  BY DEF ResultsHaveCalls, t
<1>3. CASE n \in DOMAIN s
  BY <1>1, <1>2, <1>3 DEF ResultsHaveCalls
<1>4. CASE n = Len(s) + 1
  BY <1>1, <1>2, <1>4
<1> QED BY <1>1, <1>3, <1>4

\* An open call stays open when another one is answered, and when the user
\* speaks after a turn that asked for it.
LEMMA OpenAppend ==
  ASSUME NEW s \in Seq(Messages), NEW m \in Messages, NEW i \in DOMAIN s, NEW id,
         IsOpenAt(s, i, id), m.role # "assistant",
         Asks(s[i]) \/ (m.role = "tool" /\ m.answers # id)
  PROVE  IsOpenAt(Append(s, m), i, id)
<1> DEFINE t == Append(s, m)
<1>1. /\ t[i] = s[i] /\ i \in 1 .. Len(s) /\ Len(s) \in Nat /\ Len(t) = Len(s) + 1
      /\ t[Len(s) + 1] = m /\ \A j \in 1 .. Len(s) : t[j] = s[j]
  OBVIOUS
<1> HIDE DEF t
<1>2. ASSUME NEW j \in (i + 1) .. Len(t)
      PROVE  t[j].role # "assistant" /\ (Asks(t[i]) \/ (t[j].role = "tool" /\ t[j].answers # id))
  <2>1. CASE j = Len(s) + 1
    BY <1>1, <2>1
  <2>2. CASE j # Len(s) + 1
    <3>1. j \in (i + 1) .. Len(s) /\ t[j] = s[j]
      BY <1>1, <2>2
    <3> QED BY <1>1, <3>1 DEF IsOpenAt
  <2> QED BY <2>1, <2>2
<1> QED BY <1>1, <1>2 DEF IsOpenAt, t

\* If a transcript is within the limits, so is what it grew from.
LEMMA LimitsAppend ==
  ASSUME NEW s \in Seq(Messages), NEW m \in Messages
  PROVE  /\ WithinLimits(Append(s, m)) => WithinLimits(s)
         /\ NobodyAsks(Append(s, m)) <=> NobodyAsks(s) /\ ~Asks(m)
<1>1. WithinLimits(Append(s, m)) => WithinLimits(s)
  <2>1. SizeOf(s) \in Nat /\ SizeOf(Append(s, m)) = SizeOf(s) + m.size /\ m.size \in Nat
    BY SizeLaws, MessageSize
  <2>2. Len(s) \in Nat /\ Len(Append(s, m)) = Len(s) + 1
    OBVIOUS
  <2> QED BY <2>1, <2>2, ModelHistoryAssumption DEF WithinLimits
<1>2. NobodyAsks(Append(s, m)) <=> NobodyAsks(s) /\ ~Asks(m)
  <2> DEFINE t == Append(s, m)
  <2>1. DOMAIN t = DOMAIN s \cup {Len(s) + 1} /\ t[Len(s) + 1] = m /\ \A i \in DOMAIN s : t[i] = s[i]
    BY AppendParts
  <2> HIDE DEF t
  <2>2. NobodyAsks(t) <=> \A i \in DOMAIN t : ~Asks(t[i])
    BY DEF NobodyAsks, Asks
  <2>3. NobodyAsks(s) <=> \A i \in DOMAIN s : ~Asks(s[i])
    BY DEF NobodyAsks, Asks
  <2> QED BY <2>1, <2>2, <2>3 DEF t
<1> QED BY <1>1, <1>2

\* The ids of the calls that are left.
LEMMA TailIds ==
  ASSUME NEW calls \in Seq(Calls), calls # <<>>
  PROVE  /\ Tail(calls) \in Seq(Calls) /\ IdsOf(Tail(calls)) = Tail(IdsOf(calls))
         /\ IdsOf(calls) # <<>> /\ Head(IdsOf(calls)) = Head(calls).id
         /\ Head(calls) \in ToSet(calls) /\ ToSet(Tail(calls)) \subseteq ToSet(calls)
<1> DEFINE c == IdsOf(calls)  a == IdsOf(Tail(calls))  b == Tail(IdsOf(calls))
<1>0. Tail(calls) \in Seq(Calls) /\ Len(Tail(calls)) = Len(calls) - 1 /\ Len(calls) \in Nat \ {0}
      /\ \A i \in 1 .. Len(calls) - 1 : Tail(calls)[i] = calls[i + 1]
  OBVIOUS
<1>1. c \in Seq(Ids) /\ Len(c) = Len(calls) /\ a \in Seq(Ids) /\ Len(a) = Len(calls) - 1
  BY <1>0, IdsType
<1>2. /\ \A i \in 1 .. Len(calls) : c[i] = calls[i].id
      /\ \A i \in 1 .. Len(calls) - 1 : a[i] = Tail(calls)[i].id
  BY <1>0 DEF IdsOf
<1> HIDE DEF c, a
<1>3. b \in Seq(Ids) /\ Len(b) = Len(calls) - 1 /\ \A i \in 1 .. Len(calls) - 1 : b[i] = c[i + 1]
  BY <1>0, <1>1 DEF c
<1> HIDE DEF b
<1>4. \A i \in 1 .. Len(a) : a[i] = b[i]
  BY <1>0, <1>1, <1>2, <1>3
<1>5. a = b
  BY <1>1, <1>3, <1>4, SameList
<1>6. c # <<>> /\ Head(c) = Head(calls).id
  BY <1>0, <1>1, <1>2
<1>7. Head(calls) \in ToSet(calls) /\ ToSet(Tail(calls)) \subseteq ToSet(calls)
  BY <1>0 DEF ToSet
<1> QED BY <1>0, <1>5, <1>6, <1>7 DEF a, b, c

----------------------------------------------------------------------------
\* What a new run is told.

\* A projection that waits for nothing is closed.
LEMMA ClosedNothing ==
  ASSUME NEW p \in Projections, p.pending = <<>>
  PROVE  ClosePending(p) = p
<1>1. Len(p.pending) = 0
  OBVIOUS
<1> QED BY <1>1, ClosingSteps

\* A projection that ends with what the user says.
LEMMA UserProjected ==
  ASSUME NEW s \in Seq(Messages), NEW m \in Messages, m.role = "user"
  PROVE  /\ Projected(Append(s, m)).pending = <<>>
         /\ ClosePending(Projected(Append(s, m))).out = Projected(Append(s, m)).out
         /\ Projected(Append(s, m)) \in Projections
         /\ Projected(Append(s, m)).out \in Seq(Messages) /\ Projected(Append(s, m)).out # <<>>
         /\ Last(Projected(Append(s, m)).out) = m
<1> DEFINE p == Projected(s)  C == ClosePending(p).out  z == ProjectMessage(p, m)
<1>1. p \in Projections /\ Projected(Append(s, m)) = z
  BY ProjectedLaws
<1>2. C \in Seq(Messages)
  BY <1>1, ClosedType DEF Projections
<1>3. z \in Projections /\ z = [out |-> Append(C, m), pending |-> <<>>]
  BY <1>1, ProjectMessageType DEF ProjectMessage, ProjectUser
<1> HIDE DEF C, z
<1>4. Append(C, m) \in Seq(Messages) /\ Append(C, m) # <<>> /\ Last(Append(C, m)) = m
  BY <1>2 DEF Last
<1>5. ClosePending(z) = z
  BY <1>3, ClosedNothing
<1>6. z.pending = <<>> /\ z.out = Append(C, m)
  BY <1>3
<1> QED BY <1>1, <1>3, <1>4, <1>5, <1>6

\* Whatever the window cuts off, the prompt is told, and told last.
LEMMA PromptIsTold ==
  ASSUME NEW s \in Seq(Messages), NEW m \in Messages, m.role = "user"
  PROVE  /\ Project(Append(s, m)) \in Seq(Messages) /\ Project(Append(s, m)) # <<>>
         /\ Last(Project(Append(s, m))) = m
         /\ WithinLimits(Append(s, m)) =>
              Projected(Append(s, m)) = [out |-> Project(Append(s, m)), pending |-> <<>>]
<1> DEFINE t == Append(s, m)  W == TakeRecent(t)
<1>0. t \in Seq(Messages) /\ t # <<>> /\ t[Len(t)] = m /\ Len(t) \in Nat
  OBVIOUS
<1> HIDE DEF t
<1>1. PICK n \in 0 .. Len(t) : IsWindow(t, n)
  BY <1>0, WindowExists
<1>2. n > 0
  BY <1>0, <1>1, WindowIsNotEmpty
<1>3. /\ W \in Seq(Messages) /\ Len(W) = n
      /\ \A k \in 1 .. n : W[k] = t[k + (Len(t) - n)] /\ k + (Len(t) - n) \in DOMAIN t
  BY <1>0, <1>1, WindowParts
<1> HIDE DEF W
<1>4. W[n] = m /\ n \in 1 .. n /\ n - 1 \in 0 .. n - 1
  <2>1. n \in 1 .. n /\ n + (Len(t) - n) = Len(t)
    BY <1>0, <1>2
  <2> QED BY <1>0, <1>3, <2>1
<1> DEFINE u == SubSeq(W, 1, n - 1)
<1>5. u \in Seq(Messages) /\ W = Append(u, m)
  <2> DEFINE k == n - 1
  <2>1. k \in 0 .. Len(W) - 1 /\ k + 1 = n
    BY <1>3, <1>4
  <2> HIDE DEF k
  <2>2. SubSeq(W, 1, k) \in Seq(Messages) /\ SubSeq(W, 1, k + 1) = Append(SubSeq(W, 1, k), W[k + 1])
        /\ SubSeq(W, 1, Len(W)) = W
    BY <1>3, <2>1, Prefix
  <2> QED BY <1>3, <1>4, <2>1, <2>2 DEF k
<1> HIDE DEF u
<1>6. /\ Project(t) = Projected(W).out
      /\ Projected(W).out \in Seq(Messages) /\ Projected(W).out # <<>> /\ Last(Projected(W).out) = m
  BY <1>5, UserProjected DEF Project, W
<1>7. WithinLimits(t) => W = t
  BY <1>0, WindowIsAll DEF W
<1>8. Projected(W) = [out |-> Projected(W).out, pending |-> <<>>]
  BY <1>5, UserProjected DEF Projections
<1> QED BY <1>6, <1>7, <1>8 DEF t

----------------------------------------------------------------------------
\* Every step keeps the invariant.

\* No calls have no ids.
LEMMA EmptyIds == IdsOf(<<>>) = <<>> /\ IsInjective(IdsOf(<<>>)) /\ IsInjective(<<>>)
BY DEF IdsOf, IsInjective

\* A new conversation.
LEMMA InitHolds == Init => HistInv
<1> SUFFICES ASSUME Init PROVE HistInv
  OBVIOUS
<1>1. TypesOK
  BY EmptyIds DEF Init, TypesOK, Ended
<1>2. ResultsHaveCalls(transcript) /\ TodoIsOpen /\ OwedIsOpen /\ RunAgrees /\ PromptIsLast
  BY DEF Init, ResultsHaveCalls, TodoIsOpen, OwedIsOpen, RunAgrees, PromptIsLast
<1> QED BY <1>1, <1>2 DEF HistInv

\* A list over X is one over every larger set.
LEMMA MoreTypes ==
  ASSUME NEW X, NEW Y, NEW s \in Seq(X), X \subseteq Y
  PROVE  s \in Seq(Y)
<1>1. \A i \in 1 .. Len(s) : s[i] \in Y
  OBVIOUS
<1> QED BY <1>1

\* What the type invariant says of the calls that wait.
LEMMA TodoType ==
  ASSUME TypesOK
  PROVE  todo \in Seq(Calls) /\ IsInjective(IdsOf(todo)) /\ todo \in Seq([id : seen, kind : Kinds])
<1>1. todo \in Seq([id : seen, kind : Kinds]) /\ seen \subseteq Ids
  BY DEF TypesOK
<1>2. [id : seen, kind : Kinds] \subseteq Calls
  BY <1>1 DEF Calls
<1>3. todo \in Seq(Calls)
  BY <1>1, <1>2, MoreTypes
<1> QED BY <1>1, <1>3 DEF TypesOK

\* A run that is not closing owes nothing that has to be told.
LEMMA NothingOwed ==
  ASSUME OwedIsOpen, phase # "closing", UNCHANGED owed
  PROVE  OwedIsOpen'
BY DEF OwedIsOpen

\* A new run: the projection of the transcript with its prompt is what it is told.
LEMMA PromptKeeps ==
  ASSUME HistInv, NEW size \in Sizes, Prompt(size)
  PROVE  HistInv'
<1> DEFINE s == transcript  m == User(size)  t == Append(s, m)
<1>1. IsTranscript(s) /\ s \in Seq(Messages)
  BY DEF HistInv, TypesOK, IsTranscript
<1>2. m \in Messages /\ m \notin Outcomes /\ CallsOK(m) /\ m.role = "user"
  BY UserType
<1>3. transcript' = t /\ sent' = Project(t) /\ todo' = todo /\ owed' = owed /\ seen' = {}
      /\ phase \in Ended /\ phase' = "stream"
  BY DEF Prompt
<1>4. todo = <<>>
  BY <1>3 DEF HistInv, TypesOK, Ended
<1> HIDE DEF m
<1>5. IsTranscript(t) /\ t \in Seq(Messages) /\ t # <<>> /\ Last(t) = m
  <2>1. t \in Seq(Messages) /\ t # <<>> /\ Last(t) = m
    BY <1>1, <1>2 DEF Last
  <2> QED BY <1>1, <1>2, <2>1, TranscriptAppend
<1>6. /\ Project(t) \in Seq(Messages) /\ Project(t) # <<>> /\ Last(Project(t)) = m
      /\ WithinLimits(t) => Projected(t) = [out |-> Project(t), pending |-> <<>>]
  BY <1>1, <1>2, PromptIsTold
<1>7. ResultsHaveCalls(t)
  BY <1>1, <1>2, ResultsAppend DEF HistInv
<1> HIDE DEF t
<1>8. TypesOK'
  <2>1. owed \in Seq(Results)
    BY DEF HistInv, TypesOK
  <2> QED BY <1>3, <1>4, <1>5, <1>6, <2>1, EmptyIds DEF TypesOK, IsTranscript
<1>9. TodoIsOpen'
  BY <1>3, <1>4 DEF TodoIsOpen
<1>10. OwedIsOpen'
  <2>1. phase # "closing" /\ OwedIsOpen
    BY <1>3 DEF Ended, HistInv
  <2> QED BY <1>3, <2>1, NothingOwed
<1>11. RunAgrees'
  BY <1>3, <1>4, <1>6, EmptyIds DEF RunAgrees
<1>12. PromptIsLast'
  BY <1>3, <1>5, <1>6 DEF PromptIsLast
<1>13. ResultsHaveCalls(transcript)'
  BY <1>3, <1>7
<1> QED BY <1>8, <1>9, <1>10, <1>11, <1>12, <1>13 DEF HistInv

\* A function on 1 .. n is a list.
LEMMA ListOf ==
  ASSUME NEW n \in Nat, NEW c, DOMAIN c = 1 .. n, c = [i \in 1 .. n |-> c[i]],
         NEW X, \A i \in 1 .. n : c[i] \in X
  PROVE  c \in Seq(X) /\ Len(c) = n
OBVIOUS

\* The calls of a turn have different ids, and the run records them.
LEMMA TurnsType ==
  ASSUME TypesOK, NEW calls \in Turns
  PROVE  /\ calls \in Seq(Calls) /\ IsInjective(IdsOf(calls))
         /\ calls \in Seq([id : seen \cup ToSet(IdsOf(calls)), kind : Kinds])
         /\ ToSet(IdsOf(calls)) \subseteq Ids
<1>1. PICK n \in 0 .. MaxCalls : calls \in [1 .. n -> [id : Ids \ seen, kind : Kinds]]
  BY DEF Turns
<1>2. n \in Nat
  BY ModelHistoryAssumption
<1>3. calls \in Seq(Calls) /\ Len(calls) = n
  <2>1. \A i \in 1 .. n : calls[i] \in Calls
    BY <1>1 DEF Calls
  <2> QED BY <1>1, <1>2, <2>1, ListOf
<1>4. /\ DOMAIN IdsOf(calls) = 1 .. n /\ \A i \in 1 .. n : IdsOf(calls)[i] = calls[i].id
      /\ DOMAIN calls = 1 .. n
  BY <1>3 DEF IdsOf
<1>5. IsInjective(IdsOf(calls))
  <2>1. \A i, j \in DOMAIN calls : calls[i].id = calls[j].id => i = j
    BY DEF Turns
  <2> QED BY <1>4, <2>1 DEF IsInjective
<1>6. \A i \in 1 .. n : calls[i] \in [id : seen \cup ToSet(IdsOf(calls)), kind : Kinds]
  BY <1>1, <1>4, Members
<1>7. calls \in Seq([id : seen \cup ToSet(IdsOf(calls)), kind : Kinds])
  BY <1>1, <1>2, <1>6, ListOf, ZenonT(60)
<1>8. ToSet(IdsOf(calls)) \subseteq Ids
  BY <1>1, <1>4, Members
<1> QED BY <1>3, <1>5, <1>7, <1>8

\* A turn: its calls are open, and the projection waits for them.
LEMMA TurnKeeps ==
  ASSUME HistInv, NEW calls \in Turns, Turn(calls)
  PROVE  HistInv'
<1> DEFINE s == transcript  m == Assistant(calls)  t == Append(s, m)
<1>1. IsTranscript(s) /\ s \in Seq(Messages) /\ sent \in Seq(Messages) /\ TypesOK
  BY DEF HistInv, TypesOK, IsTranscript
<1>2. /\ calls \in Seq(Calls) /\ IsInjective(IdsOf(calls))
      /\ calls \in Seq([id : seen \cup ToSet(IdsOf(calls)), kind : Kinds])
      /\ ToSet(IdsOf(calls)) \subseteq Ids
  BY <1>1, TurnsType
<1>3. m \in Messages /\ m \notin Outcomes /\ CallsOK(m) /\ m.role = "assistant" /\ m.calls = calls
  BY <1>2, AssistantType
<1>4. transcript' = t /\ sent' = Append(sent, m) /\ todo' = calls /\ owed' = owed
      /\ seen' = seen \cup ToSet(IdsOf(calls))
      /\ phase = "stream" /\ phase' = IF calls = <<>> THEN "completed" ELSE "calls"
  BY DEF Turn
<1> HIDE DEF m
<1>5. IsTranscript(t) /\ t # <<>> /\ Append(sent, m) \in Seq(Messages) /\ Append(sent, m) # <<>>
  BY <1>1, <1>3, TranscriptAppend
<1>6. ResultsHaveCalls(t)
  BY <1>1, <1>3, ResultsAppend DEF HistInv
<1>7. TypesOK'
  <2>1. owed \in Seq(Results) /\ seen \in SUBSET Ids
    BY DEF HistInv, TypesOK
  <2> HIDE DEF t
  <2>2. phase' \in Ended \cup {"stream", "calls", "answered", "closing"}
        /\ (calls # <<>> <=> phase' \in {"calls", "answered"})
    BY <1>4 DEF Ended
  <2> QED BY <1>2, <1>4, <1>5, <2>1, <2>2 DEF TypesOK, IsTranscript
<1>8. TodoIsOpen'
  <2>1. t[Len(s) + 1] = m /\ Len(t) = Len(s) + 1 /\ Len(s) + 1 \in DOMAIN t /\ Len(s) \in Nat
    BY <1>1, <1>3
  <2> HIDE DEF t
  <2>2. \A id \in ToSet(IdsOf(calls)) : IsOpenAt(t, Len(s) + 1, id)
    BY <1>3, <2>1 DEF IsOpenAt
  <2> QED BY <1>3, <1>4, <2>1, <2>2 DEF TodoIsOpen
<1>9. OwedIsOpen'
  BY <1>4, NothingOwed DEF HistInv
<1>10. RunAgrees'
  <2> SUFFICES ASSUME WithinLimits(t), NobodyAsks(t)
               PROVE Projected(t) = [out |-> Append(sent, m), pending |-> IdsOf(calls)]
    BY <1>4 DEF RunAgrees
  <2> DEFINE p == Projected(s)
  <2>1. WithinLimits(s) /\ NobodyAsks(s) /\ todo = <<>>
    BY <1>1, <1>3, <1>4, LimitsAppend DEF TypesOK
  <2>2. p = [out |-> sent, pending |-> <<>>]
    BY <1>4, <2>1, EmptyIds DEF HistInv, RunAgrees
  <2>3. p \in Projections /\ Projected(t) = ProjectMessage(p, m)
    BY <1>1, <1>3, ProjectedLaws
  <2> HIDE DEF p, t
  <2>4. ClosePending(p) = p
    BY <2>2, <2>3, ClosedNothing
  <2>5. ProjectMessage(p, m) = [out |-> Append(p.out, m), pending |-> IdsOf(calls)]
    BY <1>3, <2>4 DEF ProjectMessage, ProjectAssistant
  <2> QED BY <2>2, <2>3, <2>5
<1>11. PromptIsLast'
  BY <1>4 DEF PromptIsLast
<1>12. ResultsHaveCalls(transcript)'
  BY <1>4, <1>6
<1> QED BY <1>7, <1>8, <1>9, <1>10, <1>11, <1>12 DEF HistInv


\* A message that only the transcript gets.
LEMMA StoredType ==
  ASSUME TypesOK, NEW m \in Messages, CallsOK(m), ResultsHaveCalls(transcript),
         m \in Outcomes => IsOpen(transcript, m.answers)
  PROVE  /\ Append(transcript, m) \in Seq(Messages) /\ Append(transcript, m) # <<>>
         /\ \A i \in DOMAIN Append(transcript, m) : CallsOK(Append(transcript, m)[i])
         /\ ResultsHaveCalls(Append(transcript, m))
<1>1. IsTranscript(transcript) /\ transcript \in Seq(Messages)
  BY DEF TypesOK, IsTranscript
<1>2. IsTranscript(Append(transcript, m)) /\ Append(transcript, m) # <<>>
  BY <1>1, TranscriptAppend
<1> QED BY <1>1, <1>2, ResultsAppend DEF IsTranscript

\* A turn that failed ends the run.
LEMMA TurnFailsKeeps ==
  ASSUME HistInv, NEW text \in BOOLEAN, TurnFails(text)
  PROVE  HistInv'
<1> DEFINE s == transcript  m == Assistant(<<>>)  t == Append(s, m)
<1>1. TypesOK /\ ResultsHaveCalls(s) /\ OwedIsOpen
  BY DEF HistInv
<1>2. m \in Messages /\ m \notin Outcomes /\ CallsOK(m)
  <2>1. <<>> \in Seq(Calls)
    OBVIOUS
  <2> QED BY <2>1, AssistantType, EmptyIds
<1>3. /\ phase = "stream" /\ phase' = "stopped" /\ UNCHANGED <<todo, seen, owed, sent>>
      /\ transcript' = t \/ transcript' = s
  BY DEF TurnFails
<1> HIDE DEF m
<1>4. t \in Seq(Messages) /\ t # <<>> /\ (\A i \in DOMAIN t : CallsOK(t[i])) /\ ResultsHaveCalls(t)
  BY <1>1, <1>2, StoredType
<1>5. /\ s \in Seq(Messages) /\ s # <<>> /\ (\A i \in DOMAIN s : CallsOK(s[i]))
      /\ sent # <<>> /\ todo = <<>>
  BY <1>1, <1>3 DEF TypesOK
<1>6. TypesOK'
  <2>1. /\ transcript' \in Seq(Messages) /\ transcript' # <<>>
        /\ \A i \in DOMAIN transcript' : CallsOK(transcript'[i])
    <3> HIDE DEF t
    <3> QED BY <1>3, <1>4, <1>5
  <2> QED BY <1>1, <1>3, <1>5, <2>1 DEF TypesOK, Ended
<1>7. TodoIsOpen' /\ OwedIsOpen' /\ RunAgrees' /\ PromptIsLast'
  <2>1. OwedIsOpen'
    BY <1>1, <1>3, NothingOwed
  <2> QED BY <1>3, <1>5, <2>1 DEF TodoIsOpen, RunAgrees, PromptIsLast
<1>8. ResultsHaveCalls(transcript)'
  <2> HIDE DEF t
  <2> QED BY <1>1, <1>3, <1>4
<1> QED BY <1>6, <1>7, <1>8 DEF HistInv

\* What is left of the calls of a turn once the first has its result.
LEMMA TodoTail ==
  ASSUME TypesOK, todo # <<>>
  PROVE  /\ Head(todo) \in ToSet(todo) /\ Head(todo).id \in seen /\ Head(todo).id \in Ids
         /\ Tail(todo) \in Seq([id : seen, kind : Kinds])
         /\ IdsOf(Tail(todo)) = Tail(IdsOf(todo)) /\ IsInjective(IdsOf(Tail(todo)))
         /\ ToSet(Tail(todo)) \subseteq ToSet(todo)
         /\ ToSet(IdsOf(Tail(todo))) = ToSet(IdsOf(todo)) \ {Head(todo).id}
         /\ Head(todo).id \in ToSet(IdsOf(todo))
         /\ Keep(IdsOf(todo), Ids \ {Head(todo).id}) = Tail(IdsOf(todo))
<1> DEFINE q == IdsOf(todo)
<1>1. todo \in Seq(Calls) /\ IsInjective(q) /\ todo \in Seq([id : seen, kind : Kinds])
  BY TodoType
<1>2. q \in Seq(Ids)
  BY <1>1, IdsType
<1>3. /\ IdsOf(Tail(todo)) = Tail(q) /\ q # <<>> /\ Head(q) = Head(todo).id
      /\ Head(todo) \in ToSet(todo) /\ ToSet(Tail(todo)) \subseteq ToSet(todo)
  BY <1>1, TailIds
<1> HIDE DEF q
<1>4. Head(q) \in ToSet(q) /\ Head(q) \in Ids /\ IsInjective(Tail(q)) /\ ToSet(Tail(q)) = ToSet(q) \ {Head(q)}
  BY <1>1, <1>2, <1>3, TailOnce
<1>5. Keep(q, Ids \ {Head(q)}) = Tail(q)
  BY <1>1, <1>2, <1>3, KeepTail
<1>6. Tail(todo) \in Seq([id : seen, kind : Kinds]) /\ Head(todo) \in [id : seen, kind : Kinds]
  BY <1>1, TailOnce
<1>7. Head(todo).id \in seen
  BY <1>6
<1> QED BY <1>3, <1>4, <1>5, <1>6, <1>7 DEF q

\* The result of the first call: the projection of the transcript takes it as
\* the run does.
LEMMA ResultAgrees ==
  ASSUME TypesOK, RunAgrees, todo # <<>>, NEW m \in Results, m.answers = Head(todo).id,
         phase \in {"calls", "answered"},
         WithinLimits(Append(transcript, m)), NobodyAsks(Append(transcript, m))
  PROVE  Projected(Append(transcript, m)) = [out |-> Append(sent, m), pending |-> IdsOf(Tail(todo))]
<1> DEFINE s == transcript  p == Projected(s)  q == IdsOf(todo)
<1>1. s \in Seq(Messages) /\ m \in Messages /\ m.role = "tool"
  BY ResultFacts DEF TypesOK
<1>2. WithinLimits(s) /\ NobodyAsks(s)
  BY <1>1, LimitsAppend
<1>3. p = [out |-> sent, pending |-> q]
  BY <1>2 DEF RunAgrees
<1>4. Projected(Append(s, m)) = ProjectMessage(p, m)
  BY <1>1, ProjectedLaws
<1>5. q \in Seq(Ids)
  BY TodoType, IdsType
<1> HIDE DEF p, q
<1>6. m.answers \in ToSet(q) /\ Keep(q, Ids \ {m.answers}) = IdsOf(Tail(todo))
  BY TodoTail DEF q
<1>7. Contains(p.pending, m.answers)
  BY <1>3, <1>5, <1>6, ContainsMember
<1>8. ProjectMessage(p, m) = [out |-> Append(sent, m), pending |-> Keep(q, Ids \ {m.answers})]
  BY <1>1, <1>3, <1>7 DEF ProjectMessage, ProjectResult
<1> QED BY <1>4, <1>6, <1>8

\* The result of the first call leaves the others open.
LEMMA StoreResultKeeps ==
  ASSUME HistInv, NEW size \in Sizes, StoreResult(size)
  PROVE  HistInv'
<1> DEFINE s == transcript  m == Result(Head(todo).id, "actual", size)  t == Append(s, m)
<1>1. TypesOK /\ ResultsHaveCalls(s) /\ OwedIsOpen /\ TodoIsOpen /\ RunAgrees /\ s \in Seq(Messages)
      /\ sent \in Seq(Messages)
  BY DEF HistInv, TypesOK
<1>2. /\ transcript' = t /\ sent' = Append(sent, m) /\ todo' = Tail(todo) /\ UNCHANGED <<seen, owed>>
      /\ phase \in {"calls", "answered"}
      /\ phase' = IF Tail(todo) = <<>> THEN "stream" ELSE "calls"
  BY DEF StoreResult
<1>3. todo # <<>>
  BY <1>1, <1>2 DEF TypesOK
<1>4. m \in Results /\ m.answers = Head(todo).id /\ m \in Messages /\ CallsOK(m) /\ m.role = "tool"
  <2>1. m \in Results /\ m.answers = Head(todo).id
    BY <1>1, <1>3, TodoTail, ResultType
  <2> HIDE DEF m
  <2> QED BY <2>1, ResultFacts
<1> HIDE DEF m
<1>5. PICK i \in DOMAIN s : /\ ToSet(todo) \subseteq ToSet(s[i].calls)
                            /\ \A id \in ToSet(IdsOf(todo)) : IsOpenAt(s, i, id)
  BY <1>1, <1>3 DEF TodoIsOpen
<1>6. IsOpen(s, m.answers)
  BY <1>1, <1>3, <1>4, <1>5, TodoTail DEF IsOpen
<1>7. t \in Seq(Messages) /\ t # <<>> /\ (\A k \in DOMAIN t : CallsOK(t[k])) /\ ResultsHaveCalls(t)
  BY <1>1, <1>4, <1>6, StoredType
<1>8. TypesOK'
  <2>1. Append(sent, m) \in Seq(Messages) /\ Append(sent, m) # <<>>
    BY <1>1, <1>4
  <2> HIDE DEF t
  <2>2. /\ Tail(todo) \in Seq([id : seen, kind : Kinds]) /\ IsInjective(IdsOf(Tail(todo)))
    BY <1>1, <1>3, TodoTail
  <2>3. phase' \in Ended \cup {"stream", "calls", "answered", "closing"} /\ phase' # "none"
        /\ (Tail(todo) # <<>> <=> phase' \in {"calls", "answered"})
    BY <1>2
  <2> QED BY <1>1, <1>2, <1>7, <2>1, <2>2, <2>3 DEF TypesOK
<1>9. TodoIsOpen'
  <2>1. t[i] = s[i] /\ i \in DOMAIN t
    BY <1>1, <1>4, AppendParts
  <2>2. ASSUME NEW id \in ToSet(IdsOf(Tail(todo))) PROVE IsOpenAt(t, i, id)
    <3>1. id \in ToSet(IdsOf(todo)) /\ id # m.answers
      BY <1>1, <1>3, <1>4, TodoTail
    <3>2. IsOpenAt(s, i, id)
      BY <1>5, <3>1
    <3> QED BY <1>1, <1>4, <3>1, <3>2, OpenAppend
  <2>3. ToSet(Tail(todo)) \subseteq ToSet(t[i].calls)
    BY <1>1, <1>3, <1>5, <2>1, TodoTail
  <2> HIDE DEF t
  <2> QED BY <1>2, <2>1, <2>2, <2>3 DEF TodoIsOpen
<1>10. OwedIsOpen'
  BY <1>1, <1>2, NothingOwed
<1>11. RunAgrees'
  <2>1. ASSUME WithinLimits(t), NobodyAsks(t)
        PROVE  Projected(t) = [out |-> Append(sent, m), pending |-> IdsOf(Tail(todo))]
    BY <1>1, <1>2, <1>3, <1>4, <2>1, ResultAgrees
  <2> HIDE DEF t
  <2> QED BY <1>2, <2>1 DEF RunAgrees
<1>12. PromptIsLast'
  BY <1>1, <1>2, <1>3, TodoTail DEF PromptIsLast
<1>13. ResultsHaveCalls(transcript)'
  BY <1>2, <1>7
<1> QED BY <1>8, <1>9, <1>10, <1>11, <1>12, <1>13 DEF HistInv

\* What the user says is stored behind a turn that asked.
LEMMA AnswerKeeps ==
  ASSUME HistInv, Answer
  PROVE  HistInv'
<1> DEFINE s == transcript  m == User(1)  t == Append(s, m)
<1>1. TypesOK /\ ResultsHaveCalls(s) /\ OwedIsOpen /\ TodoIsOpen /\ s \in Seq(Messages)
  BY DEF HistInv, TypesOK
<1>2. /\ transcript' = t /\ UNCHANGED <<todo, seen, owed, sent>>
      /\ phase = "calls" /\ phase' = "answered" /\ Head(todo).kind = "input"
  BY DEF Answer
<1>3. todo # <<>> /\ s # <<>>
  BY <1>1, <1>2 DEF TypesOK
<1>4. m \in Messages /\ m \notin Outcomes /\ CallsOK(m) /\ m.role = "user"
  BY UserType
<1> HIDE DEF m
<1>5. PICK i \in DOMAIN s : /\ ToSet(todo) \subseteq ToSet(s[i].calls)
                            /\ \A id \in ToSet(IdsOf(todo)) : IsOpenAt(s, i, id)
  BY <1>1, <1>3 DEF TodoIsOpen
<1>6. Asks(s[i])
  BY <1>1, <1>2, <1>3, <1>5, TodoTail DEF Asks
<1>7. t \in Seq(Messages) /\ t # <<>> /\ (\A k \in DOMAIN t : CallsOK(t[k])) /\ ResultsHaveCalls(t)
  BY <1>1, <1>4, StoredType
<1>8. t[i] = s[i] /\ i \in DOMAIN t
  BY <1>1, <1>4, AppendParts
<1>9. \A id \in ToSet(IdsOf(todo)) : IsOpenAt(t, i, id)
  BY <1>1, <1>4, <1>5, <1>6, OpenAppend
<1> HIDE DEF t
<1>10. TypesOK'
  BY <1>1, <1>2, <1>3, <1>7 DEF TypesOK, Ended
<1>11. TodoIsOpen'
  BY <1>2, <1>5, <1>8, <1>9 DEF TodoIsOpen
<1>12. OwedIsOpen'
  BY <1>1, <1>2, NothingOwed
<1>13. RunAgrees'
  <2>1. ~NobodyAsks(t)
    BY <1>6, <1>8 DEF NobodyAsks, Asks
  <2> QED BY <1>2, <2>1 DEF RunAgrees
<1>14. PromptIsLast'
  BY <1>2 DEF PromptIsLast
<1>15. ResultsHaveCalls(transcript)'
  BY <1>2, <1>7
<1> QED BY <1>10, <1>11, <1>12, <1>13, <1>14, <1>15 DEF HistInv

\* Cancellations are results, and none has to be told.
LEMMA CancellationsType ==
  ASSUME NEW calls \in Seq(Calls)
  PROVE  /\ Cancellations(calls) \in Seq(Results)
         /\ \A n \in DOMAIN Cancellations(calls) : Cancellations(calls)[n] \notin Outcomes
<1> DEFINE c == Cancellations(calls)
<1>1. Len(calls) \in Nat /\ \A i \in 1 .. Len(calls) : calls[i].id \in Ids
  <2>1. \A i \in 1 .. Len(calls) : calls[i] \in Calls
    OBVIOUS
  <2> QED BY <2>1 DEF Calls
<1>2. c = [i \in 1 .. Len(calls) |-> Result(calls[i].id, "cancelled", 1)]
  BY DEF Cancellations
<1> HIDE DEF c
<1>3. DOMAIN c = 1 .. Len(calls) /\ \A i \in 1 .. Len(calls) : c[i] = Result(calls[i].id, "cancelled", 1)
  BY <1>2
<1>4. \A i \in 1 .. Len(calls) : c[i] \in Results /\ c[i] \notin Outcomes
  BY <1>1, <1>3, ResultType
<1>5. c = [i \in 1 .. Len(calls) |-> c[i]]
  BY <1>2
<1>6. c \in Seq(Results)
  BY <1>1, <1>3, <1>4, <1>5, ListOf
<1> QED BY <1>3, <1>4, <1>6 DEF c

\* The end of a run that owes these results.
LEMMA ClosingKeeps ==
  ASSUME HistInv, phase' = "closing", todo' = <<>>, UNCHANGED <<transcript, seen, sent>>,
         phase \notin {"none"}, owed' \in Seq(Results),
         \A n \in DOMAIN owed' : owed'[n] \in Outcomes => n = 1 /\ IsOpen(transcript, owed'[n].answers)
  PROVE  HistInv'
<1>1. <<>> \in Seq([id : seen, kind : Kinds])
  OBVIOUS
<1>2. TypesOK'
  BY <1>1, EmptyIds DEF HistInv, TypesOK
<1>3. TodoIsOpen' /\ OwedIsOpen' /\ RunAgrees' /\ PromptIsLast' /\ ResultsHaveCalls(transcript)'
  BY DEF HistInv, TodoIsOpen, OwedIsOpen, RunAgrees, PromptIsLast
<1> QED BY <1>2, <1>3 DEF HistInv

\* A run that is stopped owes cancellations only.
LEMMA AbandonKeeps ==
  ASSUME HistInv, NEW begun \in BOOLEAN, Abandon(begun)
  PROVE  HistInv'
<1>1. /\ phase = "calls" /\ phase' = "closing" /\ todo' = <<>> /\ UNCHANGED <<transcript, seen, sent>>
      /\ owed' = Cancellations(Tail(todo)) \/ owed' = Cancellations(todo)
  BY DEF Abandon
<1>2. todo \in Seq(Calls) /\ todo # <<>>
  BY <1>1, TodoType DEF HistInv, TypesOK
<1>3. Tail(todo) \in Seq(Calls)
  BY <1>2, TailIds
<1>4. owed' \in Seq(Results) /\ \A n \in DOMAIN owed' : owed'[n] \notin Outcomes
  <2>1. CASE owed' = Cancellations(todo)
    BY <1>2, <2>1, CancellationsType
  <2>2. CASE owed' = Cancellations(Tail(todo))
    BY <1>3, <2>2, CancellationsType
  <2> QED BY <1>1, <2>1, <2>2
<1> QED BY <1>1, <1>4, ClosingKeeps

\* The recovery answers the call that ran before it cancels the others.
LEMMA OwedAfterCrash ==
  ASSUME NEW r \in Results, NEW c \in Seq(Results),
         \A n \in DOMAIN c : c[n] \notin Outcomes
  PROVE  /\ <<r>> \o c \in Seq(Results)
         /\ \A n \in DOMAIN (<<r>> \o c) : (<<r>> \o c)[n] \in Outcomes => n = 1 /\ (<<r>> \o c)[n] = r
<1> DEFINE d == <<r>> \o c
<1>1. d \in Seq(Results)
  OBVIOUS
<1>2. Len(d) = Len(c) + 1 /\ d[1] = r /\ Len(c) \in Nat
  OBVIOUS
<1>3. \A n \in 2 .. Len(c) + 1 : d[n] = c[n - 1] /\ n - 1 \in DOMAIN c
  OBVIOUS
<1> HIDE DEF d
<1>4. DOMAIN d = 1 .. Len(c) + 1
  BY <1>1, <1>2
<1>5. ASSUME NEW n \in DOMAIN d, d[n] \in Outcomes PROVE n = 1
  <2> SUFFICES ASSUME n # 1 PROVE FALSE
    OBVIOUS
  <2>1. n \in 2 .. Len(c) + 1
    BY <1>2, <1>4
  <2> QED BY <1>3, <1>5, <2>1
<1> QED BY <1>1, <1>2, <1>5 DEF d

\* A crash leaves one result that has to be told, and its call is open.
LEMMA CrashKeeps ==
  ASSUME HistInv, NEW current \in {"waiting", "running", "over"}, Crash(current)
  PROVE  HistInv'
<1> DEFINE r == Result(Head(todo).id, "unknown", 1)  c == Cancellations(Tail(todo))
<1>1. /\ phase # "none" /\ phase' = "closing" /\ todo' = <<>> /\ UNCHANGED <<transcript, seen, sent>>
      /\ TypesOK /\ TodoIsOpen
  BY DEF Crash, Ended, HistInv
<1>2. \/ owed' = <<>>
      \/ \E calls \in Turns : owed' = Cancellations(calls)
      \/ todo # <<>> /\ (owed' = Cancellations(todo) \/ owed' = <<r>> \o c \/ owed' = c)
  BY <1>1 DEF Crash, TypesOK, Ended
<1>3. todo \in Seq(Calls)
  BY <1>1, TodoType
<1> HIDE DEF r, c
<1>4. CASE owed' = <<>>
  BY <1>1, <1>4, ClosingKeeps
<1>9. ASSUME NEW calls \in Turns, owed' = Cancellations(calls) PROVE HistInv'
  <2>1. calls \in Seq(Calls)
    BY <1>1, TurnsType
  <2> QED BY <1>1, <1>9, <2>1, CancellationsType, ClosingKeeps
<1>5. CASE owed' = Cancellations(todo)
  BY <1>1, <1>3, <1>5, CancellationsType, ClosingKeeps
<1>6. ASSUME todo # <<>> PROVE c \in Seq(Results) /\ \A n \in DOMAIN c : c[n] \notin Outcomes
  BY <1>3, <1>6, TailIds, CancellationsType DEF c
<1>7. CASE todo # <<>> /\ owed' = c
  BY <1>1, <1>6, <1>7, ClosingKeeps
<1>8. CASE todo # <<>> /\ owed' = <<r>> \o c
  <2>1. r \in Results /\ r.answers = Head(todo).id
    BY <1>1, <1>8, TodoTail, ResultType DEF r
  <2>2. IsOpen(transcript, Head(todo).id)
    BY <1>1, <1>8, TodoTail DEF TodoIsOpen, IsOpen
  <2>3. owed' \in Seq(Results)
        /\ \A n \in DOMAIN owed' : owed'[n] \in Outcomes => n = 1 /\ owed'[n] = r
    BY <1>6, <1>8, <2>1, OwedAfterCrash
  <2> QED BY <1>1, <2>1, <2>2, <2>3, ClosingKeeps
<1> QED BY <1>2, <1>4, <1>5, <1>7, <1>8, <1>9

\* The results that are owed are stored in order, the one that has to be told first.
LEMMA CloseKeeps ==
  ASSUME HistInv, Close
  PROVE  HistInv'
<1> DEFINE s == transcript  m == Head(owed)  t == Append(s, m)
<1>1. TypesOK /\ ResultsHaveCalls(s) /\ OwedIsOpen /\ TodoIsOpen /\ s \in Seq(Messages) /\ owed \in Seq(Results)
  BY DEF HistInv, TypesOK
<1>2. /\ transcript' = t /\ owed' = Tail(owed) /\ UNCHANGED <<phase, todo, seen, sent>>
      /\ phase = "closing" /\ owed # <<>>
  BY DEF Close
<1>3. todo = <<>> /\ s # <<>>
  BY <1>1, <1>2 DEF TypesOK
<1>4. /\ m \in Results /\ m = owed[1] /\ 1 \in DOMAIN owed /\ Tail(owed) \in Seq(Results)
      /\ \A n \in DOMAIN Tail(owed) : Tail(owed)[n] = owed[n + 1] /\ n + 1 \in DOMAIN owed /\ n + 1 # 1
  BY <1>1, <1>2
<1> HIDE DEF m
<1>5. m \in Messages /\ CallsOK(m)
  BY <1>4, ResultFacts
<1>6. m \in Outcomes => IsOpen(s, m.answers)
  BY <1>1, <1>4 DEF OwedIsOpen
<1>7. t \in Seq(Messages) /\ t # <<>> /\ (\A k \in DOMAIN t : CallsOK(t[k])) /\ ResultsHaveCalls(t)
  BY <1>1, <1>5, <1>6, StoredType
<1> HIDE DEF t
<1>8. TypesOK'
  BY <1>1, <1>2, <1>3, <1>4, <1>7 DEF TypesOK
<1>9. OwedIsOpen'
  <2>1. \A n \in DOMAIN Tail(owed) : Tail(owed)[n] \notin Outcomes
    BY <1>1, <1>4 DEF OwedIsOpen
  <2> QED BY <1>2, <2>1 DEF OwedIsOpen
<1>10. TodoIsOpen' /\ RunAgrees' /\ PromptIsLast'
  BY <1>2, <1>3 DEF TodoIsOpen, RunAgrees, PromptIsLast
<1>11. ResultsHaveCalls(transcript)'
  BY <1>2, <1>7
<1> QED BY <1>8, <1>9, <1>10, <1>11 DEF HistInv

\* The end of a run that owes nothing.
LEMMA ClosedKeeps ==
  ASSUME HistInv, Closed
  PROVE  HistInv'
<1>1. phase = "closing" /\ owed = <<>> /\ phase' = "stopped" /\ UNCHANGED <<transcript, todo, seen, owed, sent>>
  BY DEF Closed
<1>2. TypesOK'
  BY <1>1 DEF HistInv, TypesOK, Ended
<1>3. TodoIsOpen' /\ OwedIsOpen' /\ RunAgrees' /\ PromptIsLast' /\ ResultsHaveCalls(transcript)'
  BY <1>1 DEF HistInv, TypesOK, TodoIsOpen, OwedIsOpen, RunAgrees, PromptIsLast
<1> QED BY <1>2, <1>3 DEF HistInv

\* So every step keeps the invariant.
LEMMA StepHolds == HistInv /\ [Next]_vars => HistInv'
<1> SUFFICES ASSUME HistInv, [Next]_vars PROVE HistInv'
  OBVIOUS
<1>1. ASSUME NEW size \in Sizes, Prompt(size) PROVE HistInv'
  BY <1>1, PromptKeeps
<1>2. ASSUME NEW size \in Sizes, StoreResult(size) PROVE HistInv'
  BY <1>2, StoreResultKeeps
<1>3. ASSUME NEW calls \in Turns, Turn(calls) PROVE HistInv'
  BY <1>3, TurnKeeps
<1>4. ASSUME NEW text \in BOOLEAN, TurnFails(text) PROVE HistInv'
  BY <1>4, TurnFailsKeeps
<1>5. ASSUME NEW begun \in BOOLEAN, Abandon(begun) PROVE HistInv'
  BY <1>5, AbandonKeeps
<1>6. ASSUME NEW current \in {"waiting", "running", "over"}, Crash(current) PROVE HistInv'
  BY <1>6, CrashKeeps
<1>7. CASE Answer
  BY <1>7, AnswerKeeps
<1>8. CASE Close
  BY <1>8, CloseKeeps
<1>9. CASE Closed
  BY <1>9, ClosedKeeps
<1>10. CASE UNCHANGED vars
  BY <1>10 DEF vars, HistInv, TypesOK, TodoIsOpen, OwedIsOpen, RunAgrees, PromptIsLast
<1> QED BY <1>1, <1>2, <1>3, <1>4, <1>5, <1>6, <1>7, <1>8, <1>9, <1>10 DEF Next

----------------------------------------------------------------------------
\* What follows from it.

\* The transcript of a conversation, in every state: its results belong to
\* calls, and what a run was told is what its transcript says.
THEOREM HistoryHolds == Spec => []HistInv
<1>1. Init => HistInv
  BY InitHolds
<1>2. HistInv /\ [Next]_vars => HistInv'
  BY StepHolds
<1> QED BY <1>1, <1>2, PTL DEF Spec

\* The members of a list over X are in X.
LEMMA ListMembers ==
  ASSUME NEW X, NEW s \in Seq(X)
  PROVE  ToSet(s) \subseteq X
BY DEF ToSet

\* The invariant has the types in it.
LEMMA TypesFollow == TypesOK => TypeOK
<1> SUFFICES ASSUME TypesOK PROVE TypeOK
  OBVIOUS
<1>1. ASSUME NEW i \in DOMAIN transcript
      PROVE  /\ transcript[i].role \in {"user", "assistant", "tool"}
             /\ ToSet(transcript[i].calls) \subseteq [id : Ids, kind : Kinds]
             /\ transcript[i].said \in {"text", "actual", "cancelled", "unknown"}
             /\ transcript[i].size \in Sizes \cup {1}
  <2>1. transcript[i] \in Messages
    BY DEF TypesOK
  <2>2. transcript[i].calls \in Seq(Calls)
    BY <2>1 DEF Messages
  <2>3. ToSet(transcript[i].calls) \subseteq Calls
    BY <2>2 DEF ToSet
  <2> QED BY <2>1, <2>3 DEF Messages, Calls
<1>2. ToSet(todo) \subseteq [id : seen, kind : Kinds]
  <2>1. todo \in Seq([id : seen, kind : Kinds])
    BY DEF TypesOK
  <2> QED BY <2>1, ListMembers
<1>3. \A i \in DOMAIN owed : owed[i].role = "tool"
  <2>1. owed \in Seq(Results)
    BY DEF TypesOK
  <2>2. \A i \in DOMAIN owed : owed[i] \in Results
    BY <2>1
  <2> QED BY <2>2 DEF Results
<1> QED BY <1>1, <1>2, <1>3 DEF TypesOK, TypeOK

\* For all windows, sizes and histories: each call of each turn that the
\* provider is told is answered once, right behind its turn, nothing else is
\* answered, and the prompt of the user comes last.
THEOREM CallsAnswered == Spec => []CallsAreAnsweredOnce
<1>1. HistInv => CallsAreAnsweredOnce
  <2> SUFFICES ASSUME HistInv PROVE CallsAreAnsweredOnce
    OBVIOUS
  <2> DEFINE P == Project(transcript)
  <2>1. TypeOK /\ transcript \in Seq(Messages) /\ \A i \in DOMAIN transcript : CallsOK(transcript[i])
    BY TypesFollow DEF HistInv, TypesOK
  <2>2. Paired(P, <<>>)
    BY <2>1, WindowPaired
  <2> HIDE DEF P
  <2>3. \A i \in DOMAIN P : P[i].role = "assistant" =>
          /\ Cardinality(AnswersTo(P, i)) = Len(P[i].calls)
          /\ {P[j].answers : j \in AnswersTo(P, i)} = ToSet(IdsOf(P[i].calls))
    BY <2>2, PairedCounts
  <2>4. \A j \in DOMAIN P : P[j].role = "tool" => \E i \in DOMAIN P : P[i].role = "assistant" /\ j \in AnswersTo(P, i)
    BY <2>2 DEF Paired, HasTurn
  <2>5. phase = "stream" /\ seen = {} => sent # <<>> /\ Last(sent) = Last(transcript)
    BY DEF HistInv, PromptIsLast
  <2> QED BY <2>1, <2>3, <2>4, <2>5 DEF CallsAreAnsweredOnce, P
<1> QED BY <1>1, HistoryHolds, PTL

\* After a run that completed, the projection of the transcript is what the
\* provider was told, if the window has room and nobody was asked.
THEOREM HistoriesStayEqual == Spec => []HistoriesAgree
<1>1. HistInv => HistoriesAgree
  <2> SUFFICES ASSUME HistInv, phase = "completed", WithinLimits(transcript), NobodyAsks(transcript)
               PROVE Project(transcript) = sent
    BY DEF HistoriesAgree, WithinLimits
  <2> DEFINE p == Projected(transcript)
  <2>1. transcript \in Seq(Messages) /\ todo = <<>>
    BY DEF HistInv, TypesOK
  <2>2. p = [out |-> sent, pending |-> <<>>]
    BY <2>1, EmptyIds DEF HistInv, RunAgrees
  <2>3. TakeRecent(transcript) = transcript
    BY <2>1, WindowIsAll
  <2>4. p \in Projections
    BY <2>2, <2>1 DEF Projections, HistInv, TypesOK
  <2> HIDE DEF p
  <2>5. ClosePending(p) = p
    BY <2>2, <2>4, ClosedNothing
  <2> QED BY <2>2, <2>3, <2>5 DEF Project, p
<1> QED BY <1>1, HistoryHolds, PTL

\* No result that is stored behind its turn in the window is dropped or told as
\* cancelled: unless a turn asked the user, the provider is told exactly the
\* stored results behind the first turn of the window.
THEOREM ResultsStayTold == Spec => []ResultsAreTold
<1>1. HistInv => ResultsAreTold
  BY WindowTold DEF HistInv, TypesOK, ResultsAreTold
<1> QED BY <1>1, HistoryHolds, PTL
==============================================================================
